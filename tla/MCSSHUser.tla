------------------------------ MODULE MCSSHUser ------------------------------
(***************************************************************************)
(* Small instances of the parts of the SSH library that work on top of the *)
(* transport and the multiplexer: authentication, the agent, forwarded     *)
(* connections, sessions and the line editor; and of the wire format below *)
(* them.  The parts share no state; a behaviour exercises one of them, and *)
(* the others rest.                                                        *)
(***************************************************************************)
EXTENDS SSHAuth, SSHAgent, SSHForward, SSHSession, Terminal, SSHWire

VARIABLE part   \* the part that runs

userVars == <<part, authVars, agentVars, fwdVars, sessionVars, termVars, wireVars>>

-----------------------------------------------------------------------------
(* Authentication: keys, certificates and configurations *)

PlainKey(n, users) ==
  [name |-> n, cert |-> FALSE, algo |-> TRUE, accepts |-> users, type |-> "none",
   principals |-> {}, after |-> 0, before |-> 0, authority |-> FALSE,
   verifies |-> FALSE, revoked |-> FALSE, options |-> {}, address |-> "none"]
Cert(n, users) == [PlainKey(n, {}) EXCEPT !.cert = TRUE, !.type = "user", !.principals = users,
                   !.before = 2 * Half - 1, !.authority = TRUE, !.verifies = TRUE]

MCKeys == {PlainKey("plain", {"alice"}), [Cert("cert", {}) EXCEPT !.before = 1],
           [Cert("rooted", {"bob"}) EXCEPT !.options = {"source-address"}, !.address = "network"],
           [Cert("far", {"alice"}) EXCEPT !.options = {"source-address"}, !.address = "address4"],
           [Cert("strict", {"alice"}) EXCEPT !.options = {"force-command"}],
           [Cert("odd", {"alice"}) EXCEPT !.algo = FALSE],
           [Cert("late", {"alice"}) EXCEPT !.after = Half + 1], [Cert("early", {"bob"}) EXCEPT !.after = 1]}

Method(m, c, n) == [method |-> m, cred |-> c, max |-> n]
Base == [client |-> "library", server |-> "library", mode |-> "authenticate", user |-> "alice",
         auth |-> <<Method("publickey", "", 1), Method("password", "bob", 2),
                    Method("password", "alice", 1), Method("keyboard", "alice", 1)>>,
         signers |-> <<"strict", "plain">>, callbacks |-> {"password", "publickey", "keyboard"},
         noClientAuth |-> FALSE, says |-> {}, prompts |-> <<<<"prompt">>, <<>>>>]

\* Every configuration of the server, with clients that have something to offer or not.
Together == {[Base EXCEPT !.callbacks = c, !.noClientAuth = n, !.signers = s, !.mode = m] :
               c \in SUBSET {"password", "publickey", "keyboard"}, n \in BOOLEAN,
               s \in {<<>>, <<"strict", "plain">>, <<"cert", "far", "odd", "late">>},
               m \in {"authenticate", "dontAuthenticate", "noUserAuth"}}

\* What a client that is not this code may send: other users and keys than it asked
\* about, answers nobody asked for, signatures that do not verify.
AnyRequests ==
  {Plain("serviceRequest"), Request("alice", "none", "", "none"),
   Request("alice", "password", "", "bob"), Request("bob", "password", "", "bob"),
   Request("alice", "publickey", "plain", "badFormat"),
   Request("alice", "publickey", "plain", "badSignature"),
   Request("alice", "keyboard", "", "none"), AuthMsg("infoResponse", "", "", "", "alice", <<>>)}
  \cup {AuthMsg("infoResponse", "", "", "", u, <<"prompt">>) : u \in Users}
KeyRequests ==
  {Plain("serviceRequest"), Request("bob", "password", "", "bob")}
  \cup {Request(u, "publickey", k, a) : u \in Users, k \in {"plain", "cert", "early"},
                                       a \in {"query", "signed"}}

\* What a server that is not this code may answer.
AnyReplies ==
  {Plain("serviceAccept"), Plain("success"), Plain("banner")}
  \cup {AuthMsg("failure", "", "", "", "", l) : l \in {<<>>, Callbacks}}
  \cup {AuthMsg("pubKeyOk", "", "", k, "", <<>>) : k \in {"plain", "strict"}}
  \cup {AuthMsg("infoRequest", "", "", "", "", <<"prompt">>)}

RestingSetup == [Base EXCEPT !.client = "any"]
MCSetups == Together \cup {RestingSetup}
  \cup {[Base EXCEPT !.client = "any", !.prompts = p, !.says = AnyRequests] :
          p \in {<<<<"prompt">>>>, <<<<>>, <<"prompt">>>>}}
  \cup {[Base EXCEPT !.client = "any", !.says = KeyRequests]}
  \cup {[Base EXCEPT !.server = "any", !.mode = m, !.says = AnyReplies] :
          m \in {"authenticate", "dontAuthenticate"}}
  \cup {[Base EXCEPT !.server = "any", !.says = AnyReplies,
                     !.auth = <<Method("password", "bob", 0), Method("keyboard", "alice", 1)>>]}

-----------------------------------------------------------------------------
(* The agent: two goroutines on one client, and one in the agent's process *)

Do(op, n) == [op |-> op, name |-> n, kind |-> "rsa", cert |-> "none", life |-> 0]
AddKey(n, l) == [Do("Add", n) EXCEPT !.life = l]
Three(a, b, l) == [g \in Remotes \cup {"local"} |-> IF g = "local" THEN l ELSE IF g = "g1" THEN a ELSE b]
RestingScript == Three(<<>>, <<>>, <<>>)
MCAgentScripts ==
  {RestingScript,
   Three(<<AddKey("k1", 1), Do("List", "")>>,
         <<Do("Sign", "k2"), Do("Remove", "k1")>>,
         <<AddKey("k1", 1), Do("Sign", "k1")>>),
   Three(<<Do("Lock", "pw"), Do("Unlock", "pw"), Do("Sign", "k1")>>,
         <<Do("List", ""), Do("Unlock", "no")>>,
         <<AddKey("k1", 0), Do("Lock", "no"), Do("Signers", ""), Do("RemoveAll", "")>>),
   Three(<<[AddKey("k1", 0) EXCEPT !.kind = "threePrimes"], [AddKey("k1", 0) EXCEPT !.kind = "bigExponent"],
           [AddKey("k1", 0) EXCEPT !.cert = "k2"]>>,
         <<[AddKey("k2", 1) EXCEPT !.kind = "offCurve"],
           [AddKey("k2", 1) EXCEPT !.kind = "bigExponent", !.cert = "k2"]>>,
         <<[AddKey("k1", 0) EXCEPT !.kind = "unknown"]>>),
   Three(<<>>, <<[AddKey("k2", 0) EXCEPT !.cert = "k2"], Do("Remove", "k1"), Do("Signers", "")>>,
         <<AddKey("k1", 0), AddKey("k2", 1), AddKey("k1", 0), AddKey("k2", 2), Do("Signers", "")>>)}

-----------------------------------------------------------------------------
(* Forwarded connections *)

Fwd(a1, a2, n, x, c) ==
  [addr |-> [l \in Listeners |-> IF l = "l1" THEN a1 ELSE a2], listens |-> Listeners,
   opens |-> n, strange |-> x, ends |-> TRUE, closes |-> [l \in Listeners |-> l \in c]]
RestingPlan == [Fwd("a1", "a2", 0, FALSE, {}) EXCEPT !.listens = {}, !.ends = FALSE]
MCFwd == {RestingPlan, Fwd("a1", "a1", 1, FALSE, {"l1"}), Fwd("a1", "a2", 1, TRUE, {}),
          [Fwd("a1", "a1", 4, FALSE, {"l1"}) EXCEPT !.ends = FALSE]}

-----------------------------------------------------------------------------
(* Sessions: programs that exit, die of a signal, or say nothing *)

Item(k, n) == [kind |-> k, n |-> n]
Short == <<Item("stdout", 0), Item("exit-status", 0), Item("close", 0)>>
Programs ==
  {<<Item("stdout", 0), Item("exit-status", 0), Item("stderr", 0), Item("close", 0)>>,
   <<Item("stdout", 0), Item("stdout", 0), Item("exit-status", 3), Item("keepalive", 0), Item("close", 0)>>,
   <<Item("exit-signal", 9), Item("stdout", 0), Item("close", 0)>>,
   <<Item("exit-signal", 2), Item("exit-status", 0), Item("close", 0)>>,
   <<Item("exit-signal", 50), Item("stdout", 0), Item("close", 0)>>,
   <<Item("exit-signal", -1), Item("keepalive", 0), Item("stdout", 0), Item("close", 0)>>,
   <<Item("stdout", 0), Item("exit-status", -1), Item("close", 0)>>,
   <<Item("stderr", 0), Item("keepalive", 0), Item("keepalive", 0), Item("close", 0)>>}
Session(in, o, e, n, ends, denied, sends) ==
  [stdin |-> in, stdout |-> o, stderr |-> e, input |-> n, inputEnds |-> ends, denied |-> denied,
   sends |-> sends, starts |-> TRUE]
RestingSession == [Session("nil", "writer", "writer", 0, TRUE, FALSE, <<>>) EXCEPT !.starts = FALSE]
MCSessions ==
  {RestingSession}
  \cup {Session("nil", "writer", e, 0, TRUE, FALSE, p) : e \in {"writer", "pipe"}, p \in Programs}
  \cup {Session("reader", "writer", "pipe", 2, b, FALSE, Short) : b \in BOOLEAN}
  \cup {Session("pipe", "pipe", "pipe", 0, TRUE, d, Short) : d \in BOOLEAN}
MCSignalNumber == [n \in {2, 9} |-> n]

-----------------------------------------------------------------------------
(* The terminal *)

UpKey == <<"ESC", "[", "A">>
DownKey == <<"ESC", "[", "B">>
LeftKey == <<"ESC", "[", "D">>
OneLine == <<"o", "CRLF">>
TwoLines == <<"o", "CRLF", "o", "CRLF">>
Job(b, c, w) == [bytes |-> b, calls |-> c, writes |-> w]
EditKeys == {<<"a">>, <<" ">>, <<"^H">>, LeftKey, <<"^A">>, <<"^E">>, <<"^K">>, <<"^W">>, <<"^D">>,
             <<"^U">>, <<"^L">>, AltLeft, AltRight}
\* Every pair of edits on a line that fills its row exactly, or wraps.
Edits == {Job(l \o m \o a \o b, <<"line">>, <<>>) :
            l \in {<<"a", "a">>, <<"a", " ", "a", "a", "a">>}, m \in {<<>>, LeftKey \o LeftKey},
            a \in EditKeys, b \in EditKeys}
Recalls == {Job(<<"a", "CR", "a", " ", "a", "a", "CR", " ", "CR">> \o UpKey \o UpKey \o DownKey \o DownKey
                \o <<"CR">>, <<"line", "line", "line", "line">>, <<OneLine>>)}
Pastes == {Job(<<"a">> \o a \o PasteStart \o <<"p">> \o b \o <<"CR", "p">> \o PasteEnd \o <<"a", "CR">>,
               <<"line", "line", "line">>, <<>>) :
             a \in {<<>>, <<"^H">>, <<"CR">>}, b \in {<<>>, UpKey, PasteEnd \o PasteStart}}
Partial == {Job(a \o <<"a">> \o b \o <<"CR">>, <<"line", "line">>, <<OneLine>>) :
              a \in {AltLeft, LeftKey, <<"ESC", "[", "9", "~">>}, b \in {UpKey, AltRight, <<"^A">>}}
Passwords == {Job(<<"a", "CR", "s", "s", "^K", "s">> \o LeftKey \o <<"^K", "CR", "a", "CR">>,
                  <<"line", "password", "line">>, <<w>>) : w \in {OneLine, <<"o">>}}
\* Another goroutine writes, at every moment, also with the cursor on an upper row.
Writes == {Job(<<"a", "a", "a", "a", "a">> \o m \o <<"a", "CR", "a">> \o c \o <<"a">>, <<"line", "line">>, w) :
             m \in {<<>>, <<"^A">>}, c \in {<<>>, <<"^L">>},
             w \in {<<OneLine>>, <<TwoLines>>, <<<<"o">>>>, <<<<"o">>, OneLine>>, <<<<>>, TwoLines>>}}
RestingJob == Job(<<>>, <<>>, <<>>)
MCTerm == {RestingJob} \cup Writes \cup Edits \cup Recalls \cup Pastes \cup Partial \cup Passwords

-----------------------------------------------------------------------------
(* The wire format *)

Msg(tags, fields, bare) == [tags |-> tags, fields |-> fields, bare |-> bare]
MCMessages ==
  (1 :> Msg(<<1>>, <<"names", "uint8">>, FALSE))
  @@ (2 :> Msg(<<2, 3>>, <<"mpint", "bool", "string", "rest">>, FALSE))
  @@ (3 :> Msg(<<3>>, <<>>, TRUE))
NameLists == {<<>>, <<<<0>>>>, <<<<3, 1>>, <<>>>>, <<<<>>, <<0>>, <<>>>>}
MCWire ==
  {[op |-> "marshal", msg |-> 1, values |-> <<l, b>>] : l \in NameLists, b \in 0..3}
  \cup {[op |-> "marshal", msg |-> 2, values |-> <<n, b, s, r>>] :
          n \in -80..80, b \in BOOLEAN, s \in {<<>>, <<2, 2, 0>>}, r \in {<<>>, <<2, 0>>}}
  \cup {[op |-> "decode", packet |-> <<t>> \o b] : t \in 0..3, b \in UNION {[1..k -> 0..3] : k \in 0..5}}
  \cup {[op |-> "write", cipher |-> c, n |-> n] :
          c \in {"plain", "stream", "gcm", "aes128-cbc", "3des-cbc"}, n \in 0..55}
  \cup {[op |-> "read", cipher |-> c, frame |-> Frame(l, p, 0, 0)] :
          c \in {"aes128-cbc", "3des-cbc"}, l \in 0..60, p \in {0, 3, 4, 12, 19, 30, 255}}
  \cup {[op |-> "incIV", iv |-> v] : v \in [1..3 -> 0..3]}
RestingWire == [op |-> "incIV", iv |-> <<0>>]

-----------------------------------------------------------------------------
Chosen(p, all, resting) == IF part = p THEN all ELSE {resting}

UserInit ==
  /\ part \in {"auth", "agent", "forward", "session", "terminal", "wire"}
  /\ setup \in Chosen("auth", AuthSetups, RestingSetup)
  /\ script \in Chosen("agent", AgentScripts, RestingScript)
  /\ plan \in Chosen("forward", FwdScenarios, RestingPlan)
  /\ conf \in Chosen("session", SessionSetups, RestingSession)
  /\ todo \in Chosen("terminal", TermScripts, RestingJob)
  /\ IF part = "wire" THEN WireInit ELSE wireCall = RestingWire /\ wireResult = NotYet
  /\ AuthInit /\ AgentInit /\ FwdInit /\ SessionInit /\ TermInit

UserNext ==
  \/ /\ part = "auth" /\ AuthNext
     /\ UNCHANGED <<part, agentVars, fwdVars, sessionVars, termVars, wireVars>>
  \/ /\ part = "agent" /\ AgentNext
     /\ UNCHANGED <<part, authVars, fwdVars, sessionVars, termVars, wireVars>>
  \/ /\ part = "forward" /\ FwdNext
     /\ UNCHANGED <<part, authVars, agentVars, sessionVars, termVars, wireVars>>
  \/ /\ part = "session" /\ SessionNext
     /\ UNCHANGED <<part, authVars, agentVars, fwdVars, termVars, wireVars>>
  \/ /\ part = "terminal" /\ TermNext
     /\ UNCHANGED <<part, authVars, agentVars, fwdVars, sessionVars, wireVars>>
  \/ /\ part = "wire" /\ WireNext
     /\ UNCHANGED <<part, authVars, agentVars, fwdVars, sessionVars, termVars>>

\* A part that rests has no step that a fairness condition asks for.
UserSpec == /\ UserInit /\ [][UserNext]_userVars
            /\ AuthFairness /\ AgentFairness /\ FwdFairness /\ SessionFairness
=============================================================================
