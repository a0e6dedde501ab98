------------------------------ MODULE SSHAuth ------------------------------
(***************************************************************************)
(* SSH user authentication (xssh/client_auth.go, server.go) and the        *)
(* certificate checks behind it (certs.go).  One client and one server     *)
(* exchange packets in order; either may be replaced by a peer that sends  *)
(* whatever the protocol's messages allow.  The clock moves while they     *)
(* talk.  A key is a record of what the checks look at.                    *)
(***************************************************************************)
EXTENDS Integers, Sequences, FiniteSets, SequencesExt

CONSTANTS
  Users,          \* user names
  AuthKeys,       \* the keys in play; see AuthKey
  AuthSetups,     \* the configurations of both ends
  CacheSize,      \* maxCachedPubKeys
  SupportedOptions, \* CertChecker.SupportedCriticalOptions
  LastTime,       \* bound: the clock runs from 0 to LastTime
  Half,           \* 2^63: the times of a certificate are unsigned, the clock is signed
  PeerMessages    \* bound: how many messages a peer that is not this code sends

ASSUME AuthAssumption == /\ CacheSize \in Nat
                         /\ PeerMessages \in Nat
                         /\ LastTime \in Nat /\ Half \in Nat /\ Half > LastTime

NoMethods == <<"nil">>      \* a nil list of methods
Callbacks == <<"password", "publickey", "keyboard">>

VARIABLES
  setup,    \* the configurations
  up,       \* packets on their way to the server
  down,     \* packets on their way to the client
  cli,      \* the client's goroutine
  srv,      \* the server's goroutine
  clock,    \* CertChecker.Clock
  sent,     \* how many messages the peer that is not this code sent
  acked,    \* history: the keys that were acknowledged to the client
  tries,    \* history: the entries of config.Auth the client used, in order
  asked     \* history: every user, key and time PublicKeyCallback saw

authVars == <<setup, up, down, cli, srv, clock, sent, acked, tries, asked>>

AuthMsg(kind, user, method, key, arg, list) ==
  [kind |-> kind, user |-> user, method |-> method, key |-> key, arg |-> arg, list |-> list]
Plain(kind) == AuthMsg(kind, "", "", "", "", <<>>)
Request(user, method, key, arg) == AuthMsg("request", user, method, key, arg, <<>>)

-----------------------------------------------------------------------------
(* certs.go and checkSourceAddress *)

\* A restriction on the client's address: none, one that is the client's network or
\* another one, a single address, or text that is neither.  bytes.Equal compares the
\* sixteen bytes of ParseIP with the address of the connection, which has four bytes
\* when it is an IPv4 one: address4 never matches.
checkSourceAddress(restriction) == restriction \in {"network", "address16"}

int64(x) == IF x >= Half THEN x - 2 * Half ELSE x
Infinity == 2 * Half - 1    \* CertTimeInfinity

\* CertChecker.CheckCert; now is clock().Unix().
CheckCert(principal, cert, now) ==
  /\ ~cert.revoked
  /\ cert.options \ {"source-address"} \subseteq SupportedOptions
  /\ cert.principals = {} \/ principal \in cert.principals
  /\ cert.authority
  /\ int64(cert.after) >= 0 /\ now >= int64(cert.after)
  /\ cert.before = Infinity \/ (now < int64(cert.before) /\ int64(cert.before) >= 0)
  /\ cert.verifies

\* CertChecker.Authenticate as PublicKeyCallback.  A key that is no certificate goes
\* to UserKeyFallback, which accepts it for the users of key.accepts.
Authenticate(user, key, now) ==
  IF ~key.cert THEN [ok |-> user \in key.accepts, perms |-> "none"]
  ELSE IF key.type # "user" \/ ~CheckCert(user, key, now) THEN [ok |-> FALSE, perms |-> "none"]
  ELSE [ok |-> TRUE, perms |-> key.name]

KeyNamed(n) == CHOOSE k \in AuthKeys : k.name = n

-----------------------------------------------------------------------------
(* The client: client_auth.go *)

\* auth is the index in config.Auth, 0 for the none method.  at: the signer whose turn
\* it is; valid: the signers the server would take; methods: what the last failure said.
ClientStart == [pc |-> "service", auth |-> 0, tried |-> {}, lastMethods |-> NoMethods,
                at |-> 1, valid |-> <<>>, methods |-> NoMethods, round |-> 0, log |-> NoMethods]

Entry(a) == IF a = 0 THEN [method |-> "none", max |-> 1, cred |-> "none"] ELSE setup.auth[a]

ToServer(m) == up' = Append(up, m)
Here == setup.client = "library"

\* clientAuthenticate up to the first method; without CollectUserAuth a scan stops here.
RequestService ==
  /\ Here /\ cli.pc = "service"
  /\ IF setup.mode = "noUserAuth"
       THEN cli' = [cli EXCEPT !.pc = "ok"] /\ UNCHANGED up
       ELSE cli' = [cli EXCEPT !.pc = "accept"] /\ ToServer(Plain("serviceRequest"))
  /\ UNCHANGED <<setup, down, srv, clock, sent, acked, tries, asked>>

\* What auth.auth of the chosen entry does until it reads: none, password and
\* keyboard-interactive send their request, publickey asks about its first signer.
Begin(c, a) ==
  LET e == Entry(a)
      query == e.method = "publickey" IN
  IF query /\ setup.signers = <<>>
    THEN [c |-> [c EXCEPT !.pc = "result", !.auth = a, !.methods = NoMethods], out |-> <<>>]
    ELSE [c |-> [c EXCEPT !.pc = IF query THEN "ack" ELSE IF e.method = "keyboard" THEN "kbd" ELSE "wait",
                          !.auth = a, !.at = 1, !.valid = <<>>, !.methods = NoMethods],
          out |-> << IF query THEN Request(setup.user, "publickey", setup.signers[1], "query")
                     ELSE Request(setup.user, e.method, "", e.cred) >>]

Try(c, a) == /\ cli' = Begin(c, a).c
             /\ up' = up \o Begin(c, a).out
             /\ tries' = Append(tries, a)

ReadServiceAccept ==
  /\ Here /\ cli.pc = "accept" /\ down # <<>>
  /\ down' = Tail(down)
  /\ IF Head(down).kind = "serviceAccept" THEN Try(cli, 0)
       ELSE cli' = [cli EXCEPT !.pc = "err"] /\ UNCHANGED <<up, tries>>
  /\ UNCHANGED <<setup, srv, clock, sent, acked, asked>>

\* handleAuthResponse for none, password and a signed public key: a banner is skipped.
Outcome(m) == CASE m.kind = "success" -> "ok" [] m.kind = "failure" -> "result" [] OTHER -> "err"

\* The signed request for the signer at position i of valid, or the end of the method.
SignNext(c, i) ==
  IF i > Len(c.valid)
    THEN cli' = [c EXCEPT !.pc = "result"] /\ UNCHANGED up
    ELSE cli' = [c EXCEPT !.pc = "signed", !.at = i]
         /\ ToServer(Request(setup.user, "publickey", c.valid[i], "signed"))

\* confirmKeyAck: an acknowledgement of another key counts as a refusal.
confirmKeyAck(m, key) == m.kind = "pubKeyOk" /\ m.key = key

\* The first stage of publicKeyCallback.auth: the next signer, and after the last one
\* the second stage.
ReadAck ==
  /\ Here /\ cli.pc = "ack" /\ down # <<>>
  /\ LET m == Head(down)
         key == setup.signers[cli.at]
         c == [cli EXCEPT !.valid = IF confirmKeyAck(m, key) THEN Append(@, key) ELSE @] IN
     CASE m.kind = "banner" -> UNCHANGED <<cli, up>>
       [] m.kind \notin {"banner", "pubKeyOk", "failure"} ->
            cli' = [cli EXCEPT !.pc = "err"] /\ UNCHANGED up
       [] m.kind \in {"pubKeyOk", "failure"} /\ cli.at < Len(setup.signers) ->
            /\ cli' = [c EXCEPT !.at = @ + 1]
            /\ ToServer(Request(setup.user, "publickey", setup.signers[cli.at + 1], "query"))
       [] OTHER -> SignNext(c, 1)
  /\ down' = Tail(down)
  /\ UNCHANGED <<setup, srv, clock, sent, acked, tries, asked>>

ReadSigned ==
  /\ Here /\ cli.pc = "signed" /\ down # <<>>
  /\ LET m == Head(down) IN
     CASE m.kind = "banner" -> UNCHANGED <<cli, up>>
       [] m.kind = "failure" -> SignNext([cli EXCEPT !.methods = m.list], cli.at + 1)
       [] OTHER -> cli' = [cli EXCEPT !.pc = Outcome(m)] /\ UNCHANGED up
  /\ down' = Tail(down)
  /\ UNCHANGED <<setup, srv, clock, sent, acked, tries, asked>>

ReadResponse ==
  /\ Here /\ cli.pc = "wait" /\ down # <<>>
  /\ LET m == Head(down) IN
     cli' = IF m.kind = "banner" THEN cli
            ELSE [cli EXCEPT !.pc = Outcome(m), !.methods = m.list]
  /\ down' = Tail(down)
  /\ UNCHANGED <<setup, up, srv, clock, sent, acked, tries, asked>>

\* KeyboardInteractiveChallenge.auth: one answer per prompt, as often as it is asked.
ReadChallenge ==
  /\ Here /\ cli.pc = "kbd" /\ down # <<>>
  /\ LET m == Head(down) IN
     CASE m.kind = "banner" -> UNCHANGED <<cli, up>>
       [] m.kind = "infoRequest" -> UNCHANGED cli /\ ToServer(AuthMsg("infoResponse", "", "", "", Entry(cli.auth).cred, m.list))
       [] OTHER -> cli' = [cli EXCEPT !.pc = Outcome(m), !.methods = m.list] /\ UNCHANGED up
  /\ down' = Tail(down)
  /\ UNCHANGED <<setup, srv, clock, sent, acked, tries, asked>>

\* The candidates of config.Auth that the server offers and that were not tried.
Candidates(tried, methods) ==
  {a \in 1..Len(setup.auth) : setup.auth[a].method \in ToSet(methods) \ tried}

\* The rest of the loop of clientAuthenticate, and retryableAuthMethod around a method, which
\* has no limit when max is 0.
NextMethod ==
  /\ Here /\ cli.pc = "result"
  /\ LET e == Entry(cli.auth)
         again == e.max <= 0 \/ cli.round + 1 < e.max
         methods == IF cli.methods = NoMethods THEN cli.lastMethods ELSE cli.methods
         c == [cli EXCEPT !.tried = @ \cup {e.method}, !.lastMethods = methods,
                          !.log = cli.methods, !.round = 0]
         can == Candidates(c.tried, methods) IN
     IF again THEN Try([cli EXCEPT !.round = @ + 1], cli.auth)
     ELSE IF setup.mode = "dontAuthenticate"
       THEN cli' = [cli EXCEPT !.pc = "ok", !.log = cli.methods] /\ UNCHANGED <<up, tries>>
     ELSE IF can = {}
       THEN cli' = [c EXCEPT !.pc = "err"] /\ UNCHANGED <<up, tries>>
     ELSE Try(c, CHOOSE a \in can : \A b \in can : a <= b)
  /\ UNCHANGED <<setup, down, srv, clock, sent, acked, asked>>

\* A read on a connection that the server closed, once the packets are used up.
ClientReadFails ==
  /\ Here /\ cli.pc \in {"accept", "wait", "ack", "signed", "kbd"}
  /\ down = <<>> /\ srv.pc = "err"
  /\ cli' = [cli EXCEPT !.pc = "err"]
  /\ UNCHANGED <<setup, up, down, srv, clock, sent, acked, tries, asked>>

-----------------------------------------------------------------------------
(* The server: server.go *)

\* cache is pubKeyCache.keys; req the request that was accepted (history).
ServerStart == [pc |-> "service", user |-> "", perms |-> "none", cache |-> <<>>, round |-> 0,
                req |-> Plain("none")]
There == setup.server = "library"
ToClient(m) == down' = Append(down, m)

\* failureMsg.Methods, in the order of serverAuthenticate.
FailureMethods == SelectSeq(Callbacks, LAMBDA m : m \in setup.callbacks)

\* The end of one round of userAuthLoop: success, a failure message, or an error when
\* there is nothing to offer.
Answer(s, ok, req) ==
  IF ok THEN srv' = [s EXCEPT !.pc = "ok", !.req = req] /\ ToClient(Plain("success"))
  ELSE IF setup.callbacks = {} THEN srv' = [s EXCEPT !.pc = "err"] /\ UNCHANGED down
  ELSE srv' = [s EXCEPT !.pc = "auth"] /\ ToClient(AuthMsg("failure", "", "", "", "", FailureMethods))

ServiceRequest ==
  /\ There /\ srv.pc = "service" /\ up # <<>>
  /\ up' = Tail(up)
  /\ IF (setup.callbacks = {} /\ ~setup.noClientAuth) \/ Head(up).kind # "serviceRequest"
       THEN srv' = [srv EXCEPT !.pc = "err"] /\ UNCHANGED down
       ELSE srv' = [srv EXCEPT !.pc = "auth"] /\ ToClient(Plain("serviceAccept"))
  /\ UNCHANGED <<setup, cli, clock, sent, acked, tries, asked>>

MutLookup(cache, user, key) == SelectSeq(cache, LAMBDA e : e.key = key)
\* pubKeyCache.get
Lookup(cache, user, key) == SelectSeq(cache, LAMBDA e : e.user = user /\ e.key = key)

\* The verdict on a key: from the cache, or from PublicKeyCallback and the address.
Candidate(user, key) ==
  LET hit == Lookup(srv.cache, user, key)
      v == Authenticate(user, KeyNamed(key), clock)
      addr == KeyNamed(key).address IN
  IF hit # <<>> THEN Head(hit)
  ELSE [user |-> user, key |-> key, perms |-> v.perms,
        result |-> v.ok /\ (v.perms # "none" /\ addr # "none" => checkSourceAddress(addr))]

\* pubKeyCache.add
CacheAdd(c) == IF Lookup(srv.cache, c.user, c.key) = <<>> /\ Len(srv.cache) < CacheSize
                 THEN Append(srv.cache, c) ELSE srv.cache

\* s.user and perms at the start of every round.
Fresh(s, user) == [s EXCEPT !.user = user, !.perms = "none"]

\* The publickey case: a query, or a signature that has to verify.
PublicKey(m) ==
  LET c == Candidate(m.user, m.key)
      s == [Fresh(srv, m.user) EXCEPT !.cache = CacheAdd(c)] IN
  CASE "publickey" \notin setup.callbacks \/ ~KeyNamed(m.key).algo ->
         Answer(Fresh(srv, m.user), FALSE, m) /\ UNCHANGED <<acked, asked>>
    [] OTHER ->
         /\ asked' = IF Lookup(srv.cache, m.user, m.key) = <<>>
                       THEN asked \cup {[user |-> m.user, key |-> m.key, at |-> clock]} ELSE asked
         /\ CASE m.arg = "query" /\ c.result ->
                   /\ srv' = s
                   /\ ToClient(AuthMsg("pubKeyOk", "", "", m.key, "", <<>>))
                   /\ acked' = acked \cup {m.key}
              [] m.arg = "query" /\ ~c.result -> Answer(s, FALSE, m) /\ UNCHANGED acked
              [] m.arg = "badFormat" -> Answer(s, FALSE, m) /\ UNCHANGED acked
              [] m.arg = "badSignature" -> srv' = [s EXCEPT !.pc = "err"] /\ UNCHANGED <<down, acked>>
              [] m.arg = "signed" ->
                   Answer([s EXCEPT !.perms = c.perms], c.result, m) /\ UNCHANGED acked

\* One round of serverAuthenticate.  The keyboard-interactive callback asks its
\* first question; the verdict comes with the last answer.
UserAuthRequest ==
  /\ There /\ srv.pc = "auth" /\ up # <<>>
  /\ up' = Tail(up)
  /\ LET m == Head(up)
         s == Fresh(srv, m.user) IN
     IF m.kind # "request"
       THEN srv' = [srv EXCEPT !.pc = "err"] /\ UNCHANGED <<down, acked, asked>>
     ELSE IF m.method = "publickey" THEN PublicKey(m)
     ELSE /\ UNCHANGED <<acked, asked>>
          /\ CASE m.method = "none" -> Answer(s, setup.noClientAuth, m)
               [] m.method = "password" ->
                    Answer(s, "password" \in setup.callbacks /\ m.arg = m.user, m)
               [] m.method = "keyboard" /\ "keyboard" \in setup.callbacks ->
                    /\ srv' = [s EXCEPT !.pc = "challenge", !.round = 1, !.req = m]
                    /\ ToClient(AuthMsg("infoRequest", "", "", "", "", setup.prompts[1]))
               [] OTHER -> Answer(s, FALSE, m)
  /\ UNCHANGED <<setup, cli, clock, sent, tries>>

\* sshClientKeyboardInteractive.Challenge reads the answers: another packet, or another
\* number of them, is an error that the callback reports.  It asks setup.prompts.
InfoResponse ==
  /\ There /\ srv.pc = "challenge" /\ up # <<>>
  /\ up' = Tail(up)
  /\ LET m == Head(up)
         fits == m.kind = "infoResponse" /\ Len(m.list) = Len(setup.prompts[srv.round]) IN
     IF fits /\ m.arg = srv.user /\ srv.round < Len(setup.prompts)
       THEN /\ srv' = [srv EXCEPT !.round = @ + 1]
            /\ ToClient(AuthMsg("infoRequest", "", "", "", "", setup.prompts[srv.round + 1]))
       ELSE Answer([srv EXCEPT !.round = 0], fits /\ m.arg = srv.user, [srv.req EXCEPT !.arg = m.arg])
  /\ UNCHANGED <<setup, cli, clock, sent, acked, tries, asked>>

\* A client that ends closes the connection, and the server's read fails.
ServerReadFails ==
  /\ There /\ srv.pc \in {"service", "auth", "challenge"} /\ up = <<>>
  /\ \/ cli.pc = "err"
     \/ cli.pc = "ok" /\ setup.mode # "authenticate"
  /\ srv' = [srv EXCEPT !.pc = "err"]
  /\ UNCHANGED <<setup, up, down, cli, clock, sent, acked, tries, asked>>

-----------------------------------------------------------------------------
(* Peers that are not this code, and time *)

\* Another client sends what it likes, without waiting for answers.
AnyClientSends(m) ==
  /\ setup.client = "any" /\ sent < PeerMessages /\ Len(up) < 2
  /\ ToServer(m) /\ sent' = sent + 1
  /\ UNCHANGED <<setup, down, cli, srv, clock, acked, tries, asked>>

\* Another server answers each packet, with banners before.
AnyServerSends(m, reads) ==
  /\ setup.server = "any" /\ sent < PeerMessages
  /\ reads = (m.kind # "banner") /\ up # <<>>
  /\ up' = IF reads THEN Tail(up) ELSE up
  /\ ToClient(m) /\ sent' = sent + 1
  /\ acked' = IF m.kind = "pubKeyOk" THEN acked \cup {m.key} ELSE acked
  /\ UNCHANGED <<setup, cli, srv, clock, tries, asked>>

\* The other server goes away.
AnyServerCloses ==
  /\ setup.server = "any" /\ srv.pc = "service"
  /\ srv' = [srv EXCEPT !.pc = "err"]
  /\ UNCHANGED <<setup, up, down, cli, clock, sent, acked, tries, asked>>

Tick ==
  /\ clock < LastTime /\ srv.pc # "ok"
  /\ clock' = clock + 1
  /\ UNCHANGED <<setup, up, down, cli, srv, sent, acked, tries, asked>>

-----------------------------------------------------------------------------
AuthInit ==
  /\ setup \in AuthSetups
  /\ up = <<>> /\ down = <<>>
  /\ cli = ClientStart /\ srv = ServerStart
  /\ clock = 0 /\ sent = 0
  /\ acked = {} /\ tries = <<>> /\ asked = {}

AuthClientNext ==
  \/ RequestService \/ ReadServiceAccept \/ ReadResponse \/ ReadAck \/ ReadSigned
  \/ ReadChallenge \/ NextMethod \/ ClientReadFails
AuthServerNext == ServiceRequest \/ UserAuthRequest \/ InfoResponse \/ ServerReadFails
AuthPeerNext ==
  \/ \E m \in setup.says : AnyClientSends(m)
  \/ \E m \in setup.says, r \in BOOLEAN : AnyServerSends(m, r)
  \/ AnyServerCloses

AuthNext == AuthClientNext \/ AuthServerNext \/ AuthPeerNext \/ Tick

\* As long as a goroutine of either end can run, one of them does.
AuthFairness == WF_authVars(AuthClientNext \/ AuthServerNext \/ AnyServerCloses)

-----------------------------------------------------------------------------
(* Properties *)

\* The state stays within its domains: packets, program counters, and a cache no larger
\* than maxCachedPubKeys (client_auth.go, server.go).
AuthTypeOK ==
  /\ setup \in AuthSetups
  /\ \A m \in ToSet(up) : m.kind \in {"serviceRequest", "request", "infoResponse"}
  /\ \A m \in ToSet(down) : m.kind \in {"serviceAccept", "success", "failure", "banner",
                                         "pubKeyOk", "infoRequest"}
  /\ cli.pc \in {"service", "accept", "wait", "ack", "signed", "kbd", "result", "ok", "err"}
  /\ cli.auth \in 0..Len(setup.auth) /\ cli.tried \subseteq (ToSet(Callbacks) \cup {"none"})
  /\ srv.pc \in {"service", "auth", "challenge", "ok", "err"}
  /\ Len(srv.cache) <= CacheSize
  /\ clock \in 0..LastTime /\ sent \in 0..PeerMessages
  /\ acked \subseteq {k.name : k \in AuthKeys}

\* Whoever is on the other side, the server accepts only a request that proves what it
\* claims: no authentication where that is allowed, the user's own password or answers,
\* or a signature by a key that PublicKeyCallback accepted, on this connection, for the
\* user of the request, within the certificate's validity; and the permissions it
\* returns are those of that key (serverAuthenticate, with its cache and its reset of
\* perms at every round).
AcceptsGenuine ==
  srv.pc = "ok" =>
    LET m == srv.req
        k == KeyNamed(m.key) IN
    /\ srv.user = m.user
    /\ m.method # "publickey" => srv.perms = "none"
    /\ CASE m.method = "none" -> setup.noClientAuth
         [] m.method = "password" -> m.arg = m.user
         [] m.method = "keyboard" -> m.arg = m.user
         [] m.method = "publickey" ->
              /\ m.arg = "signed"
              /\ srv.perms = IF k.cert THEN k.name ELSE "none"
              /\ \E q \in asked :
                   /\ q.user = m.user /\ q.key = m.key
                   /\ IF ~k.cert THEN m.user \in k.accepts
                      ELSE /\ k.type = "user" /\ k.verifies /\ k.authority /\ ~k.revoked
                           /\ k.principals # {} => m.user \in k.principals
                           /\ k.after <= q.at /\ (q.at < k.before \/ k.before = Infinity)

\* The client signs only with keys the server said it would take: a signed request on
\* the wire is for a key that a pubKeyOk named (publicKeyCallback.auth, confirmKeyAck).
SignsOnlyAcked ==
  Here => \A i \in 1..Len(up) : up[i].arg = "signed" => up[i].key \in acked

\* "Only the first instance of a particular RFC 4252 method will be used during
\* authentication" (client.go): whatever the server answers, an entry of config.Auth is
\* used at most max times, "if maxTries is <= 0 ... indefinitely" but with no other entry in
\* between, and never when an earlier entry has the same method.
FirstInstanceOnly ==
  \A i \in 1..Len(tries) : tries[i] # 0 =>
    /\ setup.auth[tries[i]].max > 0 =>
         Cardinality({j \in 1..Len(tries) : tries[j] = tries[i]}) <= setup.auth[tries[i]].max
    /\ \A j, k \in 1..i : j < k /\ tries[j] = tries[i] => tries[k] = tries[i]
    /\ \A b \in 1..(tries[i] - 1) : setup.auth[b].method # setup.auth[tries[i]].method

\* Both ends agree: when both are this code and talk to the end, the client believes it
\* is authenticated exactly when the server accepted it.
EndsAgree ==
  setup.client = "library" /\ setup.server = "library" /\ setup.mode = "authenticate"
    /\ cli.pc \in {"ok", "err"} => ((cli.pc = "ok") <=> (srv.pc = "ok"))

\* Every authentication ends for the client, and for the server when its client does
\* (no method is tried for ever; the two never wait for each other).
AuthEnds == Here ~> /\ cli.pc \in {"ok", "err"}
                    /\ There /\ setup.mode = "authenticate" => srv.pc \in {"ok", "err"}

\* The server accepts only what is proved to it, whoever the client is; the client uses each
\* method as configured and signs only for keys that were accepted; both come to an end and
\* to the same result.
AuthSound == [](AuthTypeOK /\ AcceptsGenuine /\ SignsOnlyAcked /\ FirstInstanceOnly /\ EndsAgree) /\ AuthEnds
=============================================================================
