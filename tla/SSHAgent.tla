------------------------------ MODULE SSHAgent ------------------------------
(***************************************************************************)
(* The SSH agent (xssh/agent): the keyring in memory, ServeAgent in front  *)
(* of it and the client that several goroutines share over one connection. *)
(* A goroutine of the keyring's own process calls it directly.  The wire   *)
(* carries one request and one reply at a time per caller, in order.       *)
(*                                                                         *)
(* A private key is its kind and its name; a certificate adds the name of  *)
(* the key it was made for.  Time is a counter.                            *)
(***************************************************************************)
EXTENDS Naturals, Sequences, FiniteSets, SequencesExt

CONSTANTS
  Remotes,      \* the goroutines that share one client
  AgentScripts, \* the calls each goroutine makes, in order
  MaxKeys,      \* how many keys a reply of maxAgentResponseBytes lists
  AgentTime,    \* bound: the clock runs from 0 to AgentTime
  Never         \* no expiry

ASSUME AgentAssumption == AgentTime \in Nat /\ MaxKeys \in Nat /\ Never > 2 * AgentTime + 1 /\ "local" \notin Remotes

VARIABLES
  script,    \* script[g]: the calls g still makes
  call,      \* call[g]: where g is in its call, and the result of the last one
  mu,        \* the goroutine that holds client.mu, or "free"
  request,   \* bytes on their way to ServeAgent
  reply,     \* bytes on their way to the client
  serving,   \* ServeAgent: "read" or "gone"
  ring,      \* keyring.keys
  pass,      \* keyring.passphrase while locked, "unlocked" otherwise
  now,       \* the clock
  held,      \* history: what was added and not removed, and until when it was to be held
  served     \* history: the keys that the last List or Sign used, and how many there were

agentVars == <<script, call, mu, request, reply, serving, ring, pass, now, held, served>>
Callers == Remotes \cup {"local"}

\* A call of the Agent interface.  For Add: the private key, the certificate, if any, and
\* the lifetime; for Lock and Unlock the passphrase is in name.
Result(ok, keys, by) == [ok |-> ok, keys |-> keys, by |-> by]
NoResult == Result(FALSE, <<>>, "nobody")

-----------------------------------------------------------------------------
(* keyring.go, every operation under keyring.mu *)

\* The public key of a signer: that of the certificate when there is one.
Blob(c) == [name |-> c.name, cert |-> c.cert]

\* A slice: its array, of which the first len entries are keyring.keys.
Slice(keys) == [array |-> keys, len |-> Len(keys)]
Slices(s) == [array : Seq(ToSet(s.array)), len : Nat]
Contents(s) == SubSeq(s.array, 1, s.len)

MutRemoveLocked(s, want) ==
  LET at == SelectInSeq(Contents(s), LAMBDA e : e.blob = want) IN
  IF at = 0 THEN s ELSE [s EXCEPT !.array[at] = s.array[s.len], !.len = @ - 1]
\* removeLocked: the last entry takes the place of the one that goes, and is looked at there;
\* the array keeps what is behind the end.
removeLocked(s, want) ==
  LET loop[t \in Slices(s), i \in Nat] ==
        IF i > t.len THEN t
        ELSE IF t.array[i].blob = want THEN loop[[t EXCEPT !.array[i] = t.array[t.len], !.len = @ - 1], i]
        ELSE loop[t, i + 1]
  IN loop[s, 1]

Expired(e) == e.expire # Never /\ now > e.expire

\* expireKeysLocked: the range is over the array as long as it was, entries that were moved
\* under it and those behind the new end included.
expireKeysLocked(keys) ==
  LET s == Slice(keys)
      range[t \in Slices(s), i \in Nat] ==
        IF i > Len(keys) THEN t
        ELSE range[IF Expired(t.array[i]) THEN removeLocked(t, t.array[i].blob) ELSE t, i + 1]
  IN Contents(range[s, 1])

\* NewSignerFromKey and NewCertSigner.
Signable(c) == c.kind # "unknown" /\ (c.cert # "none" => c.cert = c.name)

\* Add, with the constraints that reach it; asked is the lifetime that the caller asked for.
KeyringAdd(c, asked, by) ==
  LET until(life) == IF life > 0 THEN now + life ELSE Never
      e == [blob |-> Blob(c), expire |-> until(c.life)]
      ok == pass = "unlocked" /\ Signable(c) IN
  /\ ring' = IF ok THEN Append(ring, e) ELSE ring
  /\ held' = IF ok THEN Append(held, [entry |-> e, until |-> until(asked), remote |-> by # "local"]) ELSE held
  /\ UNCHANGED <<pass, served>>
  /\ call' = [call EXCEPT ![by].result = Result(ok, <<>>, by)]

\* Unlock
KeyringUnlock(c, by) == pass' = IF pass = c.name THEN "unlocked" ELSE pass

\* (History.)  The keys without those that expiry takes with it.
Outlived(keys) ==
  SelectSeq(keys, LAMBDA h : \A f \in ToSet(keys) : f.entry.blob = h.entry.blob => ~Expired(f.entry))
Use(blobs) == served' = [n |-> served.n + 1, blobs |-> blobs]

Returns(by, ok, keys) == call' = [call EXCEPT ![by].result = Result(ok, keys, by)]
Fails(by) == Returns(by, FALSE, <<>>) /\ UNCHANGED <<ring, pass, held, served>>
open == pass = "unlocked"

\* List; a locked keyring has nothing to show.
KeyringList(by) ==
  LET live == expireKeysLocked(ring) IN
  /\ ring' = IF open THEN live ELSE ring
  /\ held' = IF open THEN Outlived(held) ELSE held
  /\ Use(IF open THEN {e.blob : e \in ToSet(live)} ELSE {})
  /\ Returns(by, TRUE, IF open THEN [i \in 1..Len(live) |-> live[i].blob] ELSE <<>>)
  /\ UNCHANGED pass

\* Signers
KeyringSigners(by) ==
  LET live == expireKeysLocked(ring) IN
  /\ ring' = live /\ held' = Outlived(held)
  /\ Use({e.blob : e \in ToSet(live)})
  /\ Returns(by, TRUE, [i \in 1..Len(live) |-> live[i].blob]) /\ UNCHANGED pass

KeyringSign(c, by) ==
  LET live == expireKeysLocked(ring)
      found == \E e \in ToSet(live) : e.blob = Blob(c) IN
  /\ ring' = live /\ held' = Outlived(held)
  /\ Use(IF found THEN {Blob(c)} ELSE {})
  /\ Returns(by, found, <<>>) /\ UNCHANGED pass

KeyringRemove(c, by) ==
  /\ ring' = Contents(removeLocked(Slice(ring), Blob(c)))
  /\ held' = SelectSeq(held, LAMBDA h : h.entry.blob # Blob(c))
  /\ Returns(by, \E e \in ToSet(ring) : e.blob = Blob(c), <<>>) /\ UNCHANGED <<pass, served>>

KeyringRemoveAll(by) ==
  ring' = <<>> /\ held' = <<>> /\ Returns(by, TRUE, <<>>) /\ UNCHANGED <<pass, served>>

KeyringLock(c, by) ==
  pass' = c.name /\ Returns(by, TRUE, <<>>) /\ UNCHANGED <<ring, held, served>>

\* The calls but for Add; a locked keyring fails all but List and Unlock.
KeyringDo(c, by) ==
  CASE c.op = "List" -> KeyringList(by)
    [] c.op = "Signers" /\ open -> KeyringSigners(by)
    [] c.op = "Sign" /\ open -> KeyringSign(c, by)
    [] c.op = "Remove" /\ open -> KeyringRemove(c, by)
    [] c.op = "RemoveAll" /\ open -> KeyringRemoveAll(by)
    [] c.op = "Lock" /\ open -> KeyringLock(c, by)
    [] c.op = "Unlock" -> /\ KeyringUnlock(c, by) /\ Returns(by, pass = c.name, <<>>)
                          /\ UNCHANGED <<ring, held, served>>
    [] OTHER -> Fails(by)

-----------------------------------------------------------------------------
(* server.go *)

\* parseRSAKey, parseDSAKey, parseECDSAKey and parseEd25519Key: the key without the
\* constraints that came with it.
parseKey(c) == [c EXCEPT !.life = 0, !.kind = IF c.kind \in {"bigExponent", "offCurve"} THEN "bad" ELSE @]
\* parseRSACert, parseDSACert, parseECDSACert and parseEd25519Cert.
parseCert(c) == [c EXCEPT !.life = 0, !.kind = IF c.kind = "bigExponent" THEN "bad" ELSE @]

\* insertIdentity
insertIdentity(c, by) ==
  LET k == IF c.cert = "none" THEN parseKey(c) ELSE parseCert(c) IN
  IF k.kind = "bad"
    THEN Fails(by)
    ELSE KeyringAdd(k, c.life, by)

\* One round of the loop of ServeAgent: the request is read, processed and answered; a reply
\* that is too large ends it.  call[by].result is what the bytes of the reply say.
ServeAgent ==
  /\ serving = "read" /\ request # <<>>
  /\ LET c == Head(request).call
         by == Head(request).by IN
     /\ IF c.op = "Add" THEN insertIdentity(c, by) ELSE KeyringDo(c, by)
     /\ IF Len(call'[by].result.keys) > MaxKeys
          THEN serving' = "gone" /\ UNCHANGED reply
          ELSE reply' = Append(reply, by) /\ UNCHANGED serving
  /\ request' = Tail(request)
  /\ UNCHANGED <<script, mu, now>>

\* The connection fails: ServeAgent returns, and reads and writes of the client fail.
AgentConnFails ==
  /\ serving = "read" /\ \E g \in Remotes : call[g].pc # "idle"
  /\ serving' = "gone" /\ request' = <<>>
  /\ UNCHANGED <<script, call, mu, reply, ring, pass, now, held, served>>

-----------------------------------------------------------------------------
(* client.go *)

\* insertKey and insertCert refuse keys before they send anything.
insertKey(c) == c.kind \notin {"unknown", "threePrimes"}
insertCert(c) == insertKey(c) /\ c.cert = c.name

\* What a call sends: Signers is a List.
Sent(c) == IF c.op = "Signers" THEN [c EXCEPT !.op = "List"] ELSE c
Sendable(c) == c.op = "Add" => IF c.cert = "none" THEN insertKey(c) ELSE insertCert(c)

Acquire(g) == mu = "free" /\ mu' = g

\* A call of the client begins; client.call takes the mutex and writes the request.
ClientCall(g) ==
  /\ g \in Remotes /\ call[g].pc = "idle" /\ script[g] # <<>>
  /\ script' = [script EXCEPT ![g] = Tail(@)]
  /\ LET c == Head(script[g]) IN
     IF ~Sendable(c) \/ serving = "gone"
       THEN /\ call' = [call EXCEPT ![g].result = Result(FALSE, <<>>, g)]
            /\ UNCHANGED <<mu, request>>
       ELSE /\ Acquire(g)
            /\ request' = Append(request, [call |-> Sent(c), by |-> g])
            /\ call' = [call EXCEPT ![g] = [pc |-> "reading", call |-> c, result |-> NoResult]]
  /\ UNCHANGED <<reply, serving, ring, pass, now, held, served>>

\* client.call reads the reply, or fails, and frees the mutex.  ServeAgent sends no reply that
\* is larger than the client takes.
ClientReturn(g) ==
  /\ g \in Remotes /\ call[g].pc = "reading"
  /\ \/ /\ reply # <<>> /\ reply' = Tail(reply)
        /\ call' = [call EXCEPT ![g].pc = "idle", ![g].result = call[Head(reply)].result]
     \/ /\ reply = <<>> /\ serving = "gone" /\ UNCHANGED reply
        /\ call' = [call EXCEPT ![g].pc = "idle", ![g].result = Result(FALSE, <<>>, g)]
  /\ mu' = "free"
  /\ UNCHANGED <<script, request, serving, ring, pass, now, held, served>>

\* A goroutine of the agent's process uses the keyring itself.
LocalCall ==
  /\ script["local"] # <<>>
  /\ script' = [script EXCEPT !["local"] = Tail(@)]
  /\ LET c == Head(script["local"]) IN
     IF c.op = "Add" THEN KeyringAdd(c, c.life, "local") ELSE KeyringDo(c, "local")
  /\ UNCHANGED <<mu, request, reply, serving, now>>

AgentTick ==
  /\ now < AgentTime /\ now' = now + 1
  /\ UNCHANGED <<script, call, mu, request, reply, serving, ring, pass, held, served>>

-----------------------------------------------------------------------------
NoCall == [op |-> "none", name |-> "", kind |-> "", cert |-> "none", life |-> 0]

AgentInit ==
  /\ script \in AgentScripts
  /\ call = [g \in Callers |-> [pc |-> "idle", call |-> NoCall, result |-> NoResult]]
  /\ mu = "free" /\ request = <<>> /\ reply = <<>> /\ serving = "read"
  /\ ring = <<>> /\ pass = "unlocked" /\ now = 0
  /\ held = <<>> /\ served = [n |-> 0, blobs |-> {}]

AgentNext ==
  \/ \E g \in Remotes : ClientCall(g) \/ ClientReturn(g)
  \/ ServeAgent \/ AgentConnFails \/ LocalCall \/ AgentTick

\* As long as a caller or the agent can go on, one of them does.
AgentFairness == WF_agentVars(ServeAgent \/ \E g \in Remotes : ClientCall(g) \/ ClientReturn(g))

-----------------------------------------------------------------------------
(* Properties *)

\* The state stays within its domains, and no more than one request is under way.
AgentTypeOK ==
  /\ mu \in Remotes \cup {"free"} /\ serving \in {"read", "gone"}
  /\ Len(request) + Len(reply) <= 1
  /\ \A e \in ToSet(ring) : e.expire \in 0..(2 * AgentTime) \cup {Never}
  /\ now \in 0..AgentTime
  /\ \A g \in Callers : call[g].pc \in {"idle", "reading"}

\* What List and Signers show and Sign uses is in the agent's keeping: it was added, was not
\* removed since, and the agent was not locked.  The lifetime that whoever added it asked for
\* ("the number of seconds that the agent will store the key for", client.go:70) is not over,
\* but for a key that came through ServeAgent: insertIdentity never looks at the constraints
\* (server.go:158-176), and the keyring holds such a key until it is removed.
ServesOnlyHeld ==
  [][served' # served => \A b \in served'.blobs : pass = "unlocked"
        /\ \E h \in ToSet(held) : /\ h.entry.blob = b
                                  /\ h.until >= now \/ (h.remote /\ h.entry.expire = Never)]_agentVars

\* The keyring holds what was added until it is removed or its lifetime is over, and no
\* longer than the next List, Sign or Signers, although entries are moved while the loop of
\* expireKeysLocked runs over them.  Exactly one thing goes before its time: a key that was
\* added again with a longer lifetime, or none, goes with the one that expired, since
\* removeLocked removes "all identities with the given public key".
KeptUntilExpiry ==
  /\ [](ToSet(ring) = {h.entry : h \in ToSet(held)})
  /\ [][served' # served /\ pass = "unlocked" =>
          \A e \in ToSet(ring) :
            e \notin ToSet(ring') <=> \E f \in ToSet(ring) : f.blob = e.blob /\ Expired(f)]_agentVars

\* Two goroutines on one client never take each other's answers, also when calls fail
\* half way (client.mu around write and read).
OwnReply == \A g \in Callers : call[g].pc = "idle" => call[g].result.by \in {g, "nobody"}

\* A locked agent stays locked until someone names the passphrase it was locked with.
LockHolds ==
  [][pass # "unlocked" /\ pass' = "unlocked" =>
       LET named(calls) == calls # <<>> /\ Head(calls).op = "Unlock" /\ Head(calls).name = pass IN
       \/ script'["local"] # script["local"] /\ named(script["local"])
       \/ request # <<>> /\ named(<<Head(request).call>>)]_agentVars

\* Every call of the client returns, with an answer or an error.
AgentCallsReturn == <>(\A g \in Remotes : script[g] = <<>> /\ call[g].pc = "idle")

\* The agent serves the keys in its keeping, all of them and no others, not while it is
\* locked, and each caller gets its own answer.
AgentSound == /\ [](AgentTypeOK /\ OwnReply)
              /\ KeptUntilExpiry /\ ServesOnlyHeld /\ LockHolds /\ AgentCallsReturn
=============================================================================
