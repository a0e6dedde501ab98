---------------------------- MODULE SSHTransport ----------------------------
(***************************************************************************)
(* The rekeying SSH transport (xssh/handshake.go over xssh/transport.go)   *)
(* between two ends that both run it: the read loop, which also runs every *)
(* key exchange while it holds t.mu; the goroutine that asks for the first *)
(* exchange and then becomes the multiplexer, reading packets and          *)
(* answering some of them; and another goroutine that writes.              *)
(*                                                                         *)
(* A packet is its kind, the key it was encrypted with and, for data and   *)
(* the messages of an exchange, its number (the messages of an exchange    *)
(* have types of their own).  Keys are numbered by exchange; 0 is no key.  *)
(* A threshold is counted in packets, not bytes.  Not here: the packets a  *)
(* foreign peer may send out of turn, and first_kex_packet_follows, which  *)
(* this code never sets.                                                   *)
(***************************************************************************)
EXTENDS Naturals, Sequences, FiniteSets, SequencesExt

CONSTANTS
  IncomingCap,     \* capacity of t.incoming (16)
  RekeyThreshold,  \* Config.RekeyThreshold
  MaxSend,         \* bound: packets that the other goroutine of each end writes
  Offers,          \* the Config.KeyExchanges of the two ends to consider
  Faults           \* which of "close" and "hostkey" may happen

ASSUME CapAssumption == IncomingCap \in Nat \ {0}
ASSUME ThresholdAssumption == RekeyThreshold \in Nat
ASSUME FaultsAssumption == Faults \subseteq {"close", "hostkey"}

Ends == {"client", "server"}
Peer(e) == IF e = "client" THEN "server" ELSE "client"
Threads == {"mux", "writer"}

\* kexAlgoMap: how often the two sides exchange a message.  Group exchange
\* has the request and the group before the exchange of the public values.
Rounds(alg) == IF alg = "gex" THEN 2 ELSE 1
ASSUME MaxSendAssumption == MaxSend \in [Ends -> Nat]
ASSUME OffersAssumption == Offers \subseteq [Ends -> Seq({"dh", "ecdh", "curve25519", "gex"})]

VARIABLES
  offer,      \* offer[e]: Config.KeyExchanges of e, in preference order
  net,        \* net[e]: the packets on their way to e
  open,       \* open[e]: e has not closed the connection
  rkey, wkey, \* the keys e reads and writes with (connectionState.packetCipher)
  pending,    \* pending[e]: the directions with a pendingKeyChange
  loop,       \* where e's read loop is
  held,       \* the packet it read and has not put into incoming yet
  round,      \* in an exchange: messages the other side still owes
  readSince, writtenSince,  \* readSinceKex, writtenSinceKex
  incoming,   \* t.incoming, and whether it was closed
  sentInit,   \* t.sentInitMsg # nil
  inits,      \* how many kexInits e sent (history)
  sessionID,  \* t.sessionID, as the number of the exchange it is from
  writeError, \* t.writeError # nil
  thread,     \* thread[e][t]: what the goroutine is doing
  wants,      \* wants[e][t]: the kind of packet it is writing
  sends,      \* how many packets the other goroutine has begun to write
  taken, got  \* of PacketConn: data packets written, and read (history)

wireVars == <<net, open, rkey, wkey, pending>>
kexVars == <<round, sentInit, inits, sessionID, writeError>>
loopVars == <<loop, held, readSince, incoming>>
userVars == <<thread, wants, sends, taken, got, writtenSince>>
vars == <<offer, wireVars, kexVars, loopVars, userVars>>

DataKinds == {"data", "request"}
Packet(k, key, n) == [kind |-> k, key |-> key, n |-> n]

Init ==
  /\ offer \in Offers
  /\ net = [e \in Ends |-> <<>>] /\ open = [e \in Ends |-> TRUE]
  /\ rkey = [e \in Ends |-> 0] /\ wkey = [e \in Ends |-> 0]
  /\ pending = [e \in Ends |-> {}]
  /\ loop = [e \in Ends |-> "top"] /\ held = [e \in Ends |-> Packet("none", 0, 0)]
  /\ round = [e \in Ends |-> 0]
  /\ readSince = [e \in Ends |-> 0] /\ writtenSince = [e \in Ends |-> 0]
  /\ incoming = [e \in Ends |-> [buf |-> <<>>, closed |-> FALSE]]
  /\ sentInit = [e \in Ends |-> FALSE] /\ inits = [e \in Ends |-> 0]
  /\ sessionID = [e \in Ends |-> 0] /\ writeError = [e \in Ends |-> FALSE]
  /\ thread = [e \in Ends |-> [t \in Threads |-> IF t = "mux" THEN "start" ELSE "idle"]]
  /\ wants = [e \in Ends |-> [t \in Threads |-> "data"]]
  /\ sends = [e \in Ends |-> 0]
  /\ taken = [e \in Ends |-> 0] /\ got = [e \in Ends |-> <<>>]

-----------------------------------------------------------------------------
(* The packet layer (xssh/transport.go) *)

\* A write fails once this end has closed, and may once the other end has.
CanWrite(e) == open[e]
CanFail(e) == ~open[e] \/ ~open[Peer(e)]

\* connectionState.writePacket of a list of packets with the current key;
\* what is written to a closed peer is lost.
Sent(e, packets) == IF open[Peer(e)] THEN [net EXCEPT ![Peer(e)] = @ \o packets] ELSE net
KexInit(e) == Packet("kexInit", wkey[e], 0)
KexMsg(e, i) == Packet("kexMsg", wkey[e], i)

\* connectionState.readPacket: a packet under another key fails its MAC, and
\* newKeys without a pending key is bogus.
Arrived(e) == open[e] /\ net[e] # <<>>
Readable(e) == LET p == Head(net[e]) IN
  /\ p.key = rkey[e]
  /\ p.kind = "newKeys" => "read" \in pending[e]
ReadFails(e) == \/ ~open[e]
                \/ net[e] = <<>> /\ ~open[Peer(e)]
                \/ Arrived(e) /\ ~Readable(e)

-----------------------------------------------------------------------------
(* handshakeTransport: t.mu is held by the read loop during an exchange,   *)
(* and otherwise only within a step.                                       *)

MuFree(e) == loop[e] \notin {"kex", "newKeys"}

\* t.cond.Broadcast
Broadcast(e) ==
  thread' = [thread EXCEPT ![e] = [t \in Threads |->
               IF @[t] = "asleep" THEN "woken" ELSE @[t]]]

\* sendKexInitLocked, when there is none yet and the write succeeds.
SendKexInit(e) == /\ net' = Sent(e, <<KexInit(e)>>)
                  /\ sentInit' = [sentInit EXCEPT ![e] = TRUE]
                  /\ inits' = [inits EXCEPT ![e] = @ + 1]

\* findAgreedAlgorithms, of the key exchange: the client's first choice that
\* the server has too.
FindCommon(client, server) == SelectSeq(client, LAMBDA a : a \in Range(server))
Agreed == FindCommon(offer["client"], offer["server"])
KexRounds == IF Agreed = <<>> THEN 0 ELSE Rounds(Head(Agreed))
NewKeysMsg(e) == Packet("newKeys", wkey[e], KexRounds + 1)

MutLoopExit(e) == /\ loop' = [loop EXCEPT ![e] = "done"]
                  /\ incoming' = [incoming EXCEPT ![e].closed = TRUE]
                  /\ writeError' = [writeError EXCEPT ![e] = TRUE]
                  /\ UNCHANGED thread

\* The end of readLoop: readError is set and incoming closed; then, with
\* t.mu, writing is declared dead too.
LoopExit(e) == /\ loop' = [loop EXCEPT ![e] = "done"]
               /\ incoming' = [incoming EXCEPT ![e].closed = TRUE]
               /\ writeError' = [writeError EXCEPT ![e] = TRUE]
               /\ Broadcast(e)

\* readOnePacket, up to the read: ask for new keys when too much was read.
ReadOnePacket(e) ==
  /\ loop[e] = "top"
  /\ \/ /\ readSince[e] > RekeyThreshold /\ ~sentInit[e] /\ CanWrite(e)
        /\ SendKexInit(e)
        /\ loop' = [loop EXCEPT ![e] = "read"]
        /\ UNCHANGED <<incoming, writeError, thread>>
     \/ /\ readSince[e] > RekeyThreshold /\ ~sentInit[e] /\ CanFail(e)
        /\ LoopExit(e) /\ UNCHANGED <<net, sentInit, inits>>
     \/ /\ ~(readSince[e] > RekeyThreshold /\ ~sentInit[e])
        /\ loop' = [loop EXCEPT ![e] = "read"]
        /\ UNCHANGED <<net, sentInit, inits, incoming, writeError, thread>>
  /\ UNCHANGED <<open, rkey, wkey, pending, round, sessionID, held, readSince,
                 writtenSince, wants, sends, taken, got>>

\* A packet that is no kexInit goes to incoming.
ReadOther(e) ==
  /\ loop[e] = "read" /\ Arrived(e) /\ Readable(e) /\ Head(net[e]).kind # "kexInit"
  /\ held' = [held EXCEPT ![e] = Head(net[e])]
  /\ net' = [net EXCEPT ![e] = Tail(@)]
  /\ readSince' = [readSince EXCEPT ![e] = @ + 1]
  /\ loop' = [loop EXCEPT ![e] = "push"]
  /\ UNCHANGED <<open, rkey, wkey, pending, kexVars, incoming, userVars>>

ReadError(e) ==
  /\ loop[e] = "read" /\ ReadFails(e)
  /\ LoopExit(e)
  /\ UNCHANGED <<wireVars, round, sentInit, inits, sessionID, held, readSince,
                 wants, sends, taken, got, writtenSince>>

MutPushOrDrop(e) ==
  /\ loop[e] = "push"
  /\ incoming' = IF Len(incoming[e].buf) < IncomingCap
                 THEN [incoming EXCEPT ![e].buf = Append(@, held[e])] ELSE incoming
  /\ held' = [held EXCEPT ![e] = Packet("none", 0, 0)]
  /\ loop' = [loop EXCEPT ![e] = "top"]
  /\ UNCHANGED <<wireVars, kexVars, readSince, userVars>>

\* t.incoming <- p blocks while incoming is full.
Push(e) ==
  /\ loop[e] = "push" /\ Len(incoming[e].buf) < IncomingCap
  /\ incoming' = [incoming EXCEPT ![e].buf = Append(@, held[e])]
  /\ held' = [held EXCEPT ![e] = Packet("none", 0, 0)]
  /\ loop' = [loop EXCEPT ![e] = "top"]
  /\ UNCHANGED <<wireVars, kexVars, readSince, userVars>>

-----------------------------------------------------------------------------
(* The key exchange *)

\* A failed exchange drops the connection, unblocks the writers and ends the
\* read loop.
FailKex(e) == /\ open' = [open EXCEPT ![e] = FALSE]
              /\ sentInit' = [sentInit EXCEPT ![e] = FALSE]
              /\ writtenSince' = [writtenSince EXCEPT ![e] = 0]
              /\ LoopExit(e)

\* The kexInit of the other side: lock, send ours unless that was done, agree
\* on algorithms, and the client sends its first message.
EnterKeyExchange(e) ==
  /\ loop[e] = "read" /\ Arrived(e) /\ Readable(e) /\ Head(net[e]).kind = "kexInit"
  /\ \/ /\ Agreed # <<>> /\ CanWrite(e)
        /\ LET mine == (IF sentInit[e] THEN <<>> ELSE <<KexInit(e)>>)
                       \o (IF e = "client" THEN <<KexMsg(e, 1)>> ELSE <<>>)
           IN net' = [Sent(e, mine) EXCEPT ![e] = Tail(net[e])]
        /\ sentInit' = [sentInit EXCEPT ![e] = TRUE]
        /\ inits' = IF sentInit[e] THEN inits ELSE [inits EXCEPT ![e] = @ + 1]
        /\ round' = [round EXCEPT ![e] = KexRounds]
        /\ loop' = [loop EXCEPT ![e] = "kex"]
        /\ UNCHANGED <<open, incoming, writeError, thread, writtenSince>>
     \/ /\ Agreed = <<>> /\ CanWrite(e)
        /\ net' = [Sent(e, IF sentInit[e] THEN <<>> ELSE <<KexInit(e)>>) EXCEPT ![e] = Tail(net[e])]
        /\ inits' = IF sentInit[e] THEN inits ELSE [inits EXCEPT ![e] = @ + 1]
        /\ FailKex(e) /\ UNCHANGED round
     \/ /\ CanFail(e)
        /\ net' = [net EXCEPT ![e] = Tail(@)]
        /\ FailKex(e) /\ UNCHANGED <<inits, round>>
  /\ readSince' = [readSince EXCEPT ![e] = @ + 1]
  /\ UNCHANGED <<rkey, wkey, pending, sessionID, held, wants, sends, taken, got>>

MutFinishKeyEarly(e, last) ==
  /\ net' = [net EXCEPT ![e] = Tail(@),
                        ![Peer(e)] = @ \o [i \in 1..Len(last) |->
                                            [last[i] EXCEPT !.key = wkey[e] + 1]]]
  /\ sessionID' = [sessionID EXCEPT ![e] = IF @ = 0 THEN wkey[e] + 1 ELSE @]
  /\ pending' = [pending EXCEPT ![e] = {"read"}]
  /\ wkey' = [wkey EXCEPT ![e] = @ + 1]
  /\ loop' = [loop EXCEPT ![e] = "newKeys"]

\* A message of the key exchange: the client answers with the next one, or,
\* after the last, checks the host key; the server answers each.  Once the
\* result is there both set the session's identifier the first time, prepare
\* the keys and write newKeys, which makes them write with the new key.
FinishExchange(e, last) ==
  /\ net' = [Sent(e, last) EXCEPT ![e] = Tail(net[e])]
  /\ sessionID' = [sessionID EXCEPT ![e] = IF @ = 0 THEN wkey[e] + 1 ELSE @]
  /\ pending' = [pending EXCEPT ![e] = {"read"}]
  /\ wkey' = [wkey EXCEPT ![e] = @ + 1]
  /\ loop' = [loop EXCEPT ![e] = "newKeys"]

\* The number of the message that e sends next in an exchange: the client is
\* one ahead of the messages it has read.
NextMsg(e) == KexRounds - round[e] + (IF e = "client" THEN 2 ELSE 1)

KexMessage(e) ==
  /\ loop[e] = "kex" /\ Arrived(e) /\ Readable(e) /\ Head(net[e]).kind = "kexMsg"
  /\ CanWrite(e)
  /\ \/ /\ round[e] > 1
        /\ net' = [Sent(e, <<KexMsg(e, NextMsg(e))>>) EXCEPT ![e] = Tail(net[e])]
        /\ UNCHANGED <<sessionID, pending, wkey, loop>>
     \/ /\ round[e] = 1
        /\ FinishExchange(e, (IF e = "server" THEN <<KexMsg(e, NextMsg(e))>> ELSE <<>>)
                             \o <<NewKeysMsg(e)>>)
  /\ round' = [round EXCEPT ![e] = @ - 1]
  /\ UNCHANGED <<open, rkey, sentInit, inits, writeError, held, readSince, incoming, userVars>>

\* The exchange fails: the connection, a message of another kind, or, at the
\* client, a signature or a host key that is not accepted.
Expected(e) == IF loop[e] = "kex" THEN "kexMsg" ELSE "newKeys"
KexFails(e) ==
  /\ loop[e] \in {"kex", "newKeys"}
  /\ \/ /\ \/ ReadFails(e)
           \/ Arrived(e) /\ Readable(e) /\ Head(net[e]).kind # Expected(e)
           \/ /\ Arrived(e) /\ Readable(e) /\ loop[e] = "kex"
              /\ "hostkey" \in Faults /\ e = "client" /\ round[e] = 1
        /\ UNCHANGED sessionID
     \/ /\ Arrived(e) /\ Readable(e) /\ loop[e] = "kex" /\ CanFail(e)
        /\ \/ UNCHANGED sessionID
           \/ /\ round[e] = 1 /\ sessionID[e] = 0
              /\ sessionID' = [sessionID EXCEPT ![e] = wkey[e] + 1]
  /\ FailKex(e)
  /\ UNCHANGED <<net, rkey, wkey, pending, round, inits, held, readSince,
                 wants, sends, taken, got>>

MutEndKex(e) ==
  /\ UNCHANGED sentInit
  /\ writtenSince' = [writtenSince EXCEPT ![e] = 0]
  /\ readSince' = [readSince EXCEPT ![e] = 0]
  /\ Broadcast(e)

\* The other side's newKeys: read with the new key from now on, unblock the
\* writers, count from zero, and tell the reader if it was the first time.
EndKex(e) ==
  /\ sentInit' = [sentInit EXCEPT ![e] = FALSE]
  /\ writtenSince' = [writtenSince EXCEPT ![e] = 0]
  /\ readSince' = [readSince EXCEPT ![e] = 0]
  /\ Broadcast(e)

NewKeys(e) ==
  /\ loop[e] = "newKeys" /\ Arrived(e) /\ Readable(e) /\ Head(net[e]).kind = "newKeys"
  /\ net' = [net EXCEPT ![e] = Tail(@)]
  /\ rkey' = [rkey EXCEPT ![e] = @ + 1]
  /\ pending' = [pending EXCEPT ![e] = @ \ {"read"}]
  /\ EndKex(e)
  /\ LET first == rkey[e] = 0 IN
       /\ loop' = [loop EXCEPT ![e] = IF first THEN "push" ELSE "top"]
       /\ held' = IF first THEN [held EXCEPT ![e] = Head(net[e])] ELSE held
  /\ UNCHANGED <<open, wkey, round, inits, sessionID, writeError, incoming, wants,
                 sends, taken, got>>

-----------------------------------------------------------------------------
(* The users of the transport *)

\* sendKexInit(firstKeyExchange), up to the wait for newKeys.
RequestInitialKeyChange(e) ==
  /\ thread[e]["mux"] = "start" /\ MuFree(e)
  /\ \/ /\ sessionID[e] = 0 /\ ~sentInit[e] /\ CanWrite(e)
        /\ SendKexInit(e)
        /\ thread' = [thread EXCEPT ![e]["mux"] = "await"]
        /\ UNCHANGED open
     \/ /\ sessionID[e] = 0 /\ ~sentInit[e] /\ CanFail(e)
        /\ thread' = [thread EXCEPT ![e]["mux"] = "done"]
        /\ open' = [open EXCEPT ![e] = FALSE]
        /\ UNCHANGED <<net, sentInit, inits>>
     \/ /\ ~(sessionID[e] = 0 /\ ~sentInit[e])
        /\ thread' = [thread EXCEPT ![e]["mux"] = "await"]
        /\ UNCHANGED <<net, open, sentInit, inits>>
  /\ UNCHANGED <<rkey, wkey, pending, round, sessionID, writeError, loopVars, wants,
                 sends, taken, got, writtenSince>>

\* readPacket of the handshake, then of the multiplexer.
Receive(e) ==
  /\ thread[e]["mux"] \in {"await", "serve"} /\ incoming[e].buf # <<>>
  /\ LET p == Head(incoming[e].buf) IN
       /\ incoming' = [incoming EXCEPT ![e].buf = Tail(@)]
       /\ \/ /\ thread[e]["mux"] = "await" /\ p.kind = "newKeys"
             /\ thread' = [thread EXCEPT ![e]["mux"] = "serve"]
             /\ UNCHANGED <<open, got, wants>>
          \/ /\ thread[e]["mux"] = "await" /\ p.kind # "newKeys"
             /\ thread' = [thread EXCEPT ![e]["mux"] = "done"]
             /\ open' = [open EXCEPT ![e] = FALSE]
             /\ UNCHANGED <<got, wants>>
          \/ /\ thread[e]["mux"] = "serve"
             /\ got' = [got EXCEPT ![e] = Append(@, p.n)]
             /\ thread' = [thread EXCEPT ![e]["mux"] =
                             IF p.kind = "request" THEN "write" ELSE "serve"]
             /\ wants' = [wants EXCEPT ![e]["mux"] = "data"]
             /\ UNCHANGED open
  /\ UNCHANGED <<net, rkey, wkey, pending, kexVars, loop, held, readSince, sends, taken,
                 writtenSince>>

\* incoming was closed: NewClientConn, or the end of mux.loop, closes the
\* connection.
ReceiveError(e) ==
  /\ thread[e]["mux"] \in {"await", "serve"}
  /\ incoming[e].buf = <<>> /\ incoming[e].closed
  /\ thread' = [thread EXCEPT ![e]["mux"] = "done"]
  /\ open' = [open EXCEPT ![e] = FALSE]
  /\ UNCHANGED <<net, rkey, wkey, pending, kexVars, loopVars, wants, sends, taken, got,
                 writtenSince>>

\* The other goroutine, once the connection is there.
BeginWrite(e) ==
  /\ thread[e]["writer"] = "idle" /\ sends[e] < MaxSend[e]
  /\ thread[e]["mux"] \notin {"start", "await", "done"}
  /\ \E k \in DataKinds : wants' = [wants EXCEPT ![e]["writer"] = k]
  /\ thread' = [thread EXCEPT ![e]["writer"] = "write"]
  /\ sends' = [sends EXCEPT ![e] = @ + 1]
  /\ UNCHANGED <<wireVars, kexVars, loopVars, taken, got, writtenSince>>

After(t) == IF t = "mux" THEN "serve" ELSE "idle"

\* writePacket: ask for new keys when too much was written (an error of that
\* is ignored); wait on cond while an exchange is under way.
NeedsKeys(e) == writtenSince[e] > RekeyThreshold /\ ~sentInit[e]

Sleep(e, t) ==
  /\ thread[e][t] \in {"write", "woken"} /\ MuFree(e) /\ ~writeError[e]
  /\ \/ sentInit[e] /\ UNCHANGED <<net, sentInit, inits>>
     \/ thread[e][t] = "write" /\ NeedsKeys(e) /\ CanWrite(e) /\ SendKexInit(e)
  /\ thread' = [thread EXCEPT ![e][t] = "asleep"]
  /\ UNCHANGED <<open, rkey, wkey, pending, round, sessionID, writeError, loopVars,
                 wants, sends, taken, got, writtenSince>>

Write(e, t) ==
  /\ thread[e][t] \in {"write", "woken"} /\ MuFree(e)
  /\ ~sentInit[e] /\ ~writeError[e] /\ CanWrite(e)
  /\ thread[e][t] = "write" => ~NeedsKeys(e)
  /\ writtenSince' = [writtenSince EXCEPT ![e] = @ + 1]
  /\ taken' = [taken EXCEPT ![e] = @ + 1]
  /\ net' = IF open[Peer(e)]
            THEN [net EXCEPT ![Peer(e)] =
                    Append(@, Packet(wants[e][t], wkey[e], taken[e] + 1))]
            ELSE net
  /\ thread' = [thread EXCEPT ![e][t] = After(t)]
  /\ UNCHANGED <<open, rkey, wkey, pending, kexVars, loopVars, wants, sends, got>>

\* writeError, or an error of the connection.  The error ends the multiplexer,
\* which then closes the connection.
WriteFails(e, t) ==
  /\ thread[e][t] \in {"write", "woken"} /\ MuFree(e)
  /\ writeError[e] \/ (~sentInit[e] /\ CanFail(e))
  /\ thread' = [thread EXCEPT ![e][t] = IF t = "mux" THEN "done" ELSE "idle"]
  /\ open' = IF t = "mux" THEN [open EXCEPT ![e] = FALSE] ELSE open
  /\ IF thread[e][t] = "write" /\ writeError[e] /\ NeedsKeys(e) /\ CanWrite(e)
     THEN SendKexInit(e) ELSE UNCHANGED <<net, sentInit, inits>>
  /\ UNCHANGED <<rkey, wkey, pending, round, sessionID, writeError, loopVars, wants,
                 sends, taken, got, writtenSince>>

\* A user closes the connection, or it is lost.
Close(e) ==
  /\ "close" \in Faults /\ open[e]
  /\ open' = [open EXCEPT ![e] = FALSE]
  /\ UNCHANGED <<net, rkey, wkey, pending, kexVars, loopVars, userVars>>

-----------------------------------------------------------------------------
\* The read loop takes one step at a time.
ReadLoop(e) == \/ ReadOnePacket(e) \/ ReadOther(e) \/ ReadError(e) \/ Push(e)
               \/ EnterKeyExchange(e) \/ KexMessage(e) \/ KexFails(e) \/ NewKeys(e)

WritePacket(e, t) == Sleep(e, t) \/ Write(e, t) \/ WriteFails(e, t)

Mux(e) == \/ RequestInitialKeyChange(e) \/ Receive(e) \/ ReceiveError(e)
          \/ WritePacket(e, "mux")

\* Nothing is left to do: the ends are idle, or gone.
Quiet == \A e \in Ends :
  /\ loop[e] = "done" \/ (loop[e] = "read" /\ net[e] = <<>>)
  /\ thread[e]["mux"] = "done" \/ (thread[e]["mux"] = "serve" /\ incoming[e].buf = <<>>)
  /\ thread[e]["writer"] = "idle"
Stuck(e) == /\ loop[e] = "push" /\ Len(incoming[e].buf) = IncomingCap
            /\ thread[e]["mux"] \in {"asleep", "done"}
Idle == (Quiet \/ \E e \in Ends : Stuck(e)) /\ UNCHANGED vars

Step(e) == /\ \/ ReadLoop(e) \/ Mux(e) \/ BeginWrite(e) \/ Close(e)
              \/ WritePacket(e, "writer")
           /\ UNCHANGED offer

Next == (\E e \in Ends : Step(e)) \/ Idle

Spec == Init /\ [][Next]_vars

\* Goroutines that can take a step do.
FairSpec == /\ Spec
            /\ \A e \in Ends : /\ WF_vars(ReadLoop(e) /\ UNCHANGED offer)
                               /\ WF_vars(Mux(e) /\ UNCHANGED offer)
                               /\ WF_vars(WritePacket(e, "writer") /\ UNCHANGED offer)

-----------------------------------------------------------------------------
(* Properties *)

Kinds == DataKinds \cup {"kexInit", "kexMsg", "newKeys", "none"}

Packets == [kind : Kinds, key : Nat, n : Nat]
Loops == {"top", "read", "push", "kex", "newKeys", "done"}
Doing == {"start", "await", "serve", "write", "asleep", "woken", "idle", "done"}

\* Types of the transport's state (handshakeTransport, connectionState).
TypeWire ==
  /\ offer \in Offers
  /\ net \in [Ends -> Seq(Packets)] /\ open \in [Ends -> BOOLEAN]
  /\ rkey \in [Ends -> Nat] /\ wkey \in [Ends -> Nat]
  /\ pending \in [Ends -> SUBSET {"read"}]
TypeLoop ==
  /\ loop \in [Ends -> Loops] /\ held \in [Ends -> Packets] /\ readSince \in [Ends -> Nat]
  /\ incoming \in [Ends -> [buf : Seq(Packets), closed : BOOLEAN]]
  /\ \A e \in Ends : Len(incoming[e].buf) <= IncomingCap
TypeKex ==
  /\ round \in [Ends -> 0..2] /\ sentInit \in [Ends -> BOOLEAN] /\ inits \in [Ends -> Nat]
  /\ sessionID \in [Ends -> Nat] /\ writeError \in [Ends -> BOOLEAN]
TypeUser ==
  /\ thread \in [Ends -> [Threads -> Doing]] /\ wants \in [Ends -> [Threads -> DataKinds]]
  /\ sends \in [Ends -> Nat] /\ \A e \in Ends : sends[e] <= MaxSend[e]
  /\ taken \in [Ends -> Nat] /\ got \in [Ends -> Seq(Nat)] /\ writtenSince \in [Ends -> Nat]
TypeOK == TypeWire /\ TypeLoop /\ TypeKex /\ TypeUser

\* The key that follows a packet: newKeys is the last one under its key.
KeyAfter(p) == p.key + (IF p.kind = "newKeys" THEN 1 ELSE 0)

\* The two directions change keys in step: a packet on its way was encrypted
\* with the key its reader will hold when it gets there, and so will the next
\* one be, also when both ends ask for new keys at once
\* (connectionState.readPacket and writePacket).
KeysTo(e) ==
  /\ net[e] # <<>> => net[e][1].key = rkey[e]
  /\ \A i \in 1..(Len(net[e]) - 1) : net[e][i + 1].key = KeyAfter(net[e][i])
  /\ open[e] => wkey[Peer(e)] = IF net[e] = <<>> THEN rkey[e]
                                ELSE KeyAfter(net[e][Len(net[e])])
KeysInStep == \A e \in Ends : KeysTo(e)

\* Nothing that users write travels before the first exchange is over: the
\* comment in readOnePacket, "the authentication process is guaranteed to
\* happen over an encrypted transport".
DataEncrypted ==
  \A e \in Ends : \A p \in Range(net[e]) \cup Range(incoming[e].buf) :
    p.kind \in DataKinds => p.key > 0

\* "After initiating the key change, all writes will be blocked until the
\* change is done" (sendKexInit): between an end's kexInit and its newKeys it
\* sends messages of the exchange only.
QuietExchange ==
  \A e \in Ends : \A i \in 1..Len(net[e]) :
    net[e][i].kind \in DataKinds =>
      \A j \in 1..(i - 1) : net[e][j].kind \in {"kexInit", "kexMsg"} =>
        \E k \in j..(i - 1) : net[e][k].kind = "newKeys"

\* Each end finds in the stream what its side of the exchange waits for: no
\* exchange of two ends of this code ends with an unexpected message.
ExchangeInStep ==
  \A e \in Ends : Arrived(e) =>
    LET k == Head(net[e]).kind IN
      /\ loop[e] = "kex" => k = "kexMsg"
      /\ loop[e] = "newKeys" => k = "newKeys"
      /\ loop[e] \in {"top", "read", "push"} => k \notin {"kexMsg", "newKeys"}

\* How far the exchanges have got, as the number of those before and of the
\* messages of this one: before and after a packet, and for what an end has
\* written and read.
Place(p) == <<p.key, IF p.kind \in DataKinds THEN 0 ELSE p.n>>
PlaceAfter(p) == IF p.kind = "newKeys" THEN <<p.key + 1, 0>>
                 ELSE <<p.key, IF p.kind \in DataKinds THEN 0 ELSE p.n + 1>>
WrittenTo(e) ==
  <<wkey[e], IF ~sentInit[e] \/ loop[e] = "newKeys" THEN 0
             ELSE IF loop[e] = "kex" THEN NextMsg(e) ELSE 1>>
ReadTo(e) ==
  <<rkey[e], IF loop[e] = "kex" THEN KexRounds - round[e] + 1
             ELSE IF loop[e] = "newKeys" THEN KexRounds + 1 ELSE 0>>

\* A packet as it is written: data under a key, and a message of an exchange
\* with its number.
Sealed == {p \in Packets : p.kind \in DataKinds => p.key > 0}
OnWire == {p \in Sealed : /\ p.kind = "kexInit" => p.n = 0
                          /\ p.kind = "kexMsg" => p.n \in 1..KexRounds
                          /\ p.kind = "newKeys" => p.n = KexRounds + 1
                          /\ p.kind # "none"}

\* What an end writes is the exchanges, one after the other and each in its
\* order, with data in between; and the other end reads them so.
StreamTo(e) ==
  /\ net[e] \in Seq(OnWire)
  /\ \A i \in 1..(Len(net[e]) - 1) : Place(net[e][i + 1]) = PlaceAfter(net[e][i])
  /\ open[e] /\ net[e] # <<>> => Place(net[e][1]) = ReadTo(e)
  /\ open[e] /\ open[Peer(e)] =>
       WrittenTo(Peer(e)) = IF net[e] = <<>> THEN ReadTo(e)
                            ELSE PlaceAfter(net[e][Len(net[e])])
StreamInOrder == \A e \in Ends : StreamTo(e)

\* An end in an exchange has sent its kexInit, and changes first the key it
\* writes with and then the key it reads with.
Phase(e) ==
  /\ loop[e] \in {"kex", "newKeys"} => sentInit[e]
  /\ loop[e] = "kex" => Agreed # <<>> /\ round[e] \in 1..KexRounds
  /\ loop[e] = "newKeys" =>
       round[e] = 0 /\ pending[e] = {"read"} /\ wkey[e] = rkey[e] + 1
  /\ loop[e] # "newKeys" /\ (loop[e] # "done" \/ open[e]) =>
       pending[e] = {} /\ wkey[e] = rkey[e]
  /\ writeError[e] <=> loop[e] = "done"
  /\ rkey[e] <= wkey[e]
PhasesKept == \A e \in Ends : Phase(e)

\* One kexInit for each exchange, whoever asked for it and however often
\* (sendKexInitLocked).
OneKexInit ==
  \A e \in Ends : ~writeError[e] =>
    inits[e] = rkey[e] + (IF sentInit[e] THEN 1 ELSE 0)

\* A writer waits on cond only while an exchange is under way: whoever ends
\* the exchange, or the connection, wakes it (readOnePacket, readLoop).
NoLostWakeup ==
  \A e \in Ends, t \in Threads :
    thread[e][t] = "asleep" => sentInit[e] /\ ~writeError[e]

\* The reader still waits for the first exchange, or for its result.
Waiting(e) == thread[e]["mux"] \in {"start", "await"}
\* Where data is on its way to the reader: incoming, and the read loop behind
\* it; and how many data packets the read loop has read.
Depth(e) == Len(incoming[e].buf) + (IF loop[e] = "push" THEN 1 ELSE 0)
DataRead(e) == IF Waiting(e) THEN (IF Depth(e) = 0 THEN 0 ELSE Depth(e) - 1)
               ELSE Len(got[e]) + Depth(e)

\* The i-th packet before the reader: the first exchange's newKeys, and then
\* the data in the order in which it was written.
InSlot(e, i, p) ==
  IF Waiting(e) /\ i = 1 THEN p.kind = "newKeys"
  ELSE /\ p.kind \in DataKinds /\ p.n <= taken[Peer(e)]
       /\ p.n = Len(got[e]) + i - (IF Waiting(e) THEN 1 ELSE 0)

QueueTo(e) ==
  /\ held[e] \in Sealed /\ incoming[e].buf \in Seq(Sealed)
  /\ thread[e]["mux"] = "done" => ~open[e]
  /\ thread[e]["writer"] # "idle" => rkey[e] > 0
  /\ thread[e]["mux"] # "done" =>
       /\ rkey[e] = 0 <=> Waiting(e) /\ Depth(e) = 0
       /\ Waiting(e) => got[e] = <<>>
       /\ \A i \in 1..Len(incoming[e].buf) : InSlot(e, i, incoming[e].buf[i])
       /\ loop[e] = "push" => InSlot(e, Depth(e), held[e])

\* The data that is on its way to e is what was written and not read yet.
DataIn(q) == {i \in 1..Len(q) : q[i].kind \in DataKinds}
Unread(q, read, written) ==
  /\ read <= written
  /\ \A i \in DataIn(q) : read < q[i].n /\ q[i].n <= written
  /\ \A i, j \in DataIn(q) : i < j => q[i].n < q[j].n
  /\ \A m \in (read + 1)..written : \E i \in DataIn(q) : q[i].n = m
DataTo(e) == open[e] => Unread(net[e], DataRead(e), taken[Peer(e)])

DataInOrder == \A e \in Ends : QueueTo(e) /\ DataTo(e)

\* The transport is a packetConn.
Conn == INSTANCE PacketConn
ConnSpec == Conn!Spec

\* A blocked write returns, unless the read loop waits for room in incoming
\* while the multiplexer, which would make room, is itself blocked or gone.
WritesReturn ==
  \A e \in Ends, t \in Threads :
    (thread[e][t] = "asleep") ~> (thread[e][t] # "asleep" \/ \E f \in Ends : Stuck(f))

\* "After initiating the key change, all writes will be blocked until the
\* change is done" (sendKexInit): a blocked write returns.
BlockedUntilDone ==
  \A e \in Ends, t \in Threads : (thread[e][t] = "asleep") ~> (thread[e][t] # "asleep")

\* Key exchanges do not disturb and are not disturbed, whoever asked for them: one kexInit
\* each, only messages of the exchange until it is over, each end finding what it waits for,
\* no data before the first, none lost or out of order, and no writer asleep after the last
\* (handshake.go).
ExchangeOrderly ==
  /\ TypeOK /\ PhasesKept /\ StreamInOrder /\ OneKexInit /\ QuietExchange /\ ExchangeInStep
  /\ DataEncrypted /\ DataInOrder /\ NoLostWakeup
=============================================================================
