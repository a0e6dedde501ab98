------------------------- MODULE SSHTransportProofs -------------------------
(***************************************************************************)
(* Proofs about SSHTransport: for every capacity, threshold, number of     *)
(* writes and offer of algorithms, and wherever the connection breaks.     *)
(***************************************************************************)
EXTENDS SSHTransport, SequenceTheorems, WellFoundedInduction, TLAPS

LEMMA PeerFacts ==
  ASSUME NEW e \in Ends
  PROVE  Peer(e) \in Ends /\ Peer(e) # e /\ Peer(Peer(e)) = e /\ Ends = {e, Peer(e)}
  BY DEF Ends, Peer

LEMMA RoundsType == KexRounds \in {0, 1, 2} /\ (Agreed # <<>> => KexRounds \in {1, 2})
  BY DEF KexRounds, Rounds

LEMMA PacketTypes ==
  ASSUME TypeOK, NEW e \in Ends, NEW i \in Nat
  PROVE  KexInit(e) \in Packets /\ KexMsg(e, i) \in Packets /\ NewKeysMsg(e) \in Packets
<1>1. wkey[e] \in Nat /\ KexRounds + 1 \in Nat
  BY RoundsType DEF TypeOK, TypeWire
<1> QED
  BY <1>1 DEF KexInit, KexMsg, NewKeysMsg, Packet, Packets, Kinds, DataKinds

\* What an end writes: a packet goes behind those on their way, unless the
\* other end has closed.
Wrote1(e, p) == net'[Peer(e)] = IF open[Peer(e)] THEN Append(net[Peer(e)], p) ELSE net[Peer(e)]
Wrote2(e, p, q) ==
  net'[Peer(e)] = IF open[Peer(e)] THEN Append(Append(net[Peer(e)], p), q) ELSE net[Peer(e)]
Wrote0(e) == net'[Peer(e)] = net[Peer(e)]

\* What it reads: nothing, or the first packet.
Kept(e) == net'[e] = net[e]
Took(e) == open[e] /\ net[e] # <<>> /\ net'[e] = Tail(net[e])

NetType == net' \in [Ends -> Seq(Packets)]

LEMMA SentNone ==
  ASSUME TypeOK, NEW e \in Ends
  PROVE  Sent(e, <<>>) \in [Ends -> Seq(Packets)] /\ Sent(e, <<>>) = net
<1>1. net[Peer(e)] \o <<>> = net[Peer(e)]
  BY PeerFacts, ConcatEmptySeq DEF TypeOK, TypeWire
<1> QED
  BY <1>1, PeerFacts DEF TypeOK, TypeWire, Sent

LEMMA SentOne ==
  ASSUME TypeOK, NEW e \in Ends, NEW p \in Packets
  PROVE  /\ Sent(e, <<p>>) \in [Ends -> Seq(Packets)]
         /\ Sent(e, <<p>>)[e] = net[e]
         /\ Sent(e, <<p>>)[Peer(e)] = IF open[Peer(e)] THEN Append(net[Peer(e)], p) ELSE net[Peer(e)]
<1> DEFINE q == net[Peer(e)]
<1>0. q \in Seq(Packets) /\ net \in [Ends -> Seq(Packets)]
  BY PeerFacts DEF TypeOK, TypeWire
<1>1. q \o <<p>> = Append(q, p) /\ Append(q, p) \in Seq(Packets)
  BY <1>0, AppendIsConcat, AppendProperties
<1> QED
  BY <1>0, <1>1, PeerFacts DEF Sent

LEMMA SentTwo ==
  ASSUME TypeOK, NEW e \in Ends, NEW p \in Packets, NEW r \in Packets
  PROVE  /\ Sent(e, <<p>> \o <<r>>) \in [Ends -> Seq(Packets)]
         /\ Sent(e, <<p>> \o <<r>>)[e] = net[e]
         /\ Sent(e, <<p>> \o <<r>>)[Peer(e)] =
              IF open[Peer(e)] THEN Append(Append(net[Peer(e)], p), r) ELSE net[Peer(e)]
<1> DEFINE q == net[Peer(e)]
<1>0. q \in Seq(Packets) /\ net \in [Ends -> Seq(Packets)] /\ <<p>> \in Seq(Packets) /\ <<r>> \in Seq(Packets)
  BY PeerFacts DEF TypeOK, TypeWire
<1>1. q \o (<<p>> \o <<r>>) = (q \o <<p>>) \o <<r>>
  BY <1>0, ConcatAssociative
<1>2. q \o <<p>> = Append(q, p) /\ Append(q, p) \in Seq(Packets)
  BY <1>0, AppendIsConcat, AppendProperties
<1>3. Append(q, p) \o <<r>> = Append(Append(q, p), r) /\ Append(Append(q, p), r) \in Seq(Packets)
  BY <1>2, AppendIsConcat, AppendProperties
<1> QED
  BY ZenonT(40), <1>0, <1>1, <1>2, <1>3, PeerFacts DEF Sent

LEMMA HeadPacket ==
  ASSUME TypeOK, NEW e \in Ends, net[e] # <<>>
  PROVE  Head(net[e]) \in Packets /\ Tail(net[e]) \in Seq(Packets) /\ Head(net[e]) = net[e][1]
  BY HeadTailProperties DEF TypeOK, TypeWire

LEMMA TypeInit == Init => TypeOK
<1> SUFFICES ASSUME Init PROVE TypeOK
  OBVIOUS
<1>1. TypeWire
  BY DEF Init, TypeWire, Packets
<1>2. Packet("none", 0, 0) \in Packets
  BY DEF Packet, Packets, Kinds
<1>3. TypeLoop
  BY <1>2, CapAssumption DEF Init, TypeLoop, Loops
<1>4. TypeKex
  BY DEF Init, TypeKex
<1>5. TypeUser
  BY MaxSendAssumption DEF Init, TypeUser, Doing, DataKinds, Threads
<1> QED
  BY <1>1, <1>3, <1>4, <1>5 DEF TypeOK

-----------------------------------------------------------------------------
(* What each step does to the wire.                                        *)

LEMMA WireSendKexInit ==
  ASSUME TypeOK, NEW e \in Ends, SendKexInit(e)
  PROVE  NetType /\ Kept(e) /\ Wrote1(e, KexInit(e))
<1>1. KexInit(e) \in Packets
  BY PacketTypes
<1> QED
  BY <1>1, SentOne DEF SendKexInit, NetType, Kept, Wrote1

LEMMA WireUnchanged ==
  ASSUME TypeOK, NEW e \in Ends, UNCHANGED net
  PROVE  NetType /\ Kept(e) /\ Wrote0(e)
  BY DEF TypeOK, TypeWire, NetType, Kept, Wrote0

LEMMA WireTake ==
  ASSUME TypeOK, NEW e \in Ends, Arrived(e), NEW s \in [Ends -> Seq(Packets)], s[e] = net[e],
         net' = [s EXCEPT ![e] = Tail(net[e])]
  PROVE  NetType /\ Took(e) /\ net'[Peer(e)] = s[Peer(e)]
  BY PeerFacts, HeadPacket DEF NetType, Took, Arrived

LEMMA WireTakeNone ==
  ASSUME TypeOK, NEW e \in Ends, Arrived(e), net' = [Sent(e, <<>>) EXCEPT ![e] = Tail(net[e])]
  PROVE  NetType /\ Took(e) /\ Wrote0(e)
  BY SentNone, WireTake DEF Wrote0

LEMMA WireTakeOne ==
  ASSUME TypeOK, NEW e \in Ends, Arrived(e), NEW p \in Packets,
         net' = [Sent(e, <<p>>) EXCEPT ![e] = Tail(net[e])]
  PROVE  NetType /\ Took(e) /\ Wrote1(e, p)
<1> DEFINE s == Sent(e, <<p>>)
<1>1. /\ s \in [Ends -> Seq(Packets)] /\ s[e] = net[e]
      /\ s[Peer(e)] = IF open[Peer(e)] THEN Append(net[Peer(e)], p) ELSE net[Peer(e)]
  BY SentOne
<1>2. net' = [s EXCEPT ![e] = Tail(net[e])]
  OBVIOUS
<1> HIDE DEF s
<1> QED
  BY <1>1, <1>2, WireTake DEF Wrote1

LEMMA WireTakeTwo ==
  ASSUME TypeOK, NEW e \in Ends, Arrived(e), NEW p \in Packets, NEW r \in Packets,
         net' = [Sent(e, <<p>> \o <<r>>) EXCEPT ![e] = Tail(net[e])]
  PROVE  NetType /\ Took(e) /\ Wrote2(e, p, r)
<1> DEFINE s == Sent(e, <<p>> \o <<r>>)
<1>1. /\ s \in [Ends -> Seq(Packets)] /\ s[e] = net[e]
      /\ s[Peer(e)] = IF open[Peer(e)] THEN Append(Append(net[Peer(e)], p), r) ELSE net[Peer(e)]
  BY SentTwo
<1>2. net' = [s EXCEPT ![e] = Tail(net[e])]
  OBVIOUS
<1> HIDE DEF s
<1> QED
  BY <1>1, <1>2, WireTake DEF Wrote2

LEMMA WireEnter ==
  ASSUME TypeOK, NEW e \in Ends, EnterKeyExchange(e)
  PROVE  /\ NetType /\ Took(e)
         /\ \/ /\ loop'[e] = "kex"
               /\ \/ e = "client" /\ sentInit[e] /\ Wrote1(e, KexMsg(e, 1))
                  \/ e = "client" /\ ~sentInit[e] /\ Wrote2(e, KexInit(e), KexMsg(e, 1))
                  \/ e = "server" /\ sentInit[e] /\ Wrote0(e)
                  \/ e = "server" /\ ~sentInit[e] /\ Wrote1(e, KexInit(e))
            \/ open'[e] = FALSE /\ (Wrote0(e) \/ (~sentInit[e] /\ Wrote1(e, KexInit(e))))
<1> DEFINE a == IF sentInit[e] THEN <<>> ELSE <<KexInit(e)>>
           b == IF e = "client" THEN <<KexMsg(e, 1)>> ELSE <<>>
           Taken(s) == net' = [s EXCEPT ![e] = Tail(net[e])]
<1>1. KexInit(e) \in Packets /\ KexMsg(e, 1) \in Packets
  BY PacketTypes
<1>2. Arrived(e) /\ loop \in [Ends -> Loops] /\ open \in [Ends -> BOOLEAN]
  BY DEF EnterKeyExchange, TypeOK, TypeLoop, TypeWire
<1>3. a \o b = IF sentInit[e] THEN b ELSE IF e = "client" THEN <<KexInit(e)>> \o <<KexMsg(e, 1)>> ELSE <<KexInit(e)>>
  <2>1. <<>> \o b = b /\ <<KexInit(e)>> \o <<>> = <<KexInit(e)>>
    BY <1>1, ConcatEmptySeq
  <2> QED
    BY <2>1
<1>4. CASE loop'[e] = "kex" /\ Taken(Sent(e, a \o b))
  <2>1. CASE e = "client" /\ sentInit[e]
    BY <1>1, <1>2, <1>3, <1>4, <2>1, WireTakeOne
  <2>2. CASE e = "client" /\ ~sentInit[e]
    BY <1>1, <1>2, <1>3, <1>4, <2>2, WireTakeTwo
  <2>3. CASE e = "server" /\ sentInit[e]
    BY <1>1, <1>2, <1>3, <1>4, <2>3, WireTakeNone
  <2>4. CASE e = "server" /\ ~sentInit[e]
    BY <1>1, <1>2, <1>3, <1>4, <2>4, WireTakeOne
  <2> QED
    BY <2>1, <2>2, <2>3, <2>4 DEF Ends
<1>5. CASE open'[e] = FALSE /\ (Taken(Sent(e, a)) \/ Taken(net))
  <2>1. CASE Taken(net) \/ (Taken(Sent(e, a)) /\ sentInit[e])
    BY <1>2, <1>5, <2>1, SentNone, WireTakeNone
  <2>2. CASE Taken(Sent(e, a)) /\ ~sentInit[e]
    BY <1>1, <1>2, <1>5, <2>2, WireTakeOne
  <2> QED
    BY <1>5, <2>1, <2>2
<1> QED
  BY <1>2, <1>4, <1>5 DEF EnterKeyExchange, FailKex

LEMMA WireKexMessage ==
  ASSUME TypeOK, PhasesKept, NEW e \in Ends, KexMessage(e)
  PROVE  /\ NetType /\ Took(e) /\ open[e] /\ NextMsg(e) \in Nat
         /\ \/ round[e] > 1 /\ Wrote1(e, KexMsg(e, NextMsg(e)))
            \/ round[e] = 1 /\ e = "client" /\ Wrote1(e, NewKeysMsg(e))
            \/ round[e] = 1 /\ e = "server" /\ Wrote2(e, KexMsg(e, NextMsg(e)), NewKeysMsg(e))
<1>0. NextMsg(e) \in Nat
  BY RoundsType DEF KexMessage, PhasesKept, Phase, NextMsg, TypeOK, TypeKex
<1>1. KexMsg(e, NextMsg(e)) \in Packets /\ NewKeysMsg(e) \in Packets
  BY <1>0, PacketTypes
<1>2. Arrived(e) /\ open[e]
  BY DEF KexMessage, CanWrite
<1>3. <<>> \o <<NewKeysMsg(e)>> = <<NewKeysMsg(e)>>
  BY <1>1, ConcatEmptySeq
<1>4. CASE round[e] > 1 /\ net' = [Sent(e, <<KexMsg(e, NextMsg(e))>>) EXCEPT ![e] = Tail(net[e])]
  BY <1>0, <1>1, <1>2, <1>4, WireTakeOne
<1>5. CASE round[e] = 1 /\ e = "client" /\ net' = [Sent(e, <<NewKeysMsg(e)>>) EXCEPT ![e] = Tail(net[e])]
  BY <1>0, <1>1, <1>2, <1>5, WireTakeOne
<1>6. CASE /\ round[e] = 1 /\ e = "server"
           /\ net' = [Sent(e, <<KexMsg(e, NextMsg(e))>> \o <<NewKeysMsg(e)>>) EXCEPT ![e] = Tail(net[e])]
  BY <1>0, <1>1, <1>2, <1>6, WireTakeTwo
<1> QED
  BY <1>3, <1>4, <1>5, <1>6 DEF KexMessage, FinishExchange, Ends

LEMMA WireTakeOnly ==
  ASSUME TypeOK, NEW e \in Ends, ReadOther(e) \/ NewKeys(e)
  PROVE  NetType /\ Took(e) /\ Wrote0(e)
<1>1. Arrived(e) /\ net' = [net EXCEPT ![e] = Tail(net[e])] /\ net \in [Ends -> Seq(Packets)]
  BY DEF ReadOther, NewKeys, TypeOK, TypeWire
<1> QED
  BY <1>1, WireTake DEF Wrote0

LEMMA WireWrite ==
  ASSUME TypeOK, NEW e \in Ends, NEW t \in Threads, Write(e, t)
  PROVE  /\ NetType /\ Kept(e) /\ open[e]
         /\ Packet(wants[e][t], wkey[e], taken[e] + 1) \in Packets
         /\ Wrote1(e, Packet(wants[e][t], wkey[e], taken[e] + 1))
<1> DEFINE p == Packet(wants[e][t], wkey[e], taken[e] + 1)
<1>1. p \in Packets
  BY DEF TypeOK, TypeWire, TypeUser, Packet, Packets, Kinds
<1> HIDE DEF p
<1>2. Append(net[Peer(e)], p) \in Seq(Packets)
  BY <1>1, PeerFacts, AppendProperties DEF TypeOK, TypeWire
<1>3. net' = IF open[Peer(e)] THEN [net EXCEPT ![Peer(e)] = Append(@, p)] ELSE net
  BY DEF Write, p
<1>4. NetType /\ Kept(e) /\ Wrote1(e, p)
  BY <1>2, <1>3, PeerFacts DEF TypeOK, TypeWire, NetType, Kept, Wrote1
<1> QED
  BY <1>1, <1>4 DEF Write, CanWrite, p

\* The steps that may write a kexInit and read nothing.
LEMMA WireAsk ==
  ASSUME TypeOK, NEW e \in Ends, NEW t \in Threads,
         ReadOnePacket(e) \/ RequestInitialKeyChange(e) \/ Sleep(e, t) \/ WriteFails(e, t)
  PROVE  /\ NetType /\ Kept(e)
         /\ \/ SendKexInit(e) /\ open[e] /\ ~sentInit[e] /\ Wrote1(e, KexInit(e))
            \/ UNCHANGED <<net, sentInit, inits>> /\ Wrote0(e)
<1>1. \/ SendKexInit(e) /\ open[e] /\ ~sentInit[e]
      \/ UNCHANGED <<net, sentInit, inits>>
  BY DEF ReadOnePacket, RequestInitialKeyChange, Sleep, WriteFails, CanWrite, NeedsKeys
<1> QED
  BY <1>1, WireSendKexInit, WireUnchanged

\* The steps that neither write nor read a packet.
Offline(e) == \/ ReadError(e) \/ Push(e) \/ KexFails(e) \/ Receive(e) \/ ReceiveError(e)
              \/ BeginWrite(e) \/ Close(e)
\* The steps in which an end may ask for new keys.
Asking(e) == \/ ReadOnePacket(e) \/ RequestInitialKeyChange(e)
             \/ \E t \in Threads : Sleep(e, t) \/ WriteFails(e, t)
Writing(e) == \E t \in Threads : Write(e, t)

LEMMA StepCases ==
  ASSUME NEW e \in Ends, Step(e)
  PROVE  \/ Offline(e) \/ Asking(e) \/ Writing(e) \/ ReadOther(e) \/ NewKeys(e)
         \/ EnterKeyExchange(e) \/ KexMessage(e)
  BY DEF Step, ReadLoop, Mux, WritePacket, Offline, Asking, Writing, Threads

LEMMA OfflineNet == ASSUME NEW e \in Ends, Offline(e) PROVE UNCHANGED net
  BY DEF Offline, ReadError, Push, KexFails, Receive, ReceiveError, BeginWrite, Close, wireVars

LEMMA NetStep ==
  ASSUME TypeOK, PhasesKept, NEW e \in Ends, Step(e)
  PROVE  NetType
<1>1. CASE Offline(e)
  BY <1>1, OfflineNet, WireUnchanged
<1>2. CASE Asking(e)
  BY <1>2, WireAsk DEF Asking, Threads
<1>3. CASE Writing(e)
  BY <1>3, WireWrite DEF Writing
<1> QED
  BY <1>1, <1>2, <1>3, StepCases, WireTakeOnly, WireEnter, WireKexMessage

LEMMA WireTypeStep ==
  ASSUME TypeOK, PhasesKept, NEW e \in Ends, Step(e)
  PROVE  TypeWire'
<1>0. NetType /\ offer' = offer /\ Peer(e) \in Ends
  BY NetStep, PeerFacts DEF Step
<1> USE DEF TypeOK, TypeWire, wireVars
<1>1. open' \in [Ends -> BOOLEAN]
  <2>1. open' = open \/ open' = [open EXCEPT ![e] = FALSE]
    BY StepCases DEF Offline, ReadError, Push, KexFails, FailKex, Receive, ReceiveError, BeginWrite, Close,
     Asking, ReadOnePacket, RequestInitialKeyChange, Sleep, WriteFails, Writing, Write, ReadOther, NewKeys,
     EnterKeyExchange, KexMessage
  <2> QED
    BY <2>1
<1>2. /\ rkey' = rkey \/ rkey' = [rkey EXCEPT ![e] = @ + 1]
      /\ wkey' = wkey \/ wkey' = [wkey EXCEPT ![e] = @ + 1]
      /\ pending' = pending \/ pending' = [pending EXCEPT ![e] = {"read"}]
         \/ pending' = [pending EXCEPT ![e] = @ \ {"read"}]
  BY StepCases DEF Offline, ReadError, Push, KexFails, Receive, ReceiveError, BeginWrite, Close,
     Asking, ReadOnePacket, RequestInitialKeyChange, Sleep, WriteFails, Writing, Write, ReadOther, NewKeys,
     EnterKeyExchange, KexMessage, FinishExchange
<1>3. rkey' \in [Ends -> Nat] /\ wkey' \in [Ends -> Nat]
  <2>1. rkey \in [Ends -> Nat] /\ wkey \in [Ends -> Nat] /\ rkey[e] + 1 \in Nat /\ wkey[e] + 1 \in Nat
    OBVIOUS
  <2> HIDE DEF TypeOK, TypeWire
  <2> QED
    BY <1>2, <2>1
<1>4. pending' \in [Ends -> SUBSET {"read"}]
  BY ZenonT(40), <1>2
<1> QED
  BY <1>0, <1>1, <1>3, <1>4 DEF NetType

LEMMA BufferType ==
  ASSUME TypeLoop, NEW e \in Ends, NEW b \in Seq(Packets), Len(b) <= IncomingCap,
         incoming' = [incoming EXCEPT ![e] = [@ EXCEPT !.buf = b]]
  PROVE  /\ incoming' \in [Ends -> [buf : Seq(Packets), closed : BOOLEAN]]
         /\ \A x \in Ends : Len(incoming'[x].buf) <= IncomingCap
<1>1. incoming \in [Ends -> [buf : Seq(Packets), closed : BOOLEAN]]
  BY DEF TypeLoop
<1>2. [incoming[e] EXCEPT !.buf = b] \in [buf : Seq(Packets), closed : BOOLEAN]
      /\ [incoming[e] EXCEPT !.buf = b].buf = b
  BY <1>1
<1> QED
  BY <1>1, <1>2 DEF TypeLoop

LEMMA LoopTypeStep ==
  ASSUME TypeOK, NEW e \in Ends, Step(e)
  PROVE  TypeLoop'
<1> USE DEF TypeOK, TypeLoop, loopVars, Loops
<1>1. loop' \in [Ends -> Loops]
  BY ZenonT(40), StepCases DEF Offline, ReadError, LoopExit, Push, KexFails, FailKex, Receive, ReceiveError, BeginWrite, Close,
     Asking, ReadOnePacket, RequestInitialKeyChange, Sleep, WriteFails, Writing, Write, ReadOther, NewKeys,
     EnterKeyExchange, KexMessage, FinishExchange
<1>2. Packet("none", 0, 0) \in Packets
  BY DEF Packet, Packets, Kinds
<1>3. held' \in [Ends -> Packets] /\ readSince' \in [Ends -> Nat]
  <2>1. CASE ReadOther(e) \/ NewKeys(e)
    <3>1. Head(net[e]) \in Packets
      BY <2>1, HeadPacket DEF ReadOther, NewKeys, Arrived
    <3>2. /\ held' \in {held, [held EXCEPT ![e] = Head(net[e])]}
          /\ readSince' \in {[readSince EXCEPT ![e] = 0], [readSince EXCEPT ![e] = @ + 1]}
      BY <2>1 DEF ReadOther, NewKeys, EndKex
    <3>3. held \in [Ends -> Packets] /\ readSince \in [Ends -> Nat] /\ readSince[e] + 1 \in Nat
      OBVIOUS
    <3> HIDE DEF TypeOK, TypeLoop
    <3> QED
      BY <3>1, <3>2, <3>3
  <2>2. CASE EnterKeyExchange(e)
    BY <2>2 DEF EnterKeyExchange
  <2>3. CASE Push(e)
    BY <1>2, <2>3 DEF Push
  <2>4. CASE UNCHANGED <<held, readSince>>
    BY <2>4
  <2> QED
    BY <2>1, <2>2, <2>3, <2>4, StepCases DEF Offline, ReadError, KexFails, Receive, ReceiveError, BeginWrite, Close,
     Asking, ReadOnePacket, RequestInitialKeyChange, Sleep, WriteFails, Writing, Write, KexMessage
<1>4. /\ incoming' \in [Ends -> [buf : Seq(Packets), closed : BOOLEAN]]
      /\ \A x \in Ends : Len(incoming'[x].buf) <= IncomingCap
  <2>1. CASE Push(e)
    <3>1. incoming[e].buf \in Seq(Packets) /\ held[e] \in Packets /\ incoming[e].closed \in BOOLEAN
      OBVIOUS
    <3>2. Append(incoming[e].buf, held[e]) \in Seq(Packets)
          /\ Len(Append(incoming[e].buf, held[e])) = Len(incoming[e].buf) + 1
      BY <3>1, AppendProperties
    <3>3. Len(incoming[e].buf) \in Nat /\ Len(incoming[e].buf) < IncomingCap
      BY <2>1, <3>1 DEF Push
    <3>4. incoming' = [incoming EXCEPT ![e] = [@ EXCEPT !.buf = Append(incoming[e].buf, held[e])]]
      BY <2>1 DEF Push
    <3>5. Len(Append(incoming[e].buf, held[e])) <= IncomingCap
      BY <3>2, <3>3, CapAssumption
    <3> QED
      BY <3>2, <3>4, <3>5, BufferType
  <2>2. CASE Receive(e)
    <3>1. incoming[e].buf \in Seq(Packets) /\ incoming[e].buf # <<>> /\ incoming[e].closed \in BOOLEAN
      BY <2>2 DEF Receive
    <3>2. Tail(incoming[e].buf) \in Seq(Packets) /\ Len(Tail(incoming[e].buf)) = Len(incoming[e].buf) - 1
      BY <3>1, HeadTailProperties
    <3>3. Len(incoming[e].buf) \in Nat
      BY <3>1
    <3>4. incoming' = [incoming EXCEPT ![e] = [@ EXCEPT !.buf = Tail(incoming[e].buf)]]
      BY <2>2 DEF Receive
    <3>5. Len(Tail(incoming[e].buf)) <= IncomingCap
      BY <3>2, <3>3, CapAssumption
    <3> QED
      BY <3>2, <3>4, <3>5, BufferType
  <2>3. CASE incoming' = [incoming EXCEPT ![e].closed = TRUE]
    BY <2>3
  <2>4. CASE UNCHANGED incoming
    BY <2>4
  <2> QED
    BY <2>1, <2>2, <2>3, <2>4, StepCases DEF Offline, ReadError, LoopExit, KexFails, FailKex, ReceiveError,
     BeginWrite, Close, Asking, ReadOnePacket, RequestInitialKeyChange, Sleep, WriteFails, Writing, Write, KexMessage,
     ReadOther, NewKeys, EnterKeyExchange
<1> QED
  BY <1>1, <1>3, <1>4

LEMMA KexTypeStep ==
  ASSUME TypeOK, NEW e \in Ends, Step(e)
  PROVE  TypeKex'
<1>0. /\ round \in [Ends -> 0..2] /\ sentInit \in [Ends -> BOOLEAN] /\ inits \in [Ends -> Nat]
      /\ sessionID \in [Ends -> Nat] /\ writeError \in [Ends -> BOOLEAN]
      /\ inits[e] + 1 \in Nat /\ wkey[e] + 1 \in Nat /\ round[e] \in 0..2
  BY DEF TypeOK, TypeKex, TypeWire
<1>1. /\ sentInit' \in {sentInit, [sentInit EXCEPT ![e] = TRUE], [sentInit EXCEPT ![e] = FALSE]}
      /\ inits' \in {inits, [inits EXCEPT ![e] = @ + 1]}
      /\ writeError' \in {writeError, [writeError EXCEPT ![e] = TRUE]}
  BY StepCases DEF Offline, ReadError, LoopExit, Push, KexFails, FailKex, Receive, ReceiveError, BeginWrite, Close,
     Asking, ReadOnePacket, RequestInitialKeyChange, Sleep, WriteFails, Writing, Write, ReadOther, NewKeys, EndKex,
     EnterKeyExchange, KexMessage, SendKexInit, kexVars
<1>2. sessionID' \in {sessionID, [sessionID EXCEPT ![e] = wkey[e] + 1]}
  <2>1. CASE KexMessage(e)
    <3>1. sessionID' \in {sessionID, [sessionID EXCEPT ![e] = IF @ = 0 THEN wkey[e] + 1 ELSE @]}
      BY <2>1 DEF KexMessage, FinishExchange
    <3> QED
      BY <1>0, <3>1
  <2> QED
    BY <2>1, StepCases DEF Offline, ReadError, Push, KexFails, Receive, ReceiveError, BeginWrite, Close,
     Asking, ReadOnePacket, RequestInitialKeyChange, Sleep, WriteFails, Writing, Write, ReadOther, NewKeys,
     EnterKeyExchange, kexVars
<1>3. round' \in [Ends -> 0..2]
  <2>1. CASE KexMessage(e)
    BY <1>0, <2>1 DEF KexMessage
  <2>2. CASE EnterKeyExchange(e)
    <3>1. round' \in {round, [round EXCEPT ![e] = KexRounds]} /\ KexRounds \in 0..2
      BY <2>2, RoundsType DEF EnterKeyExchange
    <3> QED
      BY <1>0, <3>1
  <2>3. CASE UNCHANGED round
    BY <1>0, <2>3
  <2> QED
    BY <2>1, <2>2, <2>3, StepCases DEF Offline, ReadError, Push, KexFails, Receive, ReceiveError, BeginWrite, Close,
     Asking, ReadOnePacket, RequestInitialKeyChange, Sleep, WriteFails, Writing, Write, ReadOther, NewKeys, kexVars
<1> QED
  BY ZenonT(40), <1>0, <1>1, <1>2, <1>3 DEF TypeKex

\* What a step does to the goroutines of an end: a broadcast, or one moves on.
LEMMA ThreadStep ==
  ASSUME TypeOK, NEW e \in Ends, Step(e)
  PROVE  \/ UNCHANGED thread
         \/ Broadcast(e)
         \/ \E t \in Threads, d \in Doing : thread' = [thread EXCEPT ![e][t] = d]
<1> USE DEF Threads, Doing
<1>1. CASE ReadOnePacket(e) \/ ReadError(e) \/ KexFails(e) \/ NewKeys(e) \/ EnterKeyExchange(e)
  BY <1>1 DEF ReadOnePacket, ReadError, KexFails, NewKeys, EnterKeyExchange, FailKex, LoopExit, EndKex
<1>2. CASE Receive(e)
  <2>1. PICK d \in Doing : thread' = [thread EXCEPT ![e]["mux"] = d]
    BY <1>2 DEF Receive
  <2> QED
    BY <2>1
<1>3. CASE ReceiveError(e) \/ BeginWrite(e) \/ RequestInitialKeyChange(e)
  BY <1>3 DEF ReceiveError, BeginWrite, RequestInitialKeyChange
<1>4. CASE Writing(e)
  BY <1>4 DEF Writing, Write, After
<1>5. CASE \E t \in Threads : Sleep(e, t) \/ WriteFails(e, t)
  BY <1>5 DEF Sleep, WriteFails
<1> QED
  BY <1>1, <1>2, <1>3, <1>4, <1>5, StepCases DEF Offline, Asking, Push, Close, ReadOther, KexMessage, userVars

LEMMA UserTypeStep ==
  ASSUME TypeOK, NEW e \in Ends, Step(e)
  PROVE  TypeUser'
<1>0. /\ thread \in [Ends -> [Threads -> Doing]] /\ wants \in [Ends -> [Threads -> DataKinds]]
      /\ sends \in [Ends -> Nat] /\ taken \in [Ends -> Nat] /\ got \in [Ends -> Seq(Nat)]
      /\ writtenSince \in [Ends -> Nat] /\ \A x \in Ends : sends[x] <= MaxSend[x]
      /\ sends[e] + 1 \in Nat /\ taken[e] + 1 \in Nat /\ writtenSince[e] + 1 \in Nat
  BY DEF TypeOK, TypeUser
<1>1. thread' \in [Ends -> [Threads -> Doing]]
  <2>1. CASE Broadcast(e)
    BY <1>0, <2>1 DEF Broadcast, Doing
  <2>2. ASSUME NEW t \in Threads, NEW d \in Doing, thread' = [thread EXCEPT ![e][t] = d]
        PROVE  thread' \in [Ends -> [Threads -> Doing]]
    BY <1>0, <2>2
  <2> QED
    BY <1>0, <2>1, <2>2, ThreadStep
<1>2. wants' \in [Ends -> [Threads -> DataKinds]]
  <2>1. \/ UNCHANGED wants
        \/ \E t \in Threads, k \in DataKinds : wants' = [wants EXCEPT ![e][t] = k]
    BY StepCases DEF Offline, ReadError, Push, KexFails, Receive, ReceiveError, BeginWrite, Close,
     Asking, ReadOnePacket, RequestInitialKeyChange, Sleep, WriteFails, Writing, Write, ReadOther, NewKeys,
     EnterKeyExchange, KexMessage, userVars, Threads, DataKinds
  <2>2. ASSUME NEW t \in Threads, NEW k \in DataKinds, wants' = [wants EXCEPT ![e][t] = k]
        PROVE  wants' \in [Ends -> [Threads -> DataKinds]]
    BY <1>0, <2>2
  <2> QED
    BY <1>0, <2>1, <2>2
<1>3. sends' \in [Ends -> Nat] /\ \A x \in Ends : sends'[x] <= MaxSend[x]
  <2>1. CASE BeginWrite(e)
    <3>1. sends' = [sends EXCEPT ![e] = sends[e] + 1] /\ sends[e] < MaxSend[e]
      BY <2>1 DEF BeginWrite
    <3>a. sends[e] \in Nat /\ MaxSend[e] \in Nat
      BY <1>0, MaxSendAssumption
    <3>2. sends[e] + 1 <= MaxSend[e]
      BY <3>1, <3>a
    <3>3. sends \in [Ends -> Nat] /\ sends[e] + 1 \in Nat /\ \A x \in Ends : sends[x] <= MaxSend[x]
      BY <1>0
    <3> QED
      BY <3>1, <3>2, <3>3
  <2>2. CASE UNCHANGED sends
    BY <1>0, <2>2
  <2> QED
    BY <2>1, <2>2, StepCases DEF Offline, ReadError, Push, KexFails, Receive, ReceiveError, Close,
     Asking, ReadOnePacket, RequestInitialKeyChange, Sleep, WriteFails, Writing, Write, ReadOther, NewKeys,
     EnterKeyExchange, KexMessage, userVars
<1>4. got' \in [Ends -> Seq(Nat)]
  <2>1. CASE Receive(e)
    <3>1. incoming[e].buf \in Seq(Packets) /\ incoming[e].buf # <<>>
      BY <2>1 DEF Receive, TypeOK, TypeLoop
    <3>2. Head(incoming[e].buf) \in Packets
      BY <3>1, HeadTailProperties
    <3>3. Head(incoming[e].buf).n \in Nat /\ got[e] \in Seq(Nat)
      BY <1>0, <3>2 DEF Packets
    <3>4. Append(got[e], Head(incoming[e].buf).n) \in Seq(Nat)
      BY <3>3, AppendProperties
    <3>5. got' \in {got, [got EXCEPT ![e] = Append(got[e], Head(incoming[e].buf).n)]}
      BY <2>1 DEF Receive
    <3> QED
      BY <1>0, <3>4, <3>5
  <2>2. CASE UNCHANGED got
    BY <1>0, <2>2
  <2> QED
    BY <2>1, <2>2, StepCases DEF Offline, ReadError, Push, KexFails, BeginWrite, ReceiveError, Close,
     Asking, ReadOnePacket, RequestInitialKeyChange, Sleep, WriteFails, Writing, Write, ReadOther, NewKeys,
     EnterKeyExchange, KexMessage, userVars
<1>5. /\ taken' \in {taken, [taken EXCEPT ![e] = taken[e] + 1]}
      /\ writtenSince' \in {writtenSince, [writtenSince EXCEPT ![e] = writtenSince[e] + 1],
                            [writtenSince EXCEPT ![e] = 0]}
  BY StepCases DEF Offline, ReadError, Push, KexFails, FailKex, BeginWrite, Receive, ReceiveError, Close,
     Asking, ReadOnePacket, RequestInitialKeyChange, Sleep, WriteFails, Writing, Write, ReadOther, NewKeys, EndKex,
     EnterKeyExchange, KexMessage, userVars
<1>6. taken' \in [Ends -> Nat]
  <2>1. taken \in [Ends -> Nat] /\ taken[e] + 1 \in Nat
    BY <1>0
  <2> QED
    BY <1>5, <2>1
<1>7. writtenSince' \in [Ends -> Nat]
  <2>1. writtenSince \in [Ends -> Nat] /\ writtenSince[e] + 1 \in Nat
    BY <1>0
  <2> QED
    BY <1>5, <2>1
<1> QED
  BY <1>1, <1>2, <1>3, <1>4, <1>6, <1>7 DEF TypeUser

LEMMA StepOrStutter ==
  ASSUME [Next]_vars
  PROVE  (\E e \in Ends : Step(e)) \/ UNCHANGED vars
  BY DEF Next, Idle

LEMMA TypeStep == TypeOK /\ PhasesKept /\ [Next]_vars => TypeOK'
<1> SUFFICES ASSUME TypeOK, PhasesKept, [Next]_vars PROVE TypeOK'
  OBVIOUS
<1>1. ASSUME NEW e \in Ends, Step(e) PROVE TypeOK'
  BY <1>1, WireTypeStep, LoopTypeStep, KexTypeStep, UserTypeStep DEF TypeOK
<1>2. CASE UNCHANGED vars
  BY <1>2 DEF vars, wireVars, kexVars, loopVars, userVars, TypeOK, TypeWire, TypeLoop, TypeKex, TypeUser
<1> QED
  BY <1>1, <1>2, StepOrStutter

-----------------------------------------------------------------------------
(* The phases of an exchange, and what the goroutines rely on.             *)

\* A step of one end leaves the state of the other alone.
LEMMA Frame ==
  ASSUME TypeOK, NEW e \in Ends, Step(e), NEW x \in Ends, x # e
  PROVE  /\ loop'[x] = loop[x] /\ round'[x] = round[x]
         /\ pending'[x] = pending[x] /\ wkey'[x] = wkey[x] /\ rkey'[x] = rkey[x]
         /\ open'[x] = open[x] /\ writeError'[x] = writeError[x] /\ inits'[x] = inits[x]
         /\ sentInit'[x] = sentInit[x]
         /\ incoming'[x] = incoming[x] /\ held'[x] = held[x]
         /\ taken'[x] = taken[x] /\ got'[x] = got[x]
         /\ thread'[x] = thread[x] /\ offer' = offer
<1> USE DEF wireVars, kexVars, loopVars, userVars
<1>0. offer' = offer
  BY DEF Step
<1>1. thread'[x] = thread[x]
  BY ThreadStep DEF Broadcast, TypeOK, TypeUser
<1>2. /\ loop'[x] = loop[x] /\ round'[x] = round[x]
      /\ pending'[x] = pending[x] /\ wkey'[x] = wkey[x] /\ rkey'[x] = rkey[x]
  <2>1. CASE ReadOnePacket(e)
    BY <2>1 DEF ReadOnePacket, LoopExit, SendKexInit, TypeOK, TypeWire, TypeLoop, TypeKex, TypeUser
  <2>2. CASE RequestInitialKeyChange(e)
    BY <2>2 DEF RequestInitialKeyChange, SendKexInit, TypeOK, TypeWire, TypeLoop, TypeKex, TypeUser
  <2>3. CASE \E t \in Threads : Sleep(e, t) \/ Write(e, t)
    BY <2>3 DEF Sleep, Write, SendKexInit, TypeOK, TypeWire, TypeLoop, TypeKex, TypeUser
  <2>4. CASE \E t \in Threads : WriteFails(e, t)
    BY <2>4 DEF WriteFails, SendKexInit, TypeOK, TypeWire, TypeLoop, TypeKex, TypeUser
  <2>5. CASE ReadError(e) \/ Push(e) \/ BeginWrite(e) \/ Close(e)
    BY <2>5 DEF ReadError, Push, BeginWrite, Close, LoopExit, TypeOK, TypeWire, TypeLoop, TypeKex, TypeUser
  <2>6. CASE KexFails(e)
    BY <2>6 DEF KexFails, FailKex, LoopExit, TypeOK, TypeWire, TypeLoop, TypeKex, TypeUser
  <2>7. CASE Receive(e) \/ ReceiveError(e)
    BY <2>7 DEF Receive, ReceiveError, TypeOK, TypeWire, TypeLoop, TypeKex, TypeUser
  <2>8. CASE ReadOther(e) \/ NewKeys(e)
    BY <2>8 DEF ReadOther, NewKeys, EndKex, TypeOK, TypeWire, TypeLoop, TypeKex, TypeUser
  <2>9. CASE EnterKeyExchange(e)
    BY <2>9 DEF EnterKeyExchange, FailKex, LoopExit, TypeOK, TypeWire, TypeLoop, TypeKex, TypeUser
  <2>10. CASE KexMessage(e)
    BY <2>10 DEF KexMessage, FinishExchange, TypeOK, TypeWire, TypeLoop, TypeKex, TypeUser
  <2> QED
    BY <2>1, <2>2, <2>3, <2>4, <2>5, <2>6, <2>7, <2>8, <2>9, <2>10, StepCases DEF Offline, Asking, Writing
<1>3. /\ open'[x] = open[x] /\ writeError'[x] = writeError[x] /\ inits'[x] = inits[x]
      /\ sentInit'[x] = sentInit[x]
  <2>1. CASE ReadOnePacket(e)
    BY SMTT(40), <2>1 DEF ReadOnePacket, LoopExit, SendKexInit, TypeOK, TypeWire, TypeLoop, TypeKex, TypeUser
  <2>2. CASE RequestInitialKeyChange(e)
    BY <2>2 DEF RequestInitialKeyChange, SendKexInit, TypeOK, TypeWire, TypeLoop, TypeKex, TypeUser
  <2>3. CASE \E t \in Threads : Sleep(e, t) \/ Write(e, t)
    BY SMTT(40), <2>3 DEF Sleep, Write, SendKexInit, TypeOK, TypeWire, TypeLoop, TypeKex, TypeUser
  <2>4. CASE \E t \in Threads : WriteFails(e, t)
    <3>1. /\ open' \in {open, [open EXCEPT ![e] = FALSE]} /\ UNCHANGED writeError
          /\ inits' \in {inits, [inits EXCEPT ![e] = @ + 1]}
          /\ sentInit' \in {sentInit, [sentInit EXCEPT ![e] = TRUE]}
      BY <2>4 DEF WriteFails, SendKexInit
    <3> QED
      BY <3>1 DEF TypeOK, TypeWire, TypeKex
  <2>5. CASE ReadError(e) \/ Push(e) \/ BeginWrite(e) \/ Close(e)
    BY <2>5 DEF ReadError, Push, BeginWrite, Close, LoopExit, TypeOK, TypeWire, TypeLoop, TypeKex, TypeUser
  <2>6. CASE KexFails(e)
    BY <2>6 DEF KexFails, FailKex, LoopExit, TypeOK, TypeWire, TypeLoop, TypeKex, TypeUser
  <2>7. CASE Receive(e) \/ ReceiveError(e)
    BY <2>7 DEF Receive, ReceiveError, TypeOK, TypeWire, TypeLoop, TypeKex, TypeUser
  <2>8. CASE ReadOther(e) \/ NewKeys(e)
    BY SMTT(40), <2>8 DEF ReadOther, NewKeys, EndKex, TypeOK, TypeWire, TypeLoop, TypeKex, TypeUser
  <2>9. CASE EnterKeyExchange(e)
    <3>1. /\ open' \in {open, [open EXCEPT ![e] = FALSE]}
          /\ writeError' \in {writeError, [writeError EXCEPT ![e] = TRUE]}
          /\ inits' \in {inits, [inits EXCEPT ![e] = @ + 1]}
          /\ sentInit' \in {[sentInit EXCEPT ![e] = FALSE], [sentInit EXCEPT ![e] = TRUE]}
      BY <2>9 DEF EnterKeyExchange, FailKex, LoopExit
    <3> QED
      BY <3>1 DEF TypeOK, TypeWire, TypeKex
  <2>10. CASE KexMessage(e)
    BY <2>10 DEF KexMessage, FinishExchange, TypeOK, TypeWire, TypeLoop, TypeKex, TypeUser
  <2> QED
    BY <2>1, <2>2, <2>3, <2>4, <2>5, <2>6, <2>7, <2>8, <2>9, <2>10, StepCases DEF Offline, Asking, Writing
<1>4. /\ incoming'[x] = incoming[x] /\ held'[x] = held[x]
      /\ taken'[x] = taken[x] /\ got'[x] = got[x]
  <2>1. CASE ReadOnePacket(e)
    BY <2>1 DEF ReadOnePacket, LoopExit, SendKexInit, TypeOK, TypeWire, TypeLoop, TypeKex, TypeUser
  <2>2. CASE RequestInitialKeyChange(e)
    BY <2>2 DEF RequestInitialKeyChange, SendKexInit, TypeOK, TypeWire, TypeLoop, TypeKex, TypeUser
  <2>3. CASE \E t \in Threads : Sleep(e, t) \/ Write(e, t)
    BY SMTT(40), <2>3 DEF Sleep, Write, SendKexInit, TypeOK, TypeWire, TypeLoop, TypeKex, TypeUser
  <2>4. CASE \E t \in Threads : WriteFails(e, t)
    BY <2>4 DEF WriteFails, SendKexInit, TypeOK, TypeWire, TypeLoop, TypeKex, TypeUser
  <2>5. CASE ReadError(e) \/ Push(e) \/ BeginWrite(e) \/ Close(e)
    BY <2>5 DEF ReadError, Push, BeginWrite, Close, LoopExit, TypeOK, TypeWire, TypeLoop, TypeKex, TypeUser
  <2>6. CASE KexFails(e)
    BY <2>6 DEF KexFails, FailKex, LoopExit, TypeOK, TypeWire, TypeLoop, TypeKex, TypeUser
  <2>7. CASE Receive(e) \/ ReceiveError(e)
    BY <2>7 DEF Receive, ReceiveError, TypeOK, TypeWire, TypeLoop, TypeKex, TypeUser
  <2>8. CASE ReadOther(e) \/ NewKeys(e)
    <3>1. held' \in {held, [held EXCEPT ![e] = Head(net[e])]} /\ UNCHANGED <<incoming, taken, got>>
      BY <2>8 DEF ReadOther, NewKeys
    <3> QED
      BY <3>1 DEF TypeOK, TypeLoop
  <2>9. CASE EnterKeyExchange(e)
    BY <2>9 DEF EnterKeyExchange, FailKex, LoopExit, TypeOK, TypeWire, TypeLoop, TypeKex, TypeUser
  <2>10. CASE KexMessage(e)
    BY <2>10 DEF KexMessage, FinishExchange, TypeOK, TypeWire, TypeLoop, TypeKex, TypeUser
  <2> QED
    BY <2>1, <2>2, <2>3, <2>4, <2>5, <2>6, <2>7, <2>8, <2>9, <2>10, StepCases DEF Offline, Asking, Writing
<1> QED
  BY <1>0, <1>1, <1>2, <1>3, <1>4

\* A connection that was closed stays closed.
LEMMA OpenKept ==
  ASSUME TypeOK, NEW e \in Ends, Step(e)
  PROVE  open'[e] => open[e]
  BY StepCases DEF TypeOK, TypeWire, wireVars, Offline, ReadError, Push, KexFails, FailKex, Receive, ReceiveError,
     BeginWrite, Close, Asking, ReadOnePacket, RequestInitialKeyChange, Sleep, WriteFails, Writing, Write, ReadOther,
     NewKeys, EnterKeyExchange, KexMessage

LEMMA AgreedKept ==
  ASSUME offer' = offer
  PROVE  (Agreed' = Agreed) /\ (KexRounds' = KexRounds)
  BY DEF Agreed, KexRounds

LEMMA PhaseStep ==
  ASSUME TypeOK, PhasesKept, NEW e \in Ends, Step(e)
  PROVE  Phase(e)'
<1>0. /\ Phase(e) /\ Agreed' = Agreed /\ KexRounds' = KexRounds /\ KexRounds \in {0, 1, 2}
      /\ (Agreed # <<>> => KexRounds \in {1, 2})
  BY AgreedKept, RoundsType DEF Step, PhasesKept
<1>1. /\ loop \in [Ends -> Loops] /\ sentInit \in [Ends -> BOOLEAN] /\ round \in [Ends -> 0..2]
      /\ pending \in [Ends -> SUBSET {"read"}] /\ wkey \in [Ends -> Nat] /\ rkey \in [Ends -> Nat]
      /\ open \in [Ends -> BOOLEAN] /\ writeError \in [Ends -> BOOLEAN]
  BY DEF TypeOK, TypeWire, TypeLoop, TypeKex
<1> DEFINE Goal == Phase(e)'
<1> USE DEF wireVars, kexVars, loopVars, userVars
<1>2. ASSUME Push(e) \/ Receive(e) \/ ReceiveError(e) \/ BeginWrite(e) \/ Close(e) \/ Writing(e) \/ ReadOther(e)
      PROVE  Goal
  <2>1. /\ UNCHANGED <<sentInit, round, pending, wkey, rkey, writeError>>
        /\ open'[e] => open[e]
        /\ loop'[e] # loop[e] => loop[e] \in {"push", "read"} /\ loop'[e] \in {"top", "push"}
    BY <1>1, <1>2 DEF Push, Receive, ReceiveError, BeginWrite, Close, Writing, Write, ReadOther
  <2>2. loop'[e] \in Loops
    BY LoopTypeStep DEF TypeLoop
  <2> QED
    BY <1>0, <1>1, <2>1, <2>2 DEF Phase, Loops
<1>3. ASSUME ReadError(e) \/ KexFails(e) PROVE Goal
  <2>1. /\ UNCHANGED <<round, pending, wkey, rkey>>
        /\ loop'[e] = "done" /\ writeError'[e] = TRUE
        /\ open'[e] = FALSE \/ (loop[e] = "read" /\ open' = open)
    BY <1>1, <1>3 DEF ReadError, KexFails, FailKex, LoopExit
  <2> QED
    BY <1>0, <1>1, <2>1 DEF Phase
<1>4. ASSUME Asking(e) PROVE Goal
  <2>1. /\ UNCHANGED <<round, pending, wkey, rkey>>
        /\ sentInit[e] => sentInit'[e]
        /\ open'[e] => open[e]
    BY <1>1, <1>4 DEF Asking, ReadOnePacket, LoopExit, RequestInitialKeyChange, Sleep, WriteFails, SendKexInit
  <2>2. \/ UNCHANGED <<loop, writeError>>
        \/ loop[e] = "top" /\ loop'[e] = "read" /\ UNCHANGED writeError
        \/ loop[e] = "top" /\ loop'[e] = "done" /\ writeError'[e] = TRUE
    BY <1>1, <1>4 DEF Asking, ReadOnePacket, LoopExit, RequestInitialKeyChange, Sleep, WriteFails
  <2> QED
    BY <1>0, <1>1, <2>1, <2>2 DEF Phase
<1>5. ASSUME NewKeys(e) PROVE Goal
  <2>1. /\ UNCHANGED <<round, wkey, open, writeError>> /\ loop[e] = "newKeys" /\ loop'[e] \in {"push", "top"}
        /\ rkey'[e] = rkey[e] + 1 /\ pending'[e] = pending[e] \ {"read"}
    BY <1>1, <1>5 DEF NewKeys
  <2> QED
    BY <1>0, <1>1, <2>1 DEF Phase
<1>6. ASSUME EnterKeyExchange(e) PROVE Goal
  <2>1. /\ UNCHANGED <<pending, wkey, rkey>> /\ loop[e] = "read"
        /\ \/ /\ loop'[e] = "kex" /\ sentInit'[e] = TRUE /\ Agreed # <<>> /\ round'[e] = KexRounds
              /\ UNCHANGED <<open, writeError>>
           \/ loop'[e] = "done" /\ open'[e] = FALSE /\ writeError'[e] = TRUE
    BY <1>1, <1>6 DEF EnterKeyExchange, FailKex, LoopExit
  <2> QED
    BY <1>0, <1>1, <2>1 DEF Phase
<1>7. ASSUME KexMessage(e) PROVE Goal
  <2>1. /\ UNCHANGED <<rkey, open, writeError, sentInit>> /\ loop[e] = "kex"
        /\ round'[e] = round[e] - 1
        /\ \/ round[e] > 1 /\ UNCHANGED <<pending, wkey, loop>>
           \/ /\ round[e] = 1 /\ pending'[e] = {"read"} /\ wkey'[e] = wkey[e] + 1
              /\ loop'[e] = "newKeys"
    BY <1>1, <1>7 DEF KexMessage, FinishExchange
  <2> QED
    BY <1>0, <1>1, <2>1 DEF Phase
<1> HIDE DEF Goal
<1>8. Goal
  BY <1>2, <1>3, <1>4, <1>5, <1>6, <1>7, StepCases DEF Offline
<1> QED
  BY <1>8 DEF Goal

LEMMA PhasesStep == TypeOK /\ PhasesKept /\ [Next]_vars => PhasesKept'
<1> SUFFICES ASSUME TypeOK, PhasesKept, [Next]_vars PROVE PhasesKept'
  OBVIOUS
<1>1. ASSUME NEW e \in Ends, Step(e), NEW x \in Ends PROVE Phase(x)'
  <2>1. CASE x = e
    BY <1>1, <2>1, PhaseStep
  <2>2. CASE x # e
    BY <1>1, <2>2, Frame, AgreedKept DEF PhasesKept, Phase
  <2> QED
    BY <2>1, <2>2
<1>2. CASE UNCHANGED vars
  BY <1>2, AgreedKept DEF vars, wireVars, kexVars, loopVars, PhasesKept, Phase
<1> QED
  BY <1>1, <1>2, StepOrStutter DEF PhasesKept

LEMMA PhasesInit == Init => PhasesKept
  BY DEF Init, PhasesKept, Phase, Ends

\* The types of the transport's state.
THEOREM TypeCorrect == Spec => [](TypeOK /\ PhasesKept)
  BY TypeInit, PhasesInit, TypeStep, PhasesStep, PTL DEF Spec

-----------------------------------------------------------------------------
(* The keys of the packets on their way.                                   *)

\* The packets q take a reader that holds key r to key w.
KeyChain(q, r) ==
  /\ q # <<>> => q[1].key = r
  /\ \A i \in 1..(Len(q) - 1) : q[i + 1].key = KeyAfter(q[i])
KeyEnd(q, r) == IF q = <<>> THEN r ELSE KeyAfter(q[Len(q)])

LEMMA KeyAppend ==
  ASSUME NEW q \in Seq(Packets), NEW p \in Packets, NEW r, KeyChain(q, r), p.key = KeyEnd(q, r)
  PROVE  KeyChain(Append(q, p), r) /\ KeyEnd(Append(q, p), r) = KeyAfter(p)
<1> DEFINE a == Append(q, p)
<1>0. Len(q) \in Nat
  OBVIOUS
<1>1. a \in Seq(Packets) /\ Len(a) = Len(q) + 1 /\ a[Len(a)] = p /\ a # <<>>
      /\ \A i \in 1..Len(q) : a[i] = q[i]
  BY AppendProperties
<1> HIDE DEF a
<1>2. a[1].key = r
  BY <1>0, <1>1 DEF KeyChain, KeyEnd
<1>3. ASSUME NEW i \in 1..(Len(a) - 1) PROVE a[i + 1].key = KeyAfter(a[i])
  <2>1. CASE i = Len(q)
    <3>1. q # <<>> /\ i \in 1..Len(q) /\ i + 1 = Len(a)
      BY <1>0, <1>1, <2>1
    <3>2. a[i + 1] = p /\ a[i] = q[Len(q)]
      BY <1>1, <2>1, <3>1
    <3> QED
      BY <3>1, <3>2 DEF KeyEnd
  <2>2. CASE i # Len(q)
    <3>1. i \in 1..(Len(q) - 1) /\ i + 1 \in 1..Len(q) /\ i \in 1..Len(q)
      BY <1>0, <1>1, <2>2
    <3> QED
      BY <1>1, <3>1 DEF KeyChain
  <2> QED
    BY <2>1, <2>2
<1>4. KeyChain(a, r) /\ KeyEnd(a, r) = KeyAfter(p)
  BY <1>1, <1>2, <1>3 DEF KeyChain, KeyEnd
<1> QED
  BY <1>4 DEF a

LEMMA KeyTail ==
  ASSUME NEW q \in Seq(Packets), q # <<>>, NEW r, KeyChain(q, r)
  PROVE  /\ KeyChain(Tail(q), KeyAfter(Head(q))) /\ KeyEnd(Tail(q), KeyAfter(Head(q))) = KeyEnd(q, r)
         /\ Head(q).key = r
<1> DEFINE t == Tail(q)
<1>0. Len(q) \in Nat /\ Len(q) > 0 /\ Head(q) = q[1]
  BY HeadTailProperties
<1>1. t \in Seq(Packets) /\ Len(t) = Len(q) - 1 /\ \A i \in 1..Len(t) : t[i] = q[i + 1]
  BY HeadTailProperties
<1>a. t = <<>> <=> Len(t) = 0
  BY <1>1, EmptySeq
<1> HIDE DEF t
<1>2. KeyChain(t, KeyAfter(q[1]))
  <2>1. t # <<>> => t[1].key = KeyAfter(q[1])
    BY <1>0, <1>1, <1>a DEF KeyChain
  <2>2. ASSUME NEW i \in 1..(Len(t) - 1) PROVE t[i + 1].key = KeyAfter(t[i])
    <3>1. i + 1 \in 1..(Len(q) - 1) /\ i \in 1..Len(t) /\ i + 1 \in 1..Len(t)
      BY <1>0, <1>1
    <3> QED
      BY <1>1, <3>1 DEF KeyChain
  <2> QED
    BY <2>1, <2>2 DEF KeyChain
<1>3. KeyEnd(t, KeyAfter(q[1])) = KeyEnd(q, r)
  <2>1. CASE t = <<>>
    <3>1. Len(q) = 1
      BY <1>0, <1>1, <1>a, <2>1
    <3> QED
      BY <2>1, <3>1 DEF KeyEnd
  <2>2. CASE t # <<>>
    <3>1. Len(t) \in 1..Len(t) /\ Len(t) + 1 = Len(q)
      BY <1>0, <1>1, <1>a, <2>2
    <3> QED
      BY <1>1, <2>2, <3>1 DEF KeyEnd
  <2> QED
    BY <2>1, <2>2
<1> QED
  BY <1>0, <1>2, <1>3 DEF t, KeyChain

LEMMA KeysToChain ==
  ASSUME NEW e \in Ends
  PROVE  KeysTo(e) <=> KeyChain(net[e], rkey[e]) /\ (open[e] => wkey[Peer(e)] = KeyEnd(net[e], rkey[e]))
  BY DEF KeysTo, KeyChain, KeyEnd

\* Whether e wrote nothing, one or two packets, and whether it read one, the
\* keys of both directions stay in step.
LEMMA KeysWritten ==
  ASSUME TypeOK, TypeOK', NEW e \in Ends, KeysTo(Peer(e)), open'[Peer(e)] = open[Peer(e)],
         rkey'[Peer(e)] = rkey[Peer(e)],
         \/ Wrote0(e) /\ wkey'[e] = wkey[e]
         \/ \E p \in Packets : Wrote1(e, p) /\ p.key = wkey[e] /\ wkey'[e] = KeyAfter(p)
         \/ \E p \in Packets, q \in Packets :
              /\ Wrote2(e, p, q) /\ p.key = wkey[e] /\ q.key = KeyAfter(p)
              /\ wkey'[e] = KeyAfter(q)
  PROVE  KeysTo(Peer(e))'
<1> DEFINE f == Peer(e)
           s == net[f]
<1>0. f \in Ends /\ Peer(f) = e /\ s \in Seq(Packets)
  BY PeerFacts DEF TypeOK, TypeWire
<1>1. KeyChain(s, rkey[f]) /\ (open[f] => wkey[e] = KeyEnd(s, rkey[f]))
  BY <1>0, KeysToChain
<1>2. SUFFICES KeyChain(net'[f], rkey[f]) /\ (open[f] => wkey'[e] = KeyEnd(net'[f], rkey[f]))
  BY <1>0, <1>2 DEF KeysTo, KeyChain, KeyEnd
<1>3. CASE Wrote0(e) /\ wkey'[e] = wkey[e]
  BY <1>1, <1>3 DEF Wrote0
<1>4. ASSUME NEW p \in Packets, Wrote1(e, p), p.key = wkey[e], wkey'[e] = KeyAfter(p)
      PROVE  KeyChain(net'[f], rkey[f]) /\ (open[f] => wkey'[e] = KeyEnd(net'[f], rkey[f]))
  BY <1>0, <1>1, <1>4, KeyAppend DEF Wrote1
<1>5. ASSUME NEW p \in Packets, NEW q \in Packets, Wrote2(e, p, q), p.key = wkey[e], q.key = KeyAfter(p),
             wkey'[e] = KeyAfter(q)
      PROVE  KeyChain(net'[f], rkey[f]) /\ (open[f] => wkey'[e] = KeyEnd(net'[f], rkey[f]))
  <2>1. Append(s, p) \in Seq(Packets)
    BY <1>0, AppendProperties
  <2>2. open[f] => KeyChain(Append(s, p), rkey[f]) /\ KeyEnd(Append(s, p), rkey[f]) = KeyAfter(p)
    BY <1>0, <1>1, <1>5, KeyAppend
  <2>3. open[f] => /\ KeyChain(Append(Append(s, p), q), rkey[f])
                   /\ KeyEnd(Append(Append(s, p), q), rkey[f]) = KeyAfter(q)
    BY <1>5, <2>1, <2>2, KeyAppend
  <2> QED
    BY <1>1, <1>5, <2>3 DEF Wrote2
<1> QED
  BY <1>3, <1>4, <1>5

LEMMA KeysRead ==
  ASSUME TypeOK, NEW e \in Ends, KeysTo(e), wkey'[Peer(e)] = wkey[Peer(e)], open'[e] => open[e],
         \/ Kept(e) /\ rkey'[e] = rkey[e]
         \/ Took(e) /\ rkey'[e] = KeyAfter(Head(net[e]))
  PROVE  KeysTo(e)'
<1> DEFINE q == net[e]
<1>0. q \in Seq(Packets)
  BY DEF TypeOK, TypeWire
<1>1. KeyChain(q, rkey[e]) /\ (open[e] => wkey[Peer(e)] = KeyEnd(q, rkey[e]))
  BY KeysToChain
<1>2. SUFFICES KeyChain(net'[e], rkey'[e]) /\ (open'[e] => wkey[Peer(e)] = KeyEnd(net'[e], rkey'[e]))
  BY <1>2 DEF KeysTo, KeyChain, KeyEnd
<1>3. CASE Kept(e) /\ rkey'[e] = rkey[e]
  BY <1>1, <1>3 DEF Kept
<1>4. CASE Took(e) /\ rkey'[e] = KeyAfter(Head(q))
  BY <1>0, <1>1, <1>4, KeyTail DEF Took
<1> QED
  BY <1>3, <1>4

LEMMA KeysStep ==
  ASSUME TypeOK, TypeOK', PhasesKept, KeysInStep, NEW e \in Ends, Step(e)
  PROVE  KeysTo(e)' /\ KeysTo(Peer(e))'
<1> DEFINE f == Peer(e)
           W == \/ Wrote0(e) /\ wkey'[e] = wkey[e]
                \/ \E p \in Packets : Wrote1(e, p) /\ p.key = wkey[e] /\ wkey'[e] = KeyAfter(p)
                \/ \E p \in Packets, q \in Packets :
                     /\ Wrote2(e, p, q) /\ p.key = wkey[e] /\ q.key = KeyAfter(p)
                     /\ wkey'[e] = KeyAfter(q)
           R == \/ Kept(e) /\ rkey'[e] = rkey[e]
                \/ Took(e) /\ rkey'[e] = KeyAfter(Head(net[e]))
<1>0. /\ f \in Ends /\ f # e /\ open'[f] = open[f] /\ rkey'[f] = rkey[f] /\ wkey'[f] = wkey[f]
      /\ KeysTo(e) /\ KeysTo(f)
  BY PeerFacts, Frame DEF KeysInStep
<1>1. open'[e] => open[e]
  BY OpenKept
<1>2. /\ KexInit(e) \in Packets /\ KexInit(e).key = wkey[e] /\ KeyAfter(KexInit(e)) = wkey[e]
      /\ NewKeysMsg(e) \in Packets /\ NewKeysMsg(e).key = wkey[e] /\ KeyAfter(NewKeysMsg(e)) = wkey[e] + 1
      /\ \A i \in Nat : KexMsg(e, i) \in Packets /\ KexMsg(e, i).key = wkey[e] /\ KeyAfter(KexMsg(e, i)) = wkey[e]
  <2>1. wkey[e] \in Nat
    BY DEF TypeOK, TypeWire
  <2>2. /\ KexInit(e).key = wkey[e] /\ KexInit(e).kind = "kexInit"
        /\ NewKeysMsg(e).key = wkey[e] /\ NewKeysMsg(e).kind = "newKeys"
        /\ \A i \in Nat : KexMsg(e, i).key = wkey[e] /\ KexMsg(e, i).kind = "kexMsg"
    BY DEF KexInit, KexMsg, NewKeysMsg, Packet
  <2>3. KeyAfter(KexInit(e)) = wkey[e] /\ KeyAfter(NewKeysMsg(e)) = wkey[e] + 1
    BY <2>1, <2>2 DEF KeyAfter
  <2>4. \A i \in Nat : KeyAfter(KexMsg(e, i)) = wkey[e]
    BY <2>1, <2>2 DEF KeyAfter
  <2>5. KexInit(e) \in Packets /\ NewKeysMsg(e) \in Packets /\ \A i \in Nat : KexMsg(e, i) \in Packets
    BY PacketTypes
  <2> QED
    BY <2>2, <2>3, <2>4, <2>5
<1>3. ASSUME Offline(e) PROVE W /\ R
  <2>1. UNCHANGED <<wkey, rkey>>
    BY <1>3 DEF wireVars, Offline, ReadError, Push, KexFails, Receive, ReceiveError, BeginWrite, Close
  <2> QED
    BY <1>3, <2>1, OfflineNet, WireUnchanged
<1>4. ASSUME Asking(e) PROVE W /\ R
  <2>1. UNCHANGED <<wkey, rkey>>
    BY <1>4 DEF wireVars, Asking, ReadOnePacket, RequestInitialKeyChange, Sleep, WriteFails
  <2>2. Kept(e) /\ (Wrote0(e) \/ Wrote1(e, KexInit(e)))
    BY <1>4, WireAsk DEF Asking, Threads
  <2> QED
    BY <1>2, <2>1, <2>2
<1>5. ASSUME Writing(e) PROVE W /\ R
  <2>1. PICK t \in Threads : Write(e, t)
    BY <1>5 DEF Writing
  <2> DEFINE p == Packet(wants[e][t], wkey[e], taken[e] + 1)
  <2>2. UNCHANGED <<wkey, rkey>>
    BY <2>1 DEF Write
  <2>3. Kept(e) /\ p \in Packets /\ Wrote1(e, p)
    BY <2>1, WireWrite
  <2>4. p.key = wkey[e] /\ KeyAfter(p) = wkey[e]
    <3>1. wants[e][t] # "newKeys" /\ wkey[e] \in Nat
      BY DEF TypeOK, TypeUser, TypeWire, DataKinds
    <3> QED
      BY <3>1 DEF Packet, KeyAfter
  <2> QED
    BY <2>2, <2>3, <2>4
<1>6. ASSUME ReadOther(e) PROVE W /\ R
  <2>1. UNCHANGED <<wkey, rkey>> /\ Took(e) /\ Wrote0(e)
    BY <1>6, WireTakeOnly DEF ReadOther
  <2>2. Head(net[e]) \in Packets /\ Head(net[e]).key = rkey[e] /\ Head(net[e]).kind # "newKeys"
    BY <1>6, HeadPacket DEF ReadOther, Arrived, Readable, PhasesKept, Phase
  <2>3. KeyAfter(Head(net[e])) = rkey[e]
    BY <2>2 DEF KeyAfter, TypeOK, TypeWire
  <2> QED
    BY <2>1, <2>3
<1>7. ASSUME NewKeys(e) PROVE W /\ R
  <2>1. wkey' = wkey /\ rkey'[e] = rkey[e] + 1 /\ Took(e) /\ Wrote0(e)
    BY <1>7, WireTakeOnly DEF NewKeys, TypeOK, TypeWire
  <2>2. Head(net[e]).key = rkey[e] /\ Head(net[e]).kind = "newKeys"
    BY <1>7 DEF NewKeys, Readable
  <2>3. KeyAfter(Head(net[e])) = rkey[e] + 1
    BY <2>2 DEF KeyAfter, TypeOK, TypeWire
  <2> QED
    BY <2>1, <2>3
<1>8. ASSUME EnterKeyExchange(e) PROVE W /\ R
  <2>1. /\ UNCHANGED <<wkey, rkey>> /\ Took(e)
        /\ \/ Wrote0(e) \/ Wrote1(e, KexInit(e)) \/ Wrote1(e, KexMsg(e, 1))
           \/ Wrote2(e, KexInit(e), KexMsg(e, 1))
    <3>1. UNCHANGED <<wkey, rkey>>
      BY <1>8 DEF EnterKeyExchange
    <3> QED
      BY <1>8, <3>1, WireEnter
  <2>2. Head(net[e]).key = rkey[e] /\ Head(net[e]).kind = "kexInit"
    BY <1>8 DEF EnterKeyExchange, Readable
  <2>3. KeyAfter(Head(net[e])) = rkey[e]
    BY <2>2 DEF KeyAfter, TypeOK, TypeWire
  <2> QED
    BY <1>2, <2>1, <2>3
<1>9. ASSUME KexMessage(e) PROVE W /\ R
  <2>1. /\ rkey' = rkey /\ Took(e) /\ NextMsg(e) \in Nat
        /\ \/ Wrote1(e, KexMsg(e, NextMsg(e))) /\ round[e] > 1
           \/ round[e] = 1 /\ Wrote1(e, NewKeysMsg(e))
           \/ round[e] = 1 /\ Wrote2(e, KexMsg(e, NextMsg(e)), NewKeysMsg(e))
    <3>1. rkey' = rkey
      BY <1>9 DEF KexMessage
    <3> QED
      BY <1>9, <3>1, WireKexMessage
  <2>2. Head(net[e]).key = rkey[e] /\ Head(net[e]).kind = "kexMsg"
    BY <1>9 DEF KexMessage, Readable
  <2>3. KeyAfter(Head(net[e])) = rkey[e]
    BY <2>2 DEF KeyAfter, TypeOK, TypeWire
  <2>4. /\ round[e] > 1 => wkey'[e] = wkey[e]
        /\ round[e] = 1 => wkey'[e] = wkey[e] + 1
    BY <1>9 DEF KexMessage, FinishExchange, TypeOK, TypeWire, TypeKex
  <2> QED
    BY <1>2, <2>1, <2>3, <2>4
<1>10. W /\ R
  <2> HIDE DEF W, R
  <2> QED
    BY <1>3, <1>4, <1>5, <1>6, <1>7, <1>8, <1>9, StepCases
<1> QED
  BY <1>0, <1>1, <1>10, KeysRead, KeysWritten

LEMMA KeysNext == TypeOK /\ TypeOK' /\ PhasesKept /\ KeysInStep /\ [Next]_vars => KeysInStep'
<1> SUFFICES ASSUME TypeOK, TypeOK', PhasesKept, KeysInStep, [Next]_vars PROVE KeysInStep'
  OBVIOUS
<1>1. ASSUME NEW e \in Ends, Step(e) PROVE KeysInStep'
  BY <1>1, KeysStep, PeerFacts DEF KeysInStep
<1>2. CASE UNCHANGED vars
  BY <1>2 DEF vars, wireVars, KeysInStep, KeysTo
<1> QED
  BY <1>1, <1>2, StepOrStutter

LEMMA KeysInit == Init => KeysInStep
  BY DEF Init, KeysInStep, KeysTo, Ends, Peer

\* Whatever is written when, and whoever asks for new keys: every packet is
\* read with the key it was written with (connectionState.readPacket).
THEOREM KeysAlwaysInStep == Spec => []KeysInStep
<1>1. TypeOK /\ PhasesKept /\ KeysInStep /\ [Next]_vars => (TypeOK /\ PhasesKept /\ KeysInStep)'
  BY TypeStep, PhasesStep, KeysNext
<1> QED
  BY <1>1, TypeInit, PhasesInit, KeysInit, PTL DEF Spec

-----------------------------------------------------------------------------
(* The exchanges in the stream of packets.                                 *)

Links(q) == \A i \in 1..(Len(q) - 1) : Place(q[i + 1]) = PlaceAfter(q[i])
StartsAt(q, r) == q # <<>> => Place(q[1]) = r
EndsAt(q, r) == IF q = <<>> THEN r ELSE PlaceAfter(q[Len(q)])

LEMMA PlaceAppend ==
  ASSUME NEW S, NEW q \in Seq(S), NEW p \in S, NEW r, Links(q), StartsAt(q, r), Place(p) = EndsAt(q, r)
  PROVE  /\ Append(q, p) \in Seq(S) /\ Links(Append(q, p)) /\ StartsAt(Append(q, p), r)
         /\ EndsAt(Append(q, p), r) = PlaceAfter(p)
<1> DEFINE a == Append(q, p)
<1>0. Len(q) \in Nat
  OBVIOUS
<1>1. a \in Seq(S) /\ Len(a) = Len(q) + 1 /\ a[Len(a)] = p /\ a # <<>>
      /\ \A i \in 1..Len(q) : a[i] = q[i]
  BY AppendProperties
<1> HIDE DEF a
<1>2. Place(a[1]) = r
  <2>1. CASE q = <<>>
    BY <1>1, <2>1 DEF EndsAt
  <2>2. CASE q # <<>>
    <3>1. 1 \in 1..Len(q)
      BY <1>0, <2>2, EmptySeq
    <3> QED
      BY <1>1, <2>2, <3>1 DEF StartsAt
  <2> QED
    BY <2>1, <2>2
<1>3. ASSUME NEW i \in 1..(Len(a) - 1) PROVE Place(a[i + 1]) = PlaceAfter(a[i])
  <2>1. CASE i = Len(q)
    <3>1. q # <<>> /\ i \in 1..Len(q) /\ i + 1 = Len(a)
      BY <1>0, <1>1, <2>1
    <3>2. a[i + 1] = p /\ a[i] = q[Len(q)]
      BY <1>1, <2>1, <3>1
    <3> QED
      BY <3>1, <3>2 DEF EndsAt
  <2>2. CASE i # Len(q)
    <3>1. i \in 1..(Len(q) - 1) /\ i + 1 \in 1..Len(q) /\ i \in 1..Len(q)
      BY <1>0, <1>1, <2>2
    <3> QED
      BY <1>1, <3>1 DEF Links
  <2> QED
    BY <2>1, <2>2
<1>4. a \in Seq(S) /\ Links(a) /\ StartsAt(a, r) /\ EndsAt(a, r) = PlaceAfter(p)
  BY <1>1, <1>2, <1>3 DEF Links, StartsAt, EndsAt
<1> QED
  BY <1>4 DEF a

LEMMA PlaceTail ==
  ASSUME NEW S, NEW q \in Seq(S), q # <<>>, NEW r, Links(q)
  PROVE  /\ Tail(q) \in Seq(S) /\ Links(Tail(q)) /\ StartsAt(Tail(q), PlaceAfter(Head(q)))
         /\ EndsAt(Tail(q), PlaceAfter(Head(q))) = EndsAt(q, r)
         /\ Head(q) = q[1] /\ Head(q) \in S
<1> DEFINE t == Tail(q)
<1>0. Len(q) \in Nat /\ Len(q) > 0 /\ Head(q) = q[1] /\ Head(q) \in S
  BY HeadTailProperties
<1>1. t \in Seq(S) /\ Len(t) = Len(q) - 1 /\ \A i \in 1..Len(t) : t[i] = q[i + 1]
  BY HeadTailProperties
<1>a. t = <<>> <=> Len(t) = 0
  BY <1>1, EmptySeq
<1> HIDE DEF t
<1>2. StartsAt(t, PlaceAfter(q[1]))
  <2>1. SUFFICES ASSUME t # <<>> PROVE Place(t[1]) = PlaceAfter(q[1])
    BY DEF StartsAt
  <2>2. 1 \in 1..(Len(q) - 1) /\ 1 \in 1..Len(t)
    BY <1>0, <1>1, <1>a, <2>1
  <2> QED
    BY <1>1, <2>2 DEF Links
<1>3. Links(t)
  <2>2. ASSUME NEW i \in 1..(Len(t) - 1) PROVE Place(t[i + 1]) = PlaceAfter(t[i])
    <3>1. i + 1 \in 1..(Len(q) - 1) /\ i \in 1..Len(t) /\ i + 1 \in 1..Len(t)
      BY <1>0, <1>1
    <3> QED
      BY <1>1, <3>1 DEF Links
  <2> QED
    BY <2>2 DEF Links
<1>4. EndsAt(t, PlaceAfter(q[1])) = EndsAt(q, r)
  <2>1. CASE t = <<>>
    <3>1. Len(q) = 1
      BY <1>0, <1>1, <1>a, <2>1
    <3> QED
      BY <2>1, <3>1 DEF EndsAt
  <2>2. CASE t # <<>>
    <3>1. Len(t) \in 1..Len(t) /\ Len(t) + 1 = Len(q)
      BY <1>0, <1>1, <1>a, <2>2
    <3> QED
      BY <1>1, <2>2, <3>1 DEF EndsAt
  <2> QED
    BY <2>1, <2>2
<1> QED
  BY <1>0, <1>1, <1>2, <1>3, <1>4 DEF t

\* The stream q of packets of S, of which the reader has got to r and the
\* writer to w, while the reader (i) and the writer (o) are open.
Stream(q, S, i, o, r, w) ==
  /\ q \in Seq(S) /\ Links(q)
  /\ i => StartsAt(q, r)
  /\ i /\ o => w = EndsAt(q, r)

LEMMA StreamParts ==
  ASSUME NEW e \in Ends
  PROVE  /\ StreamTo(e) <=> Stream(net[e], OnWire, open[e], open[Peer(e)], ReadTo(e), WrittenTo(Peer(e)))
         /\ StreamTo(e)' <=> Stream(net'[e], OnWire', open'[e], open'[Peer(e)], ReadTo(e)', WrittenTo(Peer(e))')
<1>1. StreamTo(e) <=> Stream(net[e], OnWire, open[e], open[Peer(e)], ReadTo(e), WrittenTo(Peer(e)))
  BY DEF StreamTo, Stream, Links, StartsAt, EndsAt
<1>2. StreamTo(e)' <=> Stream(net'[e], OnWire', open'[e], open'[Peer(e)], ReadTo(e)', WrittenTo(Peer(e))')
  BY DEF StreamTo, Stream, Links, StartsAt, EndsAt
<1> QED
  BY <1>1, <1>2

LEMMA StreamKeep ==
  ASSUME NEW q, NEW S, NEW i, NEW o, NEW r, NEW w, Stream(q, S, i, o, r, w),
         NEW in, NEW on, NEW rn, NEW wn, in => i /\ rn = r, on => o /\ wn = w
  PROVE  Stream(q, S, in, on, rn, wn)
  BY DEF Stream

LEMMA StreamTake ==
  ASSUME NEW q, NEW S, NEW i, NEW o, NEW r, NEW w, Stream(q, S, i, o, r, w), i, q # <<>>,
         NEW in, NEW rn, in => rn = PlaceAfter(Head(q))
  PROVE  Stream(Tail(q), S, in, o, rn, w)
<1>1. q \in Seq(S) /\ Links(q) /\ (o => w = EndsAt(q, r))
  BY DEF Stream
<1>2. /\ Tail(q) \in Seq(S) /\ Links(Tail(q)) /\ StartsAt(Tail(q), PlaceAfter(Head(q)))
      /\ EndsAt(Tail(q), PlaceAfter(Head(q))) = EndsAt(q, r)
  BY <1>1, PlaceTail
<1> QED
  BY <1>1, <1>2 DEF Stream

LEMMA StreamPut ==
  ASSUME NEW q, NEW S, NEW i \in BOOLEAN, NEW r, NEW w, Stream(q, S, i, TRUE, r, w), NEW p \in S, Place(p) = w,
         NEW on, NEW wn, on => wn = PlaceAfter(p)
  PROVE  Stream(IF i THEN Append(q, p) ELSE q, S, i, on, r, wn)
<1>1. CASE i
  <2>1. q \in Seq(S) /\ Links(q) /\ StartsAt(q, r) /\ w = EndsAt(q, r)
    BY <1>1 DEF Stream
  <2>2. /\ Append(q, p) \in Seq(S) /\ Links(Append(q, p)) /\ StartsAt(Append(q, p), r)
        /\ EndsAt(Append(q, p), r) = PlaceAfter(p)
    BY <2>1, PlaceAppend
  <2> QED
    BY <1>1, <2>2 DEF Stream
<1>2. CASE ~i
  BY <1>2 DEF Stream
<1> QED
  BY <1>1, <1>2

\* Whether an end wrote nothing, one or two packets, and whether it read one,
\* the exchanges of both directions stay in order.
WroteInOrder(e) ==
  \/ Wrote0(e) /\ (open'[e] => open[e] /\ WrittenTo(e)' = WrittenTo(e))
  \/ \E p \in OnWire : /\ Wrote1(e, p) /\ open[e] /\ Place(p) = WrittenTo(e)
                       /\ open'[e] => WrittenTo(e)' = PlaceAfter(p)
  \/ \E p \in OnWire, q \in OnWire :
       /\ Wrote2(e, p, q) /\ open[e] /\ Place(p) = WrittenTo(e) /\ Place(q) = PlaceAfter(p)
       /\ open'[e] => WrittenTo(e)' = PlaceAfter(q)
ReadInOrder(e) ==
  \/ Kept(e) /\ (open'[e] => open[e] /\ ReadTo(e)' = ReadTo(e))
  \/ Took(e) /\ (open'[e] => ReadTo(e)' = PlaceAfter(Head(net[e])))

LEMMA StreamWritten ==
  ASSUME TypeOK, NEW e \in Ends, StreamTo(Peer(e)), WroteInOrder(e), OnWire' = OnWire,
         open'[Peer(e)] = open[Peer(e)], ReadTo(Peer(e))' = ReadTo(Peer(e))
  PROVE  StreamTo(Peer(e))'
<1> DEFINE f == Peer(e)
           r == ReadTo(f)
           w == WrittenTo(e)
           wn == WrittenTo(e)'
<1>0. f \in Ends /\ Peer(f) = e /\ open[f] \in BOOLEAN
  BY PeerFacts DEF TypeOK, TypeWire
<1>1. Stream(net[f], OnWire, open[f], open[e], r, w)
  BY <1>0, StreamParts
<1>2. SUFFICES Stream(net'[f], OnWire, open[f], open'[e], r, wn)
  BY <1>0, StreamParts
<1> HIDE DEF r, w, wn
<1>3. CASE Wrote0(e) /\ (open'[e] => open[e] /\ wn = w)
  BY <1>1, <1>3, StreamKeep DEF Wrote0
<1>4. ASSUME NEW p \in OnWire, Wrote1(e, p), open[e], Place(p) = w, open'[e] => wn = PlaceAfter(p)
      PROVE  Stream(net'[f], OnWire, open[f], open'[e], r, wn)
  <2>1. Stream(net[f], OnWire, open[f], TRUE, r, w)
    BY <1>1, <1>4 DEF Stream
  <2> QED
    BY <1>0, <1>4, <2>1, StreamPut DEF Wrote1
<1>5. ASSUME NEW p \in OnWire, NEW q \in OnWire, Wrote2(e, p, q), open[e], Place(p) = w, Place(q) = PlaceAfter(p),
             open'[e] => wn = PlaceAfter(q)
      PROVE  Stream(net'[f], OnWire, open[f], open'[e], r, wn)
  <2> DEFINE s == IF open[f] THEN Append(net[f], p) ELSE net[f]
  <2>1. Stream(net[f], OnWire, open[f], TRUE, r, w)
    BY <1>1, <1>5 DEF Stream
  <2>2. Stream(s, OnWire, open[f], TRUE, r, PlaceAfter(p))
    BY <1>0, <1>5, <2>1, StreamPut
  <2>3. net'[f] = IF open[f] THEN Append(s, q) ELSE s
    BY <1>5 DEF Wrote2
  <2> HIDE DEF s
  <2> QED
    BY <1>0, <1>5, <2>2, <2>3, StreamPut
<1> QED
  BY <1>3, <1>4, <1>5 DEF WroteInOrder, w, wn

LEMMA StreamRead ==
  ASSUME TypeOK, NEW e \in Ends, StreamTo(e), ReadInOrder(e), OnWire' = OnWire,
         open'[Peer(e)] = open[Peer(e)], WrittenTo(Peer(e))' = WrittenTo(Peer(e))
  PROVE  StreamTo(e)'
<1> DEFINE f == Peer(e)
           r == ReadTo(e)
           rn == ReadTo(e)'
           w == WrittenTo(f)
<1>1. Stream(net[e], OnWire, open[e], open[f], r, w)
  BY StreamParts
<1>2. SUFFICES Stream(net'[e], OnWire, open'[e], open[f], rn, w)
  BY StreamParts
<1> HIDE DEF r, rn, w
<1>3. CASE Kept(e) /\ (open'[e] => open[e] /\ rn = r)
  BY <1>1, <1>3, StreamKeep DEF Kept
<1>4. CASE Took(e) /\ (open'[e] => rn = PlaceAfter(Head(net[e])))
  BY <1>1, <1>4, StreamTake DEF Took
<1> QED
  BY <1>3, <1>4 DEF ReadInOrder, r, rn

LEMMA KexPlaces ==
  ASSUME TypeOK, NEW e \in Ends
  PROVE  /\ KexInit(e) \in OnWire
         /\ Place(KexInit(e)) = <<wkey[e], 0>> /\ PlaceAfter(KexInit(e)) = <<wkey[e], 1>>
         /\ NewKeysMsg(e) \in OnWire
         /\ Place(NewKeysMsg(e)) = <<wkey[e], KexRounds + 1>> /\ PlaceAfter(NewKeysMsg(e)) = <<wkey[e] + 1, 0>>
         /\ \A i \in 1..KexRounds :
              /\ KexMsg(e, i) \in OnWire
              /\ Place(KexMsg(e, i)) = <<wkey[e], i>> /\ PlaceAfter(KexMsg(e, i)) = <<wkey[e], i + 1>>
<1>1. wkey[e] \in Nat /\ KexRounds + 1 \in Nat /\ KexRounds \in Nat
  BY RoundsType DEF TypeOK, TypeWire
<1>2. KexInit(e) \in Packets /\ NewKeysMsg(e) \in Packets /\ \A i \in Nat : KexMsg(e, i) \in Packets
  BY PacketTypes
<1>3. /\ KexInit(e).key = wkey[e] /\ KexInit(e).kind = "kexInit" /\ KexInit(e).n = 0
      /\ NewKeysMsg(e).key = wkey[e] /\ NewKeysMsg(e).kind = "newKeys" /\ NewKeysMsg(e).n = KexRounds + 1
      /\ \A i \in Nat : KexMsg(e, i).key = wkey[e] /\ KexMsg(e, i).kind = "kexMsg" /\ KexMsg(e, i).n = i
  BY DEF KexInit, KexMsg, NewKeysMsg, Packet
<1>4. /\ KexInit(e) \in OnWire /\ NewKeysMsg(e) \in OnWire
      /\ \A i \in 1..KexRounds : KexMsg(e, i) \in OnWire
  BY <1>1, <1>2, <1>3 DEF OnWire, Sealed, DataKinds
<1>5. /\ Place(KexInit(e)) = <<wkey[e], 0>> /\ Place(NewKeysMsg(e)) = <<wkey[e], KexRounds + 1>>
      /\ \A i \in 1..KexRounds : Place(KexMsg(e, i)) = <<wkey[e], i>>
  BY <1>1, <1>3 DEF Place, DataKinds
<1>6. /\ PlaceAfter(KexInit(e)) = <<wkey[e], 1>> /\ PlaceAfter(NewKeysMsg(e)) = <<wkey[e] + 1, 0>>
      /\ \A i \in 1..KexRounds : PlaceAfter(KexMsg(e, i)) = <<wkey[e], i + 1>>
  BY <1>1, <1>3 DEF PlaceAfter, DataKinds
<1> QED
  BY <1>4, <1>5, <1>6

\* What arrives is what the reader waits for.
LEMMA HeadExpected ==
  ASSUME TypeOK, PhasesKept, NEW e \in Ends, StreamTo(e), Arrived(e), NEW p, p = Head(net[e])
  PROVE  /\ p \in OnWire /\ p.key = rkey[e]
         /\ loop[e] = "kex" => p.kind = "kexMsg" /\ p.n = KexRounds - round[e] + 1
         /\ loop[e] = "newKeys" => p.kind = "newKeys"
         /\ loop[e] \notin {"kex", "newKeys"} => p.kind \in DataKinds \cup {"kexInit"}
<1>1. open[e] /\ net[e] # <<>> /\ net[e] \in Seq(OnWire) /\ Place(net[e][1]) = ReadTo(e)
  BY DEF StreamTo, Arrived
<1>2. p = net[e][1] /\ p \in OnWire
  BY <1>1, HeadTailProperties
<1>3. /\ p.kind \in Kinds \ {"none"} /\ p.n \in Nat
      /\ p.kind = "kexInit" => p.n = 0
      /\ p.kind = "kexMsg" => p.n \in 1..KexRounds
      /\ p.kind = "newKeys" => p.n = KexRounds + 1
  BY <1>2 DEF OnWire, Sealed, Packets
<1>4. /\ p.key = rkey[e]
      /\ (IF p.kind \in DataKinds THEN 0 ELSE p.n) =
           (IF loop[e] = "kex" THEN KexRounds - round[e] + 1
            ELSE IF loop[e] = "newKeys" THEN KexRounds + 1 ELSE 0)
  BY <1>1, <1>2 DEF Place, ReadTo
<1>5. /\ KexRounds \in {0, 1, 2} /\ round[e] \in 0..2
      /\ loop[e] = "kex" => round[e] \in 1..KexRounds
  BY RoundsType DEF TypeOK, TypeKex, PhasesKept, Phase
<1>6. CASE loop[e] = "kex"
  BY <1>2, <1>3, <1>4, <1>5, <1>6 DEF Kinds, DataKinds
<1>7. CASE loop[e] = "newKeys"
  BY <1>2, <1>3, <1>4, <1>5, <1>7 DEF Kinds, DataKinds
<1>8. CASE loop[e] \notin {"kex", "newKeys"}
  BY <1>2, <1>3, <1>4, <1>5, <1>8 DEF Kinds, DataKinds
<1> QED
  BY <1>6, <1>7, <1>8

\* A writer holds a key.
LEMMA WriterHasKey ==
  ASSUME TypeOK, PhasesKept, NEW e \in Ends, QueueTo(e), NEW t \in Threads, thread[e][t] \in {"write", "woken"}
  PROVE  wkey[e] > 0
<1>1. rkey[e] \in Nat /\ wkey[e] \in Nat /\ rkey[e] <= wkey[e]
  BY DEF TypeOK, TypeWire, PhasesKept, Phase
<1>2. rkey[e] # 0
  BY DEF QueueTo, Waiting, Threads
<1> QED
  BY <1>1, <1>2

LEMMA StreamStep ==
  ASSUME TypeOK, PhasesKept, StreamInOrder, NEW e \in Ends, QueueTo(e), Step(e)
  PROVE  WroteInOrder(e) /\ ReadInOrder(e)
<1> DEFINE Goal == WroteInOrder(e) /\ ReadInOrder(e)
<1>0. /\ loop \in [Ends -> Loops] /\ sentInit \in [Ends -> BOOLEAN] /\ round \in [Ends -> 0..2]
      /\ wkey \in [Ends -> Nat] /\ rkey \in [Ends -> Nat] /\ open \in [Ends -> BOOLEAN]
  BY DEF TypeOK, TypeWire, TypeLoop, TypeKex
<1>1. /\ Phase(e) /\ KexRounds' = KexRounds /\ KexRounds \in {0, 1, 2} /\ (open'[e] => open[e])
      /\ (Agreed # <<>> => KexRounds \in {1, 2}) /\ StreamTo(e)
  BY AgreedKept, RoundsType, OpenKept DEF Step, PhasesKept, StreamInOrder
<1>2. ASSUME Offline(e) PROVE Goal
  <2>1. Kept(e) /\ Wrote0(e)
    BY <1>2, OfflineNet, WireUnchanged
  <2>2. CASE KexFails(e)
    <3>1. ~open'[e]
      BY <1>0, <2>2 DEF KexFails, FailKex
    <3> QED
      BY <2>1, <3>1 DEF WroteInOrder, ReadInOrder
  <2>3. CASE ~KexFails(e)
    <3>1. UNCHANGED <<wkey, rkey, sentInit, round>>
      BY <1>2, <2>3 DEF wireVars, kexVars, Offline, ReadError, Push, Receive, ReceiveError, BeginWrite, Close
    <3>2. loop'[e] = loop[e] \/ (loop[e] \in {"read", "push"} /\ loop'[e] \in {"done", "top"})
      BY <1>0, <1>2, <2>3 DEF loopVars, Offline, ReadError, LoopExit, Push, Receive, ReceiveError, BeginWrite, Close
    <3>3. WrittenTo(e)' = WrittenTo(e) /\ ReadTo(e)' = ReadTo(e)
      BY <1>1, <3>1, <3>2 DEF WrittenTo, ReadTo, NextMsg
    <3> QED
      BY <1>1, <2>1, <3>3 DEF WroteInOrder, ReadInOrder
  <2> QED
    BY <2>2, <2>3
<1>3. ASSUME Asking(e) PROVE Goal
  <2>1. UNCHANGED <<wkey, rkey, round>>
    BY <1>3 DEF wireVars, Asking, ReadOnePacket, RequestInitialKeyChange, Sleep, WriteFails
  <2>2. loop'[e] = loop[e] \/ (loop[e] = "top" /\ loop'[e] \in {"read", "done"})
    BY <1>0, <1>3 DEF loopVars, Asking, ReadOnePacket, LoopExit, RequestInitialKeyChange, Sleep, WriteFails
  <2>3. /\ Kept(e)
        /\ \/ SendKexInit(e) /\ open[e] /\ ~sentInit[e] /\ Wrote1(e, KexInit(e))
           \/ UNCHANGED sentInit /\ Wrote0(e)
    BY <1>3, WireAsk DEF Asking, Threads
  <2>4. ReadTo(e)' = ReadTo(e)
    BY <1>1, <2>1, <2>2 DEF ReadTo
  <2>5. CASE SendKexInit(e) /\ open[e] /\ ~sentInit[e] /\ Wrote1(e, KexInit(e))
    <3>1. sentInit'[e] = TRUE /\ loop[e] \notin {"kex", "newKeys"}
      BY <1>0, <1>1, <2>5 DEF SendKexInit, Phase
    <3>2. WrittenTo(e) = <<wkey[e], 0>> /\ WrittenTo(e)' = <<wkey[e], 1>>
      BY <2>1, <2>2, <2>5, <3>1 DEF WrittenTo
    <3> QED
      BY <1>1, <2>3, <2>4, <2>5, <3>2, KexPlaces DEF WroteInOrder, ReadInOrder
  <2>6. CASE UNCHANGED sentInit /\ Wrote0(e)
    <3>1. WrittenTo(e)' = WrittenTo(e)
      BY <1>1, <2>1, <2>2, <2>6 DEF WrittenTo, NextMsg
    <3> QED
      BY <1>1, <2>3, <2>4, <2>6, <3>1 DEF WroteInOrder, ReadInOrder
  <2> QED
    BY <2>3, <2>5, <2>6
<1>4. ASSUME Writing(e) PROVE Goal
  <2>1. PICK t \in Threads : Write(e, t)
    BY <1>4 DEF Writing
  <2> DEFINE p == Packet(wants[e][t], wkey[e], taken[e] + 1)
  <2>2. UNCHANGED <<wkey, rkey, sentInit, round, loop>> /\ ~sentInit[e]
    BY <2>1 DEF Write, kexVars, loopVars
  <2>3. Kept(e) /\ open[e] /\ p \in Packets /\ Wrote1(e, p)
    BY <2>1, WireWrite
  <2>4. p.kind \in DataKinds /\ p.key = wkey[e]
    BY DEF Packet, TypeOK, TypeUser
  <2>5. p \in OnWire
    BY <2>1, <2>3, <2>4, WriterHasKey DEF OnWire, Sealed, Write, DataKinds
  <2> HIDE DEF p
  <2>6. Place(p) = <<wkey[e], 0>> /\ PlaceAfter(p) = <<wkey[e], 0>>
    BY <2>4 DEF Place, PlaceAfter, DataKinds
  <2>7. WrittenTo(e) = <<wkey[e], 0>> /\ WrittenTo(e)' = <<wkey[e], 0>> /\ ReadTo(e)' = ReadTo(e)
    BY <1>1, <2>2 DEF WrittenTo, ReadTo
  <2> QED
    BY <1>1, <2>3, <2>5, <2>6, <2>7 DEF WroteInOrder, ReadInOrder
<1>5. ASSUME ReadOther(e) PROVE Goal
  <2>1. Took(e) /\ Wrote0(e) /\ UNCHANGED <<wkey, rkey, sentInit, round, open>>
    BY <1>5, WireTakeOnly DEF ReadOther, kexVars
  <2>2. Arrived(e) /\ loop[e] = "read" /\ loop'[e] = "push" /\ Head(net[e]).kind # "kexInit"
    BY <1>0, <1>5 DEF ReadOther
  <2>3. Head(net[e]).kind \in DataKinds /\ Head(net[e]).key = rkey[e]
    BY <1>1, <2>2, HeadExpected
  <2>4. PlaceAfter(Head(net[e])) = <<rkey[e], 0>> /\ ReadTo(e)' = <<rkey[e], 0>>
    BY <2>1, <2>2, <2>3 DEF PlaceAfter, ReadTo, DataKinds
  <2>5. WrittenTo(e)' = WrittenTo(e)
    BY <1>1, <2>1, <2>2 DEF WrittenTo
  <2> QED
    BY <1>1, <2>1, <2>4, <2>5 DEF WroteInOrder, ReadInOrder
<1>6. ASSUME NewKeys(e) PROVE Goal
  <2>1. Took(e) /\ Wrote0(e) /\ UNCHANGED <<wkey, round, open>> /\ sentInit'[e] = FALSE /\ rkey'[e] = rkey[e] + 1
    BY <1>0, <1>6, WireTakeOnly DEF NewKeys, EndKex
  <2>2. loop[e] = "newKeys" /\ loop'[e] \in {"push", "top"} /\ Head(net[e]).kind = "newKeys" /\ Head(net[e]).key = rkey[e]
    BY <1>0, <1>6 DEF NewKeys, Readable
  <2>3. PlaceAfter(Head(net[e])) = <<rkey[e] + 1, 0>> /\ ReadTo(e)' = <<rkey[e] + 1, 0>>
    BY <2>1, <2>2 DEF PlaceAfter, ReadTo
  <2>4. WrittenTo(e)' = WrittenTo(e)
    BY <2>1, <2>2 DEF WrittenTo
  <2> QED
    BY <1>1, <2>1, <2>3, <2>4 DEF WroteInOrder, ReadInOrder
<1>7. ASSUME EnterKeyExchange(e) PROVE Goal
  <2>1. UNCHANGED <<wkey, rkey>> /\ loop[e] = "read" /\ Arrived(e) /\ open[e] /\ Head(net[e]).kind = "kexInit"
    BY <1>7 DEF EnterKeyExchange, Arrived
  <2>2. Head(net[e]) \in OnWire /\ Head(net[e]).key = rkey[e]
    BY <1>1, <2>1, HeadExpected
  <2>3. PlaceAfter(Head(net[e])) = <<rkey[e], 1>>
    BY <2>1, <2>2 DEF PlaceAfter, DataKinds, OnWire
  <2>4. WrittenTo(e) = <<wkey[e], IF sentInit[e] THEN 1 ELSE 0>>
    BY <2>1 DEF WrittenTo
  <2>5. CASE loop'[e] = "kex"
    <3>1. sentInit'[e] = TRUE /\ round'[e] = KexRounds /\ KexRounds \in {1, 2}
      BY <1>0, <1>1, <1>7, <2>5 DEF EnterKeyExchange, FailKex, LoopExit
    <3>2. ReadTo(e)' = <<rkey[e], 1>> /\ WrittenTo(e)' = <<wkey[e], IF e = "client" THEN 2 ELSE 1>>
      BY <1>1, <2>1, <2>5, <3>1 DEF ReadTo, WrittenTo, NextMsg
    <3>3. /\ KexMsg(e, 1) \in OnWire /\ Place(KexMsg(e, 1)) = <<wkey[e], 1>>
          /\ PlaceAfter(KexMsg(e, 1)) = <<wkey[e], 2>>
      <4>1. 1 \in 1..KexRounds /\ 1 + 1 = 2
        BY <3>1
      <4> QED
        BY <4>1, KexPlaces
    <3>4. /\ KexInit(e) \in OnWire /\ Place(KexInit(e)) = <<wkey[e], 0>>
          /\ PlaceAfter(KexInit(e)) = <<wkey[e], 1>>
      BY KexPlaces
    <3>5. Took(e)
          /\ \/ e = "client" /\ sentInit[e] /\ Wrote1(e, KexMsg(e, 1))
             \/ e = "client" /\ ~sentInit[e] /\ Wrote2(e, KexInit(e), KexMsg(e, 1))
             \/ e = "server" /\ sentInit[e] /\ Wrote0(e)
             \/ e = "server" /\ ~sentInit[e] /\ Wrote1(e, KexInit(e))
             \/ ~open'[e] /\ (Wrote0(e) \/ (~sentInit[e] /\ Wrote1(e, KexInit(e))))
      BY <1>7, WireEnter
    <3> QED
      BY <1>1, <2>1, <2>3, <2>4, <3>2, <3>3, <3>4, <3>5 DEF WroteInOrder, ReadInOrder
  <2>6. CASE ~open'[e] /\ (Wrote0(e) \/ (~sentInit[e] /\ Wrote1(e, KexInit(e))))
    BY <1>7, <2>1, <2>4, <2>6, WireEnter, KexPlaces DEF WroteInOrder, ReadInOrder
  <2> QED
    BY <1>7, <2>5, <2>6, WireEnter
<1>8. ASSUME KexMessage(e) PROVE Goal
  <2>1. /\ UNCHANGED <<rkey, open, sentInit>> /\ loop[e] = "kex" /\ Arrived(e) /\ round'[e] = round[e] - 1
        /\ round[e] > 1 => loop' = loop /\ wkey' = wkey
        /\ round[e] = 1 => loop'[e] = "newKeys" /\ wkey'[e] = wkey[e] + 1
    BY <1>0, <1>8 DEF KexMessage, FinishExchange
  <2>2. Head(net[e]).key = rkey[e] /\ Head(net[e]).kind = "kexMsg" /\ Head(net[e]).n = KexRounds - round[e] + 1
    BY <1>1, <2>1, HeadExpected
  <2>3. /\ sentInit[e] /\ round[e] \in 1..KexRounds /\ KexRounds \in {1, 2}
        /\ round[e] > 1 \/ round[e] = 1
    BY <1>1, <2>1 DEF Phase
  <2>4. PlaceAfter(Head(net[e])) = <<rkey[e], KexRounds - round[e] + 2>>
    BY <2>2, <2>3 DEF PlaceAfter, DataKinds
  <2>5. ReadTo(e)' = <<rkey[e], KexRounds - round[e] + 2>>
    BY <1>1, <2>1, <2>3 DEF ReadTo
  <2>6. WrittenTo(e) = <<wkey[e], NextMsg(e)>>
    BY <2>1, <2>3 DEF WrittenTo
  <2>7. CASE round[e] > 1
    <3>1. Took(e) /\ open[e] /\ Wrote1(e, KexMsg(e, NextMsg(e)))
      BY <1>8, <2>7, WireKexMessage
    <3>2. NextMsg(e) \in 1..KexRounds
      BY <2>3, <2>7 DEF NextMsg
    <3>3. WrittenTo(e)' = <<wkey[e], NextMsg(e) + 1>>
      BY <1>1, <2>1, <2>3, <2>7 DEF WrittenTo, NextMsg
    <3> QED
      BY <2>4, <2>5, <2>6, <3>1, <3>2, <3>3, KexPlaces DEF WroteInOrder, ReadInOrder
  <2>8. CASE round[e] = 1
    <3>1. Took(e) /\ open[e]
          /\ \/ e = "client" /\ Wrote1(e, NewKeysMsg(e))
             \/ e = "server" /\ Wrote2(e, KexMsg(e, NextMsg(e)), NewKeysMsg(e))
      BY <1>8, <2>8, WireKexMessage
    <3>2. /\ e = "client" => NextMsg(e) = KexRounds + 1
          /\ e = "server" => NextMsg(e) = KexRounds /\ NextMsg(e) \in 1..KexRounds
      BY <2>3, <2>8 DEF NextMsg
    <3>3. WrittenTo(e)' = <<wkey[e] + 1, 0>>
      BY <2>1, <2>8 DEF WrittenTo
    <3>4. /\ NewKeysMsg(e) \in OnWire /\ Place(NewKeysMsg(e)) = <<wkey[e], KexRounds + 1>>
          /\ PlaceAfter(NewKeysMsg(e)) = <<wkey[e] + 1, 0>>
      BY KexPlaces
    <3>5. NextMsg(e) \in 1..KexRounds =>
            /\ KexMsg(e, NextMsg(e)) \in OnWire /\ Place(KexMsg(e, NextMsg(e))) = <<wkey[e], NextMsg(e)>>
            /\ PlaceAfter(KexMsg(e, NextMsg(e))) = <<wkey[e], NextMsg(e) + 1>>
      BY KexPlaces
    <3> QED
      BY <2>4, <2>5, <2>6, <3>1, <3>2, <3>3, <3>4, <3>5 DEF WroteInOrder, ReadInOrder
  <2> QED
    BY <2>3, <2>7, <2>8
<1> HIDE DEF Goal
<1>9. Goal
  BY <1>2, <1>3, <1>4, <1>5, <1>6, <1>7, <1>8, StepCases
<1> QED
  BY <1>9 DEF Goal

LEMMA StreamNext ==
  TypeOK /\ PhasesKept /\ StreamInOrder /\ DataInOrder /\ [Next]_vars => StreamInOrder'
<1> SUFFICES ASSUME TypeOK, PhasesKept, StreamInOrder, DataInOrder, [Next]_vars PROVE StreamInOrder'
  OBVIOUS
<1>1. ASSUME NEW e \in Ends, Step(e) PROVE StreamTo(e)' /\ StreamTo(Peer(e))'
  <2>1. /\ Peer(e) \in Ends /\ Peer(e) # e /\ QueueTo(e) /\ StreamTo(e) /\ StreamTo(Peer(e))
        /\ KexRounds' = KexRounds
    BY <1>1, PeerFacts, AgreedKept DEF DataInOrder, StreamInOrder, Step
  <2>2. WroteInOrder(e) /\ ReadInOrder(e)
    BY <1>1, <2>1, StreamStep
  <2>3. OnWire' = OnWire
    BY <2>1 DEF OnWire
  <2>4. /\ open'[Peer(e)] = open[Peer(e)] /\ loop'[Peer(e)] = loop[Peer(e)] /\ round'[Peer(e)] = round[Peer(e)]
        /\ wkey'[Peer(e)] = wkey[Peer(e)] /\ rkey'[Peer(e)] = rkey[Peer(e)] /\ sentInit'[Peer(e)] = sentInit[Peer(e)]
    BY <1>1, <2>1, Frame
  <2>5. ReadTo(Peer(e))' = ReadTo(Peer(e)) /\ WrittenTo(Peer(e))' = WrittenTo(Peer(e))
    BY <2>1, <2>4 DEF ReadTo, WrittenTo, NextMsg
  <2> QED
    BY <2>1, <2>2, <2>3, <2>4, <2>5, StreamRead, StreamWritten
<1>2. CASE UNCHANGED vars
  <2>1. /\ KexRounds' = KexRounds /\ net' = net /\ open' = open /\ loop' = loop /\ round' = round
        /\ wkey' = wkey /\ rkey' = rkey /\ sentInit' = sentInit
    BY <1>2, AgreedKept DEF vars, wireVars, kexVars, loopVars
  <2>2. OnWire' = OnWire
    BY <2>1 DEF OnWire
  <2>3. ASSUME NEW e \in Ends PROVE ReadTo(e)' = ReadTo(e) /\ WrittenTo(e)' = WrittenTo(e)
    BY <2>1 DEF ReadTo, WrittenTo, NextMsg
  <2>4. ASSUME NEW e \in Ends PROVE StreamTo(e)'
    <3>1. Peer(e) \in Ends /\ StreamTo(e)
      BY PeerFacts DEF StreamInOrder
    <3> QED
      BY <2>1, <2>2, <2>3, <3>1, StreamParts
  <2> QED
    BY <2>4 DEF StreamInOrder
<1> QED
  BY <1>1, <1>2, PeerFacts, StepOrStutter DEF StreamInOrder

LEMMA StreamInit == Init => StreamInOrder
<1> SUFFICES ASSUME Init, NEW e \in Ends PROVE StreamTo(e)
  BY DEF StreamInOrder
<1>1. net[e] = <<>> /\ wkey[Peer(e)] = 0 /\ rkey[e] = 0 /\ ~sentInit[Peer(e)] /\ loop[e] = "top"
  BY PeerFacts DEF Init
<1>2. net[e] \in Seq(OnWire) /\ Len(net[e]) = 0
  BY <1>1
<1>3. ReadTo(e) = <<0, 0>> /\ WrittenTo(Peer(e)) = <<0, 0>>
  BY <1>1 DEF ReadTo, WrittenTo
<1> QED
  BY <1>1, <1>2, <1>3 DEF StreamTo

-----------------------------------------------------------------------------
(* The data on its way.                                                    *)

LEMMA ElementPacket ==
  ASSUME NEW q \in Seq(Packets)
  PROVE  Len(q) \in Nat /\ \A i \in 1..Len(q) : q[i] \in Packets /\ q[i].n \in Nat
<1>1. Len(q) \in Nat /\ \A i \in 1..Len(q) : q[i] \in Packets
  OBVIOUS
<1>2. \A p \in Packets : p.n \in Nat
  BY DEF Packets
<1> QED
  BY <1>1, <1>2

LEMMA UnreadAppend ==
  ASSUME NEW q \in Seq(Packets), NEW p \in Packets, NEW d \in Nat, NEW k \in Nat, Unread(q, d, k)
  PROVE  /\ p.kind \in DataKinds /\ p.n = k + 1 => Unread(Append(q, p), d, k + 1)
         /\ p.kind \notin DataKinds => Unread(Append(q, p), d, k)
<1> DEFINE a == Append(q, p)
<1>0. Len(q) \in Nat /\ \A i \in 1..Len(q) : q[i] \in Packets /\ q[i].n \in Nat
  BY ElementPacket
<1>1. Len(a) = Len(q) + 1 /\ a[Len(q) + 1] = p /\ \A i \in 1..Len(q) : a[i] = q[i]
  BY AppendProperties
<1> HIDE DEF a
<1>2. \A i \in 1..Len(q) : i \in DataIn(a) <=> i \in DataIn(q)
  BY <1>0, <1>1 DEF DataIn
<1>3. CASE p.kind \notin DataKinds
  <2>1. DataIn(a) = DataIn(q) /\ DataIn(q) \subseteq 1..Len(q)
    BY <1>0, <1>1, <1>3 DEF DataIn
  <2> QED
    BY <1>0, <1>1, <1>3, <2>1 DEF Unread, a
<1>4. CASE p.kind \in DataKinds /\ p.n = k + 1
  <2>1. DataIn(a) = DataIn(q) \cup {Len(q) + 1} /\ DataIn(q) \subseteq 1..Len(q)
    BY <1>0, <1>1, <1>4 DEF DataIn
  <2>a. \A i \in DataIn(q) : a[i] = q[i] /\ q[i].n \in Nat /\ d < q[i].n /\ q[i].n <= k
    BY <1>0, <1>1, <2>1 DEF Unread
  <2>b. a[Len(q) + 1].n = k + 1 /\ d < k + 1
    BY <1>1, <1>4 DEF Unread
  <2>2. \A i \in DataIn(a) : d < a[i].n /\ a[i].n <= k + 1
    BY <2>1, <2>a, <2>b
  <2>3. \A i, j \in DataIn(a) : i < j => a[i].n < a[j].n
    <3>1. SUFFICES ASSUME NEW i \in DataIn(a), NEW j \in DataIn(a), i < j PROVE a[i].n < a[j].n
      OBVIOUS
    <3>2. i \in DataIn(q)
      <4>1. i # Len(q) + 1
        BY <1>0, <2>1, <3>1
      <4> QED
        BY <2>1, <4>1
    <3>3. CASE j \in DataIn(q)
      <4>1. q[i].n < q[j].n
        BY <3>1, <3>2, <3>3 DEF Unread
      <4> QED
        BY <2>a, <3>2, <3>3, <4>1
    <3>4. CASE j = Len(q) + 1
      <4>1. q[i].n \in Nat /\ q[i].n <= k /\ a[i] = q[i] /\ a[j].n = k + 1
        BY <2>a, <2>b, <3>2, <3>4
      <4>2. q[i].n < k + 1
        BY <4>1
      <4> QED
        BY <4>1, <4>2
    <3> QED
      BY <2>1, <3>3, <3>4
  <2>4. \A m \in (d + 1)..(k + 1) : \E i \in DataIn(a) : a[i].n = m
    <3>1. SUFFICES ASSUME NEW m \in (d + 1)..(k + 1) PROVE \E i \in DataIn(a) : a[i].n = m
      OBVIOUS
    <3>2. CASE m = k + 1
      BY <1>1, <1>4, <2>1, <3>2
    <3>3. CASE m # k + 1
      <4>1. m \in (d + 1)..k
        BY <3>3
      <4>2. PICK i \in DataIn(q) : q[i].n = m
        BY <4>1 DEF Unread
      <4> QED
        BY <1>1, <2>1, <4>2
    <3> QED
      BY <3>2, <3>3
  <2>5. d <= k + 1
    BY DEF Unread
  <2> QED
    BY <1>4, <2>2, <2>3, <2>4, <2>5 DEF Unread, a
<1> QED
  BY <1>3, <1>4 DEF a

LEMMA UnreadTail ==
  ASSUME NEW q \in Seq(Packets), q # <<>>, NEW d \in Nat, NEW k \in Nat, Unread(q, d, k)
  PROVE  /\ Head(q).kind \in DataKinds => Head(q).n = d + 1 /\ d + 1 <= k /\ Unread(Tail(q), d + 1, k)
         /\ Head(q).kind \notin DataKinds => Unread(Tail(q), d, k)
<1> DEFINE t == Tail(q)
           D == DataIn(q)
<1>0. Len(q) \in Nat /\ Len(q) > 0 /\ Head(q) = q[1] /\ \A i \in 1..Len(q) : q[i] \in Packets /\ q[i].n \in Nat
  BY ElementPacket, HeadTailProperties
<1>1. Len(t) = Len(q) - 1 /\ \A i \in 1..Len(t) : t[i] = q[i + 1]
  BY HeadTailProperties
<1> HIDE DEF t
<1>2. D \subseteq 1..Len(q) /\ (1 \in D <=> Head(q).kind \in DataKinds)
  BY <1>0 DEF DataIn
<1>3. \A i \in DataIn(t) : i \in Nat /\ i + 1 \in D /\ t[i] = q[i + 1]
  BY <1>0, <1>1 DEF DataIn
<1>4. \A i \in D : i # 1 => i - 1 \in DataIn(t) /\ t[i - 1] = q[i]
  <2>1. SUFFICES ASSUME NEW i \in D, i # 1 PROVE i - 1 \in DataIn(t) /\ t[i - 1] = q[i]
    OBVIOUS
  <2>2. i \in 1..Len(q) /\ q[i].kind \in DataKinds /\ i - 1 \in 1..Len(t) /\ (i - 1) + 1 = i
    BY <1>0, <1>1, <2>1 DEF DataIn
  <2> QED
    BY <1>1, <2>2 DEF DataIn
<1> HIDE DEF D
<1>u. /\ d <= k
      /\ \A i \in D : d < q[i].n /\ q[i].n <= k
      /\ \A i, j \in D : i < j => q[i].n < q[j].n
      /\ \A m \in (d + 1)..k : \E i \in D : q[i].n = m
  BY DEF Unread, D
<1>5. \A i, j \in DataIn(t) : i < j => t[i].n < t[j].n
  <2>1. SUFFICES ASSUME NEW i \in DataIn(t), NEW j \in DataIn(t), i < j PROVE t[i].n < t[j].n
    OBVIOUS
  <2>2. i \in Nat /\ j \in Nat /\ i + 1 \in D /\ j + 1 \in D /\ i + 1 < j + 1 /\ t[i] = q[i + 1] /\ t[j] = q[j + 1]
    BY <1>3, <2>1
  <2> QED
    BY <1>u, <2>2
<1>6. CASE Head(q).kind \notin DataKinds
  <2>1. \A i \in DataIn(t) : d < t[i].n /\ t[i].n <= k
    BY <1>3, <1>u
  <2>2. \A m \in (d + 1)..k : \E i \in DataIn(t) : t[i].n = m
    <3>1. SUFFICES ASSUME NEW m \in (d + 1)..k PROVE \E i \in DataIn(t) : t[i].n = m
      OBVIOUS
    <3>2. PICK i \in D : q[i].n = m
      BY <1>u
    <3> QED
      BY <1>2, <1>4, <1>6, <3>2
  <2> QED
    BY <1>5, <1>6, <1>u, <2>1, <2>2 DEF Unread, t
<1>7. CASE Head(q).kind \in DataKinds
  <2>0. 1 \in D /\ q[1].n \in Nat /\ d < q[1].n /\ q[1].n <= k
    BY <1>0, <1>2, <1>7, <1>u
  <2>1. d + 1 \in (d + 1)..k
    BY <2>0
  <2>2. PICK i \in D : q[i].n = d + 1
    BY <1>u, <2>1
  <2>3. i = 1
    <3>1. SUFFICES ASSUME i # 1 PROVE FALSE
      OBVIOUS
    <3>2. i \in Nat /\ 1 < i
      BY <1>0, <1>2, <3>1
    <3>3. q[1].n < q[i].n
      BY <1>u, <2>0, <3>2
    <3> QED
      BY <2>0, <2>2, <3>3
  <2>4. q[1].n = d + 1
    BY <2>2, <2>3
  <2>5. \A j \in DataIn(t) : d + 1 < t[j].n /\ t[j].n <= k
    <3>1. SUFFICES ASSUME NEW j \in DataIn(t) PROVE d + 1 < t[j].n /\ t[j].n <= k
      OBVIOUS
    <3>2. j \in Nat /\ j + 1 \in D /\ t[j] = q[j + 1] /\ j # 0
      BY <1>1, <1>3 DEF DataIn
    <3>3. 1 < j + 1
      BY <3>2
    <3> QED
      BY <1>u, <2>0, <2>4, <3>2, <3>3
  <2>6. \A m \in (d + 1 + 1)..k : \E j \in DataIn(t) : t[j].n = m
    <3>1. SUFFICES ASSUME NEW m \in (d + 1 + 1)..k PROVE \E j \in DataIn(t) : t[j].n = m
      OBVIOUS
    <3>2. m \in (d + 1)..k /\ m # d + 1
      OBVIOUS
    <3>3. PICK j \in D : q[j].n = m
      BY <1>u, <3>2
    <3>4. j # 1
      BY <2>4, <3>2, <3>3
    <3> QED
      BY <1>4, <3>3, <3>4
  <2>7. d + 1 <= k
    BY <2>0
  <2> QED
    BY <1>0, <1>5, <1>7, <2>4, <2>5, <2>6, <2>7 DEF Unread, t
<1> QED
  BY <1>6, <1>7 DEF t

\* The steps of an end other than Receive, as its goroutines see them.
LEMMA MuxStep ==
  ASSUME TypeOK, NEW e \in Ends, Step(e), ~Receive(e)
  PROVE  /\ thread'[e]["mux"] # "done" => thread[e]["mux"] # "done" /\ Waiting(e)' = Waiting(e)
         /\ thread'[e]["mux"] = "done" => thread[e]["mux"] = "done" \/ ~open'[e]
         /\ thread'[e]["writer"] # "idle" =>
              thread[e]["writer"] # "idle" \/ (~Waiting(e) /\ thread[e]["mux"] # "done")
<1>0. /\ thread \in [Ends -> [Threads -> Doing]] /\ open \in [Ends -> BOOLEAN] /\ e \in Ends
      /\ "mux" \in Threads /\ "writer" \in Threads /\ Threads = {"mux", "writer"}
  BY DEF TypeOK, TypeUser, TypeWire, Threads
<1>1. CASE thread' = thread
  BY <1>1 DEF Waiting
<1>2. CASE Broadcast(e)
  BY <1>0, <1>2 DEF Broadcast, Waiting
<1>3. CASE RequestInitialKeyChange(e) \/ ReceiveError(e)
  BY <1>0, <1>3 DEF RequestInitialKeyChange, ReceiveError, Waiting
<1>4. CASE BeginWrite(e)
  BY <1>0, <1>4 DEF BeginWrite, Waiting
<1>5. ASSUME NEW t \in Threads, Sleep(e, t) \/ WriteFails(e, t) \/ Write(e, t)
      PROVE  /\ thread'[e]["mux"] # "done" => thread[e]["mux"] # "done" /\ Waiting(e)' = Waiting(e)
             /\ thread'[e]["mux"] = "done" => thread[e]["mux"] = "done" \/ ~open'[e]
             /\ thread'[e]["writer"] # "idle" => thread[e]["writer"] # "idle"
  <2>1. CASE t = "mux"
    <3>1. thread[e]["mux"] \in {"write", "woken"} /\ thread'[e]["writer"] = thread[e]["writer"]
          /\ thread'[e]["mux"] \in {"asleep", "serve", "done"}
          /\ (thread'[e]["mux"] = "done" => ~open'[e])
      BY <1>0, <1>5, <2>1 DEF Sleep, WriteFails, Write, After
    <3> QED
      BY <3>1 DEF Waiting
  <2>2. CASE t = "writer"
    <3>1. thread[e]["writer"] # "idle" /\ thread'[e]["mux"] = thread[e]["mux"]
      BY <1>0, <1>5, <2>2 DEF Sleep, WriteFails, Write, After
    <3> QED
      BY <3>1 DEF Waiting
  <2> QED
    BY <1>0, <2>1, <2>2
<1> QED
  <2>1. CASE Offline(e) \/ Asking(e) \/ Writing(e)
    BY <1>1, <1>2, <1>3, <1>4, <1>5, <2>1 DEF Offline, Asking, Writing, ReadError, LoopExit, Push, KexFails, FailKex,
       Close, userVars, ReadOnePacket
  <2>2. CASE ReadOther(e) \/ NewKeys(e) \/ EnterKeyExchange(e) \/ KexMessage(e)
    BY <1>1, <1>2, <2>2 DEF ReadOther, NewKeys, EndKex, EnterKeyExchange, FailKex, LoopExit, KexMessage, userVars
  <2> QED
    BY <2>1, <2>2, StepCases

\* When the queue to the reader is left alone, it stays in order.
LEMMA QueueSame ==
  ASSUME TypeOK, TypeOK', NEW e \in Ends, QueueTo(e), held'[e] = held[e], incoming'[e].buf = incoming[e].buf,
         got'[e] = got[e], rkey[e] <= rkey'[e], rkey[e] = 0 => rkey'[e] = 0,
         loop'[e] = "push" <=> loop[e] = "push",
         taken[Peer(e)] <= taken'[Peer(e)], open'[e] => open[e],
         thread'[e]["mux"] # "done" => thread[e]["mux"] # "done" /\ Waiting(e)' = Waiting(e),
         thread'[e]["mux"] = "done" => thread[e]["mux"] = "done" \/ ~open'[e],
         thread'[e]["writer"] # "idle" =>
           thread[e]["writer"] # "idle" \/ (~Waiting(e) /\ thread[e]["mux"] # "done")
  PROVE  QueueTo(e)' /\ (open'[e] => DataRead(e)' = DataRead(e))
<1>0. /\ rkey[e] \in Nat /\ rkey'[e] \in Nat /\ taken[Peer(e)] \in Nat /\ taken'[Peer(e)] \in Nat
      /\ incoming[e].buf \in Seq(Packets) /\ Len(incoming[e].buf) \in Nat /\ held[e] \in Packets
      /\ \A i \in 1..Len(incoming[e].buf) : incoming[e].buf[i] \in Packets
      /\ \A p \in Packets : p.n \in Nat
  <2>1. rkey[e] \in Nat /\ rkey'[e] \in Nat /\ taken[Peer(e)] \in Nat /\ taken'[Peer(e)] \in Nat
    BY PeerFacts DEF TypeOK, TypeWire, TypeUser
  <2>2. incoming[e].buf \in Seq(Packets) /\ held[e] \in Packets
    BY DEF TypeOK, TypeLoop
  <2>3. \A p \in Packets : p.n \in Nat
    BY DEF Packets
  <2> QED
    BY <2>1, <2>2, <2>3, ElementPacket
<1>1. (held[e] \in Sealed /\ incoming[e].buf \in Seq(Sealed))'
  BY DEF QueueTo, Sealed
<1>2. Depth(e)' = Depth(e)
  BY DEF Depth
<1>3. thread'[e]["mux"] = "done" => ~open'[e]
  BY DEF QueueTo
<1>4. thread'[e]["writer"] # "idle" => rkey'[e] > 0
  BY <1>0 DEF QueueTo
<1>5. ASSUME thread'[e]["mux"] # "done"
      PROVE  /\ (rkey[e] = 0 <=> Waiting(e) /\ Depth(e) = 0)'
             /\ (Waiting(e) => got[e] = <<>>)'
             /\ (\A i \in 1..Len(incoming[e].buf) : InSlot(e, i, incoming[e].buf[i]))'
             /\ (loop[e] = "push" => InSlot(e, Depth(e), held[e]))'
  <2>1. /\ thread[e]["mux"] # "done" /\ Waiting(e)' = Waiting(e)
        /\ rkey[e] = 0 <=> Waiting(e) /\ Depth(e) = 0
        /\ Waiting(e) => got[e] = <<>>
        /\ \A i \in 1..Len(incoming[e].buf) : InSlot(e, i, incoming[e].buf[i])
        /\ loop[e] = "push" => InSlot(e, Depth(e), held[e])
    BY <1>5 DEF QueueTo
  <2>2. (rkey[e] = 0 <=> Waiting(e) /\ Depth(e) = 0)' /\ (Waiting(e) => got[e] = <<>>)'
    BY <1>0, <1>2, <2>1
  <2>4. ASSUME NEW i \in 1..Len(incoming[e].buf) PROVE InSlot(e, i, incoming[e].buf[i])'
    <3>1. InSlot(e, i, incoming[e].buf[i]) /\ incoming[e].buf[i] \in Packets /\ i \in Nat
      BY <1>0, <2>1
    <3>2. incoming[e].buf[i].n <= taken[Peer(e)] => incoming[e].buf[i].n <= taken'[Peer(e)]
      BY <1>0, <3>1
    <3> QED
      BY <2>1, <3>1, <3>2 DEF InSlot
  <2>5. (\A i \in 1..Len(incoming[e].buf) : InSlot(e, i, incoming[e].buf[i]))'
    BY <2>4
  <2>6. (loop[e] = "push" => InSlot(e, Depth(e), held[e]))'
    BY <1>0, <1>2, <2>1 DEF InSlot
  <2> QED
    BY <2>2, <2>5, <2>6
<1>6. QueueTo(e)'
  BY <1>1, <1>3, <1>4, <1>5 DEF QueueTo
<1>7. open'[e] => DataRead(e)' = DataRead(e)
  BY <1>2, <1>3 DEF DataRead
<1> QED
  BY <1>6, <1>7

\* What the other lemmas about the queue need of the types.
LEMMA QueueTypes ==
  ASSUME TypeOK, NEW e \in Ends
  PROVE  /\ rkey[e] \in Nat /\ taken[Peer(e)] \in Nat /\ got[e] \in Seq(Nat) /\ Len(got[e]) \in Nat
         /\ incoming[e].buf \in Seq(Packets) /\ Len(incoming[e].buf) \in Nat /\ held[e] \in Packets
         /\ \A i \in 1..Len(incoming[e].buf) : incoming[e].buf[i] \in Packets /\ incoming[e].buf[i].n \in Nat
         /\ \A p \in Packets : p.n \in Nat
         /\ incoming[e] \in [buf : Seq(Packets), closed : BOOLEAN]
<1>1. rkey[e] \in Nat /\ taken[Peer(e)] \in Nat /\ got[e] \in Seq(Nat)
  BY PeerFacts DEF TypeOK, TypeWire, TypeUser
<1>2. incoming[e].buf \in Seq(Packets) /\ held[e] \in Packets /\ incoming[e] \in [buf : Seq(Packets), closed : BOOLEAN]
  BY DEF TypeOK, TypeLoop
<1>3. \A p \in Packets : p.n \in Nat
  BY DEF Packets
<1> QED
  BY <1>1, <1>2, <1>3, ElementPacket

LEMMA PlusOne == \A x, y \in Nat : x + (y + 1) = (x + y) + 1 /\ x + (y + 1) - 0 = (x + y) + 1
  OBVIOUS

LEMMA QueuePush ==
  ASSUME TypeOK, NEW e \in Ends, QueueTo(e), Push(e)
  PROVE  QueueTo(e)' /\ (DataRead(e)' = DataRead(e))
<1> DEFINE b == incoming[e].buf
           a == Append(b, held[e])
<1>0. b \in Seq(Packets) /\ Len(b) \in Nat /\ held[e] \in Packets /\ Len(got[e]) \in Nat
  BY QueueTypes
<1>1. /\ incoming'[e].buf = a /\ held'[e] = Packet("none", 0, 0) /\ loop'[e] = "top" /\ loop[e] = "push"
      /\ UNCHANGED <<rkey, thread, got, taken, open>>
  BY QueueTypes DEF Push, wireVars, userVars, TypeOK, TypeLoop
<1>2. a \in Seq(Packets) /\ Len(a) = Len(b) + 1 /\ a[Len(b) + 1] = held[e] /\ \A i \in 1..Len(b) : a[i] = b[i]
  BY <1>0, AppendProperties
<1>3. held'[e] \in Sealed /\ a \in Seq(Sealed)
  <2>1. Packet("none", 0, 0) \in Sealed
    BY DEF Packet, Sealed, Packets, Kinds, DataKinds
  <2>2. b \in Seq(Sealed) /\ held[e] \in Sealed
    BY DEF QueueTo
  <2> QED
    BY <1>1, <2>1, <2>2, AppendProperties
<1>4. Depth(e)' = Depth(e) /\ Depth(e) = Len(b) + 1 /\ Waiting(e)' = Waiting(e) /\ Sealed' = Sealed
  <2>1. Depth(e) = Len(b) + 1
    BY <1>1 DEF Depth
  <2>2. Depth(e)' = Len(a) + 0
    BY <1>1 DEF Depth
  <2> QED
    BY <1>0, <1>1, <1>2, <2>1, <2>2 DEF Waiting, Sealed
<1>5. \A i, p : InSlot(e, i, p)' <=> InSlot(e, i, p)
  BY <1>1, <1>4 DEF InSlot
<1>6. ASSUME thread[e]["mux"] # "done", NEW i \in 1..Len(a) PROVE InSlot(e, i, a[i])
  <2>1. CASE i \in 1..Len(b)
    BY <1>2, <1>6, <2>1 DEF QueueTo
  <2>2. CASE i = Len(b) + 1
    BY <1>1, <1>2, <1>4, <1>6, <2>2 DEF QueueTo
  <2> QED
    BY <1>0, <1>2, <2>1, <2>2
<1>7. ASSUME thread'[e]["mux"] # "done", NEW i \in 1..Len(incoming'[e].buf) PROVE InSlot(e, i, incoming[e].buf[i])'
  <2>1. thread[e]["mux"] # "done" /\ i \in 1..Len(a)
    BY <1>1, <1>7
  <2>2. InSlot(e, i, a[i])
    BY <1>6, <2>1
  <2> HIDE DEF a
  <2> QED
    BY <1>1, <1>4, <2>2 DEF InSlot
<1> HIDE DEF a
<1>8. QueueTo(e)'
  BY <1>1, <1>3, <1>4, <1>7 DEF QueueTo
<1> QED
  BY <1>1, <1>4, <1>8 DEF DataRead

LEMMA QueueReadOther ==
  ASSUME TypeOK, PhasesKept, NEW e \in Ends, StreamTo(e), QueueTo(e), DataTo(e), ReadOther(e)
  PROVE  /\ QueueTo(e)' /\ DataRead(e)' = DataRead(e) + 1 /\ Head(net[e]).kind \in DataKinds
<1> DEFINE b == incoming[e].buf
           h == Head(net[e])
           d == DataRead(e)
<1>0. b \in Seq(Packets) /\ Len(b) \in Nat /\ Len(got[e]) \in Nat /\ rkey[e] \in Nat /\ taken[Peer(e)] \in Nat
  BY QueueTypes
<1>1. /\ incoming'[e] = incoming[e] /\ held'[e] = h /\ loop'[e] = "push" /\ loop[e] = "read" /\ h.kind # "kexInit"
      /\ UNCHANGED <<rkey, thread, got, taken, open>> /\ Arrived(e) /\ open[e] /\ net[e] # <<>>
  BY DEF ReadOther, Arrived, userVars, TypeOK, TypeLoop
<1>2. h \in OnWire /\ h.key = rkey[e] /\ h.kind \in DataKinds
  BY <1>1, HeadExpected
<1>3. h \in Packets /\ h \in Sealed /\ rkey[e] > 0
  BY <1>2 DEF OnWire, Sealed
<1>4. thread[e]["mux"] # "done" /\ (Waiting(e) => Len(b) # 0) /\ (Waiting(e) => got[e] = <<>>)
  BY <1>0, <1>1, <1>3 DEF QueueTo, Depth
<1>g. Waiting(e) => Len(got[e]) = 0
  BY <1>4
<1>5. /\ d \in Nat
      /\ Waiting(e) => d + 1 = Len(b)
      /\ ~Waiting(e) => d = Len(got[e]) + Len(b)
  <2>1. Depth(e) = Len(b)
    BY <1>0, <1>1 DEF Depth
  <2>2. d = IF Waiting(e) THEN Len(b) - 1 ELSE Len(got[e]) + Len(b)
    BY <1>0, <1>4, <2>1 DEF DataRead
  <2> HIDE DEF d, b
  <2> QED
    BY <1>0, <1>4, <2>2
<1>6. h.n = d + 1 /\ d + 1 <= taken[Peer(e)]
  <2>1. net[e] \in Seq(Packets)
    BY DEF TypeOK, TypeWire
  <2>2. Unread(net[e], d, taken[Peer(e)])
    BY <1>1 DEF DataTo
  <2> QED
    BY <1>0, <1>1, <1>2, <1>5, <2>1, <2>2, UnreadTail
<1>7. Depth(e) = Len(b) /\ Depth(e)' = Len(b) + 1 /\ Waiting(e)' = Waiting(e) /\ Sealed' = Sealed
  <2>1. Depth(e)' = Len(b) + 1
    BY <1>1 DEF Depth
  <2> QED
    BY <1>0, <1>1, <2>1 DEF Waiting, Sealed, Depth
<1>8. InSlot(e, Depth(e), held[e])'
  <2>1. ~(Waiting(e) /\ Len(b) + 1 = 1)
    BY <1>0, <1>4
  <2>2. h.n = Len(got[e]) + (Len(b) + 1) - (IF Waiting(e) THEN 1 ELSE 0)
    <3>0. Len(b) \in Nat /\ Len(got[e]) \in Nat /\ d \in Nat /\ h.n = d + 1
      BY <1>0, <1>5, <1>6
    <3>1. CASE Waiting(e)
      <4>1. Len(got[e]) = 0 /\ d + 1 = Len(b)
        BY <1>5, <1>g, <3>1
      <4> HIDE DEF h, d, b
      <4> QED
        BY <3>0, <3>1, <4>1
    <3>2. CASE ~Waiting(e)
      <4>1. d = Len(got[e]) + Len(b)
        BY <1>5, <3>2
      <4> HIDE DEF h, d, b
      <4> QED
        BY <3>0, <3>2, <4>1, PlusOne
    <3> QED
      BY <3>1, <3>2
  <2>3. h.n <= taken[Peer(e)]
    BY <1>6
  <2> HIDE DEF h, b
  <2> QED
    BY <1>1, <1>2, <1>7, <2>1, <2>2, <2>3 DEF InSlot
<1>9. ASSUME NEW i \in 1..Len(b) PROVE InSlot(e, i, incoming[e].buf[i])'
  BY <1>1, <1>4, <1>7 DEF InSlot, QueueTo
<1>10. rkey'[e] # 0 /\ Depth(e)' # 0
  BY <1>0, <1>1, <1>3, <1>7
<1>11. QueueTo(e)'
  <2>1. (held[e] \in Sealed /\ incoming[e].buf \in Seq(Sealed))'
    BY <1>1, <1>3, <1>7 DEF QueueTo
  <2>2. (thread[e]["mux"] = "done" => ~open[e])' /\ (thread[e]["writer"] # "idle" => rkey[e] > 0)'
    BY <1>1 DEF QueueTo
  <2>3. (Waiting(e) => got[e] = <<>>)' /\ (rkey[e] = 0 <=> Waiting(e) /\ Depth(e) = 0)'
    BY <1>1, <1>4, <1>7, <1>10
  <2> QED
    BY <1>1, <1>8, <1>9, <2>1, <2>2, <2>3 DEF QueueTo
<1>12. DataRead(e)' = d + 1
  <2>1. DataRead(e)' = IF Waiting(e) THEN Depth(e)' - 1 ELSE Len(got[e]) + Depth(e)'
    BY <1>1, <1>7, <1>10 DEF DataRead
  <2>2. Len(b) \in Nat /\ Len(got[e]) \in Nat /\ d \in Nat /\ Depth(e)' = Len(b) + 1
    BY <1>0, <1>5, <1>7
  <2>3. CASE Waiting(e)
    <3>1. d + 1 = Len(b) /\ DataRead(e)' = Depth(e)' - 1
      BY <1>5, <2>1, <2>3
    <3> HIDE DEF d, b
    <3> QED
      BY <2>2, <3>1
  <2>4. CASE ~Waiting(e)
    <3>1. d = Len(got[e]) + Len(b) /\ DataRead(e)' = Len(got[e]) + Depth(e)'
      BY <1>5, <2>1, <2>4
    <3> HIDE DEF d, b
    <3> QED
      BY <2>2, <3>1, PlusOne
  <2> QED
    BY <2>3, <2>4
<1> QED
  BY <1>2, <1>11, <1>12

LEMMA QueueNewKeys ==
  ASSUME TypeOK, TypeOK', NEW e \in Ends, QueueTo(e), Step(e), NewKeys(e)
  PROVE  QueueTo(e)' /\ (DataRead(e)' = DataRead(e)) /\ Head(net[e]).kind \notin DataKinds
<1> DEFINE b == incoming[e].buf
           h == Head(net[e])
<1>0. b \in Seq(Packets) /\ Len(b) \in Nat /\ rkey[e] \in Nat /\ rkey'[e] \in Nat /\ taken[Peer(e)] \in Nat
  BY QueueTypes DEF TypeOK, TypeWire
<1>1. /\ incoming' = incoming /\ loop[e] = "newKeys" /\ h.kind = "newKeys" /\ UNCHANGED <<got, taken, open>>
      /\ open[e] /\ rkey'[e] = rkey[e] + 1 /\ net[e] # <<>> /\ Broadcast(e)
      /\ rkey[e] = 0 => held'[e] = h /\ loop'[e] = "push"
      /\ rkey[e] # 0 => held'[e] = held[e] /\ loop'[e] = "top"
  BY DEF NewKeys, Arrived, EndKex, TypeOK, TypeWire, TypeLoop
<1>2. ~Receive(e)
  BY <1>0, <1>1 DEF Receive
<1>3. /\ thread'[e]["mux"] # "done" => thread[e]["mux"] # "done" /\ Waiting(e)' = Waiting(e)
      /\ thread'[e]["mux"] = "done" => thread[e]["mux"] = "done" \/ ~open'[e]
      /\ thread'[e]["writer"] # "idle" =>
           thread[e]["writer"] # "idle" \/ (~Waiting(e) /\ thread[e]["mux"] # "done")
  BY <1>2, MuxStep
<1>4. CASE rkey[e] # 0
  <2>1. rkey[e] <= rkey'[e] /\ taken[Peer(e)] <= taken'[Peer(e)] /\ (rkey[e] = 0 => rkey'[e] = 0)
    BY <1>0, <1>1, <1>4
  <2>2. /\ held'[e] = held[e] /\ incoming'[e].buf = incoming[e].buf /\ got'[e] = got[e]
        /\ (loop'[e] = "push" <=> loop[e] = "push") /\ open'[e] /\ open[e]
    BY <1>1, <1>4
  <2> QED
    BY <1>1, <1>3, <2>1, <2>2, QueueSame DEF DataKinds
<1>5. CASE rkey[e] = 0
  <2>1. thread[e]["mux"] # "done" /\ Waiting(e) /\ Depth(e) = 0 /\ got[e] = <<>>
    BY <1>0, <1>1, <1>5 DEF QueueTo
  <2>2. Len(b) = 0
    BY <1>0, <1>1, <2>1 DEF Depth
  <2>3. thread'[e]["mux"] # "done" /\ Waiting(e)' = TRUE
    <3>1. thread'[e]["mux"] # "done"
      BY <1>1, <2>1, <1>3
    <3> QED
      BY <2>1, <3>1, <1>3
  <2>4. Depth(e)' = 1 /\ Depth(e)' # 0
    BY <1>1, <1>5, <2>2 DEF Depth
  <2>5. h \in Packets
    BY <1>1, HeadPacket
  <2>6. held'[e] \in Sealed
    BY <1>1, <1>5, <2>5 DEF Sealed, DataKinds
  <2>7. InSlot(e, Depth(e), held[e])'
    BY <1>1, <1>5, <2>3, <2>4 DEF InSlot
  <2>8. rkey'[e] > 0 /\ rkey'[e] # 0 /\ got'[e] = <<>> /\ Len(incoming'[e].buf) = 0
    BY <1>0, <1>1, <1>5, <2>1, <2>2
  <2>9. incoming'[e].buf \in Seq(Sealed)
    BY <1>1 DEF QueueTo
  <2>10. QueueTo(e)'
    <3>1. (\A i \in 1..Len(incoming[e].buf) : InSlot(e, i, incoming[e].buf[i]))'
      BY <2>8
    <3>2. (held[e] \in Sealed /\ incoming[e].buf \in Seq(Sealed))'
      BY <2>6, <2>9 DEF Sealed
    <3> QED
      BY <1>1, <2>3, <2>4, <2>7, <2>8, <3>1, <3>2 DEF QueueTo
  <2>11. DataRead(e) = 0 /\ DataRead(e)' = 0
    BY <2>1, <2>3, <2>4 DEF DataRead
  <2> QED
    BY <1>1, <2>10, <2>11 DEF DataKinds
<1> QED
  BY <1>4, <1>5

LEMMA QueueReceive ==
  ASSUME TypeOK, TypeOK', NEW e \in Ends, QueueTo(e), Receive(e)
  PROVE  /\ QueueTo(e)' /\ (open'[e] => DataRead(e)' = DataRead(e))
         /\ got'[e] # got[e] =>
              Len(got[e]) < taken[Peer(e)] /\ got'[e] = Append(got[e], Len(got[e]) + 1)
<1> DEFINE b == incoming[e].buf
           t == Tail(b)
           p == Head(b)
           g == Len(got[e])
<1>0. b \in Seq(Packets) /\ Len(b) \in Nat /\ g \in Nat /\ rkey[e] \in Nat /\ got[e] \in Seq(Nat)
      /\ (\A i \in 1..Len(b) : b[i] \in Packets /\ b[i].n \in Nat) /\ held[e] \in Packets /\ held[e].n \in Nat
  BY QueueTypes
<1>1. /\ incoming'[e].buf = t /\ UNCHANGED <<rkey, loop, held, taken>> /\ b # <<>>
      /\ thread[e]["mux"] \in {"await", "serve"}
  BY QueueTypes DEF Receive, TypeOK, TypeLoop
<1>2. t \in Seq(Packets) /\ Len(b) > 0 /\ Len(t) = Len(b) - 1 /\ Len(t) + 1 = Len(b) /\ p = b[1]
      /\ \A i \in 1..Len(t) : t[i] = b[i + 1]
  BY <1>0, <1>1, HeadTailProperties
<1>3. Depth(e) \in Nat /\ Depth(e)' \in Nat /\ Depth(e)' + 1 = Depth(e) /\ Depth(e) > 0
  <2>1. Depth(e) = Len(b) + (IF loop[e] = "push" THEN 1 ELSE 0)
    BY DEF Depth
  <2>2. Depth(e)' = Len(t) + (IF loop[e] = "push" THEN 1 ELSE 0)
    BY <1>1 DEF Depth
  <2>3. Len(t) \in Nat
    BY <1>2
  <2> HIDE DEF b, t
  <2> QED
    BY <1>0, <1>2, <2>1, <2>2, <2>3
<1>4. /\ thread[e]["mux"] # "done" /\ rkey[e] # 0 /\ (Waiting(e) => got[e] = <<>>)
      /\ \A i \in 1..Len(b) : InSlot(e, i, b[i])
      /\ loop[e] = "push" => InSlot(e, Depth(e), held[e])
  BY <1>1, <1>3 DEF QueueTo
<1>5. (held[e] \in Sealed /\ incoming[e].buf \in Seq(Sealed))'
  <2>1. b \in Seq(Sealed) /\ held[e] \in Sealed
    BY DEF QueueTo
  <2>2. t \in Seq(Sealed)
    BY <1>1, <2>1, HeadTailProperties
  <2> QED
    BY <1>1, <2>1, <2>2 DEF Sealed
<1>6. /\ thread \in [Ends -> [Threads -> Doing]] /\ open \in [Ends -> BOOLEAN] /\ got \in [Ends -> Seq(Nat)]
      /\ "mux" \in Threads /\ "writer" \in Threads
  BY DEF TypeOK, TypeUser, TypeWire, Threads
<1>7. (thread[e]["writer"] # "idle" => rkey[e] > 0)'
  <2>1. thread'[e]["writer"] = thread[e]["writer"]
    BY <1>6 DEF Receive
  <2> QED
    BY <1>1, <2>1 DEF QueueTo
<1>8. CASE thread'[e]["mux"] = "done"
  <2>1. ~open'[e] /\ got' = got
    BY <1>1, <1>6, <1>8 DEF Receive
  <2> QED
    BY <1>5, <1>7, <1>8, <2>1 DEF QueueTo
<1>9. CASE thread[e]["mux"] = "await" /\ thread'[e]["mux"] = "serve" /\ UNCHANGED <<open, got>>
  <2>1. Waiting(e) = TRUE /\ Waiting(e)' = FALSE /\ g = 0 /\ Len(got'[e]) = 0
    BY <1>4, <1>9 DEF Waiting
  <2>2. ASSUME NEW i \in Nat, NEW j \in Nat, j = i + 1, i # 0, NEW r \in Packets, r.n \in Nat, InSlot(e, j, r)
        PROVE  r.kind \in DataKinds /\ r.n <= taken[Peer(e)] /\ r.n = 0 + i - 0
    <3>1. ~(Waiting(e) /\ j = 1)
      BY <2>2
    <3>2. r.kind \in DataKinds /\ r.n <= taken[Peer(e)] /\ r.n = g + j - 1
      BY <2>1, <2>2, <3>1 DEF InSlot
    <3> HIDE DEF g
    <3> QED
      BY <2>1, <2>2, <3>2
  <2>3. ASSUME NEW i \in 1..Len(t) PROVE InSlot(e, i, incoming[e].buf[i])'
    <3>1. i \in Nat /\ i + 1 \in 1..Len(b) /\ t[i] = b[i + 1] /\ i # 0
      BY <1>0, <1>2
    <3>2. InSlot(e, i + 1, t[i]) /\ t[i] \in Packets /\ t[i].n \in Nat
      BY <1>0, <1>4, <3>1
    <3>3. t[i].kind \in DataKinds /\ t[i].n <= taken[Peer(e)] /\ t[i].n = 0 + i - 0
      BY <2>2, <3>1, <3>2
    <3> HIDE DEF t
    <3> QED
      BY <1>1, <2>1, <3>3 DEF InSlot
  <2>4. loop'[e] = "push" => InSlot(e, Depth(e), held[e])'
    <3>1. SUFFICES ASSUME loop[e] = "push" PROVE InSlot(e, Depth(e), held[e])'
      BY <1>1
    <3>2. Depth(e)' # 0
      BY <1>0, <1>1, <1>2, <3>1 DEF Depth
    <3>3. held[e].kind \in DataKinds /\ held[e].n <= taken[Peer(e)] /\ held[e].n = 0 + Depth(e)' - 0
      BY <1>0, <1>3, <1>4, <2>2, <3>1, <3>2
    <3> QED
      BY <1>1, <2>1, <3>3 DEF InSlot
  <2>5. QueueTo(e)'
    <3>1. (\A i \in 1..Len(incoming[e].buf) : InSlot(e, i, incoming[e].buf[i]))'
      BY <1>1, <2>3
    <3>2. rkey'[e] # 0 /\ thread'[e]["mux"] # "done"
      BY <1>1, <1>4, <1>9
    <3> QED
      BY <1>5, <1>7, <2>1, <2>4, <3>1, <3>2 DEF QueueTo
  <2>6. DataRead(e) = Depth(e) - 1 /\ DataRead(e)' = 0 + Depth(e)'
    BY <1>3, <2>1 DEF DataRead
  <2>7. DataRead(e)' = DataRead(e)
    BY <1>3, <2>6
  <2> QED
    BY <1>9, <2>5, <2>7
<1>10. CASE /\ thread[e]["mux"] = "serve" /\ thread'[e]["mux"] \in {"serve", "write"} /\ UNCHANGED open
            /\ got'[e] = Append(got[e], p.n)
  <2>1. Waiting(e) = FALSE /\ Waiting(e)' = FALSE
    BY <1>10 DEF Waiting
  <2>2. Len(got'[e]) = g + 1
    <3>1. p.n \in Nat
      BY <1>0, <1>2
    <3> QED
      BY <1>0, <1>10, <3>1, AppendProperties
  <2>3. ASSUME NEW i \in Nat, NEW j \in Nat, j = i + 1, NEW r \in Packets, r.n \in Nat, InSlot(e, j, r)
        PROVE  r.kind \in DataKinds /\ r.n <= taken[Peer(e)] /\ r.n = (g + 1) + i - 0
    <3>1. r.kind \in DataKinds /\ r.n <= taken[Peer(e)] /\ r.n = g + j - 0
      BY <2>1, <2>3 DEF InSlot
    <3> HIDE DEF g
    <3>2. \A x, y \in Nat : x + (y + 1) - 0 = (x + 1) + y - 0
      OBVIOUS
    <3> QED
      BY <1>0, <2>3, <3>1, <3>2
  <2>4. ASSUME NEW i \in 1..Len(t) PROVE InSlot(e, i, incoming[e].buf[i])'
    <3>1. i \in Nat /\ i + 1 \in 1..Len(b) /\ t[i] = b[i + 1]
      BY <1>0, <1>2
    <3>2. InSlot(e, i + 1, t[i]) /\ t[i] \in Packets /\ t[i].n \in Nat
      BY <1>0, <1>4, <3>1
    <3>3. t[i].kind \in DataKinds /\ t[i].n <= taken[Peer(e)] /\ t[i].n = (g + 1) + i - 0
      BY <2>3, <3>1, <3>2
    <3> HIDE DEF t, g
    <3> QED
      BY <1>1, <2>1, <2>2, <3>3 DEF InSlot
  <2>5. loop'[e] = "push" => InSlot(e, Depth(e), held[e])'
    <3>1. SUFFICES ASSUME loop[e] = "push" PROVE InSlot(e, Depth(e), held[e])'
      BY <1>1
    <3>3. held[e].kind \in DataKinds /\ held[e].n <= taken[Peer(e)] /\ held[e].n = (g + 1) + Depth(e)' - 0
      BY <1>0, <1>3, <1>4, <2>3, <3>1
    <3> HIDE DEF g
    <3> QED
      BY <1>1, <2>1, <2>2, <3>3 DEF InSlot
  <2>6. QueueTo(e)'
    <3>1. (\A i \in 1..Len(incoming[e].buf) : InSlot(e, i, incoming[e].buf[i]))'
      BY <1>1, <2>4
    <3>2. rkey'[e] # 0 /\ thread'[e]["mux"] # "done"
      BY <1>1, <1>4, <1>10
    <3> QED
      BY <1>5, <1>7, <2>1, <2>5, <3>1, <3>2 DEF QueueTo
  <2>7. DataRead(e) = g + Depth(e) /\ DataRead(e)' = (g + 1) + Depth(e)'
    BY <2>1, <2>2 DEF DataRead
  <2>8. DataRead(e)' = DataRead(e)
    <3> HIDE DEF g
    <3> QED
      BY <1>0, <1>3, <2>7
  <2>9. p.n = g + 1 /\ p.n <= taken[Peer(e)]
    <3>1. 1 \in 1..Len(b) /\ InSlot(e, 1, p) /\ p.n \in Nat
      BY <1>0, <1>2, <1>4
    <3>2. p.n = g + 1 - 0 /\ p.n <= taken[Peer(e)]
      BY <2>1, <3>1 DEF InSlot
    <3> HIDE DEF g, p
    <3> QED
      BY <1>0, <3>2
  <2>10. g < taken[Peer(e)]
    <3>1. taken[Peer(e)] \in Nat
      BY QueueTypes
    <3> HIDE DEF g, p
    <3> QED
      BY <1>0, <2>9, <3>1
  <2> QED
    BY <1>10, <2>6, <2>8, <2>9, <2>10
<1>11. \/ thread'[e]["mux"] = "done"
       \/ thread[e]["mux"] = "await" /\ thread'[e]["mux"] = "serve" /\ UNCHANGED <<open, got>>
       \/ /\ thread[e]["mux"] = "serve" /\ thread'[e]["mux"] \in {"serve", "write"} /\ UNCHANGED open
          /\ got'[e] = Append(got[e], p.n)
  BY <1>6 DEF Receive
<1> QED
  BY <1>8, <1>9, <1>10, <1>11

\* A step of e: how its own queue and what it has read change.
LEMMA QueueStep ==
  ASSUME TypeOK, TypeOK', PhasesKept, NEW e \in Ends, StreamTo(e), QueueTo(e), DataTo(e), Step(e)
  PROVE  /\ QueueTo(e)'
         /\ open'[e] =>
              \/ DataRead(e)' = DataRead(e) /\ (Kept(e) \/ (Took(e) /\ Head(net[e]).kind \notin DataKinds))
              \/ DataRead(e)' = DataRead(e) + 1 /\ Took(e) /\ Head(net[e]).kind \in DataKinds
<1> DEFINE Goal ==
         /\ QueueTo(e)'
         /\ open'[e] =>
              \/ DataRead(e)' = DataRead(e) /\ (Kept(e) \/ (Took(e) /\ Head(net[e]).kind \notin DataKinds))
              \/ DataRead(e)' = DataRead(e) + 1 /\ Took(e) /\ Head(net[e]).kind \in DataKinds
<1>1. CASE Push(e)
  <2>1. Kept(e)
    BY <1>1 DEF Push, wireVars, Kept
  <2> QED
    BY <1>1, <2>1, QueuePush
<1>2. CASE Receive(e)
  <2>1. Kept(e)
    BY <1>2 DEF Receive, Kept
  <2> QED
    BY <1>2, <2>1, QueueReceive
<1>3. CASE ReadOther(e)
  BY <1>3, QueueReadOther, WireTakeOnly
<1>4. CASE NewKeys(e)
  BY <1>4, QueueNewKeys, WireTakeOnly
<1>5. ASSUME ~Receive(e), incoming'[e].buf = incoming[e].buf, UNCHANGED <<held, got, rkey>>,
             loop'[e] = "push" <=> loop[e] = "push",
             taken'[Peer(e)] = taken[Peer(e)], Kept(e) \/ (Took(e) /\ Head(net[e]).kind \notin DataKinds)
      PROVE  Goal
  <2>1. rkey[e] <= rkey'[e] /\ taken[Peer(e)] <= taken'[Peer(e)]
    BY <1>5, QueueTypes
  <2>2. QueueTo(e)' /\ (open'[e] => DataRead(e)' = DataRead(e))
    BY <1>5, <2>1, MuxStep, OpenKept, QueueSame
  <2> QED
    BY <1>5, <2>2
<1>6. taken'[Peer(e)] = taken[Peer(e)]
  BY PeerFacts, Frame
<1>7. CASE ReadError(e) \/ KexFails(e) \/ ReceiveError(e) \/ BeginWrite(e) \/ Close(e)
  <2>1. incoming'[e].buf = incoming[e].buf
    <3>1. incoming' = incoming \/ incoming' = [incoming EXCEPT ![e].closed = TRUE]
      BY <1>7 DEF ReadError, LoopExit, KexFails, FailKex, ReceiveError, BeginWrite, Close, loopVars
    <3> QED
      BY <3>1 DEF TypeOK, TypeLoop
  <2>2. UNCHANGED <<held, got, rkey, net>>
    BY <1>7 DEF ReadError, KexFails, ReceiveError, BeginWrite, Close, loopVars, userVars, wireVars
  <2>3. loop'[e] = "push" <=> loop[e] = "push"
    BY <1>7 DEF ReadError, LoopExit, KexFails, FailKex, ReceiveError, BeginWrite, Close, loopVars, TypeOK, TypeLoop
  <2> HIDE DEF Goal
  <2> QED
    BY <1>2, <1>5, <1>6, <2>1, <2>2, <2>3 DEF Kept, Goal
<1>8. CASE Asking(e)
  <2>1. incoming'[e].buf = incoming[e].buf
    <3>1. incoming' = incoming \/ incoming' = [incoming EXCEPT ![e].closed = TRUE]
      BY <1>8 DEF Asking, ReadOnePacket, LoopExit, RequestInitialKeyChange, Sleep, WriteFails, loopVars
    <3> QED
      BY <3>1 DEF TypeOK, TypeLoop
  <2>2. UNCHANGED <<held, got, rkey>>
    BY <1>8 DEF Asking, ReadOnePacket, RequestInitialKeyChange, Sleep, WriteFails, loopVars
  <2>3. loop'[e] = "push" <=> loop[e] = "push"
    BY <1>8 DEF Asking, ReadOnePacket, LoopExit, RequestInitialKeyChange, Sleep, WriteFails, loopVars, TypeOK, TypeLoop
  <2>4. Kept(e)
    BY <1>8, WireAsk DEF Asking, Threads
  <2> HIDE DEF Goal
  <2> QED
    BY <1>2, <1>5, <1>6, <2>1, <2>2, <2>3, <2>4 DEF Goal
<1>9. CASE Writing(e)
  <2>1. UNCHANGED <<incoming, held, got, rkey, loop>> /\ Kept(e)
    BY <1>9, WireWrite DEF Writing, Write, loopVars
  <2> HIDE DEF Goal
  <2> QED
    BY <1>2, <1>5, <1>6, <2>1 DEF Goal
<1>10. CASE EnterKeyExchange(e)
  <2>1. incoming'[e].buf = incoming[e].buf
    <3>1. incoming' = incoming \/ incoming' = [incoming EXCEPT ![e].closed = TRUE]
      BY <1>10 DEF EnterKeyExchange, FailKex, LoopExit
    <3> QED
      BY <3>1 DEF TypeOK, TypeLoop
  <2>2. UNCHANGED <<held, got, rkey>> /\ loop[e] = "read" /\ loop'[e] # "push" /\ Head(net[e]).kind = "kexInit"
    BY <1>10 DEF EnterKeyExchange, FailKex, LoopExit, TypeOK, TypeLoop
  <2>3. Took(e) /\ Head(net[e]).kind \notin DataKinds
    BY <1>10, <2>2, WireEnter DEF DataKinds
  <2> HIDE DEF Goal
  <2> QED
    BY <1>2, <1>5, <1>6, <2>1, <2>2, <2>3 DEF Goal
<1>11. CASE KexMessage(e)
  <2>1. UNCHANGED <<incoming, held, got, rkey>> /\ loop[e] = "kex" /\ loop'[e] # "push" /\ Head(net[e]).kind = "kexMsg"
    BY <1>11 DEF KexMessage, FinishExchange, userVars, TypeOK, TypeLoop
  <2>3. Took(e) /\ Head(net[e]).kind \notin DataKinds
    BY <1>11, <2>1, WireKexMessage DEF DataKinds
  <2> HIDE DEF Goal
  <2> QED
    BY <1>2, <1>5, <1>6, <2>1, <2>3 DEF Goal
<1> HIDE DEF Goal
<1>12. Goal
  <2>1. CASE Offline(e)
    BY <1>1, <1>2, <1>7, <2>1 DEF Offline, Goal
  <2> QED
    BY <1>3, <1>4, <1>8, <1>9, <1>10, <1>11, <2>1, StepCases DEF Goal
<1> QED
  BY <1>12 DEF Goal

LEMMA DataReadType == ASSUME TypeOK, NEW e \in Ends PROVE DataRead(e) \in Nat
<1>0. Len(incoming[e].buf) \in Nat /\ Len(got[e]) \in Nat
  BY QueueTypes
<1>a. \A x \in Nat : x + 1 \in Nat /\ x + 0 \in Nat
  OBVIOUS
<1>1. Depth(e) \in Nat
  BY <1>0, <1>a DEF Depth
<1> QED
  BY <1>0, <1>1 DEF DataRead

\* What a step of e writes, as its reader will see it.
LEMMA DataWritten ==
  ASSUME TypeOK, PhasesKept, NEW e \in Ends, Step(e)
  PROVE  \/ taken'[e] = taken[e] /\ Wrote0(e)
         \/ taken'[e] = taken[e] /\ \E p \in Packets : Wrote1(e, p) /\ p.kind \notin DataKinds
         \/ /\ taken'[e] = taken[e]
            /\ \E p \in Packets, q \in Packets :
                 Wrote2(e, p, q) /\ p.kind \notin DataKinds /\ q.kind \notin DataKinds
         \/ taken'[e] = taken[e] + 1 /\ \E p \in Packets : Wrote1(e, p) /\ p.kind \in DataKinds /\ p.n = taken[e] + 1
<1>1. /\ KexInit(e) \in Packets /\ NewKeysMsg(e) \in Packets /\ \A i \in Nat : KexMsg(e, i) \in Packets
      /\ KexInit(e).kind \notin DataKinds /\ NewKeysMsg(e).kind \notin DataKinds
      /\ \A i \in Nat : KexMsg(e, i).kind \notin DataKinds
  <2>1. KexInit(e) \in Packets /\ NewKeysMsg(e) \in Packets /\ \A i \in Nat : KexMsg(e, i) \in Packets
    BY PacketTypes
  <2> QED
    BY <2>1 DEF KexInit, NewKeysMsg, KexMsg, Packet, DataKinds
<1>2. CASE Offline(e)
  <2>1. taken' = taken
    BY <1>2 DEF Offline, ReadError, Push, KexFails, Receive, ReceiveError, BeginWrite, Close, userVars
  <2> QED
    BY <1>2, <2>1, OfflineNet, WireUnchanged
<1>3. CASE Asking(e)
  <2>1. taken' = taken
    BY <1>3 DEF Asking, ReadOnePacket, RequestInitialKeyChange, Sleep, WriteFails
  <2>2. Wrote0(e) \/ Wrote1(e, KexInit(e))
    BY <1>3, WireAsk DEF Asking, Threads
  <2> QED
    BY <1>1, <2>1, <2>2
<1>4. CASE Writing(e)
  <2>1. PICK t \in Threads : Write(e, t)
    BY <1>4 DEF Writing
  <2> DEFINE p == Packet(wants[e][t], wkey[e], taken[e] + 1)
  <2>2. taken'[e] = taken[e] + 1
    BY <2>1 DEF Write, TypeOK, TypeUser
  <2>3. p.kind \in DataKinds /\ p.n = taken[e] + 1
    BY DEF Packet, TypeOK, TypeUser
  <2>4. p \in Packets /\ Wrote1(e, p)
    BY <2>1, WireWrite
  <2> HIDE DEF p
  <2> QED
    BY <2>2, <2>3, <2>4
<1>5. CASE ReadOther(e) \/ NewKeys(e)
  <2>1. taken' = taken
    BY <1>5 DEF ReadOther, NewKeys, userVars
  <2> QED
    BY <1>5, <2>1, WireTakeOnly
<1>6. CASE EnterKeyExchange(e)
  <2>1. taken' = taken
    BY <1>6 DEF EnterKeyExchange
  <2> QED
    BY <1>1, <1>6, <2>1, WireEnter
<1>7. CASE KexMessage(e)
  <2>1. taken' = taken
    BY <1>7 DEF KexMessage, userVars
  <2> QED
    BY <1>1, <1>7, <2>1, WireKexMessage
<1> QED
  BY <1>2, <1>3, <1>4, <1>5, <1>6, <1>7, StepCases

LEMMA DataStep ==
  ASSUME TypeOK, TypeOK', PhasesKept, StreamInOrder, DataInOrder, NEW e \in Ends, Step(e)
  PROVE  QueueTo(e)' /\ DataTo(e)' /\ QueueTo(Peer(e))' /\ DataTo(Peer(e))'
<1> DEFINE f == Peer(e)
<1>0. /\ f \in Ends /\ f # e /\ Peer(f) = e /\ QueueTo(e) /\ QueueTo(f) /\ DataTo(e) /\ DataTo(f) /\ StreamTo(e)
      /\ net[e] \in Seq(Packets) /\ net[f] \in Seq(Packets) /\ open'[f] = open[f] /\ (open'[e] => open[e])
      /\ taken'[f] = taken[f] /\ open[f] \in BOOLEAN
  BY PeerFacts, Frame, OpenKept DEF DataInOrder, StreamInOrder, TypeOK, TypeWire
<1>t. /\ DataRead(e) \in Nat /\ DataRead(f) \in Nat /\ taken[f] \in Nat /\ taken[e] \in Nat
      /\ taken'[e] \in Nat
  BY <1>0, DataReadType DEF TypeOK, TypeUser
<1>1. /\ QueueTo(e)'
      /\ open'[e] =>
           \/ DataRead(e)' = DataRead(e) /\ (Kept(e) \/ (Took(e) /\ Head(net[e]).kind \notin DataKinds))
           \/ DataRead(e)' = DataRead(e) + 1 /\ Took(e) /\ Head(net[e]).kind \in DataKinds
  BY <1>0, QueueStep
<1>2. DataTo(e)'
  <2>1. SUFFICES ASSUME open'[e] PROVE Unread(net'[e], DataRead(e)', taken[f])
    BY <1>0 DEF DataTo, Unread, DataIn
  <2>2. Unread(net[e], DataRead(e), taken[f])
    BY <1>0, <2>1 DEF DataTo
  <2>3. CASE DataRead(e)' = DataRead(e) /\ Kept(e)
    BY <2>2, <2>3 DEF Kept
  <2>4. CASE DataRead(e)' = DataRead(e) /\ Took(e) /\ Head(net[e]).kind \notin DataKinds
    BY <1>0, <1>t, <2>2, <2>4, UnreadTail DEF Took
  <2>5. CASE DataRead(e)' = DataRead(e) + 1 /\ Took(e) /\ Head(net[e]).kind \in DataKinds
    BY <1>0, <1>t, <2>2, <2>5, UnreadTail DEF Took
  <2> QED
    BY <1>1, <2>1, <2>3, <2>4, <2>5
<1>3. \/ taken'[e] = taken[e] /\ Wrote0(e)
      \/ taken'[e] = taken[e] /\ \E p \in Packets : Wrote1(e, p) /\ p.kind \notin DataKinds
      \/ /\ taken'[e] = taken[e]
         /\ \E p \in Packets, q \in Packets :
              Wrote2(e, p, q) /\ p.kind \notin DataKinds /\ q.kind \notin DataKinds
      \/ taken'[e] = taken[e] + 1 /\ \E p \in Packets : Wrote1(e, p) /\ p.kind \in DataKinds /\ p.n = taken[e] + 1
  BY DataWritten
<1>4. /\ incoming'[f] = incoming[f] /\ held'[f] = held[f] /\ got'[f] = got[f] /\ rkey'[f] = rkey[f]
      /\ loop'[f] = loop[f] /\ thread'[f] = thread[f]
  BY <1>0, Frame
<1>5. QueueTo(f)' /\ (open'[f] => DataRead(f)' = DataRead(f))
  <2>1. taken[e] <= taken'[e] /\ rkey[f] <= rkey'[f] /\ rkey[f] \in Nat
    BY <1>0, <1>3, <1>4, <1>t, QueueTypes
  <2>2. Waiting(f)' = Waiting(f)
    BY <1>4 DEF Waiting
  <2> QED
    BY <1>0, <1>4, <2>1, <2>2, QueueSame
<1>6. DataTo(f)'
  <2>1. SUFFICES ASSUME open[f] PROVE Unread(net'[f], DataRead(f), taken'[e])
    BY <1>0, <1>5 DEF DataTo, Unread, DataIn
  <2>2. Unread(net[f], DataRead(f), taken[e])
    BY <1>0, <2>1 DEF DataTo
  <2>3. CASE taken'[e] = taken[e] /\ Wrote0(e)
    BY <2>2, <2>3 DEF Wrote0
  <2>4. ASSUME taken'[e] = taken[e], NEW p \in Packets, Wrote1(e, p), p.kind \notin DataKinds
        PROVE  Unread(net'[f], DataRead(f), taken'[e])
    <3>1. net'[f] = Append(net[f], p)
      BY <2>1, <2>4 DEF Wrote1
    <3> QED
      BY <1>0, <1>t, <2>2, <2>4, <3>1, UnreadAppend
  <2>5. ASSUME taken'[e] = taken[e], NEW p \in Packets, NEW q \in Packets, Wrote2(e, p, q),
               p.kind \notin DataKinds, q.kind \notin DataKinds
        PROVE  Unread(net'[f], DataRead(f), taken'[e])
    <3>1. net'[f] = Append(Append(net[f], p), q)
      BY <2>1, <2>5 DEF Wrote2
    <3>2. Append(net[f], p) \in Seq(Packets)
      BY <1>0, AppendProperties
    <3>3. Unread(Append(net[f], p), DataRead(f), taken[e])
      BY <1>0, <1>t, <2>2, <2>5, UnreadAppend
    <3> QED
      BY <1>t, <2>5, <3>1, <3>2, <3>3, UnreadAppend
  <2>6. ASSUME taken'[e] = taken[e] + 1, NEW p \in Packets, Wrote1(e, p), p.kind \in DataKinds, p.n = taken[e] + 1
        PROVE  Unread(net'[f], DataRead(f), taken'[e])
    <3>1. net'[f] = Append(net[f], p)
      BY <2>1, <2>6 DEF Wrote1
    <3> QED
      BY <1>0, <1>t, <2>2, <2>6, <3>1, UnreadAppend
  <2> QED
    BY <1>3, <2>3, <2>4, <2>5, <2>6
<1> QED
  BY <1>1, <1>2, <1>5, <1>6

LEMMA DataNext ==
  TypeOK /\ TypeOK' /\ PhasesKept /\ StreamInOrder /\ DataInOrder /\ [Next]_vars => DataInOrder'
<1> SUFFICES ASSUME TypeOK, TypeOK', PhasesKept, StreamInOrder, DataInOrder, [Next]_vars PROVE DataInOrder'
  OBVIOUS
<1>1. ASSUME NEW e \in Ends, Step(e) PROVE DataInOrder'
  BY <1>1, DataStep, PeerFacts DEF DataInOrder
<1>2. CASE UNCHANGED vars
  <2>1. ASSUME NEW e \in Ends PROVE QueueTo(e)' /\ DataTo(e)'
    <3>1. /\ UNCHANGED <<net, held, incoming, got, rkey, loop, taken, open, thread>> /\ Waiting(e)' = Waiting(e)
          /\ rkey[e] <= rkey'[e] /\ taken[Peer(e)] <= taken'[Peer(e)]
      BY <1>2, QueueTypes DEF vars, wireVars, loopVars, userVars, Waiting
    <3>2. QueueTo(e)' /\ (open'[e] => DataRead(e)' = DataRead(e))
      BY <3>1, QueueSame DEF DataInOrder
    <3> QED
      BY <3>1, <3>2 DEF DataInOrder, DataTo
  <2> QED
    BY <2>1 DEF DataInOrder
<1> QED
  BY <1>1, <1>2, StepOrStutter

LEMMA DataInit == Init => DataInOrder
<1> SUFFICES ASSUME Init, NEW e \in Ends PROVE QueueTo(e) /\ DataTo(e)
  BY DEF DataInOrder
<1>1. /\ net[e] = <<>> /\ incoming[e].buf = <<>> /\ got[e] = <<>> /\ rkey[e] = 0 /\ loop[e] = "top"
      /\ taken[Peer(e)] = 0 /\ open[e] /\ thread[e]["mux"] = "start" /\ thread[e]["writer"] = "idle"
      /\ held[e] = Packet("none", 0, 0)
  BY PeerFacts DEF Init, Threads
<1>2. Depth(e) = 0 /\ Waiting(e)
  BY <1>1 DEF Depth, Waiting
<1>3. DataRead(e) = 0
  BY <1>2 DEF DataRead
<1>4. held[e] \in Sealed /\ incoming[e].buf \in Seq(Sealed) /\ Len(incoming[e].buf) = 0
  BY <1>1 DEF Packet, Sealed, Packets, Kinds, DataKinds
<1>5. QueueTo(e)
  BY <1>1, <1>2, <1>4 DEF QueueTo
<1>6. DataTo(e)
  BY <1>1, <1>3 DEF DataTo, Unread, DataIn
<1> QED
  BY <1>5, <1>6

\* The transport's state is that of exchanges one after the other, with the
\* data between them in order.
Orderly == TypeOK /\ PhasesKept /\ StreamInOrder /\ DataInOrder

THEOREM AlwaysInOrder == Spec => []Orderly
<1>1. Init => Orderly
  BY TypeInit, PhasesInit, StreamInit, DataInit DEF Orderly
<1>2. Orderly /\ [Next]_vars => Orderly'
  BY TypeStep, PhasesStep, StreamNext, DataNext DEF Orderly
<1> QED
  BY <1>1, <1>2, PTL DEF Spec

-----------------------------------------------------------------------------
(* One kexInit for each exchange, and no writer left asleep.               *)

LEMMA InitsStep ==
  ASSUME TypeOK, PhasesKept, OneKexInit, NEW e \in Ends, Step(e), ~writeError'[e]
  PROVE  inits'[e] = rkey'[e] + (IF sentInit'[e] THEN 1 ELSE 0)
<1> DEFINE Goal == inits'[e] = rkey'[e] + (IF sentInit'[e] THEN 1 ELSE 0)
<1>0. /\ inits \in [Ends -> Nat] /\ rkey \in [Ends -> Nat] /\ sentInit \in [Ends -> BOOLEAN]
      /\ writeError \in [Ends -> BOOLEAN] /\ inits[e] \in Nat /\ rkey[e] \in Nat
  BY DEF TypeOK, TypeKex, TypeWire
<1>1. ~writeError[e] => inits[e] = rkey[e] + (IF sentInit[e] THEN 1 ELSE 0)
  BY DEF OneKexInit
<1>2. ASSUME UNCHANGED <<inits, rkey, sentInit, writeError>> PROVE Goal
  BY <1>1, <1>2
<1>3. ASSUME rkey' = rkey, writeError' = writeError, SendKexInit(e), ~sentInit[e] PROVE Goal
  <2>1. inits'[e] = inits[e] + 1 /\ sentInit'[e] = TRUE /\ inits[e] = rkey[e] + 0
    BY <1>0, <1>1, <1>3 DEF SendKexInit
  <2> QED
    BY <1>0, <1>3, <2>1
<1>4. CASE Offline(e) \/ Writing(e) \/ ReadOther(e) \/ KexMessage(e)
  <2>1. writeError'[e] = TRUE \/ UNCHANGED <<inits, rkey, sentInit, writeError>>
    BY <1>0, <1>4 DEF Offline, ReadError, LoopExit, Push, KexFails, FailKex, Receive, ReceiveError, BeginWrite, Close,
       Writing, Write, ReadOther, KexMessage, kexVars, wireVars
  <2> QED
    BY <1>2, <2>1
<1>5. CASE Asking(e)
  <2>1. rkey' = rkey /\ (writeError'[e] = TRUE \/ writeError' = writeError)
    BY <1>0, <1>5 DEF Asking, ReadOnePacket, LoopExit, RequestInitialKeyChange, Sleep, WriteFails
  <2>2. (SendKexInit(e) /\ ~sentInit[e]) \/ UNCHANGED <<sentInit, inits>>
    BY <1>5, WireAsk DEF Asking, Threads
  <2> QED
    BY <1>2, <1>3, <2>1, <2>2
<1>6. CASE NewKeys(e)
  <2>1. inits' = inits /\ rkey'[e] = rkey[e] + 1 /\ sentInit'[e] = FALSE /\ writeError' = writeError /\ loop[e] = "newKeys"
    BY <1>0, <1>6 DEF NewKeys, EndKex
  <2>2. sentInit[e]
    BY <2>1 DEF PhasesKept, Phase
  <2>3. inits[e] = rkey[e] + 1
    BY <1>1, <2>1, <2>2
  <2> QED
    BY <1>0, <2>1, <2>3
<1>7. CASE EnterKeyExchange(e)
  <2>1. /\ rkey' = rkey
        /\ \/ writeError'[e] = TRUE
           \/ /\ sentInit'[e] = TRUE /\ writeError' = writeError
              /\ inits'[e] = IF sentInit[e] THEN inits[e] ELSE inits[e] + 1
    BY <1>0, <1>7 DEF EnterKeyExchange, FailKex, LoopExit
  <2>2. CASE sentInit[e]
    BY <1>1, <2>1, <2>2
  <2>3. CASE ~sentInit[e]
    <3>1. inits[e] = rkey[e] + 0 /\ inits'[e] = inits[e] + 1 /\ sentInit'[e] = TRUE
      BY <1>1, <2>1, <2>3
    <3> QED
      BY <1>0, <2>1, <3>1
  <2> QED
    BY <2>2, <2>3
<1> HIDE DEF Goal
<1>8. Goal
  BY <1>4, <1>5, <1>6, <1>7, StepCases DEF Goal
<1> QED
  BY <1>8 DEF Goal

LEMMA WakeupStep ==
  ASSUME TypeOK, PhasesKept, NoLostWakeup, NEW e \in Ends, Step(e), NEW t \in Threads, thread'[e][t] = "asleep"
  PROVE  sentInit'[e] /\ ~writeError'[e]
<1>0. /\ thread \in [Ends -> [Threads -> Doing]] /\ sentInit \in [Ends -> BOOLEAN]
      /\ writeError \in [Ends -> BOOLEAN] /\ (thread[e][t] = "asleep" => sentInit[e] /\ ~writeError[e])
      /\ Threads = {"mux", "writer"}
  BY DEF TypeOK, TypeUser, TypeKex, NoLostWakeup, Threads
<1>1. ASSUME Broadcast(e) PROVE FALSE
  BY <1>0, <1>1 DEF Broadcast
<1>2. CASE ReadError(e) \/ KexFails(e) \/ NewKeys(e)
  BY <1>1, <1>2 DEF ReadError, KexFails, NewKeys, EndKex, FailKex, LoopExit
<1>3. CASE ReadOnePacket(e) \/ EnterKeyExchange(e)
  <2>1. UNCHANGED <<thread, writeError>> /\ (sentInit' = sentInit \/ sentInit' = [sentInit EXCEPT ![e] = TRUE])
    BY <1>1, <1>3 DEF ReadOnePacket, EnterKeyExchange, FailKex, LoopExit, SendKexInit
  <2> QED
    BY <1>0, <2>1
<1>4. CASE Push(e) \/ Close(e) \/ ReadOther(e) \/ KexMessage(e)
  BY <1>0, <1>4 DEF Push, Close, ReadOther, KexMessage, kexVars, userVars
<1>5. CASE Receive(e) \/ ReceiveError(e) \/ BeginWrite(e)
  <2>1. thread[e][t] = "asleep" /\ UNCHANGED <<sentInit, writeError>>
    BY <1>0, <1>5 DEF Receive, ReceiveError, BeginWrite, kexVars
  <2> QED
    BY <1>0, <2>1
<1>6. CASE RequestInitialKeyChange(e)
  <2>1. thread[e][t] = "asleep" /\ writeError' = writeError /\ (sentInit' = sentInit \/ sentInit'[e] = TRUE)
    BY <1>0, <1>6 DEF RequestInitialKeyChange, SendKexInit
  <2> QED
    BY <1>0, <2>1
<1>7. ASSUME NEW u \in Threads, Write(e, u) PROVE sentInit'[e] /\ ~writeError'[e]
  <2>1. thread[e][t] = "asleep" /\ UNCHANGED <<sentInit, writeError>>
    BY <1>0, <1>7 DEF Write, After, kexVars
  <2> QED
    BY <1>0, <2>1
<1>8. ASSUME NEW u \in Threads, WriteFails(e, u) PROVE sentInit'[e] /\ ~writeError'[e]
  <2>1. thread[e][t] = "asleep" /\ writeError' = writeError /\ (sentInit' = sentInit \/ sentInit'[e] = TRUE)
    <3>1. thread[e][t] = "asleep"
      BY <1>0, <1>8 DEF WriteFails
    <3> QED
      BY <1>0, <1>8, <3>1 DEF WriteFails, SendKexInit
  <2> QED
    BY <1>0, <2>1
<1>9. ASSUME NEW u \in Threads, Sleep(e, u) PROVE sentInit'[e] /\ ~writeError'[e]
  <2>1. writeError' = writeError /\ ~writeError[e]
    BY <1>9 DEF Sleep
  <2>2. sentInit'[e] = TRUE
    BY <1>0, <1>9 DEF Sleep, SendKexInit
  <2> QED
    BY <2>1, <2>2
<1> QED
  BY <1>2, <1>3, <1>4, <1>5, <1>6, <1>7, <1>8, <1>9, StepCases DEF Offline, Asking, Writing

LEMMA ExchangesNext ==
  TypeOK /\ PhasesKept /\ OneKexInit /\ NoLostWakeup /\ [Next]_vars => OneKexInit' /\ NoLostWakeup'
<1> SUFFICES ASSUME TypeOK, PhasesKept, OneKexInit, NoLostWakeup, [Next]_vars PROVE OneKexInit' /\ NoLostWakeup'
  OBVIOUS
<1>1. ASSUME NEW e \in Ends, Step(e) PROVE OneKexInit'
  <2>1. ASSUME NEW x \in Ends, ~writeError'[x] PROVE inits'[x] = rkey'[x] + (IF sentInit'[x] THEN 1 ELSE 0)
    <3>1. CASE x = e
      BY <1>1, <2>1, <3>1, InitsStep
    <3>2. CASE x # e
      <4>1. inits'[x] = inits[x] /\ rkey'[x] = rkey[x] /\ sentInit'[x] = sentInit[x] /\ writeError'[x] = writeError[x]
        BY <1>1, <3>2, Frame
      <4> QED
        BY <2>1, <4>1 DEF OneKexInit
    <3> QED
      BY <3>1, <3>2
  <2> QED
    BY <2>1 DEF OneKexInit
<1>2. ASSUME NEW e \in Ends, Step(e) PROVE NoLostWakeup'
  <2>1. ASSUME NEW x \in Ends, NEW t \in Threads, thread'[x][t] = "asleep" PROVE sentInit'[x] /\ ~writeError'[x]
    <3>1. CASE x = e
      BY <1>2, <2>1, <3>1, WakeupStep
    <3>2. CASE x # e
      <4>1. thread'[x] = thread[x] /\ sentInit'[x] = sentInit[x] /\ writeError'[x] = writeError[x]
        BY <1>2, <3>2, Frame
      <4> QED
        BY <2>1, <4>1 DEF NoLostWakeup
    <3> QED
      BY <3>1, <3>2
  <2> QED
    BY <2>1 DEF NoLostWakeup
<1>3. CASE UNCHANGED vars
  BY <1>3 DEF vars, wireVars, kexVars, userVars, OneKexInit, NoLostWakeup
<1> QED
  BY <1>1, <1>2, <1>3, StepOrStutter

LEMMA ExchangesInit == Init => OneKexInit /\ NoLostWakeup
  BY DEF Init, OneKexInit, NoLostWakeup, Threads, Ends

-----------------------------------------------------------------------------
(* What follows from the order of the stream.                              *)

\* A set of numbers that is not empty has a least one.
LEMMA LeastNumber ==
  ASSUME NEW T \in SUBSET Nat, T # {}
  PROVE  \E x \in T : \A y \in T : x <= y
<1> DEFINE Below == {ss \in Nat \X Nat : ss[1] < ss[2]}
<1>1. IsWellFoundedOn(Below, Nat)
  BY NatLessThanWellFounded DEF OpToRel
<1>a. \A x, y \in Nat : <<y, x>> \in Below <=> y < x
  OBVIOUS
<1> HIDE DEF Below
<1>2. PICK x \in T : \A y \in T : ~(<<y, x>> \in Below)
  BY <1>1, WFMin
<1>3. ASSUME NEW y \in T PROVE x <= y
  <2>1. x \in Nat /\ y \in Nat /\ ~(y < x)
    BY <1>2, <1>a
  <2> QED
    BY <2>1
<1> QED
  BY <1>3

LEMMA InStepFollows == TypeOK /\ PhasesKept /\ StreamInOrder => ExchangeInStep
<1> SUFFICES ASSUME TypeOK, PhasesKept, StreamInOrder, NEW e \in Ends, Arrived(e)
             PROVE  LET k == Head(net[e]).kind IN
                      /\ loop[e] = "kex" => k = "kexMsg"
                      /\ loop[e] = "newKeys" => k = "newKeys"
                      /\ loop[e] \in {"top", "read", "push"} => k \notin {"kexMsg", "newKeys"}
  BY DEF ExchangeInStep
<1>1. StreamTo(e)
  BY DEF StreamInOrder
<1> QED
  BY <1>1, HeadExpected DEF DataKinds

LEMMA EncryptedFollows == TypeOK /\ StreamInOrder /\ DataInOrder => DataEncrypted
<1> SUFFICES ASSUME TypeOK, StreamInOrder, DataInOrder, NEW e \in Ends,
                    NEW p \in Range(net[e]) \cup Range(incoming[e].buf), p.kind \in DataKinds
             PROVE  p.key > 0
  BY DEF DataEncrypted
<1>1. net[e] \in Seq(OnWire) /\ incoming[e].buf \in Seq(Sealed)
  BY DEF StreamInOrder, StreamTo, DataInOrder, QueueTo
<1>2. \A S : \A q \in Seq(S) : Range(q) \subseteq S
  BY DEF Range
<1>3. p \in Sealed
  BY <1>1, <1>2 DEF OnWire
<1> QED
  BY <1>3 DEF Sealed

\* Before the first data that follows a message of an exchange there is a
\* newKeys: nothing else leads to a place where data may be.
LEMMA QuietFollows == TypeOK /\ StreamInOrder => QuietExchange
<1> SUFFICES ASSUME TypeOK, StreamInOrder, NEW e \in Ends, NEW i \in 1..Len(net[e]), net[e][i].kind \in DataKinds,
                    NEW j \in 1..(i - 1), net[e][j].kind \in {"kexInit", "kexMsg"}
             PROVE  \E k \in j..(i - 1) : net[e][k].kind = "newKeys"
  BY DEF QuietExchange
<1> DEFINE q == net[e]
           T == {m \in (j + 1)..i : q[m].kind \in DataKinds}
<1>0. q \in Seq(OnWire) /\ Links(q) /\ Len(q) \in Nat
  BY DEF StreamInOrder, StreamTo, Links
<1>1. i \in Nat /\ j \in Nat /\ j < i /\ i <= Len(q) /\ 1 <= j
  BY <1>0
<1> HIDE DEF q
<1>2. i \in T /\ T \in SUBSET Nat
  BY <1>1 DEF q
<1>3. PICK m \in T : \A y \in T : m <= y
  BY <1>2, LeastNumber
<1>4. m \in (j + 1)..i /\ q[m].kind \in DataKinds /\ m - 1 \in 1..(Len(q) - 1) /\ m - 1 \in j..(i - 1) /\ (m - 1) + 1 = m
      /\ m - 1 \in 1..Len(q)
  BY <1>0, <1>1
<1>5. m - 1 \notin T
  BY <1>3, <1>4
<1>6. q[m - 1].kind \notin DataKinds
  <2>1. CASE m - 1 = j
    BY <2>1 DEF q, DataKinds
  <2>2. CASE m - 1 # j
    <3>1. m - 1 \in (j + 1)..i
      BY <1>1, <1>4, <2>2
    <3> QED
      BY <1>5, <3>1
  <2> QED
    BY <2>1, <2>2
<1>7. Place(q[m]) = PlaceAfter(q[m - 1])
  BY <1>0, <1>4 DEF Links
<1>8. q[m - 1] \in OnWire
  BY <1>0, <1>4
<1>9. q[m - 1].n \in Nat /\ q[m - 1].n + 1 # 0
  <2>1. q[m - 1] \in Packets
    BY <1>8 DEF OnWire, Sealed
  <2>2. q[m - 1].n \in Nat
    BY <2>1 DEF Packets
  <2> QED
    BY <2>2
<1>10. q[m - 1].kind = "newKeys"
  <2>1. SUFFICES ASSUME q[m - 1].kind # "newKeys" PROVE FALSE
    OBVIOUS
  <2>2. Place(q[m])[2] = 0 /\ PlaceAfter(q[m - 1])[2] = q[m - 1].n + 1
    BY <1>4, <1>6, <2>1 DEF Place, PlaceAfter
  <2> QED
    BY <1>7, <1>9, <2>2
<1> QED
  BY <1>4, <1>10 DEF q

\* Key exchanges stay orderly, whoever asks for them and wherever the
\* connection breaks (handshake.go).
THEOREM ExchangesStayOrderly == Spec => []ExchangeOrderly
<1>1. Init => Orderly /\ OneKexInit /\ NoLostWakeup
  BY TypeInit, PhasesInit, StreamInit, DataInit, ExchangesInit DEF Orderly
<1>2. Orderly /\ OneKexInit /\ NoLostWakeup /\ [Next]_vars => (Orderly /\ OneKexInit /\ NoLostWakeup)'
  BY TypeStep, PhasesStep, StreamNext, DataNext, ExchangesNext DEF Orderly
<1>3. Orderly /\ OneKexInit /\ NoLostWakeup => ExchangeOrderly
  BY InStepFollows, EncryptedFollows, QuietFollows DEF Orderly, ExchangeOrderly
<1> QED
  BY <1>1, <1>2, <1>3, PTL DEF Spec

-----------------------------------------------------------------------------
(* The transport implements PacketConn.                                    *)

LEMMA OtherEnd == \A e \in Ends : Conn!Other(e) = Peer(e)
<1> SUFFICES ASSUME NEW e \in Ends PROVE Conn!Other(e) = Peer(e)
  OBVIOUS
<1>1. Peer(e) \in Ends /\ Peer(e) # e /\ \A f \in Ends : f # e => f = Peer(e)
  BY PeerFacts
<1> QED
  BY <1>1 DEF Conn!Other

LEMMA ConnStep ==
  ASSUME TypeOK, TypeOK', DataInOrder, NEW e \in Ends, Step(e)
  PROVE  Conn!WritePacket(e) \/ Conn!ReadPacket(e) \/ UNCHANGED <<taken, got>>
<1>0. taken \in [Ends -> Nat] /\ got \in [Ends -> Seq(Nat)] /\ QueueTo(e) /\ Conn!Other(e) = Peer(e)
  BY OtherEnd DEF TypeOK, TypeUser, DataInOrder
<1>1. CASE Writing(e)
  <2>1. taken' = [taken EXCEPT ![e] = @ + 1] /\ got' = got
    BY <1>1 DEF Writing, Write
  <2> QED
    BY <2>1 DEF Conn!WritePacket
<1>2. CASE Receive(e)
  <2>1. UNCHANGED taken /\ \E n : got' \in {got, [got EXCEPT ![e] = Append(@, n)]}
    BY <1>2 DEF Receive
  <2>2. got'[e] # got[e] => Len(got[e]) < taken[Peer(e)] /\ got'[e] = Append(got[e], Len(got[e]) + 1)
    BY <1>0, <1>2, QueueReceive
  <2>3. CASE got'[e] = got[e]
    <3>1. got' = got
      BY <1>0, <2>1, <2>3
    <3> QED
      BY <2>1, <3>1
  <2>4. CASE got'[e] # got[e]
    <3>1. got' = [got EXCEPT ![e] = Append(@, Len(@) + 1)]
      BY <1>0, <2>1, <2>2, <2>4
    <3> QED
      BY <1>0, <2>1, <2>2, <2>4, <3>1 DEF Conn!ReadPacket
  <2> QED
    BY <2>3, <2>4
<1>3. CASE ~Writing(e) /\ ~Receive(e)
  <2>1. UNCHANGED <<taken, got>>
    BY <1>3, StepCases DEF Offline, ReadError, Push, KexFails, ReceiveError, BeginWrite, Close, Asking, ReadOnePacket,
       RequestInitialKeyChange, Sleep, WriteFails, ReadOther, NewKeys, EnterKeyExchange, KexMessage, userVars
  <2> QED
    BY <2>1
<1> QED
  BY <1>1, <1>2, <1>3

\* What packetConn promises (transport.go): whatever keys are exchanged in
\* between, each reader is given the packets of the other end in the order in
\* which they were written, none twice and none left out.
THEOREM TransportIsPacketConn == Spec => ConnSpec
<1>1. Init => Conn!Init
  BY DEF Init, Conn!Init
<1>2. Orderly /\ Orderly' /\ [Next]_vars => [Conn!Next]_<<taken, got>>
  <2> SUFFICES ASSUME Orderly, Orderly', [Next]_vars PROVE [Conn!Next]_<<taken, got>>
    OBVIOUS
  <2>1. ASSUME NEW e \in Ends, Step(e) PROVE [Conn!Next]_<<taken, got>>
    BY <2>1, ConnStep DEF Orderly, Conn!Next
  <2>2. CASE UNCHANGED vars
    BY <2>2 DEF vars, userVars
  <2> QED
    BY <2>1, <2>2, StepOrStutter
<1> QED
  BY <1>1, <1>2, AlwaysInOrder, PTL DEF Spec, ConnSpec, Conn!Spec, Conn!vars
=============================================================================
