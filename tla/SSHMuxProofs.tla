---------------------------- MODULE SSHMuxProofs ----------------------------
(***************************************************************************)
(* Proofs about SSHMux: for every window, packet size, queue and scenario, *)
(* two ends of this code understand each other, and the windows of a       *)
(* channel agree.                                                          *)
(*                                                                         *)
(* Every action is one of the changes of the view that SSHMuxLemmas shows  *)
(* to keep the invariant; the theorems are at the end.                     *)
(***************************************************************************)
EXTENDS SSHMuxLemmas

-----------------------------------------------------------------------------
(* The view of a step *)

LEMMA NowFields ==
  /\ Now.chan = chan /\ Now.list = list /\ Now.fresh = fresh /\ Now.open = connOpen
  /\ \A e \in Ends : Now.in[e] = Coming(e) /\ Now.runs[e] = Running(e)
BY DEF Now

LEMMA ComingIs ==
  ASSUME ShapeOK, NEW e \in Ends
  PROVE  /\ Coming(e) \in Seq(PacketType)
         /\ held[e] = NoPacket => Coming(e) = net[e]
         /\ held[e] # NoPacket => Coming(e) # <<>> /\ Head(Coming(e)) = held[e] /\ Tail(Coming(e)) = net[e]
         /\ \A p \in PacketType : IF held[e] = NoPacket THEN Append(Coming(e), p) = Append(net[e], p)
                                  ELSE Append(Coming(e), p) = <<held[e]>> \o Append(net[e], p)
<1> DEFINE w == net[e] h == held[e]
<1>1. w \in Seq(PacketType) /\ (h = NoPacket \/ h \in PacketType)
  BY DEF ShapeOK
<1>2. Coming(e) = IF h = NoPacket THEN w ELSE <<h>> \o w
  BY DEF Coming
<1> HIDE DEF w, h
<1>3. CASE h = NoPacket
  BY <1>1, <1>2, <1>3 DEF w, h
<1>4. CASE h # NoPacket
  <2>1. h \in PacketType /\ Coming(e) = <<h>> \o w
    BY <1>1, <1>2, <1>4
  <2>2. <<h>> \o w \in Seq(PacketType) /\ <<h>> \o w # <<>> /\ Head(<<h>> \o w) = h /\ Tail(<<h>> \o w) = w
    BY <1>1, <2>1
  <2>3. ASSUME NEW p \in PacketType PROVE Append(<<h>> \o w, p) = <<h>> \o Append(w, p)
    BY <1>1, <2>1
  <2> QED BY <1>4, <2>1, <2>2, <2>3 DEF w, h
<1> QED BY <1>3, <1>4

\* A packet is added to the network.
LEMMA ComingSent ==
  ASSUME ShapeOK, NEW e \in Ends, NEW p \in PacketType, held' = held, net' = [net EXCEPT ![Peer(e)] = Append(@, p)]
  PROVE  /\ Coming(e)' = Coming(e) /\ Coming(Peer(e))' = Append(Coming(Peer(e)), p)
         /\ net' \in [Ends -> Seq(PacketType)]
<1> DEFINE f == Peer(e)
<1>0. f \in Ends /\ f # e
  BY PeerFacts
<1>1. net \in [Ends -> Seq(PacketType)]
  BY DEF ShapeOK
<1>a. net[f] \in Seq(PacketType)
  BY <1>0, <1>1
<1>b. Append(net[f], p) \in Seq(PacketType)
  <2> DEFINE w == net[f]
  <2>1. w \in Seq(PacketType)
    BY <1>a
  <2> HIDE DEF w
  <2>2. Append(w, p) \in Seq(PacketType)
    BY <2>1
  <2> QED BY <2>2 DEF w
<1>2. net'[e] = net[e] /\ net'[f] = Append(net[f], p) /\ net' \in [Ends -> Seq(PacketType)]
  BY <1>0, <1>1, <1>b
<1>3. Coming(e)' = Coming(e)
  BY <1>2 DEF Coming
<1>4. Coming(f)' = IF held[f] = NoPacket THEN Append(net[f], p) ELSE <<held[f]>> \o Append(net[f], p)
  BY <1>2 DEF Coming
<1>5. Coming(f)' = Append(Coming(f), p)
  BY <1>0, <1>4, ComingIs
<1> QED BY <1>2, <1>3, <1>5

LEMMA ComingSame ==
  ASSUME NEW e \in Ends, net' = net, held' = held
  PROVE  Coming(e)' = Coming(e)
BY DEF Coming

\* The loop has dealt with the packet it held.
LEMMA ComingTaken ==
  ASSUME ShapeOK, NEW e \in Ends, held[e] # NoPacket, held' = [held EXCEPT ![e] = NoPacket], net' = net
  PROVE  /\ Coming(e) # <<>> /\ Head(Coming(e)) = held[e] /\ Coming(e)' = Tail(Coming(e)) /\ Coming(Peer(e))' = Coming(Peer(e))
<1>0. Peer(e) \in Ends /\ Peer(e) # e
  BY PeerFacts
<1>1. held'[e] = NoPacket /\ held'[Peer(e)] = held[Peer(e)]
  BY <1>0 DEF ShapeOK
<1>2. Coming(e)' = net[e] /\ Coming(Peer(e))' = Coming(Peer(e))
  BY <1>1 DEF Coming
<1> QED BY <1>2, ComingIs

LEMMA NowAfter ==
  ASSUME NEW e \in Ends, NEW c, NEW b, NEW s, NEW u, NEW q, chan' = [chan EXCEPT ![e] = [@ EXCEPT ![c] = b]], list' = list,
         fresh' = [fresh EXCEPT ![e] = q], connOpen' = connOpen, Coming(e)' = s, Coming(Peer(e))' = u, \A x \in Ends : Running(x)' = Running(x)
  PROVE  Now' = After(Now, e, c, b, s, u, q)
<1>1. Now' = [in |-> [x \in Ends |-> Coming(x)'], chan |-> chan', list |-> list', fresh |-> fresh', runs |-> [x \in Ends |-> Running(x)'], open |-> connOpen']
  BY DEF Now
<1>2. [x \in Ends |-> Coming(x)'] = [x \in Ends |-> IF x = e THEN s ELSE u]
  BY PeerFacts
<1>3. [x \in Ends |-> Running(x)'] = [x \in Ends |-> Running(x)]
  OBVIOUS
<1> QED BY <1>1, <1>2, <1>3 DEF Now, After

\* Nothing comes on the connection itself that did not before.
Fewer(s, w) ==
  /\ GTells(w) <= GTells(s) /\ Amount(w, "global", 0) <= Amount(s, "global", 0)
  /\ \A i \in DOMAIN w : w[i].kind = "global" => \E j \in DOMAIN s : s[j] = w[i]

LEMMA FewerFacts ==
  ASSUME NEW s \in Seq(PacketType)
  PROVE  /\ Fewer(s, s) /\ Fewer(s, <<>>) /\ (s # <<>> => Fewer(s, Tail(s)) /\ Fewer(s, <<Head(s)>>))
         /\ \A p \in PacketType : p.kind \notin Globals => Fewer(s, Append(s, p))
<1> DEFINE G(w) == GTells(w) A(w) == Amount(w, "global", 0)
<1>0. \A w \in Seq(PacketType) : G(w) \in Nat /\ A(w) \in Nat
  BY AmountNat
<1>1. Fewer(s, s)
  <2>1. G(s) <= G(s) /\ A(s) <= A(s)
    <3>1. G(s) \in Nat /\ A(s) \in Nat
      BY <1>0
    <3> HIDE DEF G, A
    <3> QED BY <3>1
  <2> QED BY <2>1 DEF Fewer
<1>2. G(<<>>) = 0 /\ A(<<>>) = 0
  <2>1. [i \in DOMAIN <<>> |-> GTell(<<>>[i])] = <<>> /\ [i \in DOMAIN <<>> |-> Weight(<<>>[i], "global", 0)] = <<>>
    OBVIOUS
  <2> QED BY <2>1, TotalEmpty DEF GTells, Amount
<1>3. Fewer(s, <<>>)
  <2>1. 0 <= G(s) /\ 0 <= A(s)
    <3>1. G(s) \in Nat /\ A(s) \in Nat
      BY <1>0
    <3> HIDE DEF G, A
    <3> QED BY <3>1
  <2> QED BY <1>2, <2>1 DEF Fewer
<1>4. ASSUME s # <<>> PROVE Fewer(s, Tail(s)) /\ Fewer(s, <<Head(s)>>)
  <2> DEFINE p == Head(s) v == Tail(s)
  <2>1. p \in PacketType /\ v \in Seq(PacketType) /\ p = s[1] /\ 1 \in DOMAIN s
    BY <1>4
  <2>2. \A i \in DOMAIN v : i + 1 \in DOMAIN s /\ s[i + 1] = v[i]
    BY <1>4
  <2>3. DOMAIN <<p>> = {1} /\ <<p>>[1] = p
    OBVIOUS
  <2> HIDE DEF p, v
  <2>4. GTell(p) \in Nat /\ G(s) = GTell(p) + G(v) /\ G(<<p>>) = GTell(p)
    BY <1>4, <2>1, GTellsMoves DEF p, v
  <2>5. Weight(p, "global", 0) \in Nat /\ A(s) = Weight(p, "global", 0) + A(v) /\ A(<<p>>) = Weight(p, "global", 0)
    <3>1. AmountFacts(s, p, "global", 0)
      BY <2>1, AmountMoves
    <3> QED BY <1>4, <3>1 DEF AmountFacts, p, v
  <2>6. G(v) \in Nat /\ A(v) \in Nat
    BY <1>0, <2>1
  <2>7. G(v) <= G(s) /\ A(v) <= A(s) /\ G(<<p>>) <= G(s) /\ A(<<p>>) <= A(s)
    <3> DEFINE a == GTell(p) b == Weight(p, "global", 0)
    <3> HIDE DEF G, A, a, b
    <3>1. a \in Nat /\ G(s) = a + G(v) /\ G(<<p>>) = a /\ b \in Nat /\ A(s) = b + A(v) /\ A(<<p>>) = b
      BY <2>4, <2>5 DEF a, b
    <3> QED BY <2>6, <3>1
  <2>8. Fewer(s, v)
    BY <2>2, <2>7 DEF Fewer
  <2>9. Fewer(s, <<p>>)
    BY <2>1, <2>3, <2>7 DEF Fewer
  <2> QED BY <2>8, <2>9 DEF p, v
<1>5. ASSUME NEW p \in PacketType, p.kind \notin Globals PROVE Fewer(s, Append(s, p))
  <2>1. GTell(p) = 0 /\ Weight(p, "global", 0) = 0
    BY <1>5 DEF GTell, Weight, Globals
  <2>2. G(Append(s, p)) = G(s) + GTell(p)
    BY GTellsMoves
  <2>3. A(Append(s, p)) = A(s) + Weight(p, "global", 0)
    BY AmountSteps
  <2>4. G(s) \in Nat /\ A(s) \in Nat
    BY <1>0
  <2>5. \A i \in DOMAIN Append(s, p) : Append(s, p)[i] = p \/ (i \in DOMAIN s /\ Append(s, p)[i] = s[i])
    OBVIOUS
  <2>6. G(Append(s, p)) <= G(s) /\ A(Append(s, p)) <= A(s)
    <3> HIDE DEF G, A
    <3> QED BY <2>1, <2>2, <2>3, <2>4
  <2>7. p.kind # "global"
    BY <1>5 DEF Globals
  <2> QED BY <2>5, <2>6, <2>7 DEF Fewer
<1> QED BY <1>1, <1>3, <1>4, <1>5

LEMMA GlobalStays ==
  ASSUME ShapeOK, ShapeOK', \A x \in Ends : GlobalOK(x), \A x \in Ends : Fewer(Coming(x), Coming(x)'), globalReqs' = globalReqs, globalResp' = globalResp,
         asking' = asking, \A x \in Ends : loop'[x] # "done" => loop[x] # "done"
  PROVE  \A x \in Ends : GlobalOK(x)'
<1> SUFFICES ASSUME NEW x \in Ends PROVE GlobalOK(x)'
  OBVIOUS
<1> DEFINE y == Peer(x)
<1>0. y \in Ends
  BY PeerFacts
<1>1. GlobalOK(x)
  OBVIOUS
<1>2. ASSUME NEW i \in DOMAIN Coming(x)', Coming(x)'[i].kind = "global" PROVE Coming(x)'[i].n \in {0, 1} /\ Coming(x)'[i].from = 0
  <2>1. PICK j \in DOMAIN Coming(x) : Coming(x)[j] = Coming(x)'[i]
    BY <1>2 DEF Fewer
  <2> QED BY <1>1, <1>2, <2>1 DEF GlobalOK
<1>3. Len(globalResp'[x]) <= 1 /\ (globalResp'[x] # <<>> => asking'[x])
  BY <1>1 DEF GlobalOK
<1> DEFINE A == GTells(Coming(x)) B == Amount(Coming(y), "global", 0) C == Total(globalReqs[y]) D == Len(globalResp[x])
           a == GTells(Coming(x)') b == Amount(Coming(y)', "global", 0)
<1>4. A \in Nat /\ B \in Nat
  BY <1>0, ComingIs, AmountNat
<1>5. a \in Nat /\ b \in Nat
  <2>1. Coming(x)' \in Seq(PacketType) /\ Coming(y)' \in Seq(PacketType)
    <3>1. Coming(x)' = IF held'[x] = NoPacket THEN net'[x] ELSE <<held'[x]>> \o net'[x]
      BY DEF Coming
    <3>2. Coming(y)' = IF held'[y] = NoPacket THEN net'[y] ELSE <<held'[y]>> \o net'[y]
      BY DEF Coming
    <3>3. \A z \in Ends : net'[z] \in Seq(PacketType) /\ (held'[z] = NoPacket \/ held'[z] \in PacketType)
      BY DEF ShapeOK
    <3>4. \A w \in Seq(PacketType) : \A p \in PacketType : <<p>> \o w \in Seq(PacketType)
      OBVIOUS
    <3> QED BY <1>0, <3>1, <3>2, <3>3, <3>4
  <2> QED BY <2>1, AmountNat
<1>6. a <= A /\ b <= B
  BY <1>0 DEF Fewer
<1>7. C \in Nat /\ D \in Nat
  <2>1. globalReqs[y] \in Seq({0, 1}) /\ globalResp[x] \in Seq({"ack"})
    BY <1>0 DEF ShapeOK
  <2>2. \A w \in Seq({0, 1}) : w \in Seq(Nat)
    OBVIOUS
  <2>3. \A w \in Seq({"ack"}) : Len(w) \in Nat
    OBVIOUS
  <2> QED BY <2>1, <2>2, <2>3, TotalNat
<1>8. ASSUME loop'[x] # "done" PROVE a + b + C + D <= Asks(x)
  <2>1. A + B + C + D <= Asks(x)
    BY <1>1, <1>8 DEF GlobalOK
  <2>2. Asks(x) \in Nat
    BY DEF Asks
  <2> HIDE DEF A, B, C, D, a, b
  <2> QED BY <1>4, <1>5, <1>6, <1>7, <2>1, <2>2
<1>9. Asks(x)' = Asks(x)
  BY DEF Asks
<1> QED BY <1>2, <1>3, <1>8, <1>9 DEF GlobalOK

\* A goroutine of channel c of e takes a step: the channel becomes b, and g is sent unless there is none.
UserOK(e, c, b, g, q) ==
  LET a == chan[e][c] IN
  /\ c \in DOMAIN chan[e] /\ b \in ChannelType /\ Local(b) /\ Keeps(a, b) /\ b.closed = a.closed
  /\ g = NoPacket \/ (g \in PacketType /\ connOpen[Peer(e)] /\ May(a, b, c, g))
  /\ Leaves(Now, e, c, b, g, q) /\ Passes(BothOpen(Now), a, b, NoPacket, g) /\ Due(a, b, NoPacket, g)

LEMMA UserChannel ==
  ASSUME Inv, may' = may, connOpen' = connOpen, list' = list, loop' = loop, held' = held, err' = err,
         globalReqs' = globalReqs, globalResp' = globalResp, asking' = asking,
         NEW e \in Ends, NEW c, NEW b, NEW g, NEW q, chan' = [chan EXCEPT ![e] = [@ EXCEPT ![c] = b]], fresh' = [fresh EXCEPT ![e] = q],
         net' = IF g = NoPacket THEN net ELSE [net EXCEPT ![Peer(e)] = Append(@, g)], UserOK(e, c, b, g, q)
  PROVE  Inv'
<1> DEFINE f == Peer(e) u == IF g = NoPacket THEN Coming(f) ELSE Append(Coming(f), g)
<1>0. ShapeOK /\ Good(Now) /\ f \in Ends /\ \A x \in Ends : x = e \/ x = f
  BY PeerFacts DEF Inv
<1>1. g = NoPacket \/ (g \in PacketType /\ g # NoPacket /\ connOpen[f] /\ May(chan[e][c], b, c, g))
  BY DEF UserOK, May, Carries, NoPacket, Packet, PacketType, Kinds, Responses, Globals
<1>2. Coming(e)' = Coming(e) /\ Coming(f)' = u /\ net' \in [Ends -> Seq(PacketType)]
  <2>1. CASE g = NoPacket
    BY <1>0, <2>1, ComingSame DEF ShapeOK
  <2>2. CASE g # NoPacket
    <3>1. g \in PacketType /\ net' = [net EXCEPT ![f] = Append(@, g)]
      BY <1>1, <2>2
    <3> QED BY <1>0, <2>2, <3>1, ComingSent
  <2> QED BY <2>1, <2>2
<1>3. \A x \in Ends : Running(x)' = Running(x)
  BY DEF Running
<1>4. Now' = After(Now, e, c, b, Coming(e), u, q)
  BY <1>2, <1>3, NowAfter
<1>5. ChannelStep(Now, e, c, b, NoPacket, g, Coming(e), u, q)
  <2>1. Now.chan = chan /\ Now.open = connOpen /\ Now.in[e] = Coming(e) /\ Now.in[f] = Coming(f)
    BY <1>0, NowFields
  <2>2. Takes(Now, e, c, NoPacket, Coming(e))
    BY <2>1 DEF Takes
  <2>3. Emits(Now, e, c, b, g, u)
    BY <1>1, <2>1 DEF Emits
  <2> QED BY <2>1, <2>2, <2>3 DEF UserOK, ChannelStep
<1>6. Good(Now')
  BY <1>0, <1>4, <1>5, ChannelStepKeeps
<1>7. ShapeOK'
  BY <1>0, <1>2 DEF ShapeOK
<1>8. \A x \in Ends : Fewer(Coming(x), Coming(x)')
  <2>1. Coming(e) \in Seq(PacketType) /\ Coming(f) \in Seq(PacketType)
    BY <1>0, ComingIs
  <2>2. g # NoPacket => g \in PacketType /\ g.kind \notin Globals
    BY <1>1 DEF May, Carries
  <2>3. Fewer(Coming(e), Coming(e)) /\ Fewer(Coming(f), u)
    BY <2>1, <2>2, FewerFacts
  <2> QED BY <1>0, <1>2, <2>3
<1>9. \A x \in Ends : GlobalOK(x)'
  <2>1. \A x \in Ends : GlobalOK(x)
    BY DEF Inv
  <2> QED BY <1>0, <1>7, <1>8, <2>1, GlobalStays
<1>10. \A x \in Ends : LoopOK(x)'
  BY <1>3 DEF Inv, LoopOK
<1>11. may' \in Scenarios
  BY DEF Inv
<1> QED BY <1>6, <1>7, <1>9, <1>10, <1>11 DEF Inv

\* The loop of e gives channel c the packet that it held.
GivenOK(e, c, b) ==
  LET a == chan[e][c] t == held[e] IN
  /\ c \in DOMAIN chan[e] /\ b \in ChannelType /\ Local(b) /\ Keeps(a, b) /\ b.closed = a.closed
  /\ Carries(t) /\ t.kind \notin Responses /\ chan[Peer(e)][t.from].peer = c
  /\ (a.user = "waiting" => b.user = "waiting") /\ Passes(BothOpen(Now), a, b, t, NoPacket) /\ Due(a, b, t, NoPacket)

\* What follows from the view for the rest of the state, when the loop has dealt with a packet.
LEMMA LoopTook ==
  ASSUME Inv, may' = may, connOpen' = connOpen, err' = err, NEW e \in Ends, loop[e] = "push", held[e] # NoPacket,
         loop' = [loop EXCEPT ![e] = "run"], held' = [held EXCEPT ![e] = NoPacket], net' \in [Ends -> Seq(PacketType)]
  PROVE  /\ globalReqs' \in [Ends -> Seq({0, 1})] /\ globalResp' \in [Ends -> Seq({"ack"})] /\ asking' \in [Ends -> BOOLEAN] => ShapeOK'
         /\ \A x \in Ends : LoopOK(x)' /\ Running(x)' = Running(x) /\ (loop'[x] # "done" => loop[x] # "done")
<1>0. ShapeOK /\ \A x \in Ends : LoopOK(x)
  BY DEF Inv
<1>1. loop' \in [Ends -> {"run", "push", "failed", "dropped", "done"}] /\ held' \in [Ends -> PacketType \cup {NoPacket}] /\ err' \in [Ends -> {"nil", "read"}]
  BY <1>0 DEF ShapeOK
<1>2. /\ loop'[e] = "run" /\ held'[e] = NoPacket /\ \A x \in Ends : x # e => loop'[x] = loop[x] /\ held'[x] = held[x]
  BY <1>0 DEF ShapeOK
<1>3. \A x \in Ends : Running(x)' = Running(x)
  BY <1>2 DEF Running
<1>4. \A x \in Ends : LoopOK(x)'
  BY <1>0, <1>2, <1>3 DEF LoopOK
<1>5. \A x \in Ends : loop'[x] # "done" => loop[x] # "done"
  BY <1>2
<1> QED BY <1>1, <1>3, <1>4, <1>5 DEF ShapeOK

LEMMA LoopChannel ==
  ASSUME Inv, may' = may, connOpen' = connOpen, list' = list, net' = net, err' = err, fresh' = fresh,
         globalReqs' = globalReqs, globalResp' = globalResp, asking' = asking, NEW e \in Ends, NEW c, NEW b,
         loop[e] = "push", held[e] # NoPacket, loop' = [loop EXCEPT ![e] = "run"], held' = [held EXCEPT ![e] = NoPacket],
         chan' = [chan EXCEPT ![e] = [@ EXCEPT ![c] = b]], GivenOK(e, c, b)
  PROVE  Inv'
<1> DEFINE f == Peer(e) t == held[e] s == Tail(Coming(e))
<1>0. ShapeOK /\ Good(Now) /\ f \in Ends /\ \A x \in Ends : x = e \/ x = f
  BY PeerFacts DEF Inv
<1>1. Coming(e) # <<>> /\ Head(Coming(e)) = t /\ Coming(e)' = s /\ Coming(f)' = Coming(f)
  BY <1>0, ComingTaken
<1>2. ShapeOK' /\ \A x \in Ends : LoopOK(x)' /\ Running(x)' = Running(x) /\ (loop'[x] # "done" => loop[x] # "done")
  <2>1. net' \in [Ends -> Seq(PacketType)] /\ globalReqs' \in [Ends -> Seq({0, 1})] /\ globalResp' \in [Ends -> Seq({"ack"})] /\ asking' \in [Ends -> BOOLEAN]
    BY <1>0 DEF ShapeOK
  <2> QED BY <2>1, LoopTook
<1>3. fresh' = [fresh EXCEPT ![e] = fresh[e]]
  <2>1. fresh \in [Ends -> Seq(Nat)]
    BY <1>0, NowFields, ViewParts DEF Good
  <2> QED BY <2>1
<1>4. Now' = After(Now, e, c, b, s, Coming(f), fresh[e])
  BY <1>1, <1>2, <1>3, NowAfter
<1>5. ChannelStep(Now, e, c, b, t, NoPacket, s, Coming(f), fresh[e])
  <2>1. Now.chan = chan /\ Now.open = connOpen /\ Now.in[e] = Coming(e) /\ Now.in[f] = Coming(f) /\ Now.fresh = fresh
    BY <1>0, NowFields
  <2>2. Takes(Now, e, c, t, s)
    BY <1>1, <2>1 DEF Takes, GivenOK
  <2>3. Emits(Now, e, c, b, NoPacket, Coming(f))
    BY <2>1 DEF Emits
  <2>4. Leaves(Now, e, c, b, NoPacket, fresh[e])
    BY <2>1 DEF Leaves, GivenOK
  <2> QED BY <2>1, <2>2, <2>3, <2>4 DEF GivenOK, ChannelStep
<1>6. Good(Now')
  BY <1>0, <1>4, <1>5, ChannelStepKeeps
<1>7. \A x \in Ends : Fewer(Coming(x), Coming(x)')
  <2>1. Coming(e) \in Seq(PacketType) /\ Coming(f) \in Seq(PacketType)
    BY <1>0, ComingIs
  <2>2. Fewer(Coming(e), s) /\ Fewer(Coming(f), Coming(f))
    BY <1>1, <2>1, FewerFacts
  <2> QED BY <1>0, <1>1, <2>2
<1>8. \A x \in Ends : GlobalOK(x)'
  <2>1. \A x \in Ends : GlobalOK(x)
    BY DEF Inv
  <2> QED BY <1>0, <1>2, <1>7, <2>1, GlobalStays
<1>9. may' \in Scenarios
  BY DEF Inv
<1> QED BY <1>2, <1>6, <1>8, <1>9 DEF Inv

-----------------------------------------------------------------------------
(* What the goroutines of a channel do to it *)

\* Channel a becomes b, having taken t and sent g.
Steps(a, b, both, t, g) ==
  b \in ChannelType /\ Local(b) /\ Keeps(a, b) /\ b.closed = a.closed /\ Passes(both, a, b, t, g) /\ Due(a, b, t, g)

LEMMA NothingWorth ==
  /\ \A k \in Counted : Worth(NoPacket, k) = 0
  /\ Worth(NoPacket, "data") = 0 /\ Worth(NoPacket, "adjust") = 0 /\ Worth(NoPacket, "request") = 0 /\ Answering(NoPacket) = 0
BY DEF Worth, Answering, NoPacket, Packet, Counted, Responses

LEMMA OpenedSteps ==
  ASSUME NEW a \in ChannelType, Local(a), a.user = "opening", a.msg # <<>> \/ a.closed, NEW b,
         b = IF a.msg = <<>> THEN [a EXCEPT !.user = "none"]
             ELSE [a EXCEPT !.msg = Tail(@), !.user = IF Head(a.msg) = "confirm" THEN "open" ELSE "none"],
         NEW both \in BOOLEAN
  PROVE  Steps(a, b, both, NoPacket, NoPacket)
<1> DEFINE m == IF a.msg = <<>> THEN <<>> ELSE Tail(a.msg)
           u == IF a.msg = <<>> THEN "none" ELSE IF Head(a.msg) = "confirm" THEN "open" ELSE "none"
<1>1. a.msg \in Seq({"ack"} \cup Responses)
  BY DEF ChannelType
<1>2. m = <<>> /\ m \in Seq({"ack"} \cup Responses) /\ u \in {"open", "none"} /\ (a.msg # <<>> => Head(a.msg) = a.msg[1]) /\ Len(a.msg) \in Nat
  <2>1. Len(a.msg) <= 1
    BY DEF Local
  <2> QED BY <1>1, <2>1
<1>3. b = [a EXCEPT !.msg = m, !.user = u]
  BY DEF ChannelType
<1> HIDE DEF m
<1>4. u = "open" => a.msg # <<>> /\ a.msg[1] = "confirm"
  BY <1>2
<1> HIDE DEF u
<1>5. b \in ChannelType
  BY ZenonT(60), <1>2, <1>3 DEF ChannelType
<1>6. b.dir = a.dir /\ b.user = u /\ b.localId = a.localId /\ b.remoteId = a.remoteId /\ b.decided = a.decided /\ b.sentClose = a.sentClose
      /\ b.win = a.win /\ b.winClosed = a.winClosed /\ b.myWindow = a.myWindow /\ b.pending = a.pending /\ b.msg = <<>> /\ b.reqs = a.reqs
      /\ b.closed = a.closed /\ b.todo = a.todo /\ b.reserved = a.reserved /\ b.taken = a.taken /\ b.owed = a.owed /\ b.waits = a.waits
      /\ b.peer = a.peer /\ b.lost = a.lost
  BY ZenonT(60), <1>2, <1>3 DEF ChannelType
<1>7. a.dir = "out" /\ ~a.waits
  BY DEF Local, ChannelType
<1>8. u = "open" => a.peer # 0
  BY <1>4, <1>7 DEF Local
<1>9. a.msg # <<>> => a.decided
  BY <1>7 DEF Local
<1>10. Keeps(a, b)
  BY <1>2, <1>6, <1>9 DEF Keeps
<1>11. Local(b)
  <2>1. a.todo = 0 /\ a.reserved = 0 /\ a.taken = 0 /\ a.owed = 0
    BY DEF Local
  <2>2. Len(<<>>) <= 1
    OBVIOUS
  <2> QED BY <1>2, <1>6, <1>7, <1>8, <2>1, <2>2 DEF Local
<1>12. Passes(both, a, b, NoPacket, NoPacket)
  BY <1>6, NothingWorth, ChannelFields DEF Passes
<1>13. Due(a, b, NoPacket, NoPacket)
  <2>1. Answers(b) = Answers(a)
    BY <1>2, <1>6 DEF Answers
  <2>2. Waits(a) = 1 /\ Waits(b) = 0 /\ Len(b.msg) = 0
    BY <1>2, <1>6, <1>7 DEF Waits
  <2>3. ~a.closed => Len(a.msg) >= 1
    BY <1>1
  <2>4. Answers(a) \in Nat
    BY ChannelFields
  <2> QED BY <2>1, <2>2, <2>3, <2>4, <1>2, NothingWorth DEF Due
<1> QED BY <1>5, <1>6, <1>10, <1>11, <1>12, <1>13 DEF Steps

LEMMA WriteSteps ==
  ASSUME NEW a \in ChannelType, Local(a), a.user = "open", a.todo = 0, NEW n \in Nat, NEW code \in Nat, NEW b,
         b = [a EXCEPT !.todo = n, !.code = code], NEW both \in BOOLEAN
  PROVE  Steps(a, b, both, NoPacket, NoPacket)
<1>1. b \in ChannelType
  BY ZenonT(60) DEF ChannelType
<1>2. b.dir = a.dir /\ b.user = a.user /\ b.localId = a.localId /\ b.remoteId = a.remoteId /\ b.decided = a.decided /\ b.sentClose = a.sentClose
      /\ b.win = a.win /\ b.winClosed = a.winClosed /\ b.myWindow = a.myWindow /\ b.pending = a.pending /\ b.msg = a.msg /\ b.reqs = a.reqs
      /\ b.closed = a.closed /\ b.todo = n /\ b.reserved = a.reserved /\ b.taken = a.taken /\ b.owed = a.owed /\ b.waits = a.waits
      /\ b.peer = a.peer /\ b.lost = a.lost
  BY DEF ChannelType
<1>3. a.reserved = 0
  <2>1. a.reserved \in Nat
    BY ChannelFields
  <2>2. a.reserved <= 0
    BY DEF Local
  <2> QED BY <2>1, <2>2
<1>4. Keeps(a, b)
  BY <1>2 DEF Keeps
<1>5. Local(b)
  BY <1>2, <1>3 DEF Local
<1>6. Passes(both, a, b, NoPacket, NoPacket)
  BY ZenonT(60), SMTT(40), <1>2, NothingWorth, ChannelFields DEF Passes
<1>7. Due(a, b, NoPacket, NoPacket)
  <2>1. Answers(b) = Answers(a) /\ Waits(b) = Waits(a) /\ Answers(a) \in Nat /\ Waits(a) \in Nat /\ Len(a.msg) \in Nat
    BY <1>2, ChannelFields DEF Answers, Waits
  <2> QED BY <1>2, <2>1, NothingWorth DEF Due
<1> QED BY <1>1, <1>2, <1>4, <1>5, <1>6, <1>7 DEF Steps

LEMMA ReserveType ==
  ASSUME NEW a \in ChannelType, NEW i \in Nat, NEW j \in Nat, NEW k \in Nat, NEW b, b = [a EXCEPT !.win = i, !.todo = j, !.reserved = k]
  PROVE  b \in ChannelType
BY DEF ChannelType

Reserves(a, space, w, v, s, b) ==
  /\ space = Min2(Min2(MaxPacket, a.todo), a.win) /\ w = a.win - space
  /\ v = (IF a.winClosed THEN 0 ELSE a.todo) /\ s = (IF a.winClosed THEN 0 ELSE space)
  /\ b = [a EXCEPT !.win = w, !.todo = v, !.reserved = s]
LEMMA ReserveSteps ==
  ASSUME NEW a \in ChannelType, Local(a), a.todo > 0, a.reserved = 0, NEW space, NEW w, NEW v, NEW s, NEW b, Reserves(a, space, w, v, s, b),
         NEW both \in BOOLEAN
  PROVE  Steps(a, b, both, NoPacket, NoPacket)
<1>0. a.win \in Nat /\ a.todo \in Nat /\ a.winClosed \in BOOLEAN /\ MaxPacket \in Nat
  BY WindowAssumption DEF ChannelType
<1>1. space \in Nat /\ space <= MaxPacket /\ space <= a.todo /\ space <= a.win
  BY <1>0 DEF Reserves, Min2
<1>2. w \in Nat /\ v \in Nat /\ s \in Nat /\ s <= v /\ s <= MaxPacket /\ w + s <= a.win /\ (~a.winClosed => w + s = a.win)
  BY <1>0, <1>1 DEF Reserves
<1>3. b = [a EXCEPT !.win = w, !.todo = v, !.reserved = s]
  BY DEF Reserves
<1>4. b \in ChannelType
  BY ZenonT(60), <1>2, <1>3, ReserveType
<1>5. b.dir = a.dir /\ b.user = a.user /\ b.localId = a.localId /\ b.remoteId = a.remoteId /\ b.decided = a.decided /\ b.sentClose = a.sentClose
      /\ b.win = w /\ b.winClosed = a.winClosed /\ b.myWindow = a.myWindow /\ b.pending = a.pending /\ b.msg = a.msg /\ b.reqs = a.reqs
      /\ b.closed = a.closed /\ b.todo = v /\ b.reserved = s /\ b.taken = a.taken /\ b.owed = a.owed /\ b.waits = a.waits
      /\ b.peer = a.peer /\ b.lost = a.lost
  BY <1>3 DEF ChannelType
<1>6. a.user = "open" /\ (a.peer = 0 => w = 0)
  <2>1. a.user = "open" /\ (a.peer = 0 => a.win = 0)
    BY <1>0 DEF Local
  <2>2. w <= a.win
    BY <1>0, <1>2
  <2> QED BY <1>2, <2>1, <2>2
<1>7. Keeps(a, b)
  BY <1>5 DEF Keeps
<1>8. Local(b)
  BY <1>2, <1>5, <1>6 DEF Local
<1>9. Passes(both, a, b, NoPacket, NoPacket)
  BY SMTT(40), <1>0, <1>2, <1>5, NothingWorth, ChannelFields DEF Passes
<1>10. Due(a, b, NoPacket, NoPacket)
  <2>1. Answers(b) = Answers(a) /\ Waits(b) = Waits(a) /\ Answers(a) \in Nat /\ Waits(a) \in Nat /\ Len(a.msg) \in Nat
    BY <1>5, ChannelFields DEF Answers, Waits
  <2> QED BY <1>5, <2>1, NothingWorth DEF Due
<1> QED BY <1>4, <1>5, <1>7, <1>8, <1>9, <1>10 DEF Steps

LEMMA ReadType ==
  ASSUME NEW a \in ChannelType, NEW f \in [{0, 1} -> Nat], NEW i \in Nat, NEW j \in Nat, NEW b, b = [a EXCEPT !.pending = f, !.taken = i, !.got = j]
  PROVE  b \in ChannelType
BY DEF ChannelType

LEMMA ReadSteps ==
  ASSUME NEW a \in ChannelType, Local(a), a.user = "open", a.taken = 0, a.owed = 0, NEW x \in {0, 1}, NEW n \in 1..a.pending[x], NEW p, p = [a.pending EXCEPT ![x] = @ - n], NEW b,
         b = [a EXCEPT !.pending = p, !.taken = n, !.got = a.got + n], NEW both \in BOOLEAN
  PROVE  Steps(a, b, both, NoPacket, NoPacket)
<1> DEFINE p0 == a.pending[0] p1 == a.pending[1] q0 == p[0] q1 == p[1] W == a.myWindow L == a.lost
<1>0. a.pending \in [{0, 1} -> Nat] /\ a.got \in Nat /\ W \in Nat /\ L \in Nat /\ p0 \in Nat /\ p1 \in Nat /\ a.pending[x] \in Nat
  BY DEF ChannelType
<1>1. n \in Nat /\ n > 0 /\ n <= a.pending[x] /\ a.pending[x] - n \in Nat
  BY <1>0
<1>2. p \in [{0, 1} -> Nat] /\ (x = 0 => q0 = p0 - n /\ q1 = p1) /\ (x = 1 => q1 = p1 - n /\ q0 = p0)
  BY <1>0, <1>1
<1>3. q0 \in Nat /\ q1 \in Nat /\ q0 + q1 + n = p0 + p1
  <2>1. q0 \in Nat /\ q1 \in Nat
    BY <1>2
  <2> HIDE DEF q0, q1, p0, p1
  <2> QED BY <1>0, <1>1, <1>2, <2>1
<1>5. b \in ChannelType
  <2>2. a.got + n \in Nat
    BY <1>0, <1>1
  <2> QED BY ZenonT(60), <1>1, <1>2, <2>2, ReadType
<1>6. b.dir = a.dir /\ b.user = a.user /\ b.localId = a.localId /\ b.remoteId = a.remoteId /\ b.decided = a.decided /\ b.sentClose = a.sentClose
      /\ b.win = a.win /\ b.winClosed = a.winClosed /\ b.myWindow = a.myWindow /\ b.pending = p /\ b.msg = a.msg /\ b.reqs = a.reqs
      /\ b.closed = a.closed /\ b.todo = a.todo /\ b.reserved = a.reserved /\ b.taken = n /\ b.owed = a.owed /\ b.waits = a.waits
      /\ b.peer = a.peer /\ b.lost = a.lost
  BY DEF ChannelType
<1>7. W + 0 + p0 + p1 + L = WindowSize
  BY DEF Local
<1>8. W + n + q0 + q1 + L = WindowSize /\ W # WindowSize
  <2>1. WindowSize \in Nat
    BY WindowAssumption
  <2> HIDE DEF W, L, p0, p1, q0, q1
  <2> QED BY <1>0, <1>1, <1>3, <1>7, <2>1
<1>9. Keeps(a, b)
  BY <1>6 DEF Keeps
<1>10. Local(b)
  BY <1>6, <1>8 DEF Local
<1>11. Passes(both, a, b, NoPacket, NoPacket)
  <2>1. a.win \in Nat /\ a.reserved \in Nat /\ a.owed \in Nat
    BY ChannelFields
  <2>2. Worth(NoPacket, "data") = 0 /\ Worth(NoPacket, "adjust") = 0
    BY NothingWorth
  <2> QED BY <1>0, <1>6, <1>8, <2>1, <2>2 DEF Passes
<1>12. Due(a, b, NoPacket, NoPacket)
  <2>1. Answers(b) = Answers(a) /\ Waits(b) = Waits(a) /\ Answers(a) \in Nat /\ Waits(a) \in Nat /\ Len(a.msg) \in Nat
    BY <1>6, ChannelFields DEF Answers, Waits
  <2> QED BY <1>6, <2>1, NothingWorth DEF Due
<1> QED BY <1>5, <1>6, <1>9, <1>10, <1>11, <1>12 DEF Steps

LEMMA AddWindowType ==
  ASSUME NEW a \in ChannelType, NEW i \in Nat, NEW k \in Nat, NEW b, b = [a EXCEPT !.myWindow = i, !.taken = 0, !.owed = k]
  PROVE  b \in ChannelType
BY DEF ChannelType

LEMMA AddWindowSteps ==
  ASSUME NEW a \in ChannelType, Local(a), a.taken > 0, NEW n, n = a.taken, NEW w, w = a.myWindow + n, NEW b,
         b = [a EXCEPT !.myWindow = w, !.taken = 0, !.owed = n], NEW both \in BOOLEAN
  PROVE  Steps(a, b, both, NoPacket, NoPacket)
<1> DEFINE W == a.myWindow p0 == a.pending[0] p1 == a.pending[1] L == a.lost
<1>0. W \in Nat /\ L \in Nat /\ p0 \in Nat /\ p1 \in Nat /\ n \in Nat /\ a.win \in Nat /\ a.reserved \in Nat
  BY ChannelFields
<1>1. a.owed = 0 /\ a.user = "open" /\ n # 0 /\ W + n + p0 + p1 + L = WindowSize
  BY ZenonT(60), SMTT(40), <1>0 DEF Local
<1>2. W + n \in Nat /\ (W + n) + 0 + p0 + p1 + L = WindowSize /\ W # WindowSize
  <2>1. WindowSize \in Nat
    BY WindowAssumption
  <2> HIDE DEF W, L, p0, p1
  <2> QED BY <1>0, <1>1, <2>1
<1>3. b \in ChannelType
  <2>1. w \in Nat /\ n \in Nat
    BY <1>0, <1>2
  <2> QED BY ZenonT(60), <2>1, AddWindowType
<1>4. b.dir = a.dir /\ b.user = a.user /\ b.localId = a.localId /\ b.remoteId = a.remoteId /\ b.decided = a.decided /\ b.sentClose = a.sentClose
      /\ b.win = a.win /\ b.winClosed = a.winClosed /\ b.myWindow = W + n /\ b.pending = a.pending /\ b.msg = a.msg /\ b.reqs = a.reqs
      /\ b.closed = a.closed /\ b.todo = a.todo /\ b.reserved = a.reserved /\ b.taken = 0 /\ b.owed = n /\ b.waits = a.waits
      /\ b.peer = a.peer /\ b.lost = a.lost
  BY DEF ChannelType
<1>5. Keeps(a, b)
  BY <1>4 DEF Keeps
<1>6. Local(b)
  <2>1. a.dir = "out" => a.decided
    BY <1>1 DEF Local
  <2> QED BY <1>1, <1>2, <1>4, <2>1 DEF Local
<1>7. Passes(both, a, b, NoPacket, NoPacket)
  <2>1. Worth(NoPacket, "data") = 0 /\ Worth(NoPacket, "adjust") = 0
    BY NothingWorth
  <2> QED BY <1>0, <1>1, <1>2, <1>4, <2>1 DEF Passes
<1>8. Due(a, b, NoPacket, NoPacket)
  <2>1. Answers(b) = Answers(a) /\ Waits(b) = Waits(a) /\ Answers(a) \in Nat /\ Waits(a) \in Nat /\ Len(a.msg) \in Nat
    BY <1>4, ChannelFields DEF Answers, Waits
  <2> QED BY <1>4, <2>1, NothingWorth DEF Due
<1> QED BY <1>3, <1>4, <1>5, <1>6, <1>7, <1>8 DEF Steps

LEMMA RepliedSteps ==
  ASSUME NEW a \in ChannelType, Local(a), a.waits, a.msg # <<>> \/ a.closed, NEW m, m = IF a.msg = <<>> THEN a.msg ELSE Tail(a.msg), NEW b,
         b = [a EXCEPT !.waits = FALSE, !.msg = m], NEW both \in BOOLEAN
  PROVE  Steps(a, b, both, NoPacket, NoPacket)
<1>1. a.msg \in Seq({"ack"} \cup Responses)
  BY DEF ChannelType
<1>2. m = <<>> /\ m \in Seq({"ack"} \cup Responses) /\ Len(a.msg) \in Nat /\ (~a.closed => Len(a.msg) >= 1)
  <2>1. Len(a.msg) <= 1
    BY DEF Local
  <2> QED BY <1>1, <2>1
<1>3. b \in ChannelType
  BY ZenonT(60), <1>2 DEF ChannelType
<1>4. b.dir = a.dir /\ b.user = a.user /\ b.localId = a.localId /\ b.remoteId = a.remoteId /\ b.decided = a.decided /\ b.sentClose = a.sentClose
      /\ b.win = a.win /\ b.winClosed = a.winClosed /\ b.myWindow = a.myWindow /\ b.pending = a.pending /\ b.msg = <<>> /\ b.reqs = a.reqs
      /\ b.closed = a.closed /\ b.todo = a.todo /\ b.reserved = a.reserved /\ b.taken = a.taken /\ b.owed = a.owed /\ b.waits = FALSE
      /\ b.peer = a.peer /\ b.lost = a.lost
  BY <1>2 DEF ChannelType
<1>5. a.user = "open"
  BY DEF Local
<1>6. Keeps(a, b)
  BY <1>4 DEF Keeps
<1>7. Local(b)
  <2>1. Len(<<>>) <= 1
    OBVIOUS
  <2> QED BY <1>4, <1>5, <2>1 DEF Local
<1>8. Passes(both, a, b, NoPacket, NoPacket)
  BY <1>4, NothingWorth, ChannelFields DEF Passes
<1>9. Due(a, b, NoPacket, NoPacket)
  <2>1. Answers(b) = Answers(a) /\ Waits(b) = 0 /\ Waits(a) = 1 /\ Len(b.msg) = 0
    BY <1>4, <1>5 DEF Answers, Waits
  <2>2. Answers(a) \in Nat
    BY ChannelFields
  <2> QED BY <1>2, <2>1, <2>2, NothingWorth DEF Due
<1> QED BY <1>3, <1>4, <1>6, <1>7, <1>8, <1>9 DEF Steps

-----------------------------------------------------------------------------
(* The steps of the goroutines *)

LEMMA StateIs ==
  ASSUME Inv
  PROVE  /\ ShapeOK /\ Good(Now) /\ Now \in ViewType
         /\ chan \in [Ends -> Seq(ChannelType)] /\ fresh \in [Ends -> Seq(Nat)] /\ list \in [Ends -> Seq(Nat)] /\ connOpen \in [Ends -> BOOLEAN]
         /\ \A e \in Ends : \A c \in DOMAIN chan[e] : chan[e][c] \in ChannelType /\ Local(chan[e][c])
         /\ BothOpen(Now) \in BOOLEAN /\ \A e \in Ends : BothOpen(Now) <=> connOpen[e] /\ connOpen[Peer(e)]
<1>1. ShapeOK /\ Good(Now) /\ Now \in ViewType
  BY DEF Inv, Good
<1>2. Now.chan = chan /\ Now.fresh = fresh /\ Now.list = list /\ Now.open = connOpen
  BY NowFields
<1>3. chan \in [Ends -> Seq(ChannelType)] /\ fresh \in [Ends -> Seq(Nat)] /\ list \in [Ends -> Seq(Nat)] /\ connOpen \in [Ends -> BOOLEAN]
  BY <1>1, <1>2, ViewParts
<1>4. \A e \in Ends : \A c \in DOMAIN chan[e] : chan[e][c] \in ChannelType /\ Local(chan[e][c])
  BY <1>1, <1>2, ViewItems DEF Good, LocalOK
<1>5. BothOpen(Now) \in BOOLEAN /\ \A e \in Ends : BothOpen(Now) <=> connOpen[e] /\ connOpen[Peer(e)]
  BY <1>2, PeerFacts DEF BothOpen
<1> QED BY <1>1, <1>3, <1>4, <1>5

\* A channel changes and nothing is sent.
LEMMA LocalStep ==
  ASSUME Inv, UNCHANGED <<may, wireVars, list, loopVars, fresh, globalVars>>, NEW e \in Ends, NEW c \in DOMAIN chan[e], NEW b,
         chan' = [chan EXCEPT ![e] = [@ EXCEPT ![c] = b]], \A both \in BOOLEAN : Steps(chan[e][c], b, both, NoPacket, NoPacket),
         chan[e][c].user = "waiting" => b.user = "waiting"
  PROVE  Inv'
<1>1. fresh' = [fresh EXCEPT ![e] = fresh[e]] /\ Now.fresh = fresh /\ Now.chan = chan /\ BothOpen(Now) \in BOOLEAN
  BY StateIs, NowFields
<1>2. Leaves(Now, e, c, b, NoPacket, fresh[e])
  BY <1>1 DEF Leaves
<1>3. UserOK(e, c, b, NoPacket, fresh[e])
  BY <1>1, <1>2 DEF UserOK, Steps
<1>4. may' = may /\ connOpen' = connOpen /\ net' = net /\ list' = list /\ loop' = loop /\ held' = held /\ err' = err
      /\ globalReqs' = globalReqs /\ globalResp' = globalResp /\ asking' = asking
  BY DEF wireVars, loopVars, globalVars
<1> DEFINE g == NoPacket
<1>5. net' = IF g = NoPacket THEN net ELSE [net EXCEPT ![Peer(e)] = Append(@, g)]
  BY <1>4
<1> QED BY <1>1, <1>3, <1>4, <1>5, UserChannel

LEMMA OpenedKeeps ==
  ASSUME Inv, UNCHANGED may, NEW e \in Ends, NEW c \in DOMAIN chan[e], Opened(e, c)
  PROVE  Inv'
<1> DEFINE a == chan[e][c]
           b == IF a.msg = <<>> THEN [a EXCEPT !.user = "none"]
                ELSE [a EXCEPT !.msg = Tail(@), !.user = IF Head(a.msg) = "confirm" THEN "open" ELSE "none"]
<1>1. a \in ChannelType /\ Local(a)
  BY StateIs
<1>2. a.user = "opening" /\ (a.msg # <<>> \/ a.closed) /\ UNCHANGED <<wireVars, list, loopVars, fresh, globalVars>>
  BY DEF Opened
<1>3. chan' = [chan EXCEPT ![e] = [@ EXCEPT ![c] = b]]
  BY DEF Opened
<1> HIDE DEF a
<1>4. \A both \in BOOLEAN : Steps(a, b, both, NoPacket, NoPacket)
  BY ZenonT(60), <1>1, <1>2, OpenedSteps
<1> HIDE DEF b
<1> QED BY <1>2, <1>3, <1>4, LocalStep DEF a

LEMMA WriteKeeps ==
  ASSUME Inv, UNCHANGED may, NEW e \in Ends, NEW c \in DOMAIN chan[e], NEW n \in 1..may.bytes[e], NEW code \in may.codes, Write(e, c, n, code)
  PROVE  Inv'
<1> DEFINE a == chan[e][c] b == [a EXCEPT !.todo = n, !.code = code]
<1>1. a \in ChannelType /\ Local(a) /\ chan \in [Ends -> Seq(ChannelType)]
  BY StateIs
<1>2. a.user = "open" /\ a.todo = 0 /\ UNCHANGED <<wireVars, list, loopVars, fresh, globalVars>>
  BY DEF Write, Usable
<1>3. chan' = [chan EXCEPT ![e][c].todo = n, ![e][c].code = code]
  BY DEF Write
<1>4. chan' = [chan EXCEPT ![e] = [@ EXCEPT ![c] = b]]
  BY <1>1, <1>3
<1>5. n \in Nat /\ code \in Nat
  <2>1. may \in Scenarios
    BY DEF Inv
  <2>2. may.bytes \in [Ends -> Nat] /\ may.codes \in SUBSET Nat
    BY <2>1, ScenarioAssumption
  <2>3. may.bytes[e] \in Nat
    BY <2>2
  <2> QED BY <2>2, <2>3
<1> HIDE DEF a
<1>6. \A both \in BOOLEAN : Steps(a, b, both, NoPacket, NoPacket)
  BY ZenonT(60), <1>1, <1>2, <1>5, WriteSteps
<1> HIDE DEF b
<1> QED BY <1>2, <1>4, <1>6, LocalStep DEF a

LEMMA ReserveKeeps ==
  ASSUME Inv, UNCHANGED may, NEW e \in Ends, NEW c \in DOMAIN chan[e], Reserve(e, c)
  PROVE  Inv'
<1> DEFINE a == chan[e][c] space == Min2(Min2(MaxPacket, a.todo), a.win) w == a.win - space v == IF a.winClosed THEN 0 ELSE a.todo
           s == IF a.winClosed THEN 0 ELSE space b == [a EXCEPT !.win = w, !.todo = v, !.reserved = s]
<1>1. a \in ChannelType /\ Local(a)
  BY StateIs
<1>2. a.todo > 0 /\ a.reserved = 0 /\ UNCHANGED <<wireVars, list, loopVars, fresh, globalVars>>
  BY DEF Reserve
<1>3. chan' = [chan EXCEPT ![e] = [@ EXCEPT ![c] = IF a.winClosed THEN [a EXCEPT !.win = @ - space, !.todo = 0]
                                                  ELSE [a EXCEPT !.win = @ - space, !.reserved = space]]]
  BY DEF Reserve
<1> HIDE DEF a, space
<1>4. (IF a.winClosed THEN [a EXCEPT !.win = @ - space, !.todo = 0] ELSE [a EXCEPT !.win = @ - space, !.reserved = space]) = b
  <2>1. CASE a.winClosed
    <3>1. s = a.reserved /\ v = 0
      BY <1>2, <2>1
    <3> HIDE DEF s, v
    <3> QED BY <1>1, <2>1, <3>1 DEF ChannelType
  <2>2. CASE ~a.winClosed
    <3>1. s = space /\ v = a.todo
      BY <1>2, <2>2
    <3> HIDE DEF s, v
    <3> QED BY <1>1, <2>2, <3>1 DEF ChannelType
  <2> QED BY <2>1, <2>2
<1>5. chan' = [chan EXCEPT ![e] = [@ EXCEPT ![c] = b]]
  BY <1>3, <1>4
<1>6. \A both \in BOOLEAN : Steps(a, b, both, NoPacket, NoPacket)
  <2>1. Reserves(a, space, w, v, s, b)
    BY DEF Reserves, space
  <2> HIDE DEF w, v, s, b
  <2> QED BY <1>1, <1>2, <2>1, ReserveSteps
<1>7. b.user = a.user
  BY <1>1 DEF ChannelType
<1> HIDE DEF b
<1> QED BY <1>2, <1>5, <1>6, <1>7, LocalStep DEF a

LEMMA ReadKeeps ==
  ASSUME Inv, UNCHANGED may, NEW e \in Ends, NEW c \in DOMAIN chan[e], NEW x \in {0, 1}, NEW n, Read(e, c, x, n)
  PROVE  Inv'
<1> DEFINE a == chan[e][c] p == [a.pending EXCEPT ![x] = @ - n] b == [a EXCEPT !.pending = p, !.taken = n, !.got = a.got + n]
<1>1. a \in ChannelType /\ Local(a) /\ chan \in [Ends -> Seq(ChannelType)]
  BY StateIs
<1>2. a.user = "open" /\ a.taken = 0 /\ a.owed = 0 /\ n \in 1..a.pending[x] /\ UNCHANGED <<wireVars, list, loopVars, fresh, globalVars>>
  BY DEF Read, Usable
<1>3. chan' = [chan EXCEPT ![e][c].pending[x] = @ - n, ![e][c].taken = n, ![e][c].got = @ + n]
  BY DEF Read
<1>4. chan' = [chan EXCEPT ![e] = [@ EXCEPT ![c] = b]]
  BY <1>1, <1>3
<1>5. \A both \in BOOLEAN : Steps(a, b, both, NoPacket, NoPacket)
  <2> HIDE DEF b
  <2>1. b = [a EXCEPT !.pending = p, !.taken = n, !.got = a.got + n]
    BY DEF b
  <2> HIDE DEF a, p
  <2>2. p = [a.pending EXCEPT ![x] = @ - n]
    BY DEF p
  <2>3. a.user = "open" /\ a.taken = 0 /\ a.owed = 0 /\ n \in 1..a.pending[x] /\ a \in ChannelType /\ Local(a)
    BY <1>1, <1>2
  <2> QED BY <2>1, <2>2, <2>3, ReadSteps, Zenon
<1>6. b.user = a.user
  BY <1>1 DEF ChannelType
<1> HIDE DEF b
<1> QED BY <1>2, <1>4, <1>5, <1>6, LocalStep

LEMMA AddWindowKeeps ==
  ASSUME Inv, UNCHANGED may, NEW e \in Ends, NEW c \in DOMAIN chan[e], AddWindow(e, c)
  PROVE  Inv'
<1> DEFINE a == chan[e][c] n == a.taken w == a.myWindow + n b == [a EXCEPT !.myWindow = w, !.taken = 0, !.owed = n]
<1>1. a \in ChannelType /\ Local(a) /\ chan \in [Ends -> Seq(ChannelType)]
  BY StateIs
<1>2. a.taken > 0 /\ UNCHANGED <<wireVars, list, loopVars, fresh, globalVars>>
  BY DEF AddWindow
<1>3. chan' = [chan EXCEPT ![e][c].myWindow = @ + a.taken, ![e][c].taken = 0, ![e][c].owed = a.taken]
  BY DEF AddWindow
<1>4. chan' = [chan EXCEPT ![e] = [@ EXCEPT ![c] = b]]
  BY <1>1, <1>3
<1>5. \A both \in BOOLEAN : Steps(a, b, both, NoPacket, NoPacket)
  <2> HIDE DEF b
  <2>1. b = [a EXCEPT !.myWindow = w, !.taken = 0, !.owed = n]
    BY DEF b
  <2> HIDE DEF a, w, n
  <2>2. n = a.taken /\ w = a.myWindow + n
    BY DEF w, n
  <2> QED BY ZenonT(60), <1>1, <1>2, <2>1, <2>2, AddWindowSteps
<1>6. b.user = a.user
  BY <1>1 DEF ChannelType
<1> HIDE DEF b
<1> QED BY <1>2, <1>4, <1>5, <1>6, LocalStep

LEMMA RepliedKeeps ==
  ASSUME Inv, UNCHANGED may, NEW e \in Ends, NEW c \in DOMAIN chan[e], Replied(e, c)
  PROVE  Inv'
<1> DEFINE a == chan[e][c] m == IF a.msg = <<>> THEN a.msg ELSE Tail(a.msg) b == [a EXCEPT !.waits = FALSE, !.msg = m]
<1>1. a \in ChannelType /\ Local(a) /\ chan \in [Ends -> Seq(ChannelType)]
  BY StateIs
<1>2. a.waits /\ (a.msg # <<>> \/ a.closed) /\ UNCHANGED <<wireVars, list, loopVars, fresh, globalVars>>
  BY DEF Replied
<1>3. chan' = [chan EXCEPT ![e][c].waits = FALSE, ![e][c].msg = IF @ = <<>> THEN @ ELSE Tail(@)]
  BY DEF Replied
<1>4. chan' = [chan EXCEPT ![e] = [@ EXCEPT ![c] = b]]
  BY <1>1, <1>3
<1>5. \A both \in BOOLEAN : Steps(a, b, both, NoPacket, NoPacket)
  <2> HIDE DEF b
  <2>1. b = [a EXCEPT !.waits = FALSE, !.msg = m]
    BY DEF b
  <2> HIDE DEF a, m
  <2>2. m = IF a.msg = <<>> THEN a.msg ELSE Tail(a.msg)
    BY DEF m
  <2> QED BY ZenonT(60), <1>1, <1>2, <2>1, <2>2, RepliedSteps
<1>6. b.user = a.user
  BY <1>1 DEF ChannelType
<1> HIDE DEF b
<1> QED BY <1>2, <1>4, <1>5, <1>6, LocalStep

-----------------------------------------------------------------------------
(* A packet is sent *)

\* channel.sendMessage: a packet is sent, lost or refused, and a becomes ok or failed.
Sending(a, k, n, aux, c) == Packet(k, a.remoteId, n, aux, c)
Succeeds(ok, k) == [ok EXCEPT !.sentClose = (k = "close")]
Fails(a, failed, k) == [failed EXCEPT !.sentClose = a.sentClose \/ (k = "close")]
Speaks(a, c, k, n, aux, ok, failed) ==
  /\ ~a.sentClose => /\ Sending(a, k, n, aux, c) \in PacketType /\ May(a, Succeeds(ok, k), c, Sending(a, k, n, aux, c))
                     /\ Steps(a, Succeeds(ok, k), TRUE, NoPacket, Sending(a, k, n, aux, c))
                     /\ Steps(a, Succeeds(ok, k), FALSE, NoPacket, NoPacket)
  /\ \A both \in BOOLEAN : (both => a.sentClose) => Steps(a, Fails(a, failed, k), both, NoPacket, NoPacket)
\* Which channels wait for an answer after that.
Rests(a, e, c, k, ok, failed, q) ==
  \/ q = fresh[e] /\ a.user # "waiting"
  \/ /\ fresh[e] # <<>> /\ c = Head(fresh[e]) /\ q = Tail(fresh[e]) /\ (k = "confirm" \/ Succeeds(ok, k).user # "open")
     /\ Fails(a, failed, k).user # "open"

LEMMA SendStep ==
  ASSUME Inv, UNCHANGED <<may, connOpen, list, loopVars, globalVars>>, NEW e \in Ends, NEW c \in DOMAIN chan[e], NEW k, NEW n, NEW aux, NEW ok, NEW failed,
         SendMessage(e, c, k, n, aux, ok, failed), Speaks(chan[e][c], c, k, n, aux, ok, failed),
         NEW q, fresh' = [fresh EXCEPT ![e] = q], Rests(chan[e][c], e, c, k, ok, failed, q)
  PROVE  Inv'
<1> DEFINE a == chan[e][c] f == Peer(e) p == Sending(a, k, n, aux, c) x == Succeeds(ok, k) y == Fails(a, failed, k)
<1>0. f \in Ends /\ Now.fresh = fresh /\ Now.chan = chan /\ Now.open = connOpen /\ BothOpen(Now) \in BOOLEAN /\ (BothOpen(Now) <=> connOpen[e] /\ connOpen[f])
  BY StateIs, NowFields, PeerFacts
<1>1. may' = may /\ connOpen' = connOpen /\ list' = list /\ loop' = loop /\ held' = held /\ err' = err
      /\ globalReqs' = globalReqs /\ globalResp' = globalResp /\ asking' = asking
  BY DEF loopVars, globalVars
<1>2. \/ ~a.sentClose /\ connOpen[e] /\ net' = Sent(e, p) /\ chan' = [chan EXCEPT ![e] = [@ EXCEPT ![c] = x]]
      \/ (a.sentClose \/ WriteFails(e)) /\ net' = net /\ chan' = [chan EXCEPT ![e] = [@ EXCEPT ![c] = y]]
  BY DEF SendMessage, Sending, Succeeds, Fails
<1>3. /\ ~a.sentClose => p \in PacketType /\ May(a, x, c, p) /\ Steps(a, x, TRUE, NoPacket, p) /\ Steps(a, x, FALSE, NoPacket, NoPacket)
      /\ \A both \in BOOLEAN : (both => a.sentClose) => Steps(a, y, both, NoPacket, NoPacket)
  BY DEF Speaks
<1>4. \/ q = fresh[e] /\ a.user # "waiting"
      \/ fresh[e] # <<>> /\ c = Head(fresh[e]) /\ q = Tail(fresh[e]) /\ (k = "confirm" \/ x.user # "open") /\ y.user # "open"
  BY DEF Rests
<1>5. p.kind = k
  BY DEF Sending, Packet
<1>6. Leaves(Now, e, c, x, p, q) /\ (~connOpen[f] => Leaves(Now, e, c, x, NoPacket, q)) /\ Leaves(Now, e, c, y, NoPacket, q)
  <2> HIDE DEF x, y, p
  <2> QED BY <1>0, <1>4, <1>5 DEF Leaves
<1> HIDE DEF x, y, p
<1>7. CASE ~a.sentClose /\ connOpen[e] /\ connOpen[f] /\ net' = Sent(e, p) /\ chan' = [chan EXCEPT ![e] = [@ EXCEPT ![c] = x]]
  <2>1. UserOK(e, c, x, p, q)
    <3>1. BothOpen(Now) = TRUE
      BY <1>0, <1>7
    <3>2. Steps(a, x, BothOpen(Now), NoPacket, p)
      BY <1>3, <1>7, <3>1
    <3> QED BY <1>3, <1>6, <1>7, <3>2 DEF UserOK, Steps
  <2>2. p # NoPacket
    <3>1. p \in PacketType
      BY <1>3, <1>7
    <3> QED BY <3>1 DEF NoPacket, Packet, PacketType, Kinds, Responses, Globals
  <2>3. net' = IF p = NoPacket THEN net ELSE [net EXCEPT ![Peer(e)] = Append(@, p)]
    <3>1. net' = [net EXCEPT ![f] = Append(@, p)]
      BY <1>7 DEF Sent
    <3> QED BY <2>2, <3>1
  <2>4. chan' = [chan EXCEPT ![e] = [@ EXCEPT ![c] = x]]
    BY <1>7
  <2> QED BY <1>1, <2>1, <2>3, <2>4, UserChannel
<1>a. net \in [Ends -> Seq(PacketType)]
  BY StateIs DEF ShapeOK
<1> DEFINE g == NoPacket
<1>8. CASE ~a.sentClose /\ connOpen[e] /\ ~connOpen[f] /\ net' = Sent(e, p) /\ chan' = [chan EXCEPT ![e] = [@ EXCEPT ![c] = x]]
  <2>1. UserOK(e, c, x, g, q)
    <3>1. BothOpen(Now) = FALSE
      BY <1>0, <1>8
    <3>2. Steps(a, x, BothOpen(Now), NoPacket, NoPacket)
      BY <1>3, <1>8, <3>1
    <3> QED BY <1>6, <1>8, <3>2 DEF UserOK, Steps
  <2>3. net' = IF g = NoPacket THEN net ELSE [net EXCEPT ![Peer(e)] = Append(@, g)]
    BY <1>0, <1>8, <1>a DEF Sent
  <2>4. chan' = [chan EXCEPT ![e] = [@ EXCEPT ![c] = x]]
    BY <1>8
  <2> QED BY <1>1, <2>1, <2>3, <2>4, UserChannel
<1>9. CASE (a.sentClose \/ WriteFails(e)) /\ net' = net /\ chan' = [chan EXCEPT ![e] = [@ EXCEPT ![c] = y]]
  <2>1. UserOK(e, c, y, g, q)
    <3>1. BothOpen(Now) => a.sentClose
      BY <1>0, <1>9 DEF WriteFails
    <3>2. Steps(a, y, BothOpen(Now), NoPacket, NoPacket)
      BY <1>0, <1>3, <3>1
    <3> QED BY <1>6, <3>2 DEF UserOK, Steps
  <2>3. net' = IF g = NoPacket THEN net ELSE [net EXCEPT ![Peer(e)] = Append(@, g)]
    BY <1>9
  <2>4. chan' = [chan EXCEPT ![e] = [@ EXCEPT ![c] = y]]
    BY <1>9
  <2> QED BY <1>1, <2>1, <2>3, <2>4, UserChannel
<1> QED BY <1>2, <1>7, <1>8, <1>9

Spoken == {"data", "adjust", "eof", "close", "request", "ack"}

\* A channel that is open may send anything but the answer to an open.
LEMMA MayOpen ==
  ASSUME NEW a \in ChannelType, Local(a), a.user = "open", ~a.sentClose, NEW c \in Nat, NEW k \in Spoken, NEW n \in Nat, NEW aux \in Nat,
         k = "data" => n <= MaxPacket, k = "request" => n \in {0, 1}, NEW x, k = "close" => x.sentClose
  PROVE  /\ Sending(a, k, n, aux, c) \in PacketType /\ May(a, x, c, Sending(a, k, n, aux, c))
         /\ Worth(Sending(a, k, n, aux, c), "data") = (IF k = "data" THEN n ELSE 0)
         /\ Worth(Sending(a, k, n, aux, c), "adjust") = (IF k = "adjust" THEN n ELSE 0)
         /\ Worth(Sending(a, k, n, aux, c), "request") = (IF k = "request" THEN n ELSE 0)
         /\ Answering(Sending(a, k, n, aux, c)) = (IF k = "ack" THEN 1 ELSE 0)
<1> DEFINE p == Sending(a, k, n, aux, c)
<1>1. p \in PacketType
  BY DEF Sending, Packet, PacketType, Kinds, Spoken, ChannelType
<1>2. p.kind = k /\ p.id = a.remoteId /\ p.n = n /\ p.from = c
  BY DEF Sending, Packet
<1> HIDE DEF p
<1>3. a.peer # 0 /\ ~Done(a)
  BY DEF Local, Done, ChannelType
<1>4. Carries(p) /\ k \notin Responses
  BY <1>2 DEF Carries, Spoken, Globals, Responses
<1>5. May(a, x, c, p)
  BY <1>2, <1>3, <1>4 DEF May, Responses
<1>6. /\ Worth(p, "data") = (IF k = "data" THEN n ELSE 0) /\ Worth(p, "adjust") = (IF k = "adjust" THEN n ELSE 0)
      /\ Worth(p, "request") = (IF k = "request" THEN n ELSE 0)
  BY <1>2 DEF Worth
<1>7. Answering(p) = IF k = "ack" THEN 1 ELSE 0
  BY <1>2, <1>4 DEF Answering
<1> QED BY <1>1, <1>5, <1>6, <1>7 DEF p

WriteDataIs(a, b, i, z) ==
  /\ b \in ChannelType
  /\ b.dir = a.dir /\ b.user = a.user /\ b.localId = a.localId /\ b.remoteId = a.remoteId /\ b.decided = a.decided /\ b.sentClose = z
  /\ b.win = a.win /\ b.winClosed = a.winClosed /\ b.myWindow = a.myWindow /\ b.pending = a.pending /\ b.msg = a.msg /\ b.reqs = a.reqs
  /\ b.closed = a.closed /\ b.todo = i /\ b.reserved = 0 /\ b.taken = a.taken /\ b.owed = a.owed /\ b.waits = a.waits
  /\ b.peer = a.peer /\ b.lost = a.lost
LEMMA WriteDataType ==
  ASSUME NEW a \in ChannelType, NEW i \in Nat, NEW j \in Nat, NEW z \in BOOLEAN, NEW b, b = [a EXCEPT !.todo = i, !.reserved = 0, !.sent = j, !.sentClose = z]
  PROVE  WriteDataIs(a, b, i, z)
BY DEF ChannelType, WriteDataIs

\* Credit that was held is sent, or given up.
LEMMA WriteDataSpeaks ==
  ASSUME NEW a \in ChannelType, Local(a), a.reserved > 0, NEW c \in Nat, NEW aux \in Nat, NEW r, r = a.reserved, NEW i, i = a.todo - r, NEW j, j = a.sent + r
  PROVE  Speaks(a, c, "data", r, aux, [a EXCEPT !.todo = i, !.reserved = 0, !.sent = j], [a EXCEPT !.todo = 0, !.reserved = 0])
<1> DEFINE k == "data" ok == [a EXCEPT !.todo = i, !.reserved = 0, !.sent = j] failed == [a EXCEPT !.todo = 0, !.reserved = 0]
           x == Succeeds(ok, k) y == Fails(a, failed, k) p == Sending(a, k, r, aux, c)
<1>0. r \in Nat /\ a.todo \in Nat /\ a.sent \in Nat /\ a.win \in Nat /\ a.owed \in Nat /\ a.myWindow \in Nat /\ a.sentClose \in BOOLEAN
      /\ Len(a.msg) \in Nat /\ Answers(a) \in Nat /\ Waits(a) \in Nat
  <2>1. a.sentClose \in BOOLEAN /\ a.sent \in Nat
    BY DEF ChannelType
  <2> QED BY <2>1, ChannelFields
<1>1. a.user = "open" /\ r <= MaxPacket /\ r <= a.todo /\ i \in Nat /\ j \in Nat
  <2>1. a.user = "open" /\ r <= MaxPacket /\ r <= a.todo
    BY ZenonT(60), SMTT(40), <1>0 DEF Local
  <2> QED BY SMTT(40), <1>0, <2>1
<1>2. x = [a EXCEPT !.todo = i, !.reserved = 0, !.sent = j, !.sentClose = FALSE]
  BY DEF Succeeds
<1>3. y = [a EXCEPT !.todo = 0, !.reserved = 0, !.sent = a.sent, !.sentClose = a.sentClose]
  BY DEF Fails, ChannelType
<1>4. x \in ChannelType /\ x.dir = a.dir /\ x.user = a.user /\ x.localId = a.localId /\ x.remoteId = a.remoteId /\ x.decided = a.decided /\ x.sentClose = FALSE
         /\ x.win = a.win /\ x.winClosed = a.winClosed /\ x.myWindow = a.myWindow /\ x.pending = a.pending /\ x.msg = a.msg /\ x.reqs = a.reqs
         /\ x.closed = a.closed /\ x.todo = i /\ x.reserved = 0 /\ x.taken = a.taken /\ x.owed = a.owed /\ x.waits = a.waits
         /\ x.peer = a.peer /\ x.lost = a.lost
  <2> DEFINE z == FALSE
  <2>1. z \in BOOLEAN /\ z = FALSE /\ x = [a EXCEPT !.todo = i, !.reserved = 0, !.sent = j, !.sentClose = z]
    BY <1>2
  <2> HIDE DEF x, z
  <2>2. WriteDataIs(a, x, i, z)
    BY ZenonT(60), <1>1, <2>1, WriteDataType
  <2> QED BY <2>1, <2>2 DEF WriteDataIs
<1>5. y \in ChannelType /\ y.dir = a.dir /\ y.user = a.user /\ y.localId = a.localId /\ y.remoteId = a.remoteId /\ y.decided = a.decided /\ y.sentClose = a.sentClose
         /\ y.win = a.win /\ y.winClosed = a.winClosed /\ y.myWindow = a.myWindow /\ y.pending = a.pending /\ y.msg = a.msg /\ y.reqs = a.reqs
         /\ y.closed = a.closed /\ y.todo = 0 /\ y.reserved = 0 /\ y.taken = a.taken /\ y.owed = a.owed /\ y.waits = a.waits
         /\ y.peer = a.peer /\ y.lost = a.lost
  <2> DEFINE i0 == 0 j0 == a.sent z == a.sentClose
  <2>1. i0 \in Nat /\ i0 = 0 /\ j0 \in Nat /\ z \in BOOLEAN /\ z = a.sentClose /\ y = [a EXCEPT !.todo = i0, !.reserved = 0, !.sent = j0, !.sentClose = z]
    BY <1>0, <1>3
  <2> HIDE DEF y, i0, j0, z
  <2>2. WriteDataIs(a, y, i0, z)
    BY ZenonT(60), <2>1, WriteDataType
  <2> QED BY <2>1, <2>2 DEF WriteDataIs
<1> HIDE DEF x, y
<1>6. 0 <= MaxPacket /\ 0 <= i
  BY <1>1, WindowAssumption
<1>7. Answers(x) = Answers(a) /\ Waits(x) = Waits(a) /\ Answers(y) = Answers(a) /\ Waits(y) = Waits(a)
  BY <1>4, <1>5 DEF Answers, Waits
<1>8. Worth(NoPacket, "data") = 0 /\ Worth(NoPacket, "adjust") = 0 /\ Worth(NoPacket, "request") = 0 /\ Answering(NoPacket) = 0
  BY NothingWorth
<1>9. ASSUME ~a.sentClose
      PROVE  p \in PacketType /\ May(a, x, c, p) /\ Steps(a, x, TRUE, NoPacket, p) /\ Steps(a, x, FALSE, NoPacket, NoPacket)
  <2>1. p \in PacketType /\ May(a, x, c, p) /\ Worth(p, "data") = r /\ Worth(p, "adjust") = 0 /\ Worth(p, "request") = 0 /\ Answering(p) = 0
    <3>1. k \in Spoken /\ k = "data" /\ k # "request" /\ k # "close" /\ k # "adjust" /\ k # "ack"
      BY DEF Spoken
    <3> HIDE DEF k
    <3> QED BY SMTT(40), <1>0, <1>1, <1>9, <3>1, MayOpen
  <2> HIDE DEF p
  <2>2. Local(x)
    BY <1>1, <1>4, <1>6, <1>9 DEF Local
  <2>3. Keeps(a, x)
    BY <1>4, <1>9 DEF Keeps
  <2>4. Passes(TRUE, a, x, NoPacket, p) /\ Passes(FALSE, a, x, NoPacket, NoPacket)
    BY SMTT(40), <1>0, <1>4, <1>8, <2>1 DEF Passes
  <2>5. Due(a, x, NoPacket, p) /\ Due(a, x, NoPacket, NoPacket)
    BY SMTT(40), <1>0, <1>4, <1>7, <1>8, <2>1 DEF Due
  <2> QED BY <1>4, <2>1, <2>2, <2>3, <2>4, <2>5 DEF Steps
<1>10. ASSUME NEW both \in BOOLEAN, both => a.sentClose PROVE Steps(a, y, both, NoPacket, NoPacket)
  <2>2. Local(y)
    BY <1>1, <1>5, <1>6 DEF Local
  <2>3. Keeps(a, y)
    BY <1>5 DEF Keeps
  <2>4. Passes(both, a, y, NoPacket, NoPacket)
    <3>1. ~(both /\ ~y.sentClose)
      BY <1>5, <1>10
    <3>2. y.win + y.reserved + 0 <= a.win + a.reserved + 0
      BY ZenonT(60), SMTT(40), <1>0, <1>5
    <3> QED BY SMTT(40), <1>0, <1>5, <1>8, <3>1, <3>2 DEF Passes
  <2>5. Due(a, y, NoPacket, NoPacket)
    BY ZenonT(60), SMTT(40), <1>0, <1>5, <1>7, <1>8 DEF Due
  <2> QED BY <1>5, <2>2, <2>3, <2>4, <2>5 DEF Steps
<1> QED BY <1>9, <1>10 DEF Speaks, x, y, p

\* What may change of an open channel that sends anything but data.
SpokenIs(a, b, z, o, w, r) ==
  /\ b \in ChannelType
  /\ b.dir = a.dir /\ b.user = a.user /\ b.localId = a.localId /\ b.remoteId = a.remoteId /\ b.decided = a.decided /\ b.sentClose = z
  /\ b.win = a.win /\ b.winClosed = a.winClosed /\ b.myWindow = a.myWindow /\ b.pending = a.pending /\ b.msg = a.msg /\ b.reqs = r
  /\ b.closed = a.closed /\ b.todo = a.todo /\ b.reserved = a.reserved /\ b.taken = a.taken /\ b.owed = o /\ b.waits = w
  /\ b.peer = a.peer /\ b.lost = a.lost
Pays(a, k, n, o) == IF k = "adjust" THEN n = a.owed /\ o = 0 ELSE o = a.owed
Asking(a, k, n, w) == IF k = "request" THEN n \in {0, 1} /\ (n = 1 => ~a.waits) /\ w = (a.waits \/ n = 1) ELSE w = a.waits
Serves(a, k, r) == IF k = "ack" THEN Total(r) + 1 <= Total(a.reqs) ELSE r = a.reqs

Affords(a, b, g, z, o, r, both) ==
  /\ Worth(g, "data") = 0 /\ Worth(g, "adjust") \in Nat /\ Worth(g, "request") \in Nat /\ Answering(g) \in Nat
  /\ o + Worth(g, "adjust") <= a.owed /\ (both /\ ~z => o + Worth(g, "adjust") = a.owed)
  /\ Worth(g, "request") + Waits(a) <= Waits(b) /\ Answering(g) + Total(r) <= Total(a.reqs)

LEMMA SpokenSteps ==
  ASSUME NEW a \in ChannelType, Local(a), a.user = "open", NEW b, NEW z \in BOOLEAN, NEW o \in Nat, NEW w \in BOOLEAN, NEW r, SpokenIs(a, b, z, o, w, r),
         a.sentClose => z, NEW both \in BOOLEAN, NEW g, Affords(a, b, g, z, o, r, both), a.waits => w
  PROVE  Steps(a, b, both, NoPacket, g)
<1> DEFINE n == Worth(g, "adjust") m == Worth(g, "request") i == Answering(g)
<1>0. Worth(g, "data") = 0 /\ n \in Nat /\ m \in Nat /\ i \in Nat /\ Worth(g, "adjust") = n /\ Worth(g, "request") = m /\ Answering(g) = i
      /\ o + n <= a.owed /\ (both /\ ~z => o + n = a.owed) /\ m + Waits(a) <= Waits(b) /\ i + Total(r) <= Total(a.reqs)
  BY DEF Affords
<1> HIDE DEF n, m, i
<1>1. b \in ChannelType
      /\ b.dir = a.dir /\ b.user = a.user /\ b.localId = a.localId /\ b.remoteId = a.remoteId /\ b.decided = a.decided /\ b.sentClose = z
      /\ b.win = a.win /\ b.winClosed = a.winClosed /\ b.myWindow = a.myWindow /\ b.pending = a.pending /\ b.msg = a.msg /\ b.reqs = r
      /\ b.closed = a.closed /\ b.todo = a.todo /\ b.reserved = a.reserved /\ b.taken = a.taken /\ b.owed = o /\ b.waits = w
      /\ b.peer = a.peer /\ b.lost = a.lost
  BY DEF SpokenIs
<1>2. a.win \in Nat /\ a.reserved \in Nat /\ a.owed \in Nat /\ a.myWindow \in Nat /\ Len(a.msg) \in Nat /\ Waits(a) \in Nat /\ Waits(b) \in Nat
      /\ Total(a.reqs) \in Nat /\ Total(r) \in Nat
  BY <1>1, ChannelFields
<1>3. Keeps(a, b)
  BY <1>1 DEF Keeps
<1>4. a.owed = 0 => o = 0 /\ n = 0
  BY <1>0, <1>2
<1>5. Local(b)
  <2>1. a.dir = "out" => a.decided
    BY DEF Local
  <2>2. a.closed => z
    BY DEF Local
  <2> QED BY <1>1, <1>4, <2>1, <2>2 DEF Local
<1>6. Worth(NoPacket, "data") = 0 /\ Worth(NoPacket, "adjust") = 0 /\ Worth(NoPacket, "request") = 0 /\ Answering(NoPacket) = 0
  BY NothingWorth
<1>7. Passes(both, a, b, NoPacket, g)
  <2>1. b.win + b.reserved + 0 = a.win + a.reserved + 0
    BY <1>1, <1>2
  <2>2. o + n + a.myWindow <= a.owed + 0 + a.myWindow /\ (both /\ ~z => o + n + a.myWindow = a.owed + 0 + a.myWindow)
    <3> DEFINE W == a.myWindow q == a.owed
    <3>1. W \in Nat /\ q \in Nat /\ o + n <= q /\ (both /\ ~z => o + n = q)
      BY <1>0, <1>2
    <3> HIDE DEF W, q
    <3>2. o + n + W <= q + 0 + W /\ (both /\ ~z => o + n + W = q + 0 + W)
      BY <1>0, <3>1
    <3> QED BY <3>2 DEF W, q
  <2>4. \A u, v \in Nat : u + v + 0 <= u + v + 0
    OBVIOUS
  <2>5. b.win + b.reserved + 0 <= a.win + a.reserved + 0
    BY <1>1, <1>2, <2>4
  <2> QED BY <1>0, <1>1, <1>4, <1>6, <2>1, <2>2, <2>5 DEF Passes
<1>8. Due(a, b, NoPacket, g)
  <2>1. Answers(a) = Total(a.reqs) + 0 /\ Answers(b) = Total(r) + 0
    BY <1>1 DEF Answers
  <2> HIDE DEF Waits
  <2> QED BY SMTT(40), <1>0, <1>1, <1>2, <1>6, <2>1 DEF Due
<1> QED BY <1>1, <1>3, <1>5, <1>7, <1>8 DEF Steps

LEMMA SpokenSpeaks ==
  ASSUME NEW a \in ChannelType, Local(a), a.user = "open", NEW c \in Nat, NEW k \in Spoken \ {"data"}, NEW n \in Nat, NEW aux \in Nat, NEW ok, NEW failed,
         NEW o \in Nat, Pays(a, k, n, o), NEW w \in BOOLEAN, Asking(a, k, n, w), NEW r, Serves(a, k, r),
         SpokenIs(a, Succeeds(ok, k), k = "close", o, w, r), SpokenIs(a, Fails(a, failed, k), a.sentClose \/ k = "close", o, a.waits, r)
  PROVE  Speaks(a, c, k, n, aux, ok, failed)
<1> DEFINE x == Succeeds(ok, k) y == Fails(a, failed, k) p == Sending(a, k, n, aux, c) z == (k = "close") v == (a.sentClose \/ k = "close")
<1>0. a.owed \in Nat /\ a.sentClose \in BOOLEAN /\ a.waits \in BOOLEAN /\ z \in BOOLEAN /\ v \in BOOLEAN
  BY DEF ChannelType
<1>1. SpokenIs(a, x, z, o, w, r) /\ SpokenIs(a, y, v, o, a.waits, r)
  OBVIOUS
<1>2. x.sentClose = z /\ x.waits = w /\ x.user = "open" /\ y.waits = a.waits /\ y.user = "open" /\ x \in ChannelType /\ y \in ChannelType
      /\ x.reqs = r /\ Total(r) \in Nat /\ Total(a.reqs) \in Nat
  BY <1>1, ChannelFields DEF SpokenIs
<1> HIDE DEF x, y
<1> DEFINE j == IF k = "adjust" THEN n ELSE 0 m == IF k = "request" THEN n ELSE 0 i == IF k = "ack" THEN 1 ELSE 0
<1>3. j \in Nat /\ m \in Nat /\ i \in Nat /\ o + j = a.owed /\ o + 0 <= a.owed /\ o + j <= a.owed
  BY <1>0 DEF Pays
<1>4. i + Total(r) <= Total(a.reqs) /\ 0 + Total(r) <= Total(a.reqs)
  BY <1>2 DEF Serves
<1>5. (a.waits => w) /\ m + Waits(a) <= Waits(x) /\ 0 + Waits(a) <= Waits(x) /\ 0 + Waits(a) <= Waits(y)
  BY <1>0, <1>2 DEF Asking, Waits
<1>6. Worth(NoPacket, "data") = 0 /\ Worth(NoPacket, "adjust") = 0 /\ Worth(NoPacket, "request") = 0 /\ Answering(NoPacket) = 0 /\ 0 \in Nat
  BY NothingWorth
<1>7. ASSUME ~a.sentClose
      PROVE  p \in PacketType /\ May(a, x, c, p) /\ Steps(a, x, TRUE, NoPacket, p) /\ Steps(a, x, FALSE, NoPacket, NoPacket)
  <2>1. p \in PacketType /\ May(a, x, c, p) /\ Worth(p, "data") = 0 /\ Worth(p, "adjust") = j /\ Worth(p, "request") = m /\ Answering(p) = i
    <3>1. k \in Spoken /\ k # "data" /\ (k = "request" => n \in {0, 1}) /\ (k = "close" => x.sentClose)
      BY <1>2 DEF Asking
    <3> QED BY <1>7, <3>1, MayOpen
  <2> HIDE DEF p, j, m, i, z
  <2>2. Steps(a, x, TRUE, NoPacket, p)
    <3>1. Affords(a, x, p, z, o, r, TRUE)
      BY <1>3, <1>4, <1>5, <2>1 DEF Affords
    <3> QED BY <1>0, <1>1, <1>5, <1>7, <3>1, SpokenSteps
  <2>3. Steps(a, x, FALSE, NoPacket, NoPacket)
    <3>1. Affords(a, x, NoPacket, z, o, r, FALSE)
      BY <1>3, <1>4, <1>5, <1>6 DEF Affords
    <3> QED BY ZenonT(60), <1>0, <1>1, <1>5, <1>7, <3>1, SpokenSteps
  <2> QED BY <2>1, <2>2, <2>3
<1>8. ASSUME NEW both \in BOOLEAN, both => a.sentClose PROVE Steps(a, y, both, NoPacket, NoPacket)
  <2>1. (a.sentClose => v) /\ ~(both /\ ~v) /\ (a.waits => a.waits)
    BY <1>8
  <2> HIDE DEF v, j, m, i
  <2>2. Affords(a, y, NoPacket, v, o, r, both)
    BY <1>3, <1>4, <1>5, <1>6, <2>1 DEF Affords
  <2> QED BY <1>0, <1>1, <2>1, <2>2, SpokenSteps
<1> QED BY <1>7, <1>8 DEF Speaks, x, y, p

LEMMA SpeaksKeeps ==
  ASSUME Inv, UNCHANGED <<may, connOpen, list, loopVars, fresh, globalVars>>, NEW e \in Ends, NEW c \in DOMAIN chan[e], chan[e][c].user = "open",
         NEW k, NEW n, NEW aux, NEW ok, NEW failed, SendMessage(e, c, k, n, aux, ok, failed), Speaks(chan[e][c], c, k, n, aux, ok, failed)
  PROVE  Inv'
<1>1. fresh' = [fresh EXCEPT ![e] = fresh[e]]
  BY StateIs
<1>2. Rests(chan[e][c], e, c, k, ok, failed, fresh[e])
  BY DEF Rests
<1>3. UNCHANGED <<may, connOpen, list, loopVars, globalVars>>
  OBVIOUS
<1> QED BY <1>1, <1>2, <1>3, SendStep

LEMMA ChannelIs ==
  ASSUME Inv, NEW e \in Ends, NEW c \in DOMAIN chan[e]
  PROVE  chan[e][c] \in ChannelType /\ Local(chan[e][c]) /\ c \in Nat /\ c # 0
<1>1. chan \in [Ends -> Seq(ChannelType)] /\ chan[e][c] \in ChannelType /\ Local(chan[e][c])
  BY StateIs
<1> QED BY <1>1

LEMMA WriteDataKeeps ==
  ASSUME Inv, UNCHANGED may, NEW e \in Ends, NEW c \in DOMAIN chan[e], WriteData(e, c)
  PROVE  Inv'
<1> DEFINE a == chan[e][c] r == a.reserved i == a.todo - r j == a.sent + r
           ok == [a EXCEPT !.todo = i, !.reserved = 0, !.sent = j] failed == [a EXCEPT !.todo = 0, !.reserved = 0]
<1>1. a \in ChannelType /\ Local(a) /\ c \in Nat
  BY ChannelIs
<1>2. a.reserved > 0 /\ UNCHANGED <<connOpen, list, loopVars, fresh, globalVars>>
  BY DEF WriteData
<1>3. SendMessage(e, c, "data", r, a.code, ok, failed)
  BY DEF WriteData
<1>4. a.code \in Nat /\ a.user = "open"
  <2>1. a.code \in Nat /\ a.reserved \in Nat
    BY <1>1 DEF ChannelType
  <2> QED BY <1>1, <1>2, <2>1 DEF Local
<1>5. Speaks(a, c, "data", r, a.code, ok, failed)
  <2> DEFINE aux == a.code
  <2>1. aux \in Nat
    BY <1>4
  <2> HIDE DEF a, aux, r, i, j
  <2>2. r = a.reserved /\ i = a.todo - r /\ j = a.sent + r
    BY DEF r, i, j
  <2>3. Speaks(a, c, "data", r, aux, ok, failed)
    BY ZenonT(60), <1>1, <1>2, <2>1, <2>2, WriteDataSpeaks
  <2> QED BY <2>3 DEF aux
<1> HIDE DEF ok, failed
<1> QED BY <1>2, <1>3, <1>4, <1>5, SpeaksKeeps

\* The five that say something else.
LEMMA SpokenKeeps ==
  ASSUME Inv, UNCHANGED <<may, connOpen, list, loopVars, fresh, globalVars>>, NEW e \in Ends, NEW c \in DOMAIN chan[e], NEW a, a = chan[e][c], a.user = "open",
         NEW k \in Spoken \ {"data"}, NEW n \in Nat, NEW ok, NEW failed, SendMessage(e, c, k, n, 0, ok, failed),
         NEW o \in Nat, Pays(a, k, n, o), NEW w \in BOOLEAN, Asking(a, k, n, w), NEW r, Serves(a, k, r),
         SpokenIs(a, Succeeds(ok, k), k = "close", o, w, r), SpokenIs(a, Fails(a, failed, k), a.sentClose \/ k = "close", o, a.waits, r)
  PROVE  Inv'
<1>1. a \in ChannelType /\ Local(a) /\ c \in Nat /\ 0 \in Nat
  BY ChannelIs
<1>2. Speaks(a, c, k, n, 0, ok, failed)
  BY <1>1, SpokenSpeaks
<1> QED BY <1>2, SpeaksKeeps

LEMMA CloseWriteKeeps ==
  ASSUME Inv, UNCHANGED may, NEW e \in Ends, NEW c \in DOMAIN chan[e], CloseWrite(e, c)
  PROVE  Inv'
<1> DEFINE a == chan[e][c] ok == [a EXCEPT !.sentEOF = TRUE] k == "eof" o == a.owed w == a.waits r == a.reqs
<1>1. a \in ChannelType /\ Local(a) /\ c \in Nat
  BY ChannelIs
<1>2. a.user = "open" /\ SendMessage(e, c, "eof", 0, 0, ok, ok) /\ UNCHANGED <<connOpen, list, loopVars, fresh, globalVars>>
  BY DEF CloseWrite, Usable
<1>3. o \in Nat /\ w \in BOOLEAN /\ 0 \in Nat /\ k \in Spoken \ {"data"}
  BY <1>1 DEF ChannelType, Spoken
<1>4. Pays(a, k, 0, o) /\ Asking(a, k, 0, w) /\ Serves(a, k, r)
  BY DEF Pays, Asking, Serves
<1> HIDE DEF a
<1>5. SpokenIs(a, Succeeds(ok, k), k = "close", o, w, r)
  BY <1>1 DEF SpokenIs, Succeeds, ChannelType
<1>6. SpokenIs(a, Fails(a, ok, k), a.sentClose \/ k = "close", o, a.waits, r)
  BY ZenonT(60), <1>1 DEF SpokenIs, Fails, ChannelType
<1> HIDE DEF ok, k, o, w, r
<1>7. SendMessage(e, c, k, 0, 0, ok, ok)
  BY <1>2 DEF k
<1> QED BY <1>2, <1>3, <1>4, <1>5, <1>6, <1>7, SpokenKeeps DEF a

LEMMA CloseKeeps ==
  ASSUME Inv, UNCHANGED may, NEW e \in Ends, NEW c \in DOMAIN chan[e], Close(e, c)
  PROVE  Inv'
<1> DEFINE a == chan[e][c] ok == a k == "close" o == a.owed w == a.waits r == a.reqs
<1>1. a \in ChannelType /\ Local(a) /\ c \in Nat
  BY ChannelIs
<1>2. a.user = "open" /\ SendMessage(e, c, "close", 0, 0, ok, ok) /\ UNCHANGED <<connOpen, list, loopVars, fresh, globalVars>>
  BY DEF Close, Usable
<1>3. o \in Nat /\ w \in BOOLEAN /\ 0 \in Nat /\ k \in Spoken \ {"data"}
  BY <1>1 DEF ChannelType, Spoken
<1>4. Pays(a, k, 0, o) /\ Asking(a, k, 0, w) /\ Serves(a, k, r)
  BY DEF Pays, Asking, Serves
<1> HIDE DEF a
<1>5. SpokenIs(a, Succeeds(ok, k), k = "close", o, w, r)
  BY <1>1 DEF SpokenIs, Succeeds, ChannelType
<1>6. SpokenIs(a, Fails(a, ok, k), a.sentClose \/ k = "close", o, a.waits, r)
  BY <1>1 DEF SpokenIs, Fails, ChannelType
<1> HIDE DEF ok, k, o, w, r
<1>7. SendMessage(e, c, k, 0, 0, ok, ok)
  BY <1>2 DEF k
<1> QED BY <1>2, <1>3, <1>4, <1>5, <1>6, <1>7, SpokenKeeps DEF a

LEMMA SendAdjustKeeps ==
  ASSUME Inv, UNCHANGED may, NEW e \in Ends, NEW c \in DOMAIN chan[e], SendAdjust(e, c)
  PROVE  Inv'
<1> DEFINE a == chan[e][c] ok == [a EXCEPT !.owed = 0] k == "adjust" n == a.owed w == a.waits r == a.reqs
<1>1. a \in ChannelType /\ Local(a) /\ c \in Nat
  BY ChannelIs
<1>2. n > 0 /\ SendMessage(e, c, "adjust", n, 0, ok, ok) /\ UNCHANGED <<connOpen, list, loopVars, fresh, globalVars>>
  BY DEF SendAdjust
<1>3. n \in Nat /\ w \in BOOLEAN /\ 0 \in Nat /\ k \in Spoken \ {"data"}
  BY <1>1 DEF ChannelType, Spoken
<1>a. a.user = "open"
  BY <1>1, <1>2, <1>3 DEF Local
<1>4. Pays(a, k, n, 0) /\ Asking(a, k, n, w) /\ Serves(a, k, r)
  BY DEF Pays, Asking, Serves
<1> HIDE DEF a
<1>5. SpokenIs(a, Succeeds(ok, k), k = "close", 0, w, r)
  BY <1>1 DEF SpokenIs, Succeeds, ChannelType
<1>6. SpokenIs(a, Fails(a, ok, k), a.sentClose \/ k = "close", 0, a.waits, r)
  BY ZenonT(60), <1>1 DEF SpokenIs, Fails, ChannelType
<1> HIDE DEF ok, k, n, w, r
<1>7. SendMessage(e, c, k, n, 0, ok, ok)
  BY <1>2 DEF k
<1> QED BY <1>2, <1>a, <1>3, <1>4, <1>5, <1>6, <1>7, SpokenKeeps DEF a

LEMMA SendRequestKeeps ==
  ASSUME Inv, UNCHANGED may, NEW e \in Ends, NEW c \in DOMAIN chan[e], NEW wantReply \in BOOLEAN, SendRequest(e, c, wantReply)
  PROVE  Inv'
<1> DEFINE a == chan[e][c] j == a.asked + 1 w == a.waits \/ wantReply failed == [a EXCEPT !.asked = j] ok == [failed EXCEPT !.waits = w] k == "request"
           n == IF wantReply THEN 1 ELSE 0 o == a.owed r == a.reqs
<1>1. a \in ChannelType /\ Local(a) /\ c \in Nat
  BY ChannelIs
<1>3. o \in Nat /\ w \in BOOLEAN /\ a.waits \in BOOLEAN /\ n \in Nat /\ k \in Spoken \ {"data"} /\ a.asked \in Nat /\ j \in Nat
  <2>1. o \in Nat /\ a.waits \in BOOLEAN /\ a.asked \in Nat
    BY <1>1 DEF ChannelType
  <2>2. k \in Spoken \ {"data"}
    BY DEF Spoken
  <2> QED BY <2>1, <2>2
<1>2. a.user = "open" /\ (wantReply => ~a.waits) /\ SendMessage(e, c, "request", n, 0, [[a EXCEPT !.asked = @ + 1] EXCEPT !.waits = @ \/ wantReply], [a EXCEPT !.asked = @ + 1])
      /\ UNCHANGED <<connOpen, list, loopVars, fresh, globalVars>>
  BY DEF SendRequest, Usable
<1>a. [[a EXCEPT !.asked = @ + 1] EXCEPT !.waits = @ \/ wantReply] = ok /\ [a EXCEPT !.asked = @ + 1] = failed
  BY <1>1 DEF ChannelType
<1>4. Pays(a, k, n, o) /\ Asking(a, k, n, w) /\ Serves(a, k, r)
  BY <1>2, <1>3 DEF Pays, Asking, Serves
<1>7. SendMessage(e, c, k, n, 0, ok, failed)
  BY <1>2, <1>a
<1> HIDE DEF a, j, w, n
<1>5. SpokenIs(a, Succeeds(ok, k), k = "close", o, w, r)
  BY ZenonT(60), <1>1, <1>3 DEF SpokenIs, Succeeds, ChannelType
<1>6. SpokenIs(a, Fails(a, failed, k), a.sentClose \/ k = "close", o, a.waits, r)
  BY ZenonT(60), <1>1, <1>3 DEF SpokenIs, Fails, ChannelType
<1> HIDE DEF ok, failed, k, o, r
<1> QED BY <1>2, <1>3, <1>4, <1>5, <1>6, <1>7, SpokenKeeps DEF a

LEMMA ReplyKeeps ==
  ASSUME Inv, UNCHANGED may, NEW e \in Ends, NEW c \in DOMAIN chan[e], Reply(e, c)
  PROVE  Inv'
<1> DEFINE a == chan[e][c] q == a.reqs r == Tail(q) ok == [a EXCEPT !.reqs = r] k == "ack" o == a.owed w == a.waits
<1>1. a \in ChannelType /\ Local(a) /\ c \in Nat
  BY ChannelIs
<1>2. a.user = "open" /\ q # <<>> /\ UNCHANGED <<connOpen, list, loopVars, fresh, globalVars>>
      /\ IF Head(q) = 1 THEN SendMessage(e, c, "ack", 0, 0, ok, ok) ELSE chan' = [chan EXCEPT ![e] = [@ EXCEPT ![c] = ok]] /\ net' = net
  BY DEF Reply
<1>3. o \in Nat /\ w \in BOOLEAN /\ 0 \in Nat /\ k \in Spoken \ {"data"} /\ q \in Seq({0, 1}) /\ a.sentClose \in BOOLEAN
  BY <1>1 DEF ChannelType, Spoken
<1>4. r \in Seq({0, 1}) /\ Head(q) \in {0, 1} /\ Total(q) = Head(q) + Total(r) /\ Total(r) \in Nat
  <2> HIDE DEF q
  <2>1. q \in Seq(Nat) /\ r \in Seq({0, 1}) /\ r \in Seq(Nat) /\ Head(q) \in {0, 1}
    BY <1>2, <1>3
  <2> QED BY <1>2, <2>1, TotalTail, TotalNat
<1> HIDE DEF a, q, r
<1>5. SpokenIs(a, Succeeds(ok, k), k = "close", o, w, r)
  BY <1>1, <1>3, <1>4 DEF SpokenIs, Succeeds, ChannelType
<1>6. SpokenIs(a, Fails(a, ok, k), a.sentClose \/ k = "close", o, a.waits, r)
  BY ZenonT(60), <1>1, <1>3, <1>4 DEF SpokenIs, Fails, ChannelType
<1>7. SpokenIs(a, ok, a.sentClose, o, w, r)
  BY <1>1, <1>3, <1>4 DEF SpokenIs, ChannelType
<1>8. CASE Head(q) = 1
  <2>1. Pays(a, k, 0, o) /\ Asking(a, k, 0, w) /\ Serves(a, k, r)
    BY <1>4, <1>8 DEF Pays, Asking, Serves, q
  <2> HIDE DEF ok, k, o, w
  <2>2. SendMessage(e, c, k, 0, 0, ok, ok) /\ a.user = "open" /\ UNCHANGED <<may, connOpen, list, loopVars, fresh, globalVars>>
    BY <1>2, <1>8 DEF k
  <2>4. o \in Nat /\ w \in BOOLEAN /\ 0 \in Nat /\ k \in Spoken \ {"data"}
    BY <1>3
  <2> QED BY <1>5, <1>6, <2>1, <2>2, <2>4, SpokenKeeps, ZenonT(60) DEF a
<1>9. CASE Head(q) # 1
  <2>1. ok.user = a.user /\ ok.waits = a.waits
    BY <1>7 DEF SpokenIs
  <2>a. a.owed \in Nat /\ Total(r) <= Total(a.reqs)
    BY <1>3, <1>4 DEF q
  <2>2. \A both : Affords(a, ok, NoPacket, a.sentClose, o, r, both)
    <3>1. Waits(ok) = Waits(a) /\ Waits(a) \in Nat
      BY <1>1, <2>1, ChannelFields DEF Waits
    <3>2. Worth(NoPacket, "data") = 0 /\ Worth(NoPacket, "adjust") = 0 /\ Worth(NoPacket, "request") = 0 /\ Answering(NoPacket) = 0
      BY NothingWorth
    <3> HIDE DEF ok
    <3> QED BY <1>4, <2>a, <3>1, <3>2 DEF Affords
  <2>3. \A both \in BOOLEAN : Steps(a, ok, both, NoPacket, NoPacket)
    <3> DEFINE z == a.sentClose
    <3>1. a.user = "open" /\ z \in BOOLEAN /\ (a.sentClose => z) /\ (a.waits => w) /\ SpokenIs(a, ok, z, o, w, r) /\ \A both : Affords(a, ok, NoPacket, z, o, r, both)
      BY <1>2, <1>3, <1>7, <2>2
    <3> HIDE DEF ok, o, w, z
    <3> QED BY <1>1, <1>3, <3>1, SpokenSteps
  <2>4. UNCHANGED <<may, wireVars, list, loopVars, fresh, globalVars>>
    BY <1>2, <1>9 DEF wireVars
  <2>5. chan' = [chan EXCEPT ![e] = [@ EXCEPT ![c] = ok]]
    BY <1>2, <1>9
  <2> HIDE DEF ok
  <2> QED BY <1>2, <2>3, <2>4, <2>5, LocalStep DEF a
<1> QED BY <1>8, <1>9

\* Accept and Reject: a channel that waits is answered, once.
AnswerBecomes(a, b, u, z) ==
  /\ b \in ChannelType
  /\ b.dir = a.dir /\ b.user = u /\ b.localId = a.localId /\ b.remoteId = a.remoteId /\ b.decided = TRUE /\ b.sentClose = z
  /\ b.win = a.win /\ b.winClosed = a.winClosed /\ b.myWindow = a.myWindow /\ b.pending = a.pending /\ b.msg = a.msg /\ b.reqs = a.reqs
  /\ b.closed = a.closed /\ b.todo = a.todo /\ b.reserved = a.reserved /\ b.taken = a.taken /\ b.owed = a.owed /\ b.waits = a.waits
  /\ b.peer = a.peer /\ b.lost = a.lost

LEMMA AnswerSteps ==
  ASSUME NEW a \in ChannelType, Local(a), a.user = "waiting", NEW u \in {"open", "none"}, NEW z \in BOOLEAN, a.sentClose => z, NEW b, AnswerBecomes(a, b, u, z),
         NEW both \in BOOLEAN, NEW g, Worth(g, "data") = 0, Worth(g, "adjust") = 0, Worth(g, "request") = 0, Answering(g) \in {0, 1}
  PROVE  Steps(a, b, both, NoPacket, g)
<1>1. b \in ChannelType
      /\ b.dir = a.dir /\ b.user = u /\ b.localId = a.localId /\ b.remoteId = a.remoteId /\ b.decided = TRUE /\ b.sentClose = z
      /\ b.win = a.win /\ b.winClosed = a.winClosed /\ b.myWindow = a.myWindow /\ b.pending = a.pending /\ b.msg = a.msg /\ b.reqs = a.reqs
      /\ b.closed = a.closed /\ b.todo = a.todo /\ b.reserved = a.reserved /\ b.taken = a.taken /\ b.owed = a.owed /\ b.waits = a.waits
      /\ b.peer = a.peer /\ b.lost = a.lost
  BY DEF AnswerBecomes
<1>2. a.dir = "in" /\ a.peer # 0 /\ a.todo = 0 /\ a.reserved = 0 /\ a.taken = 0 /\ a.owed = 0 /\ ~a.waits /\ a.msg = <<>> /\ (a.closed => z)
  BY DEF Local, ChannelType
<1>3. Keeps(a, b)
  BY <1>1, <1>2 DEF Keeps
<1>4. Local(b)
  BY <1>1, <1>2 DEF Local
<1>5. a.win \in Nat /\ a.myWindow \in Nat /\ Total(a.reqs) \in Nat /\ Len(a.msg) \in Nat
  BY ChannelFields
<1>6. Worth(NoPacket, "data") = 0 /\ Worth(NoPacket, "adjust") = 0 /\ Worth(NoPacket, "request") = 0 /\ Answering(NoPacket) = 0
  BY NothingWorth
<1>7. Passes(both, a, b, NoPacket, g)
  BY <1>1, <1>2, <1>5, <1>6 DEF Passes
<1>8. Due(a, b, NoPacket, g)
  <2>1. Waits(a) = 0 /\ Waits(b) = 0 /\ Answers(a) = Total(a.reqs) + 1 /\ Answers(b) = Total(a.reqs) + 0
    BY <1>1, <1>2 DEF Waits, Answers
  <2> QED BY <1>1, <1>5, <1>6, <2>1 DEF Due
<1> QED BY <1>1, <1>3, <1>4, <1>7, <1>8 DEF Steps

LEMMA AnswerSpeaks ==
  ASSUME NEW a \in ChannelType, Local(a), a.user = "waiting", a.myWindow = WindowSize, NEW c \in Nat, NEW k \in Responses, NEW u, NEW ok, NEW failed,
         u = IF k = "confirm" THEN "open" ELSE "none", AnswerBecomes(a, Succeeds(ok, k), u, FALSE), AnswerBecomes(a, Fails(a, failed, k), "none", a.sentClose)
  PROVE  Speaks(a, c, k, a.myWindow, a.localId, ok, failed)
<1> DEFINE x == Succeeds(ok, k) y == Fails(a, failed, k) p == Sending(a, k, a.myWindow, a.localId, c)
<1>0. a.sentClose \in BOOLEAN /\ a.myWindow \in Nat /\ a.localId \in Nat /\ a.remoteId \in Nat /\ u \in {"open", "none"} /\ "none" \in {"open", "none"}
  BY DEF ChannelType
<1>1. AnswerBecomes(a, x, u, FALSE) /\ AnswerBecomes(a, y, "none", a.sentClose) /\ x.user = u
  BY DEF AnswerBecomes
<1> HIDE DEF x, y
<1>2. Worth(NoPacket, "data") = 0 /\ Worth(NoPacket, "adjust") = 0 /\ Worth(NoPacket, "request") = 0 /\ Answering(NoPacket) \in {0, 1}
  BY NothingWorth
<1>3. p.kind = k /\ p.id = a.remoteId /\ p.n = a.myWindow /\ p.aux = a.localId /\ p.from = c
  BY DEF Sending, Packet
<1>4. p \in PacketType
  BY <1>0 DEF Sending, Packet, PacketType, Kinds
<1> HIDE DEF p
<1>5. Worth(p, "data") = 0 /\ Worth(p, "adjust") = 0 /\ Worth(p, "request") = 0 /\ Answering(p) \in {0, 1} /\ Carries(p)
  BY <1>3 DEF Worth, Answering, Responses, Carries, Globals
<1>6. ASSUME ~a.sentClose
      PROVE  May(a, x, c, p) /\ Steps(a, x, TRUE, NoPacket, p) /\ Steps(a, x, FALSE, NoPacket, NoPacket)
  <2>1. a.dir = "in" /\ a.peer # 0 /\ ~Done(a)
    BY <1>6 DEF Local, Done, ChannelType
  <2>2. May(a, x, c, p)
    BY <1>1, <1>3, <1>5, <2>1 DEF May, Responses
  <2>3. Steps(a, x, TRUE, NoPacket, p)
    BY <1>0, <1>1, <1>5, <1>6, AnswerSteps
  <2>4. Steps(a, x, FALSE, NoPacket, NoPacket)
    BY <1>0, <1>1, <1>2, <1>6, AnswerSteps
  <2> QED BY <2>2, <2>3, <2>4
<1>7. ASSUME NEW both \in BOOLEAN, both => a.sentClose PROVE Steps(a, y, both, NoPacket, NoPacket)
  BY <1>0, <1>1, <1>2, AnswerSteps
<1> QED BY <1>4, <1>6, <1>7 DEF Speaks, x, y, p

LEMMA AnswerKeeps ==
  ASSUME Inv, UNCHANGED may, NEW e \in Ends, NEW accept \in BOOLEAN, Answer(e, accept)
  PROVE  Inv'
<1> DEFINE q == fresh[e] c == Head(q) a == chan[e][c] f == Peer(e) k == IF accept THEN "confirm" ELSE "failure" u == IF accept THEN "open" ELSE "none"
           ch == [a EXCEPT !.decided = TRUE] ok == [ch EXCEPT !.user = u] failed == [ch EXCEPT !.user = "none"]
<1>0. f \in Ends /\ Peer(f) = e /\ Now.chan = chan /\ Now.fresh = fresh /\ fresh \in [Ends -> Seq(Nat)] /\ Good(Now) /\ Now \in ViewType /\ q \in Seq(Nat)
  BY StateIs, NowFields, PeerFacts
<1>1. q # <<>> /\ SendMessage(e, c, k, ch.myWindow, ch.localId, ok, failed) /\ fresh' = [fresh EXCEPT ![e] = Tail(q)] /\ UNCHANGED <<connOpen, list, loopVars, globalVars>>
  BY DEF Answer
<1>2. 1 \in DOMAIN q /\ c = q[1]
  <2> HIDE DEF q
  <2> QED BY <1>0, <1>1
<1>3. c \in DOMAIN chan[e] /\ a.user = "waiting"
  <2>1. FreshOK(Now, e)
    BY <1>0 DEF Good
  <2> QED BY <1>0, <1>2, <2>1 DEF FreshOK
<1>4. a \in ChannelType /\ Local(a) /\ c \in Nat
  BY <1>3, ChannelIs
<1>5. a.dir = "in" /\ a.peer # 0
  BY <1>3, <1>4 DEF Local, ChannelType
<1>6. a.myWindow = WindowSize
  <2> DEFINE d == a.peer o == chan[f][d]
  <2>1. IsPartner(Now, e, c, f, d)
    <3>1. PeersOK(Now, e) /\ c \in DOMAIN Now.chan[e] /\ Now.chan[e][c].peer # 0
      BY <1>0, <1>3, <1>5 DEF Good
    <3> QED BY <1>0, <3>1, Partner
  <2>2. d \in DOMAIN chan[f] /\ o.dir # a.dir /\ ~o.decided
    BY ZenonT(60), <1>0, <1>3, <1>5, <2>1 DEF IsPartner
  <2>3. o \in ChannelType /\ Local(o)
    BY <1>0, <2>2, ChannelIs
  <2>4. o.peer = 0
    BY ZenonT(60), <1>5, <2>2, <2>3 DEF Local, ChannelType
  <2>5. WindowIs(Now, f, c)
    <3>1. WindowsOK(Now, f)
      BY <1>0 DEF Good
    <3> QED BY <1>0, <1>3, <3>1 DEF WindowsOK
  <2> QED BY <1>0, <1>5, <2>4, <2>5 DEF WindowIs
<1>7. ch.myWindow = a.myWindow /\ ch.localId = a.localId
  BY <1>4 DEF ChannelType
<1>8. SendMessage(e, c, k, a.myWindow, a.localId, ok, failed)
  BY <1>1, <1>7
<1>9. k \in Responses /\ u = (IF k = "confirm" THEN "open" ELSE "none") /\ k # "close" /\ u \in {"open", "none"}
  BY DEF Responses
<1> HIDE DEF a, c, k, u
<1>10. AnswerBecomes(a, Succeeds(ok, k), u, FALSE)
  BY ZenonT(60), <1>4, <1>9 DEF AnswerBecomes, Succeeds, ChannelType
<1>11. AnswerBecomes(a, Fails(a, failed, k), "none", a.sentClose)
  BY ZenonT(60), <1>4, <1>9 DEF AnswerBecomes, Fails, ChannelType
<1>12. Speaks(a, c, k, a.myWindow, a.localId, ok, failed)
  <2> HIDE DEF ok, failed
  <2> QED BY <1>3, <1>4, <1>6, <1>9, <1>10, <1>11, AnswerSpeaks
<1>13. Rests(a, e, c, k, ok, failed, Tail(q))
  <2>1. Succeeds(ok, k).user = u /\ Fails(a, failed, k).user = "none"
    BY <1>10, <1>11 DEF AnswerBecomes
  <2>2. k = "confirm" \/ u # "open"
    BY <1>9
  <2> HIDE DEF ok, failed
  <2> QED BY <1>1, <2>1, <2>2 DEF Rests, c
<1> HIDE DEF ok, failed, q
<1>14. a = chan[e][c] /\ UNCHANGED <<may, connOpen, list, loopVars, globalVars>>
  BY <1>1 DEF a
<1> QED BY <1>1, <1>3, <1>8, <1>12, <1>13, <1>14, SendStep DEF a

-----------------------------------------------------------------------------
(* What a packet does to the channel it is for *)

LEMMA TakenWorth ==
  ASSUME NEW t \in PacketType
  PROVE  /\ t.n \in Nat /\ t # NoPacket
         /\ Worth(t, "data") = (IF t.kind = "data" THEN t.n ELSE 0) /\ Worth(t, "adjust") = (IF t.kind = "adjust" THEN t.n ELSE 0)
         /\ Worth(t, "request") = (IF t.kind = "request" THEN t.n ELSE 0) /\ Answering(t) = (IF t.kind \in {"ack"} \cup Responses THEN 1 ELSE 0)
<1>1. t.n \in Nat /\ t # NoPacket
  BY DEF PacketType, NoPacket, Packet, Kinds, Responses, Globals
<1> QED BY <1>1 DEF Worth, Answering

\* What each kind of packet leaves as it was.
TakenIs(a, b, w, m, p, l, s, r) ==
  /\ b \in ChannelType
  /\ b.dir = a.dir /\ b.user = a.user /\ b.localId = a.localId /\ b.remoteId = a.remoteId /\ b.decided = a.decided /\ b.sentClose = a.sentClose
  /\ b.win = w /\ b.winClosed = a.winClosed /\ b.myWindow = m /\ b.pending = p /\ b.msg = s /\ b.reqs = r
  /\ b.closed = a.closed /\ b.todo = a.todo /\ b.reserved = a.reserved /\ b.taken = a.taken /\ b.owed = a.owed /\ b.waits = a.waits
  /\ b.peer = a.peer /\ b.lost = l

LEMMA TakenSteps ==
  ASSUME NEW a \in ChannelType, Local(a), a.peer # 0, NEW t \in PacketType, NEW w, NEW m, NEW p, NEW l, NEW s, NEW r, NEW b, TakenIs(a, b, w, m, p, l, s, r),
         w = a.win + Worth(t, "adjust"), m + Worth(t, "data") = a.myWindow, m + a.taken + p[0] + p[1] + l = WindowSize, Total(r) <= Total(a.reqs) + Worth(t, "request"),
         Len(s) <= Len(a.msg) + Answering(t), Len(s) <= 1, s # <<>> => s = a.msg \/ (s[1] = "ack" /\ Waits(a) = 1), NEW both \in BOOLEAN
  PROVE  Steps(a, b, both, t, NoPacket)
<1>1. b \in ChannelType
      /\ b.dir = a.dir /\ b.user = a.user /\ b.localId = a.localId /\ b.remoteId = a.remoteId /\ b.decided = a.decided /\ b.sentClose = a.sentClose
      /\ b.win = w /\ b.winClosed = a.winClosed /\ b.myWindow = m /\ b.pending = p /\ b.msg = s /\ b.reqs = r
      /\ b.closed = a.closed /\ b.todo = a.todo /\ b.reserved = a.reserved /\ b.taken = a.taken /\ b.owed = a.owed /\ b.waits = a.waits
      /\ b.peer = a.peer /\ b.lost = l
  BY DEF TakenIs
<1>2. Keeps(a, b)
  BY <1>1 DEF Keeps
<1>3. a.dir = "out" => a.decided
  BY DEF Local
<1>4. s # <<>> => a.user = "opening" \/ a.waits
  <2>1. Waits(a) = 1 => a.waits \/ a.user = "opening"
    BY DEF Waits
  <2>2. a.msg # <<>> => a.user = "opening" \/ a.waits
    BY DEF Local
  <2> QED BY <2>1, <2>2
<1>5. Local(b)
  <2>1. a.dir = "out" /\ s # <<>> /\ s[1] = "confirm" => a.peer # 0
    OBVIOUS
  <2> QED BY <1>1, <1>3, <1>4, <2>1 DEF Local
<1>6. Worth(NoPacket, "data") = 0 /\ Worth(NoPacket, "adjust") = 0 /\ Worth(NoPacket, "request") = 0 /\ Answering(NoPacket) = 0
  BY NothingWorth
<1> DEFINE x == Worth(t, "adjust") y == Worth(t, "data") z == Worth(t, "request") i == Answering(t)
<1>7. x \in Nat /\ y \in Nat /\ z \in Nat /\ i \in Nat /\ t # NoPacket
  BY TakenWorth
<1>8. a.win \in Nat /\ a.reserved \in Nat /\ a.owed \in Nat /\ a.myWindow \in Nat /\ m \in Nat /\ Total(a.reqs) \in Nat /\ Total(r) \in Nat /\ Len(a.msg) \in Nat /\ Len(s) \in Nat
  BY <1>1, ChannelFields
<1>9. Passes(both, a, b, t, NoPacket)
  <2>1. w = a.win + x /\ m + y = a.myWindow
    OBVIOUS
  <2> HIDE DEF x, y
  <2>a. (w + a.reserved + 0 = a.win + a.reserved + x /\ w + a.reserved + 0 <= a.win + a.reserved + x)
        /\ a.owed + 0 + a.myWindow = a.owed + y + m /\ a.owed + 0 + a.myWindow <= a.owed + y + m
    <3> DEFINE A == a.win B == a.reserved C == a.owed D == a.myWindow
    <3>1. A \in Nat /\ B \in Nat /\ C \in Nat /\ D \in Nat /\ m \in Nat /\ w = A + x /\ m + y = D
      BY <1>8, <2>1
    <3> HIDE DEF A, B, C, D
    <3>2. w + B + 0 = A + B + x /\ w + B + 0 <= A + B + x /\ C + 0 + D = C + y + m /\ C + 0 + D <= C + y + m
      BY <1>7, <3>1
    <3> QED BY <3>2 DEF A, B, C, D
  <2> QED BY <1>1, <1>6, <1>7, <2>a DEF Passes, x, y
<1>10. Due(a, b, t, NoPacket)
  <2>1. Waits(b) = Waits(a) /\ Waits(a) \in Nat
    BY <1>1, ChannelFields DEF Waits
  <2>2. Answers(b) <= Answers(a) + z
    <3> DEFINE v == IF a.user = "waiting" THEN 1 ELSE 0 A == Total(r) B == Total(a.reqs)
    <3>1. A <= B + z /\ A \in Nat /\ B \in Nat /\ v \in Nat
      BY <1>8
    <3>2. Answers(a) = B + v /\ Answers(b) = A + v
      BY <1>1 DEF Answers
    <3> HIDE DEF z, v, A, B
    <3>3. A + v <= B + v + z
      BY <1>7, <3>1
    <3> QED BY <3>2, <3>3
  <2>3. Answers(b) \in Nat
    BY <1>1, ChannelFields
  <2>4. Len(s) <= Len(a.msg) + i
    OBVIOUS
  <2> HIDE DEF i, z
  <2>5. 0 + Len(b.msg) + Waits(a) <= Len(a.msg) + i + Waits(b)
    BY <1>1, <1>7, <1>8, <2>1, <2>4
  <2>6. 0 + Answers(b) <= Answers(a) + z
    BY <2>2, <2>3
  <2> QED BY <1>6, <2>5, <2>6 DEF Due, i, z
<1> QED BY <1>1, <1>2, <1>5, <1>9, <1>10 DEF Steps

-----------------------------------------------------------------------------
(* The steps of the loop *)

LEMMA HeldIs ==
  ASSUME Inv, NEW e \in Ends, loop[e] = "push"
  PROVE  /\ held[e] \in PacketType /\ held[e] # NoPacket /\ Running(e) /\ Coming(e) \in Seq(PacketType) /\ Coming(e) # <<>> /\ Head(Coming(e)) = held[e]
         /\ 1 \in DOMAIN Coming(e) /\ Coming(e)[1] = held[e] /\ PacketIs(Now, e, held[e]) /\ OpenIs(Now, e, held[e])
<1>1. ShapeOK /\ Good(Now) /\ Now.in[e] = Coming(e)
  BY StateIs, NowFields
<1>2. held[e] # NoPacket /\ held[e] \in PacketType /\ Running(e)
  BY <1>1 DEF Inv, LoopOK, ShapeOK, Running
<1>3. Coming(e) \in Seq(PacketType) /\ Coming(e) # <<>> /\ Head(Coming(e)) = held[e]
  BY <1>1, <1>2, ComingIs
<1>4. 1 \in DOMAIN Coming(e) /\ Coming(e)[1] = held[e]
  <2> DEFINE w == Coming(e)
  <2>1. w \in Seq(PacketType) /\ w # <<>> /\ Head(w) = held[e]
    BY <1>3
  <2> HIDE DEF w
  <2>2. 1 \in DOMAIN w /\ w[1] = held[e]
    BY <2>1
  <2> QED BY <2>2 DEF w
<1>5. PacketIs(Now, e, held[e]) /\ OpenIs(Now, e, held[e])
  BY <1>1, <1>4 DEF Good, PacketsOK, OpensOK
<1> QED BY <1>2, <1>3, <1>4, <1>5

\* A packet finds the channel that it is for.
Finds(e, c, d) ==
  LET t == held[e] f == Peer(e) a == chan[e][c] IN
  /\ c \in DOMAIN chan[e] /\ c # 0 /\ d = t.from /\ d \in DOMAIN chan[f] /\ d # 0 /\ c = chan[f][d].peer /\ GetChan(list[e], t.id) = c /\ t.id = a.localId
  /\ a \in ChannelType /\ Local(a) /\ ~a.closed /\ IsPartner(Now, f, d, e, c)
  /\ t.kind = "data" => t.n <= MaxPacket
  /\ t.kind = "request" => t.n \in {0, 1}
  /\ t.kind \notin Responses => a.peer = d

LEMMA HeldFinds ==
  ASSUME Inv, NEW e \in Ends, loop[e] = "push", Carries(held[e]), NEW c, NEW d, d = held[e].from, c = chan[Peer(e)][d].peer
  PROVE  Finds(e, c, d)
<1> DEFINE t == held[e] f == Peer(e) a == chan[e][c] w == Coming(e)
<1>0. f \in Ends /\ Peer(f) = e /\ Now.chan = chan /\ Now.list = list /\ Now.in[e] = w /\ Now.runs[e] = Running(e) /\ Good(Now) /\ Now \in ViewType
  BY PeerFacts, NowFields, StateIs
<1>1. 1 \in DOMAIN w /\ w[1] = t /\ Running(e) /\ PacketIs(Now, e, t) /\ w \in Seq(PacketType)
  BY HeldIs
<1>2. d \in DOMAIN chan[f] /\ c # 0 /\ t.id = a.localId /\ Listed(Now, e, c) /\ (t.kind = "data" => t.n <= MaxPacket) /\ (t.kind = "request" => t.n \in {0, 1})
  BY <1>0, <1>1 DEF PacketIs
<1>3. IsPartner(Now, f, d, e, c)
  <2>1. PeersOK(Now, f) /\ d \in DOMAIN Now.chan[f] /\ Now.chan[f][d].peer # 0
    BY <1>0, <1>2 DEF Good
  <2> QED BY <1>0, <2>1, Partner
<1>4. c \in DOMAIN chan[e]
  BY ZenonT(60), <1>0, <1>3 DEF IsPartner
<1>5. a \in ChannelType /\ Local(a)
  BY <1>4, ChannelIs
<1>6. GetChan(list[e], t.id) = c
  BY <1>0, <1>2 DEF Listed
<1>7. ~a.closed
  <2>1. ListOK(Now, e)
    BY <1>0 DEF Good
  <2> QED BY <1>0, <1>1, <1>2, <1>4, <2>1 DEF ListOK
<1>8. ASSUME t.kind \notin Responses PROVE a.peer = d
  <2>1. Told(Now, e, t.from) \/ \E j \in DOMAIN w : j < 1 /\ w[j].kind = "confirm" /\ w[j].from = t.from
    <3>1. PacketsOK(Now, e)
      BY <1>0 DEF Good
    <3> QED BY <1>0, <1>1, <1>8, <3>1 DEF PacketsOK
  <2>2. \A j \in DOMAIN w : ~(j < 1)
    <3> HIDE DEF w
    <3> QED BY <1>1
  <2>3. Told(Now, e, t.from)
    BY <2>1, <2>2
  <2> QED BY <1>0, <2>3 DEF Told
<1>9. d # 0
  BY <1>0, <1>2, ChannelIs
<1> QED BY ZenonT(60), <1>2, <1>3, <1>4, <1>5, <1>6, <1>7, <1>8, <1>9 DEF Finds

LEMMA SetKeeps ==
  ASSUME Inv, UNCHANGED may, NEW e \in Ends, loop[e] = "push", Carries(held[e]), held[e].kind \notin Responses, NEW c, NEW d, Finds(e, c, d), NEW b,
         Set(e, c, b), UNCHANGED <<fresh, globalReqs, globalResp, connOpen, asking>>, held' = [held EXCEPT ![e] = NoPacket],
         \A both \in BOOLEAN : Steps(chan[e][c], b, both, held[e], NoPacket), chan[e][c].user = "waiting" => b.user = "waiting"
  PROVE  Inv'
<1>1. held[e] # NoPacket /\ BothOpen(Now) \in BOOLEAN
  BY HeldIs, StateIs
<1>2. c \in DOMAIN chan[e] /\ chan[Peer(e)][held[e].from].peer = c
  BY ZenonT(60) DEF Finds
<1>3. Steps(chan[e][c], b, BothOpen(Now), held[e], NoPacket)
  BY <1>1
<1>4. GivenOK(e, c, b)
  BY <1>2, <1>3 DEF GivenOK, Steps
<1>5. chan' = [chan EXCEPT ![e] = [@ EXCEPT ![c] = b]] /\ net' = net /\ list' = list /\ err' = err /\ loop' = [loop EXCEPT ![e] = "run"]
  BY DEF Set
<1>6. may' = may /\ connOpen' = connOpen /\ fresh' = fresh /\ globalReqs' = globalReqs /\ globalResp' = globalResp /\ asking' = asking
  OBVIOUS
<1> QED BY <1>1, <1>4, <1>5, <1>6, LoopChannel

\* What the loop of e leaves alone when it gives a packet to a channel.
Giving(e) == UNCHANGED <<may, fresh, globalReqs, globalResp, connOpen, asking>> /\ held' = [held EXCEPT ![e] = NoPacket]

LEMMA TakenKeeps ==
  ASSUME Inv, NEW e \in Ends, loop[e] = "push", held[e].kind \in Spoken, NEW c, NEW d, Finds(e, c, d), Giving(e), NEW b, Set(e, c, b),
         \A both \in BOOLEAN : Steps(chan[e][c], b, both, held[e], NoPacket), b.user = chan[e][c].user
  PROVE  Inv'
<1>1. Carries(held[e]) /\ held[e].kind \notin Responses
  BY DEF Carries, Spoken, Responses, Globals
<1>2. UNCHANGED may /\ UNCHANGED <<fresh, globalReqs, globalResp, connOpen, asking>> /\ held' = [held EXCEPT ![e] = NoPacket]
  BY DEF Giving
<1> QED BY <1>1, <1>2, SetKeeps

LEMMA RoomForData ==
  ASSUME Inv, NEW e \in Ends, loop[e] = "push", held[e].kind = "data", NEW c, NEW d, Finds(e, c, d)
  PROVE  held[e].n \in Nat /\ held[e].n <= chan[e][c].myWindow
<1> DEFINE t == held[e] f == Peer(e) a == chan[e][c] o == chan[f][d] w == Coming(e) n == t.n
<1>0. f \in Ends /\ Now.chan = chan /\ Now.in[e] = w /\ Now.in[f] = Coming(f) /\ Good(Now) /\ ShapeOK
  BY PeerFacts, NowFields, StateIs
<1>1. w \in Seq(PacketType) /\ w # <<>> /\ Head(w) = t /\ t \in PacketType /\ Coming(f) \in Seq(PacketType)
  BY <1>0, HeldIs, ComingIs
<1>2. d \in DOMAIN chan[f] /\ c = o.peer /\ c # 0 /\ a \in ChannelType /\ t.from = d
  BY ZenonT(60) DEF Finds
<1>3. o \in ChannelType
  BY <1>0, <1>2, ChannelIs
<1>4. WindowIs(Now, e, d)
  <2>1. WindowsOK(Now, e)
    BY <1>0 DEF Good
  <2> QED BY <1>0, <1>2, <2>1 DEF WindowsOK
<1> DEFINE A == o.win B == o.reserved C == a.owed D == Amount(w, "data", d) E == Amount(Coming(f), "adjust", c) W == a.myWindow R == Amount(Tail(w), "data", d)
<1>5. A + B + C + D + E <= W
  BY <1>0, <1>2, <1>4 DEF WindowIs, Credit
<1>6. A \in Nat /\ B \in Nat /\ C \in Nat /\ E \in Nat /\ W \in Nat
  BY <1>1, <1>2, <1>3, ChannelFields, AmountNat
<1>7. n \in Nat /\ D = n + R /\ R \in Nat
  <2>1. AmountFacts(w, t, "data", d)
    BY <1>1, AmountMoves
  <2>2. D = Weight(Head(w), "data", d) + R
    BY <1>1, <2>1 DEF AmountFacts
  <2>3. Weight(t, "data", d) = n
    BY <1>2 DEF Weight
  <2>4. Tail(w) \in Seq(PacketType)
    <3> HIDE DEF w
    <3> QED BY <1>1
  <2>5. R \in Nat
    BY <2>4, AmountNat
  <2>6. n \in Nat
    BY <1>1, TakenWorth
  <2> QED BY <1>1, <2>2, <2>3, <2>5, <2>6
<1>8. n <= W
  <2> HIDE DEF n, A, B, C, D, E, W, R
  <2> QED BY <1>5, <1>6, <1>7
<1> QED BY <1>7, <1>8

Taking(a, t, w, m, p, l, s, r) ==
  /\ w = a.win + Worth(t, "adjust") /\ m + Worth(t, "data") = a.myWindow /\ m + a.taken + p[0] + p[1] + l = WindowSize
  /\ Total(r) <= Total(a.reqs) + Worth(t, "request") /\ Len(s) <= Len(a.msg) + Answering(t) /\ Len(s) <= 1
  /\ s # <<>> => s = a.msg \/ (s[1] = "ack" /\ Waits(a) = 1)

LEMMA TakingSteps ==
  ASSUME NEW a \in ChannelType, Local(a), a.peer # 0, NEW t \in PacketType, NEW w, NEW m, NEW p, NEW l, NEW s, NEW r, NEW b,
         TakenIs(a, b, w, m, p, l, s, r), Taking(a, t, w, m, p, l, s, r)
  PROVE  (\A both \in BOOLEAN : Steps(a, b, both, t, NoPacket)) /\ b.user = a.user
<1>1. b.user = a.user
  BY DEF TakenIs
<1>2. w = a.win + Worth(t, "adjust") /\ m + Worth(t, "data") = a.myWindow /\ m + a.taken + p[0] + p[1] + l = WindowSize
      /\ Total(r) <= Total(a.reqs) + Worth(t, "request") /\ Len(s) <= Len(a.msg) + Answering(t) /\ Len(s) <= 1
      /\ (s # <<>> => s = a.msg \/ (s[1] = "ack" /\ Waits(a) = 1))
  BY DEF Taking
<1>3. ASSUME NEW both \in BOOLEAN PROVE Steps(a, b, both, t, NoPacket)
  BY <1>2, TakenSteps
<1> QED BY <1>1, <1>3

LEMMA DataType ==
  ASSUME NEW a \in ChannelType, NEW m \in Nat, NEW p \in [{0, 1} -> Nat], NEW l \in Nat, NEW b, b = [a EXCEPT !.myWindow = m, !.pending = p, !.lost = l]
  PROVE  TakenIs(a, b, a.win, m, p, l, a.msg, a.reqs)
<1>1. b \in ChannelType
  BY DEF ChannelType
<1>2. /\ b.dir = a.dir /\ b.user = a.user /\ b.localId = a.localId /\ b.remoteId = a.remoteId /\ b.decided = a.decided /\ b.sentClose = a.sentClose
      /\ b.win = a.win /\ b.winClosed = a.winClosed /\ b.myWindow = m /\ b.pending = p /\ b.msg = a.msg /\ b.reqs = a.reqs
      /\ b.closed = a.closed /\ b.todo = a.todo /\ b.reserved = a.reserved /\ b.taken = a.taken /\ b.owed = a.owed /\ b.waits = a.waits
      /\ b.peer = a.peer /\ b.lost = l
  BY DEF ChannelType
<1> QED BY <1>1, <1>2 DEF TakenIs

DataGives(a, b, t, m) ==
  /\ m \in Nat /\ m + t.n = a.myWindow
  /\ \E p \in [{0, 1} -> Nat], l \in Nat : b = [a EXCEPT !.myWindow = m, !.pending = p, !.lost = l] /\ m + a.taken + p[0] + p[1] + l = WindowSize

LEMMA DataIs ==
  ASSUME NEW a \in ChannelType, NEW t \in PacketType, t.n <= a.myWindow, NEW m, m = a.myWindow - t.n, NEW b,
         b = (IF t.aux \in {0, 1} THEN [a EXCEPT !.myWindow = @ - t.n, !.pending[t.aux] = @ + t.n]
              ELSE [a EXCEPT !.myWindow = @ - t.n, !.lost = @ + t.n]),
         Local(a)
  PROVE  DataGives(a, b, t, m)
<1> DEFINE n == t.n W == a.myWindow
<1>1. n \in Nat /\ W \in Nat /\ n <= W /\ a.pending \in [{0, 1} -> Nat] /\ a.lost \in Nat /\ a.taken \in Nat /\ t.aux \in Nat
  BY DEF ChannelType, PacketType
<1>2. m \in Nat /\ m + n = W
  <2> HIDE DEF n, W
  <2>1. m = W - n
    BY DEF n, W
  <2> QED BY <1>1, <2>1
<1> DEFINE A == a.pending[0] B == a.pending[1] C == a.lost D == a.taken
<1>3. W + D + A + B + C = WindowSize /\ A \in Nat /\ B \in Nat /\ C \in Nat /\ D \in Nat
  BY <1>1 DEF Local
<1>4. CASE t.aux \in {0, 1}
  <2> DEFINE p == [a.pending EXCEPT ![t.aux] = @ + n]
  <2>1. p \in [{0, 1} -> Nat]
    BY <1>1, <1>4
  <2>2. b = [a EXCEPT !.myWindow = m, !.pending = p, !.lost = a.lost]
    BY <1>4 DEF ChannelType
  <2>3. (p[0] = A + n /\ p[1] = B) \/ (p[0] = A /\ p[1] = B + n)
    BY <1>1, <1>4
  <2>4. m + D + p[0] + p[1] + C = WindowSize
    <3> DEFINE X == p[0] Y == p[1]
    <3>1. (X = A + n /\ Y = B) \/ (X = A /\ Y = B + n)
      BY <2>3
    <3> HIDE DEF X, Y, A, B, C, D, n, W, p
    <3>2. m + D + X + Y + C = WindowSize
      BY <1>1, <1>2, <1>3, <3>1
    <3> QED BY <3>2 DEF X, Y
  <2> HIDE DEF p
  <2> QED BY ZenonT(60), <1>1, <1>2, <2>1, <2>2, <2>4 DEF DataGives
<1>5. CASE t.aux \notin {0, 1}
  <2> DEFINE l == a.lost + n
  <2>1. b = [a EXCEPT !.myWindow = m, !.pending = a.pending, !.lost = l]
    BY <1>5 DEF ChannelType
  <2>2. l \in Nat
    BY <1>1
  <2>3. m + D + A + B + l = WindowSize
    <3>1. l = C + n
      OBVIOUS
    <3> HIDE DEF A, B, C, D, n, W, l
    <3> QED BY <1>1, <1>2, <1>3, <3>1
  <2> HIDE DEF l
  <2> QED BY ZenonT(60), <1>1, <1>2, <2>1, <2>2, <2>3 DEF DataGives
<1> QED BY <1>4, <1>5

LEMMA DataKeeps ==
  ASSUME Inv, NEW e \in Ends, loop[e] = "push", held[e].kind = "data", NEW c, NEW d, Finds(e, c, d), Giving(e), HandleData(e, c, held[e])
  PROVE  Inv'
<1> DEFINE t == held[e] a == chan[e][c]
           b == IF t.aux \in {0, 1} THEN [a EXCEPT !.myWindow = @ - t.n, !.pending[t.aux] = @ + t.n]
                ELSE [a EXCEPT !.myWindow = @ - t.n, !.lost = @ + t.n]
           m == a.myWindow - t.n
<1>1. t \in PacketType /\ a \in ChannelType /\ Local(a) /\ t.n <= MaxPacket /\ a.peer # 0
  BY ZenonT(60), HeldIs DEF Finds, Responses
<1>2. t.n \in Nat /\ t.n <= a.myWindow
  BY RoomForData
<1>3. ~(t.n > MaxPacket) /\ ~(a.myWindow < t.n)
  <2>1. a.myWindow \in Nat
    BY <1>1, ChannelFields
  <2> QED BY <1>1, <1>2, <2>1, WindowAssumption
<1>4. Set(e, c, b)
  BY ZenonT(60), <1>3 DEF HandleData
<1> HIDE DEF b
<1>5. m \in Nat /\ m + t.n = a.myWindow
      /\ \E p \in [{0, 1} -> Nat], l \in Nat : b = [a EXCEPT !.myWindow = m, !.pending = p, !.lost = l] /\ m + a.taken + p[0] + p[1] + l = WindowSize
  <2>1. DataGives(a, b, t, m)
    BY ZenonT(60), <1>1, <1>2, DataIs DEF b
  <2> QED BY ZenonT(60), <2>1 DEF DataGives
<1>6. PICK p \in [{0, 1} -> Nat], l \in Nat : b = [a EXCEPT !.myWindow = m, !.pending = p, !.lost = l] /\ m + a.taken + p[0] + p[1] + l = WindowSize
  BY ZenonT(60), <1>5
<1> HIDE DEF m
<1>7. TakenIs(a, b, a.win, m, p, l, a.msg, a.reqs)
  BY ZenonT(60), <1>1, <1>5, <1>6, DataType
<1>8. Worth(t, "adjust") = 0 /\ Worth(t, "data") = t.n /\ Worth(t, "request") = 0 /\ Answering(t) = 0
  BY <1>1, TakenWorth DEF Responses
<1>9. a.win \in Nat /\ Total(a.reqs) \in Nat /\ Len(a.msg) \in Nat /\ Len(a.msg) <= 1
  BY <1>1, ChannelFields DEF Local
<1>10. a.win = a.win + Worth(t, "adjust") /\ m + Worth(t, "data") = a.myWindow /\ Total(a.reqs) <= Total(a.reqs) + Worth(t, "request") /\ Len(a.msg) <= Len(a.msg) + Answering(t)
  BY <1>5, <1>8, <1>9
<1>11. Taking(a, t, a.win, m, p, l, a.msg, a.reqs)
  BY <1>6, <1>9, <1>10 DEF Taking
<1>12. (\A both \in BOOLEAN : Steps(a, b, both, t, NoPacket)) /\ b.user = a.user
  BY <1>1, <1>7, <1>11, TakingSteps
<1>13. t.kind \in Spoken
  BY DEF Spoken
<1> QED BY <1>4, <1>12, <1>13, TakenKeeps

\* The channel's window, its queues and the requests that it has, after any other packet.
Given(a, w, s, r) == [a EXCEPT !.win = w, !.msg = s, !.reqs = r]

LEMMA GivenType ==
  ASSUME NEW a \in ChannelType, NEW w \in Nat, NEW s \in Seq({"ack"} \cup Responses), NEW r \in Seq({0, 1}), NEW x \in BOOLEAN, NEW b, b = [Given(a, w, s, r) EXCEPT !.eof = x]
  PROVE  TakenIs(a, b, w, a.myWindow, a.pending, a.lost, s, r)
<1>1. b \in ChannelType
  BY DEF ChannelType, Given
<1>2. /\ b.dir = a.dir /\ b.user = a.user /\ b.localId = a.localId /\ b.remoteId = a.remoteId /\ b.decided = a.decided /\ b.sentClose = a.sentClose
      /\ b.win = w /\ b.winClosed = a.winClosed /\ b.myWindow = a.myWindow /\ b.pending = a.pending /\ b.msg = s /\ b.reqs = r
      /\ b.closed = a.closed /\ b.todo = a.todo /\ b.reserved = a.reserved /\ b.taken = a.taken /\ b.owed = a.owed /\ b.waits = a.waits
      /\ b.peer = a.peer /\ b.lost = a.lost
  BY DEF ChannelType, Given
<1> QED BY <1>1, <1>2 DEF TakenIs

\* What the loop does with a packet for a channel that is neither data nor a close.
Receives(a, t, w, s, r, b) ==
  /\ w \in Nat /\ s \in Seq({"ack"} \cup Responses) /\ r \in Seq({0, 1}) /\ \E x \in BOOLEAN : b = [Given(a, w, s, r) EXCEPT !.eof = x]
  /\ w = a.win + Worth(t, "adjust") /\ Total(r) <= Total(a.reqs) + Worth(t, "request")
  /\ s = a.msg \/ (Answering(t) = 1 /\ s = <<"ack">> /\ Waits(a) = 1)

LEMMA ReceivesKeeps ==
  ASSUME Inv, NEW e \in Ends, loop[e] = "push", held[e].kind \in {"eof", "adjust", "request", "ack"}, NEW c, NEW d, Finds(e, c, d), Giving(e),
         NEW w, NEW s, NEW r, NEW b, Receives(chan[e][c], held[e], w, s, r, b), Set(e, c, b)
  PROVE  Inv'
<1> DEFINE t == held[e] a == chan[e][c]
<1>1. t \in PacketType /\ a \in ChannelType /\ Local(a) /\ a.peer # 0
  BY ZenonT(60), HeldIs DEF Finds, Responses
<1>2. PICK x \in BOOLEAN : b = [Given(a, w, s, r) EXCEPT !.eof = x]
  BY DEF Receives
<1>3. w \in Nat /\ s \in Seq({"ack"} \cup Responses) /\ r \in Seq({0, 1}) /\ w = a.win + Worth(t, "adjust") /\ Total(r) <= Total(a.reqs) + Worth(t, "request")
      /\ (s = a.msg \/ (Answering(t) = 1 /\ s = <<"ack">> /\ Waits(a) = 1))
  BY DEF Receives
<1>4. TakenIs(a, b, w, a.myWindow, a.pending, a.lost, s, r)
  BY <1>1, <1>2, <1>3, GivenType
<1>5. Worth(t, "data") = 0 /\ Answering(t) \in Nat
  BY <1>1, TakenWorth
<1>6. a.myWindow \in Nat /\ Len(a.msg) \in Nat /\ Len(a.msg) <= 1
  BY <1>1, ChannelFields DEF Local
<1>7. a.myWindow + a.taken + a.pending[0] + a.pending[1] + a.lost = WindowSize
  BY <1>1 DEF Local
<1>8. a.myWindow + Worth(t, "data") = a.myWindow
  BY <1>5, <1>6
<1>9. Len(s) <= Len(a.msg) + Answering(t) /\ Len(s) <= 1 /\ (s # <<>> => s = a.msg \/ (s[1] = "ack" /\ Waits(a) = 1))
  <2>1. CASE s = a.msg
    BY <1>5, <1>6, <2>1
  <2>2. CASE Answering(t) = 1 /\ s = <<"ack">> /\ Waits(a) = 1
    <3>1. Len(s) = 1 /\ s[1] = "ack"
      BY <2>2
    <3> QED BY <1>6, <2>2, <3>1
  <2> QED BY <1>3, <2>1, <2>2
<1>10. Taking(a, t, w, a.myWindow, a.pending, a.lost, s, r)
  BY <1>3, <1>7, <1>8, <1>9 DEF Taking
<1>11. (\A both \in BOOLEAN : Steps(a, b, both, t, NoPacket)) /\ b.user = a.user
  BY <1>1, <1>4, <1>10, TakingSteps
<1>12. t.kind \in Spoken
  BY DEF Spoken
<1> QED BY <1>11, <1>12, TakenKeeps

LEMMA EofKeeps ==
  ASSUME Inv, NEW e \in Ends, loop[e] = "push", held[e].kind = "eof", NEW c, NEW d, Finds(e, c, d), Giving(e), Set(e, c, [chan[e][c] EXCEPT !.eof = TRUE])
  PROVE  Inv'
<1> DEFINE t == held[e] a == chan[e][c] b == [a EXCEPT !.eof = TRUE]
<1>1. t \in PacketType /\ a \in ChannelType /\ Local(a)
  BY ZenonT(60), HeldIs DEF Finds
<1>2. a.win \in Nat /\ a.msg \in Seq({"ack"} \cup Responses) /\ a.reqs \in Seq({0, 1}) /\ Total(a.reqs) \in Nat
  BY <1>1, ChannelFields DEF ChannelType
<1>3. b = [Given(a, a.win, a.msg, a.reqs) EXCEPT !.eof = TRUE]
  BY <1>1 DEF Given, ChannelType
<1>4. Worth(t, "adjust") = 0 /\ Worth(t, "request") = 0
  BY <1>1, TakenWorth
<1>5. a.win = a.win + Worth(t, "adjust") /\ Total(a.reqs) <= Total(a.reqs) + Worth(t, "request")
  BY <1>2, <1>4
<1>6. Set(e, c, b) /\ TRUE \in BOOLEAN
  OBVIOUS
<1> HIDE DEF b
<1>7. Receives(a, t, a.win, a.msg, a.reqs, b)
  BY <1>2, <1>3, <1>5, <1>6 DEF Receives
<1> QED BY <1>6, <1>7, ReceivesKeeps

LEMMA AdjustKeeps ==
  ASSUME Inv, NEW e \in Ends, loop[e] = "push", held[e].kind = "adjust", NEW c, NEW d, Finds(e, c, d), Giving(e), Set(e, c, [chan[e][c] EXCEPT !.win = @ + held[e].n])
  PROVE  Inv'
<1> DEFINE t == held[e] a == chan[e][c] w == a.win + t.n b == [a EXCEPT !.win = @ + t.n]
<1>1. t \in PacketType /\ a \in ChannelType /\ Local(a)
  BY ZenonT(60), HeldIs DEF Finds
<1>2. a.win \in Nat /\ a.msg \in Seq({"ack"} \cup Responses) /\ a.reqs \in Seq({0, 1}) /\ Total(a.reqs) \in Nat /\ a.eof \in BOOLEAN
  BY <1>1, ChannelFields DEF ChannelType
<1>3. b = [Given(a, w, a.msg, a.reqs) EXCEPT !.eof = a.eof]
  BY <1>1 DEF Given, ChannelType
<1>4. Worth(t, "adjust") = t.n /\ Worth(t, "request") = 0 /\ t.n \in Nat
  BY <1>1, TakenWorth
<1>5. w \in Nat /\ w = a.win + Worth(t, "adjust") /\ Total(a.reqs) <= Total(a.reqs) + Worth(t, "request")
  BY ZenonT(60), SMTT(40), <1>2, <1>4
<1>6. Set(e, c, b)
  OBVIOUS
<1> HIDE DEF w, b
<1>7. Receives(a, t, w, a.msg, a.reqs, b)
  BY <1>2, <1>3, <1>5 DEF Receives
<1> QED BY <1>6, <1>7, ReceivesKeeps

LEMMA RequestKeeps ==
  ASSUME Inv, NEW e \in Ends, loop[e] = "push", held[e].kind = "request", NEW c, NEW d, Finds(e, c, d), Giving(e), Set(e, c, [chan[e][c] EXCEPT !.reqs = Append(@, held[e].n)])
  PROVE  Inv'
<1> DEFINE t == held[e] a == chan[e][c] r == Append(a.reqs, t.n) b == [a EXCEPT !.reqs = Append(@, t.n)]
<1>1. t \in PacketType /\ a \in ChannelType /\ Local(a) /\ t.n \in {0, 1}
  BY ZenonT(60), HeldIs DEF Finds
<1>2. a.win \in Nat /\ a.msg \in Seq({"ack"} \cup Responses) /\ a.reqs \in Seq({0, 1}) /\ Total(a.reqs) \in Nat /\ a.eof \in BOOLEAN
  BY <1>1, ChannelFields DEF ChannelType
<1>3. b = [Given(a, a.win, a.msg, r) EXCEPT !.eof = a.eof]
  BY <1>1 DEF Given, ChannelType
<1>4. Worth(t, "adjust") = 0 /\ Worth(t, "request") = t.n /\ t.n \in Nat
  BY <1>1, TakenWorth
<1>5. r \in Seq({0, 1}) /\ Total(r) = Total(a.reqs) + t.n
  <2>1. a.reqs \in Seq(Nat)
    <3>1. \A i \in 1..Len(a.reqs) : a.reqs[i] \in Nat
      BY SMTT(40), <1>2
    <3> QED BY <1>2, <3>1
  <2> QED BY <1>1, <1>2, <1>4, <2>1, TotalAppend
<1>6. a.win = a.win + Worth(t, "adjust") /\ Total(r) <= Total(a.reqs) + Worth(t, "request")
  BY <1>2, <1>4, <1>5
<1>7. Set(e, c, b)
  OBVIOUS
<1> HIDE DEF r, b
<1>8. Receives(a, t, a.win, a.msg, r, b)
  BY <1>2, <1>3, <1>5, <1>6 DEF Receives
<1> QED BY <1>7, <1>8, ReceivesKeeps

\* An answer on its way is the only one, and somebody waits for it.
LEMMA AckAwaited ==
  ASSUME Inv, NEW e \in Ends, loop[e] = "push", held[e].kind = "ack", NEW c, NEW d, Finds(e, c, d)
  PROVE  Waits(chan[e][c]) = 1 /\ chan[e][c].msg = <<>>
<1> DEFINE t == held[e] f == Peer(e) a == chan[e][c] o == chan[f][d] w == Coming(e)
<1>0. f \in Ends /\ Now.chan = chan /\ Now.in[e] = w /\ Now.in[f] = Coming(f) /\ Good(Now) /\ ShapeOK /\ Now.runs[e] = Running(e)
  BY PeerFacts, NowFields, StateIs
<1>1. w \in Seq(PacketType) /\ w # <<>> /\ Head(w) = t /\ t \in PacketType /\ Coming(f) \in Seq(PacketType) /\ Running(e)
  BY <1>0, HeldIs, ComingIs
<1>2. d \in DOMAIN chan[f] /\ c = o.peer /\ c # 0 /\ a \in ChannelType /\ t.from = d /\ ~a.closed
  BY ZenonT(60) DEF Finds
<1>3. o \in ChannelType
  BY <1>0, <1>2, ChannelIs
<1>4. AnswerIs(Now, e, d)
  <2>1. AnswersOK(Now, e)
    BY <1>0 DEF Good
  <2> QED BY <1>0, <1>2, <2>1 DEF AnswersOK
<1> DEFINE A == Tells(w, d) B == Amount(Coming(f), "request", c) r == Answers(o) m == Len(a.msg) z == Tells(Tail(w), d) v == Tell(t, d) x == Waits(a)
<1>5. A + B + r + m <= x
  BY <1>0, <1>1, <1>2, <1>4 DEF AnswerIs
<1>6. v = 1
  BY <1>2 DEF Tell
<1>7. A = v + z
  BY <1>1, TellsMoves
<1>8. z \in Nat
  <2>1. Tail(w) \in Seq(PacketType)
    <3> HIDE DEF w
    <3> QED BY <1>1
  <2> QED BY <2>1, AmountNat
<1>9. B \in Nat /\ r \in Nat /\ m \in Nat /\ x \in {0, 1}
  BY <1>1, <1>2, <1>3, AmountNat, ChannelFields
<1>10. x = 1 /\ m = 0
  <2> HIDE DEF A, B, r, m, z, v, x
  <2> QED BY <1>5, <1>6, <1>7, <1>8, <1>9
<1>11. a.msg = <<>>
  <2> DEFINE g == a.msg
  <2>1. g \in Seq({"ack"} \cup Responses) /\ Len(g) = 0
    BY <1>2, <1>10 DEF ChannelType
  <2> HIDE DEF g
  <2>2. g = <<>>
    BY <2>1
  <2> QED BY <2>2 DEF g
<1> QED BY <1>10, <1>11

LEMMA AckKeeps ==
  ASSUME Inv, NEW e \in Ends, loop[e] = "push", held[e].kind = "ack", NEW c, NEW d, Finds(e, c, d), Giving(e), Set(e, c, [chan[e][c] EXCEPT !.msg = Append(@, "ack")])
  PROVE  Inv'
<1> DEFINE t == held[e] a == chan[e][c] s == <<"ack">> b == [a EXCEPT !.msg = Append(@, "ack")]
<1>1. t \in PacketType /\ a \in ChannelType /\ Local(a)
  BY ZenonT(60), HeldIs DEF Finds
<1>2. a.win \in Nat /\ a.reqs \in Seq({0, 1}) /\ Total(a.reqs) \in Nat /\ a.eof \in BOOLEAN
  BY <1>1, ChannelFields DEF ChannelType
<1>3. Waits(a) = 1 /\ a.msg = <<>>
  BY AckAwaited
<1>4. s \in Seq({"ack"} \cup Responses) /\ Append(a.msg, "ack") = s
  BY <1>3
<1>5. b = [Given(a, a.win, s, a.reqs) EXCEPT !.eof = a.eof]
  <2>1. b = [a EXCEPT !.msg = s]
    BY <1>4
  <2> HIDE DEF b, s
  <2> QED BY <1>1, <2>1 DEF Given, ChannelType
<1>6. Worth(t, "adjust") = 0 /\ Worth(t, "request") = 0 /\ Answering(t) = 1
  BY <1>1, TakenWorth
<1>7. a.win = a.win + Worth(t, "adjust") /\ Total(a.reqs) <= Total(a.reqs) + Worth(t, "request")
  BY <1>2, <1>6
<1>8. Set(e, c, b)
  OBVIOUS
<1> HIDE DEF b
<1>9. Receives(a, t, a.win, s, a.reqs, b)
  BY <1>2, <1>3, <1>4, <1>5, <1>6, <1>7 DEF Receives
<1> HIDE DEF s
<1> QED BY <1>8, <1>9, ReceivesKeeps

-----------------------------------------------------------------------------
(* The packets that change more than one channel *)

LEMMA NowIs ==
  ASSUME NEW e \in Ends, NEW s, NEW u, Coming(e)' = s, Coming(Peer(e))' = u
  PROVE  Now' = View([x \in Ends |-> IF x = e THEN s ELSE u], chan', list', fresh', [x \in Ends |-> Running(x)'], connOpen')
<1>1. Now' = [in |-> [x \in Ends |-> Coming(x)'], chan |-> chan', list |-> list', fresh |-> fresh', runs |-> [x \in Ends |-> Running(x)'], open |-> connOpen']
  BY DEF Now
<1>2. [x \in Ends |-> Coming(x)'] = [x \in Ends |-> IF x = e THEN s ELSE u]
  BY PeerFacts
<1> QED BY <1>1, <1>2 DEF View

LEMMA InOf ==
  ASSUME Inv, NEW e \in Ends, NEW s
  PROVE  [Now.in EXCEPT ![e] = s] = [x \in Ends |-> IF x = e THEN s ELSE Coming(Peer(e))]
<1>1. Now.in = [x \in Ends |-> Coming(x)]
  BY DEF Now
<1> QED BY <1>1, PeerFacts

\* The loop has dealt with its packet, and the view after it is good.
LEMMA LoopViewed ==
  ASSUME Inv, may' = may, connOpen' = connOpen, err' = err, NEW e \in Ends, loop[e] = "push",
         loop' = [loop EXCEPT ![e] = "run"], held' = [held EXCEPT ![e] = NoPacket], net' \in [Ends -> Seq(PacketType)],
         globalReqs' = globalReqs, globalResp' = globalResp, asking' = asking, Good(Now'), \A x \in Ends : Fewer(Coming(x), Coming(x)')
  PROVE  Inv'
<1>1. ShapeOK /\ held[e] # NoPacket
  BY StateIs, HeldIs
<1>2. globalReqs' \in [Ends -> Seq({0, 1})] /\ globalResp' \in [Ends -> Seq({"ack"})] /\ asking' \in [Ends -> BOOLEAN]
  BY <1>1 DEF ShapeOK
<1>3. ShapeOK' /\ \A x \in Ends : LoopOK(x)' /\ Running(x)' = Running(x) /\ (loop'[x] # "done" => loop[x] # "done")
  BY <1>1, <1>2, LoopTook
<1>4. \A x \in Ends : GlobalOK(x)'
  <2>1. \A x \in Ends : GlobalOK(x)
    BY DEF Inv
  <2> QED BY <1>1, <1>3, <2>1, GlobalStays
<1>5. may' \in Scenarios
  BY DEF Inv
<1> QED BY <1>3, <1>4, <1>5 DEF Inv

LEMMA LoopRuns ==
  ASSUME Inv, NEW e \in Ends, loop[e] = "push", loop' = [loop EXCEPT ![e] = "run"]
  PROVE  [x \in Ends |-> Running(x)'] = Now.runs
<1>1. Now.runs = [x \in Ends |-> Running(x)]
  BY DEF Now
<1>2. loop \in [Ends -> {"run", "push", "failed", "dropped", "done"}]
  BY StateIs DEF ShapeOK
<1>3. \A x \in Ends : Running(x)' = Running(x)
  BY <1>2 DEF Running
<1> QED BY <1>1, <1>3

Learned(a, m, i, d, w) == [a EXCEPT !.decided = TRUE, !.msg = m, !.remoteId = i, !.peer = d, !.win = w]
LearnedIs(a, b, m, i, d, w) ==
  /\ b \in ChannelType /\ b.decided /\ b.msg = m /\ b.remoteId = i /\ b.peer = d /\ b.win = w
  /\ b.dir = a.dir /\ b.localId = a.localId /\ b.user = a.user /\ b.closed = a.closed /\ b.sentClose = a.sentClose /\ b.winClosed = a.winClosed
  /\ b.reserved = a.reserved /\ b.taken = a.taken /\ b.owed = a.owed /\ b.reqs = a.reqs /\ b.waits = a.waits /\ b.myWindow = a.myWindow
  /\ b.pending = a.pending /\ b.lost = a.lost /\ b.todo = a.todo

LEMMA LearnsType ==
  ASSUME NEW a \in ChannelType, NEW m \in Seq({"ack"} \cup Responses), NEW i \in Nat, NEW d \in Nat, NEW w \in Nat, NEW b, b = Learned(a, m, i, d, w)
  PROVE  LearnedIs(a, b, m, i, d, w)
<1>1. b \in ChannelType
  <2>1. Learned(a, m, i, d, w) \in ChannelType
    BY DEF ChannelType, Learned
  <2> QED BY <2>1
<1>2. /\ b.decided /\ b.msg = m /\ b.remoteId = i /\ b.peer = d /\ b.win = w
      /\ b.dir = a.dir /\ b.localId = a.localId /\ b.user = a.user /\ b.closed = a.closed /\ b.sentClose = a.sentClose /\ b.winClosed = a.winClosed
      /\ b.reserved = a.reserved /\ b.taken = a.taken /\ b.owed = a.owed /\ b.reqs = a.reqs /\ b.waits = a.waits /\ b.myWindow = a.myWindow
      /\ b.pending = a.pending /\ b.lost = a.lost /\ b.todo = a.todo
  BY DEF ChannelType, Learned
<1> QED BY <1>1, <1>2 DEF LearnedIs

LEMMA LearnsIs ==
  ASSUME NEW a \in ChannelType, Local(a), a.dir = "out", a.user = "opening", NEW p, p.kind \in Responses, NEW i \in Nat, NEW d \in Nat, NEW x \in Nat, NEW w \in Nat, NEW b,
         b = Learned(a, <<p.kind>>, i, x, w),
         p.kind = "confirm" => x = d /\ d # 0 /\ i = p.aux /\ w = WindowSize, p.kind = "failure" => x = 0 /\ w = 0
  PROVE  Learns(a, b, p, d)
<1> DEFINE k == p.kind m == <<k>>
<1>0. m \in Seq({"ack"} \cup Responses)
  OBVIOUS
<1> HIDE DEF m
<1>a. LearnedIs(a, b, m, i, x, w)
  BY <1>0, LearnsType DEF m
<1>1. /\ b \in ChannelType /\ b.decided /\ b.msg = <<k>> /\ b.remoteId = i /\ b.peer = x /\ b.win = w
      /\ b.dir = a.dir /\ b.localId = a.localId /\ b.user = a.user /\ b.closed = a.closed /\ b.sentClose = a.sentClose /\ b.winClosed = a.winClosed
      /\ b.reserved = a.reserved /\ b.taken = a.taken /\ b.owed = a.owed /\ b.reqs = a.reqs /\ b.waits = a.waits /\ b.myWindow = a.myWindow
      /\ b.pending = a.pending /\ b.lost = a.lost /\ b.todo = a.todo
  BY <1>a DEF LearnedIs, m
<1>2. Len(b.msg) = 1 /\ b.msg[1] = k
  BY <1>1
<1>3. k = "confirm" => x # 0
  OBVIOUS
<1>4. x = 0 => w = 0
  <2>1. k \in {"confirm", "failure"}
    BY DEF Responses
  <2> QED BY <2>1
<1>5. Local(b)
  <2> HIDE DEF k
  <2>1. /\ b.decided /\ b.peer = x /\ b.win = w /\ b.dir = "out" /\ b.user = "opening" /\ b.closed = a.closed /\ b.sentClose = a.sentClose
        /\ b.reserved = a.reserved /\ b.taken = a.taken /\ b.owed = a.owed /\ b.waits = a.waits /\ b.myWindow = a.myWindow
        /\ b.pending = a.pending /\ b.lost = a.lost /\ b.todo = a.todo
    BY <1>1
  <2>2. b.myWindow + b.taken + b.pending[0] + b.pending[1] + b.lost = WindowSize
    BY <2>1 DEF Local
  <2>3. b.reserved <= MaxPacket /\ b.reserved <= b.todo /\ b.todo = 0 /\ b.reserved = 0 /\ b.taken = 0 /\ b.owed = 0 /\ ~b.waits /\ (b.closed => b.sentClose)
    <3>1. a.user # "open"
      OBVIOUS
    <3>2. a.todo = 0 /\ a.reserved = 0 /\ a.taken = 0 /\ a.owed = 0 /\ ~a.waits
      BY <3>1 DEF Local
    <3>3. a.reserved <= MaxPacket /\ a.reserved <= a.todo /\ (a.closed => a.sentClose)
      BY DEF Local
    <3> QED BY <2>1, <3>2, <3>3
  <2>4. Len(b.msg) <= 1
    <3>1. 1 <= 1
      OBVIOUS
    <3> QED BY <1>2, <3>1, Zenon
  <2>5. b.msg # <<>> /\ b.msg[1] = "confirm" => b.peer # 0
    BY <1>2, <1>3, <2>1
  <2>6. b.peer = 0 => b.win = 0
    BY <1>4, <2>1
  <2> QED BY <2>1, <2>2, <2>3, <2>4, <2>5, <2>6 DEF Local
<1> QED BY <1>1, <1>5 DEF Learns

Refused(a, k) == [a EXCEPT !.decided = TRUE, !.msg = Append(@, k)]
Confirmed(b, i, d, n) == [b EXCEPT !.remoteId = i, !.peer = d, !.win = @ + n]

LEMMA ToldIs ==
  ASSUME NEW a \in ChannelType, a.msg = <<>>, a.win = 0, a.peer = 0, NEW k, NEW i \in Nat, NEW d \in Nat, NEW n \in Nat
  PROVE  Refused(a, k) = Learned(a, <<k>>, a.remoteId, 0, 0) /\ Confirmed(Refused(a, k), i, d, n) = Learned(a, <<k>>, i, d, n)
<1> DEFINE m == <<k>> b == Refused(a, k) g == Confirmed(b, i, d, n)
<1>1. Append(a.msg, k) = m
  OBVIOUS
<1>2. b = [a EXCEPT !.decided = TRUE, !.msg = m]
  BY <1>1 DEF Refused
<1> HIDE DEF m, b
<1>3. b = Learned(a, m, a.remoteId, 0, 0)
  BY <1>2 DEF ChannelType, Learned
<1>4. b.win = 0
  BY <1>2 DEF ChannelType
<1>5. g = [b EXCEPT !.remoteId = i, !.peer = d, !.win = n]
  <2>1. b.win + n = n
    BY <1>4
  <2> QED BY <2>1 DEF Confirmed
<1> HIDE DEF g
<1>6. g = Learned(a, m, i, d, n)
  BY <1>2, <1>5 DEF ChannelType, Learned
<1> QED BY <1>3, <1>6 DEF m, b, g

LEMMA OpenResponseKeeps ==
  ASSUME Inv, NEW e \in Ends, loop[e] = "push", held[e].kind \in Responses, NEW c, NEW d, Finds(e, c, d), Giving(e), HandleOpenResponse(e, c, held[e])
  PROVE  Inv'
<1> DEFINE t == held[e] f == Peer(e) a == chan[e][c] w == Coming(e) b == [a EXCEPT !.decided = TRUE, !.msg = Append(@, t.kind)]
           g == [b EXCEPT !.remoteId = t.aux, !.peer = t.from, !.win = @ + t.n]
<1>0. f \in Ends /\ f # e /\ Now.chan = chan /\ Now.list = list /\ Now.fresh = fresh /\ Now.open = connOpen /\ Now.in[e] = w /\ Now.runs[e] = Running(e) /\ Good(Now) /\ ShapeOK
  BY PeerFacts, NowFields, StateIs
<1>1. w \in Seq(PacketType) /\ w # <<>> /\ Head(w) = t /\ t \in PacketType /\ Running(e) /\ t # NoPacket /\ w[1] = t
  BY HeldIs
<1>2. d = t.from /\ c = chan[f][d].peer /\ a \in ChannelType /\ Local(a)
  BY ZenonT(60) DEF Finds
<1>3. Ready(Now, e, c, d)
  BY <1>0, <1>1, <1>2, AnswerReady
<1>4. a.dir = "out" /\ ~a.decided /\ a.peer = 0 /\ a.win = 0 /\ a.msg = <<>> /\ a.user = "opening" /\ t.id = a.localId /\ d # 0
      /\ (t.kind = "confirm" => t.n = WindowSize)
  BY <1>0, <1>1, <1>3 DEF Ready
<1>5. t.aux \in Nat /\ t.from \in Nat /\ t.n \in Nat /\ a.remoteId \in Nat /\ d \in Nat /\ c \in DOMAIN chan[e]
  BY ZenonT(60), <1>1, <1>2 DEF PacketType, ChannelType, Finds
<1>6. b = Learned(a, <<t.kind>>, a.remoteId, 0, 0) /\ g = Learned(a, <<t.kind>>, t.aux, d, t.n)
  <2> DEFINE k == t.kind i == t.aux n == t.n
  <2>1. b = Refused(a, k) /\ g = Confirmed(b, i, d, n) /\ i \in Nat /\ n \in Nat
    BY ZenonT(60), <1>2, <1>5 DEF Refused, Confirmed
  <2>2. a \in ChannelType /\ a.msg = <<>> /\ a.win = 0 /\ a.peer = 0 /\ d \in Nat
    BY ZenonT(60), <1>2, <1>4, <1>5
  <2> HIDE DEF b, g, k, i, n, a
  <2>3. Refused(a, k) = Learned(a, <<k>>, a.remoteId, 0, 0) /\ Confirmed(Refused(a, k), i, d, n) = Learned(a, <<k>>, i, d, n)
    BY <2>1, <2>2, ToldIs
  <2>4. b = Learned(a, <<k>>, a.remoteId, 0, 0) /\ g = Learned(a, <<k>>, i, d, n)
    BY <2>1, <2>3
  <2> QED BY <2>4 DEF k, i, n
<1>7. \/ t.kind = "failure" /\ chan' = [chan EXCEPT ![e][c] = b] /\ list' = [list EXCEPT ![e] = Forget(list[e], t.id)] /\ loop' = [loop EXCEPT ![e] = "run"] /\ net' = net /\ err' = err
      \/ t.kind = "confirm" /\ Set(e, c, g)
  <2>1. t.kind \in {"confirm", "failure"}
    BY DEF Responses
  <2> HIDE DEF b, g
  <2> QED BY <1>4, <2>1 DEF HandleOpenResponse, b, g
<1> HIDE DEF b, g
<1>8. \E z, l : /\ Learns(a, z, t, d) /\ chan' = [chan EXCEPT ![e] = [@ EXCEPT ![c] = z]] /\ list' = [list EXCEPT ![e] = l] /\ loop' = [loop EXCEPT ![e] = "run"]
                /\ net' = net /\ err' = err /\ l = IF t.kind = "confirm" THEN list[e] ELSE Forget(list[e], a.localId)
  <2>1. CASE t.kind = "failure"
    <3>1. Learns(a, b, t, d)
      BY ZenonT(60), <1>2, <1>4, <1>5, <1>6, <2>1, LearnsIs
    <3>2. chan' = [chan EXCEPT ![e] = [@ EXCEPT ![c] = b]] /\ list' = [list EXCEPT ![e] = Forget(list[e], a.localId)] /\ loop' = [loop EXCEPT ![e] = "run"] /\ net' = net /\ err' = err
      BY <1>4, <1>7, <2>1
    <3> QED BY <2>1, <3>1, <3>2
  <2>2. CASE t.kind = "confirm"
    <3>1. Learns(a, g, t, d)
      BY ZenonT(60), <1>2, <1>4, <1>5, <1>6, <2>2, LearnsIs
    <3>2. chan' = [chan EXCEPT ![e] = [@ EXCEPT ![c] = g]] /\ list' = list /\ loop' = [loop EXCEPT ![e] = "run"] /\ net' = net /\ err' = err
      BY <1>7, <2>2 DEF Set
    <3>3. list = [list EXCEPT ![e] = list[e]]
      <4>1. list \in [Ends -> Seq(Nat)]
        BY StateIs
      <4> QED BY <4>1
    <3> QED BY <2>2, <3>1, <3>2, <3>3
  <2> QED BY <2>1, <2>2 DEF Responses
<1>9. PICK z, l : /\ Learns(a, z, t, d) /\ chan' = [chan EXCEPT ![e] = [@ EXCEPT ![c] = z]] /\ list' = [list EXCEPT ![e] = l] /\ loop' = [loop EXCEPT ![e] = "run"]
                  /\ net' = net /\ err' = err /\ l = IF t.kind = "confirm" THEN list[e] ELSE Forget(list[e], a.localId)
  BY <1>8
<1>10. Good(Answered(Now, e, c, z, l))
  BY <1>0, <1>1, <1>3, <1>9, AnsweredKeeps
<1>11. held' = [held EXCEPT ![e] = NoPacket] /\ may' = may /\ fresh' = fresh /\ globalReqs' = globalReqs /\ globalResp' = globalResp /\ connOpen' = connOpen /\ asking' = asking
  BY DEF Giving
<1>12. Coming(e)' = Tail(w) /\ Coming(f)' = Coming(f)
  BY <1>0, <1>1, <1>9, <1>11, ComingTaken
<1>13. Now' = Answered(Now, e, c, z, l)
  <2>1. [x \in Ends |-> Running(x)'] = Now.runs
    BY <1>9, LoopRuns
  <2>2. Now' = View([x \in Ends |-> IF x = e THEN Tail(w) ELSE Coming(f)], chan', list', fresh', Now.runs, connOpen')
    <3>1. Now' = View([x \in Ends |-> IF x = e THEN Tail(w) ELSE Coming(f)], chan', list', fresh', [x \in Ends |-> Running(x)'], connOpen')
      BY <1>12, NowIs
    <3> QED BY <2>1, <3>1
  <2>3. [Now.in EXCEPT ![e] = Tail(w)] = [x \in Ends |-> IF x = e THEN Tail(w) ELSE Coming(f)]
    BY InOf
  <2>4. Now' = View([Now.in EXCEPT ![e] = Tail(Now.in[e])], [Now.chan EXCEPT ![e] = [@ EXCEPT ![c] = z]], [Now.list EXCEPT ![e] = l], Now.fresh, Now.runs, Now.open)
    BY <1>0, <1>9, <1>11, <2>2, <2>3
  <2> QED BY <2>4 DEF Answered
<1>14. \A x \in Ends : Fewer(Coming(x), Coming(x)')
  <2>1. Fewer(w, Tail(w)) /\ Fewer(Coming(f), Coming(f))
    BY <1>0, <1>1, FewerFacts, ComingIs
  <2> QED BY <1>12, <2>1, PeerFacts
<1>15. net' \in [Ends -> Seq(PacketType)]
  BY <1>0, <1>9 DEF ShapeOK
<1>16. Good(Now')
  BY <1>10, <1>13
<1> QED BY <1>9, <1>11, <1>14, <1>15, <1>16, LoopViewed

\* The loop has dealt with the packet it held, and sent one.
LEMMA ComingAnswered ==
  ASSUME ShapeOK, NEW e \in Ends, held[e] # NoPacket, held' = [held EXCEPT ![e] = NoPacket], NEW p \in PacketType, net' = [net EXCEPT ![Peer(e)] = Append(@, p)]
  PROVE  /\ Coming(e)' = Tail(Coming(e)) /\ Coming(Peer(e))' = Append(Coming(Peer(e)), p) /\ net' \in [Ends -> Seq(PacketType)]
<1> DEFINE f == Peer(e)
<1>0. f \in Ends /\ f # e
  BY PeerFacts
<1>1. held'[e] = NoPacket /\ held'[f] = held[f]
  BY <1>0 DEF ShapeOK
<1>2. net[f] \in Seq(PacketType) /\ net \in [Ends -> Seq(PacketType)]
  BY <1>0 DEF ShapeOK
<1>3. Append(net[f], p) \in Seq(PacketType)
  <2> DEFINE w == net[f]
  <2>1. w \in Seq(PacketType)
    BY <1>2
  <2> HIDE DEF w
  <2>2. Append(w, p) \in Seq(PacketType)
    BY <2>1
  <2> QED BY <2>2 DEF w
<1>4. net'[e] = net[e] /\ net'[f] = Append(net[f], p) /\ net' \in [Ends -> Seq(PacketType)]
  BY <1>0, <1>2, <1>3
<1>5. Coming(e)' = net[e]
  BY <1>1, <1>4 DEF Coming
<1>6. Coming(e)' = Tail(Coming(e))
  BY <1>5, ComingIs
<1>7. Coming(f)' = IF held[f] = NoPacket THEN Append(net[f], p) ELSE <<held[f]>> \o Append(net[f], p)
  BY <1>1, <1>4 DEF Coming
<1>8. Coming(f)' = Append(Coming(f), p)
  BY <1>0, <1>7, ComingIs
<1> QED BY <1>4, <1>6, <1>8

Closing(a) == [a EXCEPT !.sentClose = TRUE]

LEMMA ClosingIs ==
  ASSUME NEW a \in ChannelType
  PROVE  SpokenIs(a, Closing(a), TRUE, a.owed, a.waits, a.reqs) /\ Shut(Closing(a)) = Shut(a)
<1>1. SpokenIs(a, Closing(a), TRUE, a.owed, a.waits, a.reqs)
  BY DEF SpokenIs, Closing, ChannelType
<1>2. Shut(Closing(a)) = Shut(a)
  BY DEF Shut, Closing, ChannelType
<1> QED BY <1>1, <1>2

LEMMA ClosingSteps ==
  ASSUME NEW a \in ChannelType, Local(a), NEW both \in BOOLEAN, NEW g, Worth(g, "data") = 0, Worth(g, "adjust") = 0, Worth(g, "request") = 0, Answering(g) = 0
  PROVE  Steps(a, Closing(a), both, NoPacket, g)
<1> DEFINE b == Closing(a)
<1>0. SpokenIs(a, b, TRUE, a.owed, a.waits, a.reqs)
  BY ClosingIs
<1> HIDE DEF b
<1>1. b \in ChannelType
      /\ b.dir = a.dir /\ b.user = a.user /\ b.localId = a.localId /\ b.remoteId = a.remoteId /\ b.decided = a.decided /\ b.sentClose = TRUE
      /\ b.win = a.win /\ b.winClosed = a.winClosed /\ b.myWindow = a.myWindow /\ b.pending = a.pending /\ b.msg = a.msg /\ b.reqs = a.reqs
      /\ b.closed = a.closed /\ b.todo = a.todo /\ b.reserved = a.reserved /\ b.taken = a.taken /\ b.owed = a.owed /\ b.waits = a.waits
      /\ b.peer = a.peer /\ b.lost = a.lost
  BY <1>0 DEF SpokenIs
<1>2. a.win \in Nat /\ a.reserved \in Nat /\ a.owed \in Nat /\ a.myWindow \in Nat /\ Len(a.msg) \in Nat /\ Waits(a) \in Nat /\ Answers(a) \in Nat
  BY ChannelFields
<1>3. Keeps(a, b)
  BY <1>1 DEF Keeps
<1>4. Local(b)
  BY <1>1 DEF Local
<1>5. Worth(NoPacket, "data") = 0 /\ Worth(NoPacket, "adjust") = 0 /\ Worth(NoPacket, "request") = 0 /\ Answering(NoPacket) = 0
  BY NothingWorth
<1>6. \A u, v \in Nat : u + v + 0 <= u + v + 0 /\ u + 0 + v <= u + 0 + v /\ 0 + u + v <= u + 0 + v /\ 0 + u <= u + 0
  OBVIOUS
<1>7. Passes(both, a, b, NoPacket, g)
  <2>1. b.win + b.reserved + 0 <= a.win + a.reserved + 0 /\ b.owed + 0 + a.myWindow <= a.owed + 0 + b.myWindow
    BY <1>1, <1>2, <1>6
  <2> QED BY <1>1, <1>5, <2>1 DEF Passes
<1>8. Due(a, b, NoPacket, g)
  <2>1. Waits(b) = Waits(a) /\ Answers(b) = Answers(a)
    BY <1>1 DEF Waits, Answers
  <2>2. 0 + Len(b.msg) + Waits(a) <= Len(a.msg) + 0 + Waits(b) /\ 0 + Answers(b) <= Answers(a) + 0
    BY <1>1, <1>2, <1>6, <2>1
  <2> QED BY <1>5, <2>2 DEF Due
<1>9. Steps(a, b, both, NoPacket, g)
  BY <1>1, <1>3, <1>4, <1>7, <1>8 DEF Steps
<1> QED BY <1>9 DEF b

\* The view when a close was answered, but not yet acted on.
LEMMA ClosingView ==
  ASSUME Inv, NEW e \in Ends, loop[e] = "push", held[e].kind = "close", NEW c, NEW d, Finds(e, c, d), NEW g, NEW u,
         \/ g = NoPacket /\ u = Coming(Peer(e))
         \/ ~chan[e][c].sentClose /\ connOpen[Peer(e)] /\ g = Packet("close", chan[e][c].remoteId, 0, 0, c) /\ u = Append(Coming(Peer(e)), g)
  PROVE  /\ Good(After(Now, e, c, Closing(chan[e][c]), Coming(e), u, fresh[e])) /\ u \in Seq(PacketType) /\ Fewer(Coming(Peer(e)), u)
         /\ g # NoPacket => g \in PacketType
<1> DEFINE f == Peer(e) a == chan[e][c] b == Closing(a) t == held[e] w == Coming(e)
<1>0. f \in Ends /\ Peer(f) = e /\ Now.chan = chan /\ Now.open = connOpen /\ Now.fresh = fresh /\ Now.in[e] = w /\ Now.in[f] = Coming(f) /\ Good(Now) /\ ShapeOK
      /\ BothOpen(Now) \in BOOLEAN
  BY PeerFacts, NowFields, StateIs
<1>1. a \in ChannelType /\ Local(a) /\ c \in DOMAIN chan[e] /\ a.peer = d /\ d # 0 /\ IsPartner(Now, f, d, e, c) /\ chan[f][d].peer = c /\ c # 0
  BY ZenonT(60) DEF Finds, Responses
<1>2. a.dir = "out" \/ a.user = "open"
  BY <1>0, <1>1 DEF IsPartner, ChannelType
<1>3. g = NoPacket \/ (g \in PacketType /\ g.kind = "close" /\ g.id = a.remoteId /\ g.from = c /\ ~a.sentClose /\ connOpen[f] /\ u = Append(Coming(f), g))
  <2>1. CASE g = Packet("close", chan[e][c].remoteId, 0, 0, c) /\ ~a.sentClose /\ connOpen[f] /\ u = Append(Coming(f), g)
    <3>1. a.remoteId \in Nat /\ c \in Nat
      BY <1>1, ChannelIs DEF ChannelType
    <3>2. g \in PacketType /\ g.kind = "close" /\ g.id = a.remoteId /\ g.from = c
      BY <2>1, <3>1 DEF Packet, PacketType, Kinds
    <3> QED BY <2>1, <3>2
  <2> QED BY <2>1
<1>4. Worth(g, "data") = 0 /\ Worth(g, "adjust") = 0 /\ Worth(g, "request") = 0 /\ Answering(g) = 0
  <2>1. CASE g = NoPacket
    BY <2>1, NothingWorth
  <2>2. CASE g.kind = "close"
    BY <2>2 DEF Worth, Answering, Responses
  <2> QED BY <1>3, <2>1, <2>2
<1>5. Steps(a, b, BothOpen(Now), NoPacket, g)
  BY <1>0, <1>1, <1>4, ClosingSteps
<1>6. b.sentClose = TRUE /\ b.user = a.user
  BY <1>1, ClosingIs DEF SpokenIs
<1> HIDE DEF b
<1>7. ChannelStep(Now, e, c, b, NoPacket, g, w, u, fresh[e])
  <2>1. Takes(Now, e, c, NoPacket, w)
    BY <1>0 DEF Takes
  <2>2. Emits(Now, e, c, b, g, u)
    <3>1. CASE g = NoPacket
      <4>1. u = Coming(f)
        <5>1. Packet("close", chan[e][c].remoteId, 0, 0, c) # NoPacket
          BY DEF Packet, NoPacket
        <5> QED BY <3>1, <5>1
      <4> QED BY <1>0, <3>1, <4>1 DEF Emits
    <3>2. CASE g \in PacketType /\ g.kind = "close" /\ g.id = a.remoteId /\ g.from = c /\ ~a.sentClose /\ connOpen[f] /\ u = Append(Coming(f), g)
      <4>1. May(a, b, c, g)
        BY <1>1, <1>2, <1>6, <3>2 DEF May, Carries, Done, Responses, Globals
      <4> QED BY <1>0, <3>2, <4>1 DEF Emits
    <3> QED BY <1>3, <3>1, <3>2
  <2>3. Leaves(Now, e, c, b, g, fresh[e])
    BY <1>0, <1>6 DEF Leaves
  <2> QED BY <1>0, <1>1, <1>5, <2>1, <2>2, <2>3 DEF ChannelStep, Steps
<1>8. Good(After(Now, e, c, b, w, u, fresh[e]))
  BY <1>0, <1>7, ChannelStepKeeps
<1>9. u \in Seq(PacketType) /\ Fewer(Coming(f), u)
  <2>1. Coming(f) \in Seq(PacketType)
    BY <1>0, ComingIs
  <2>2. \A v \in Seq(PacketType) : \A p \in PacketType : Append(v, p) \in Seq(PacketType)
    OBVIOUS
  <2>3. g.kind = "close" => g.kind \notin Globals
    BY DEF Globals
  <2>4. Packet("close", chan[e][c].remoteId, 0, 0, c) # NoPacket
    BY DEF Packet, NoPacket
  <2> QED BY <1>3, <2>1, <2>2, <2>3, <2>4, FewerFacts
<1> QED BY <1>3, <1>8, <1>9 DEF b

\* ... and when it was.
Closed(S, e, c, b, l, v, u) ==
  View([x \in Ends |-> IF x = e THEN v ELSE u], [S.chan EXCEPT ![e] = [@ EXCEPT ![c] = Shut(b)]], [S.list EXCEPT ![e] = l], S.fresh, S.runs, S.open)
ClosesTo(S, e, c, b, s, u, l, v) == Closes(After(S, e, c, b, s, u, S.fresh[e]), e, {c}, l, v) = Closed(S, e, c, b, l, v, u)

LEMMA ClosedView ==
  ASSUME NEW S \in ViewType, NEW e \in Ends, NEW c \in DOMAIN S.chan[e], NEW b \in ChannelType, NEW s, NEW u, NEW l, NEW v
  PROVE  ClosesTo(S, e, c, b, s, u, l, v)
<1> DEFINE T == After(S, e, c, b, s, u, S.fresh[e])
<1>1. S.chan \in [Ends -> Seq(ChannelType)] /\ S.fresh \in [Ends -> Seq(Nat)] /\ S.chan[e] \in Seq(ChannelType)
  BY ViewParts, ViewFields
<1>2. T.in = [x \in Ends |-> IF x = e THEN s ELSE u] /\ T.chan = [S.chan EXCEPT ![e] = [@ EXCEPT ![c] = b]] /\ T.list = S.list /\ T.fresh = [S.fresh EXCEPT ![e] = S.fresh[e]]
      /\ T.runs = S.runs /\ T.open = S.open
  BY DEF After
<1> HIDE DEF T
<1>3. T.fresh = S.fresh
  BY <1>1, <1>2
<1>4. [T.in EXCEPT ![e] = v] = [x \in Ends |-> IF x = e THEN v ELSE u]
  BY <1>2
<1> DEFINE z == S.chan[e] y == [z EXCEPT ![c] = b] w == [x \in DOMAIN y |-> IF x \in {c} THEN Shut(y[x]) ELSE y[x]]
<1>5. w = [z EXCEPT ![c] = Shut(b)]
  <2>1. z \in Seq(ChannelType) /\ c \in DOMAIN z
    BY <1>1
  <2> HIDE DEF z, Shut
  <2>2. DOMAIN y = DOMAIN z /\ y[c] = b /\ \A x \in DOMAIN z : x # c => y[x] = z[x]
    BY <2>1
  <2> HIDE DEF y
  <2>3. w = [x \in DOMAIN z |-> IF x = c THEN Shut(b) ELSE z[x]]
    BY <2>1, <2>2
  <2> QED BY <2>1, <2>3
<1>6. T.chan[e] = y
  BY <1>1, <1>2
<1>7. [T.chan EXCEPT ![e] = [x \in DOMAIN T.chan[e] |-> IF x \in {c} THEN Shut(T.chan[e][x]) ELSE T.chan[e][x]]] = [T.chan EXCEPT ![e] = w]
  BY <1>6
<1>8. [T.chan EXCEPT ![e] = w] = [S.chan EXCEPT ![e] = [@ EXCEPT ![c] = Shut(b)]]
  <2>1. [T.chan EXCEPT ![e] = w] = [S.chan EXCEPT ![e] = w]
    <3> HIDE DEF w, y
    <3>1. T.chan = [S.chan EXCEPT ![e] = y]
      BY <1>2 DEF y
    <3> QED BY <1>1, <3>1
  <2> HIDE DEF w
  <2> QED BY <1>5, <2>1
<1>9. Closes(T, e, {c}, l, v) = Closed(S, e, c, b, l, v, u)
  BY <1>2, <1>3, <1>4, <1>7, <1>8 DEF Closes, Closed
<1> QED BY <1>9 DEF T, ClosesTo

LEMMA HandleCloseKeeps ==
  ASSUME Inv, NEW e \in Ends, loop[e] = "push", held[e].kind = "close", NEW c, NEW d, Finds(e, c, d), Giving(e), HandleClose(e, c)
  PROVE  Inv'
<1> DEFINE t == held[e] f == Peer(e) a == chan[e][c] w == Coming(e) b == Closing(a) p == Packet("close", a.remoteId, 0, 0, c) l == Forget(list[e], a.localId)
<1>0. f \in Ends /\ f # e /\ Now.chan = chan /\ Now.list = list /\ Now.fresh = fresh /\ Now.open = connOpen /\ Now.in[e] = w /\ Now.runs[e] = Running(e) /\ Good(Now) /\ ShapeOK /\ Now \in ViewType
  BY PeerFacts, NowFields, StateIs
<1>1. w \in Seq(PacketType) /\ w # <<>> /\ Head(w) = t /\ t \in PacketType /\ Running(e) /\ t # NoPacket
  BY HeldIs
<1>2. d = t.from /\ c = chan[f][d].peer /\ a \in ChannelType /\ Local(a) /\ c \in DOMAIN chan[e]
  BY ZenonT(60) DEF Finds
<1>3. held' = [held EXCEPT ![e] = NoPacket] /\ may' = may /\ fresh' = fresh /\ globalReqs' = globalReqs /\ globalResp' = globalResp /\ connOpen' = connOpen /\ asking' = asking
  BY DEF Giving
<1>4. list' = [list EXCEPT ![e] = l] /\ loop' = [loop EXCEPT ![e] = "run"] /\ err' = err
  BY DEF HandleClose
<1>5. \/ ~a.sentClose /\ net' = Sent(e, p) /\ chan' = [chan EXCEPT ![e][c] = [Shut(a) EXCEPT !.sentClose = TRUE]]
      \/ net' = net /\ chan' = [chan EXCEPT ![e][c] = [Shut(a) EXCEPT !.sentClose = TRUE]]
  BY DEF HandleClose, SendMessage
<1>6. [Shut(a) EXCEPT !.sentClose = TRUE] = Shut(a) /\ Shut(b) = Shut(a) /\ b \in ChannelType
  <2>1. [Shut(a) EXCEPT !.sentClose = TRUE] = Shut(a)
    BY ZenonT(60), <1>2 DEF Shut, ChannelType
  <2> QED BY ZenonT(60), <1>2, <2>1, ClosingIs DEF SpokenIs
<1> HIDE DEF b
<1>7. chan' = [chan EXCEPT ![e] = [@ EXCEPT ![c] = Shut(b)]]
  BY <1>5, <1>6
<1>8. \E g, u : /\ (g = NoPacket /\ u = Coming(f)) \/ (~a.sentClose /\ connOpen[f] /\ g = p /\ u = Append(Coming(f), g))
                /\ net' = IF g = NoPacket THEN net ELSE [net EXCEPT ![f] = Append(@, g)]
  <2>1. p # NoPacket
    BY DEF Packet, NoPacket
  <2> HIDE DEF p
  <2>2. CASE ~a.sentClose /\ net' = Sent(e, p) /\ connOpen[f]
    BY <2>1, <2>2 DEF Sent
  <2>3. CASE ~a.sentClose /\ net' = Sent(e, p) /\ ~connOpen[f]
    <3>1. net' = net
      BY <1>0, <2>3 DEF Sent, ShapeOK
    <3> QED BY <3>1
  <2>4. CASE net' = net
    BY <2>4
  <2> QED BY <1>5, <2>2, <2>3, <2>4
<1>9. PICK g, u : /\ (g = NoPacket /\ u = Coming(f)) \/ (~a.sentClose /\ connOpen[f] /\ g = p /\ u = Append(Coming(f), g))
                  /\ net' = IF g = NoPacket THEN net ELSE [net EXCEPT ![f] = Append(@, g)]
  BY <1>8
<1> DEFINE T == After(Now, e, c, b, w, u, fresh[e])
<1>10. Good(T) /\ u \in Seq(PacketType) /\ Fewer(Coming(f), u) /\ (g # NoPacket => g \in PacketType)
  BY <1>9, ClosingView DEF b
<1>11. Coming(e)' = Tail(w) /\ Coming(f)' = u /\ net' \in [Ends -> Seq(PacketType)]
  <2>1. CASE g = NoPacket
    <3>1. net' = net /\ u = Coming(f)
      <4>1. p # NoPacket
        BY DEF Packet, NoPacket
      <4> QED BY <1>9, <2>1, <4>1
    <3>2. Coming(e)' = Tail(w) /\ Coming(f)' = Coming(f)
      BY <1>0, <1>1, <1>3, <3>1, ComingTaken
    <3> QED BY <1>0, <3>1, <3>2 DEF ShapeOK
  <2>2. CASE g # NoPacket
    <3>1. g \in PacketType /\ net' = [net EXCEPT ![f] = Append(@, g)] /\ u = Append(Coming(f), g)
      BY <1>9, <1>10, <2>2
    <3> QED BY <1>0, <1>1, <1>3, <3>1, ComingAnswered
  <2> QED BY <2>1, <2>2
<1>12. Good(Closes(T, e, {c}, l, Tail(w)))
  <2>1. IsAfter(Now, T, e, c, b, w, u, fresh[e])
    <3>1. fresh[e] \in Seq(Nat)
      BY <1>0, ViewFields
    <3> QED BY ZenonT(60), <1>0, <1>1, <1>2, <1>6, <1>10, <3>1, AfterFields
  <2>2. b.localId = a.localId
    BY ZenonT(60), <1>2, ClosingIs DEF SpokenIs, b
  <2> HIDE DEF T
  <2>3. T.runs = Now.runs /\ T.in[e] = w /\ T.chan[f] = chan[f] /\ T.chan[e][c] = b /\ T.list = list
    BY <1>0, <2>1 DEF IsAfter
  <2>4. Forget(T.list[e], T.chan[e][c].localId) = l
    BY <2>2, <2>3
  <2>5. c = T.chan[Peer(e)][Head(T.in[e]).from].peer /\ T.in[e] # <<>> /\ Head(T.in[e]).kind = "close" /\ T.runs[e]
    BY ZenonT(60), <1>0, <1>1, <1>2, <2>3
  <2>6. Good(Closes(T, e, {c}, Forget(T.list[e], T.chan[e][c].localId), Tail(T.in[e])))
    BY ZenonT(60), <1>10, <2>5, CloseArrives
  <2> QED BY <2>3, <2>4, <2>6
<1>13. Now' = Closes(T, e, {c}, l, Tail(w))
  <2>1. [x \in Ends |-> Running(x)'] = Now.runs
    BY <1>4, LoopRuns
  <2>2. Now' = View([x \in Ends |-> IF x = e THEN Tail(w) ELSE u], chan', list', fresh', [x \in Ends |-> Running(x)'], connOpen')
    <3> DEFINE v == Tail(w)
    <3>1. Coming(e)' = v /\ Coming(Peer(e))' = u
      BY <1>11
    <3> HIDE DEF v
    <3>2. Now' = View([x \in Ends |-> IF x = e THEN v ELSE u], chan', list', fresh', [x \in Ends |-> Running(x)'], connOpen')
      BY <3>1, NowIs
    <3> QED BY <3>2 DEF v
  <2>3. Closes(T, e, {c}, l, Tail(w))
        = View([x \in Ends |-> IF x = e THEN Tail(w) ELSE u], [Now.chan EXCEPT ![e] = [@ EXCEPT ![c] = Shut(b)]], [Now.list EXCEPT ![e] = l], Now.fresh, Now.runs, Now.open)
    <3> DEFINE v == Tail(w)
    <3>1. T = After(Now, e, c, b, w, u, Now.fresh[e]) /\ c \in DOMAIN Now.chan[e] /\ Now \in ViewType /\ b \in ChannelType
      BY ZenonT(60), <1>0, <1>2, <1>6
    <3> HIDE DEF T, l, v, w
    <3>2. ClosesTo(Now, e, c, b, w, u, l, v)
      BY <3>1, ClosedView
    <3>3. Closes(T, e, {c}, l, v) = Closed(Now, e, c, b, l, v, u)
      BY <3>1, <3>2 DEF ClosesTo
    <3> QED BY <3>3 DEF v, Closed
  <2> HIDE DEF T, l
  <2> QED BY <1>0, <1>3, <1>4, <1>7, <2>1, <2>2, <2>3
<1>14. \A x \in Ends : Fewer(Coming(x), Coming(x)')
  <2>1. Fewer(w, Tail(w))
    BY <1>1, FewerFacts
  <2> QED BY <1>10, <1>11, <2>1, PeerFacts
<1>15. Good(Now')
  BY <1>12, <1>13
<1> QED BY <1>3, <1>4, <1>11, <1>14, <1>15, LoopViewed

-----------------------------------------------------------------------------
(* A channel is made: by the loop, for the peer, or by openChannel *)

LEMMA FreeId ==
  ASSUME Inv, NEW e \in Ends, NEW n, n = Len(chan[e]) + 1, NEW l, l = Add(list[e], n), NEW id, id = CHOOSE i \in DOMAIN l : l[i] = n
  PROVE  n \in Nat /\ n # 0 /\ id \in Nat
<1>1. chan[e] \in Seq(ChannelType) /\ list[e] \in Seq(Nat) /\ ListOK(Now, e) /\ Now.list = list /\ Now.chan = chan
  BY StateIs, NowFields DEF Good
<1>2. n \in Nat /\ n # 0 /\ n \notin DOMAIN chan[e]
  BY <1>1
<1>3. \A x \in DOMAIN list[e] : list[e][x] # n
  BY <1>1, <1>2 DEF ListOK
<1>4. TakesId(list[e], l, id, n)
  BY <1>1, <1>2, <1>3, AddFacts
<1> QED BY <1>2, <1>4 DEF TakesId

Born(dir, user, i, j, w, p) == [NewChannel(dir, user) EXCEPT !.localId = i, !.remoteId = j, !.win = w, !.peer = p]
Parent(dir, user, w, p) == IF dir = "in" THEN user = "waiting" /\ p # 0 ELSE user # "waiting" /\ p = 0 /\ w = 0
BornAs(ch, dir, user, i, j, w, p) == Newborn(ch) /\ ch.dir = dir /\ ch.user = user /\ ch.localId = i /\ ch.remoteId = j /\ ch.win = w /\ ch.peer = p

LEMMA BornIs ==
  ASSUME NEW dir \in {"in", "out"}, NEW user \in {"opening", "waiting", "none"}, NEW i \in Nat, NEW j \in Nat, NEW w \in Nat, NEW p \in Nat,
         Parent(dir, user, w, p)
  PROVE  BornAs(Born(dir, user, i, j, w, p), dir, user, i, j, w, p)
<1> DEFINE ch == Born(dir, user, i, j, w, p)
<1>0. WindowSize \in Nat /\ MaxPacket \in Nat
  BY WindowAssumption
<1>1. <<>> \in Seq({"ack"} \cup Responses) /\ <<>> \in Seq({0, 1}) /\ [x \in {0, 1} |-> 0] \in [{0, 1} -> Nat] /\ Len(<<>>) = 0
  OBVIOUS
<1>2. ch \in ChannelType
  BY <1>0, <1>1 DEF Born, NewChannel, ChannelType
<1>3. /\ ch.dir = dir /\ ch.user = user /\ ch.localId = i /\ ch.remoteId = j /\ ch.win = w /\ ch.peer = p /\ ~ch.decided /\ ~ch.sentClose /\ ~ch.winClosed
      /\ ch.myWindow = WindowSize /\ ch.msg = <<>> /\ ch.reqs = <<>> /\ ~ch.closed /\ ch.todo = 0 /\ ch.reserved = 0 /\ ch.taken = 0 /\ ch.owed = 0 /\ ~ch.waits /\ ch.lost = 0
      /\ ch.pending[0] = 0 /\ ch.pending[1] = 0
  BY DEF Born, NewChannel
<1> HIDE DEF ch
<1>4. Local(ch)
  <2>1. WindowSize + 0 + 0 + 0 + 0 = WindowSize /\ 0 <= MaxPacket /\ 0 <= 0 /\ 0 <= 1
    BY <1>0
  <2> QED BY <1>1, <1>3, <2>1 DEF Local, Parent
<1>5. BornAs(ch, dir, user, i, j, w, p)
  BY <1>2, <1>3, <1>4 DEF Newborn, BornAs
<1> QED BY <1>5 DEF ch

\* What channel n of e is made of.
Adds(S, e, n, l, ch) == n = Len(S.chan[e]) + 1 /\ l = Add(S.list[e], n) /\ Newborn(ch) /\ ch.localId = CHOOSE i \in DOMAIN l : l[i] = n
AddedIs(S, T, e, n, ch, s, u, q) == IsAdded(S, T, e, n, ch) /\ T.in[e] = s /\ T.in[Peer(e)] = u /\ T.fresh[e] = q

LEMMA AddedView ==
  ASSUME NEW S, Good(S), NEW e \in Ends, NEW n, NEW l, NEW ch, Adds(S, e, n, l, ch), NEW s \in Seq(PacketType), NEW u \in Seq(PacketType), NEW q \in Seq(Nat)
  PROVE  AddedIs(S, Added(S, e, ch, l, s, u, q), e, n, ch, s, u, q)
<1>1. n = Len(S.chan[e]) + 1 /\ l = Add(S.list[e], n) /\ Newborn(ch) /\ ch.localId = CHOOSE i \in DOMAIN l : l[i] = n
  BY DEF Adds
<1> DEFINE T == Added(S, e, ch, l, s, u, q)
<1>2. T = Added(S, e, ch, l, s, u, q)
  OBVIOUS
<1> HIDE DEF T
<1>3. IsAdded(S, T, e, n, ch) /\ T.in[e] = s /\ T.in[Peer(e)] = u /\ T.fresh[e] = q
  BY <1>1, <1>2, AddedFields
<1> QED BY <1>2, <1>3 DEF AddedIs

LEMMA ChannelOpenKeeps ==
  ASSUME Inv, UNCHANGED <<may, connOpen, asking>>, NEW e \in Ends, loop[e] = "push", held[e].kind = "open", held' = [held EXCEPT ![e] = NoPacket], HandleChannelOpen(e, held[e])
  PROVE  Inv'
<1> DEFINE t == held[e] f == Peer(e) w == Coming(e) n == Len(chan[e]) + 1 l == Add(list[e], n) id == CHOOSE i \in DOMAIN l : l[i] = n
           ch == Born("in", "waiting", id, t.id, t.n, t.from) q == Append(fresh[e], n)
<1>0. f \in Ends /\ f # e /\ Peer(f) = e /\ Now.chan = chan /\ Now.list = list /\ Now.fresh = fresh /\ Now.open = connOpen /\ Now.in[e] = w /\ Now.in[f] = Coming(f)
      /\ Now.runs[f] = Running(f) /\ Good(Now) /\ ShapeOK /\ Now \in ViewType
  BY PeerFacts, NowFields, StateIs
<1>1. w \in Seq(PacketType) /\ w # <<>> /\ Head(w) = t /\ t \in PacketType /\ Running(e) /\ t # NoPacket /\ OpenIs(Now, e, t)
  BY HeldIs
<1>2. list' = [list EXCEPT ![e] = l] /\ chan' = [chan EXCEPT ![e] = Append(chan[e], ch)] /\ fresh' = [fresh EXCEPT ![e] = q] /\ loop' = [loop EXCEPT ![e] = "run"]
      /\ net' = net /\ err' = err /\ globalReqs' = globalReqs /\ globalResp' = globalResp
  BY DEF HandleChannelOpen, Born
<1>3. n \in Nat /\ n # 0 /\ id \in Nat
  BY FreeId
<1> HIDE DEF id, l, n
<1>4. t.id \in Nat /\ t.n \in Nat /\ t.from \in Nat
  BY <1>1 DEF PacketType
<1> DEFINE o == chan[f][t.from]
<1>5. t.from \in DOMAIN chan[f] /\ o.dir = "out" /\ ~o.decided /\ t.id = o.localId /\ t.n = WindowSize
      /\ (\A x \in DOMAIN chan[e] : chan[e][x].peer # t.from) /\ (Running(f) /\ ~o.closed => o.user = "opening")
  BY <1>0, <1>1 DEF OpenIs
<1>6. t.from # 0
  BY <1>0, <1>5, ChannelIs
<1>7. Newborn(ch) /\ ch.dir = "in" /\ ch.user = "waiting" /\ ch.localId = id /\ ch.remoteId = t.id /\ ch.win = t.n /\ ch.peer = t.from
  <2> DEFINE j == t.id x == t.n p == t.from dir == "in" user == "waiting"
  <2>1. j \in Nat /\ x \in Nat /\ p \in Nat /\ Parent(dir, user, x, p) /\ dir \in {"in", "out"} /\ user \in {"opening", "waiting", "none"} /\ ch = Born(dir, user, id, j, x, p)
    BY <1>4, <1>6 DEF Parent
  <2> HIDE DEF j, x, p, dir, user, ch
  <2>2. BornAs(ch, dir, user, id, j, x, p)
    BY <1>3, <2>1, BornIs
  <2> QED BY <2>2 DEF BornAs, j, x, p, dir, user
<1> HIDE DEF ch
<1>8. Joins(Now, e, ch)
  BY <1>0, <1>5, <1>6, <1>7 DEF Joins
<1> DEFINE T == Added(Now, e, ch, l, Tail(w), Coming(f), q)
<1>9. Tail(w) \in Seq(PacketType) /\ Coming(f) \in Seq(PacketType) /\ q \in Seq(Nat)
  <2>1. Coming(f) \in Seq(PacketType) /\ fresh[e] \in Seq(Nat)
    BY <1>0, ComingIs, StateIs
  <2>2. Tail(w) \in Seq(PacketType)
    <3> HIDE DEF w
    <3> QED BY <1>1
  <2> DEFINE z == fresh[e]
  <2>3. z \in Seq(Nat)
    BY <2>1
  <2> HIDE DEF z
  <2>4. Append(z, n) \in Seq(Nat)
    BY <1>3, <2>3
  <2> QED BY <2>1, <2>2, <2>4 DEF z
<1>10. IsAdded(Now, T, e, n, ch) /\ T.in[e] = Tail(w) /\ T.in[f] = Coming(f) /\ T.fresh[e] = q
  <2> DEFINE v == Tail(w) u == Coming(f)
  <2>1. v \in Seq(PacketType) /\ u \in Seq(PacketType) /\ q \in Seq(Nat) /\ T = Added(Now, e, ch, l, v, u, q)
    BY <1>9
  <2>2. Adds(Now, e, n, l, ch)
    BY <1>0, <1>7 DEF n, l, id, Adds
  <2> HIDE DEF v, u, q, T
  <2>3. AddedIs(Now, Added(Now, e, ch, l, v, u, q), e, n, ch, v, u, q)
    BY <1>0, <2>1, <2>2, AddedView
  <2> QED BY <2>1, <2>3 DEF AddedIs, v, u
<1> HIDE DEF T
<1>11. Gets(Now, T, e, ch) /\ Puts(Now, T, e, n, ch)
  BY <1>0, <1>1, <1>7, <1>10 DEF Gets, Puts
<1>12. Good(T)
  BY <1>0, <1>7, <1>8, <1>10, <1>11, AddedKeeps
<1>13. Coming(e)' = Tail(w) /\ Coming(f)' = Coming(f)
  BY <1>0, <1>1, <1>2, ComingTaken
<1>14. Now' = T
  <2>1. [x \in Ends |-> Running(x)'] = Now.runs
    BY <1>2, LoopRuns
  <2>2. Now' = View([x \in Ends |-> IF x = e THEN Tail(w) ELSE Coming(f)], chan', list', fresh', [x \in Ends |-> Running(x)'], connOpen')
    BY <1>13, NowIs
  <2>3. connOpen' = connOpen
    OBVIOUS
  <2> HIDE DEF q
  <2> QED BY <1>0, <1>2, <2>1, <2>2, <2>3 DEF T, Added
<1>15. \A x \in Ends : Fewer(Coming(x), Coming(x)')
  <2>1. Fewer(w, Tail(w)) /\ Fewer(Coming(f), Coming(f))
    BY <1>0, <1>1, FewerFacts, ComingIs
  <2> QED BY <1>13, <2>1, PeerFacts
<1>16. net' \in [Ends -> Seq(PacketType)]
  BY <1>0, <1>2 DEF ShapeOK
<1>17. Good(Now') /\ may' = may /\ connOpen' = connOpen /\ asking' = asking
  BY <1>12, <1>14
<1> QED BY <1>2, <1>15, <1>16, <1>17, LoopViewed

\* A user has taken a step, and the view after it is good.
LEMMA UserViewed ==
  ASSUME Inv, may' = may, connOpen' = connOpen, loop' = loop, held' = held, err' = err, net' \in [Ends -> Seq(PacketType)],
         globalReqs' = globalReqs, globalResp' = globalResp, asking' = asking, Good(Now'), \A x \in Ends : Fewer(Coming(x), Coming(x)')
  PROVE  Inv'
<1>1. ShapeOK /\ \A x \in Ends : LoopOK(x) /\ GlobalOK(x)
  BY DEF Inv
<1>2. ShapeOK'
  BY <1>1 DEF ShapeOK
<1>3. \A x \in Ends : GlobalOK(x)'
  BY <1>1, <1>2, GlobalStays
<1>4. \A x \in Ends : LoopOK(x)'
  BY <1>1 DEF LoopOK, Running
<1>5. may' \in Scenarios
  BY DEF Inv
<1> QED BY <1>2, <1>3, <1>4, <1>5 DEF Inv

Both(e, s, u) == [x \in Ends |-> IF x = e THEN s ELSE u]
LEMMA NowBoth ==
  ASSUME NEW e \in Ends, NEW s, NEW u, Coming(e)' = s, Coming(Peer(e))' = u, NEW r, \A x \in Ends : r[x] = Running(x)', r = [x \in Ends |-> r[x]]
  PROVE  Now' = View(Both(e, s, u), chan', list', fresh', r, connOpen')
<1>1. Now' = View([x \in Ends |-> IF x = e THEN s ELSE u], chan', list', fresh', [x \in Ends |-> Running(x)'], connOpen')
  BY NowIs
<1>2. r = [x \in Ends |-> Running(x)']
  OBVIOUS
<1> QED BY <1>1, <1>2 DEF Both

\* openChannel has made a channel, and sent the open or not.
Opens(e, n, l, id, user, ch) ==
  /\ n = Len(chan[e]) + 1 /\ l = Add(list[e], n) /\ id = CHOOSE i \in DOMAIN l : l[i] = n
  /\ user \in {"opening", "none"} /\ BornAs(ch, "out", user, id, 0, 0, 0)
  /\ list' = [list EXCEPT ![e] = l] /\ chan' = [chan EXCEPT ![e] = Append(chan[e], ch)]
  /\ \/ net' = net
     \/ user = "opening" /\ net' = [net EXCEPT ![Peer(e)] = Append(@, Packet("open", id, WindowSize, 0, n))]

LEMMA OpensKeeps ==
  ASSUME Inv, UNCHANGED <<may, connOpen, loopVars, fresh, globalVars>>, NEW e \in Ends, NEW n, NEW l, NEW id, NEW user, NEW ch, Opens(e, n, l, id, user, ch)
  PROVE  Inv'
<1> DEFINE f == Peer(e) w == Coming(e) p == Packet("open", id, WindowSize, 0, n) q == fresh[e]
<1>0. f \in Ends /\ f # e /\ Now.chan = chan /\ Now.list = list /\ Now.fresh = fresh /\ Now.open = connOpen /\ Now.in[e] = w /\ Now.in[f] = Coming(f)
      /\ Good(Now) /\ ShapeOK /\ Now \in ViewType /\ fresh \in [Ends -> Seq(Nat)]
  BY PeerFacts, NowFields, StateIs
<1>a. n = Len(chan[e]) + 1 /\ l = Add(list[e], n) /\ id = CHOOSE i \in DOMAIN l : l[i] = n
  BY DEF Opens
<1>b. user \in {"opening", "none"} /\ BornAs(ch, "out", user, id, 0, 0, 0) /\ list' = [list EXCEPT ![e] = l] /\ chan' = [chan EXCEPT ![e] = Append(chan[e], ch)]
  BY DEF Opens
<1>c. \/ net' = net
      \/ user = "opening" /\ net' = [net EXCEPT ![Peer(e)] = Append(@, p)]
  BY DEF Opens
<1>1. n \in Nat /\ n # 0 /\ id \in Nat
  BY <1>a, FreeId
<1>2. Newborn(ch) /\ ch.dir = "out" /\ ch.user = user /\ ch.localId = id /\ ch.peer = 0
  BY <1>b DEF BornAs
<1>3. may' = may /\ connOpen' = connOpen /\ loop' = loop /\ held' = held /\ err' = err /\ fresh' = fresh /\ globalReqs' = globalReqs /\ globalResp' = globalResp /\ asking' = asking
  BY DEF loopVars, globalVars
<1>4. p \in PacketType /\ p.kind = "open" /\ p.from = n /\ p.id = id /\ p.n = WindowSize
  BY <1>1, WindowAssumption DEF Packet, PacketType, Kinds
<1> HIDE DEF p
<1>5. w \in Seq(PacketType) /\ Coming(f) \in Seq(PacketType) /\ q \in Seq(Nat)
  BY <1>0, ComingIs
<1>6. \E u \in Seq(PacketType) : /\ Coming(e)' = w /\ Coming(f)' = u /\ net' \in [Ends -> Seq(PacketType)] /\ (u = Coming(f) \/ (user = "opening" /\ u = Append(Coming(f), p)))
  <2>1. CASE net' = net
    <3>1. Coming(e)' = w /\ Coming(f)' = Coming(f)
      BY <1>0, <1>3, <2>1, ComingSame
    <3> QED BY <1>0, <1>5, <2>1, <3>1 DEF ShapeOK
  <2>2. CASE user = "opening" /\ net' = [net EXCEPT ![Peer(e)] = Append(@, p)]
    <3>1. Coming(e)' = w /\ Coming(f)' = Append(Coming(f), p) /\ net' \in [Ends -> Seq(PacketType)]
      BY <1>0, <1>3, <1>4, <2>2, ComingSent
    <3>2. Append(Coming(f), p) \in Seq(PacketType)
      <4> DEFINE z == Coming(f)
      <4>1. z \in Seq(PacketType)
        BY <1>5
      <4> HIDE DEF z
      <4>2. Append(z, p) \in Seq(PacketType)
        BY <1>4, <4>1
      <4> QED BY <4>2 DEF z
    <3> QED BY <2>2, <3>1, <3>2
  <2> QED BY <1>c, <2>1, <2>2
<1>7. PICK u \in Seq(PacketType) : /\ Coming(e)' = w /\ Coming(f)' = u /\ net' \in [Ends -> Seq(PacketType)] /\ (u = Coming(f) \/ (user = "opening" /\ u = Append(Coming(f), p)))
  BY <1>6
<1> DEFINE T == Added(Now, e, ch, l, w, u, q)
<1>8. IsAdded(Now, T, e, n, ch) /\ T.in[e] = w /\ T.in[f] = u /\ T.fresh[e] = q
  <2>1. Adds(Now, e, n, l, ch)
    BY <1>0, <1>a, <1>2 DEF Adds
  <2> HIDE DEF w, q
  <2>2. AddedIs(Now, Added(Now, e, ch, l, w, u, q), e, n, ch, w, u, q)
    BY <1>0, <1>5, <2>1, AddedView
  <2> QED BY <2>2 DEF AddedIs
<1>9. Now' = T
  <2>2. \A x \in Ends : Now.runs[x] = Running(x)'
    BY <1>3, NowFields DEF Running
  <2>4. Now.runs = [x \in Ends |-> Now.runs[x]]
    BY NowFields DEF Now
  <2>1. Now' = View(Both(e, w, u), chan', list', fresh', Now.runs, connOpen')
    BY <1>7, <2>2, <2>4, NowBoth
  <2>3. fresh' = [fresh EXCEPT ![e] = q]
    BY <1>0, <1>3
  <2> QED BY <1>0, <1>b, <1>3, <2>1, <2>3 DEF Added, Both
<1> HIDE DEF T
<1>10. Joins(Now, e, ch) /\ Gets(Now, T, e, ch)
  BY <1>0, <1>2, <1>8 DEF Joins, Gets
<1>11. Puts(Now, T, e, n, ch)
  BY <1>0, <1>b, <1>2, <1>4, <1>7, <1>8 DEF Puts
<1>12. Good(T)
  <2>1. T.fresh[e] = Now.fresh[e]
    BY <1>0, <1>8
  <2> QED BY <1>0, <1>8, <1>10, <1>11, <2>1, AddedKeeps
<1>13. \A x \in Ends : Fewer(Coming(x), Coming(x)')
  <2>1. Fewer(w, w) /\ Fewer(Coming(f), u)
    <3>1. p.kind \notin Globals
      BY <1>4 DEF Globals
    <3> QED BY <1>4, <1>5, <1>7, <3>1, FewerFacts
  <2> QED BY <1>7, <2>1, PeerFacts
<1>14. Good(Now')
  BY <1>9, <1>12
<1> QED BY <1>3, <1>7, <1>13, <1>14, UserViewed

LEMMA BornOut ==
  ASSUME NEW id \in Nat, NEW ch, ch = [NewChannel("out", "opening") EXCEPT !.localId = id], NEW user \in {"opening", "none"}, NEW b,
         b = [ch EXCEPT !.user = user] \/ (user = "opening" /\ b = ch)
  PROVE  BornAs(b, "out", user, id, 0, 0, 0)
<1>0. WindowSize \in Nat /\ MaxPacket \in Nat
  BY WindowAssumption
<1>1. <<>> \in Seq({"ack"} \cup Responses) /\ <<>> \in Seq({0, 1}) /\ [x \in {0, 1} |-> 0] \in [{0, 1} -> Nat] /\ Len(<<>>) = 0
  OBVIOUS
<1>2. b \in ChannelType
  <2>1. ch \in ChannelType
    BY <1>0, <1>1 DEF NewChannel, ChannelType
  <2>2. [ch EXCEPT !.user = user] \in ChannelType
    BY ZenonT(60), <2>1 DEF ChannelType
  <2> QED BY <2>1, <2>2
<1>3. /\ b.dir = "out" /\ b.user = user /\ b.localId = id /\ b.remoteId = 0 /\ b.win = 0 /\ b.peer = 0 /\ ~b.decided /\ ~b.sentClose /\ ~b.winClosed
      /\ b.myWindow = WindowSize /\ b.msg = <<>> /\ b.reqs = <<>> /\ ~b.closed /\ b.todo = 0 /\ b.reserved = 0 /\ b.taken = 0 /\ b.owed = 0 /\ ~b.waits /\ b.lost = 0
      /\ b.pending[0] = 0 /\ b.pending[1] = 0
  <2>1. CASE b = [ch EXCEPT !.user = user]
    BY <2>1 DEF NewChannel
  <2>2. CASE user = "opening" /\ b = ch
    BY <2>2 DEF NewChannel
  <2> QED BY <2>1, <2>2
<1>4. Local(b)
  <2>1. WindowSize + 0 + 0 + 0 + 0 = WindowSize /\ 0 <= MaxPacket /\ 0 <= 0 /\ 0 <= 1
    BY <1>0
  <2> QED BY <1>1, <1>3, <2>1 DEF Local
<1> QED BY <1>2, <1>3, <1>4 DEF Newborn, BornAs

LEMMA OpenChannelKeeps ==
  ASSUME Inv, UNCHANGED may, NEW e \in Ends, OpenChannel(e)
  PROVE  Inv'
<1> DEFINE n == Len(chan[e]) + 1 l == Add(list[e], n) id == CHOOSE i \in DOMAIN l : l[i] = n ch == [NewChannel("out", "opening") EXCEPT !.localId = id]
           p == Packet("open", id, WindowSize, 0, n)
<1>1. /\ list' = [list EXCEPT ![e] = l] /\ UNCHANGED <<may, connOpen, loopVars, fresh, globalVars>>
      /\ \/ net' = Sent(e, p) /\ chan' = [chan EXCEPT ![e] = Append(@, ch)]
         \/ net' = net /\ chan' = [chan EXCEPT ![e] = Append(@, [ch EXCEPT !.user = "none"])]
  BY DEF OpenChannel
<1> DEFINE none == [ch EXCEPT !.user = "none"]
<1>2. BornAs(ch, "out", "opening", id, 0, 0, 0) /\ BornAs(none, "out", "none", id, 0, 0, 0)
  <2>1. id \in Nat
    BY FreeId
  <2> DEFINE u == "opening" v == "none"
  <2>2. u \in {"opening", "none"} /\ v \in {"opening", "none"} /\ ch = [NewChannel("out", "opening") EXCEPT !.localId = id] /\ none = [ch EXCEPT !.user = v]
    OBVIOUS
  <2>3. u = "opening"
    OBVIOUS
  <2> HIDE DEF id, ch, none, u, v
  <2>4. BornAs(ch, "out", u, id, 0, 0, 0)
    BY <2>1, <2>2, <2>3, BornOut
  <2>5. BornAs(none, "out", v, id, 0, 0, 0)
    BY <2>1, <2>2, BornOut
  <2> QED BY <2>4, <2>5 DEF u, v
<1>3. net' = Sent(e, p) => net' = net \/ net' = [net EXCEPT ![Peer(e)] = Append(@, p)]
  <2> HIDE DEF p
  <2> QED BY StateIs, PeerFacts DEF Sent, ShapeOK
<1>4. n = Len(chan[e]) + 1 /\ l = Add(list[e], n) /\ id = CHOOSE i \in DOMAIN l : l[i] = n
  OBVIOUS
<1>5. CASE net' = Sent(e, p) /\ chan' = [chan EXCEPT ![e] = Append(@, ch)]
  <2>1. \E user : Opens(e, n, l, id, user, ch)
    <3>1. net' = net \/ net' = [net EXCEPT ![Peer(e)] = Append(@, Packet("open", id, WindowSize, 0, n))]
      BY <1>3, <1>5
    <3>2. chan' = [chan EXCEPT ![e] = Append(chan[e], ch)]
      BY <1>5
    <3> HIDE DEF n, l, id, ch
    <3> QED BY <1>1, <1>2, <1>4, <3>1, <3>2 DEF Opens
  <2> HIDE DEF n, l, id, ch
  <2> QED BY <1>1, <2>1, OpensKeeps
<1>6. CASE net' = net /\ chan' = [chan EXCEPT ![e] = Append(@, none)]
  <2>1. \E user : Opens(e, n, l, id, user, none)
    <3>2. chan' = [chan EXCEPT ![e] = Append(chan[e], none)]
      BY <1>6
    <3> HIDE DEF n, l, id, none
    <3> QED BY <1>1, <1>2, <1>4, <1>6, <3>2 DEF Opens
  <2> HIDE DEF n, l, id, none
  <2> QED BY <1>1, <2>1, OpensKeeps
<1> QED BY <1>1, <1>5, <1>6

-----------------------------------------------------------------------------
(* The steps of the loop that do not deal with a packet *)

\* Nothing about the requests on the connection has changed.
LEMMA Quietly ==
  ASSUME Inv, may' = may, ShapeOK', Good(Now'), \A x \in Ends : LoopOK(x)', \A x \in Ends : Fewer(Coming(x), Coming(x)'),
         UNCHANGED globalVars, \A x \in Ends : loop'[x] # "done" => loop[x] # "done"
  PROVE  Inv'
<1>1. ShapeOK /\ \A x \in Ends : LoopOK(x) /\ GlobalOK(x)
  BY DEF Inv
<1>2. globalReqs' = globalReqs /\ globalResp' = globalResp /\ asking' = asking
  BY DEF globalVars
<1>3. \A x \in Ends : GlobalOK(x)'
  BY <1>1, <1>2, GlobalStays
<1>4. may' \in Scenarios
  BY DEF Inv
<1> QED BY <1>3, <1>4 DEF Inv

LEMMA NowIn ==
  ASSUME NEW e \in Ends
  PROVE  Both(e, Coming(e), Coming(Peer(e))) = Now.in /\ Now.runs = [x \in Ends |-> Now.runs[x]]
<1>1. Now.in = [x \in Ends |-> Coming(x)]
  BY DEF Now
<1>2. Now.runs = [x \in Ends |-> Running(x)] /\ \A x \in Ends : Now.runs[x] = Running(x)
  BY DEF Now
<1> QED BY <1>1, <1>2, PeerFacts DEF Both

\* onePacket has read a packet: it is still on its way.
LEMMA OnePacketKeeps ==
  ASSUME Inv, UNCHANGED may, NEW e \in Ends, OnePacket(e)
  PROVE  Inv'
<1> DEFINE p == Head(net[e]) v == Tail(net[e])
<1>0. ShapeOK /\ Good(Now) /\ LoopOK(e) /\ Peer(e) \in Ends /\ Peer(e) # e /\ \A x \in Ends : LoopOK(x)
  BY PeerFacts DEF Inv
<1>1. /\ loop[e] = "run" /\ held[e] = NoPacket /\ connOpen[e] /\ net[e] # <<>> /\ held' = [held EXCEPT ![e] = p] /\ net' = [net EXCEPT ![e] = v]
      /\ loop' = [loop EXCEPT ![e] = "push"] /\ UNCHANGED <<connOpen, chan, list, err, fresh, globalVars>>
  BY DEF OnePacket
<1>2. net[e] \in Seq(PacketType) /\ net[e] # <<>>
  BY <1>0, <1>1 DEF ShapeOK
<1>3. p \in PacketType /\ v \in Seq(PacketType) /\ net[e] = <<p>> \o v
  <2> DEFINE s == net[e]
  <2>1. s \in Seq(PacketType) /\ s # <<>>
    BY <1>2
  <2> HIDE DEF s
  <2>2. Head(s) \in PacketType /\ Tail(s) \in Seq(PacketType) /\ s = <<Head(s)>> \o Tail(s)
    BY <2>1
  <2> QED BY <2>2 DEF s
<1> HIDE DEF p, v
<1>4. p # NoPacket
  BY <1>3 DEF PacketType, NoPacket, Packet, Kinds, Responses, Globals
<1>5. Coming(e)' = Coming(e) /\ Coming(Peer(e))' = Coming(Peer(e))
  <2>1. held'[e] = p /\ net'[e] = v /\ held'[Peer(e)] = held[Peer(e)] /\ net'[Peer(e)] = net[Peer(e)]
    BY <1>0, <1>1 DEF ShapeOK
  <2> QED BY <1>1, <1>3, <1>4, <2>1 DEF Coming
<1>6. ShapeOK'
  BY <1>0, <1>1, <1>3 DEF ShapeOK, globalVars
<1>7. \A x \in Ends : Running(x)' = Running(x) /\ (loop'[x] # "done" => loop[x] # "done")
  BY <1>0, <1>1 DEF ShapeOK, Running
<1>8. \A x \in Ends : LoopOK(x)'
  <2>1. \A x \in Ends : loop'[x] = "push" <=> held'[x] # NoPacket
    BY <1>0, <1>1, <1>4 DEF LoopOK, ShapeOK
  <2> QED BY <1>0, <1>1, <1>7, <2>1 DEF LoopOK
<1>9. Now' = Now
  <2>1. Now' = View(Both(e, Coming(e), Coming(Peer(e))), chan', list', fresh', Now.runs, connOpen')
    <3>1. \A x \in Ends : Now.runs[x] = Running(x)'
      BY <1>7, NowFields
    <3> QED BY <1>5, <3>1, NowIn, NowBoth
  <2>2. Now' = View(Now.in, chan, list, fresh, Now.runs, connOpen)
    BY <1>1, <2>1, NowIn
  <2> QED BY <2>2 DEF View, Now
<1>10. \A x \in Ends : Fewer(Coming(x), Coming(x)')
  <2>1. \A x \in Ends : Coming(x)' = Coming(x)
    BY <1>5, PeerFacts
  <2> QED BY <1>0, <2>1, ComingIs, FewerFacts
<1> QED BY <1>0, <1>1, <1>6, <1>7, <1>8, <1>9, <1>10, Quietly

\* The packets on their way have stayed.
LEMMA NowStill ==
  ASSUME NEW e \in Ends, net' = net, held' = held, NEW r, \A x \in Ends : r[x] = Running(x)', r = [x \in Ends |-> r[x]]
  PROVE  Now' = View(Now.in, chan', list', fresh', r, connOpen')
<1>1. Coming(e)' = Coming(e) /\ Coming(Peer(e))' = Coming(Peer(e))
  BY ComingSame, PeerFacts
<1>2. Now' = View(Both(e, Coming(e), Coming(Peer(e))), chan', list', fresh', r, connOpen')
  BY <1>1, NowBoth
<1> QED BY <1>2, NowIn

LEMMA StillFewer ==
  ASSUME ShapeOK, net' = net, held' = held
  PROVE  \A x \in Ends : Fewer(Coming(x), Coming(x)')
<1>1. \A x \in Ends : Coming(x)' = Coming(x)
  BY ComingSame
<1> QED BY <1>1, ComingIs, FewerFacts

LEMMA ReadErrorKeeps ==
  ASSUME Inv, UNCHANGED may, NEW e \in Ends, ReadError(e)
  PROVE  Inv'
<1>0. ShapeOK /\ Good(Now) /\ Now \in ViewType /\ Peer(e) \in Ends /\ \A x \in Ends : LoopOK(x)
  BY PeerFacts, StateIs DEF Inv
<1>1. /\ loop[e] = "run" /\ (~connOpen[e] \/ ~connOpen[Peer(e)]) /\ loop' = [loop EXCEPT ![e] = "failed"] /\ err' = [err EXCEPT ![e] = "read"]
      /\ net' = net /\ held' = held /\ UNCHANGED <<connOpen, chan, list, fresh, globalVars>>
  BY DEF ReadError, Stop, wireVars
<1>2. ShapeOK'
  BY <1>0, <1>1 DEF ShapeOK, globalVars
<1>3. \A x \in Ends : (loop'[x] # "done" => loop[x] # "done") /\ loop'[x] = IF x = e THEN "failed" ELSE loop[x]
  BY <1>0, <1>1 DEF ShapeOK
<1>4. \A x \in Ends : LoopOK(x)'
  <2>1. LoopOK(e)'
    BY <1>0, <1>1, <1>3 DEF LoopOK, Running
  <2>2. \A x \in Ends : x # e => LoopOK(x)'
    BY <1>0, <1>1, <1>3 DEF LoopOK, Running
  <2> QED BY <2>1, <2>2
<1>5. Now' = Halts(Now, e)
  <2> DEFINE r == [Now.runs EXCEPT ![e] = FALSE]
  <2>1. Now.runs \in [Ends -> BOOLEAN]
    BY <1>0 DEF ViewType
  <2>2. \A x \in Ends : r[x] = Running(x)'
    <3>1. r[e] = FALSE /\ \A x \in Ends : x # e => r[x] = Running(x)
      BY <2>1, NowFields
    <3>2. Running(e)' = FALSE /\ \A x \in Ends : x # e => Running(x)' = Running(x)
      BY <1>3 DEF Running
    <3> HIDE DEF r
    <3> QED BY <3>1, <3>2
  <2>3. r = [x \in Ends |-> r[x]]
    BY <2>1
  <2> HIDE DEF r
  <2>4. Now' = View(Now.in, chan', list', fresh', r, connOpen')
    BY <1>1, <2>2, <2>3, NowStill
  <2> QED BY <1>1, <2>4, NowFields DEF Halts, r
<1>6. Good(Now')
  BY <1>0, <1>5, HaltsKeeps
<1>7. \A x \in Ends : Fewer(Coming(x), Coming(x)')
  BY <1>0, <1>1, StillFewer
<1> QED BY <1>1, <1>2, <1>3, <1>4, <1>6, <1>7, Quietly

LEMMA DropAllKeeps ==
  ASSUME Inv, UNCHANGED may, NEW e \in Ends, DropAll(e)
  PROVE  Inv'
<1> DEFINE K == Range(list[e]) s == Coming(e)
<1>0. ShapeOK /\ Good(Now) /\ Now \in ViewType /\ \A x \in Ends : LoopOK(x)
  BY StateIs DEF Inv
<1>1. /\ loop[e] = "failed" /\ chan' = [chan EXCEPT ![e] = [c \in DOMAIN chan[e] |-> IF c \in K THEN Shut(chan[e][c]) ELSE chan[e][c]]]
      /\ list' = [list EXCEPT ![e] = <<>>] /\ loop' = [loop EXCEPT ![e] = "dropped"] /\ net' = net /\ held' = held /\ UNCHANGED <<connOpen, err, fresh, globalVars>>
  BY DEF DropAll, wireVars
<1> HIDE DEF K
<1>2. ShapeOK'
  BY <1>0, <1>1 DEF ShapeOK, globalVars
<1>3. \A x \in Ends : (loop'[x] # "done" => loop[x] # "done") /\ loop'[x] = IF x = e THEN "dropped" ELSE loop[x]
  BY <1>0, <1>1 DEF ShapeOK
<1>4. \A x \in Ends : Running(x)' = Running(x)
  BY <1>1, <1>3 DEF Running
<1>5. \A x \in Ends : LoopOK(x)'
  BY <1>0, <1>1, <1>3, <1>4 DEF LoopOK
<1>6. Now' = Closes(Now, e, K, <<>>, Now.in[e])
  <2>1. \A x \in Ends : Now.runs[x] = Running(x)'
    BY <1>4, NowFields
  <2>2. Now' = View(Now.in, chan', list', fresh', Now.runs, connOpen')
    BY <1>1, <2>1, NowIn, NowStill
  <2>3. [Now.in EXCEPT ![e] = Now.in[e]] = Now.in
    BY <1>0 DEF ViewType
  <2>4. chan' = [Now.chan EXCEPT ![e] = [c \in DOMAIN Now.chan[e] |-> IF c \in K THEN Shut(Now.chan[e][c]) ELSE Now.chan[e][c]]]
    BY <1>1, NowFields
  <2>5. list' = [Now.list EXCEPT ![e] = <<>>] /\ fresh' = Now.fresh /\ connOpen' = Now.open
    BY <1>1, NowFields
  <2> QED BY <2>2, <2>3, <2>4, <2>5 DEF Closes
<1>7. ~Now.runs[e]
  BY <1>1, NowFields DEF Running
<1>8. Good(Now')
  BY <1>0, <1>6, <1>7, DropsKeeps
<1>9. \A x \in Ends : Fewer(Coming(x), Coming(x)')
  BY <1>0, <1>1, StillFewer
<1> QED BY <1>1, <1>2, <1>3, <1>5, <1>8, <1>9, Quietly

\* The connection was closed here: what is in the network is lost.
Hangs(e) ==
  /\ UNCHANGED <<may, chan, list, fresh, err, globalVars>> /\ held' = held /\ connOpen' = [connOpen EXCEPT ![e] = FALSE] /\ net' = [net EXCEPT ![e] = <<>>]
  /\ loop' = loop \/ (loop[e] = "dropped" /\ loop' = [loop EXCEPT ![e] = "done"])
LEMMA ConnClosed ==
  ASSUME Inv, NEW e \in Ends, Hangs(e)
  PROVE  Inv'
<1>a. /\ UNCHANGED <<may, chan, list, fresh, err, globalVars>> /\ held' = held /\ connOpen' = [connOpen EXCEPT ![e] = FALSE] /\ net' = [net EXCEPT ![e] = <<>>]
      /\ loop' = loop \/ (loop[e] = "dropped" /\ loop' = [loop EXCEPT ![e] = "done"])
  BY DEF Hangs
<1>0. ShapeOK /\ Good(Now) /\ Now \in ViewType /\ Peer(e) \in Ends /\ Peer(e) # e /\ \A x \in Ends : LoopOK(x) /\ connOpen \in [Ends -> BOOLEAN]
  BY PeerFacts, StateIs DEF Inv
<1>1. ShapeOK'
  <2>1. net' \in [Ends -> Seq(PacketType)]
    <3>1. net \in [Ends -> Seq(PacketType)] /\ <<>> \in Seq(PacketType)
      BY <1>0 DEF ShapeOK
    <3> QED BY <1>a, <3>1
  <2>3. loop' \in [Ends -> {"run", "push", "failed", "dropped", "done"}]
    BY <1>0, <1>a DEF ShapeOK
  <2>2. globalReqs' = globalReqs /\ globalResp' = globalResp /\ asking' = asking /\ err' = err
    BY <1>a DEF globalVars
  <2> QED BY <1>0, <1>a, <2>1, <2>2, <2>3 DEF ShapeOK
<1>2. \A x \in Ends : (loop'[x] # "done" => loop[x] # "done") /\ Running(x)' = Running(x) /\ (loop'[x] = "push" <=> loop[x] = "push")
  BY <1>0, <1>a DEF ShapeOK, Running
<1>3. \A x \in Ends : LoopOK(x)'
  <2>1. \A x \in Ends : connOpen'[x] => connOpen[x]
    BY <1>0, <1>a
  <2> QED BY <1>0, <1>a, <1>2, <2>1, PeerFacts DEF LoopOK
<1>4. net'[e] = <<>> /\ net'[Peer(e)] = net[Peer(e)]
  BY <1>0, <1>a DEF ShapeOK
<1>5. Coming(Peer(e))' = Coming(Peer(e))
  BY <1>a, <1>4 DEF Coming
<1>6. Coming(e)' = <<>> \/ (Coming(e) # <<>> /\ Coming(e)' = <<Head(Coming(e))>>)
  <2>1. CASE held[e] = NoPacket
    BY <1>a, <1>4, <2>1 DEF Coming
  <2>2. CASE held[e] # NoPacket
    <3>1. Coming(e)' = <<held[e]>> \o <<>>
      BY <1>a, <1>4, <2>2 DEF Coming
    <3>2. Coming(e) # <<>> /\ Head(Coming(e)) = held[e]
      BY <1>0, <2>2, ComingIs
    <3>3. <<held[e]>> \o <<>> = <<held[e]>>
      OBVIOUS
    <3> QED BY <3>1, <3>2, <3>3
  <2> QED BY <2>1, <2>2
<1>w. PICK w : Coming(e)' = w
  OBVIOUS
<1>7. Now' = Cuts(Now, e, w)
  <2>1. \A x \in Ends : Now.runs[x] = Running(x)'
    BY <1>2, NowFields
  <2>2. Now' = View(Both(e, w, Coming(Peer(e))), chan', list', fresh', Now.runs, connOpen')
    BY <1>w, <1>5, <2>1, NowIn, NowBoth
  <2>3. Both(e, w, Coming(Peer(e))) = [Now.in EXCEPT ![e] = w]
    BY InOf DEF Both
  <2> QED BY <1>a, <2>2, <2>3, NowFields DEF Cuts
<1>8. Good(Now')
  <2>1. w = <<>> \/ (Now.in[e] # <<>> /\ w = <<Head(Now.in[e])>>)
    BY <1>6, <1>w, NowFields
  <2>2. Good(Cuts(Now, e, w))
    BY <1>0, <2>1, CutsKeeps
  <2> QED BY <1>7, <2>2
<1>9. \A x \in Ends : Fewer(Coming(x), Coming(x)')
  <2>1. Fewer(Coming(e), Coming(e)') /\ Fewer(Coming(Peer(e)), Coming(Peer(e))')
    BY <1>0, <1>5, <1>6, ComingIs, FewerFacts
  <2> QED BY <2>1, PeerFacts
<1> QED BY <1>a, <1>1, <1>2, <1>3, <1>8, <1>9, Quietly

LEMMA LoopExitKeeps ==
  ASSUME Inv, UNCHANGED may, NEW e \in Ends, LoopExit(e)
  PROVE  Inv'
BY ConnClosed DEF LoopExit, Hangs

LEMMA CloseConnKeeps ==
  ASSUME Inv, UNCHANGED may, NEW e \in Ends, CloseConn(e)
  PROVE  Inv'
BY ConnClosed DEF CloseConn, loopVars, Hangs

-----------------------------------------------------------------------------
(* Requests on the connection *)

\* GlobalOK of an end: s comes to it and u goes to the other, which has the requests q; m are the answers it has.
GlobalType(s, u, q, m) == s \in Seq(PacketType) /\ u \in Seq(PacketType) /\ q \in Seq({0, 1}) /\ m \in Seq({"ack"})
Owing(s, u, q, m) == GTells(s) + Amount(u, "global", 0) + Total(q) + Len(m)
GlobalPacket(p) == p.kind = "global" => p.n \in {0, 1} /\ p.from = 0
Room(a) == IF a THEN 1 ELSE 0
GlobalIs(s, u, q, m, a, done) ==
  /\ \A i \in DOMAIN s : GlobalPacket(s[i])
  /\ Len(m) <= 1 /\ (m # <<>> => a)
  /\ ~done => Owing(s, u, q, m) <= Room(a)

LEMMA GlobalSame ==
  ASSUME NEW e \in Ends
  PROVE  /\ GlobalOK(e) <=> GlobalIs(Coming(e), Coming(Peer(e)), globalReqs[Peer(e)], globalResp[e], asking[e], loop[e] = "done")
         /\ GlobalOK(e)' <=> GlobalIs(Coming(e)', Coming(Peer(e))', globalReqs'[Peer(e)], globalResp'[e], asking'[e], loop'[e] = "done")
<1>1. GlobalOK(e) <=> GlobalIs(Coming(e), Coming(Peer(e)), globalReqs[Peer(e)], globalResp[e], asking[e], loop[e] = "done")
  BY DEF GlobalOK, GlobalIs, GlobalPacket, Owing, Asks, Room
<1>2. GlobalOK(e)' <=> GlobalIs(Coming(e)', Coming(Peer(e))', globalReqs'[Peer(e)], globalResp'[e], asking'[e], loop'[e] = "done")
  BY DEF GlobalOK, GlobalIs, GlobalPacket, Owing, Asks, Room
<1> QED BY <1>1, <1>2

LEMMA OwingNat ==
  ASSUME NEW s, NEW u, NEW q, NEW m, GlobalType(s, u, q, m)
  PROVE  GTells(s) \in Nat /\ Amount(u, "global", 0) \in Nat /\ Total(q) \in Nat /\ Len(m) \in Nat
<1>1. s \in Seq(PacketType) /\ u \in Seq(PacketType) /\ q \in Seq({0, 1}) /\ m \in Seq({"ack"})
  BY DEF GlobalType
<1>2. q \in Seq(Nat) /\ Len(m) \in Nat
  BY <1>1
<1> QED BY <1>1, <1>2, AmountNat, TotalNat

\* SendRequest has its answer, or the loop has ended.
LEMMA GlobalGot ==
  ASSUME NEW s, NEW u, NEW q, NEW m, NEW done \in BOOLEAN, GlobalType(s, u, q, m), GlobalIs(s, u, q, m, TRUE, done), m # <<>> \/ done,
         NEW v, v = IF m = <<>> THEN m ELSE Tail(m)
  PROVE  GlobalIs(s, u, q, v, FALSE, done)
<1>1. m \in Seq({"ack"}) /\ Len(m) <= 1
  BY DEF GlobalType, GlobalIs
<1>2. v = <<>> /\ Len(v) = 0 /\ (m # <<>> => Len(m) = 1)
  <2>1. m # <<>> => Len(m) = 1 /\ Tail(m) = <<>>
    BY <1>1
  <2>2. Len(<<>>) = 0
    OBVIOUS
  <2> QED BY <2>1, <2>2
<1>3. ASSUME ~done PROVE Owing(s, u, q, v) <= Room(FALSE)
  <2> DEFINE A == GTells(s) B == Amount(u, "global", 0) C == Total(q)
  <2>1. A \in Nat /\ B \in Nat /\ C \in Nat
    BY OwingNat
  <2>2. A + B + C + 1 <= 1
    BY <1>2, <1>3 DEF GlobalIs, Owing, Room
  <2> HIDE DEF A, B, C
  <2>3. A + B + C + 0 <= 0
    BY <2>1, <2>2
  <2>4. A + B + C + Len(v) <= 0
    BY <1>2, <2>3
  <2>5. Room(FALSE) = 0
    BY DEF Room
  <2> QED BY <2>4, <2>5 DEF Owing, A, B, C
<1>4. 0 <= 1
  OBVIOUS
<1> QED BY <1>2, <1>3, <1>4 DEF GlobalIs

\* A request was sent: w is what goes to the other end then.
LEMMA GlobalAsks ==
  ASSUME NEW s, NEW u, NEW q, NEW m, NEW done \in BOOLEAN, NEW a \in BOOLEAN, NEW b \in BOOLEAN, GlobalType(s, u, q, m), GlobalIs(s, u, q, m, a, done),
         NEW p \in PacketType, p.kind = "global", p.from = 0, p.n = Room(b), b => ~a, NEW w, w = u \/ w = Append(u, p)
  PROVE  GlobalIs(s, w, q, m, a \/ b, done)
<1> DEFINE A == GTells(s) B == Amount(u, "global", 0) C == Total(q) D == Len(m) E == Amount(w, "global", 0) N == Room(b)
<1>1. A \in Nat /\ B \in Nat /\ C \in Nat /\ D \in Nat /\ N \in {0, 1}
  BY OwingNat DEF Room
<1>2. E = B \/ E = B + N
  <2>1. u \in Seq(PacketType)
    BY DEF GlobalType
  <2> DEFINE k == "global" x == 0
  <2>2. Weight(p, k, x) = N
    BY DEF Weight
  <2> HIDE DEF k, x, N
  <2>3. AmountFacts(u, p, k, x)
    BY <2>1, AmountMoves
  <2>4. Amount(Append(u, p), k, x) = Amount(u, k, x) + N
    BY <2>2, <2>3 DEF AmountFacts
  <2> QED BY <2>4 DEF k, x
<1>3. ASSUME ~done PROVE A + E + C + D <= Room(a \/ b)
  <2>1. A + B + C + D <= Room(a)
    BY <1>3 DEF GlobalIs, Owing
  <2>2. Room(a) + N <= Room(a \/ b) /\ Room(a) \in Nat /\ Room(a \/ b) \in Nat
    BY DEF Room
  <2> DEFINE R == Room(a) Q == Room(a \/ b)
  <2> HIDE DEF A, B, C, D, E, N, R, Q
  <2>3. R + N <= Q /\ R \in Nat /\ Q \in Nat /\ A + B + C + D <= R
    BY <2>1, <2>2 DEF R, Q
  <2>4. A + E + C + D <= Q
    BY <1>1, <1>2, <2>3
  <2> QED BY <2>4 DEF Q
<1> HIDE DEF A, E, C, D
<1>4. ~done => Owing(s, w, q, m) <= Room(a \/ b)
  BY <1>3 DEF Owing, A, E, C, D
<1> QED BY <1>4 DEF GlobalIs

\* The other end has served a request of q, and may have answered: w is what comes then.
LEMMA GlobalServed ==
  ASSUME NEW s, NEW u, NEW q, NEW m, NEW done \in BOOLEAN, NEW a \in BOOLEAN, GlobalType(s, u, q, m), GlobalIs(s, u, q, m, a, done), q # <<>>,
         NEW p \in PacketType, p.kind = "globalAck", NEW w, w = s \/ (Head(q) = 1 /\ w = Append(s, p))
  PROVE  GlobalIs(w, u, Tail(q), m, a, done)
<1> DEFINE A == GTells(s) B == Amount(u, "global", 0) C == Total(q) D == Len(m) E == GTells(w) H == Head(q) F == Total(Tail(q))
<1>1. A \in Nat /\ B \in Nat /\ C \in Nat /\ D \in Nat
  BY OwingNat
<1>2. s \in Seq(PacketType) /\ q \in Seq({0, 1}) /\ q \in Seq(Nat)
  BY DEF GlobalType
<1>3. E = A \/ (H = 1 /\ E = A + 1)
  <2>1. GTell(p) = 1
    BY DEF GTell
  <2>2. GTells(Append(s, p)) = GTells(s) + GTell(p)
    BY <1>2, GTellsMoves
  <2> QED BY <2>1, <2>2
<1>4. C = H + F /\ H \in {0, 1} /\ F \in Nat
  <2>1. Tail(q) \in Seq(Nat) /\ Head(q) \in {0, 1}
    BY <1>2
  <2> QED BY <1>2, <2>1, TotalTail, TotalNat
<1>5. ASSUME ~done PROVE E + B + F + D <= Room(a)
  <2> DEFINE R == Room(a)
  <2>1. A + B + C + D <= R /\ R \in Nat
    BY <1>5 DEF GlobalIs, Owing, Room
  <2> HIDE DEF A, B, C, D, E, F, H, R
  <2>2. E + B + F + D <= R
    BY <1>1, <1>3, <1>4, <2>1
  <2> QED BY <2>2 DEF R
<1>6. \A i \in DOMAIN w : GlobalPacket(w[i])
  <2>1. GlobalPacket(p)
    BY DEF GlobalPacket
  <2>2. \A i \in DOMAIN s : GlobalPacket(s[i])
    BY DEF GlobalIs
  <2>3. \A i \in DOMAIN Append(s, p) : (i \in DOMAIN s /\ Append(s, p)[i] = s[i]) \/ Append(s, p)[i] = p
    BY <1>2
  <2> QED BY <2>1, <2>2, <2>3
<1> HIDE DEF E, B, F, D
<1>7. ~done => Owing(w, u, Tail(q), m) <= Room(a)
  BY <1>5 DEF Owing, E, B, F, D
<1> QED BY <1>6, <1>7 DEF GlobalIs

\* A packet was added to what goes to the other end, which is not a request ...
LEMMA GlobalGoes ==
  ASSUME NEW s, NEW u, NEW q, NEW m, NEW done \in BOOLEAN, NEW a \in BOOLEAN, GlobalType(s, u, q, m), GlobalIs(s, u, q, m, a, done),
         NEW p \in PacketType, p.kind # "global", NEW w, w = u \/ w = Append(u, p)
  PROVE  GlobalIs(s, w, q, m, a, done)
<1>1. Amount(w, "global", 0) = Amount(u, "global", 0)
  <2>1. u \in Seq(PacketType)
    BY DEF GlobalType
  <2> DEFINE k == "global" x == 0
  <2>2. Weight(p, k, x) = 0
    BY DEF Weight
  <2>3. Amount(u, k, x) \in Nat
    BY OwingNat
  <2> HIDE DEF k, x
  <2>4. AmountFacts(u, p, k, x)
    BY <2>1, AmountMoves
  <2>5. Amount(Append(u, p), k, x) = Amount(u, k, x)
    BY <2>2, <2>3, <2>4 DEF AmountFacts
  <2> QED BY <2>5 DEF k, x
<1>2. Owing(s, w, q, m) = Owing(s, u, q, m)
  BY <1>1 DEF Owing
<1> QED BY <1>2 DEF GlobalIs

\* ... or to what comes, which is not an answer.
LEMMA GlobalComes ==
  ASSUME NEW s, NEW u, NEW q, NEW m, NEW done \in BOOLEAN, NEW a \in BOOLEAN, GlobalType(s, u, q, m), GlobalIs(s, u, q, m, a, done),
         NEW p \in PacketType, p.kind # "globalAck", GlobalPacket(p), NEW w, w = s \/ w = Append(s, p)
  PROVE  GlobalIs(w, u, q, m, a, done)
<1>0. s \in Seq(PacketType) /\ GTells(s) \in Nat
  BY OwingNat DEF GlobalType
<1>1. GTells(w) = GTells(s)
  <2>1. GTell(p) = 0
    BY DEF GTell
  <2>2. GTells(Append(s, p)) = GTells(s) + GTell(p)
    BY <1>0, GTellsMoves
  <2>3. \A z \in Nat : z + 0 = z
    OBVIOUS
  <2>4. GTells(Append(s, p)) = GTells(s)
    BY <1>0, <2>1, <2>2, <2>3
  <2> QED BY <2>4
<1>2. Owing(w, u, q, m) = Owing(s, u, q, m)
  BY <1>1 DEF Owing
<1>3. \A i \in DOMAIN w : GlobalPacket(w[i])
  <2>2. \A i \in DOMAIN s : GlobalPacket(s[i])
    BY DEF GlobalIs
  <2>3. \A i \in DOMAIN Append(s, p) : (i \in DOMAIN s /\ Append(s, p)[i] = s[i]) \/ Append(s, p)[i] = p
    BY <1>0
  <2> QED BY <2>2, <2>3
<1> QED BY <1>2, <1>3 DEF GlobalIs

\* The other end has taken what came to it: a request into its queue, or an answer.
LEMMA GlobalTaken ==
  ASSUME NEW s, NEW u, NEW q, NEW m, NEW done \in BOOLEAN, NEW a \in BOOLEAN, GlobalType(s, u, q, m), GlobalIs(s, u, q, m, a, done), u # <<>>, GlobalPacket(Head(u)),
         NEW v, v = IF Head(u).kind = "global" THEN Append(q, Head(u).n) ELSE q
  PROVE  GlobalIs(s, Tail(u), v, m, a, done)
<1> DEFINE p == Head(u)
<1>0. u \in Seq(PacketType) /\ q \in Seq(Nat) /\ p \in PacketType
  BY DEF GlobalType
<1> DEFINE k == "global" x == 0 A == GTells(s) B == Amount(u, k, x) C == Total(q) D == Len(m) E == Amount(Tail(u), k, x) F == Total(v) W == Weight(p, k, x)
<1>1. A \in Nat /\ B \in Nat /\ C \in Nat /\ D \in Nat /\ E \in Nat
  <2>1. Tail(u) \in Seq(PacketType)
    BY <1>0
  <2> QED BY <2>1, OwingNat, AmountNat
<1>2. W \in Nat /\ B = W + E
  <2> HIDE DEF k, x
  <2>1. AmountFacts(u, p, k, x)
    BY <1>0, AmountMoves
  <2>2. Weight(Head(u), k, x) \in Nat /\ Amount(u, k, x) = Weight(Head(u), k, x) + Amount(Tail(u), k, x)
    BY <2>1 DEF AmountFacts
  <2> QED BY <2>2
<1>3. F = C + W
  <2>1. CASE p.kind = "global"
    <3>1. W = p.n /\ p.n \in Nat
      BY <2>1 DEF Weight, GlobalPacket
    <3>2. v = Append(q, p.n)
      BY <2>1
    <3> HIDE DEF p, W
    <3> QED BY <1>0, <3>1, <3>2, TotalAppend
  <2>2. CASE p.kind # "global"
    <3>1. W = 0 /\ v = q
      BY <2>2 DEF Weight
    <3> HIDE DEF C, W
    <3>2. C = C + 0
      BY <1>1
    <3> QED BY <3>1, <3>2 DEF C
  <2> QED BY <2>1, <2>2
<1>4. A + E + F + D = A + B + C + D
  <2> HIDE DEF A, B, C, D, E, F, W
  <2> QED BY <1>1, <1>2, <1>3
<1>5. Owing(s, Tail(u), v, m) = Owing(s, u, q, m)
  BY <1>4 DEF Owing
<1> QED BY <1>5 DEF GlobalIs

\* The loop has taken what came.
LEMMA GlobalTakes ==
  ASSUME NEW s, NEW u, NEW q, NEW m, NEW a \in BOOLEAN, GlobalType(s, u, q, m), GlobalIs(s, u, q, m, a, FALSE), s # <<>>, Head(s).kind \in Globals,
         NEW v, v = IF Head(s).kind = "global" THEN m ELSE Append(m, "ack")
  PROVE  GlobalIs(Tail(s), u, q, v, a, FALSE)
<1> DEFINE p == Head(s)
<1>0. s \in Seq(PacketType) /\ m \in Seq({"ack"}) /\ p \in PacketType
  BY DEF GlobalType
<1> DEFINE A == GTells(s) B == Amount(u, "global", 0) C == Total(q) D == Len(m) E == GTells(Tail(s)) F == Len(v) W == GTell(p)
<1>1. A \in Nat /\ B \in Nat /\ C \in Nat /\ D \in Nat
  BY OwingNat
<1>2. W \in Nat /\ A = W + E /\ E \in Nat
  <2>1. Tail(s) \in Seq(PacketType)
    BY <1>0
  <2> QED BY <1>0, <2>1, GTellsMoves
<1>3. F = D + W
  <2>1. CASE p.kind = "global"
    <3>1. W = 0 /\ v = m
      BY <2>1 DEF GTell
    <3> QED BY <1>1, <3>1
  <2>2. CASE p.kind # "global"
    <3>1. W = 1 /\ v = Append(m, "ack")
      BY <2>2 DEF GTell, Globals
    <3>2. Len(v) = Len(m) + 1
      BY <1>0, <3>1
    <3> QED BY <3>1, <3>2
  <2> QED BY <2>1, <2>2
<1> DEFINE R == Room(a)
<1>4. R \in {0, 1} /\ A + B + C + D <= R /\ (R = 1 => a)
  BY DEF GlobalIs, Owing, Room
<1>5. E + B + C + F <= R /\ F <= 1 /\ (F # 0 => R = 1)
  <2> HIDE DEF A, B, C, D, E, F, W, R
  <2> QED BY <1>1, <1>2, <1>3, <1>4
<1>6. v # <<>> => F # 0
  BY <1>0
<1>7. \A i \in DOMAIN Tail(s) : GlobalPacket(Tail(s)[i])
  <2>1. \A i \in DOMAIN s : GlobalPacket(s[i])
    BY DEF GlobalIs
  <2>2. \A i \in DOMAIN Tail(s) : i + 1 \in DOMAIN s /\ Tail(s)[i] = s[i + 1]
    BY <1>0
  <2> QED BY <2>1, <2>2
<1>8. Owing(Tail(s), u, q, v) <= Room(a)
  BY <1>5 DEF Owing
<1> QED BY <1>4, <1>5, <1>6, <1>7, <1>8 DEF GlobalIs

LEMMA GlobalTyped ==
  ASSUME ShapeOK, NEW e \in Ends
  PROVE  GlobalType(Coming(e), Coming(Peer(e)), globalReqs[Peer(e)], globalResp[e]) /\ (loop[e] = "done") \in BOOLEAN /\ asking[e] \in BOOLEAN
<1>1. Coming(e) \in Seq(PacketType) /\ Coming(Peer(e)) \in Seq(PacketType)
  BY ComingIs, PeerFacts
<1>2. globalReqs[Peer(e)] \in Seq({0, 1}) /\ globalResp[e] \in Seq({"ack"}) /\ asking[e] \in BOOLEAN
  BY PeerFacts DEF ShapeOK
<1> QED BY <1>1, <1>2 DEF GlobalType

\* The view has changed by a packet of the connection itself, on its way to e.
LEMMA NowPassing ==
  ASSUME Inv, NEW e \in Ends, chan' = chan, list' = list, fresh' = fresh, connOpen' = connOpen, \A x \in Ends : Running(x)' = Running(x),
         NEW s, Coming(e)' = s, Coming(Peer(e))' = Coming(Peer(e))
  PROVE  Now' = Passing(Now, e, s)
<1>1. \A x \in Ends : Now.runs[x] = Running(x)'
  BY NowFields
<1>2. Now' = View(Both(e, s, Coming(Peer(e))), chan', list', fresh', Now.runs, connOpen')
  BY <1>1, NowIn, NowBoth
<1>3. Both(e, s, Coming(Peer(e))) = [Now.in EXCEPT ![e] = s]
  BY InOf DEF Both
<1> QED BY <1>2, <1>3, NowFields DEF Passing

LEMMA GlobalRepliedKeeps ==
  ASSUME Inv, UNCHANGED may, NEW e \in Ends, GlobalReplied(e)
  PROVE  Inv'
<1> DEFINE f == Peer(e) v == IF globalResp[e] = <<>> THEN globalResp[e] ELSE Tail(globalResp[e])
<1>0. ShapeOK /\ Good(Now) /\ f \in Ends /\ f # e /\ Peer(f) = e /\ \A x \in Ends : LoopOK(x) /\ GlobalOK(x)
  BY PeerFacts DEF Inv
<1>1. /\ asking[e] /\ (globalResp[e] # <<>> \/ loop[e] = "done") /\ asking' = [asking EXCEPT ![e] = FALSE] /\ globalResp' = [globalResp EXCEPT ![e] = v]
      /\ net' = net /\ connOpen' = connOpen /\ chan' = chan /\ list' = list /\ loop' = loop /\ held' = held /\ err' = err /\ fresh' = fresh /\ globalReqs' = globalReqs
  BY DEF GlobalReplied, wireVars, loopVars
<1>2. globalResp \in [Ends -> Seq({"ack"})] /\ asking \in [Ends -> BOOLEAN]
  BY <1>0 DEF ShapeOK
<1>3. v \in Seq({"ack"})
  BY <1>2
<1> HIDE DEF v
<1>4. ShapeOK'
  BY <1>0, <1>1, <1>2, <1>3 DEF ShapeOK
<1>5. \A x \in Ends : Coming(x)' = Coming(x)
  BY <1>1, ComingSame
<1>6. GlobalOK(e)'
  <2> DEFINE s == Coming(e) u == Coming(f) q == globalReqs[f] m == globalResp[e] done == (loop[e] = "done")
  <2>1. GlobalType(s, u, q, m) /\ done \in BOOLEAN /\ GlobalIs(s, u, q, m, TRUE, done) /\ (m # <<>> \/ done) /\ v = IF m = <<>> THEN m ELSE Tail(m)
    <3>1. asking[e] = TRUE
      BY <1>1, <1>2
    <3> QED BY <1>0, <1>1, <3>1, GlobalTyped, GlobalSame DEF v
  <2>2. asking'[e] = FALSE /\ globalResp'[e] = v /\ Coming(e)' = s /\ Coming(f)' = u /\ globalReqs'[f] = q /\ (loop'[e] = "done") = done
    BY <1>0, <1>1, <1>2, <1>5
  <2> HIDE DEF s, u, q, m, done
  <2>3. GlobalIs(s, u, q, v, FALSE, done)
    BY <2>1, GlobalGot
  <2> QED BY <2>2, <2>3, GlobalSame
<1>7. GlobalOK(f)'
  <2>1. asking'[f] = asking[f] /\ globalResp'[f] = globalResp[f] /\ Coming(e)' = Coming(e) /\ Coming(f)' = Coming(f)
    BY <1>0, <1>1, <1>2, <1>5
  <2> QED BY <1>0, <1>1, <2>1, GlobalSame
<1>8. \A x \in Ends : LoopOK(x)' /\ GlobalOK(x)'
  <2>1. \A x \in Ends : LoopOK(x)'
    BY <1>0, <1>1 DEF LoopOK, Running
  <2> QED BY <1>6, <1>7, <2>1, PeerFacts
<1>9. Now' = Now
  <2>1. [x \in Ends |-> Coming(x)'] = [x \in Ends |-> Coming(x)]
    BY <1>5
  <2>2. [x \in Ends |-> Running(x)'] = [x \in Ends |-> Running(x)]
    BY <1>1 DEF Running
  <2> QED BY <1>1, <2>1, <2>2 DEF Now
<1>10. may' \in Scenarios
  BY DEF Inv
<1> QED BY <1>0, <1>4, <1>8, <1>9, <1>10 DEF Inv

\* A packet of the connection itself was sent, or lost: the packets on their way and the view.
LEMMA GlobalSent ==
  ASSUME Inv, NEW e \in Ends, NEW p \in PacketType, p.kind \in Globals, net' = net \/ net' = Sent(e, p), held' = held, loop' = loop,
         chan' = chan, list' = list, fresh' = fresh, connOpen' = connOpen
  PROVE  /\ Good(Now') /\ net' \in [Ends -> Seq(PacketType)] /\ (\A x \in Ends : LoopOK(x)')
         /\ Coming(e)' = Coming(e) /\ (Coming(Peer(e))' = Coming(Peer(e)) \/ Coming(Peer(e))' = Append(Coming(Peer(e)), p))
<1> DEFINE f == Peer(e)
<1>0. ShapeOK /\ Good(Now) /\ f \in Ends /\ f # e /\ Peer(f) = e /\ \A x \in Ends : LoopOK(x)
  BY PeerFacts DEF Inv
<1>1. \A x \in Ends : Running(x)' = Running(x) /\ LoopOK(x)'
  BY <1>0 DEF Running, LoopOK
<1>2. net' = net \/ net' = [net EXCEPT ![f] = Append(@, p)]
  BY <1>0 DEF Sent, ShapeOK
<1>3. CASE net' = net
  <2>1. Coming(e)' = Coming(e) /\ Coming(f)' = Coming(f)
    BY <1>0, <1>3, ComingSame
  <2>2. Now' = Now
    <3>1. \A x \in Ends : Coming(x)' = Coming(x)
      BY <2>1, PeerFacts
    <3>2. [x \in Ends |-> Coming(x)'] = [x \in Ends |-> Coming(x)]
      BY <3>1
    <3>3. [x \in Ends |-> Running(x)'] = [x \in Ends |-> Running(x)]
      BY <1>1
    <3> QED BY <3>2, <3>3 DEF Now
  <2>3. net' \in [Ends -> Seq(PacketType)]
    BY <1>0, <1>3 DEF ShapeOK
  <2> QED BY <1>0, <1>1, <2>1, <2>2, <2>3
<1>4. CASE net' = [net EXCEPT ![f] = Append(@, p)]
  <2>1. Coming(e)' = Coming(e) /\ Coming(f)' = Append(Coming(f), p) /\ net' \in [Ends -> Seq(PacketType)]
    BY <1>0, <1>4, ComingSent
  <2> DEFINE w == Append(Coming(f), p)
  <2>2. \E z \in PacketType : z.kind \in Globals /\ w = Append(Now.in[f], z)
    BY <1>0, NowFields
  <2>3. Coming(f)' = w /\ Coming(Peer(f))' = Coming(Peer(f))
    BY <1>0, <2>1
  <2> HIDE DEF w
  <2>4. Now' = Passing(Now, f, w)
    <3> HIDE DEF f
    <3> QED BY <1>0, <1>1, <2>3, NowPassing
  <2>5. Good(Passing(Now, f, w))
    <3> HIDE DEF f
    <3> QED BY <1>0, <2>2, PassingKeeps
  <2> QED BY <1>1, <2>1, <2>4, <2>5
<1> QED BY <1>2, <1>3, <1>4

LEMMA GlobalRequestKeeps ==
  ASSUME Inv, UNCHANGED may, NEW e \in Ends, NEW wantReply \in BOOLEAN, GlobalRequest(e, wantReply)
  PROVE  Inv'
<1> DEFINE f == Peer(e) n == Room(wantReply) p == Packet("global", 0, n, 0, 0)
<1>0. ShapeOK /\ Good(Now) /\ f \in Ends /\ f # e /\ Peer(f) = e /\ \A x \in Ends : LoopOK(x) /\ GlobalOK(x)
  BY PeerFacts DEF Inv
<1>1. /\ wantReply => ~asking[e]
      /\ connOpen' = connOpen /\ chan' = chan /\ list' = list /\ loop' = loop /\ held' = held /\ err' = err /\ fresh' = fresh /\ globalReqs' = globalReqs /\ globalResp' = globalResp
      /\ \/ net' = Sent(e, p) /\ asking' = [asking EXCEPT ![e] = @ \/ wantReply]
         \/ net' = net /\ asking' = asking
  BY DEF GlobalRequest, loopVars, Room
<1>2. p \in PacketType /\ p.kind = "global" /\ p.from = 0 /\ p.n = n /\ n \in {0, 1} /\ p.kind \in Globals
  BY DEF Packet, PacketType, Kinds, Globals, Room
<1> HIDE DEF p
<1>3. /\ Good(Now') /\ net' \in [Ends -> Seq(PacketType)] /\ (\A x \in Ends : LoopOK(x)')
      /\ Coming(e)' = Coming(e) /\ (Coming(f)' = Coming(f) \/ Coming(f)' = Append(Coming(f), p)) /\ (net' = net => Coming(f)' = Coming(f))
  <2>1. net' = net => Coming(f)' = Coming(f)
    BY <1>0, <1>1, ComingSame
  <2>2. net' = net \/ net' = Sent(e, p)
    BY <1>1
  <2> QED BY <1>1, <1>2, <2>1, <2>2, GlobalSent
<1>4. asking \in [Ends -> BOOLEAN]
  BY <1>0 DEF ShapeOK
<1>5. ShapeOK'
  <2>1. asking' \in [Ends -> BOOLEAN]
    BY <1>1, <1>4
  <2> QED BY <1>0, <1>1, <1>3, <2>1 DEF ShapeOK
<1>6. GlobalOK(e)'
  <2> DEFINE s == Coming(e) u == Coming(f) q == globalReqs[f] m == globalResp[e] done == (loop[e] = "done") a == asking[e]
  <2>1. GlobalType(s, u, q, m) /\ done \in BOOLEAN /\ a \in BOOLEAN /\ GlobalIs(s, u, q, m, a, done)
    BY <1>0, GlobalTyped, GlobalSame
  <2>2. PICK w : Coming(f)' = w
    OBVIOUS
  <2>3. (w = u \/ w = Append(u, p)) /\ Coming(e)' = s /\ globalReqs'[f] = q /\ globalResp'[e] = m /\ (loop'[e] = "done") = done
    BY <1>1, <1>3, <2>2
  <2>4. asking'[e] = (a \/ wantReply) \/ (asking'[e] = a /\ w = u)
    BY <1>1, <1>3, <1>4, <2>2
  <2>5. wantReply => ~a
    BY <1>1
  <2> HIDE DEF s, u, q, m, done, a
  <2>6. GlobalIs(s, w, q, m, a \/ wantReply, done)
    BY <1>2, <2>1, <2>3, <2>5, GlobalAsks
  <2>7. CASE asking'[e] = (a \/ wantReply)
    BY <2>2, <2>3, <2>6, <2>7, GlobalSame
  <2>8. CASE asking'[e] = a /\ w = u
    BY <2>1, <2>2, <2>3, <2>8, GlobalSame
  <2> QED BY <2>4, <2>7, <2>8
<1>7. GlobalOK(f)'
  <2> DEFINE s == Coming(f) u == Coming(e) q == globalReqs[e] m == globalResp[f] done == (loop[f] = "done") a == asking[f]
  <2>1. GlobalType(s, u, q, m) /\ done \in BOOLEAN /\ a \in BOOLEAN /\ GlobalIs(s, u, q, m, a, done)
    <3>1. GlobalType(Coming(f), Coming(Peer(f)), globalReqs[Peer(f)], globalResp[f]) /\ asking[f] \in BOOLEAN
      BY <1>0, GlobalTyped
    <3>2. GlobalIs(Coming(f), Coming(Peer(f)), globalReqs[Peer(f)], globalResp[f], asking[f], loop[f] = "done")
      BY <1>0, GlobalSame
    <3> QED BY <1>0, <3>1, <3>2
  <2>2. PICK w : Coming(f)' = w
    OBVIOUS
  <2>3. (w = s \/ w = Append(s, p)) /\ Coming(e)' = u /\ globalReqs'[e] = q /\ globalResp'[f] = m /\ (loop'[f] = "done") = done /\ asking'[f] = a
    BY <1>0, <1>1, <1>3, <1>4, <2>2
  <2>4. GlobalPacket(p) /\ p.kind # "globalAck"
    BY <1>2 DEF GlobalPacket
  <2> HIDE DEF s, u, q, m, done, a
  <2>5. GlobalIs(w, u, q, m, a, done)
    BY <1>2, <2>1, <2>3, <2>4, GlobalComes
  <2> QED BY <1>0, <2>2, <2>3, <2>5, GlobalSame
<1>8. \A x \in Ends : GlobalOK(x)'
  BY <1>6, <1>7, PeerFacts
<1>9. may' \in Scenarios
  BY DEF Inv
<1> QED BY <1>3, <1>5, <1>8, <1>9 DEF Inv

LEMMA GlobalReplyKeeps ==
  ASSUME Inv, UNCHANGED may, NEW e \in Ends, GlobalReply(e)
  PROVE  Inv'
<1> DEFINE f == Peer(e) p == Packet("globalAck", 0, 0, 0, 0) v == Tail(globalReqs[e])
<1>0. ShapeOK /\ Good(Now) /\ f \in Ends /\ f # e /\ Peer(f) = e /\ \A x \in Ends : LoopOK(x) /\ GlobalOK(x)
  BY PeerFacts DEF Inv
<1>1. /\ globalReqs[e] # <<>> /\ globalReqs' = [globalReqs EXCEPT ![e] = v]
      /\ connOpen' = connOpen /\ chan' = chan /\ list' = list /\ loop' = loop /\ held' = held /\ err' = err /\ fresh' = fresh /\ globalResp' = globalResp /\ asking' = asking
      /\ \/ Head(globalReqs[e]) = 1 /\ net' = Sent(e, p)
         \/ net' = net
  BY DEF GlobalReply, loopVars
<1>2. p \in PacketType /\ p.kind = "globalAck" /\ p.kind \in Globals
  BY DEF Packet, PacketType, Kinds, Globals
<1> HIDE DEF p
<1>3. /\ Good(Now') /\ net' \in [Ends -> Seq(PacketType)] /\ (\A x \in Ends : LoopOK(x)')
      /\ Coming(e)' = Coming(e) /\ (Coming(f)' = Coming(f) \/ Coming(f)' = Append(Coming(f), p)) /\ (net' = net => Coming(f)' = Coming(f))
  <2>1. net' = net => Coming(f)' = Coming(f)
    BY <1>0, <1>1, ComingSame
  <2>2. net' = net \/ net' = Sent(e, p)
    BY <1>1
  <2> QED BY <1>1, <1>2, <2>1, <2>2, GlobalSent
<1>4. globalReqs \in [Ends -> Seq({0, 1})] /\ v \in Seq({0, 1})
  <2>1. globalReqs \in [Ends -> Seq({0, 1})]
    BY <1>0 DEF ShapeOK
  <2> QED BY <1>1, <2>1
<1> HIDE DEF v
<1>5. ShapeOK'
  <2>1. globalReqs' \in [Ends -> Seq({0, 1})]
    BY <1>1, <1>4
  <2> QED BY <1>0, <1>1, <1>3, <2>1 DEF ShapeOK
<1>6. GlobalOK(e)'
  <2> DEFINE s == Coming(e) u == Coming(f) q == globalReqs[f] m == globalResp[e] done == (loop[e] = "done") a == asking[e]
  <2>1. GlobalType(s, u, q, m) /\ done \in BOOLEAN /\ a \in BOOLEAN /\ GlobalIs(s, u, q, m, a, done)
    BY <1>0, GlobalTyped, GlobalSame
  <2>2. PICK w : Coming(f)' = w
    OBVIOUS
  <2>3. (w = u \/ w = Append(u, p)) /\ Coming(e)' = s /\ globalReqs'[f] = q /\ globalResp'[e] = m /\ (loop'[e] = "done") = done /\ asking'[e] = a
    BY <1>0, <1>1, <1>3, <1>4, <2>2
  <2> HIDE DEF s, u, q, m, done, a
  <2>4. p.kind # "global"
    BY <1>2
  <2>6. GlobalIs(s, w, q, m, a, done)
    BY <1>2, <2>1, <2>3, <2>4, GlobalGoes
  <2> QED BY <2>2, <2>3, <2>6, GlobalSame
<1>7. GlobalOK(f)'
  <2> DEFINE s == Coming(f) u == Coming(e) q == globalReqs[e] m == globalResp[f] done == (loop[f] = "done") a == asking[f]
  <2>1. GlobalType(s, u, q, m) /\ done \in BOOLEAN /\ a \in BOOLEAN /\ GlobalIs(s, u, q, m, a, done)
    <3>1. GlobalType(Coming(f), Coming(Peer(f)), globalReqs[Peer(f)], globalResp[f]) /\ asking[f] \in BOOLEAN
      BY <1>0, GlobalTyped
    <3>2. GlobalIs(Coming(f), Coming(Peer(f)), globalReqs[Peer(f)], globalResp[f], asking[f], loop[f] = "done")
      BY <1>0, GlobalSame
    <3> QED BY <1>0, <3>1, <3>2
  <2>2. PICK w : Coming(f)' = w
    OBVIOUS
  <2>3. Coming(e)' = u /\ globalReqs'[e] = Tail(q) /\ globalResp'[f] = m /\ (loop'[f] = "done") = done /\ asking'[f] = a /\ q # <<>>
    BY <1>0, <1>1, <1>3, <1>4 DEF v
  <2>4. w = s \/ (Head(q) = 1 /\ w = Append(s, p))
    BY <1>1, <1>3, <2>2
  <2> HIDE DEF s, u, q, m, done, a
  <2>5. GlobalIs(w, u, Tail(q), m, a, done)
    BY <1>2, <2>1, <2>3, <2>4, GlobalServed
  <2> QED BY <1>0, <2>2, <2>3, <2>5, GlobalSame
<1>8. \A x \in Ends : GlobalOK(x)'
  BY <1>6, <1>7, PeerFacts
<1>9. may' \in Scenarios
  BY DEF Inv
<1> QED BY <1>3, <1>5, <1>8, <1>9 DEF Inv

LEMMA GlobalPacketKeeps ==
  ASSUME Inv, UNCHANGED <<may, connOpen, asking>>, NEW e \in Ends, loop[e] = "push", held[e].kind \in Globals, held' = [held EXCEPT ![e] = NoPacket],
         HandleGlobalPacket(e, held[e])
  PROVE  Inv'
<1> DEFINE f == Peer(e) p == held[e] w == Coming(e)
<1>0. ShapeOK /\ Good(Now) /\ f \in Ends /\ f # e /\ Peer(f) = e /\ \A x \in Ends : LoopOK(x) /\ GlobalOK(x)
  BY PeerFacts DEF Inv
<1>1. /\ loop' = [loop EXCEPT ![e] = "run"] /\ net' = net /\ chan' = chan /\ list' = list /\ fresh' = fresh /\ err' = err /\ may' = may /\ connOpen' = connOpen /\ asking' = asking
      /\ IF p.kind = "global" THEN globalReqs' = [globalReqs EXCEPT ![e] = Append(@, p.n)] /\ globalResp' = globalResp
         ELSE globalResp' = [globalResp EXCEPT ![e] = Append(@, "ack")] /\ globalReqs' = globalReqs
  BY DEF HandleGlobalPacket
<1>2. p # NoPacket /\ p \in PacketType
  BY <1>0 DEF LoopOK, ShapeOK
<1>3. w # <<>> /\ Head(w) = p /\ Coming(e)' = Tail(w) /\ Coming(f)' = Coming(f)
  BY <1>0, <1>1, <1>2, ComingTaken
<1>4. globalReqs \in [Ends -> Seq({0, 1})] /\ globalResp \in [Ends -> Seq({"ack"})] /\ asking \in [Ends -> BOOLEAN] /\ net' \in [Ends -> Seq(PacketType)] /\ w \in Seq(PacketType)
  BY <1>0, <1>1, ComingIs DEF ShapeOK
<1>5. GlobalPacket(p)
  <2>1. \A i \in DOMAIN w : GlobalPacket(w[i])
    BY <1>0 DEF GlobalOK, GlobalPacket
  <2> HIDE DEF w, p
  <2>2. 1 \in DOMAIN w /\ w[1] = p
    BY <1>3, <1>4
  <2> QED BY <2>1, <2>2
<1>6. ShapeOK' /\ \A x \in Ends : LoopOK(x)' /\ Running(x)' = Running(x)
  <2>1. globalReqs' \in [Ends -> Seq({0, 1})] /\ globalResp' \in [Ends -> Seq({"ack"})]
    <3>1. CASE p.kind = "global"
      <4>1. Append(globalReqs[e], p.n) \in Seq({0, 1})
        BY <1>4, <1>5, <3>1 DEF GlobalPacket
      <4> QED BY <1>1, <1>4, <3>1, <4>1
    <3>2. CASE p.kind # "global"
      <4>1. globalResp' = [globalResp EXCEPT ![e] = Append(globalResp[e], "ack")] /\ globalReqs' = globalReqs
        BY <1>1, <3>2
      <4>2. globalResp[e] \in Seq({"ack"}) /\ "ack" \in {"ack"}
        BY <1>4
      <4> DEFINE z == globalResp[e] y == "ack"
      <4> HIDE DEF z, y
      <4>3. Append(z, y) \in Seq({"ack"})
        BY <4>2 DEF z, y
      <4> QED BY <1>4, <4>1, <4>3 DEF z, y
    <3> QED BY <3>1, <3>2
  <2> QED BY <1>1, <1>2, <1>4, <2>1, LoopTook
<1>7. Good(Now')
  <2> DEFINE s == Tail(w)
  <2>1. Now' = Passing(Now, e, s)
    BY <1>1, <1>3, <1>6, NowPassing
  <2>2. Now.in[e] # <<>> /\ s = Tail(Now.in[e]) /\ Head(Now.in[e]).kind \in Globals
    BY <1>3, NowFields
  <2> HIDE DEF s
  <2>3. Good(Passing(Now, e, s))
    BY <1>0, <2>2, PassingKeeps
  <2> QED BY <2>1, <2>3
<1>8. GlobalOK(e)'
  <2> DEFINE u == Coming(f) q == globalReqs[f] m == globalResp[e] a == asking[e] v == IF Head(w).kind = "global" THEN m ELSE Append(m, "ack")
  <2>1. GlobalType(w, u, q, m) /\ a \in BOOLEAN /\ GlobalIs(w, u, q, m, a, FALSE)
    <3>1. (loop[e] = "done") = FALSE
      OBVIOUS
    <3> QED BY <1>0, <3>1, GlobalTyped, GlobalSame
  <2>3. Coming(e)' = Tail(w) /\ Coming(f)' = u /\ globalReqs'[f] = q /\ globalResp'[e] = v /\ (loop'[e] = "done") = FALSE /\ asking'[e] = a
    <3>1. loop'[e] = "run"
      BY <1>0, <1>1 DEF ShapeOK
    <3>2. globalReqs'[f] = q /\ globalResp'[e] = v
      BY <1>0, <1>1, <1>3, <1>4
    <3> QED BY <1>1, <1>3, <3>1, <3>2
  <2>4. w # <<>> /\ Head(w).kind \in Globals
    BY <1>3
  <2> HIDE DEF w, u, q, m, a
  <2>5. GlobalIs(Tail(w), u, q, v, a, FALSE)
    <3>1. v = IF Head(w).kind = "global" THEN m ELSE Append(m, "ack")
      OBVIOUS
    <3> HIDE DEF v
    <3> QED BY <2>1, <2>4, <3>1, GlobalTakes
  <2> HIDE DEF v
  <2> QED BY <2>3, <2>5, GlobalSame
<1>9. GlobalOK(f)'
  <2> DEFINE s == Coming(f) q == globalReqs[e] m == globalResp[f] done == (loop[f] = "done") a == asking[f] v == IF Head(w).kind = "global" THEN Append(q, Head(w).n) ELSE q
  <2>1. GlobalType(s, w, q, m) /\ done \in BOOLEAN /\ a \in BOOLEAN /\ GlobalIs(s, w, q, m, a, done)
    <3>1. GlobalType(Coming(f), Coming(Peer(f)), globalReqs[Peer(f)], globalResp[f]) /\ asking[f] \in BOOLEAN
      BY <1>0, GlobalTyped
    <3>2. GlobalIs(Coming(f), Coming(Peer(f)), globalReqs[Peer(f)], globalResp[f], asking[f], loop[f] = "done")
      BY <1>0, GlobalSame
    <3> QED BY <1>0, <3>1, <3>2
  <2>3. Coming(e)' = Tail(w) /\ Coming(f)' = s /\ globalReqs'[e] = v /\ globalResp'[f] = m /\ (loop'[f] = "done") = done /\ asking'[f] = a
    <3>1. loop'[f] = loop[f]
      BY <1>0, <1>1 DEF ShapeOK
    <3>2. globalReqs'[e] = v /\ globalResp'[f] = m
      BY <1>0, <1>1, <1>3, <1>4
    <3> QED BY <1>1, <1>3, <3>1, <3>2
  <2>4. w # <<>> /\ GlobalPacket(Head(w))
    BY <1>3, <1>5
  <2> HIDE DEF w, s, q, m, a, done
  <2>5. GlobalIs(s, Tail(w), v, m, a, done)
    <3>1. v = IF Head(w).kind = "global" THEN Append(q, Head(w).n) ELSE q
      OBVIOUS
    <3> HIDE DEF v
    <3> QED BY <2>1, <2>4, <3>1, GlobalTaken
  <2> HIDE DEF v
  <2> QED BY <1>0, <2>3, <2>5, GlobalSame
<1>10. \A x \in Ends : GlobalOK(x)'
  BY <1>8, <1>9, PeerFacts
<1>11. may' \in Scenarios
  BY DEF Inv
<1> QED BY <1>6, <1>7, <1>10, <1>11 DEF Inv

-----------------------------------------------------------------------------
(* Every step *)

\* onePacket deals with the packet that the loop holds: its channel is there, and it is not an error.
LEMMA DispatchKeeps ==
  ASSUME Inv, UNCHANGED may, NEW e \in Ends, Dispatch(e)
  PROVE  Inv'
<1> DEFINE t == held[e]
<1>1. loop[e] = "push" /\ Deliver(e, t) /\ held' = [held EXCEPT ![e] = NoPacket] /\ UNCHANGED <<may, connOpen, asking>>
  BY DEF Dispatch
<1>2. t \in PacketType
  BY <1>1, HeldIs
<1>3. CASE t.kind = "open"
  <2>1. HandleChannelOpen(e, t)
    BY <1>1, <1>3 DEF Deliver
  <2> QED BY <1>1, <1>3, <2>1, ChannelOpenKeeps
<1>4. CASE t.kind \in Globals
  <2>1. HandleGlobalPacket(e, t)
    BY ZenonT(60), <1>1, <1>4 DEF Deliver, Globals
  <2> QED BY <1>1, <1>4, <2>1, GlobalPacketKeeps
<1>5. CASE Carries(t)
  <2> DEFINE d == t.from c == chan[Peer(e)][d].peer
  <2>1. Finds(e, c, d)
    BY <1>1, <1>5, HeldFinds
  <2>2. GetChan(list[e], t.id) = c /\ c # 0
    BY ZenonT(60), <2>1 DEF Finds
  <2>3. t.kind \notin {"open", "global", "globalAck"}
    BY <1>5 DEF Carries, Globals
  <2>4. HandlePacket(e, c, t) /\ UNCHANGED <<fresh, globalReqs, globalResp>>
    <3> HIDE DEF c
    <3> QED BY <1>1, <2>2, <2>3 DEF Deliver
  <2>5. Giving(e)
    BY <1>1, <2>4 DEF Giving
  <2> HIDE DEF c, d
  <2>6. CASE t.kind = "data"
    <3>1. HandleData(e, c, t)
      BY <2>4, <2>6 DEF HandlePacket
    <3> QED BY <1>1, <2>1, <2>5, <2>6, <3>1, DataKeeps
  <2>7. CASE t.kind = "close"
    <3>1. HandleClose(e, c)
      BY <2>4, <2>7 DEF HandlePacket
    <3> QED BY <1>1, <2>1, <2>5, <2>7, <3>1, HandleCloseKeeps
  <2>8. CASE t.kind = "eof"
    <3>1. Set(e, c, [chan[e][c] EXCEPT !.eof = TRUE])
      BY <2>4, <2>8 DEF HandlePacket
    <3> QED BY <1>1, <2>1, <2>5, <2>8, <3>1, EofKeeps
  <2>9. CASE t.kind \in Responses
    <3>1. HandleOpenResponse(e, c, t)
      BY <2>4, <2>9 DEF HandlePacket, Responses
    <3> QED BY <1>1, <2>1, <2>5, <2>9, <3>1, OpenResponseKeeps
  <2>10. CASE t.kind = "adjust"
    <3>1. Set(e, c, [chan[e][c] EXCEPT !.win = @ + t.n])
      BY <2>4, <2>10 DEF HandlePacket
    <3> QED BY <1>1, <2>1, <2>5, <2>10, <3>1, AdjustKeeps
  <2>11. CASE t.kind = "request"
    <3>1. Set(e, c, [chan[e][c] EXCEPT !.reqs = Append(@, t.n)])
      BY <2>4, <2>11 DEF HandlePacket
    <3> QED BY <1>1, <2>1, <2>5, <2>11, <3>1, RequestKeeps
  <2>12. CASE t.kind = "ack"
    <3>1. Set(e, c, [chan[e][c] EXCEPT !.msg = Append(@, "ack")])
      BY <2>4, <2>12 DEF HandlePacket
    <3> QED BY <1>1, <2>1, <2>5, <2>12, <3>1, AckKeeps
  <2>13. t.kind \in Kinds
    BY <1>2 DEF PacketType
  <2> QED BY <1>5, <2>6, <2>7, <2>8, <2>9, <2>10, <2>11, <2>12, <2>13 DEF Kinds, Carries
<1> QED BY <1>3, <1>4, <1>5 DEF Carries

LEMMA InitHolds ==
  ASSUME Init
  PROVE  Inv
<1>1. /\ may \in Scenarios /\ net = [e \in Ends |-> <<>>] /\ connOpen = [e \in Ends |-> TRUE] /\ chan = [e \in Ends |-> <<>>] /\ list = [e \in Ends |-> <<>>]
      /\ loop = [e \in Ends |-> "run"] /\ held = [e \in Ends |-> NoPacket] /\ err = [e \in Ends |-> "nil"] /\ fresh = [e \in Ends |-> <<>>]
      /\ globalReqs = [e \in Ends |-> <<>>] /\ globalResp = [e \in Ends |-> <<>>] /\ asking = [e \in Ends |-> FALSE]
  BY DEF Init
<1>2. \A A : <<>> \in Seq(A)
  OBVIOUS
<1>3. DOMAIN <<>> = {} /\ Len(<<>>) = 0
  OBVIOUS
<1>4. ShapeOK
  BY <1>1, <1>2 DEF ShapeOK
<1>5. \A e \in Ends : Coming(e) = <<>> /\ Running(e)
  BY <1>1 DEF Coming, Running
<1>6. Now \in ViewType /\ \A e \in Ends : Now.in[e] = <<>> /\ Now.chan[e] = <<>> /\ Now.list[e] = <<>> /\ Now.fresh[e] = <<>>
  <2>1. \A e \in Ends : Now.in[e] = <<>> /\ Now.chan[e] = <<>> /\ Now.list[e] = <<>> /\ Now.fresh[e] = <<>>
    BY <1>1, <1>5, NowFields
  <2>2. [e \in Ends |-> Coming(e)] \in [Ends -> Seq(PacketType)] /\ [e \in Ends |-> Running(e)] \in [Ends -> BOOLEAN]
    BY <1>2, <1>5 DEF Running
  <2>3. chan \in [Ends -> Seq(ChannelType)] /\ list \in [Ends -> Seq(Nat)] /\ fresh \in [Ends -> Seq(Nat)] /\ connOpen \in [Ends -> BOOLEAN]
    BY <1>1, <1>2
  <2>4. Now \in ViewType
    BY <2>2, <2>3 DEF Now, ViewType
  <2> QED BY <2>1, <2>4
<1>7. Good(Now)
  <2> SUFFICES ASSUME NEW e \in Ends
               PROVE  /\ LocalOK(Now, e) /\ ListOK(Now, e) /\ PeersOK(Now, e) /\ FreshOK(Now, e) /\ OpensOK(Now, e) /\ PacketsOK(Now, e) /\ AcceptOK(Now, e)
                      /\ ListingOK(Now, e) /\ WindowsOK(Now, e) /\ AnswersOK(Now, e) /\ AskedOK(Now, e)
    BY <1>6 DEF Good
  <2>1. Peer(e) \in Ends
    BY PeerFacts
  <2>2. /\ DOMAIN Now.in[e] = {} /\ DOMAIN Now.chan[e] = {} /\ DOMAIN Now.list[e] = {} /\ DOMAIN Now.fresh[e] = {} /\ DOMAIN Now.chan[Peer(e)] = {}
    BY <1>3, <1>6, <2>1
  <2>3. LocalOK(Now, e) /\ ListOK(Now, e) /\ PeersOK(Now, e) /\ FreshOK(Now, e)
    BY <2>2 DEF LocalOK, ListOK, PeersOK, FreshOK
  <2>4. OpensOK(Now, e) /\ PacketsOK(Now, e)
    BY <2>2 DEF OpensOK, PacketsOK
  <2>5. AcceptOK(Now, e) /\ ListingOK(Now, e) /\ WindowsOK(Now, e) /\ AnswersOK(Now, e) /\ AskedOK(Now, e)
    BY <2>2 DEF AcceptOK, ListingOK, WindowsOK, AnswersOK, AskedOK
  <2> QED BY <2>3, <2>4, <2>5
<1>8. ASSUME NEW e \in Ends PROVE LoopOK(e) /\ GlobalOK(e)
  <2>1. LoopOK(e)
    BY <1>1, <1>5 DEF LoopOK
  <2>2. GlobalIs(<<>>, <<>>, <<>>, <<>>, FALSE, FALSE)
    <3> DEFINE s == <<>> k == "global" x == 0
    <3>1. \E p \in PacketType : TRUE
      <4>1. Packet("open", 0, 0, 0, 0) \in PacketType
        BY DEF Packet, PacketType, Kinds
      <4> QED BY <4>1
    <3>2. GTells(<<>>) = 0
      BY <1>2, <3>1, GTellsMoves
    <3>3. Amount(<<>>, "global", 0) = 0
      <4>1. s \in Seq(PacketType)
        BY <1>2
      <4> HIDE DEF s, k, x
      <4>2. \E p \in PacketType : AmountFacts(s, p, k, x)
        BY <3>1, <4>1, AmountMoves
      <4> QED BY <4>2 DEF AmountFacts, k, x
    <3>4. Owing(<<>>, <<>>, <<>>, <<>>) = 0
      BY <1>3, <3>2, <3>3, TotalEmpty DEF Owing
    <3>5. Room(FALSE) = 0 /\ 0 <= 0 /\ 0 <= 1
      BY DEF Room
    <3>6. Owing(<<>>, <<>>, <<>>, <<>>) <= Room(FALSE) /\ Len(<<>>) <= 1
      BY <1>3, <3>4, <3>5
    <3> QED BY <1>3, <3>6 DEF GlobalIs
  <2>3. Coming(e) = <<>> /\ Coming(Peer(e)) = <<>> /\ globalReqs[Peer(e)] = <<>> /\ globalResp[e] = <<>> /\ asking[e] = FALSE /\ (loop[e] = "done") = FALSE
    BY <1>1, <1>5, PeerFacts
  <2>4. GlobalOK(e)
    BY <2>2, <2>3, GlobalSame
  <2> QED BY <2>1, <2>4
<1> QED BY <1>1, <1>4, <1>7, <1>8 DEF Inv

LEMMA StutterKeeps ==
  ASSUME Inv, UNCHANGED vars
  PROVE  Inv'
<1>1. /\ may' = may /\ net' = net /\ connOpen' = connOpen /\ chan' = chan /\ list' = list /\ loop' = loop /\ held' = held /\ err' = err /\ fresh' = fresh
      /\ globalReqs' = globalReqs /\ globalResp' = globalResp /\ asking' = asking
  BY DEF vars, state, wireVars, loopVars, globalVars
<1>2. ShapeOK /\ Good(Now)
  BY DEF Inv
<1>3. \A x \in Ends : Fewer(Coming(x), Coming(x)')
  BY <1>1, <1>2, StillFewer
<1>4. Now' = Now
  <2>1. [x \in Ends |-> Coming(x)'] = [x \in Ends |-> Coming(x)]
    BY <1>1, ComingSame
  <2>2. [x \in Ends |-> Running(x)'] = [x \in Ends |-> Running(x)]
    BY <1>1 DEF Running
  <2> QED BY <1>1, <2>1, <2>2 DEF Now
<1>5. net' \in [Ends -> Seq(PacketType)]
  BY <1>1, <1>2 DEF ShapeOK
<1> QED BY <1>1, <1>2, <1>3, <1>4, <1>5, UserViewed

LEMMA ChannelUserKeeps ==
  ASSUME Inv, UNCHANGED may, NEW e \in Ends, NEW c \in DOMAIN chan[e],
         \/ \E n \in 1..may.bytes[e], code \in may.codes : Write(e, c, n, code)
         \/ CloseWrite(e, c) \/ Close(e, c)
         \/ \E wantReply \in BOOLEAN : SendRequest(e, c, wantReply)
  PROVE  Inv'
BY WriteKeeps, CloseWriteKeeps, CloseKeeps, SendRequestKeeps

LEMMA UserKeeps ==
  ASSUME Inv, UNCHANGED may, NEW e \in Ends, UserStep(e)
  PROVE  Inv'
BY OpenChannelKeeps, CloseConnKeeps, GlobalRequestKeeps, ChannelUserKeeps DEF UserStep

LEMMA LoopKeeps ==
  ASSUME Inv, UNCHANGED may, NEW e \in Ends, LoopStep(e)
  PROVE  Inv'
BY OnePacketKeeps, DispatchKeeps, ReadErrorKeeps, DropAllKeeps, LoopExitKeeps DEF LoopStep

LEMMA GoroutineKeeps ==
  ASSUME Inv, UNCHANGED may, NEW e \in Ends, NEW c \in DOMAIN chan[e], WriterStep(e, c) \/ ReaderStep(e, c) \/ RequestStep(e, c)
  PROVE  Inv'
<1>1. CASE WriterStep(e, c)
  BY <1>1, ReserveKeeps, WriteDataKeeps DEF WriterStep
<1>2. CASE ReaderStep(e, c)
  BY <1>2, ReadKeeps, AddWindowKeeps, SendAdjustKeeps DEF ReaderStep
<1>3. CASE RequestStep(e, c)
  BY <1>3, OpenedKeeps, RepliedKeeps, ReplyKeeps DEF RequestStep
<1> QED BY <1>1, <1>2, <1>3

LEMMA NextKeeps ==
  ASSUME Inv, [Next]_vars
  PROVE  Inv'
<1>1. CASE UNCHANGED vars
  BY <1>1, StutterKeeps
<1>2. ASSUME NEW e \in Ends, UNCHANGED may, UserStep(e) PROVE Inv'
  BY <1>2, UserKeeps
<1>3. ASSUME NEW e \in Ends, UNCHANGED may, LoopStep(e) PROVE Inv'
  BY <1>3, LoopKeeps
<1>4. ASSUME NEW e \in Ends, UNCHANGED may, GlobalStep(e) PROVE Inv'
  BY <1>4, GlobalRepliedKeeps, GlobalReplyKeeps DEF GlobalStep
<1>5. ASSUME NEW e \in Ends, UNCHANGED may, AnswerStep(e) PROVE Inv'
  BY <1>5, AnswerKeeps DEF AnswerStep
<1>6. ASSUME NEW e \in Ends, UNCHANGED may, NEW c \in DOMAIN chan[e], WriterStep(e, c) \/ ReaderStep(e, c) \/ RequestStep(e, c) PROVE Inv'
  BY <1>6, GoroutineKeeps
<1> QED BY <1>1, <1>2, <1>3, <1>4, <1>5, <1>6 DEF Next

-----------------------------------------------------------------------------
(* What the invariant says *)

LEMMA InvTypes ==
  ASSUME Inv
  PROVE  TypeOK
<1>0. ShapeOK /\ Good(Now) /\ chan \in [Ends -> Seq(ChannelType)] /\ connOpen \in [Ends -> BOOLEAN] /\ Now.chan = chan /\ Now.list = list /\ list \in [Ends -> Seq(Nat)]
  BY StateIs, NowFields
<1>1. ASSUME NEW e \in Ends, NEW i \in DOMAIN net[e]
      PROVE  net[e][i].kind \in {"open", "confirm", "failure", "data", "adjust", "eof", "close", "request", "ack", "global", "globalAck"}
  <2>1. net[e][i] \in PacketType
    BY <1>0 DEF ShapeOK
  <2> QED BY <2>1 DEF PacketType, Kinds, Responses, Globals
<1>2. ASSUME NEW e \in Ends PROVE Range(list[e]) \subseteq 0..Len(chan[e])
  <2>1. ListOK(Now, e)
    BY <1>0 DEF Good
  <2>2. chan[e] \in Seq(ChannelType) /\ list[e] \in Seq(Nat)
    BY <1>0
  <2>3. DOMAIN chan[e] = 1..Len(chan[e]) /\ Len(chan[e]) \in Nat
    BY <2>2
  <2>4. \A i \in DOMAIN list[e] : list[e][i] = 0 \/ list[e][i] \in 1..Len(chan[e])
    BY <1>0, <2>1, <2>3 DEF ListOK
  <2>5. \A i \in DOMAIN list[e] : list[e][i] \in 0..Len(chan[e])
    BY <2>3, <2>4
  <2> QED BY <2>5 DEF Range
<1>3. ASSUME NEW f \in Ends, NEW d \in DOMAIN chan[f]
      PROVE  chan[f][d].win \in 0..WindowSize /\ chan[f][d].myWindow \in 0..WindowSize /\ chan[f][d].reserved \in 0..MaxPacket
  <2> DEFINE ch == chan[f][d] e == Peer(f) c == ch.peer
  <2>1. ch \in ChannelType /\ Local(ch) /\ e \in Ends /\ Peer(e) = f /\ WindowSize \in Nat
    BY StateIs, PeerFacts, WindowAssumption
  <2>2. ASSUME NEW a, a \in ChannelType, Local(a) PROVE a.myWindow \in 0..WindowSize /\ a.reserved \in 0..MaxPacket
    <3>1. a.myWindow \in Nat /\ a.taken \in Nat /\ a.pending[0] \in Nat /\ a.pending[1] \in Nat /\ a.lost \in Nat /\ a.reserved \in Nat
      BY <2>2 DEF ChannelType
    <3>2. a.myWindow + a.taken + a.pending[0] + a.pending[1] + a.lost = WindowSize /\ a.reserved <= MaxPacket
      BY <2>2 DEF Local
    <3> DEFINE A == a.myWindow B == a.taken C == a.pending[0] D == a.pending[1] E == a.lost F == a.reserved
    <3>3. A + B + C + D + E = WindowSize /\ F <= MaxPacket /\ A \in Nat /\ B \in Nat /\ C \in Nat /\ D \in Nat /\ E \in Nat /\ F \in Nat
      BY <3>1, <3>2
    <3> HIDE DEF A, B, C, D, E, F
    <3>4. A \in 0..WindowSize /\ F \in 0..MaxPacket
      BY <2>1, <3>3, WindowAssumption
    <3> QED BY <3>4 DEF A, F
  <2>3. CASE c = 0
    <3>1. ch.win = 0
      BY <2>1, <2>3 DEF Local
    <3>2. 0 \in 0..WindowSize
      BY <2>1
    <3> QED BY <2>1, <2>2, <3>1, <3>2
  <2>4. CASE c # 0
    <3>1. c \in DOMAIN chan[e]
      <4>1. Paired(Now, f, d)
        BY <1>0 DEF Good, PeersOK
      <4> QED BY <1>0, <2>4, <4>1 DEF Paired
    <3>2. chan[e][c] \in ChannelType /\ Local(chan[e][c])
      BY <2>1, <3>1, StateIs
    <3>3. chan[e][c].myWindow \in 0..WindowSize
      BY <2>2, <3>2
    <3>4. Credit(Now, e, d) <= chan[e][c].myWindow
      <4>1. WindowIs(Now, e, d)
        BY <1>0, <2>1 DEF Good, WindowsOK
      <4> QED BY <1>0, <2>1, <2>4, <4>1 DEF WindowIs
    <3> DEFINE A == ch.win B == ch.reserved C == chan[e][c].owed D == Amount(Now.in[e], "data", d) E == Amount(Now.in[f], "adjust", c) M == chan[e][c].myWindow
    <3>5. Credit(Now, e, d) = A + B + C + D + E
      BY <1>0, <2>1 DEF Credit
    <3>6. A \in Nat /\ B \in Nat /\ C \in Nat
      BY <2>1, <3>2 DEF ChannelType
    <3>7. D \in Nat /\ E \in Nat
      <4>1. Now.in[e] \in Seq(PacketType) /\ Now.in[f] \in Seq(PacketType)
        BY <1>0, <2>1, NowFields, ComingIs
      <4> QED BY <4>1, AmountNat
    <3>8. A + B + C + D + E <= M /\ M \in 0..WindowSize
      BY <3>3, <3>4, <3>5
    <3> HIDE DEF A, B, C, D, E, M
    <3>9. A \in 0..WindowSize
      BY <2>1, <3>6, <3>7, <3>8
    <3> QED BY <2>1, <2>2, <3>9 DEF A
  <2> QED BY <2>3, <2>4
<1>4. loop \in [Ends -> {"run", "push", "failed", "dropped", "done"}]
  BY <1>0 DEF ShapeOK
<1> QED BY <1>0, <1>1, <1>2, <1>3, <1>4 DEF TypeOK

LEMMA InvOrderly ==
  ASSUME Inv
  PROVE  ChannelsOrderly
<1>0. ShapeOK /\ Good(Now) /\ Now.chan = chan /\ Now.list = list /\ (\A e \in Ends : Now.in[e] = Coming(e) /\ Now.runs[e] = Running(e)) /\ \A e \in Ends : GlobalOK(e)
  BY StateIs, NowFields DEF Inv
<1>1. NoProtocolError
  BY <1>0 DEF NoProtocolError, ShapeOK
<1>2. PacketFindsChannel
  <2> SUFFICES ASSUME NEW e \in Ends, Running(e), NEW i \in DOMAIN Coming(e), NEW p, p = Coming(e)[i], p.kind \notin {"open", "global", "globalAck"}
               PROVE  GetChan(list[e], p.id) # 0 /\ chan[Peer(e)][p.from].peer = GetChan(list[e], p.id)
    BY DEF PacketFindsChannel, Running
  <2>1. PacketIs(Now, e, p) /\ Carries(p)
    BY <1>0 DEF Good, PacketsOK, Carries, Globals
  <2> DEFINE c == chan[Peer(e)][p.from].peer
  <2>2. c # 0 /\ p.id = chan[e][c].localId /\ Listed(Now, e, c)
    BY <1>0, <2>1 DEF PacketIs
  <2>3. GetChan(list[e], p.id) = c
    BY <1>0, <2>2 DEF Listed
  <2> QED BY <2>2, <2>3
<1>3. NothingAfterClose
  <2> SUFFICES ASSUME NEW e \in Ends, NEW i \in DOMAIN Coming(e), NEW j \in DOMAIN Coming(e), i < j, Coming(e)[i].kind = "close", Coming(e)[j].from = Coming(e)[i].from
               PROVE  Coming(e)[j].kind \in {"open", "global", "globalAck"}
    BY DEF NothingAfterClose
  <2>1. Orders(Coming(e)[i], Coming(e)[j])
    BY <1>0 DEF Good, PacketsOK
  <2> QED BY <2>1 DEF Orders, Carries, Globals
<1>4. AnswersAreAwaited
  <2>1. \A e \in Ends : Len(globalResp[e]) <= 1 /\ (globalResp[e] # <<>> => asking[e])
    BY <1>0 DEF GlobalOK
  <2>2. \A e \in Ends : \A c \in DOMAIN chan[e] : Len(chan[e][c].msg) <= 1 /\ (chan[e][c].msg # <<>> => chan[e][c].user = "opening" \/ chan[e][c].waits)
    BY StateIs DEF Local
  <2> QED BY <2>1, <2>2 DEF AnswersAreAwaited
<1> QED BY <1>1, <1>2, <1>3, <1>4, InvTypes DEF ChannelsOrderly

LEMMA InvConserved ==
  ASSUME Inv
  PROVE  WindowConserved
<1>0. Good(Now) /\ Now.chan = chan /\ Now.open = connOpen /\ \A e \in Ends : Now.in[e] = Coming(e)
  BY StateIs, NowFields
<1> SUFFICES ASSUME NEW e \in Ends, NEW c \in DOMAIN chan[e], NEW ch, ch = chan[e][c], NEW f, f = Peer(e), NEW d, d = ch.peer
             PROVE  /\ ch.myWindow + ch.taken + ch.pending[0] + ch.pending[1] + ch.lost = WindowSize
                    /\ d # 0 /\ ~ch.closed /\ ~ch.sentClose /\ connOpen[e] /\ connOpen[f] /\ chan[f][d].peer = c /\ ~chan[f][d].sentClose /\ ~chan[f][d].winClosed =>
                         ch.myWindow = chan[f][d].win + chan[f][d].reserved + ch.owed + Amount(Coming(e), "data", d) + Amount(Coming(f), "adjust", c)
  BY DEF WindowConserved
<1>1. ch.myWindow + ch.taken + ch.pending[0] + ch.pending[1] + ch.lost = WindowSize
  BY StateIs DEF Local
<1>2. ASSUME d # 0, ~ch.closed, ~ch.sentClose, connOpen[e], connOpen[f], chan[f][d].peer = c, ~chan[f][d].sentClose, ~chan[f][d].winClosed
      PROVE  ch.myWindow = chan[f][d].win + chan[f][d].reserved + ch.owed + Amount(Coming(e), "data", d) + Amount(Coming(f), "adjust", c)
  <2>1. d \in DOMAIN chan[f] /\ c # 0
    <3>1. Paired(Now, e, c)
      BY <1>0 DEF Good, PeersOK
    <3>2. chan[e] \in Seq(ChannelType)
      BY StateIs
    <3>3. c # 0
      BY <3>2
    <3> QED BY <1>0, <1>2, <3>1, <3>3 DEF Paired
  <2>2. WindowIs(Now, e, d)
    BY <1>0, <2>1 DEF Good, WindowsOK
  <2>3. Exact(Now, e, d)
    BY <1>0, <1>2 DEF Exact
  <2>4. Credit(Now, e, d) = ch.myWindow
    BY <1>0, <1>2, <2>1, <2>2, <2>3 DEF WindowIs
  <2>5. Credit(Now, e, d) = chan[f][d].win + chan[f][d].reserved + ch.owed + Amount(Coming(e), "data", d) + Amount(Coming(f), "adjust", c)
    BY <1>0, <1>2, PeerFacts DEF Credit
  <2> QED BY <2>4, <2>5
<1> QED BY <1>1, <1>2

\* Two ends of this code understand each other, whatever the order of their goroutines and whenever
\* the connection is closed: a packet on its way finds the channel it was meant for although ids are
\* used again, nothing follows a close, an answer waits only for the goroutine that asked, and no
\* packet makes the other loop end (mux.onePacket, channel.handlePacket).
THEOREM ChannelsStayOrderly == Spec => []ChannelsOrderly
<1>1. Init => Inv
  BY InitHolds
<1>2. Inv /\ [Next]_vars => Inv'
  BY NextKeeps
<1>3. Inv => ChannelsOrderly
  BY InvOrderly
<1> QED BY <1>1, <1>2, <1>3, PTL DEF Spec

\* The two windows of a channel agree, for every window and packet size: what the receiver still
\* allows is what the sender has left, holds or has sent, and what is on its way back to it
\* (window.reserve, window.add, handleData, adjustWindow).
THEOREM WindowsStayConserved == Spec => []WindowConserved
<1>1. Init => Inv
  BY InitHolds
<1>2. Inv /\ [Next]_vars => Inv'
  BY NextKeeps
<1>3. Inv => WindowConserved
  BY InvConserved
<1> QED BY <1>1, <1>2, <1>3, PTL DEF Spec
=============================================================================
