---------------------------- MODULE SSHMuxLemmas ----------------------------
(***************************************************************************)
(* Lemmas for the proofs about SSHMux: the inductive invariant, and what a *)
(* change of one channel, of one list or of the packets on their way does  *)
(* to it.                                                                  *)
(*                                                                         *)
(* The invariant is about a view of the state: the packets on their way to *)
(* each end, whether or not the loop has taken the first one, the channels *)
(* and the lists.  Most steps change one channel, take at most the first   *)
(* packet from one side and add at most one to the other.                  *)
(***************************************************************************)
EXTENDS SSHMux, TLAPS, NaturalsInduction, WellFoundedInduction

-----------------------------------------------------------------------------
(* The invariant *)

Responses == {"confirm", "failure"}
Globals == {"global", "globalAck"}
Kinds == {"open", "data", "adjust", "eof", "close", "request", "ack"} \cup Responses \cup Globals
PacketType == [kind : Kinds, id : Nat, n : Nat, aux : Nat, from : Nat]

ChannelType ==
  [dir : {"in", "out"}, user : {"opening", "waiting", "open", "none"}, localId : Nat, remoteId : Nat, decided : BOOLEAN,
   sentEOF : BOOLEAN, sentClose : BOOLEAN, win : Nat, winClosed : BOOLEAN, myWindow : Nat,
   pending : [{0, 1} -> Nat], eof : BOOLEAN, msg : Seq({"ack"} \cup Responses), reqs : Seq({0, 1}), closed : BOOLEAN,
   todo : Nat, code : Nat, reserved : Nat, taken : Nat, owed : Nat, waits : BOOLEAN,
   asked : Nat, peer : Nat, sent : Nat, got : Nat, lost : Nat]

\* The packets on their way, and what they are about.
Running(e) == loop[e] \in {"run", "push"}
Now == [in |-> [e \in Ends |-> Coming(e)], chan |-> chan, list |-> list, fresh |-> fresh,
        runs |-> [e \in Ends |-> Running(e)], open |-> connOpen]
ViewType ==
  [in : [Ends -> Seq(PacketType)], chan : [Ends -> Seq(ChannelType)], list : [Ends -> Seq(Nat)],
   fresh : [Ends -> Seq(Nat)], runs : [Ends -> BOOLEAN], open : [Ends -> BOOLEAN]]

\* A packet for a channel of the receiver.
Carries(p) == p.kind \notin {"open"} \cup Globals

\* One channel by itself: its window is accounted for, its user is where the protocol has it.
Local(ch) ==
  /\ ch.myWindow + ch.taken + ch.pending[0] + ch.pending[1] + ch.lost = WindowSize
  /\ ch.reserved <= MaxPacket /\ ch.reserved <= ch.todo
  /\ ch.dir = "in" => ch.peer # 0 /\ ch.user # "opening" /\ (ch.user = "waiting" <=> ~ch.decided)
  /\ ch.dir = "out" => /\ ch.user # "waiting"
                       /\ ch.peer # 0 => ch.decided
                       /\ ch.user = "open" => ch.peer # 0
                       /\ ~ch.decided => ch.msg = <<>> /\ ch.reqs = <<>> /\ ch.myWindow = WindowSize
                       /\ ch.msg # <<>> /\ ch.msg[1] = "confirm" => ch.peer # 0
  /\ ch.user # "open" => ch.todo = 0 /\ ch.reserved = 0 /\ ch.taken = 0 /\ ch.owed = 0 /\ ~ch.waits
  /\ ch.peer = 0 => ch.win = 0
  /\ Len(ch.msg) <= 1 /\ (ch.msg # <<>> => ch.user = "opening" \/ ch.waits)
  /\ ch.closed => ch.sentClose
  /\ ch.taken = 0 \/ ch.owed = 0
LocalOK(S, e) == \A c \in DOMAIN S.chan[e] : Local(S.chan[e][c])

\* chanList: the channel at an id has that id, and the loop runs while it has channels to close.
Listed(S, e, c) == GetChan(S.list[e], S.chan[e][c].localId) = c
ListOK(S, e) ==
  /\ \A i \in DOMAIN S.list[e] :
       S.list[e][i] # 0 => S.list[e][i] \in DOMAIN S.chan[e] /\ S.chan[e][S.list[e][i]].localId = i
  /\ S.runs[e] => \A c \in DOMAIN S.chan[e] : Listed(S, e, c) => ~S.chan[e][c].closed

\* The two channels of a pair know each other: the end that was asked from the start, the one
\* that asked once it was told.
Paired(S, e, c) ==
  LET ch == S.chan[e][c] other == S.chan[Peer(e)][ch.peer] IN
  ch.peer # 0 =>
    /\ ch.peer \in DOMAIN S.chan[Peer(e)] /\ other.dir # ch.dir /\ ch.remoteId = other.localId
    /\ ch.dir = "out" => other.peer = c /\ other.user = "open"
    /\ ch.dir = "in" /\ ch.user = "waiting" => ~other.decided
    /\ \A x \in DOMAIN S.chan[e] : S.chan[e][x].peer = ch.peer => x = c
PeersOK(S, e) == \A c \in DOMAIN S.chan[e] : Paired(S, e, c)

\* incomingChannels: channels that were not answered, once each.
FreshOK(S, e) ==
  /\ \A i \in DOMAIN S.fresh[e] : S.fresh[e][i] \in DOMAIN S.chan[e] /\ S.chan[e][S.fresh[e][i]].user = "waiting"
  /\ \A i, j \in DOMAIN S.fresh[e] : S.fresh[e][i] = S.fresh[e][j] => i = j

\* An open on its way to e: its channel has no partner yet and waits for one.
OpenIs(S, e, p) ==
  LET f == Peer(e) ch == S.chan[f][p.from] IN
  p.kind = "open" =>
    /\ p.from \in DOMAIN S.chan[f] /\ ch.dir = "out" /\ ~ch.decided /\ p.id = ch.localId /\ p.n = WindowSize
    /\ \A c \in DOMAIN S.chan[e] : S.chan[e][c].peer # p.from
    /\ S.runs[f] /\ ~ch.closed => ch.user = "opening"
OpensOK(S, e) ==
  /\ \A i \in DOMAIN S.in[e] : OpenIs(S, e, S.in[e][i])
  /\ \A i, j \in DOMAIN S.in[e] :
       S.in[e][i].kind = "open" /\ S.in[e][j].kind = "open" /\ S.in[e][i].from = S.in[e][j].from => i = j

\* A packet for a channel on its way to e.
PacketIs(S, e, p) ==
  LET f == Peer(e) ch == S.chan[f][p.from] c == ch.peer IN
  Carries(p) =>
    /\ p.from \in DOMAIN S.chan[f] /\ c # 0 /\ p.id = S.chan[e][c].localId
    /\ S.runs[e] => Listed(S, e, c)
    /\ p.kind = "data" => p.n <= MaxPacket
    /\ p.kind = "request" => p.n \in {0, 1}
    /\ p.kind = "close" => ch.sentClose
    /\ p.kind = "failure" => ch.user = "none"
    /\ p.kind = "confirm" => ch.user = "open" /\ p.aux = ch.localId /\ p.n = WindowSize
    /\ p.kind \in Responses => ch.dir = "in" /\ ~S.chan[e][c].decided
\* Nothing follows a close or a failure, a channel is answered once, and nothing precedes that.
Orders(p, q) ==
  Carries(p) /\ Carries(q) /\ p.from = q.from =>
    p.kind \notin {"close", "failure"} /\ (p.kind \in Responses => q.kind \notin Responses)
Told(S, e, d) == S.chan[e][S.chan[Peer(e)][d].peer].peer = d
PacketsOK(S, e) ==
  /\ \A i \in DOMAIN S.in[e] : PacketIs(S, e, S.in[e][i])
  /\ \A i, j \in DOMAIN S.in[e] : i < j => Orders(S.in[e][i], S.in[e][j])
  /\ \A i \in DOMAIN S.in[e] : Carries(S.in[e][i]) /\ S.in[e][i].kind \notin Responses =>
       \/ Told(S, e, S.in[e][i].from)
       \/ \E j \in DOMAIN S.in[e] : j < i /\ S.in[e][j].kind = "confirm" /\ S.in[e][j].from = S.in[e][i].from

\* A channel that f accepted: e was told, or will be.
AcceptOK(S, e) == \A d \in DOMAIN S.chan[Peer(e)] :
  LET ch == S.chan[Peer(e)][d] IN
  ch.dir = "in" /\ ch.user = "open" /\ S.open[e] =>
    Told(S, e, d) \/ \E j \in DOMAIN S.in[e] : S.in[e][j].kind = "confirm" /\ S.in[e][j].from = d

\* A channel that e forgot was answered, and the other end has done with it.
Done(ch) == ch.sentClose \/ (ch.dir = "in" /\ ch.user = "none")
Through(S, e, c) ==
  /\ S.chan[e][c].decided
  /\ S.chan[e][c].dir = "in" => S.chan[Peer(e)][S.chan[e][c].peer].peer = c
  /\ \A d \in DOMAIN S.chan[Peer(e)] : S.chan[Peer(e)][d].peer = c => Done(S.chan[Peer(e)][d])
ListingOK(S, e) == S.runs[e] => \A c \in DOMAIN S.chan[e] : ~Listed(S, e, c) => Through(S, e, c)

\* What f may still send on its channel d, has sent, or is given back by e, is what e allows.
Credit(S, e, d) ==
  LET f == Peer(e) ch == S.chan[f][d] c == ch.peer IN
  ch.win + ch.reserved + S.chan[e][c].owed + Amount(S.in[e], "data", d) + Amount(S.in[f], "adjust", c)
Exact(S, e, d) ==
  LET f == Peer(e) ch == S.chan[f][d] c == ch.peer IN
  S.open[e] /\ S.open[f] /\ ~S.chan[e][c].closed /\ ~S.chan[e][c].sentClose /\ ~ch.sentClose /\ ~ch.winClosed
WindowIs(S, e, d) ==
  LET f == Peer(e) ch == S.chan[f][d] c == ch.peer IN
  c # 0 =>
    /\ Credit(S, e, d) <= S.chan[e][c].myWindow
    /\ Exact(S, e, d) => Credit(S, e, d) = S.chan[e][c].myWindow
    /\ S.chan[e][c].peer = 0 => ch.myWindow = WindowSize /\ ch.taken = 0 /\ ch.owed = 0 /\ Amount(S.in[e], "adjust", d) = 0
WindowsOK(S, e) == \A d \in DOMAIN S.chan[Peer(e)] : WindowIs(S, e, d)

\* The answers that channel c of e has or may get, of which there is one when it waits.
Tell(p, d) == IF p.kind \in {"ack"} \cup Responses /\ p.from = d THEN 1 ELSE 0
Tells(s, d) == Total([i \in DOMAIN s |-> Tell(s[i], d)])
Waits(ch) == IF ch.waits \/ ch.user = "opening" THEN 1 ELSE 0
Answers(ch) == Total(ch.reqs) + IF ch.user = "waiting" THEN 1 ELSE 0
AnswerIs(S, e, d) ==
  LET f == Peer(e) c == S.chan[f][d].peer IN
  c # 0 /\ S.runs[e] /\ ~S.chan[e][c].closed =>
    Tells(S.in[e], d) + Amount(S.in[f], "request", c) + Answers(S.chan[f][d]) + Len(S.chan[e][c].msg) <= Waits(S.chan[e][c])
AnswersOK(S, e) == \A d \in DOMAIN S.chan[Peer(e)] : AnswerIs(S, e, d)
\* The same for channel d of f, while e was not told of it.
AskedIs(S, e, d) ==
  LET f == Peer(e) c == S.chan[f][d].peer IN
  c # 0 /\ S.chan[e][c].peer = 0 /\ S.runs[f] /\ ~S.chan[f][d].closed =>
    Amount(S.in[e], "request", d) + Answers(S.chan[e][c]) + Len(S.chan[f][d].msg) <= Waits(S.chan[f][d])
AskedOK(S, e) == \A d \in DOMAIN S.chan[Peer(e)] : AskedIs(S, e, d)

Good(S) ==
  /\ S \in ViewType
  /\ \A e \in Ends :
       /\ LocalOK(S, e) /\ ListOK(S, e) /\ PeersOK(S, e) /\ FreshOK(S, e) /\ OpensOK(S, e)
       /\ PacketsOK(S, e) /\ AcceptOK(S, e) /\ ListingOK(S, e) /\ WindowsOK(S, e) /\ AnswersOK(S, e) /\ AskedOK(S, e)

\* The loop, and the requests on the connection.
GTell(p) == IF p.kind = "globalAck" THEN 1 ELSE 0
GTells(s) == Total([i \in DOMAIN s |-> GTell(s[i])])
ShapeOK ==
  /\ net \in [Ends -> Seq(PacketType)] /\ held \in [Ends -> PacketType \cup {NoPacket}]
  /\ loop \in [Ends -> {"run", "push", "failed", "dropped", "done"}] /\ err \in [Ends -> {"nil", "read"}]
  /\ globalReqs \in [Ends -> Seq({0, 1})] /\ globalResp \in [Ends -> Seq({"ack"})] /\ asking \in [Ends -> BOOLEAN]
LoopOK(e) == (loop[e] = "push" <=> held[e] # NoPacket) /\ (~Running(e) => ~connOpen[e] \/ ~connOpen[Peer(e)])
Asks(e) == IF asking[e] THEN 1 ELSE 0
GlobalOK(e) ==
  /\ \A i \in DOMAIN Coming(e) : Coming(e)[i].kind = "global" => Coming(e)[i].n \in {0, 1} /\ Coming(e)[i].from = 0
  /\ Len(globalResp[e]) <= 1 /\ (globalResp[e] # <<>> => asking[e])
  /\ loop[e] # "done" =>
       GTells(Coming(e)) + Amount(Coming(Peer(e)), "global", 0) + Total(globalReqs[Peer(e)]) + Len(globalResp[e]) <= Asks(e)
Inv == may \in Scenarios /\ ShapeOK /\ Good(Now) /\ \A e \in Ends : LoopOK(e) /\ GlobalOK(e)

-----------------------------------------------------------------------------
(* Sums *)

\* The sums of the first numbers of w.
Upto(w, n, f) == f \in [0..n -> Nat] /\ f[0] = 0 /\ \A i \in 1..n : f[i] = f[i - 1] + w[i]

LEMMA LeastNumber ==
  ASSUME NEW N \in SUBSET Nat, N # {}
  PROVE  \E x \in N : \A y \in N : x <= y
<1> DEFINE Below == {ss \in Nat \X Nat : ss[1] < ss[2]}
<1>1. IsWellFoundedOn(Below, Nat)
  BY NatLessThanWellFounded DEF OpToRel
<1>a. \A x, y \in Nat : <<y, x>> \in Below <=> y < x
  OBVIOUS
<1> HIDE DEF Below
<1>2. PICK x \in N : \A y \in N : ~(<<y, x>> \in Below)
  BY <1>1, WFMin
<1>3. ASSUME NEW y \in N PROVE x <= y
  <2>1. x \in Nat /\ y \in Nat /\ ~(y < x)
    BY <1>2, <1>a
  <2> QED BY <2>1
<1> QED BY <1>3

\* A set of numbers with 0 and the successor of each member below n has all up to n.
LEMMA Reaches ==
  ASSUME NEW n \in Nat, NEW T \in SUBSET Nat, 0 \in T, \A i \in T : i < n => i + 1 \in T
  PROVE  \A i \in 0..n : i \in T
<1> DEFINE Out == {i \in 0..n : i \notin T}
<1> SUFFICES ASSUME Out # {} PROVE FALSE
  OBVIOUS
<1>1. PICK x \in Out : \A y \in Out : x <= y
  <2>1. Out \in SUBSET Nat
    OBVIOUS
  <2> HIDE DEF Out
  <2> QED BY <2>1, LeastNumber
<1>2. x \in Nat /\ x # 0 /\ x <= n /\ x \notin T
  OBVIOUS
<1>3. x - 1 \in 0..n /\ x - 1 \notin Out
  BY <1>1, <1>2
<1>4. x - 1 \in T /\ x - 1 < n
  BY <1>2, <1>3
<1>5. (x - 1) + 1 \in T
  BY <1>4
<1> QED BY <1>2, <1>5

LEMMA SumExists ==
  ASSUME NEW w \in Seq(Nat)
  PROVE  \E f : Upto(w, Len(w), f)
<1> DEFINE T == {n \in Nat : n <= Len(w) => \E f : Upto(w, n, f)}
<1>1. 0 \in T
  <2>1. Upto(w, 0, [i \in 0..0 |-> 0])
    BY DEF Upto
  <2> QED BY <2>1
<1>2. ASSUME NEW n \in T, n < Len(w) PROVE n + 1 \in T
  <2>1. PICK f : Upto(w, n, f)
    BY <1>2
  <2> DEFINE g == [i \in 0..(n+1) |-> IF i = n + 1 THEN f[n] + w[n+1] ELSE f[i]]
  <2>2. n \in Nat /\ n + 1 \in 1..Len(w) /\ w[n+1] \in Nat /\ f[n] \in Nat
    BY <1>2, <2>1 DEF Upto
  <2>3. g \in [0..(n+1) -> Nat] /\ g[0] = 0
    BY <2>1, <2>2 DEF Upto
  <2>4. ASSUME NEW i \in 1..(n+1) PROVE g[i] = g[i-1] + w[i]
    <3>1. CASE i = n + 1
      <4>1. g[i] = f[n] + w[n+1] /\ g[n] = f[n] /\ i - 1 = n
        BY <2>2, <3>1
      <4> QED BY <4>1, <3>1
    <3>2. CASE i # n + 1
      <4>1. i \in 1..n /\ i - 1 \in 0..n
        BY <2>2, <3>2
      <4>2. g[i] = f[i] /\ g[i-1] = f[i-1]
        BY ZenonT(60), SMTT(40), <2>2, <4>1
      <4> QED BY <2>1, <4>1, <4>2 DEF Upto
    <3> QED BY <3>1, <3>2
  <2>5. Upto(w, n+1, g)
    BY <2>3, <2>4 DEF Upto
  <2> HIDE DEF g
  <2> QED BY <2>5, <2>2
<1>3. T \in SUBSET Nat /\ Len(w) \in Nat
  OBVIOUS
<1>4. \A n \in T : n < Len(w) => n + 1 \in T
  BY <1>2
<1> HIDE DEF T
<1>5. \A n \in 0..Len(w) : n \in T
  BY <1>1, <1>3, <1>4, Reaches
<1>6. Len(w) \in T
  BY <1>3, <1>5
<1> QED BY <1>3, <1>6 DEF T

LEMMA SumUnique ==
  ASSUME NEW w \in Seq(Nat), NEW n \in Nat, n <= Len(w), NEW f, NEW g, Upto(w, n, f), NEW m \in Nat, n <= m, m <= Len(w), Upto(w, m, g)
  PROVE  \A i \in 0..n : f[i] = g[i]
<1> DEFINE T == {i \in Nat : i <= n => f[i] = g[i]}
<1>1. 0 \in T
  BY DEF Upto
<1>2. ASSUME NEW i \in T, i < n PROVE i + 1 \in T
  BY <1>2 DEF Upto
<1>3. T \in SUBSET Nat
  OBVIOUS
<1> HIDE DEF T
<1>4. \A i \in 0..n : i \in T
  BY <1>1, <1>2, <1>3, Reaches
<1> QED BY <1>4 DEF T

LEMMA TotalIs ==
  ASSUME NEW w \in Seq(Nat), NEW f, Upto(w, Len(w), f)
  PROVE  Total(w) = f[Len(w)]
<1> DEFINE n == Len(w)
<1> DEFINE G(h) == h = [i \in 0..Len(w) |-> IF i = 0 THEN 0 ELSE h[i - 1] + w[i]]
<1> DEFINE c == CHOOSE h : G(h)
<1>0. n \in Nat
  OBVIOUS
<1>1. G(f)
  BY <1>0 DEF Upto
<1>2. G(c)
  BY <1>1
<1>3. Total(w) = c[n]
  BY DEF Total
<1> HIDE DEF c
<1>a. c \in [0..n -> Nat]
  <2> DEFINE T == {i \in Nat : i <= n => c[i] \in Nat}
  <2>1. 0 \in T
    BY <1>0, <1>2
  <2>2. ASSUME NEW i \in T, i < n PROVE i + 1 \in T
    BY <1>0, <1>2, <2>2
  <2>3. T \in SUBSET Nat
    OBVIOUS
  <2> HIDE DEF T
  <2>4. \A i \in 0..n : i \in T
    BY <1>0, <2>1, <2>2, <2>3, Reaches
  <2> QED BY <2>4, <1>2 DEF T
<1>b. c[0] = 0 /\ \A i \in 1..n : c[i] = c[i - 1] + w[i]
  BY <1>0, <1>2
<1>4. Upto(w, n, c)
  BY <1>a, <1>b DEF Upto
<1>5. \A i \in 0..n : c[i] = f[i]
  BY <1>0, <1>4, SumUnique
<1> QED BY <1>0, <1>3, <1>5

LEMMA TotalSums ==
  ASSUME NEW w \in Seq(Nat)
  PROVE  \E f : Upto(w, Len(w), f) /\ Total(w) = f[Len(w)]
<1>1. PICK f : Upto(w, Len(w), f)
  BY SumExists
<1>2. Total(w) = f[Len(w)]
  BY <1>1, TotalIs
<1> QED BY <1>1, <1>2

LEMMA TotalNat ==
  ASSUME NEW w \in Seq(Nat)
  PROVE  Total(w) \in Nat
<1>1. PICK f : Upto(w, Len(w), f) /\ Total(w) = f[Len(w)]
  BY TotalSums
<1>2. Len(w) \in 0..Len(w)
  OBVIOUS
<1> QED BY <1>1, <1>2 DEF Upto

LEMMA TotalEmpty == Total(<<>>) = 0
<1>1. <<>> \in Seq(Nat) /\ Len(<<>>) = 0
  OBVIOUS
<1>2. PICK f : Upto(<<>>, Len(<<>>), f) /\ Total(<<>>) = f[Len(<<>>)]
  BY <1>1, TotalSums
<1> QED BY <1>1, <1>2 DEF Upto

LEMMA TotalAppend ==
  ASSUME NEW w \in Seq(Nat), NEW x \in Nat
  PROVE  Total(Append(w, x)) = Total(w) + x
<1> DEFINE v == Append(w, x) n == Len(w)
<1>1. v \in Seq(Nat) /\ Len(v) = n + 1 /\ n \in Nat /\ v[n + 1] = x /\ \A i \in 1..n : v[i] = w[i]
  OBVIOUS
<1> HIDE DEF v
<1>2. PICK f : Upto(v, Len(v), f) /\ Total(v) = f[Len(v)]
  BY <1>1, TotalSums
<1>3. PICK g : Upto(w, n, g) /\ Total(w) = g[n]
  BY TotalSums
<1> HIDE DEF n
<1> DEFINE h == [i \in 0..n |-> f[i]]
<1>4. Upto(w, n, h)
  <2>1. f \in [0..(n + 1) -> Nat] /\ f[0] = 0 /\ \A i \in 1..(n + 1) : f[i] = f[i - 1] + v[i]
    BY <1>1, <1>2 DEF Upto
  <2>2. h \in [0..n -> Nat] /\ h[0] = 0
    BY <1>1, <2>1
  <2>3. ASSUME NEW i \in 1..n PROVE h[i] = h[i - 1] + w[i]
    <3>1. i \in 0..n /\ i - 1 \in 0..n /\ i \in 1..(n + 1) /\ v[i] = w[i]
      BY <1>1
    <3> QED BY <2>1, <3>1
  <2> HIDE DEF h
  <2> QED BY <2>2, <2>3 DEF Upto
<1>5. h[n] = g[n]
  <2>1. n = Len(w) /\ n <= Len(w) /\ n \in 0..n
    BY <1>1 DEF n
  <2> HIDE DEF h
  <2> QED BY <1>1, <1>3, <1>4, <2>1, SumUnique
<1>6. f[n + 1] = f[n] + x /\ h[n] = f[n]
  BY <1>1, <1>2 DEF Upto
<1> QED BY <1>1, <1>2, <1>3, <1>5, <1>6 DEF v

LEMMA TotalTail ==
  ASSUME NEW w \in Seq(Nat), w # <<>>
  PROVE  Total(w) = Head(w) + Total(Tail(w))
<1> DEFINE v == Tail(w) n == Len(v)
<1>1. v \in Seq(Nat) /\ Len(w) = n + 1 /\ n \in Nat /\ Head(w) = w[1] /\ w[1] \in Nat /\ \A i \in 1..n : v[i] = w[i + 1]
  OBVIOUS
<1>2. PICK f : Upto(w, Len(w), f) /\ Total(w) = f[Len(w)]
  BY TotalSums
<1> HIDE DEF v
<1>3. PICK g : Upto(v, n, g) /\ Total(v) = g[n]
  BY <1>1, TotalSums
<1> HIDE DEF n
<1> DEFINE T == {i \in Nat : i <= n => f[i + 1] = w[1] + g[i]}
<1>4. 0 \in T
  BY <1>1, <1>2, <1>3 DEF Upto
<1>5. ASSUME NEW i \in T, i < n PROVE i + 1 \in T
  <2>1. i \in Nat /\ i + 1 \in 1..n /\ i + 2 \in 1..Len(w) /\ i \in 0..n /\ (i + 1) - 1 = i /\ (i + 2) - 1 = i + 1 /\ (i + 1) + 1 = i + 2
    BY <1>1, <1>5
  <2>a. f[i + 1] = w[1] + g[i]
    BY <1>5, <2>1
  <2>b. g[i] \in Nat /\ g[i + 1] = g[i] + v[i + 1]
    BY <1>3, <2>1 DEF Upto
  <2>c. v[i + 1] = w[i + 2] /\ w[i + 2] \in Nat
    BY <1>1, <2>1
  <2>2. f[i + 1] = w[1] + g[i] /\ g[i] \in Nat /\ g[i + 1] = g[i] + v[i + 1] /\ v[i + 1] = w[i + 2] /\ w[i + 2] \in Nat
    BY <2>a, <2>b, <2>c
  <2>3. f[i + 2] = f[i + 1] + w[i + 2]
    BY <1>2, <2>1 DEF Upto
  <2>4. f[i + 2] = w[1] + g[i + 1]
    BY <1>1, <2>2, <2>3
  <2> QED BY <2>1, <2>4
<1>6. T \in SUBSET Nat
  OBVIOUS
<1> HIDE DEF T
<1>7. n \in T
  <2>1. \A i \in 0..n : i \in T
    BY <1>1, <1>4, <1>5, <1>6, Reaches
  <2> QED BY <1>1, <2>1
<1>8. f[n + 1] = w[1] + g[n]
  BY <1>1, <1>7 DEF T
<1> QED BY <1>1, <1>2, <1>3, <1>8 DEF v

LEMMA TotalZero ==
  ASSUME NEW w \in Seq(Nat), \A i \in DOMAIN w : w[i] = 0
  PROVE  Total(w) = 0
<1> DEFINE f == [i \in 0..Len(w) |-> 0]
<1>1. Upto(w, Len(w), f)
  BY DEF Upto
<1>2. f[Len(w)] = 0
  OBVIOUS
<1> HIDE DEF f
<1> QED BY <1>1, <1>2, TotalIs

-----------------------------------------------------------------------------
(* Sums over packets *)

Sum(s, g) == Total([i \in DOMAIN s |-> g[s[i]]])

LEMMA SumWeights ==
  ASSUME NEW s \in Seq(PacketType), NEW g \in [PacketType -> Nat]
  PROVE  [i \in DOMAIN s |-> g[s[i]]] \in Seq(Nat)
<1>1. \A i \in 1..Len(s) : s[i] \in PacketType
  OBVIOUS
<1>2. \A i \in 1..Len(s) : g[s[i]] \in Nat
  BY <1>1
<1> QED BY <1>2

LEMMA SumMoves ==
  ASSUME NEW s \in Seq(PacketType), NEW g \in [PacketType -> Nat], NEW p \in PacketType
  PROVE  /\ Sum(s, g) \in Nat /\ Sum(<<>>, g) = 0 /\ Sum(<<p>>, g) = g[p]
         /\ Sum(Append(s, p), g) = Sum(s, g) + g[p]
         /\ s # <<>> => Head(s) \in PacketType /\ Sum(s, g) = g[Head(s)] + Sum(Tail(s), g)
         /\ (\A i \in DOMAIN s : g[s[i]] = 0) => Sum(s, g) = 0
<1> DEFINE W(z) == [i \in DOMAIN z |-> g[z[i]]]
<1>0. g[p] \in Nat /\ W(s) \in Seq(Nat) /\ Sum(s, g) = Total(W(s))
  BY SumWeights DEF Sum
<1>1. Sum(s, g) \in Nat
  BY <1>0, TotalNat
<1>2. Sum(<<>>, g) = 0
  <2>1. W(<<>>) = <<>>
    OBVIOUS
  <2> QED BY <2>1, TotalEmpty DEF Sum
<1>3. Sum(Append(s, p), g) = Sum(s, g) + g[p]
  <2>1. W(Append(s, p)) = Append(W(s), g[p])
    <3>1. \A i \in 1..Len(s) : s[i] \in PacketType
      OBVIOUS
    <3>2. DOMAIN s = 1..Len(s) /\ DOMAIN Append(s, p) = 1..(Len(s) + 1) /\ Len(s) \in Nat
      OBVIOUS
    <3>3. DOMAIN W(Append(s, p)) = 1..(Len(s) + 1) /\ DOMAIN Append(W(s), g[p]) = 1..(Len(s) + 1) /\ Len(W(s)) = Len(s)
      BY <1>0, <3>2
    <3>4. ASSUME NEW i \in 1..(Len(s) + 1) PROVE W(Append(s, p))[i] = Append(W(s), g[p])[i]
      <4>1. CASE i \in 1..Len(s)
        <5>1. W(Append(s, p))[i] = g[s[i]]
          BY <3>2, <4>1
        <5>2. W(s)[i] = g[s[i]]
          BY <3>2, <4>1
        <5>3. Append(W(s), g[p])[i] = W(s)[i]
          BY <1>0, <3>2, <3>3, <4>1
        <5> QED BY <5>1, <5>2, <5>3
      <4>2. CASE i = Len(s) + 1
        <5>1. W(Append(s, p))[i] = g[p]
          BY <3>2, <4>2
        <5>2. Append(W(s), g[p])[i] = g[p]
          BY <1>0, <3>2, <3>3, <4>2
        <5> QED BY <5>1, <5>2
      <4> QED BY <3>2, <4>1, <4>2
    <3>5. W(Append(s, p)) = [i \in 1..(Len(s) + 1) |-> W(Append(s, p))[i]]
      BY <3>2
    <3>6. Append(W(s), g[p]) = [i \in 1..(Len(s) + 1) |-> Append(W(s), g[p])[i]]
      BY <1>0, <3>3
    <3> DEFINE X == W(Append(s, p)) Y == Append(W(s), g[p]) D == 1..(Len(s) + 1)
    <3>7. X = [i \in D |-> X[i]] /\ Y = [i \in D |-> Y[i]] /\ \A i \in D : X[i] = Y[i]
      BY <3>4, <3>5, <3>6
    <3> HIDE DEF X, Y, D
    <3>8. X = Y
      BY <3>7
    <3> QED BY <3>8 DEF X, Y
  <2> HIDE DEF W
  <2>2. Total(Append(W(s), g[p])) = Total(W(s)) + g[p]
    BY <1>0, TotalAppend
  <2> QED BY <1>0, <2>1, <2>2 DEF Sum, W
<1>4. ASSUME s # <<>> PROVE Head(s) \in PacketType /\ Sum(s, g) = g[Head(s)] + Sum(Tail(s), g)
  <2>1. W(Tail(s)) = Tail(W(s)) /\ W(s) # <<>> /\ Head(W(s)) = g[Head(s)] /\ Head(s) \in PacketType
    <3>1. Len(s) \in Nat /\ Len(s) # 0 /\ DOMAIN s = 1..Len(s) /\ Head(s) = s[1] /\ Len(Tail(s)) = Len(s) - 1
          /\ DOMAIN Tail(s) = 1..(Len(s) - 1) /\ \A i \in 1..(Len(s) - 1) : Tail(s)[i] = s[i + 1]
      BY <1>4
    <3>2. Len(W(s)) = Len(s) /\ W(s) # <<>> /\ W(s)[1] = g[s[1]] /\ Head(W(s)) = W(s)[1]
      BY <1>0, <3>1
    <3>3. DOMAIN Tail(W(s)) = 1..(Len(s) - 1) /\ \A i \in 1..(Len(s) - 1) : Tail(W(s))[i] = W(s)[i + 1]
      BY <1>0, <3>1, <3>2
    <3>4. \A i \in 1..(Len(s) - 1) : W(s)[i + 1] = g[s[i + 1]] /\ W(Tail(s))[i] = g[s[i + 1]]
      BY <3>1
    <3>5. Tail(W(s)) = [i \in 1..(Len(s) - 1) |-> Tail(W(s))[i]]
      <4>1. Tail(W(s)) \in Seq(Nat) /\ Len(Tail(W(s))) = Len(s) - 1
        BY <1>0, <3>2
      <4>2. Tail(W(s)) = [i \in 1..Len(Tail(W(s))) |-> Tail(W(s))[i]]
        <5> DEFINE z == Tail(W(s))
        <5>1. z \in Seq(Nat)
          BY <4>1
        <5> HIDE DEF z
        <5>2. z = [i \in 1..Len(z) |-> z[i]]
          BY <5>1
        <5> QED BY <5>2 DEF z
      <4> QED BY <4>1, <4>2, Zenon
    <3>6. W(Tail(s)) = [i \in 1..(Len(s) - 1) |-> W(Tail(s))[i]]
      BY <3>1
    <3>7. W(Tail(s)) = Tail(W(s))
      <4> DEFINE X == W(Tail(s)) Y == Tail(W(s)) D == 1..(Len(s) - 1)
      <4>1. X = [i \in D |-> X[i]] /\ Y = [i \in D |-> Y[i]]
        BY <3>5, <3>6
      <4>2. \A i \in D : X[i] = Y[i]
        BY <3>3, <3>4
      <4> HIDE DEF X, Y, D
      <4>3. X = Y
        BY <4>1, <4>2
      <4> QED BY <4>3 DEF X, Y
    <3> QED BY <3>1, <3>2, <3>7
  <2> HIDE DEF W
  <2>2. Total(W(s)) = Head(W(s)) + Total(Tail(W(s)))
    BY <1>0, <2>1, TotalTail
  <2> QED BY <1>0, <2>1, <2>2 DEF Sum, W
<1>5. Sum(<<p>>, g) = g[p]
  <2>1. Append(<<>>, p) = <<p>> /\ <<>> \in Seq(PacketType)
    OBVIOUS
  <2>2. <<p>> \in Seq(PacketType) /\ <<p>> # <<>> /\ Head(<<p>>) = p /\ Tail(<<p>>) = <<>>
    OBVIOUS
  <2>3. W(<<p>>) = <<g[p]>>
    OBVIOUS
  <2>4. Total(<<g[p]>>) = g[p]
    <3>1. <<>> \in Seq(Nat) /\ Append(<<>>, g[p]) = <<g[p]>>
      OBVIOUS
    <3>2. Total(Append(<<>>, g[p])) = Total(<<>>) + g[p]
      BY <1>0, <3>1, TotalAppend
    <3> QED BY <1>0, <3>1, <3>2, TotalEmpty
  <2> QED BY <2>3, <2>4 DEF Sum
<1>6. ASSUME \A i \in DOMAIN s : g[s[i]] = 0 PROVE Sum(s, g) = 0
  <2>1. \A i \in DOMAIN W(s) : W(s)[i] = 0
    BY <1>6
  <2> HIDE DEF W
  <2> QED BY <1>0, <2>1, TotalZero
<1> QED BY <1>1, <1>2, <1>3, <1>4, <1>5, <1>6

AmountFacts(s, p, k, x) ==
  /\ Amount(s, k, x) \in Nat /\ Amount(<<>>, k, x) = 0 /\ Amount(<<p>>, k, x) = Weight(p, k, x)
  /\ Weight(p, k, x) \in Nat
  /\ Amount(Append(s, p), k, x) = Amount(s, k, x) + Weight(p, k, x)
  /\ s # <<>> => Head(s) \in PacketType /\ Weight(Head(s), k, x) \in Nat /\ Amount(s, k, x) = Weight(Head(s), k, x) + Amount(Tail(s), k, x)
  /\ (\A i \in DOMAIN s : Weight(s[i], k, x) = 0) => Amount(s, k, x) = 0

LEMMA AmountMoves ==
  ASSUME NEW s \in Seq(PacketType), NEW p \in PacketType, NEW k, NEW x
  PROVE  AmountFacts(s, p, k, x)
<1> DEFINE g == [q \in PacketType |-> Weight(q, k, x)]
<1>1. g \in [PacketType -> Nat]
  BY DEF Weight, PacketType
<1>2. \A q \in PacketType : g[q] = Weight(q, k, x)
  OBVIOUS
<1> HIDE DEF g
<1>3. ASSUME NEW z \in Seq(PacketType) PROVE Amount(z, k, x) = Sum(z, g)
  <2>1. \A i \in DOMAIN z : z[i] \in PacketType
    OBVIOUS
  <2>2. [i \in DOMAIN z |-> Weight(z[i], k, x)] = [i \in DOMAIN z |-> g[z[i]]]
    BY <1>2, <2>1
  <2> QED BY <2>2 DEF Amount, Sum
<1>4. <<>> \in Seq(PacketType) /\ <<p>> \in Seq(PacketType) /\ Append(s, p) \in Seq(PacketType)
      /\ (s # <<>> => Tail(s) \in Seq(PacketType) /\ Head(s) \in PacketType) /\ \A i \in DOMAIN s : s[i] \in PacketType
  OBVIOUS
<1>5. g[p] = Weight(p, k, x) /\ g[p] \in Nat
  BY <1>1, <1>2
<1>6. s # <<>> => g[Head(s)] = Weight(Head(s), k, x) /\ g[Head(s)] \in Nat
  BY <1>1, <1>2, <1>4
<1>7. (\A i \in DOMAIN s : Weight(s[i], k, x) = 0) => \A i \in DOMAIN s : g[s[i]] = 0
  BY <1>2, <1>4
<1>8. /\ Sum(s, g) \in Nat /\ Sum(<<>>, g) = 0 /\ Sum(<<p>>, g) = g[p]
      /\ Sum(Append(s, p), g) = Sum(s, g) + g[p]
      /\ s # <<>> => Head(s) \in PacketType /\ Sum(s, g) = g[Head(s)] + Sum(Tail(s), g)
      /\ (\A i \in DOMAIN s : g[s[i]] = 0) => Sum(s, g) = 0
  BY <1>1, SumMoves
<1>9. /\ Amount(s, k, x) = Sum(s, g) /\ Amount(<<>>, k, x) = Sum(<<>>, g) /\ Amount(<<p>>, k, x) = Sum(<<p>>, g)
      /\ Amount(Append(s, p), k, x) = Sum(Append(s, p), g) /\ (s # <<>> => Amount(Tail(s), k, x) = Sum(Tail(s), g))
  BY <1>3, <1>4
<1> QED BY <1>5, <1>6, <1>7, <1>8, <1>9 DEF AmountFacts

LEMMA AmountSteps ==
  ASSUME NEW s \in Seq(PacketType), NEW p \in PacketType
  PROVE  /\ \A k, x : Amount(Append(s, p), k, x) = Amount(s, k, x) + Weight(p, k, x)
         /\ s # <<>> => \A k, x : Amount(s, k, x) = Weight(Head(s), k, x) + Amount(Tail(s), k, x)
<1>1. ASSUME NEW k, NEW x PROVE AmountFacts(s, p, k, x)
  BY AmountMoves
<1> QED BY <1>1 DEF AmountFacts

LEMMA TellsMoves ==
  ASSUME NEW s \in Seq(PacketType), NEW p \in PacketType, NEW x
  PROVE  /\ Tells(s, x) \in Nat /\ Tells(<<>>, x) = 0 /\ Tells(<<p>>, x) = Tell(p, x)
         /\ Tell(p, x) \in Nat
         /\ Tells(Append(s, p), x) = Tells(s, x) + Tell(p, x)
         /\ s # <<>> => Head(s) \in PacketType /\ Tell(Head(s), x) \in Nat /\ Tells(s, x) = Tell(Head(s), x) + Tells(Tail(s), x)
         /\ (\A i \in DOMAIN s : Tell(s[i], x) = 0) => Tells(s, x) = 0
<1> DEFINE g == [q \in PacketType |-> Tell(q, x)]
<1>1. g \in [PacketType -> Nat]
  BY DEF Tell
<1>2. \A q \in PacketType : g[q] = Tell(q, x)
  OBVIOUS
<1> HIDE DEF g
<1>3. ASSUME NEW z \in Seq(PacketType) PROVE Tells(z, x) = Sum(z, g)
  <2>1. \A i \in DOMAIN z : z[i] \in PacketType
    OBVIOUS
  <2>2. [i \in DOMAIN z |-> Tell(z[i], x)] = [i \in DOMAIN z |-> g[z[i]]]
    BY <1>2, <2>1
  <2> QED BY <2>2 DEF Tells, Sum
<1>4. <<>> \in Seq(PacketType) /\ <<p>> \in Seq(PacketType) /\ Append(s, p) \in Seq(PacketType)
      /\ (s # <<>> => Tail(s) \in Seq(PacketType) /\ Head(s) \in PacketType) /\ \A i \in DOMAIN s : s[i] \in PacketType
  OBVIOUS
<1>5. g[p] = Tell(p, x) /\ g[p] \in Nat
  BY <1>1, <1>2
<1>6. s # <<>> => g[Head(s)] = Tell(Head(s), x) /\ g[Head(s)] \in Nat
  BY <1>1, <1>2, <1>4
<1>7. (\A i \in DOMAIN s : Tell(s[i], x) = 0) => \A i \in DOMAIN s : g[s[i]] = 0
  BY <1>2, <1>4
<1>8. /\ Sum(s, g) \in Nat /\ Sum(<<>>, g) = 0 /\ Sum(<<p>>, g) = g[p]
      /\ Sum(Append(s, p), g) = Sum(s, g) + g[p]
      /\ s # <<>> => Head(s) \in PacketType /\ Sum(s, g) = g[Head(s)] + Sum(Tail(s), g)
      /\ (\A i \in DOMAIN s : g[s[i]] = 0) => Sum(s, g) = 0
  BY <1>1, SumMoves
<1>9. /\ Tells(s, x) = Sum(s, g) /\ Tells(<<>>, x) = Sum(<<>>, g) /\ Tells(<<p>>, x) = Sum(<<p>>, g)
      /\ Tells(Append(s, p), x) = Sum(Append(s, p), g) /\ (s # <<>> => Tells(Tail(s), x) = Sum(Tail(s), g))
  BY <1>3, <1>4
<1> QED BY <1>5, <1>6, <1>7, <1>8, <1>9

LEMMA GTellsMoves ==
  ASSUME NEW s \in Seq(PacketType), NEW p \in PacketType
  PROVE  /\ GTells(s) \in Nat /\ GTells(<<>>) = 0 /\ GTells(<<p>>) = GTell(p)
         /\ GTell(p) \in Nat
         /\ GTells(Append(s, p)) = GTells(s) + GTell(p)
         /\ s # <<>> => Head(s) \in PacketType /\ GTell(Head(s)) \in Nat /\ GTells(s) = GTell(Head(s)) + GTells(Tail(s))
         /\ (\A i \in DOMAIN s : GTell(s[i]) = 0) => GTells(s) = 0
<1> DEFINE g == [q \in PacketType |-> GTell(q)]
<1>1. g \in [PacketType -> Nat]
  BY DEF GTell
<1>2. \A q \in PacketType : g[q] = GTell(q)
  OBVIOUS
<1> HIDE DEF g
<1>3. ASSUME NEW z \in Seq(PacketType) PROVE GTells(z) = Sum(z, g)
  <2>1. \A i \in DOMAIN z : z[i] \in PacketType
    OBVIOUS
  <2>2. [i \in DOMAIN z |-> GTell(z[i])] = [i \in DOMAIN z |-> g[z[i]]]
    BY <1>2, <2>1
  <2> QED BY <2>2 DEF GTells, Sum
<1>4. <<>> \in Seq(PacketType) /\ <<p>> \in Seq(PacketType) /\ Append(s, p) \in Seq(PacketType)
      /\ (s # <<>> => Tail(s) \in Seq(PacketType) /\ Head(s) \in PacketType) /\ \A i \in DOMAIN s : s[i] \in PacketType
  OBVIOUS
<1>5. g[p] = GTell(p) /\ g[p] \in Nat
  BY <1>1, <1>2
<1>6. s # <<>> => g[Head(s)] = GTell(Head(s)) /\ g[Head(s)] \in Nat
  BY <1>1, <1>2, <1>4
<1>7. (\A i \in DOMAIN s : GTell(s[i]) = 0) => \A i \in DOMAIN s : g[s[i]] = 0
  BY <1>2, <1>4
<1>8. /\ Sum(s, g) \in Nat /\ Sum(<<>>, g) = 0 /\ Sum(<<p>>, g) = g[p]
      /\ Sum(Append(s, p), g) = Sum(s, g) + g[p]
      /\ s # <<>> => Head(s) \in PacketType /\ Sum(s, g) = g[Head(s)] + Sum(Tail(s), g)
      /\ (\A i \in DOMAIN s : g[s[i]] = 0) => Sum(s, g) = 0
  BY <1>1, SumMoves
<1>9. /\ GTells(s) = Sum(s, g) /\ GTells(<<>>) = Sum(<<>>, g) /\ GTells(<<p>>) = Sum(<<p>>, g)
      /\ GTells(Append(s, p)) = Sum(Append(s, p), g) /\ (s # <<>> => GTells(Tail(s)) = Sum(Tail(s), g))
  BY <1>3, <1>4
<1> QED BY <1>5, <1>6, <1>7, <1>8, <1>9

-----------------------------------------------------------------------------
(* Views and the steps between them *)

LEMMA PeerFacts ==
  ASSUME NEW e \in Ends
  PROVE  Peer(e) \in Ends /\ Peer(Peer(e)) = e /\ Peer(e) # e /\ \A x \in Ends : x = e \/ x = Peer(e)
BY DEF Ends, Peer

LEMMA ViewFields ==
  ASSUME NEW S \in ViewType, NEW e \in Ends
  PROVE  /\ S.in[e] \in Seq(PacketType) /\ S.chan[e] \in Seq(ChannelType) /\ S.list[e] \in Seq(Nat) /\ S.fresh[e] \in Seq(Nat)
         /\ S.runs[e] \in BOOLEAN /\ S.open[e] \in BOOLEAN
BY DEF ViewType

LEMMA ViewItems ==
  ASSUME NEW S \in ViewType, NEW e \in Ends
  PROVE  /\ DOMAIN S.in[e] = 1..Len(S.in[e]) /\ Len(S.in[e]) \in Nat /\ \A i \in DOMAIN S.in[e] : S.in[e][i] \in PacketType
         /\ DOMAIN S.chan[e] = 1..Len(S.chan[e]) /\ Len(S.chan[e]) \in Nat /\ \A c \in DOMAIN S.chan[e] : S.chan[e][c] \in ChannelType /\ c # 0
         /\ DOMAIN S.list[e] = 1..Len(S.list[e]) /\ Len(S.list[e]) \in Nat /\ \A i \in DOMAIN S.list[e] : S.list[e][i] \in Nat
BY ZenonT(60), SMTT(40), ViewFields

\* A channel after a step: who its partner is does not change, what was closed stays closed, and
\* its user goes on.
Keeps(a, b) ==
  /\ b.dir = a.dir /\ b.localId = a.localId /\ b.remoteId = a.remoteId /\ b.peer = a.peer
  /\ (a.closed => b.closed) /\ (a.sentClose => b.sentClose) /\ (a.winClosed => b.winClosed)
  /\ (a.dir = "out" => b.decided = a.decided) /\ (a.decided => b.decided)
  /\ \/ b.user = a.user
     \/ a.user = "waiting" /\ b.user \in {"open", "none"}
     \/ a.user = "opening" /\ (a.decided \/ a.closed) /\ b.user \in {"open", "none"}
ChanKeeps(S, T) == \A e \in Ends :
  DOMAIN T.chan[e] = DOMAIN S.chan[e] /\ \A c \in DOMAIN S.chan[e] : Keeps(S.chan[e][c], T.chan[e][c])

\* Nothing but the first k of a sequence, or its end, is gone.
Shift(s, t, k) == k \in {0, 1} /\ \A i \in DOMAIN t : i \in Nat /\ i + k \in DOMAIN s /\ t[i] = s[i + k]

LEMMA Shifts ==
  ASSUME NEW X, NEW s \in Seq(X)
  PROVE  /\ Shift(s, s, 0) /\ Shift(s, <<>>, 0)
         /\ s # <<>> => Shift(s, Tail(s), 1) /\ Shift(s, <<Head(s)>>, 0)
<1>1. Shift(s, s, 0) /\ Shift(s, <<>>, 0)
  BY DEF Shift
<1>2. ASSUME s # <<>> PROVE Shift(s, Tail(s), 1)
  BY <1>2 DEF Shift
<1>3. ASSUME s # <<>> PROVE Shift(s, <<Head(s)>>, 0)
  <2>1. 1 \in DOMAIN s /\ Head(s) = s[1] /\ DOMAIN <<Head(s)>> = {1} /\ <<Head(s)>>[1] = Head(s)
    BY <1>3
  <2> QED BY <2>1 DEF Shift
<1> QED BY <1>1, <1>2, <1>3

\* Channel c of e and channel d of f are a pair.
IsPartner(S, e, c, f, d) ==
  /\ d \in DOMAIN S.chan[f] /\ S.chan[f][d].dir # S.chan[e][c].dir /\ S.chan[e][c].remoteId = S.chan[f][d].localId
  /\ S.chan[e][c].dir = "out" => S.chan[f][d].peer = c /\ S.chan[f][d].user = "open"
  /\ S.chan[e][c].dir = "in" /\ S.chan[e][c].user = "waiting" => ~S.chan[f][d].decided
  /\ \A x \in DOMAIN S.chan[e] : S.chan[e][x].peer = d => x = c
  /\ S.chan[e][c].dir \in {"in", "out"} /\ S.chan[f][d].dir \in {"in", "out"}

LEMMA Partner ==
  ASSUME NEW S \in ViewType, NEW e \in Ends, PeersOK(S, e), NEW c \in DOMAIN S.chan[e], S.chan[e][c].peer # 0
  PROVE  IsPartner(S, e, c, Peer(e), S.chan[e][c].peer)
<1>1. Paired(S, e, c)
  BY DEF PeersOK
<1>2. S.chan[e][c] \in ChannelType
  BY ViewItems
<1>3. S.chan[e][c].peer \in DOMAIN S.chan[Peer(e)]
  BY <1>1 DEF Paired
<1>4. S.chan[Peer(e)][S.chan[e][c].peer] \in ChannelType
  BY <1>3, PeerFacts, ViewItems
<1>5. S.chan[e][c].dir \in {"in", "out"} /\ S.chan[Peer(e)][S.chan[e][c].peer].dir \in {"in", "out"}
  BY <1>2, <1>4 DEF ChannelType
<1> QED BY ZenonT(60), <1>1, <1>5 DEF Paired, IsPartner

LEMMA KeepPeers ==
  ASSUME NEW S \in ViewType, NEW T \in ViewType, ChanKeeps(S, T), NEW e \in Ends, PeersOK(S, e)
  PROVE  PeersOK(T, e)
<1> SUFFICES ASSUME NEW c \in DOMAIN T.chan[e], T.chan[e][c].peer # 0 PROVE Paired(T, e, c)
  BY DEF PeersOK, Paired
<1> DEFINE f == Peer(e) d == S.chan[e][c].peer
<1>1. f \in Ends
  BY PeerFacts
<1>2. c \in DOMAIN S.chan[e] /\ Keeps(S.chan[e][c], T.chan[e][c]) /\ DOMAIN T.chan[e] = DOMAIN S.chan[e] /\ DOMAIN T.chan[f] = DOMAIN S.chan[f]
      /\ \A x \in DOMAIN S.chan[e] : Keeps(S.chan[e][x], T.chan[e][x])
  BY <1>1 DEF ChanKeeps
<1>3. T.chan[e][c].peer = d /\ d # 0 /\ T.chan[e][c].dir = S.chan[e][c].dir /\ T.chan[e][c].remoteId = S.chan[e][c].remoteId
      /\ (T.chan[e][c].user = "waiting" => S.chan[e][c].user = "waiting")
  BY <1>2 DEF Keeps
<1>4. IsPartner(S, e, c, f, d)
  BY <1>2, <1>3, Partner
<1>5. Keeps(S.chan[f][d], T.chan[f][d])
  BY <1>1, <1>4 DEF ChanKeeps, IsPartner
<1>6. \A x \in DOMAIN T.chan[e] : T.chan[e][x].peer = S.chan[e][x].peer
  BY <1>2 DEF Keeps
<1>7. T.chan[f][d].dir = S.chan[f][d].dir /\ T.chan[f][d].localId = S.chan[f][d].localId /\ T.chan[f][d].peer = S.chan[f][d].peer
      /\ (S.chan[f][d].user = "open" => T.chan[f][d].user = "open") /\ (S.chan[f][d].dir = "out" => T.chan[f][d].decided = S.chan[f][d].decided)
  BY ZenonT(60), <1>5 DEF Keeps
<1> QED BY ZenonT(60), <1>2, <1>3, <1>4, <1>6, <1>7 DEF Paired, IsPartner

\* Ids are given back, and the channels that are left are not closed while the loop runs.
ListShrinks(S, T, e) ==
  /\ \A i \in DOMAIN T.list[e] : T.list[e][i] # 0 => i \in DOMAIN S.list[e] /\ T.list[e][i] = S.list[e][i]
  /\ T.runs[e] => S.runs[e] /\ \A c \in DOMAIN S.chan[e] : Listed(T, e, c) /\ ~S.chan[e][c].closed => ~T.chan[e][c].closed

LEMMA ListedBefore ==
  ASSUME NEW S \in ViewType, NEW T \in ViewType, ChanKeeps(S, T), NEW e \in Ends, ListShrinks(S, T, e),
         NEW c \in DOMAIN S.chan[e], Listed(T, e, c)
  PROVE  Listed(S, e, c)
<1> DEFINE i == T.chan[e][c].localId
<1>1. Keeps(S.chan[e][c], T.chan[e][c]) /\ c # 0
  BY ViewItems DEF ChanKeeps
<1>2. i = S.chan[e][c].localId
  BY <1>1 DEF Keeps
<1>3. i \in DOMAIN T.list[e] /\ T.list[e][i] = c
  BY <1>1, ViewItems DEF Listed, GetChan
<1>4. i \in DOMAIN S.list[e] /\ S.list[e][i] = c
  BY <1>1, <1>3 DEF ListShrinks
<1> HIDE DEF i
<1> QED BY <1>2, <1>4, ViewItems DEF Listed, GetChan

LEMMA KeepList ==
  ASSUME NEW S \in ViewType, NEW T \in ViewType, ChanKeeps(S, T), NEW e \in Ends, ListOK(S, e), ListShrinks(S, T, e)
  PROVE  ListOK(T, e)
<1>1. ASSUME NEW i \in DOMAIN T.list[e], T.list[e][i] # 0
      PROVE  T.list[e][i] \in DOMAIN T.chan[e] /\ T.chan[e][T.list[e][i]].localId = i
  <2> DEFINE c == T.list[e][i]
  <2>1. i \in DOMAIN S.list[e] /\ S.list[e][i] = c /\ c # 0
    BY <1>1 DEF ListShrinks
  <2>2. c \in DOMAIN S.chan[e] /\ S.chan[e][c].localId = i
    BY <2>1 DEF ListOK
  <2> HIDE DEF c
  <2>3. c \in DOMAIN T.chan[e] /\ Keeps(S.chan[e][c], T.chan[e][c])
    BY <2>2 DEF ChanKeeps
  <2>4. T.chan[e][c].localId = i
    BY <2>2, <2>3 DEF Keeps
  <2> QED BY <2>3, <2>4 DEF c
<1>2. ASSUME T.runs[e], NEW c \in DOMAIN T.chan[e], Listed(T, e, c) PROVE ~T.chan[e][c].closed
  <2>1. c \in DOMAIN S.chan[e]
    BY DEF ChanKeeps
  <2>2. Listed(S, e, c) /\ S.runs[e]
    BY <1>2, <2>1, ListedBefore DEF ListShrinks
  <2> QED BY <1>2, <2>1, <2>2 DEF ListOK, ListShrinks
<1> QED BY <1>1, <1>2 DEF ListOK

\* The channels that are left to answer are as they were.
FreshStays(S, T, e) == \A i \in DOMAIN T.fresh[e] : T.chan[e][T.fresh[e][i]].user = S.chan[e][T.fresh[e][i]].user

LEMMA KeepFresh ==
  ASSUME NEW S \in ViewType, NEW T \in ViewType, ChanKeeps(S, T), NEW e \in Ends, FreshOK(S, e), NEW k, Shift(S.fresh[e], T.fresh[e], k), FreshStays(S, T, e)
  PROVE  FreshOK(T, e)
<1>0. k \in {0, 1} /\ \A i \in DOMAIN T.fresh[e] : i \in Nat /\ i + k \in DOMAIN S.fresh[e] /\ T.fresh[e][i] = S.fresh[e][i + k]
  BY DEF Shift
<1>1. ASSUME NEW i \in DOMAIN T.fresh[e]
      PROVE  T.fresh[e][i] \in DOMAIN T.chan[e] /\ T.chan[e][T.fresh[e][i]].user = "waiting"
  BY <1>0 DEF FreshOK, ChanKeeps, FreshStays
<1>2. ASSUME NEW i \in DOMAIN T.fresh[e], NEW j \in DOMAIN T.fresh[e], T.fresh[e][i] = T.fresh[e][j] PROVE i = j
  <2>1. i + k = j + k
    BY <1>0, <1>2 DEF FreshOK
  <2> QED BY <1>0, <2>1
<1> QED BY <1>1, <1>2 DEF FreshOK

LEMMA KeepOpen ==
  ASSUME NEW S \in ViewType, NEW T \in ViewType, ChanKeeps(S, T), NEW e \in Ends, T.runs[Peer(e)] => S.runs[Peer(e)],
         NEW p, OpenIs(S, e, p)
  PROVE  OpenIs(T, e, p)
<1> SUFFICES ASSUME p.kind = "open" PROVE OpenIs(T, e, p)
  BY DEF OpenIs
<1> DEFINE f == Peer(e) ch == S.chan[f][p.from]
<1>1. /\ p.from \in DOMAIN S.chan[f] /\ ch.dir = "out" /\ ~ch.decided /\ p.id = ch.localId /\ p.n = WindowSize
      /\ \A c \in DOMAIN S.chan[e] : S.chan[e][c].peer # p.from
      /\ S.runs[f] /\ ~ch.closed => ch.user = "opening"
  BY DEF OpenIs
<1>2. p.from \in DOMAIN T.chan[f] /\ Keeps(ch, T.chan[f][p.from])
  BY <1>1, PeerFacts DEF ChanKeeps
<1>3. \A c \in DOMAIN T.chan[e] : c \in DOMAIN S.chan[e] /\ T.chan[e][c].peer = S.chan[e][c].peer
  BY DEF ChanKeeps, Keeps
<1> QED BY <1>1, <1>2, <1>3 DEF OpenIs, Keeps

LEMMA KeepOpens ==
  ASSUME NEW S \in ViewType, NEW T \in ViewType, ChanKeeps(S, T), NEW e \in Ends, T.runs[Peer(e)] => S.runs[Peer(e)],
         NEW k, Shift(S.in[e], T.in[e], k), OpensOK(S, e)
  PROVE  OpensOK(T, e)
<1>0. k \in {0, 1} /\ \A i \in DOMAIN T.in[e] : i \in Nat /\ i + k \in DOMAIN S.in[e] /\ T.in[e][i] = S.in[e][i + k]
  BY DEF Shift
<1>1. ASSUME NEW i \in DOMAIN T.in[e] PROVE OpenIs(T, e, T.in[e][i])
  BY <1>0, KeepOpen DEF OpensOK
<1>2. ASSUME NEW i \in DOMAIN T.in[e], NEW j \in DOMAIN T.in[e],
             T.in[e][i].kind = "open", T.in[e][j].kind = "open", T.in[e][i].from = T.in[e][j].from
      PROVE  i = j
  <2>1. i + k = j + k
    BY <1>0, <1>2 DEF OpensOK
  <2> QED BY <1>0, <2>1
<1> QED BY <1>1, <1>2 DEF OpensOK

LEMMA AddOpens ==
  ASSUME NEW S \in ViewType, NEW T \in ViewType, ChanKeeps(S, T), NEW e \in Ends, T.runs[Peer(e)] => S.runs[Peer(e)],
         NEW p \in PacketType, T.in[e] = Append(S.in[e], p), p.kind # "open", OpensOK(S, e)
  PROVE  OpensOK(T, e)
<1> DEFINE n == Len(S.in[e])
<1>0. /\ n \in Nat /\ DOMAIN S.in[e] = 1..n /\ DOMAIN T.in[e] = 1..(n + 1) /\ T.in[e][n + 1] = p
      /\ \A i \in 1..n : T.in[e][i] = S.in[e][i]
  BY ViewFields
<1> HIDE DEF n
<1>1. ASSUME NEW i \in DOMAIN T.in[e] PROVE OpenIs(T, e, T.in[e][i])
  <2>1. CASE i = n + 1
    BY <1>0, <2>1 DEF OpenIs
  <2>2. CASE i \in 1..n
    BY <1>0, <2>2, KeepOpen DEF OpensOK
  <2> QED BY <1>0, <2>1, <2>2
<1>2. ASSUME NEW i \in DOMAIN T.in[e], NEW j \in DOMAIN T.in[e],
             T.in[e][i].kind = "open", T.in[e][j].kind = "open", T.in[e][i].from = T.in[e][j].from
      PROVE  i = j
  <2>1. i \in 1..n /\ j \in 1..n
    BY <1>0, <1>2
  <2> QED BY <1>0, <1>2, <2>1 DEF OpensOK
<1> QED BY <1>1, <1>2 DEF OpensOK

LEMMA KeepPacket ==
  ASSUME NEW S \in ViewType, NEW T \in ViewType, ChanKeeps(S, T), NEW e \in Ends, PeersOK(S, Peer(e)),
         NEW p, PacketIs(S, e, p), Carries(p),
         T.runs[e] => S.runs[e] /\ (Listed(S, e, S.chan[Peer(e)][p.from].peer) => Listed(T, e, S.chan[Peer(e)][p.from].peer))
  PROVE  PacketIs(T, e, p) /\ p.from \in DOMAIN S.chan[Peer(e)] /\ T.chan[Peer(e)][p.from].peer = S.chan[Peer(e)][p.from].peer
<1> DEFINE f == Peer(e) d == p.from ch == S.chan[f][d] c == ch.peer
<1>0. f \in Ends /\ Peer(f) = e
  BY PeerFacts
<1>1. /\ d \in DOMAIN S.chan[f] /\ c # 0 /\ p.id = S.chan[e][c].localId
      /\ S.runs[e] => Listed(S, e, c)
      /\ p.kind = "data" => p.n <= MaxPacket
      /\ p.kind = "request" => p.n \in {0, 1}
      /\ p.kind = "close" => ch.sentClose
      /\ p.kind = "failure" => ch.user = "none"
      /\ p.kind = "confirm" => ch.user = "open" /\ p.aux = ch.localId /\ p.n = WindowSize
      /\ p.kind \in Responses => ch.dir = "in" /\ ~S.chan[e][c].decided
  BY DEF PacketIs
<1>2. IsPartner(S, f, d, e, c)
  BY <1>0, <1>1, Partner
<1>3. c \in DOMAIN S.chan[e] /\ (ch.dir = "in" => S.chan[e][c].dir = "out")
  BY ZenonT(60), <1>2 DEF IsPartner
<1>4. d \in DOMAIN T.chan[f] /\ Keeps(ch, T.chan[f][d]) /\ Keeps(S.chan[e][c], T.chan[e][c])
  BY <1>0, <1>1, <1>3 DEF ChanKeeps
<1>5. T.chan[f][d].peer = c /\ T.chan[e][c].localId = S.chan[e][c].localId /\ T.chan[f][d].dir = ch.dir /\ T.chan[f][d].localId = ch.localId
      /\ (ch.sentClose => T.chan[f][d].sentClose) /\ (ch.user = "none" => T.chan[f][d].user = "none") /\ (ch.user = "open" => T.chan[f][d].user = "open")
      /\ (S.chan[e][c].dir = "out" => T.chan[e][c].decided = S.chan[e][c].decided)
  BY ZenonT(60), <1>4 DEF Keeps
<1> QED BY ZenonT(60), <1>1, <1>3, <1>4, <1>5 DEF PacketIs

LEMMA ToldBefore ==
  ASSUME NEW S \in ViewType, NEW T \in ViewType, ChanKeeps(S, T), NEW e \in Ends, PeersOK(S, Peer(e)),
         NEW d \in DOMAIN S.chan[Peer(e)], S.chan[Peer(e)][d].peer # 0
  PROVE  Told(T, e, d) <=> Told(S, e, d)
<1> DEFINE f == Peer(e) c == S.chan[f][d].peer
<1>0. f \in Ends /\ Peer(f) = e
  BY PeerFacts
<1>1. IsPartner(S, f, d, e, c)
  BY <1>0, Partner
<1>2. c \in DOMAIN S.chan[e]
  BY <1>1 DEF IsPartner
<1>3. T.chan[f][d].peer = c /\ T.chan[e][c].peer = S.chan[e][c].peer
  BY <1>0, <1>2 DEF ChanKeeps, Keeps
<1> QED BY <1>3 DEF Told

\* A channel that a packet is for stays in the list.
ListStays(S, T, e) == T.runs[e] =>
  S.runs[e] /\ \A i \in DOMAIN T.in[e] :
    Carries(T.in[e][i]) /\ Listed(S, e, S.chan[Peer(e)][T.in[e][i].from].peer) => Listed(T, e, S.chan[Peer(e)][T.in[e][i].from].peer)

LEMMA KeepPackets ==
  ASSUME NEW S \in ViewType, NEW T \in ViewType, ChanKeeps(S, T), NEW e \in Ends, PeersOK(S, Peer(e)), ListStays(S, T, e),
         NEW k, Shift(S.in[e], T.in[e], k), k = 1 => S.in[e][1].kind # "confirm", PacketsOK(S, e)
  PROVE  PacketsOK(T, e)
<1>0. k \in {0, 1} /\ \A i \in DOMAIN T.in[e] : i \in Nat /\ i + k \in DOMAIN S.in[e] /\ T.in[e][i] = S.in[e][i + k]
  BY DEF Shift
<1>1. ASSUME NEW i \in DOMAIN T.in[e], Carries(T.in[e][i])
      PROVE  PacketIs(T, e, T.in[e][i]) /\ T.in[e][i].from \in DOMAIN S.chan[Peer(e)]
  <2>1. PacketIs(S, e, T.in[e][i])
    BY <1>0 DEF PacketsOK
  <2> QED BY SMTT(40), <1>1, <2>1, KeepPacket DEF ListStays
<1>2. ASSUME NEW i \in DOMAIN T.in[e] PROVE PacketIs(T, e, T.in[e][i])
  BY ZenonT(60), <1>1 DEF PacketIs
<1>3. ASSUME NEW i \in DOMAIN T.in[e], NEW j \in DOMAIN T.in[e], i < j PROVE Orders(T.in[e][i], T.in[e][j])
  <2>1. i + k < j + k
    BY <1>0, <1>3
  <2> QED BY <1>0, <2>1 DEF PacketsOK
<1>4. ASSUME NEW i \in DOMAIN T.in[e], Carries(T.in[e][i]), T.in[e][i].kind \notin Responses
      PROVE  \/ Told(T, e, T.in[e][i].from)
             \/ \E j \in DOMAIN T.in[e] : j < i /\ T.in[e][j].kind = "confirm" /\ T.in[e][j].from = T.in[e][i].from
  <2> DEFINE d == T.in[e][i].from
  <2>1. i + k \in DOMAIN S.in[e] /\ S.in[e][i + k] = T.in[e][i]
    BY <1>0
  <2>2. PacketIs(S, e, T.in[e][i])
    BY <2>1 DEF PacketsOK
  <2>3. d \in DOMAIN S.chan[Peer(e)] /\ S.chan[Peer(e)][d].peer # 0
    BY ZenonT(60), <1>4, <2>2 DEF PacketIs
  <2>4. CASE Told(S, e, d)
    BY <2>3, <2>4, ToldBefore
  <2>5. CASE ~Told(S, e, d)
    <3>1. PICK j \in DOMAIN S.in[e] : j < i + k /\ S.in[e][j].kind = "confirm" /\ S.in[e][j].from = d
      BY <1>4, <2>1, <2>5 DEF PacketsOK
    <3>2. DOMAIN S.in[e] = 1..Len(S.in[e]) /\ DOMAIN T.in[e] = 1..Len(T.in[e]) /\ Len(S.in[e]) \in Nat /\ Len(T.in[e]) \in Nat
      BY ViewItems
    <3>3. ~(k = 1 /\ j = 1)
      BY <3>1
    <3>4. j - k \in DOMAIN T.in[e] /\ j - k < i /\ (j - k) + k = j
      BY <1>0, <3>1, <3>2, <3>3
    <3>5. T.in[e][j - k] = S.in[e][j]
      BY <1>0, <3>4
    <3> QED BY <3>1, <3>4, <3>5
  <2> QED BY <2>4, <2>5
<1> QED BY <1>2, <1>3, <1>4 DEF PacketsOK

\* What a channel sends.
Sends(S, T, f, d, p) ==
  LET a == S.chan[f][d] b == T.chan[f][d] IN
  /\ Carries(p) /\ p.from = d /\ d \in DOMAIN S.chan[f] /\ a.peer # 0 /\ p.id = a.remoteId /\ ~Done(a)
  /\ p.kind = "data" => p.n <= MaxPacket
  /\ p.kind = "request" => p.n \in {0, 1}
  /\ p.kind = "close" => b.sentClose
  /\ p.kind = "failure" => b.user = "none"
  /\ p.kind = "confirm" => b.user = "open" /\ p.aux = a.localId /\ p.n = WindowSize
  /\ p.kind \in Responses => a.dir = "in" /\ a.user = "waiting"
  /\ p.kind \notin Responses => a.dir = "out" \/ a.user = "open"

LEMMA AddPackets ==
  ASSUME NEW S \in ViewType, NEW T \in ViewType, ChanKeeps(S, T), NEW e \in Ends, PeersOK(S, e), PeersOK(S, Peer(e)), ListStays(S, T, e),
         ListingOK(S, e), AcceptOK(S, e), T.list[e] = S.list[e], S.open[e],
         NEW p \in PacketType, T.in[e] = Append(S.in[e], p), PacketsOK(S, e), NEW d, Sends(S, T, Peer(e), d, p)
  PROVE  PacketsOK(T, e)
<1> DEFINE f == Peer(e) a == S.chan[f][d] b == T.chan[f][d] c == a.peer n == Len(S.in[e])
<1>0. f \in Ends /\ Peer(f) = e
  BY PeerFacts
<1>a. /\ n \in Nat /\ DOMAIN S.in[e] = 1..n /\ DOMAIN T.in[e] = 1..(n + 1) /\ T.in[e][n + 1] = p
      /\ \A i \in 1..n : T.in[e][i] = S.in[e][i]
  BY ViewFields
<1> HIDE DEF n
<1>b. /\ Carries(p) /\ p.from = d /\ d \in DOMAIN S.chan[f] /\ c # 0 /\ p.id = a.remoteId /\ ~Done(a)
      /\ p.kind = "data" => p.n <= MaxPacket
      /\ p.kind = "request" => p.n \in {0, 1}
      /\ p.kind = "close" => b.sentClose
      /\ p.kind = "failure" => b.user = "none"
      /\ p.kind = "confirm" => b.user = "open" /\ p.aux = a.localId /\ p.n = WindowSize
      /\ p.kind \in Responses => a.dir = "in" /\ a.user = "waiting"
      /\ p.kind \notin Responses => a.dir = "out" \/ a.user = "open"
  BY DEF Sends
<1>c. IsPartner(S, f, d, e, c)
  BY <1>0, <1>b, Partner
<1>d. c \in DOMAIN S.chan[e] /\ a.remoteId = S.chan[e][c].localId /\ (a.dir = "in" => S.chan[e][c].dir = "out")
      /\ (a.dir = "out" => S.chan[e][c].peer = d) /\ (a.dir = "in" /\ a.user = "waiting" => ~S.chan[e][c].decided)
  BY <1>c DEF IsPartner
<1>e. d \in DOMAIN T.chan[f] /\ Keeps(a, b) /\ Keeps(S.chan[e][c], T.chan[e][c])
  BY <1>0, <1>b, <1>d DEF ChanKeeps
<1>f. b.peer = c /\ b.dir = a.dir /\ b.localId = a.localId /\ T.chan[e][c].localId = S.chan[e][c].localId
      /\ T.chan[e][c].peer = S.chan[e][c].peer /\ (S.chan[e][c].dir = "out" => T.chan[e][c].decided = S.chan[e][c].decided)
  BY ZenonT(60), <1>e DEF Keeps
<1>g. S.runs[e] => Listed(S, e, c)
  BY <1>b, <1>d DEF ListingOK, Through
<1>h. T.runs[e] => Listed(T, e, c)
  <2>1. Listed(T, e, c) <=> Listed(S, e, c)
    BY <1>f DEF Listed
  <2> QED BY <1>g, <2>1 DEF ListStays
<1>1. ASSUME NEW i \in DOMAIN T.in[e] PROVE PacketIs(T, e, T.in[e][i])
  <2>1. CASE i = n + 1
    <3>1. T.in[e][i] = p
      BY <1>a, <2>1
    <3>2. p.id = T.chan[e][c].localId /\ (a.dir = "in" /\ a.user = "waiting" => ~T.chan[e][c].decided) /\ (p.kind = "confirm" => p.aux = b.localId)
      BY ZenonT(60), <1>b, <1>d, <1>f
    <3> HIDE DEF c
    <3>3. PacketIs(T, e, p)
      BY <1>b, <1>e, <1>f, <1>h, <3>2 DEF PacketIs
    <3> QED BY <3>1, <3>3
  <2>2. CASE i \in 1..n /\ Carries(T.in[e][i])
    <3>1. PacketIs(S, e, T.in[e][i])
      BY <1>a, <2>2 DEF PacketsOK
    <3> QED BY <2>2, <3>1, KeepPacket DEF ListStays
  <2>3. CASE ~Carries(T.in[e][i])
    BY ZenonT(60), <2>3 DEF PacketIs
  <2> QED BY <1>a, <2>1, <2>2, <2>3
<1>2. ASSUME NEW i \in DOMAIN T.in[e], NEW j \in DOMAIN T.in[e], i < j PROVE Orders(T.in[e][i], T.in[e][j])
  <2>1. CASE j \in 1..n
    <3>1. i \in 1..n
      BY <1>a, <1>2, <2>1
    <3> QED BY <1>a, <1>2, <2>1, <3>1 DEF PacketsOK
  <2>2. CASE j = n + 1
    <3> DEFINE q == S.in[e][i]
    <3>1. i \in 1..n /\ T.in[e][i] = q /\ T.in[e][j] = p
      BY <1>a, <1>2, <2>2
    <3>2. PacketIs(S, e, q)
      BY <1>a, <3>1 DEF PacketsOK
    <3> HIDE DEF q
    <3>3. ASSUME Carries(q), q.from = d
          PROVE  q.kind \notin {"close", "failure"} /\ (q.kind \in Responses => p.kind \notin Responses)
      <4>1. (q.kind = "close" => a.sentClose) /\ (q.kind = "failure" => a.user = "none" /\ a.dir = "in") /\ (q.kind = "confirm" => a.user = "open")
        BY <3>2, <3>3 DEF PacketIs, Responses
      <4>2. ~a.sentClose /\ ~(a.dir = "in" /\ a.user = "none")
        BY <1>b DEF Done
      <4> QED BY <1>b, <4>1, <4>2 DEF Responses
    <3> QED BY <1>b, <3>1, <3>3 DEF Orders
  <2> QED BY ZenonT(60), SMTT(40), <1>a, <2>1, <2>2
<1>3. ASSUME NEW i \in DOMAIN T.in[e], Carries(T.in[e][i]), T.in[e][i].kind \notin Responses
      PROVE  \/ Told(T, e, T.in[e][i].from)
             \/ \E j \in DOMAIN T.in[e] : j < i /\ T.in[e][j].kind = "confirm" /\ T.in[e][j].from = T.in[e][i].from
  <2>1. CASE i \in 1..n
    <3> DEFINE q == S.in[e][i]
    <3>1. T.in[e][i] = q /\ i \in DOMAIN S.in[e]
      BY <1>a, <2>1
    <3>2. PacketIs(S, e, q)
      BY <1>a, <3>1 DEF PacketsOK
    <3>3. q.from \in DOMAIN S.chan[f] /\ S.chan[f][q.from].peer # 0
      BY ZenonT(60), <1>3, <3>1, <3>2 DEF PacketIs
    <3>4. Told(T, e, q.from) <=> Told(S, e, q.from)
      BY <3>3, ToldBefore
    <3>5. \/ Told(S, e, q.from)
          \/ \E j \in DOMAIN S.in[e] : j < i /\ S.in[e][j].kind = "confirm" /\ S.in[e][j].from = q.from
      BY <1>3, <3>1 DEF PacketsOK
    <3>6. \A j \in DOMAIN S.in[e] : j \in DOMAIN T.in[e] /\ T.in[e][j] = S.in[e][j]
      BY <1>a
    <3> QED BY <3>1, <3>4, <3>5, <3>6
  <2>2. CASE i = n + 1
    <3>1. Told(T, e, d) <=> Told(S, e, d)
      BY <1>b, ToldBefore
    <3>2. CASE a.dir = "out"
      BY ZenonT(60), <1>a, <1>b, <1>d, <2>2, <3>1, <3>2 DEF Told
    <3>3. CASE a.dir = "in" /\ a.user = "open"
      <4>1. Told(S, e, d) \/ \E j \in DOMAIN S.in[e] : S.in[e][j].kind = "confirm" /\ S.in[e][j].from = d
        BY <1>b, <3>3 DEF AcceptOK
      <4>2. \A j \in DOMAIN S.in[e] : j \in DOMAIN T.in[e] /\ T.in[e][j] = S.in[e][j] /\ j < i
        BY <1>a, <2>2
      <4> QED BY <1>a, <1>b, <2>2, <3>1, <4>1, <4>2
    <3>4. a.dir \in {"in", "out"}
      BY <1>c DEF IsPartner
    <3> QED BY <1>3, <1>a, <1>b, <2>2, <3>2, <3>3, <3>4
  <2> QED BY ZenonT(60), SMTT(40), <1>a, <2>1, <2>2
<1> QED BY <1>1, <1>2, <1>3 DEF PacketsOK

\* A packet on the connection itself.
LEMMA AddGlobal ==
  ASSUME NEW S \in ViewType, NEW T \in ViewType, ChanKeeps(S, T), NEW e \in Ends, PeersOK(S, Peer(e)), ListStays(S, T, e),
         NEW p \in PacketType, T.in[e] = Append(S.in[e], p), p.kind \in {"open"} \cup Globals, PacketsOK(S, e)
  PROVE  PacketsOK(T, e)
<1> DEFINE n == Len(S.in[e])
<1>a. /\ n \in Nat /\ DOMAIN S.in[e] = 1..n /\ DOMAIN T.in[e] = 1..(n + 1) /\ T.in[e][n + 1] = p
      /\ \A i \in 1..n : T.in[e][i] = S.in[e][i]
  BY ViewFields
<1> HIDE DEF n
<1>b. ~Carries(p) /\ \A i \in DOMAIN T.in[e] : Carries(T.in[e][i]) => i \in 1..n
  BY <1>a DEF Carries
<1>1. ASSUME NEW i \in DOMAIN T.in[e], Carries(T.in[e][i])
      PROVE  PacketIs(T, e, T.in[e][i]) /\ i \in 1..n /\ T.in[e][i] = S.in[e][i]
             /\ T.in[e][i].from \in DOMAIN S.chan[Peer(e)] /\ S.chan[Peer(e)][T.in[e][i].from].peer # 0
  <2>1. i \in 1..n /\ PacketIs(S, e, T.in[e][i])
    BY <1>1, <1>a, <1>b DEF PacketsOK
  <2>2. S.chan[Peer(e)][T.in[e][i].from].peer # 0
    BY ZenonT(60), <1>1, <2>1 DEF PacketIs
  <2> QED BY ZenonT(60), <1>1, <1>a, <2>1, <2>2, KeepPacket DEF ListStays
<1>2. ASSUME NEW i \in DOMAIN T.in[e] PROVE PacketIs(T, e, T.in[e][i])
  BY ZenonT(60), <1>1 DEF PacketIs
<1>3. ASSUME NEW i \in DOMAIN T.in[e], NEW j \in DOMAIN T.in[e], i < j PROVE Orders(T.in[e][i], T.in[e][j])
  <2>1. CASE j \in 1..n
    <3>1. i \in 1..n
      BY <1>a, <1>3, <2>1
    <3> QED BY <1>a, <1>3, <2>1, <3>1 DEF PacketsOK
  <2>2. CASE j = n + 1
    BY <1>a, <1>b, <2>2 DEF Orders
  <2> QED BY ZenonT(60), SMTT(40), <1>a, <2>1, <2>2
<1>4. ASSUME NEW i \in DOMAIN T.in[e], Carries(T.in[e][i]), T.in[e][i].kind \notin Responses
      PROVE  \/ Told(T, e, T.in[e][i].from)
             \/ \E j \in DOMAIN T.in[e] : j < i /\ T.in[e][j].kind = "confirm" /\ T.in[e][j].from = T.in[e][i].from
  <2>1. Told(T, e, T.in[e][i].from) <=> Told(S, e, T.in[e][i].from)
    BY <1>1, <1>4, ToldBefore
  <2>2. \/ Told(S, e, T.in[e][i].from)
        \/ \E j \in DOMAIN S.in[e] : j < i /\ S.in[e][j].kind = "confirm" /\ S.in[e][j].from = T.in[e][i].from
    BY <1>1, <1>4, <1>a DEF PacketsOK
  <2>3. \A j \in DOMAIN S.in[e] : j \in DOMAIN T.in[e] /\ T.in[e][j] = S.in[e][j]
    BY <1>a
  <2> QED BY <2>1, <2>2, <2>3
<1> QED BY <1>2, <1>3, <1>4 DEF PacketsOK

ConfirmsStay(S, T, e) == T.open[e] =>
  S.open[e] /\ \A j \in DOMAIN S.in[e] : S.in[e][j].kind = "confirm" => \E i \in DOMAIN T.in[e] : T.in[e][i] = S.in[e][j]
NewlyOpen(S, T, e) == \A d \in DOMAIN S.chan[Peer(e)] :
  T.open[e] /\ S.chan[Peer(e)][d].dir = "in" /\ T.chan[Peer(e)][d].user = "open" /\ S.chan[Peer(e)][d].user # "open" =>
    \E j \in DOMAIN T.in[e] : T.in[e][j].kind = "confirm" /\ T.in[e][j].from = d

LEMMA KeepAccept ==
  ASSUME NEW S \in ViewType, NEW T \in ViewType, ChanKeeps(S, T), NEW e \in Ends, PeersOK(S, Peer(e)), LocalOK(S, Peer(e)),
         ConfirmsStay(S, T, e), NewlyOpen(S, T, e), AcceptOK(S, e)
  PROVE  AcceptOK(T, e)
<1> SUFFICES ASSUME NEW d \in DOMAIN T.chan[Peer(e)], T.chan[Peer(e)][d].dir = "in", T.chan[Peer(e)][d].user = "open", T.open[e]
             PROVE  Told(T, e, d) \/ \E j \in DOMAIN T.in[e] : T.in[e][j].kind = "confirm" /\ T.in[e][j].from = d
  BY DEF AcceptOK
<1>1. d \in DOMAIN S.chan[Peer(e)] /\ S.chan[Peer(e)][d].dir = "in"
  BY PeerFacts DEF ChanKeeps, Keeps
<1>2. S.chan[Peer(e)][d].peer # 0
  BY <1>1 DEF LocalOK, Local
<1>3. Told(T, e, d) <=> Told(S, e, d)
  BY <1>1, <1>2, ToldBefore
<1>4. CASE S.chan[Peer(e)][d].user = "open"
  BY <1>1, <1>3, <1>4 DEF AcceptOK, ConfirmsStay
<1>5. CASE S.chan[Peer(e)][d].user # "open"
  BY <1>1, <1>5 DEF NewlyOpen
<1> QED BY <1>4, <1>5

LEMMA KeepListing ==
  ASSUME NEW S \in ViewType, NEW T \in ViewType, ChanKeeps(S, T), NEW e \in Ends, PeersOK(S, e), LocalOK(S, e), ListingOK(S, e),
         T.runs[e] => S.runs[e] /\ \A c \in DOMAIN S.chan[e] : Listed(S, e, c) /\ ~Listed(T, e, c) => Through(S, e, c)
  PROVE  ListingOK(T, e)
<1> SUFFICES ASSUME T.runs[e], NEW c \in DOMAIN T.chan[e], ~Listed(T, e, c) PROVE Through(T, e, c)
  BY DEF ListingOK
<1> DEFINE f == Peer(e) x == S.chan[e][c].peer
<1>1. f \in Ends /\ c \in DOMAIN S.chan[e] /\ Keeps(S.chan[e][c], T.chan[e][c])
  BY PeerFacts DEF ChanKeeps
<1>2. Through(S, e, c)
  BY <1>1 DEF ListingOK
<1>3. T.chan[e][c].decided /\ T.chan[e][c].dir = S.chan[e][c].dir /\ T.chan[e][c].peer = x
  BY <1>1, <1>2 DEF Keeps, Through
<1>4. ASSUME S.chan[e][c].dir = "in" PROVE T.chan[f][x].peer = c
  <2>1. x # 0
    BY <1>1, <1>4 DEF LocalOK, Local
  <2>2. IsPartner(S, e, c, f, x)
    BY <1>1, <2>1, Partner
  <2>3. x \in DOMAIN S.chan[f]
    BY <2>2 DEF IsPartner
  <2>4. T.chan[f][x].peer = S.chan[f][x].peer
    BY <1>1, <2>3 DEF ChanKeeps, Keeps
  <2> QED BY <1>2, <1>4, <2>4 DEF Through
<1>5. ASSUME NEW d \in DOMAIN T.chan[f], T.chan[f][d].peer = c PROVE Done(T.chan[f][d])
  <2>1. d \in DOMAIN S.chan[f] /\ Keeps(S.chan[f][d], T.chan[f][d])
    BY <1>1 DEF ChanKeeps
  <2>2. S.chan[f][d].peer = c
    BY <1>5, <2>1 DEF Keeps
  <2>3. Done(S.chan[f][d])
    BY <1>2, <2>1, <2>2 DEF Through
  <2> QED BY <2>1, <2>3 DEF Done, Keeps
<1> QED BY <1>3, <1>4, <1>5 DEF Through

-----------------------------------------------------------------------------
(* Steps that count *)

Counted == {"data", "adjust", "request"}

LEMMA AmountNat ==
  ASSUME NEW s \in Seq(PacketType)
  PROVE  (\A k, x : Amount(s, k, x) \in Nat) /\ (\A x : Tells(s, x) \in Nat) /\ GTells(s) \in Nat
<1>1. Packet("eof", 0, 0, 0, 0) \in PacketType
  BY DEF Packet, PacketType, Kinds
<1>2. \A k, x : AmountFacts(s, Packet("eof", 0, 0, 0, 0), k, x)
  BY <1>1, AmountMoves
<1>3. \A k, x : Amount(s, k, x) \in Nat
  BY <1>2 DEF AmountFacts
<1> QED BY <1>1, <1>3, TellsMoves, GTellsMoves

LEMMA ChannelFields ==
  ASSUME NEW ch \in ChannelType
  PROVE  /\ ch.win \in Nat /\ ch.reserved \in Nat /\ ch.owed \in Nat /\ ch.myWindow \in Nat /\ ch.taken \in Nat /\ ch.lost \in Nat /\ ch.todo \in Nat
         /\ ch.pending[0] \in Nat /\ ch.pending[1] \in Nat /\ ch.peer \in Nat /\ ch.localId \in Nat
         /\ Len(ch.msg) \in Nat /\ Total(ch.reqs) \in Nat /\ Answers(ch) \in Nat /\ Waits(ch) \in {0, 1} /\ Waits(ch) \in Nat
<1>1. ch.msg \in Seq({"ack"} \cup Responses) /\ ch.reqs \in Seq({0, 1}) /\ ch.pending \in [{0, 1} -> Nat]
  BY DEF ChannelType
<1>2. ch.reqs \in Seq(Nat)
  <2>1. \A i \in 1..Len(ch.reqs) : ch.reqs[i] \in Nat
    BY <1>1
  <2> QED BY <1>1, <2>1
<1>3. Total(ch.reqs) \in Nat
  BY <1>2, TotalNat
<1>4. ch.win \in Nat /\ ch.reserved \in Nat /\ ch.owed \in Nat /\ ch.myWindow \in Nat /\ ch.taken \in Nat /\ ch.lost \in Nat /\ ch.todo \in Nat
      /\ ch.peer \in Nat /\ ch.localId \in Nat
  BY DEF ChannelType
<1>5. Answers(ch) \in Nat /\ Waits(ch) \in {0, 1} /\ Waits(ch) \in Nat
  BY <1>3 DEF Answers, Waits
<1> QED BY <1>1, <1>3, <1>4, <1>5

\* Nothing is added to what counts; nothing is lost while both ends have the connection.
BothOpen(S) == \A x \in Ends : S.open[x]
CalmIn(S, T) == \A x \in Ends :
  /\ T.open[x] => S.open[x]
  /\ \A k \in Counted : \A z : Amount(T.in[x], k, z) <= Amount(S.in[x], k, z) /\ (BothOpen(T) => Amount(T.in[x], k, z) = Amount(S.in[x], k, z))
  /\ \A z : Tells(T.in[x], z) <= Tells(S.in[x], z)
CalmChan(a, b) ==
  /\ b.win = a.win /\ b.reserved = a.reserved /\ b.owed = a.owed /\ b.myWindow = a.myWindow /\ b.taken = a.taken
  /\ b.msg = a.msg /\ b.reqs = a.reqs /\ b.waits = a.waits /\ b.user = a.user
Calm(S, T) == CalmIn(S, T) /\ \A x \in Ends : \A c \in DOMAIN S.chan[x] : CalmChan(S.chan[x][c], T.chan[x][c])

LEMMA CalmWindows ==
  ASSUME NEW S \in ViewType, NEW T \in ViewType, ChanKeeps(S, T), Calm(S, T), NEW e \in Ends, PeersOK(S, Peer(e)), WindowsOK(S, e)
  PROVE  WindowsOK(T, e)
<1> SUFFICES ASSUME NEW d \in DOMAIN T.chan[Peer(e)], T.chan[Peer(e)][d].peer # 0 PROVE WindowIs(T, e, d)
  BY DEF WindowsOK, WindowIs
<1> DEFINE f == Peer(e) c == S.chan[f][d].peer
<1>0. f \in Ends /\ Peer(f) = e
  BY PeerFacts
<1>1. d \in DOMAIN S.chan[f] /\ Keeps(S.chan[f][d], T.chan[f][d]) /\ CalmChan(S.chan[f][d], T.chan[f][d])
  BY <1>0 DEF ChanKeeps, Calm
<1>2. T.chan[f][d].peer = c /\ c # 0
  BY <1>1 DEF Keeps
<1>3. IsPartner(S, f, d, e, c)
  BY <1>0, <1>1, <1>2, Partner
<1>4. c \in DOMAIN S.chan[e]
  BY <1>3 DEF IsPartner
<1>5. Keeps(S.chan[e][c], T.chan[e][c]) /\ CalmChan(S.chan[e][c], T.chan[e][c])
  BY <1>4 DEF ChanKeeps, Calm
<1>6. S.chan[e][c] \in ChannelType /\ S.chan[f][d] \in ChannelType
  BY <1>0, <1>1, <1>4, ViewItems
<1> DEFINE A == Amount(S.in[e], "data", d) B == Amount(S.in[f], "adjust", c) C == Amount(S.in[e], "adjust", d)
           X == Amount(T.in[e], "data", d) Y == Amount(T.in[f], "adjust", c) Z == Amount(T.in[e], "adjust", d)
<1>7. A \in Nat /\ B \in Nat /\ C \in Nat /\ X \in Nat /\ Y \in Nat /\ Z \in Nat
  BY <1>0, AmountNat, ViewFields
<1>8. X <= A /\ Y <= B /\ Z <= C /\ (BothOpen(T) => X = A /\ Y = B)
  BY <1>0 DEF Calm, CalmIn, Counted
<1>9. Exact(T, e, d) => Exact(S, e, d) /\ BothOpen(T)
  <2>1. T.open[e] /\ T.open[f] => BothOpen(T) /\ S.open[e] /\ S.open[f]
    BY <1>0, PeerFacts DEF BothOpen, Calm, CalmIn
  <2> QED BY ZenonT(60), <1>1, <1>2, <1>5, <2>1 DEF Exact, Keeps
<1>10. WindowIs(S, e, d)
  BY <1>1 DEF WindowsOK
<1> DEFINE P == S.chan[f][d] Q == T.chan[f][d] M == S.chan[e][c] N == T.chan[e][c]
<1>11. P.win \in Nat /\ P.reserved \in Nat /\ M.owed \in Nat /\ M.myWindow \in Nat
  BY <1>6, ChannelFields
<1>12. Q.win = P.win /\ Q.reserved = P.reserved /\ N.owed = M.owed /\ N.myWindow = M.myWindow /\ Q.myWindow = P.myWindow /\ Q.taken = P.taken /\ Q.owed = P.owed
       /\ N.peer = M.peer
  BY ZenonT(60), <1>1, <1>5 DEF CalmChan, Keeps
<1>13. /\ P.win + P.reserved + M.owed + A + B <= M.myWindow
       /\ Exact(S, e, d) => P.win + P.reserved + M.owed + A + B = M.myWindow
       /\ M.peer = 0 => P.myWindow = WindowSize /\ P.taken = 0 /\ P.owed = 0 /\ C = 0
  BY <1>2, <1>10 DEF WindowIs, Credit
<1> HIDE DEF A, B, C, X, Y, Z, P, Q, M, N
<1>14. /\ Q.win + Q.reserved + N.owed + X + Y <= N.myWindow
       /\ Exact(T, e, d) => Q.win + Q.reserved + N.owed + X + Y = N.myWindow
       /\ N.peer = 0 => Q.myWindow = WindowSize /\ Q.taken = 0 /\ Q.owed = 0 /\ Z = 0
  BY <1>7, <1>8, <1>9, <1>11, <1>12, <1>13
<1> QED BY ZenonT(60), <1>2, <1>14 DEF WindowIs, Credit, X, Y, Z, Q, N

LEMMA CalmAnswers ==
  ASSUME NEW S \in ViewType, NEW T \in ViewType, ChanKeeps(S, T), Calm(S, T), NEW e \in Ends, PeersOK(S, Peer(e)), AnswersOK(S, e),
         T.runs[e] => S.runs[e]
  PROVE  AnswersOK(T, e)
<1> SUFFICES ASSUME NEW d \in DOMAIN T.chan[Peer(e)], T.chan[Peer(e)][d].peer # 0, T.runs[e],
                    ~T.chan[e][T.chan[Peer(e)][d].peer].closed
             PROVE  AnswerIs(T, e, d)
  BY DEF AnswersOK, AnswerIs
<1> DEFINE f == Peer(e) c == S.chan[f][d].peer
<1>0. f \in Ends /\ Peer(f) = e
  BY PeerFacts
<1>1. d \in DOMAIN S.chan[f] /\ Keeps(S.chan[f][d], T.chan[f][d]) /\ CalmChan(S.chan[f][d], T.chan[f][d])
  BY <1>0 DEF ChanKeeps, Calm
<1>2. T.chan[f][d].peer = c /\ c # 0
  BY <1>1 DEF Keeps
<1>3. IsPartner(S, f, d, e, c)
  BY <1>0, <1>1, <1>2, Partner
<1>4. c \in DOMAIN S.chan[e]
  BY <1>3 DEF IsPartner
<1>5. Keeps(S.chan[e][c], T.chan[e][c]) /\ CalmChan(S.chan[e][c], T.chan[e][c])
  BY <1>4 DEF ChanKeeps, Calm
<1>6. S.chan[e][c] \in ChannelType /\ S.chan[f][d] \in ChannelType
  BY <1>0, <1>1, <1>4, ViewItems
<1> DEFINE A == Tells(S.in[e], d) B == Amount(S.in[f], "request", c) X == Tells(T.in[e], d) Y == Amount(T.in[f], "request", c)
           P == S.chan[f][d] Q == T.chan[f][d] M == S.chan[e][c] N == T.chan[e][c]
<1>7. A \in Nat /\ B \in Nat /\ X \in Nat /\ Y \in Nat
  BY <1>0, AmountNat, ViewFields
<1>8. X <= A /\ Y <= B
  BY <1>0 DEF Calm, CalmIn, Counted
<1>9. Answers(P) \in Nat /\ Len(M.msg) \in Nat /\ Waits(M) \in Nat
  BY <1>6, ChannelFields
<1>10. Answers(Q) = Answers(P) /\ N.msg = M.msg /\ Waits(N) = Waits(M) /\ ~M.closed
  BY ZenonT(60), <1>1, <1>2, <1>5 DEF CalmChan, Keeps, Answers, Waits
<1>11. A + B + Answers(P) + Len(M.msg) <= Waits(M)
  <2>1. AnswerIs(S, e, d)
    BY <1>1 DEF AnswersOK
  <2> QED BY <1>2, <1>10, <2>1 DEF AnswerIs
<1> HIDE DEF A, B, X, Y, P, Q, M, N
<1>12. X + Y + Answers(Q) + Len(N.msg) <= Waits(N)
  BY ZenonT(60), SMTT(40), <1>7, <1>8, <1>9, <1>10, <1>11
<1> QED BY <1>2, <1>12 DEF AnswerIs, X, Y, Q, N

LEMMA CalmAsked ==
  ASSUME NEW S \in ViewType, NEW T \in ViewType, ChanKeeps(S, T), Calm(S, T), NEW e \in Ends, PeersOK(S, Peer(e)), AskedOK(S, e),
         T.runs[Peer(e)] => S.runs[Peer(e)]
  PROVE  AskedOK(T, e)
<1> SUFFICES ASSUME NEW d \in DOMAIN T.chan[Peer(e)], T.chan[Peer(e)][d].peer # 0, T.chan[e][T.chan[Peer(e)][d].peer].peer = 0, T.runs[Peer(e)],
                    ~T.chan[Peer(e)][d].closed
             PROVE  AskedIs(T, e, d)
  BY DEF AskedOK, AskedIs
<1> DEFINE f == Peer(e) c == S.chan[f][d].peer
<1>0. f \in Ends /\ Peer(f) = e
  BY PeerFacts
<1>1. d \in DOMAIN S.chan[f] /\ Keeps(S.chan[f][d], T.chan[f][d]) /\ CalmChan(S.chan[f][d], T.chan[f][d])
  BY <1>0 DEF ChanKeeps, Calm
<1>2. T.chan[f][d].peer = c /\ c # 0 /\ ~S.chan[f][d].closed
  BY <1>1 DEF Keeps
<1>3. IsPartner(S, f, d, e, c)
  BY <1>0, <1>1, <1>2, Partner
<1>4. c \in DOMAIN S.chan[e]
  BY <1>3 DEF IsPartner
<1>5. Keeps(S.chan[e][c], T.chan[e][c]) /\ CalmChan(S.chan[e][c], T.chan[e][c])
  BY <1>4 DEF ChanKeeps, Calm
<1>6. S.chan[e][c] \in ChannelType /\ S.chan[f][d] \in ChannelType
  BY <1>0, <1>1, <1>4, ViewItems
<1> DEFINE B == Amount(S.in[e], "request", d) Y == Amount(T.in[e], "request", d)
           P == S.chan[f][d] Q == T.chan[f][d] M == S.chan[e][c] N == T.chan[e][c]
<1>7. B \in Nat /\ Y \in Nat
  BY <1>0, AmountNat, ViewFields
<1>8. Y <= B
  BY <1>0 DEF Calm, CalmIn, Counted
<1>9. Answers(M) \in Nat /\ Len(P.msg) \in Nat /\ Waits(P) \in Nat
  BY <1>6, ChannelFields
<1>10. Answers(N) = Answers(M) /\ Q.msg = P.msg /\ Waits(Q) = Waits(P) /\ M.peer = 0
  BY ZenonT(60), <1>1, <1>2, <1>5 DEF CalmChan, Keeps, Answers, Waits
<1>11. B + Answers(M) + Len(P.msg) <= Waits(P)
  <2>1. AskedIs(S, e, d)
    BY <1>1 DEF AskedOK
  <2> QED BY <1>2, <1>10, <2>1 DEF AskedIs
<1> HIDE DEF B, Y, P, Q, M, N
<1>12. Y + Answers(N) + Len(Q.msg) <= Waits(Q)
  BY ZenonT(60), SMTT(40), <1>7, <1>8, <1>9, <1>10, <1>11
<1> QED BY <1>2, <1>12 DEF AskedIs, Y, Q, N

\* A step of channel c of e, which becomes b: it takes t from what comes to e and adds g to what
\* goes to the peer; either may be no packet.
Worth(p, k) == IF p.kind = k THEN p.n ELSE 0
Answering(p) == IF p.kind \in {"ack"} \cup Responses THEN 1 ELSE 0
Moves(S, T, e, c, t, g) ==
  /\ T.open = S.open /\ T.chan[Peer(e)] = S.chan[Peer(e)] /\ c \in DOMAIN S.chan[e]
  /\ \A x \in DOMAIN S.chan[e] : x # c => T.chan[e][x] = S.chan[e][x]
  /\ t = NoPacket \/ (t \in PacketType /\ t.from \in DOMAIN S.chan[Peer(e)] /\ S.chan[Peer(e)][t.from].peer = c /\ S.chan[e][c].peer = t.from)
  /\ g = NoPacket \/ (g \in PacketType /\ g.from = c)
  /\ \A k \in Counted : \A z :
       /\ Amount(S.in[e], k, z) = Weight(t, k, z) + Amount(T.in[e], k, z)
       /\ Amount(T.in[Peer(e)], k, z) = Amount(S.in[Peer(e)], k, z) + Weight(g, k, z)
  /\ \A z : /\ Tells(S.in[e], z) = Tell(t, z) + Tells(T.in[e], z)
            /\ Tells(T.in[Peer(e)], z) = Tells(S.in[Peer(e)], z) + Tell(g, z)

\* Credit passes from one place to another.
Passes(both, a, b, t, g) ==
  /\ b.win + b.reserved + Worth(g, "data") <= a.win + a.reserved + Worth(t, "adjust")
  /\ both /\ ~b.sentClose /\ ~b.winClosed =>
       b.win + b.reserved + Worth(g, "data") = a.win + a.reserved + Worth(t, "adjust")
  /\ b.owed + Worth(g, "adjust") + a.myWindow <= a.owed + Worth(t, "data") + b.myWindow
  /\ both /\ ~b.sentClose =>
       b.owed + Worth(g, "adjust") + a.myWindow = a.owed + Worth(t, "data") + b.myWindow
  /\ t = NoPacket /\ a.myWindow = WindowSize /\ a.taken = 0 /\ a.owed = 0 =>
       b.myWindow = WindowSize /\ b.taken = 0 /\ b.owed = 0 /\ Worth(g, "adjust") = 0
Balanced(S, T, e, c, t, g) == Passes(BothOpen(S), S.chan[e][c], T.chan[e][c], t, g)

\* So do the answers that are due.
Due(a, b, t, g) ==
  /\ ~a.closed => Worth(g, "request") + Len(b.msg) + Waits(a) <= Len(a.msg) + Answering(t) + Waits(b)
  /\ Answering(g) + Answers(b) <= Answers(a) + Worth(t, "request")
Awaited(S, T, e, c, t, g) == Due(S.chan[e][c], T.chan[e][c], t, g)

LEMMA PacketWorth ==
  ASSUME NEW p, p = NoPacket \/ p \in PacketType
  PROVE  /\ \A k \in Counted : Worth(p, k) \in Nat /\ Weight(p, k, p.from) = Worth(p, k) /\ \A z : z # p.from \/ p = NoPacket => Weight(p, k, z) = 0
         /\ \A k \in Counted : p = NoPacket => Worth(p, k) = 0
         /\ Answering(p) \in Nat /\ Tell(p, p.from) = Answering(p) /\ \A z : z # p.from \/ p = NoPacket => Tell(p, z) = 0
         /\ p = NoPacket => Answering(p) = 0
<1>1. p.n \in Nat /\ (p = NoPacket => p.kind \notin Counted \cup {"ack"} \cup Responses)
  BY DEF NoPacket, Packet, PacketType, Counted, Responses
<1> QED BY <1>1 DEF Worth, Weight, Answering, Tell

\* What e gives a writer of the peer.
LEMMA MoveWindowsTo ==
  ASSUME NEW S \in ViewType, NEW T \in ViewType, ChanKeeps(S, T), NEW e \in Ends, PeersOK(S, Peer(e)), WindowsOK(S, e),
         NEW c, NEW t, NEW g, Moves(S, T, e, c, t, g), Balanced(S, T, e, c, t, g)
  PROVE  WindowsOK(T, e)
<1> DEFINE f == Peer(e)
<1>0. f \in Ends /\ Peer(f) = e
  BY PeerFacts
<1>m. /\ T.open = S.open /\ T.chan[f] = S.chan[f] /\ c \in DOMAIN S.chan[e]
      /\ \A x \in DOMAIN S.chan[e] : x # c => T.chan[e][x] = S.chan[e][x]
      /\ t = NoPacket \/ (t \in PacketType /\ t.from \in DOMAIN S.chan[f] /\ S.chan[f][t.from].peer = c /\ S.chan[e][c].peer = t.from)
      /\ g = NoPacket \/ (g \in PacketType /\ g.from = c)
  BY DEF Moves
<1>s. /\ \A z : Amount(S.in[e], "data", z) = Weight(t, "data", z) + Amount(T.in[e], "data", z)
      /\ \A z : Amount(S.in[e], "adjust", z) = Weight(t, "adjust", z) + Amount(T.in[e], "adjust", z)
      /\ \A z : Amount(T.in[f], "adjust", z) = Amount(S.in[f], "adjust", z) + Weight(g, "adjust", z)
  BY DEF Moves, Counted
<1> SUFFICES ASSUME NEW d \in DOMAIN T.chan[f], T.chan[f][d].peer # 0 PROVE WindowIs(T, e, d)
  BY DEF WindowsOK, WindowIs
<1> DEFINE y == S.chan[f][d].peer
<1>1. d \in DOMAIN S.chan[f] /\ T.chan[f][d] = S.chan[f][d] /\ y # 0
  BY <1>m
<1>3. IsPartner(S, f, d, e, y)
  BY <1>0, <1>1, Partner
<1>4. y \in DOMAIN S.chan[e] /\ \A x \in DOMAIN S.chan[f] : S.chan[f][x].peer = y => x = d
  BY <1>3 DEF IsPartner
<1>5. y \in DOMAIN T.chan[e] /\ Keeps(S.chan[e][y], T.chan[e][y])
  BY <1>4 DEF ChanKeeps
<1>6. S.chan[e][y] \in ChannelType /\ S.chan[f][d] \in ChannelType /\ T.chan[e][y] \in ChannelType
  BY ZenonT(60), <1>0, <1>1, <1>4, <1>5, ViewItems
<1> DEFINE A == Amount(S.in[e], "data", d) B == Amount(S.in[f], "adjust", y) C == Amount(S.in[e], "adjust", d)
           X == Amount(T.in[e], "data", d) Y == Amount(T.in[f], "adjust", y) Z == Amount(T.in[e], "adjust", d)
<1>7. A \in Nat /\ B \in Nat /\ C \in Nat /\ X \in Nat /\ Y \in Nat /\ Z \in Nat
  BY <1>0, AmountNat, ViewFields
<1> DEFINE v == Weight(t, "data", d) u == Weight(t, "adjust", d) w == Weight(g, "adjust", y)
<1>8. A = v + X /\ C = u + Z /\ Y = B + w
  BY <1>s
<1>w. v \in Nat /\ u \in Nat /\ w \in Nat
  BY <1>m DEF Weight, NoPacket, Packet, PacketType
<1> DEFINE P == S.chan[f][d] M == S.chan[e][y] N == T.chan[e][y]
<1>9. Exact(T, e, d) => Exact(S, e, d) /\ BothOpen(S) /\ ~N.sentClose
  <2>1. S.open[e] /\ S.open[f] => BothOpen(S)
    BY <1>0, PeerFacts DEF BothOpen
  <2>2. (M.closed => N.closed) /\ (M.sentClose => N.sentClose)
    BY ZenonT(60), <1>5 DEF Keeps
  <2> QED BY ZenonT(60), <1>m, <1>1, <2>1, <2>2 DEF Exact
<1>10. WindowIs(S, e, d)
  BY <1>1 DEF WindowsOK
<1>11. P.win \in Nat /\ P.reserved \in Nat /\ M.owed \in Nat /\ M.myWindow \in Nat /\ N.owed \in Nat /\ N.myWindow \in Nat
  BY <1>6, ChannelFields
<1>12. N.peer = M.peer
  BY ZenonT(60), <1>5 DEF Keeps
<1>13. /\ P.win + P.reserved + M.owed + A + B <= M.myWindow
       /\ Exact(S, e, d) => P.win + P.reserved + M.owed + A + B = M.myWindow
       /\ M.peer = 0 => P.myWindow = WindowSize /\ P.taken = 0 /\ P.owed = 0 /\ C = 0
  BY <1>1, <1>10 DEF WindowIs, Credit
<1>14. /\ N.owed + w + M.myWindow <= M.owed + v + N.myWindow
       /\ BothOpen(S) /\ ~N.sentClose => N.owed + w + M.myWindow = M.owed + v + N.myWindow
  <2>1. CASE y = c
    <3>1. v = Worth(t, "data")
      BY <1>1, <1>4, <1>m, <2>1, PacketWorth DEF Counted
    <3>2. w = Worth(g, "adjust")
      BY <1>m, <2>1, PacketWorth DEF Counted
    <3> QED BY <2>1, <3>1, <3>2 DEF Balanced, Passes
  <2>2. CASE y # c
    <3>1. v = 0
      BY <1>1, <1>m, <2>2, PacketWorth DEF Counted
    <3>2. w = 0
      BY <1>m, <2>2, PacketWorth DEF Counted
    <3>3. N = M
      BY <1>4, <1>m, <2>2
    <3> HIDE DEF N, M
    <3> QED BY <1>11, <3>1, <3>2, <3>3
  <2> QED BY ZenonT(60), <2>1, <2>2
<1> HIDE DEF A, B, C, X, Y, Z, P, M, N, u, v, w
<1>15. /\ P.win + P.reserved + N.owed + X + Y <= N.myWindow
       /\ Exact(T, e, d) => P.win + P.reserved + N.owed + X + Y = N.myWindow
       /\ N.peer = 0 => P.myWindow = WindowSize /\ P.taken = 0 /\ P.owed = 0 /\ Z = 0
  <2>1. P.win + P.reserved + N.owed + X + Y <= N.myWindow
    BY <1>7, <1>8, <1>w, <1>11, <1>13, <1>14
  <2>2. ASSUME Exact(T, e, d) PROVE P.win + P.reserved + N.owed + X + Y = N.myWindow
    <3>1. P.win + P.reserved + M.owed + A + B = M.myWindow /\ N.owed + w + M.myWindow = M.owed + v + N.myWindow
      BY <1>9, <1>13, <1>14, <2>2
    <3> DEFINE a1 == P.win a2 == P.reserved m == M.owed n == N.owed i == M.myWindow j == N.myWindow
    <3>2. a1 \in Nat /\ a2 \in Nat /\ m \in Nat /\ n \in Nat /\ i \in Nat /\ j \in Nat
      BY <1>11
    <3>3. a1 + a2 + m + A + B = i /\ n + w + i = m + v + j
      BY <3>1
    <3> HIDE DEF a1, a2, m, n, i, j
    <3>4. a1 + a2 + n + X + Y = j
      BY <1>7, <1>8, <1>w, <3>2, <3>3
    <3> QED BY <3>4 DEF a1, a2, n, j
  <2>3. C = 0 => Z = 0
    BY <1>7, <1>8, <1>w
  <2> QED BY <1>12, <1>13, <2>1, <2>2, <2>3
<1> QED BY ZenonT(60), <1>1, <1>15 DEF WindowIs, Credit, X, Y, Z, P, N

\* What the peer gives the writers of e.
LEMMA MoveWindowsFrom ==
  ASSUME NEW S \in ViewType, NEW T \in ViewType, ChanKeeps(S, T), NEW e \in Ends, PeersOK(S, e), WindowsOK(S, Peer(e)),
         NEW c, NEW t, NEW g, Moves(S, T, e, c, t, g), Balanced(S, T, e, c, t, g)
  PROVE  WindowsOK(T, Peer(e))
<1> DEFINE f == Peer(e)
<1>0. f \in Ends /\ Peer(f) = e
  BY PeerFacts
<1>m. /\ T.open = S.open /\ T.chan[f] = S.chan[f] /\ c \in DOMAIN S.chan[e]
      /\ \A x \in DOMAIN S.chan[e] : x # c => T.chan[e][x] = S.chan[e][x]
      /\ t = NoPacket \/ (t \in PacketType /\ t.from \in DOMAIN S.chan[f] /\ S.chan[f][t.from].peer = c /\ S.chan[e][c].peer = t.from)
      /\ g = NoPacket \/ (g \in PacketType /\ g.from = c)
  BY DEF Moves
<1>s. /\ \A z : Amount(T.in[f], "data", z) = Amount(S.in[f], "data", z) + Weight(g, "data", z)
      /\ \A z : Amount(S.in[e], "adjust", z) = Weight(t, "adjust", z) + Amount(T.in[e], "adjust", z)
      /\ \A z : Amount(T.in[f], "adjust", z) = Amount(S.in[f], "adjust", z) + Weight(g, "adjust", z)
  BY DEF Moves, Counted
<1> SUFFICES ASSUME NEW d \in DOMAIN T.chan[e], T.chan[e][d].peer # 0 PROVE WindowIs(T, f, d)
  BY <1>0 DEF WindowsOK, WindowIs
<1> DEFINE y == S.chan[e][d].peer
<1>1. d \in DOMAIN S.chan[e] /\ Keeps(S.chan[e][d], T.chan[e][d])
  BY DEF ChanKeeps
<1>2. T.chan[e][d].peer = y /\ y # 0
  BY <1>1 DEF Keeps
<1>3. IsPartner(S, e, d, f, y)
  BY <1>0, <1>1, <1>2, Partner
<1>4. y \in DOMAIN S.chan[f] /\ T.chan[f][y] = S.chan[f][y] /\ \A x \in DOMAIN S.chan[e] : S.chan[e][x].peer = y => x = d
  BY <1>m, <1>3 DEF IsPartner
<1>6. S.chan[f][y] \in ChannelType /\ S.chan[e][d] \in ChannelType /\ T.chan[e][d] \in ChannelType
  BY <1>0, <1>1, <1>4, ViewItems
<1> DEFINE A == Amount(S.in[f], "data", d) B == Amount(S.in[e], "adjust", y) C == Amount(S.in[f], "adjust", d)
           X == Amount(T.in[f], "data", d) Y == Amount(T.in[e], "adjust", y) Z == Amount(T.in[f], "adjust", d)
<1>7. A \in Nat /\ B \in Nat /\ C \in Nat /\ X \in Nat /\ Y \in Nat /\ Z \in Nat
  BY <1>0, AmountNat, ViewFields
<1> DEFINE v == Weight(g, "data", d) u == Weight(g, "adjust", d) w == Weight(t, "adjust", y)
<1>8. X = A + v /\ Z = C + u /\ B = w + Y
  BY <1>s
<1>w. v \in Nat /\ u \in Nat /\ w \in Nat
  BY <1>m DEF Weight, NoPacket, Packet, PacketType
<1> DEFINE P == S.chan[e][d] Q == T.chan[e][d] M == S.chan[f][y]
<1>9. Exact(T, f, d) => Exact(S, f, d) /\ BothOpen(S) /\ ~Q.sentClose /\ ~Q.winClosed
  <2>1. S.open[e] /\ S.open[f] => BothOpen(S)
    BY <1>0, PeerFacts DEF BothOpen
  <2>2. (P.sentClose => Q.sentClose) /\ (P.winClosed => Q.winClosed)
    BY <1>1 DEF Keeps
  <2> QED BY <1>0, <1>m, <1>2, <1>4, <2>1, <2>2 DEF Exact
<1>10. WindowIs(S, f, d)
  BY <1>0, <1>1 DEF WindowsOK
<1>11. P.win \in Nat /\ P.reserved \in Nat /\ Q.win \in Nat /\ Q.reserved \in Nat /\ M.owed \in Nat /\ M.myWindow \in Nat
  BY <1>6, ChannelFields
<1>13. /\ P.win + P.reserved + M.owed + A + B <= M.myWindow
       /\ Exact(S, f, d) => P.win + P.reserved + M.owed + A + B = M.myWindow
       /\ M.peer = 0 => P.myWindow = WindowSize /\ P.taken = 0 /\ P.owed = 0 /\ C = 0
  BY <1>0, <1>2, <1>10 DEF WindowIs, Credit
<1>14. /\ Q.win + Q.reserved + v <= P.win + P.reserved + w
       /\ BothOpen(S) /\ ~Q.sentClose /\ ~Q.winClosed => Q.win + Q.reserved + v = P.win + P.reserved + w
       /\ M.peer = 0 /\ P.myWindow = WindowSize /\ P.taken = 0 /\ P.owed = 0 => Q.myWindow = WindowSize /\ Q.taken = 0 /\ Q.owed = 0 /\ u = 0
  <2>1. CASE d = c
    <3>1. v = Worth(g, "data") /\ u = Worth(g, "adjust")
      BY <1>m, <2>1, PacketWorth DEF Counted
    <3>2. w = Worth(t, "adjust")
      BY <1>m, <2>1, PacketWorth DEF Counted
    <3>3. M.peer = 0 => t = NoPacket
      <4>1. c # 0
        BY <1>1, <2>1, ViewItems
      <4> QED BY <1>m, <2>1, <4>1
    <3> QED BY <2>1, <3>1, <3>2, <3>3 DEF Balanced, Passes
  <2>2. CASE d # c
    <3>1. v = 0 /\ u = 0
      BY <1>m, <2>2, PacketWorth DEF Counted
    <3>2. w = 0
      BY <1>1, <1>4, <1>m, <2>2, PacketWorth DEF Counted
    <3>3. Q = P
      BY <1>1, <1>m, <2>2
    <3> HIDE DEF Q, P
    <3> QED BY <1>11, <3>1, <3>2, <3>3
  <2> QED BY <2>1, <2>2
<1> HIDE DEF A, B, C, X, Y, Z, P, Q, M, u, v, w
<1>15. /\ Q.win + Q.reserved + M.owed + X + Y <= M.myWindow
       /\ Exact(T, f, d) => Q.win + Q.reserved + M.owed + X + Y = M.myWindow
       /\ M.peer = 0 => Q.myWindow = WindowSize /\ Q.taken = 0 /\ Q.owed = 0 /\ Z = 0
  <2> DEFINE a1 == P.win a2 == P.reserved b1 == Q.win b2 == Q.reserved m == M.owed i == M.myWindow
  <2>a. a1 \in Nat /\ a2 \in Nat /\ m \in Nat /\ b1 \in Nat /\ b2 \in Nat /\ i \in Nat
    BY <1>11
  <2>b. a1 + a2 + m + A + B <= i /\ b1 + b2 + v <= a1 + a2 + w
    BY <1>13, <1>14
  <2>c. Exact(T, f, d) => a1 + a2 + m + A + B = i /\ b1 + b2 + v = a1 + a2 + w
    BY <1>9, <1>13, <1>14
  <2> HIDE DEF a1, a2, m, b1, b2, i
  <2>1. b1 + b2 + m + X + Y <= i
    BY <1>7, <1>8, <1>w, <2>a, <2>b
  <2>2. ASSUME Exact(T, f, d) PROVE b1 + b2 + m + X + Y = i
    BY <1>7, <1>8, <1>w, <2>a, <2>c, <2>2
  <2>3. M.peer = 0 => Q.myWindow = WindowSize /\ Q.taken = 0 /\ Q.owed = 0 /\ Z = 0
    BY <1>7, <1>8, <1>w, <1>13, <1>14
  <2> QED BY <2>1, <2>2, <2>3 DEF b1, b2, m, i
<1> QED BY <1>0, <1>2, <1>4, <1>15 DEF WindowIs, Credit, X, Y, Z, Q, M

\* Answers on their way to e.
LEMMA MoveAnswersTo ==
  ASSUME NEW S \in ViewType, NEW T \in ViewType, ChanKeeps(S, T), NEW e \in Ends, PeersOK(S, Peer(e)), AnswersOK(S, e), T.runs[e] => S.runs[e],
         NEW c, NEW t, NEW g, Moves(S, T, e, c, t, g), Awaited(S, T, e, c, t, g)
  PROVE  AnswersOK(T, e)
<1> DEFINE f == Peer(e)
<1>0. f \in Ends /\ Peer(f) = e
  BY PeerFacts
<1>m. /\ T.chan[f] = S.chan[f] /\ c \in DOMAIN S.chan[e]
      /\ \A x \in DOMAIN S.chan[e] : x # c => T.chan[e][x] = S.chan[e][x]
      /\ t = NoPacket \/ (t \in PacketType /\ t.from \in DOMAIN S.chan[f] /\ S.chan[f][t.from].peer = c /\ S.chan[e][c].peer = t.from)
      /\ g = NoPacket \/ (g \in PacketType /\ g.from = c)
  BY DEF Moves
<1>s. /\ \A z : Amount(T.in[f], "request", z) = Amount(S.in[f], "request", z) + Weight(g, "request", z)
      /\ \A z : Tells(S.in[e], z) = Tell(t, z) + Tells(T.in[e], z)
  BY DEF Moves, Counted
<1> SUFFICES ASSUME NEW d \in DOMAIN T.chan[f], T.chan[f][d].peer # 0, T.runs[e], ~T.chan[e][T.chan[f][d].peer].closed
             PROVE  AnswerIs(T, e, d)
  BY DEF AnswersOK, AnswerIs
<1> DEFINE y == S.chan[f][d].peer
<1>1. d \in DOMAIN S.chan[f] /\ T.chan[f][d] = S.chan[f][d] /\ y # 0
  BY <1>m
<1>3. IsPartner(S, f, d, e, y)
  BY <1>0, <1>1, Partner
<1>4. y \in DOMAIN S.chan[e] /\ \A x \in DOMAIN S.chan[f] : S.chan[f][x].peer = y => x = d
  BY <1>3 DEF IsPartner
<1>5. y \in DOMAIN T.chan[e] /\ Keeps(S.chan[e][y], T.chan[e][y])
  BY <1>4 DEF ChanKeeps
<1>6. S.chan[e][y] \in ChannelType /\ S.chan[f][d] \in ChannelType /\ T.chan[e][y] \in ChannelType
  BY ZenonT(60), <1>0, <1>1, <1>4, <1>5, ViewItems
<1> DEFINE A == Tells(S.in[e], d) B == Amount(S.in[f], "request", y) X == Tells(T.in[e], d) Y == Amount(T.in[f], "request", y)
           v == Tell(t, d) w == Weight(g, "request", y) P == S.chan[f][d] M == S.chan[e][y] N == T.chan[e][y]
<1>7. A \in Nat /\ B \in Nat /\ X \in Nat /\ Y \in Nat
  BY <1>0, AmountNat, ViewFields
<1>8. A = v + X /\ Y = B + w
  BY <1>s
<1>w. v \in Nat /\ w \in Nat
  BY <1>m DEF Weight, Tell, NoPacket, Packet, PacketType
<1>9. ~M.closed
  BY ZenonT(60), <1>1, <1>5 DEF Keeps
<1>10. A + B + Answers(P) + Len(M.msg) <= Waits(M)
  <2>1. AnswerIs(S, e, d)
    BY <1>1 DEF AnswersOK
  <2> QED BY <1>1, <1>9, <2>1 DEF AnswerIs
<1>11. Answers(P) \in Nat /\ Len(M.msg) \in Nat /\ Len(N.msg) \in Nat /\ Waits(M) \in Nat /\ Waits(N) \in Nat
  BY <1>6, ChannelFields
<1>12. w + Len(N.msg) + Waits(M) <= Len(M.msg) + v + Waits(N)
  <2>1. CASE y = c
    <3>1. v = Answering(t)
      BY <1>1, <1>4, <1>m, <2>1, PacketWorth
    <3>2. w = Worth(g, "request")
      BY <1>m, <2>1, PacketWorth DEF Counted
    <3> QED BY <1>9, <2>1, <3>1, <3>2 DEF Awaited, Due
  <2>2. CASE y # c
    <3>1. v = 0
      BY <1>1, <1>m, <2>2, PacketWorth
    <3>2. w = 0
      BY <1>m, <2>2, PacketWorth DEF Counted
    <3>3. N = M
      BY <1>4, <1>m, <2>2
    <3> HIDE DEF N, M
    <3> QED BY <1>11, <3>1, <3>2, <3>3
  <2> QED BY <2>1, <2>2
<1> HIDE DEF A, B, X, Y, P, M, N, v, w
<1>13. X + Y + Answers(P) + Len(N.msg) <= Waits(N)
  <2> DEFINE r == Answers(P) m == Len(M.msg) n == Len(N.msg) i == Waits(M) j == Waits(N)
  <2>1. r \in Nat /\ m \in Nat /\ n \in Nat /\ i \in Nat /\ j \in Nat /\ A + B + r + m <= i /\ w + n + i <= m + v + j
    BY <1>10, <1>11, <1>12
  <2> HIDE DEF r, m, n, i, j
  <2>2. X + Y + r + n <= j
    BY <1>7, <1>8, <1>w, <2>1
  <2> QED BY <2>2 DEF r, n, j
<1> QED BY <1>1, <1>13 DEF AnswerIs, X, Y, P, N

\* Answers on their way from e.
LEMMA MoveAnswersFrom ==
  ASSUME NEW S \in ViewType, NEW T \in ViewType, ChanKeeps(S, T), NEW e \in Ends, PeersOK(S, e), AnswersOK(S, Peer(e)),
         T.runs[Peer(e)] => S.runs[Peer(e)],
         NEW c, NEW t, NEW g, Moves(S, T, e, c, t, g), Awaited(S, T, e, c, t, g)
  PROVE  AnswersOK(T, Peer(e))
<1> DEFINE f == Peer(e)
<1>0. f \in Ends /\ Peer(f) = e
  BY PeerFacts
<1>m. /\ T.chan[f] = S.chan[f] /\ c \in DOMAIN S.chan[e]
      /\ \A x \in DOMAIN S.chan[e] : x # c => T.chan[e][x] = S.chan[e][x]
      /\ t = NoPacket \/ (t \in PacketType /\ t.from \in DOMAIN S.chan[f] /\ S.chan[f][t.from].peer = c /\ S.chan[e][c].peer = t.from)
      /\ g = NoPacket \/ (g \in PacketType /\ g.from = c)
  BY DEF Moves
<1>s. /\ \A z : Amount(S.in[e], "request", z) = Weight(t, "request", z) + Amount(T.in[e], "request", z)
      /\ \A z : Tells(T.in[f], z) = Tells(S.in[f], z) + Tell(g, z)
  BY DEF Moves, Counted
<1> SUFFICES ASSUME NEW d \in DOMAIN T.chan[e], T.chan[e][d].peer # 0, T.runs[f], ~T.chan[f][T.chan[e][d].peer].closed
             PROVE  AnswerIs(T, f, d)
  BY <1>0 DEF AnswersOK, AnswerIs
<1> DEFINE y == S.chan[e][d].peer
<1>1. d \in DOMAIN S.chan[e] /\ Keeps(S.chan[e][d], T.chan[e][d])
  BY DEF ChanKeeps
<1>2. T.chan[e][d].peer = y /\ y # 0
  BY <1>1 DEF Keeps
<1>3. IsPartner(S, e, d, f, y)
  BY <1>0, <1>1, <1>2, Partner
<1>4. y \in DOMAIN S.chan[f] /\ T.chan[f][y] = S.chan[f][y] /\ \A x \in DOMAIN S.chan[e] : S.chan[e][x].peer = y => x = d
  BY <1>m, <1>3 DEF IsPartner
<1>6. S.chan[f][y] \in ChannelType /\ S.chan[e][d] \in ChannelType /\ T.chan[e][d] \in ChannelType
  BY <1>0, <1>1, <1>4, ViewItems
<1> DEFINE A == Tells(S.in[f], d) B == Amount(S.in[e], "request", y) X == Tells(T.in[f], d) Y == Amount(T.in[e], "request", y)
           v == Tell(g, d) w == Weight(t, "request", y) P == S.chan[e][d] Q == T.chan[e][d] M == S.chan[f][y]
<1>7. A \in Nat /\ B \in Nat /\ X \in Nat /\ Y \in Nat
  BY <1>0, AmountNat, ViewFields
<1>8. X = A + v /\ B = w + Y
  BY <1>s
<1>w. v \in Nat /\ w \in Nat
  BY <1>m DEF Weight, Tell, NoPacket, Packet, PacketType
<1>9. ~M.closed
  BY <1>2, <1>4
<1>10. A + B + Answers(P) + Len(M.msg) <= Waits(M)
  <2>1. AnswerIs(S, f, d)
    BY <1>0, <1>1 DEF AnswersOK
  <2> QED BY <1>0, <1>2, <1>9, <2>1 DEF AnswerIs
<1>11. Answers(P) \in Nat /\ Answers(Q) \in Nat /\ Len(M.msg) \in Nat /\ Waits(M) \in Nat
  BY <1>6, ChannelFields
<1>12. v + Answers(Q) <= Answers(P) + w
  <2>1. CASE d = c
    <3>1. v = Answering(g)
      BY <1>m, <2>1, PacketWorth
    <3>2. w = Worth(t, "request")
      BY <1>m, <2>1, PacketWorth DEF Counted
    <3> QED BY <2>1, <3>1, <3>2 DEF Awaited, Due
  <2>2. CASE d # c
    <3>1. v = 0
      BY <1>m, <2>2, PacketWorth
    <3>2. w = 0
      BY <1>1, <1>4, <1>m, <2>2, PacketWorth DEF Counted
    <3>3. Q = P
      BY <1>1, <1>m, <2>2
    <3> HIDE DEF Q, P
    <3> QED BY <1>11, <3>1, <3>2, <3>3
  <2> QED BY <2>1, <2>2
<1> HIDE DEF A, B, X, Y, P, Q, M, v, w
<1>13. X + Y + Answers(Q) + Len(M.msg) <= Waits(M)
  <2> DEFINE r == Answers(P) q == Answers(Q) m == Len(M.msg) i == Waits(M)
  <2>1. r \in Nat /\ q \in Nat /\ m \in Nat /\ i \in Nat /\ A + B + r + m <= i /\ v + q <= r + w
    BY <1>10, <1>11, <1>12
  <2> HIDE DEF r, q, m, i
  <2>2. X + Y + q + m <= i
    BY <1>7, <1>8, <1>w, <2>1
  <2> QED BY <2>2 DEF q, m, i
<1> QED BY <1>0, <1>2, <1>4, <1>13 DEF AnswerIs, X, Y, Q, M

\* A step of a channel that e was not told of takes nothing.
LEMMA MoveAskedTo ==
  ASSUME NEW S \in ViewType, NEW T \in ViewType, ChanKeeps(S, T), NEW e \in Ends, PeersOK(S, Peer(e)), AskedOK(S, e), T.runs = S.runs,
         NEW c, NEW t, NEW g, Moves(S, T, e, c, t, g), Awaited(S, T, e, c, t, g)
  PROVE  AskedOK(T, e)
<1> DEFINE f == Peer(e)
<1>0. f \in Ends /\ Peer(f) = e
  BY PeerFacts
<1>m. /\ T.chan[f] = S.chan[f] /\ c \in DOMAIN S.chan[e]
      /\ \A x \in DOMAIN S.chan[e] : x # c => T.chan[e][x] = S.chan[e][x]
      /\ t = NoPacket \/ (t \in PacketType /\ t.from \in DOMAIN S.chan[f] /\ S.chan[f][t.from].peer = c /\ S.chan[e][c].peer = t.from)
      /\ g = NoPacket \/ (g \in PacketType /\ g.from = c)
  BY DEF Moves
<1>s. \A z : Amount(S.in[e], "request", z) = Weight(t, "request", z) + Amount(T.in[e], "request", z)
  BY DEF Moves, Counted
<1> SUFFICES ASSUME NEW d \in DOMAIN T.chan[f], T.chan[f][d].peer # 0, T.chan[e][T.chan[f][d].peer].peer = 0, T.runs[f], ~T.chan[f][d].closed
             PROVE  AskedIs(T, e, d)
  BY DEF AskedOK, AskedIs
<1> DEFINE y == S.chan[f][d].peer
<1>1. d \in DOMAIN S.chan[f] /\ T.chan[f][d] = S.chan[f][d] /\ y # 0
  BY <1>m
<1>3. IsPartner(S, f, d, e, y)
  BY <1>0, <1>1, Partner
<1>4. y \in DOMAIN S.chan[e]
  BY <1>3 DEF IsPartner
<1>5. y \in DOMAIN T.chan[e] /\ Keeps(S.chan[e][y], T.chan[e][y])
  BY <1>4 DEF ChanKeeps
<1>6. S.chan[e][y] \in ChannelType /\ S.chan[f][d] \in ChannelType /\ T.chan[e][y] \in ChannelType
  BY ZenonT(60), <1>0, <1>1, <1>4, <1>5, ViewItems
<1> DEFINE B == Amount(S.in[e], "request", d) Y == Amount(T.in[e], "request", d)
           w == Weight(t, "request", d) P == S.chan[f][d] M == S.chan[e][y] N == T.chan[e][y]
<1>7. B \in Nat /\ Y \in Nat
  BY <1>0, AmountNat, ViewFields
<1>8. B = w + Y
  BY <1>s
<1>w. w \in Nat
  BY <1>m DEF Weight, NoPacket, Packet, PacketType
<1>9. M.peer = 0
  BY ZenonT(60), <1>1, <1>5 DEF Keeps
<1>10. B + Answers(M) + Len(P.msg) <= Waits(P)
  <2>1. AskedIs(S, e, d)
    BY <1>1 DEF AskedOK
  <2> QED BY <1>1, <1>9, <2>1 DEF AskedIs
<1>11. Answers(M) \in Nat /\ Answers(N) \in Nat /\ Len(P.msg) \in Nat /\ Waits(P) \in Nat
  BY <1>6, ChannelFields
<1>12. Answers(N) <= Answers(M)
  <2>1. CASE y = c
    <3>1. t = NoPacket
      <4>1. \A x \in DOMAIN S.chan[f] : x # 0
        BY <1>0, ViewItems
      <4> QED BY <1>9, <1>m, <2>1, <4>1
    <3>2. Worth(t, "request") = 0 /\ Answering(g) \in Nat
      BY <1>m, <3>1, PacketWorth DEF Counted
    <3>3. Answering(g) + Answers(N) <= Answers(M) + Worth(t, "request")
      BY <2>1 DEF Awaited, Due
    <3> HIDE DEF N, M
    <3> QED BY <1>11, <3>2, <3>3
  <2>2. CASE y # c
    <3>3. N = M
      BY <1>4, <1>m, <2>2
    <3> HIDE DEF N, M
    <3> QED BY <1>11, <3>3
  <2> QED BY <2>1, <2>2
<1> HIDE DEF B, Y, P, M, N, w
<1>13. Y + Answers(N) + Len(P.msg) <= Waits(P)
  <2> DEFINE r == Answers(M) q == Answers(N) m == Len(P.msg) i == Waits(P)
  <2>1. r \in Nat /\ q \in Nat /\ m \in Nat /\ i \in Nat /\ B + r + m <= i /\ q <= r
    BY <1>10, <1>11, <1>12
  <2> HIDE DEF r, m, q, i
  <2>2. Y + q + m <= i
    BY <1>7, <1>8, <1>w, <2>1
  <2> QED BY <2>2 DEF q, m, i
<1> QED BY <1>1, <1>13 DEF AskedIs, Y, P, N

LEMMA MoveAskedFrom ==
  ASSUME NEW S \in ViewType, NEW T \in ViewType, ChanKeeps(S, T), NEW e \in Ends, PeersOK(S, e), AskedOK(S, Peer(e)), T.runs = S.runs,
         NEW c, NEW t, NEW g, Moves(S, T, e, c, t, g), Awaited(S, T, e, c, t, g)
  PROVE  AskedOK(T, Peer(e))
<1> DEFINE f == Peer(e)
<1>0. f \in Ends /\ Peer(f) = e
  BY PeerFacts
<1>m. /\ T.chan[f] = S.chan[f] /\ c \in DOMAIN S.chan[e]
      /\ \A x \in DOMAIN S.chan[e] : x # c => T.chan[e][x] = S.chan[e][x]
      /\ t = NoPacket \/ (t \in PacketType /\ t.from \in DOMAIN S.chan[f] /\ S.chan[f][t.from].peer = c /\ S.chan[e][c].peer = t.from)
      /\ g = NoPacket \/ (g \in PacketType /\ g.from = c)
  BY DEF Moves
<1>s. \A z : Amount(T.in[f], "request", z) = Amount(S.in[f], "request", z) + Weight(g, "request", z)
  BY DEF Moves, Counted
<1> SUFFICES ASSUME NEW d \in DOMAIN T.chan[e], T.chan[e][d].peer # 0, T.chan[f][T.chan[e][d].peer].peer = 0, T.runs[e], ~T.chan[e][d].closed
             PROVE  AskedIs(T, f, d)
  BY <1>0 DEF AskedOK, AskedIs
<1> DEFINE y == S.chan[e][d].peer
<1>1. d \in DOMAIN S.chan[e] /\ Keeps(S.chan[e][d], T.chan[e][d]) /\ d # 0
  BY ViewItems DEF ChanKeeps
<1>2. T.chan[e][d].peer = y /\ y # 0 /\ ~S.chan[e][d].closed
  BY <1>1 DEF Keeps
<1>3. IsPartner(S, e, d, f, y)
  BY <1>0, <1>1, <1>2, Partner
<1>4. y \in DOMAIN S.chan[f] /\ T.chan[f][y] = S.chan[f][y] /\ S.chan[f][y].peer = 0
  BY <1>m, <1>2, <1>3 DEF IsPartner
<1>6. S.chan[f][y] \in ChannelType /\ S.chan[e][d] \in ChannelType /\ T.chan[e][d] \in ChannelType
  BY <1>0, <1>1, <1>4, ViewItems
<1> DEFINE B == Amount(S.in[f], "request", d) Y == Amount(T.in[f], "request", d)
           w == Weight(g, "request", d) P == S.chan[e][d] Q == T.chan[e][d] M == S.chan[f][y]
<1>7. B \in Nat /\ Y \in Nat
  BY <1>0, AmountNat, ViewFields
<1>8. Y = B + w
  BY <1>s
<1>w. w \in Nat
  BY <1>m DEF Weight, NoPacket, Packet, PacketType
<1>10. B + Answers(M) + Len(P.msg) <= Waits(P)
  <2>1. AskedIs(S, f, d)
    BY <1>0, <1>1 DEF AskedOK
  <2> QED BY <1>0, <1>2, <1>4, <2>1 DEF AskedIs
<1>11. Len(P.msg) \in Nat /\ Len(Q.msg) \in Nat /\ Waits(P) \in Nat /\ Waits(Q) \in Nat /\ Answers(M) \in Nat
  BY <1>6, ChannelFields
<1>12. w + Len(Q.msg) + Waits(P) <= Len(P.msg) + Waits(Q)
  <2>1. CASE d = c
    <3>1. t = NoPacket
      BY <1>1, <1>4, <1>m, <2>1
    <3>2. w = Worth(g, "request") /\ Answering(t) = 0
      BY <1>m, <2>1, <3>1, PacketWorth DEF Counted
    <3>3. Worth(g, "request") + Len(Q.msg) + Waits(P) <= Len(P.msg) + Answering(t) + Waits(Q)
      BY <1>2, <2>1 DEF Awaited, Due
    <3> HIDE DEF Q, P, w
    <3> QED BY <1>11, <3>2, <3>3
  <2>2. CASE d # c
    <3>2. w = 0
      BY <1>m, <2>2, PacketWorth DEF Counted
    <3>3. Q = P
      BY <1>1, <1>m, <2>2
    <3> HIDE DEF Q, P
    <3> QED BY <1>11, <3>2, <3>3
  <2> QED BY <2>1, <2>2
<1> HIDE DEF B, Y, P, Q, M, w
<1>13. Y + Answers(M) + Len(Q.msg) <= Waits(Q)
  <2> DEFINE r == Answers(M) m == Len(P.msg) n == Len(Q.msg) i == Waits(P) j == Waits(Q)
  <2>1. r \in Nat /\ n \in Nat /\ m \in Nat /\ i \in Nat /\ j \in Nat /\ B + r + m <= i /\ w + n + i <= m + j
    BY <1>10, <1>11, <1>12
  <2> HIDE DEF r, n, m, i, j
  <2>2. Y + r + n <= j
    BY <1>7, <1>8, <1>w, <2>1
  <2> QED BY <2>2 DEF r, n, j
<1> QED BY <1>0, <1>2, <1>4, <1>13 DEF AskedIs, Y, Q, M

-----------------------------------------------------------------------------
(* A step of one channel *)

\* Channel c of e becomes b, s comes to e, u to its peer, and q is left to answer.
After(S, e, c, b, s, u, q) ==
  [in |-> [x \in Ends |-> IF x = e THEN s ELSE u], chan |-> [S.chan EXCEPT ![e] = [@ EXCEPT ![c] = b]],
   list |-> S.list, fresh |-> [S.fresh EXCEPT ![e] = q], runs |-> S.runs, open |-> S.open]

IsAfter(S, T, e, c, b, s, u, q) ==
  /\ T \in ViewType /\ T.in[e] = s /\ T.in[Peer(e)] = u
  /\ T.chan[Peer(e)] = S.chan[Peer(e)] /\ DOMAIN T.chan[e] = DOMAIN S.chan[e] /\ T.chan[e][c] = b
  /\ \A x \in DOMAIN S.chan[e] : x # c => T.chan[e][x] = S.chan[e][x]
  /\ T.list = S.list /\ T.fresh[e] = q /\ T.fresh[Peer(e)] = S.fresh[Peer(e)] /\ T.runs = S.runs /\ T.open = S.open

LEMMA AfterFields ==
  ASSUME NEW S \in ViewType, NEW e \in Ends, NEW c \in DOMAIN S.chan[e], NEW b \in ChannelType, NEW s \in Seq(PacketType),
         NEW u \in Seq(PacketType), NEW q \in Seq(Nat)
  PROVE  IsAfter(S, After(S, e, c, b, s, u, q), e, c, b, s, u, q)
<1> DEFINE T == After(S, e, c, b, s, u, q) f == Peer(e) w == [S.chan[e] EXCEPT ![c] = b]
<1>1. f \in Ends /\ f # e
  BY PeerFacts
<1>2. S.chan[e] \in Seq(ChannelType) /\ S.chan \in [Ends -> Seq(ChannelType)] /\ S.fresh \in [Ends -> Seq(Nat)]
      /\ S.list \in [Ends -> Seq(Nat)] /\ S.runs \in [Ends -> BOOLEAN] /\ S.open \in [Ends -> BOOLEAN]
  BY DEF ViewType
<1>3. w \in Seq(ChannelType) /\ DOMAIN w = DOMAIN S.chan[e] /\ w[c] = b /\ \A x \in DOMAIN S.chan[e] : x # c => w[x] = S.chan[e][x]
  BY <1>2
<1>4. T.chan = [S.chan EXCEPT ![e] = w]
  BY DEF After
<1> HIDE DEF w
<1>5. T.chan \in [Ends -> Seq(ChannelType)] /\ T.chan[e] = w /\ T.chan[f] = S.chan[f]
  BY <1>1, <1>2, <1>3, <1>4
<1>6. T.in \in [Ends -> Seq(PacketType)] /\ T.in[e] = s /\ T.in[f] = u
  BY <1>1 DEF After
<1>7. T.fresh \in [Ends -> Seq(Nat)] /\ T.fresh[e] = q /\ T.fresh[f] = S.fresh[f]
  BY <1>1, <1>2 DEF After
<1>8. T.list = S.list /\ T.runs = S.runs /\ T.open = S.open
  BY DEF After
<1>9. T = [in |-> T.in, chan |-> T.chan, list |-> T.list, fresh |-> T.fresh, runs |-> T.runs, open |-> T.open]
  BY DEF After
<1> HIDE DEF T
<1>10. T \in ViewType
  BY <1>2, <1>5, <1>6, <1>7, <1>8, <1>9 DEF ViewType
<1> QED BY <1>3, <1>5, <1>6, <1>7, <1>8, <1>10 DEF IsAfter, T

\* What the channel takes, and what it sends.
Takes(S, e, c, t, s) ==
  \/ t = NoPacket /\ s = S.in[e]
  \/ /\ S.in[e] # <<>> /\ t = Head(S.in[e]) /\ s = Tail(S.in[e])
     /\ Carries(t) /\ t.kind \notin Responses /\ S.chan[Peer(e)][t.from].peer = c
May(a, b, c, p) ==
  /\ Carries(p) /\ p.from = c /\ a.peer # 0 /\ p.id = a.remoteId /\ ~Done(a)
  /\ p.kind = "data" => p.n <= MaxPacket
  /\ p.kind = "request" => p.n \in {0, 1}
  /\ p.kind = "close" => b.sentClose
  /\ p.kind = "failure" => b.user = "none"
  /\ p.kind = "confirm" => b.user = "open" /\ p.aux = a.localId /\ p.n = WindowSize
  /\ p.kind \in Responses => a.dir = "in" /\ a.user = "waiting"
  /\ p.kind \notin Responses => a.dir = "out" \/ a.user = "open"
Emits(S, e, c, b, g, u) ==
  \/ g = NoPacket /\ u = S.in[Peer(e)]
  \/ g \in PacketType /\ u = Append(S.in[Peer(e)], g) /\ S.open[Peer(e)] /\ May(S.chan[e][c], b, c, g)
\* Which channels are left to answer, and that an accepted one tells the peer.
Leaves(S, e, c, b, g, q) ==
  LET a == S.chan[e][c] IN
  \/ q = S.fresh[e] /\ (a.user = "waiting" => b.user = "waiting")
  \/ /\ S.fresh[e] # <<>> /\ c = Head(S.fresh[e]) /\ q = Tail(S.fresh[e])
     /\ b.user = "open" /\ S.open[Peer(e)] => g.kind = "confirm"

LEMMA TakesMoves ==
  ASSUME NEW S \in ViewType, NEW e \in Ends, PacketsOK(S, e), NEW c, NEW t, NEW s, Takes(S, e, c, t, s), c # 0
  PROVE  /\ s \in Seq(PacketType) /\ (t = NoPacket \/ (t \in PacketType /\ t.from \in DOMAIN S.chan[Peer(e)] /\ S.chan[Peer(e)][t.from].peer = c /\ S.chan[e][c].peer = t.from))
         /\ \E k : Shift(S.in[e], s, k) /\ (k = 1 => S.in[e][1].kind # "confirm")
         /\ \A k \in Counted : \A z : Amount(S.in[e], k, z) = Weight(t, k, z) + Amount(s, k, z)
         /\ \A z : Tells(S.in[e], z) = Tell(t, z) + Tells(s, z)
<1>0. S.in[e] \in Seq(PacketType)
  BY ViewFields
<1>1. CASE t = NoPacket /\ s = S.in[e]
  <2>1. \A k \in Counted : \A z : Weight(t, k, z) = 0 /\ Tell(t, z) = 0
    BY <1>1 DEF NoPacket, Packet, Weight, Tell, Counted, Responses
  <2>2. \A z : Tell(t, z) = 0
    BY <1>1 DEF NoPacket, Packet, Tell, Responses
  <2>3. Shift(S.in[e], s, 0)
    BY <1>0, <1>1, Shifts
  <2>4. \A k, z : Amount(s, k, z) \in Nat /\ Tells(s, z) \in Nat
    BY <1>0, <1>1, AmountNat
  <2>5. s \in Seq(PacketType)
    BY <1>0, <1>1
  <2>6. ASSUME NEW k \in Counted, NEW z PROVE Amount(S.in[e], k, z) = Weight(t, k, z) + Amount(s, k, z)
    <3>1. Weight(t, k, z) = 0 /\ Amount(s, k, z) \in Nat
      BY <2>1, <2>4
    <3> QED BY <3>1, <1>1
  <2>7. ASSUME NEW z PROVE Tells(S.in[e], z) = Tell(t, z) + Tells(s, z)
    <3>1. Tell(t, z) = 0 /\ Tells(s, z) \in Nat
      BY <2>2, <2>4
    <3> QED BY <3>1, <1>1
  <2>8. \E k : Shift(S.in[e], s, k) /\ (k = 1 => S.in[e][1].kind # "confirm")
    <3>1. 0 # 1
      OBVIOUS
    <3> QED BY <2>3, <3>1
  <2> QED BY <1>1, <2>5, <2>6, <2>7, <2>8
<1>2. CASE S.in[e] # <<>> /\ t = Head(S.in[e]) /\ s = Tail(S.in[e]) /\ Carries(t) /\ t.kind \notin Responses /\ S.chan[Peer(e)][t.from].peer = c
  <2>1. s \in Seq(PacketType) /\ t \in PacketType /\ 1 \in DOMAIN S.in[e] /\ t = S.in[e][1] /\ \A j \in DOMAIN S.in[e] : ~(j < 1)
    BY <1>0, <1>2
  <2>2. Shift(S.in[e], s, 1) /\ S.in[e][1].kind # "confirm"
    BY <1>0, <1>2, <2>1, Shifts DEF Responses
  <2>3. PacketIs(S, e, t) /\ Told(S, e, t.from)
    BY <1>2, <2>1 DEF PacketsOK
  <2>4. t.from \in DOMAIN S.chan[Peer(e)] /\ S.chan[e][c].peer = t.from
    BY <1>2, <2>3 DEF PacketIs, Told
  <2>5. ASSUME NEW k \in Counted, NEW z PROVE Amount(S.in[e], k, z) = Weight(t, k, z) + Amount(s, k, z)
    <3>1. S.in[e] # <<>> => Amount(S.in[e], k, z) = Weight(Head(S.in[e]), k, z) + Amount(Tail(S.in[e]), k, z)
      BY <1>0, <2>1, AmountSteps
    <3> QED BY <1>2, <3>1
  <2>6. ASSUME NEW z PROVE Tells(S.in[e], z) = Tell(t, z) + Tells(s, z)
    BY ZenonT(60), <1>0, <1>2, <2>1, TellsMoves
  <2> QED BY <1>2, <2>1, <2>2, <2>4, <2>5, <2>6
<1> QED BY <1>1, <1>2 DEF Takes

LEMMA EmitsMoves ==
  ASSUME NEW S \in ViewType, NEW e \in Ends, NEW c, NEW b, NEW g, NEW u, Emits(S, e, c, b, g, u)
  PROVE  /\ u \in Seq(PacketType) /\ (g = NoPacket \/ (g \in PacketType /\ g.from = c))
         /\ \A k \in Counted : \A z : Amount(u, k, z) = Amount(S.in[Peer(e)], k, z) + Weight(g, k, z)
         /\ \A z : Tells(u, z) = Tells(S.in[Peer(e)], z) + Tell(g, z)
<1> DEFINE w == S.in[Peer(e)]
<1>0. w \in Seq(PacketType)
  BY ViewFields, PeerFacts
<1>1. CASE g = NoPacket /\ u = w
  <2>1. \A k \in Counted : \A z : Weight(g, k, z) = 0
    BY <1>1 DEF NoPacket, Packet, Weight, Counted
  <2>2. \A z : Tell(g, z) = 0
    BY <1>1 DEF NoPacket, Packet, Tell, Responses
  <2>4. \A k, z : Amount(u, k, z) \in Nat /\ Tells(u, z) \in Nat
    BY <1>0, <1>1, AmountNat
  <2>6. ASSUME NEW k \in Counted, NEW z PROVE Amount(u, k, z) = Amount(w, k, z) + Weight(g, k, z)
    <3>1. Weight(g, k, z) = 0 /\ Amount(u, k, z) \in Nat
      BY <2>1, <2>4
    <3> QED BY <3>1, <1>1
  <2>7. ASSUME NEW z PROVE Tells(u, z) = Tells(w, z) + Tell(g, z)
    <3>1. Tell(g, z) = 0 /\ Tells(u, z) \in Nat
      BY <2>2, <2>4
    <3> QED BY <3>1, <1>1
  <2> QED BY <1>0, <1>1, <2>6, <2>7
<1>2. CASE g \in PacketType /\ u = Append(w, g) /\ S.open[Peer(e)] /\ May(S.chan[e][c], b, c, g)
  <2>1. u \in Seq(PacketType)
    BY <1>0, <1>2
  <2>5. ASSUME NEW k \in Counted, NEW z PROVE Amount(u, k, z) = Amount(w, k, z) + Weight(g, k, z)
    <3> HIDE DEF w
    <3>1. Amount(Append(w, g), k, z) = Amount(w, k, z) + Weight(g, k, z)
      BY <1>0, <1>2, AmountSteps
    <3> QED BY <1>2, <3>1
  <2>6. ASSUME NEW z PROVE Tells(u, z) = Tells(w, z) + Tell(g, z)
    BY <1>0, <1>2, TellsMoves
  <2> QED BY <1>2, <2>1, <2>5, <2>6 DEF May
<1> QED BY <1>1, <1>2 DEF Emits

\* The step as a whole: Good is kept.
ChannelStep(S, e, c, b, t, g, s, u, q) ==
  /\ c \in DOMAIN S.chan[e] /\ b \in ChannelType /\ Local(b) /\ Keeps(S.chan[e][c], b) /\ b.closed = S.chan[e][c].closed
  /\ Takes(S, e, c, t, s) /\ Emits(S, e, c, b, g, u) /\ Leaves(S, e, c, b, g, q)
  /\ Passes(BothOpen(S), S.chan[e][c], b, t, g) /\ Due(S.chan[e][c], b, t, g)

\* What the lemmas need to know of it.
IsStep(S, T, e, c, b, t, g) ==
  /\ T \in ViewType /\ ChanKeeps(S, T) /\ c \in DOMAIN S.chan[e] /\ T.chan[e][c] = b /\ T.chan[Peer(e)] = S.chan[Peer(e)]
  /\ DOMAIN T.chan[e] = DOMAIN S.chan[e] /\ \A x \in DOMAIN S.chan[e] : x # c => T.chan[e][x] = S.chan[e][x]
  /\ T.list = S.list /\ T.runs = S.runs /\ T.open = S.open /\ T.fresh[Peer(e)] = S.fresh[Peer(e)]

LEMMA StepIs ==
  ASSUME NEW S, Good(S), NEW e \in Ends, NEW c, NEW b, NEW t, NEW g, NEW s, NEW u, NEW q, ChannelStep(S, e, c, b, t, g, s, u, q)
  PROVE  /\ S \in ViewType /\ IsStep(S, After(S, e, c, b, s, u, q), e, c, b, t, g) /\ Moves(S, After(S, e, c, b, s, u, q), e, c, t, g)
         /\ IsAfter(S, After(S, e, c, b, s, u, q), e, c, b, s, u, q)
<1> DEFINE T == After(S, e, c, b, s, u, q) f == Peer(e)
<1>0. S \in ViewType /\ PacketsOK(S, e) /\ f \in Ends /\ f # e /\ \A x \in Ends : x = e \/ x = f
  BY PeerFacts DEF Good
<1>1. c \in DOMAIN S.chan[e] /\ b \in ChannelType /\ Keeps(S.chan[e][c], b) /\ Takes(S, e, c, t, s) /\ Emits(S, e, c, b, g, u) /\ Leaves(S, e, c, b, g, q)
  BY DEF ChannelStep
<1>2. c # 0 /\ S.fresh[e] \in Seq(Nat)
  BY <1>0, <1>1, ViewItems, ViewFields
<1>3. q \in Seq(Nat)
  <2>1. q = S.fresh[e] \/ (S.fresh[e] # <<>> /\ q = Tail(S.fresh[e]))
    BY <1>1 DEF Leaves
  <2> DEFINE w == S.fresh[e]
  <2>2. w \in Seq(Nat) /\ (q = w \/ (w # <<>> /\ q = Tail(w)))
    BY <1>2, <2>1
  <2> HIDE DEF w
  <2> QED BY ZenonT(60), SMTT(40), <2>2
<1>4. /\ s \in Seq(PacketType) /\ (t = NoPacket \/ (t \in PacketType /\ t.from \in DOMAIN S.chan[f] /\ S.chan[f][t.from].peer = c /\ S.chan[e][c].peer = t.from))
      /\ \A k \in Counted : \A z : Amount(S.in[e], k, z) = Weight(t, k, z) + Amount(s, k, z)
      /\ \A z : Tells(S.in[e], z) = Tell(t, z) + Tells(s, z)
  BY <1>0, <1>1, <1>2, TakesMoves
<1>5. /\ u \in Seq(PacketType) /\ (g = NoPacket \/ (g \in PacketType /\ g.from = c))
      /\ \A k \in Counted : \A z : Amount(u, k, z) = Amount(S.in[f], k, z) + Weight(g, k, z)
      /\ \A z : Tells(u, z) = Tells(S.in[f], z) + Tell(g, z)
  BY <1>0, <1>1, EmitsMoves
<1>6. IsAfter(S, T, e, c, b, s, u, q)
  BY <1>0, <1>1, <1>3, <1>4, <1>5, AfterFields
<1> HIDE DEF T
<1>7. \A x : Keeps(x, x)
  BY DEF Keeps
<1>8. ASSUME NEW x \in Ends PROVE DOMAIN T.chan[x] = DOMAIN S.chan[x] /\ \A z \in DOMAIN S.chan[x] : Keeps(S.chan[x][z], T.chan[x][z])
  <2>1. CASE x = e
    BY <1>1, <1>6, <1>7, <2>1 DEF IsAfter
  <2>2. CASE x = f
    BY <1>6, <1>7, <2>2 DEF IsAfter
  <2> QED BY <1>0, <2>1, <2>2
<1>9. ChanKeeps(S, T)
  BY <1>8 DEF ChanKeeps
<1>10. IsStep(S, T, e, c, b, t, g)
  BY <1>1, <1>6, <1>9 DEF IsStep, IsAfter
<1>11. T.in[e] = s /\ T.in[f] = u
  BY <1>6 DEF IsAfter
<1>12. Moves(S, T, e, c, t, g)
  BY <1>4, <1>5, <1>10, <1>11 DEF Moves, IsStep
<1> QED BY <1>0, <1>6, <1>10, <1>12 DEF T

\* The packets on their way are for channels that there are.
Known(S, T, e) == \A i \in DOMAIN T.in[e] : Carries(T.in[e][i]) => S.chan[Peer(e)][T.in[e][i].from].peer \in DOMAIN S.chan[e]

LEMMA KnownBefore ==
  ASSUME NEW S, Good(S), NEW e \in Ends, NEW i \in DOMAIN S.in[e], Carries(S.in[e][i])
  PROVE  S.chan[Peer(e)][S.in[e][i].from].peer \in DOMAIN S.chan[e] /\ S.in[e][i].from \in DOMAIN S.chan[Peer(e)]
<1> DEFINE p == S.in[e][i] d == p.from f == Peer(e)
<1>1. PacketIs(S, e, p) /\ f \in Ends /\ Peer(f) = e
  BY PeerFacts DEF Good, PacketsOK
<1>2. d \in DOMAIN S.chan[f] /\ S.chan[f][d].peer # 0
  BY ZenonT(60), <1>1 DEF PacketIs
<1>3. Paired(S, f, d)
  BY <1>1, <1>2 DEF Good, PeersOK
<1> QED BY ZenonT(60), <1>1, <1>2, <1>3 DEF Paired

LEMMA StepLists ==
  ASSUME NEW S, Good(S), NEW T, NEW e \in Ends, NEW c, NEW b, NEW t, NEW g, IsStep(S, T, e, c, b, t, g), Local(b), b.closed = S.chan[e][c].closed, \A x \in Ends : Known(S, T, x)
  PROVE  \A x \in Ends : LocalOK(T, x) /\ PeersOK(T, x) /\ ListOK(T, x) /\ ListingOK(T, x) /\ ListStays(S, T, x)
<1> DEFINE f == Peer(e)
<1>0. S \in ViewType /\ T \in ViewType /\ ChanKeeps(S, T) /\ f \in Ends /\ \A x \in Ends : x = e \/ x = f
  BY PeerFacts DEF Good, IsStep
<1>1. ASSUME NEW x \in Ends PROVE LocalOK(T, x)
  <2>1. LocalOK(S, x)
    BY DEF Good
  <2>2. CASE x = e
    BY <2>1, <2>2 DEF IsStep, LocalOK
  <2>3. CASE x = f
    BY <2>1, <2>3 DEF IsStep, LocalOK
  <2> QED BY <1>0, <2>2, <2>3
<1>2. ASSUME NEW x \in Ends, NEW z \in DOMAIN S.chan[x] PROVE Listed(T, x, z) <=> Listed(S, x, z)
  <2>1. T.chan[x][z].localId = S.chan[x][z].localId
    BY <1>0 DEF ChanKeeps, Keeps
  <2>2. T.list[x] = S.list[x]
    BY DEF IsStep
  <2> QED BY <2>1, <2>2 DEF Listed
<1>3. ASSUME NEW x \in Ends, NEW z \in DOMAIN S.chan[x] PROVE T.chan[x][z].closed = S.chan[x][z].closed
  <2>2. CASE x = e
    BY <2>2 DEF IsStep
  <2>3. CASE x = f
    BY <2>3 DEF IsStep
  <2> QED BY <1>0, <2>2, <2>3
<1>4. ASSUME NEW x \in Ends PROVE PeersOK(T, x)
  BY <1>0, KeepPeers DEF Good
<1>5. ASSUME NEW x \in Ends PROVE T.list[x] = S.list[x] /\ T.runs[x] = S.runs[x]
  BY DEF IsStep
<1>6. ASSUME NEW x \in Ends PROVE ListOK(T, x)
  <2>1. ListShrinks(S, T, x)
    BY <1>3, <1>5 DEF ListShrinks
  <2> QED BY <1>0, <2>1, KeepList DEF Good
<1>7. ASSUME NEW x \in Ends PROVE ListingOK(T, x)
  <2>1. T.runs[x] => S.runs[x] /\ \A z \in DOMAIN S.chan[x] : Listed(S, x, z) /\ ~Listed(T, x, z) => Through(S, x, z)
    BY <1>2, <1>5
  <2>2. PeersOK(S, x) /\ LocalOK(S, x) /\ ListingOK(S, x)
    BY DEF Good
  <2> QED BY <1>0, <2>1, <2>2, KeepListing
<1>8. ASSUME NEW x \in Ends PROVE ListStays(S, T, x)
  <2>1. \A i \in DOMAIN T.in[x] : Carries(T.in[x][i]) => S.chan[Peer(x)][T.in[x][i].from].peer \in DOMAIN S.chan[x]
    BY DEF Known
  <2> QED BY <1>2, <1>5, <2>1 DEF ListStays
<1> QED BY <1>1, <1>4, <1>6, <1>7, <1>8

LEMMA StepFresh ==
  ASSUME NEW S, Good(S), NEW T, NEW e \in Ends, NEW c, NEW b, NEW s, NEW u, NEW q, NEW t, NEW g,
         IsStep(S, T, e, c, b, t, g), IsAfter(S, T, e, c, b, s, u, q), Leaves(S, e, c, b, g, q), Keeps(S.chan[e][c], b)
  PROVE  \A x \in Ends : FreshOK(T, x)
<1> DEFINE f == Peer(e) w == S.fresh[e]
<1>0. S \in ViewType /\ T \in ViewType /\ ChanKeeps(S, T) /\ f \in Ends /\ f # e /\ (\A x \in Ends : x = e \/ x = f) /\ w \in Seq(Nat)
  BY PeerFacts, ViewFields DEF Good, IsStep
<1>1. FreshOK(S, e) /\ FreshOK(S, f)
  BY <1>0 DEF Good
<1>2. FreshOK(T, f)
  <2>1. T.fresh[f] = S.fresh[f] /\ T.chan[f] = S.chan[f]
    BY DEF IsStep
  <2> QED BY <1>1, <2>1 DEF FreshOK
<1>3. T.fresh[e] = q /\ T.chan[e][c] = b /\ \A x \in DOMAIN S.chan[e] : x # c => T.chan[e][x] = S.chan[e][x]
  BY DEF IsAfter
<1>4. ASSUME q = w, S.chan[e][c].user = "waiting" => b.user = "waiting" PROVE FreshOK(T, e)
  <2>1. Shift(w, q, 0)
    BY <1>0, <1>4, Shifts
  <2>2. ASSUME NEW i \in DOMAIN T.fresh[e] PROVE T.chan[e][T.fresh[e][i]].user = S.chan[e][T.fresh[e][i]].user
    <3>1. T.fresh[e][i] \in DOMAIN S.chan[e] /\ S.chan[e][T.fresh[e][i]].user = "waiting"
      BY <1>1, <1>3, <1>4 DEF FreshOK
    <3> QED BY <1>3, <1>4, <3>1
  <2>3. PICK k : Shift(S.fresh[e], T.fresh[e], k)
    BY <2>1, <1>3
  <2>4. FreshStays(S, T, e)
    BY <2>2 DEF FreshStays
  <2> QED BY <1>0, <1>1, <2>3, <2>4, KeepFresh
<1>5. ASSUME w # <<>>, c = Head(w), q = Tail(w) PROVE FreshOK(T, e)
  <2>0. Shift(w, q, 1)
    BY <1>0, <1>5, Shifts
  <2>1. Shift(w, q, 1) /\ c = w[1] /\ 1 \in DOMAIN w
    <3> HIDE DEF w
    <3>1. c = w[1] /\ 1 \in DOMAIN w
      BY <1>0, <1>5
    <3> QED BY <2>0, <3>1
  <2>2. ASSUME NEW i \in DOMAIN T.fresh[e] PROVE T.chan[e][T.fresh[e][i]].user = S.chan[e][T.fresh[e][i]].user
    <3>1. i \in DOMAIN q /\ T.fresh[e][i] = q[i]
      BY <1>3
    <3>2. i \in Nat /\ i + 1 \in DOMAIN w /\ q[i] = w[i + 1] /\ i + 1 # 1
      <4>1. DOMAIN q \subseteq Nat \ {0}
        BY ZenonT(60), SMTT(40), <1>0, <1>5
      <4> QED BY <3>1, <2>1, <4>1 DEF Shift
    <3>3. q[i] # c /\ q[i] \in DOMAIN S.chan[e]
      BY <1>1, <2>1, <3>2 DEF FreshOK
    <3> QED BY <1>3, <3>1, <3>3
  <2>3. PICK k : Shift(S.fresh[e], T.fresh[e], k)
    BY <2>1, <1>3
  <2>4. FreshStays(S, T, e)
    BY <2>2 DEF FreshStays
  <2> QED BY <1>0, <1>1, <2>3, <2>4, KeepFresh
<1>6. FreshOK(T, e)
  BY <1>4, <1>5 DEF Leaves
<1> QED BY <1>0, <1>2, <1>6

LEMMA StepPacketsTo ==
  ASSUME NEW S, Good(S), NEW T, NEW e \in Ends, NEW c, NEW b, NEW s, NEW u, NEW q, NEW t, NEW g,
         IsStep(S, T, e, c, b, t, g), IsAfter(S, T, e, c, b, s, u, q), Takes(S, e, c, t, s)
  PROVE  Known(S, T, e) /\ OpensOK(T, e) /\ (ListStays(S, T, e) => PacketsOK(T, e)) /\ AcceptOK(T, e)
<1> DEFINE f == Peer(e)
<1>0. S \in ViewType /\ T \in ViewType /\ ChanKeeps(S, T) /\ f \in Ends /\ f # e /\ T.in[e] = s /\ c # 0 /\ T.open = S.open /\ T.runs = S.runs /\ T.chan[f] = S.chan[f]
  BY PeerFacts, ViewItems DEF Good, IsStep, IsAfter
<1>1. PacketsOK(S, e) /\ OpensOK(S, e) /\ AcceptOK(S, e) /\ PeersOK(S, f) /\ LocalOK(S, f)
  BY <1>0 DEF Good
<1>2. PICK k : Shift(S.in[e], s, k) /\ (k = 1 => S.in[e][1].kind # "confirm")
  BY <1>0, <1>1, TakesMoves
<1>3. Known(S, T, e)
  <2> SUFFICES ASSUME NEW i \in DOMAIN T.in[e], Carries(T.in[e][i]) PROVE S.chan[Peer(e)][T.in[e][i].from].peer \in DOMAIN S.chan[e]
    BY DEF Known
  <2>1. i + k \in DOMAIN S.in[e] /\ T.in[e][i] = S.in[e][i + k]
    BY <1>0, <1>2 DEF Shift
  <2> QED BY <2>1, KnownBefore
<1>4. OpensOK(T, e)
  BY <1>0, <1>1, <1>2, KeepOpens
<1>5. ASSUME ListStays(S, T, e) PROVE PacketsOK(T, e)
  BY <1>0, <1>1, <1>2, <1>5, KeepPackets
<1>6. ConfirmsStay(S, T, e)
  <2> SUFFICES ASSUME NEW j \in DOMAIN S.in[e], S.in[e][j].kind = "confirm" PROVE \E i \in DOMAIN T.in[e] : T.in[e][i] = S.in[e][j]
    BY <1>0 DEF ConfirmsStay
  <2> DEFINE w == S.in[e]
  <2>0. w \in Seq(PacketType) /\ j \in DOMAIN w /\ w[j].kind = "confirm"
    BY <1>0, ViewFields
  <2>1. CASE s = w
    BY <1>0, <2>1
  <2>2. CASE w # <<>> /\ s = Tail(w) /\ Head(w).kind \notin Responses
    <3> HIDE DEF w
    <3>1. Head(w) = w[1] /\ j # 1
      BY <2>0, <2>2 DEF Responses
    <3>2. j - 1 \in DOMAIN s /\ s[j - 1] = w[j]
      BY <2>0, <2>2, <3>1
    <3> QED BY <1>0, <3>2 DEF w
  <2> QED BY <2>1, <2>2 DEF Takes
<1>7. NewlyOpen(S, T, e)
  BY <1>0 DEF NewlyOpen
<1>8. AcceptOK(T, e)
  BY <1>0, <1>1, <1>6, <1>7, KeepAccept
<1> QED BY <1>3, <1>4, <1>5, <1>8

LEMMA StepPacketsFrom ==
  ASSUME NEW S, Good(S), NEW T, NEW e \in Ends, NEW c, NEW b, NEW s, NEW u, NEW q, NEW t, NEW g,
         IsStep(S, T, e, c, b, t, g), IsAfter(S, T, e, c, b, s, u, q), Emits(S, e, c, b, g, u), Leaves(S, e, c, b, g, q)
  PROVE  Known(S, T, Peer(e)) /\ OpensOK(T, Peer(e)) /\ (ListStays(S, T, Peer(e)) => PacketsOK(T, Peer(e))) /\ AcceptOK(T, Peer(e))
<1> DEFINE f == Peer(e) a == S.chan[e][c]
<1>0. S \in ViewType /\ T \in ViewType /\ ChanKeeps(S, T) /\ f \in Ends /\ Peer(f) = e /\ f # e /\ T.in[f] = u /\ c \in DOMAIN S.chan[e]
      /\ T.open = S.open /\ T.runs = S.runs /\ T.list = S.list /\ T.chan[e][c] = b /\ \A x \in DOMAIN S.chan[e] : x # c => T.chan[e][x] = S.chan[e][x]
  BY PeerFacts DEF Good, IsStep, IsAfter
<1>1. PacketsOK(S, f) /\ OpensOK(S, f) /\ AcceptOK(S, f) /\ PeersOK(S, f) /\ PeersOK(S, e) /\ LocalOK(S, e) /\ ListingOK(S, f)
  BY <1>0 DEF Good
<1>2. S.in[f] \in Seq(PacketType)
  BY <1>0, ViewFields
<1>3. CASE g = NoPacket /\ u = S.in[f]
  <2>0. g.kind # "confirm" /\ u \in Seq(PacketType)
    BY <1>2, <1>3 DEF NoPacket, Packet
  <2>1. PICK k : Shift(S.in[f], T.in[f], k) /\ k # 1
    <3>1. Shift(S.in[f], S.in[f], 0)
      BY <1>2, Shifts
    <3>2. Shift(S.in[f], T.in[f], 0) /\ 0 # 1
      BY <1>0, <1>3, <3>1
    <3> QED BY <3>2
  <2>2. Known(S, T, f)
    BY <1>0, <1>3, KnownBefore DEF Known
  <2>3. OpensOK(T, f)
    BY <1>0, <1>1, <2>1, KeepOpens
  <2>4. ASSUME ListStays(S, T, f) PROVE PacketsOK(T, f)
    BY <1>0, <1>1, <2>1, <2>4, KeepPackets
  <2>5. ConfirmsStay(S, T, f)
    BY <1>0, <1>3 DEF ConfirmsStay
  <2>6. NewlyOpen(S, T, f)
    <3> SUFFICES ASSUME NEW d \in DOMAIN S.chan[e], T.open[f], S.chan[e][d].dir = "in", T.chan[e][d].user = "open", S.chan[e][d].user # "open" PROVE FALSE
      BY <1>0 DEF NewlyOpen
    <3>1. d = c
      BY <1>0
    <3>2. a.user # "open" /\ b.user = "open" /\ S.open[f] /\ a.dir = "in" /\ a \in ChannelType /\ Local(a)
      BY <1>0, <1>1, <3>1, ViewItems DEF LocalOK
    <3>3. a.user = "waiting"
      <4>1. Keeps(a, b)
        BY <1>0 DEF ChanKeeps
      <4> QED BY <3>2, <4>1 DEF Keeps, Local
    <3> QED BY <2>0, <3>2, <3>3 DEF Leaves
  <2>7. AcceptOK(T, f)
    BY <1>0, <1>1, <2>5, <2>6, KeepAccept
  <2> QED BY <2>2, <2>3, <2>4, <2>7
<1>4. CASE g \in PacketType /\ u = Append(S.in[f], g) /\ S.open[f] /\ May(a, b, c, g)
  <2>1. Sends(S, T, e, c, g)
    BY <1>0, <1>4 DEF Sends, May
  <2>2. a.peer # 0 /\ g.from = c /\ Carries(g) /\ g.kind # "open"
    BY <1>4 DEF May, Carries
  <2>3. IsPartner(S, e, c, f, a.peer)
    BY <1>0, <1>1, <2>2, Partner
  <2>4. DOMAIN u = 1..(Len(S.in[f]) + 1) /\ u[Len(S.in[f]) + 1] = g /\ Len(S.in[f]) \in Nat /\ \A i \in 1..Len(S.in[f]) : u[i] = S.in[f][i]
    BY ZenonT(60), SMTT(40), <1>2, <1>4
  <2>5. DOMAIN S.in[f] = 1..Len(S.in[f])
    BY <1>2
  <2>6. Known(S, T, f)
    <3> SUFFICES ASSUME NEW i \in DOMAIN T.in[f], Carries(T.in[f][i]) PROVE S.chan[Peer(f)][T.in[f][i].from].peer \in DOMAIN S.chan[f]
      BY DEF Known
    <3>1. CASE i \in DOMAIN S.in[f]
      <4>1. T.in[f][i] = S.in[f][i]
        BY <1>0, <2>4, <2>5, <3>1
      <4> QED BY <1>0, <3>1, <4>1, KnownBefore
    <3>2. CASE i \notin DOMAIN S.in[f]
      <4>1. T.in[f][i] = g
        BY <1>0, <2>4, <2>5, <3>2
      <4> QED BY <1>0, <2>2, <2>3, <4>1 DEF IsPartner
    <3> QED BY <3>1, <3>2
  <2>7. OpensOK(T, f)
    BY <1>0, <1>1, <1>4, <2>2, AddOpens
  <2>8. ASSUME ListStays(S, T, f) PROVE PacketsOK(T, f)
    <3>1. T.list[f] = S.list[f] /\ T.in[f] = Append(S.in[f], g) /\ Sends(S, T, Peer(f), c, g) /\ PeersOK(S, Peer(f)) /\ S.open[f]
      BY <1>0, <1>1, <1>4, <2>1
    <3> QED BY <1>0, <1>1, <1>4, <2>8, <3>1, AddPackets
  <2>9. ConfirmsStay(S, T, f)
    <3> SUFFICES ASSUME NEW j \in DOMAIN S.in[f] PROVE \E i \in DOMAIN T.in[f] : T.in[f][i] = S.in[f][j]
      BY <1>0 DEF ConfirmsStay
    <3>1. j \in DOMAIN u /\ u[j] = S.in[f][j]
      BY <2>4, <2>5
    <3> QED BY <1>0, <3>1
  <2>10. NewlyOpen(S, T, f)
    <3> SUFFICES ASSUME NEW d \in DOMAIN S.chan[e], T.open[f], S.chan[e][d].dir = "in", T.chan[e][d].user = "open", S.chan[e][d].user # "open"
                 PROVE  \E j \in DOMAIN T.in[f] : T.in[f][j].kind = "confirm" /\ T.in[f][j].from = d
      BY <1>0 DEF NewlyOpen
    <3>1. d = c
      BY <1>0
    <3>2. a.user # "open" /\ b.user = "open" /\ S.open[f] /\ a.dir = "in" /\ a \in ChannelType /\ Local(a)
      BY <1>0, <1>1, <3>1, ViewItems DEF LocalOK
    <3>3. a.user = "waiting"
      <4>1. Keeps(a, b)
        BY <1>0 DEF ChanKeeps
      <4> QED BY <3>2, <4>1 DEF Keeps, Local
    <3>4. g.kind = "confirm"
      BY <3>2, <3>3 DEF Leaves
    <3>5. Len(S.in[f]) + 1 \in DOMAIN u
      BY <2>4
    <3> QED BY <1>0, <2>2, <2>4, <3>1, <3>4, <3>5
  <2>11. AcceptOK(T, f)
    BY <1>0, <1>1, <2>9, <2>10, KeepAccept
  <2> QED BY <2>6, <2>7, <2>8, <2>11
<1> QED BY <1>3, <1>4 DEF Emits

\* A step of one channel keeps everything.
LEMMA ChannelStepKeeps ==
  ASSUME NEW S, Good(S), NEW e \in Ends, NEW c, NEW b, NEW t, NEW g, NEW s, NEW u, NEW q, ChannelStep(S, e, c, b, t, g, s, u, q)
  PROVE  Good(After(S, e, c, b, s, u, q))
<1> DEFINE T == After(S, e, c, b, s, u, q) f == Peer(e)
<1>1. S \in ViewType /\ IsStep(S, T, e, c, b, t, g) /\ Moves(S, T, e, c, t, g) /\ IsAfter(S, T, e, c, b, s, u, q)
  BY StepIs
<1> HIDE DEF T
<1>2. f \in Ends /\ Peer(f) = e /\ T \in ViewType /\ ChanKeeps(S, T) /\ T.chan[e][c] = b /\ T.runs = S.runs /\ \A x \in Ends : x = e \/ x = f
  BY <1>1, PeerFacts DEF IsStep
<1>3. Local(b) /\ b.closed = S.chan[e][c].closed /\ Keeps(S.chan[e][c], b) /\ Takes(S, e, c, t, s) /\ Emits(S, e, c, b, g, u) /\ Leaves(S, e, c, b, g, q)
  BY DEF ChannelStep
<1>4. Balanced(S, T, e, c, t, g) /\ Awaited(S, T, e, c, t, g)
  BY <1>2 DEF ChannelStep, Balanced, Awaited
<1>5. Known(S, T, e) /\ OpensOK(T, e) /\ (ListStays(S, T, e) => PacketsOK(T, e)) /\ AcceptOK(T, e)
  BY <1>1, <1>3, StepPacketsTo
<1>6. Known(S, T, f) /\ OpensOK(T, f) /\ (ListStays(S, T, f) => PacketsOK(T, f)) /\ AcceptOK(T, f)
  BY <1>1, <1>3, StepPacketsFrom
<1>7. \A x \in Ends : Known(S, T, x)
  BY <1>2, <1>5, <1>6
<1>8. \A x \in Ends : LocalOK(T, x) /\ PeersOK(T, x) /\ ListOK(T, x) /\ ListingOK(T, x) /\ ListStays(S, T, x)
  BY <1>1, <1>3, <1>7, StepLists
<1>9. \A x \in Ends : FreshOK(T, x)
  BY <1>1, <1>3, StepFresh
<1>10. PeersOK(S, e) /\ PeersOK(S, f) /\ WindowsOK(S, e) /\ WindowsOK(S, f) /\ AnswersOK(S, e) /\ AnswersOK(S, f)
       /\ AskedOK(S, e) /\ AskedOK(S, f)
  BY <1>2 DEF Good
<1>11. WindowsOK(T, e)
  BY <1>1, <1>2, <1>4, <1>10, MoveWindowsTo
<1>12. WindowsOK(T, f)
  BY <1>1, <1>2, <1>4, <1>10, MoveWindowsFrom
<1>13. AnswersOK(T, e)
  BY <1>1, <1>2, <1>4, <1>10, MoveAnswersTo
<1>14. AnswersOK(T, f)
  BY <1>1, <1>2, <1>4, <1>10, MoveAnswersFrom
<1>a. AskedOK(T, e)
  BY <1>1, <1>2, <1>4, <1>10, MoveAskedTo
<1>b. AskedOK(T, f)
  BY <1>1, <1>2, <1>4, <1>10, MoveAskedFrom
<1>15. \A x \in Ends : OpensOK(T, x) /\ PacketsOK(T, x) /\ AcceptOK(T, x) /\ WindowsOK(T, x) /\ AnswersOK(T, x) /\ AskedOK(T, x)
  BY <1>2, <1>5, <1>6, <1>8, <1>11, <1>12, <1>13, <1>14, <1>a, <1>b
<1>16. Good(T)
  BY <1>2, <1>8, <1>9, <1>15 DEF Good
<1> QED BY <1>16 DEF T

-----------------------------------------------------------------------------
(* Steps that no count depends on *)

Quiet(p) == p.kind \notin {"data", "adjust", "request", "ack", "confirm", "failure"}
InCalm(s, w, both) ==
  /\ \A k \in Counted : \A z : Amount(w, k, z) <= Amount(s, k, z) /\ (both => Amount(w, k, z) = Amount(s, k, z))
  /\ \A z : Tells(w, z) <= Tells(s, z)

LEMMA QuietWeight ==
  ASSUME NEW p, Quiet(p)
  PROVE  (\A k \in Counted : \A z : Weight(p, k, z) = 0) /\ \A z : Tell(p, z) = 0
BY DEF Quiet, Weight, Tell, Counted, Responses

LEMMA CalmIns ==
  ASSUME NEW s \in Seq(PacketType), NEW both
  PROVE  /\ InCalm(s, s, both)
         /\ s # <<>> /\ Quiet(Head(s)) => InCalm(s, Tail(s), both)
         /\ \A p \in PacketType : Quiet(p) => InCalm(s, Append(s, p), both)
         /\ ~both => InCalm(s, <<>>, both) /\ (s # <<>> => InCalm(s, <<Head(s)>>, both))
<1>1. \A k, z : Amount(s, k, z) \in Nat /\ Tells(s, z) \in Nat
  BY AmountNat
<1>2. InCalm(s, s, both)
  <2>1. ASSUME NEW k, NEW z PROVE Amount(s, k, z) <= Amount(s, k, z) /\ Tells(s, z) <= Tells(s, z)
    <3>1. Amount(s, k, z) \in Nat /\ Tells(s, z) \in Nat
      BY <1>1
    <3> QED BY <3>1
  <2> QED BY <2>1 DEF InCalm
<1>3. ASSUME s # <<>>, Quiet(Head(s)) PROVE InCalm(s, Tail(s), both)
  <2>1. Head(s) \in PacketType /\ Tail(s) \in Seq(PacketType)
    BY <1>3
  <2>2. \A k, z : Amount(s, k, z) = Weight(Head(s), k, z) + Amount(Tail(s), k, z)
    BY <1>3, <2>1, AmountSteps
  <2>3. \A z : Tells(s, z) = Tell(Head(s), z) + Tells(Tail(s), z)
    BY <1>3, <2>1, TellsMoves
  <2>4. \A k, z : Amount(Tail(s), k, z) \in Nat /\ Tells(Tail(s), z) \in Nat
    BY <2>1, AmountNat
  <2>5. ASSUME NEW k \in Counted, NEW z PROVE Amount(Tail(s), k, z) = Amount(s, k, z) /\ Amount(Tail(s), k, z) <= Amount(s, k, z)
    <3>1. Weight(Head(s), k, z) = 0 /\ Amount(Tail(s), k, z) \in Nat /\ Amount(s, k, z) = Weight(Head(s), k, z) + Amount(Tail(s), k, z)
      BY <1>3, <2>2, <2>4, QuietWeight
    <3> QED BY <3>1
  <2>6. ASSUME NEW z PROVE Tells(Tail(s), z) <= Tells(s, z)
    <3>1. Tell(Head(s), z) = 0 /\ Tells(Tail(s), z) \in Nat /\ Tells(s, z) = Tell(Head(s), z) + Tells(Tail(s), z)
      BY <1>3, <2>3, <2>4, QuietWeight
    <3> QED BY <3>1
  <2> QED BY <2>5, <2>6 DEF InCalm
<1>4. ASSUME NEW p \in PacketType, Quiet(p) PROVE InCalm(s, Append(s, p), both)
  <2>2. \A k, z : Amount(Append(s, p), k, z) = Amount(s, k, z) + Weight(p, k, z)
    BY <1>4, AmountSteps
  <2>3. \A z : Tells(Append(s, p), z) = Tells(s, z) + Tell(p, z)
    BY <1>4, TellsMoves
  <2>5. ASSUME NEW k \in Counted, NEW z PROVE Amount(Append(s, p), k, z) = Amount(s, k, z) /\ Amount(Append(s, p), k, z) <= Amount(s, k, z)
    <3>1. Weight(p, k, z) = 0 /\ Amount(s, k, z) \in Nat /\ Amount(Append(s, p), k, z) = Amount(s, k, z) + Weight(p, k, z)
      BY <1>1, <1>4, <2>2, QuietWeight
    <3> QED BY <3>1
  <2>6. ASSUME NEW z PROVE Tells(Append(s, p), z) <= Tells(s, z)
    <3>1. Tell(p, z) = 0 /\ Tells(s, z) \in Nat /\ Tells(Append(s, p), z) = Tells(s, z) + Tell(p, z)
      BY <1>1, <1>4, <2>3, QuietWeight
    <3> QED BY <3>1
  <2> QED BY <2>5, <2>6 DEF InCalm
<1>5. ASSUME ~both PROVE InCalm(s, <<>>, both)
  <2>1. Packet("eof", 0, 0, 0, 0) \in PacketType
    BY DEF Packet, PacketType, Kinds
  <2>2. \A k, z : AmountFacts(s, Packet("eof", 0, 0, 0, 0), k, z)
    BY <2>1, AmountMoves
  <2>3. \A k, z : Amount(<<>>, k, z) = 0
    BY <2>2 DEF AmountFacts
  <2>4. \A z : Tells(<<>>, z) = 0
    BY <2>1, TellsMoves
  <2>5. ASSUME NEW k, NEW z PROVE Amount(<<>>, k, z) <= Amount(s, k, z) /\ Tells(<<>>, z) <= Tells(s, z)
    <3>1. Amount(<<>>, k, z) = 0 /\ Tells(<<>>, z) = 0 /\ Amount(s, k, z) \in Nat /\ Tells(s, z) \in Nat
      BY <1>1, <2>3, <2>4
    <3> QED BY <3>1
  <2> QED BY <1>5, <2>5 DEF InCalm
<1>6. ASSUME ~both, s # <<>> PROVE InCalm(s, <<Head(s)>>, both)
  <2>1. Head(s) \in PacketType /\ Tail(s) \in Seq(PacketType)
    BY <1>6
  <2>2. \A k, z : AmountFacts(s, Head(s), k, z)
    BY <2>1, AmountMoves
  <2>3. \A k, z : Amount(Tail(s), k, z) \in Nat /\ Tells(Tail(s), z) \in Nat
    BY <2>1, AmountNat
  <2>4. ASSUME NEW k, NEW z PROVE Amount(<<Head(s)>>, k, z) <= Amount(s, k, z)
    <3>1. Amount(<<Head(s)>>, k, z) = Weight(Head(s), k, z) /\ Weight(Head(s), k, z) \in Nat
          /\ Amount(s, k, z) = Weight(Head(s), k, z) + Amount(Tail(s), k, z) /\ Amount(Tail(s), k, z) \in Nat
      BY <1>6, <2>2, <2>3 DEF AmountFacts
    <3> QED BY <3>1
  <2>5. ASSUME NEW z PROVE Tells(<<Head(s)>>, z) <= Tells(s, z)
    <3>1. Tells(<<Head(s)>>, z) = Tell(Head(s), z) /\ Tell(Head(s), z) \in Nat
          /\ Tells(s, z) = Tell(Head(s), z) + Tells(Tail(s), z) /\ Tells(Tail(s), z) \in Nat
      BY <1>6, <2>1, <2>3, TellsMoves
    <3> QED BY <3>1
  <2> QED BY <1>6, <2>4, <2>5 DEF InCalm
<1> QED BY <1>2, <1>3, <1>4, <1>5, <1>6

\* What comes to e is what came, but for the first packet or for a new one on the connection.
InStays(S, T, e) ==
  \/ \E k : Shift(S.in[e], T.in[e], k) /\ (k = 1 => S.in[e][1].kind # "confirm")
  \/ \E p \in PacketType : T.in[e] = Append(S.in[e], p) /\ p.kind \in Globals
\* A channel is forgotten when the other end has done with it.
Forgotten(S, T, e) == T.runs[e] => S.runs[e] /\ \A c \in DOMAIN S.chan[e] : Listed(S, e, c) /\ ~Listed(T, e, c) => Through(S, e, c)
CalmStep(S, T, e) ==
  LocalOK(T, e) /\ T.fresh[e] = S.fresh[e] /\ ListShrinks(S, T, e) /\ ListStays(S, T, e) /\ Forgotten(S, T, e) /\ InStays(S, T, e) /\ ConfirmsStay(S, T, e)

LEMMA CalmStepKeeps ==
  ASSUME NEW S, Good(S), NEW T \in ViewType, ChanKeeps(S, T), Calm(S, T), \A x \in Ends : CalmStep(S, T, x)
  PROVE  Good(T)
<1>0. S \in ViewType
  BY DEF Good
<1> SUFFICES ASSUME NEW e \in Ends
             PROVE  /\ LocalOK(T, e) /\ ListOK(T, e) /\ PeersOK(T, e) /\ FreshOK(T, e) /\ OpensOK(T, e)
                    /\ PacketsOK(T, e) /\ AcceptOK(T, e) /\ ListingOK(T, e) /\ WindowsOK(T, e) /\ AnswersOK(T, e) /\ AskedOK(T, e)
  BY DEF Good
<1> DEFINE f == Peer(e)
<1>1. f \in Ends /\ Peer(f) = e
  BY PeerFacts
<1>2. /\ LocalOK(S, e) /\ ListOK(S, e) /\ PeersOK(S, e) /\ FreshOK(S, e) /\ OpensOK(S, e)
      /\ PacketsOK(S, e) /\ AcceptOK(S, e) /\ ListingOK(S, e) /\ WindowsOK(S, e) /\ AnswersOK(S, e) /\ AskedOK(S, e) /\ PeersOK(S, f) /\ LocalOK(S, f)
  BY <1>1 DEF Good
<1>3. LocalOK(T, e) /\ T.fresh[e] = S.fresh[e] /\ ListShrinks(S, T, e) /\ ListStays(S, T, e) /\ Forgotten(S, T, e) /\ InStays(S, T, e) /\ ConfirmsStay(S, T, e)
  BY DEF CalmStep
<1>4. (T.runs[e] => S.runs[e]) /\ (T.runs[f] => S.runs[f])
  BY <1>1 DEF CalmStep, ListShrinks
<1>5. \A x \in Ends : \A c \in DOMAIN S.chan[x] : T.chan[x][c].user = S.chan[x][c].user
  BY DEF Calm, CalmChan
<1>6. ListOK(T, e)
  BY <1>0, <1>2, <1>3, KeepList
<1>7. PeersOK(T, e)
  BY <1>0, <1>2, KeepPeers
<1>8. FreshOK(T, e)
  <2>1. FreshStays(S, T, e)
    BY <1>2, <1>3, <1>5 DEF FreshStays, FreshOK
  <2>2. S.fresh[e] \in Seq(Nat)
    BY <1>0, ViewFields
  <2>3. Shift(S.fresh[e], S.fresh[e], 0)
    BY <2>2, Shifts
  <2>4. PICK k : Shift(S.fresh[e], T.fresh[e], k)
    BY <1>3, <2>3
  <2> QED BY <1>0, <1>2, <2>1, <2>4, KeepFresh
<1>9. OpensOK(T, e) /\ PacketsOK(T, e)
  <2>1. ASSUME NEW k, Shift(S.in[e], T.in[e], k), k = 1 => S.in[e][1].kind # "confirm" PROVE OpensOK(T, e) /\ PacketsOK(T, e)
    <3>1. OpensOK(T, e)
      BY <1>0, <1>2, <1>4, <2>1, KeepOpens
    <3>2. PacketsOK(T, e)
      BY <1>0, <1>2, <1>3, <2>1, KeepPackets
    <3> QED BY <3>1, <3>2
  <2>2. ASSUME NEW p \in PacketType, T.in[e] = Append(S.in[e], p), p.kind \in Globals PROVE OpensOK(T, e) /\ PacketsOK(T, e)
    <3>0. p.kind # "open" /\ p.kind \in {"open"} \cup Globals
      BY <2>2 DEF Globals
    <3>1. OpensOK(T, e)
      BY <1>0, <1>2, <1>4, <2>2, <3>0, AddOpens
    <3>2. PacketsOK(T, e)
      BY <1>0, <1>2, <1>3, <2>2, <3>0, AddGlobal
    <3> QED BY <3>1, <3>2
  <2> QED BY <1>3, <2>1, <2>2 DEF InStays
<1>10. NewlyOpen(S, T, e)
  BY <1>1, <1>5 DEF NewlyOpen
<1>11. AcceptOK(T, e)
  BY <1>0, <1>2, <1>3, <1>10, KeepAccept
<1>12. ListingOK(T, e)
  BY <1>0, <1>2, <1>3, KeepListing DEF Forgotten
<1>13. WindowsOK(T, e)
  BY <1>0, <1>2, CalmWindows
<1>14. AnswersOK(T, e)
  BY <1>0, <1>2, <1>4, CalmAnswers
<1>15. AskedOK(T, e)
  BY <1>0, <1>2, <1>4, CalmAsked
<1> QED BY <1>3, <1>6, <1>7, <1>8, <1>9, <1>11, <1>12, <1>13, <1>14, <1>15

\* Steps that leave the channels and the list alone.
Same(S, T) ==
  /\ T \in ViewType /\ T.chan = S.chan /\ T.list = S.list /\ T.fresh = S.fresh
  /\ \A x \in Ends : (T.runs[x] => S.runs[x]) /\ (T.open[x] => S.open[x])
                     /\ InCalm(S.in[x], T.in[x], BothOpen(T)) /\ InStays(S, T, x) /\ ConfirmsStay(S, T, x)

LEMMA SameKeeps ==
  ASSUME NEW S, Good(S), NEW T, Same(S, T)
  PROVE  Good(T)
<1>0. S \in ViewType /\ T \in ViewType /\ T.chan = S.chan /\ T.list = S.list /\ T.fresh = S.fresh
  BY DEF Good, Same
<1>1. ChanKeeps(S, T)
  BY <1>0 DEF ChanKeeps, Keeps
<1>2. Calm(S, T)
  <2>1. CalmIn(S, T)
    BY DEF Same, CalmIn, InCalm
  <2>2. \A x \in Ends : \A c \in DOMAIN S.chan[x] : CalmChan(S.chan[x][c], T.chan[x][c])
    BY <1>0 DEF CalmChan
  <2> QED BY <2>1, <2>2 DEF Calm
<1>3. ASSUME NEW x \in Ends PROVE CalmStep(S, T, x)
  <2>1. \A c : Listed(T, x, c) <=> Listed(S, x, c)
    BY <1>0 DEF Listed
  <2>2. LocalOK(T, x)
    BY <1>0 DEF LocalOK, Good
  <2>3. T.runs[x] => S.runs[x]
    BY DEF Same
  <2>4. ListShrinks(S, T, x) /\ ListStays(S, T, x) /\ Forgotten(S, T, x)
    BY <1>0, <2>1, <2>3 DEF ListShrinks, ListStays, Forgotten
  <2> QED BY <1>0, <2>2, <2>4 DEF CalmStep, Same
<1> QED BY <1>0, <1>1, <1>2, <1>3, CalmStepKeeps

View(i, h, l, q, r, o) == [in |-> i, chan |-> h, list |-> l, fresh |-> q, runs |-> r, open |-> o]

LEMMA ViewIs ==
  ASSUME NEW i, NEW h, NEW l, NEW q, NEW r, NEW o
  PROVE  /\ View(i, h, l, q, r, o).in = i /\ View(i, h, l, q, r, o).chan = h /\ View(i, h, l, q, r, o).list = l
         /\ View(i, h, l, q, r, o).fresh = q /\ View(i, h, l, q, r, o).runs = r /\ View(i, h, l, q, r, o).open = o
         /\ i \in [Ends -> Seq(PacketType)] /\ h \in [Ends -> Seq(ChannelType)] /\ l \in [Ends -> Seq(Nat)] /\ q \in [Ends -> Seq(Nat)]
              /\ r \in [Ends -> BOOLEAN] /\ o \in [Ends -> BOOLEAN] => View(i, h, l, q, r, o) \in ViewType
BY DEF View, ViewType

LEMMA ViewParts ==
  ASSUME NEW S \in ViewType
  PROVE  /\ S.in \in [Ends -> Seq(PacketType)] /\ S.chan \in [Ends -> Seq(ChannelType)] /\ S.list \in [Ends -> Seq(Nat)] /\ S.fresh \in [Ends -> Seq(Nat)]
         /\ S.runs \in [Ends -> BOOLEAN] /\ S.open \in [Ends -> BOOLEAN]
BY DEF ViewType

LEMMA StaysAsIs ==
  ASSUME NEW S \in ViewType, NEW T, NEW x \in Ends, T.in[x] = S.in[x], T.open[x] => S.open[x]
  PROVE  InStays(S, T, x) /\ ConfirmsStay(S, T, x) /\ InCalm(S.in[x], T.in[x], BothOpen(T))
<1>1. S.in[x] \in Seq(PacketType)
  BY ViewFields
<1>2. Shift(S.in[x], S.in[x], 0)
  BY <1>1, Shifts
<1>3. Shift(S.in[x], T.in[x], 0) /\ 0 # 1
  BY <1>2
<1>4. InStays(S, T, x)
  BY <1>3 DEF InStays
<1>5. ConfirmsStay(S, T, x)
  BY DEF ConfirmsStay
<1>6. InCalm(S.in[x], S.in[x], BothOpen(T))
  BY <1>1, CalmIns
<1> QED BY <1>4, <1>5, <1>6

\* The loop of e ends.
Halts(S, e) == View(S.in, S.chan, S.list, S.fresh, [S.runs EXCEPT ![e] = FALSE], S.open)
LEMMA HaltsKeeps ==
  ASSUME NEW S, Good(S), NEW e \in Ends
  PROVE  Good(Halts(S, e))
<1> DEFINE T == Halts(S, e) r == [S.runs EXCEPT ![e] = FALSE]
<1>0. S \in ViewType
  BY DEF Good
<1>1. r \in [Ends -> BOOLEAN] /\ \A x \in Ends : r[x] => S.runs[x]
  BY <1>0, ViewParts
<1>2. T.in = S.in /\ T.chan = S.chan /\ T.list = S.list /\ T.fresh = S.fresh /\ T.runs = r /\ T.open = S.open
  BY ViewIs DEF Halts
<1>3. T \in ViewType
  <2> HIDE DEF r
  <2>1. T = View(S.in, S.chan, S.list, S.fresh, r, S.open)
    BY DEF Halts, r
  <2>2. View(S.in, S.chan, S.list, S.fresh, r, S.open) \in ViewType
    BY <1>0, <1>1, ViewParts, ViewIs
  <2> QED BY <2>1, <2>2
<1> HIDE DEF T, r
<1>4. ASSUME NEW x \in Ends
      PROVE  (T.runs[x] => S.runs[x]) /\ (T.open[x] => S.open[x])
             /\ InCalm(S.in[x], T.in[x], BothOpen(T)) /\ InStays(S, T, x) /\ ConfirmsStay(S, T, x)
  <2>1. T.in[x] = S.in[x] /\ (T.open[x] => S.open[x]) /\ (T.runs[x] => S.runs[x])
    BY <1>1, <1>2
  <2> QED BY <1>0, <2>1, StaysAsIs
<1>5. Same(S, T)
  BY <1>2, <1>3, <1>4 DEF Same
<1>6. Good(T)
  BY <1>5, SameKeeps
<1> QED BY <1>6 DEF T

\* e closes the connection, and has at most the packet that the loop holds.
Cuts(S, e, w) == View([S.in EXCEPT ![e] = w], S.chan, S.list, S.fresh, S.runs, [S.open EXCEPT ![e] = FALSE])
LEMMA CutsKeeps ==
  ASSUME NEW S, Good(S), NEW e \in Ends, NEW w, w = <<>> \/ (S.in[e] # <<>> /\ w = <<Head(S.in[e])>>)
  PROVE  Good(Cuts(S, e, w))
<1> DEFINE T == Cuts(S, e, w) o == [S.open EXCEPT ![e] = FALSE] v == [S.in EXCEPT ![e] = w] u == S.in[e]
<1>0. S \in ViewType /\ u \in Seq(PacketType)
  BY ViewFields DEF Good
<1>1. o \in [Ends -> BOOLEAN] /\ (\A x \in Ends : o[x] => S.open[x]) /\ ~o[e]
  BY <1>0, ViewParts
<1>a. w \in Seq(PacketType) /\ Shift(u, w, 0)
  <2>1. w = <<>> \/ (u # <<>> /\ w = <<Head(u)>>)
    OBVIOUS
  <2> HIDE DEF u
  <2>2. CASE w = <<>>
    <3>1. Shift(u, <<>>, 0)
      BY <1>0, Shifts
    <3> QED BY <2>2, <3>1
  <2>3. CASE u # <<>> /\ w = <<Head(u)>>
    <3>1. Shift(u, <<Head(u)>>, 0)
      BY <1>0, <2>3, Shifts
    <3> QED BY <1>0, <2>3, <3>1
  <2> QED BY <2>1, <2>2, <2>3
<1>b. v \in [Ends -> Seq(PacketType)] /\ v[e] = w /\ \A x \in Ends : x # e => v[x] = S.in[x]
  BY <1>0, <1>a, ViewParts
<1>2. T.in = v /\ T.chan = S.chan /\ T.list = S.list /\ T.fresh = S.fresh /\ T.runs = S.runs /\ T.open = o
  BY ViewIs DEF Cuts
<1>3. T \in ViewType
  BY <1>0, <1>1, <1>b, ViewParts, ViewIs DEF Cuts
<1> HIDE DEF T, o, v
<1>4. ASSUME NEW x \in Ends
      PROVE  (T.runs[x] => S.runs[x]) /\ (T.open[x] => S.open[x])
             /\ InCalm(S.in[x], T.in[x], BothOpen(T)) /\ InStays(S, T, x) /\ ConfirmsStay(S, T, x)
  <2>1. (T.open[x] => S.open[x]) /\ (T.runs[x] => S.runs[x])
    BY <1>1, <1>2
  <2>2. CASE x # e
    BY <1>0, <1>2, <1>b, <2>1, <2>2, StaysAsIs
  <2>3. CASE x = e
    <3>1. ~BothOpen(T) /\ ~T.open[x] /\ T.in[x] = w /\ S.in[x] = u
      BY <1>1, <1>2, <1>b, <2>3 DEF BothOpen
    <3>2. ConfirmsStay(S, T, x)
      BY <3>1 DEF ConfirmsStay
    <3>3. 0 # 1
      OBVIOUS
    <3>4. InStays(S, T, x)
      BY <1>a, <3>1, <3>3 DEF InStays
    <3>5. InCalm(u, <<>>, BothOpen(T)) /\ (u # <<>> => InCalm(u, <<Head(u)>>, BothOpen(T)))
      BY <1>0, <3>1, CalmIns
    <3>6. InCalm(S.in[x], T.in[x], BothOpen(T))
      BY <3>1, <3>5
    <3> QED BY <2>1, <3>2, <3>4, <3>6
  <2> QED BY <2>2, <2>3
<1>5. Same(S, T)
  BY <1>2, <1>3, <1>4 DEF Same
<1>6. Good(T)
  BY <1>5, SameKeeps
<1> QED BY <1>6 DEF T

\* A packet of the connection is taken, or sent.
Passing(S, e, w) == View([S.in EXCEPT ![e] = w], S.chan, S.list, S.fresh, S.runs, S.open)
LEMMA PassingKeeps ==
  ASSUME NEW S, Good(S), NEW e \in Ends, NEW w,
         \/ S.in[e] # <<>> /\ w = Tail(S.in[e]) /\ Head(S.in[e]).kind \in Globals
         \/ \E p \in PacketType : p.kind \in Globals /\ w = Append(S.in[e], p)
  PROVE  Good(Passing(S, e, w))
<1> DEFINE T == Passing(S, e, w) v == [S.in EXCEPT ![e] = w] u == S.in[e]
<1>0. S \in ViewType /\ u \in Seq(PacketType)
  BY ViewFields DEF Good
<1>a. /\ w \in Seq(PacketType) /\ \A both : InCalm(u, w, both)
      /\ (\E k : Shift(u, w, k) /\ (k = 1 => u[1].kind # "confirm")) \/ \E p \in PacketType : w = Append(u, p) /\ p.kind \in Globals
      /\ \A j \in DOMAIN u : u[j].kind = "confirm" => \E i \in DOMAIN w : w[i] = u[j]
  <2>1. \/ u # <<>> /\ w = Tail(u) /\ Head(u).kind \in Globals
        \/ \E p \in PacketType : p.kind \in Globals /\ w = Append(u, p)
    OBVIOUS
  <2> HIDE DEF u
  <2>2. ASSUME u # <<>>, w = Tail(u), Head(u).kind \in Globals
        PROVE  /\ w \in Seq(PacketType) /\ \A both : InCalm(u, w, both)
               /\ \E k : Shift(u, w, k) /\ (k = 1 => u[1].kind # "confirm")
               /\ \A j \in DOMAIN u : u[j].kind = "confirm" => \E i \in DOMAIN w : w[i] = u[j]
    <3>1. w \in Seq(PacketType) /\ Head(u) = u[1]
      BY <1>0, <2>2
    <3>2. Quiet(Head(u)) /\ u[1].kind # "confirm"
      BY <2>2, <3>1 DEF Quiet, Globals
    <3>3. ASSUME NEW both PROVE InCalm(u, w, both)
      BY <1>0, <2>2, <3>2, CalmIns
    <3>4. Shift(u, w, 1)
      BY <1>0, <2>2, Shifts
    <3>5. ASSUME NEW j \in DOMAIN u, u[j].kind = "confirm" PROVE \E i \in DOMAIN w : w[i] = u[j]
      <4>1. j # 1
        BY <3>2, <3>5
      <4>2. j - 1 \in DOMAIN w /\ w[j - 1] = u[j]
        BY SMTT(40), <1>0, <2>2, <4>1
      <4> QED BY <4>2
    <3> QED BY <3>1, <3>2, <3>3, <3>4, <3>5
  <2>3. ASSUME NEW p \in PacketType, p.kind \in Globals, w = Append(u, p)
        PROVE  /\ w \in Seq(PacketType) /\ \A both : InCalm(u, w, both)
               /\ \A j \in DOMAIN u : u[j].kind = "confirm" => \E i \in DOMAIN w : w[i] = u[j]
    <3>1. w \in Seq(PacketType)
      BY <1>0, <2>3
    <3>2. Quiet(p)
      BY <2>3 DEF Quiet, Globals
    <3>3. ASSUME NEW both PROVE InCalm(u, w, both)
      BY <1>0, <2>3, <3>2, CalmIns
    <3>4. ASSUME NEW j \in DOMAIN u PROVE j \in DOMAIN w /\ w[j] = u[j]
      BY ZenonT(60), SMTT(40), <1>0, <2>3
    <3> QED BY <3>1, <3>3, <3>4
  <2> QED BY <2>1, <2>2, <2>3
<1>b. v \in [Ends -> Seq(PacketType)] /\ v[e] = w /\ \A x \in Ends : x # e => v[x] = S.in[x]
  BY <1>0, <1>a, ViewParts
<1>2. T.in = v /\ T.chan = S.chan /\ T.list = S.list /\ T.fresh = S.fresh /\ T.runs = S.runs /\ T.open = S.open
  BY ViewIs DEF Passing
<1>3. T \in ViewType
  <2> HIDE DEF v
  <2>1. T = View(v, S.chan, S.list, S.fresh, S.runs, S.open)
    BY DEF Passing, v
  <2>2. View(v, S.chan, S.list, S.fresh, S.runs, S.open) \in ViewType
    BY <1>0, <1>b, ViewParts, ViewIs
  <2> QED BY <2>1, <2>2
<1> HIDE DEF T, v
<1>4. ASSUME NEW x \in Ends
      PROVE  (T.runs[x] => S.runs[x]) /\ (T.open[x] => S.open[x])
             /\ InCalm(S.in[x], T.in[x], BothOpen(T)) /\ InStays(S, T, x) /\ ConfirmsStay(S, T, x)
  <2>1. (T.open[x] => S.open[x]) /\ (T.runs[x] => S.runs[x])
    BY <1>2
  <2>2. CASE x # e
    BY <1>0, <1>2, <1>b, <2>1, <2>2, StaysAsIs
  <2>3. CASE x = e
    <3>1. T.in[x] = w /\ S.in[x] = u
      BY <1>2, <1>b, <2>3
    <3>2. ConfirmsStay(S, T, x)
      BY <1>a, <2>1, <3>1 DEF ConfirmsStay
    <3>4. InStays(S, T, x)
      BY <1>a, <3>1 DEF InStays
    <3>6. InCalm(S.in[x], T.in[x], BothOpen(T))
      BY <1>a, <3>1
    <3> QED BY <2>1, <3>2, <3>4, <3>6
  <2> QED BY <2>2, <2>3
<1>5. Same(S, T)
  BY <1>2, <1>3, <1>4 DEF Same
<1>6. Good(T)
  BY <1>5, SameKeeps
<1> QED BY <1>6 DEF T

LEMMA ShutFacts ==
  ASSUME NEW ch \in ChannelType, Local(ch)
  PROVE  Shut(ch) \in ChannelType /\ Local(Shut(ch)) /\ Keeps(ch, Shut(ch)) /\ CalmChan(ch, Shut(ch))
<1> DEFINE b == Shut(ch)
<1>1. b \in ChannelType
  BY DEF Shut, ChannelType
<1>2. b.dir = ch.dir /\ b.user = ch.user /\ b.localId = ch.localId /\ b.remoteId = ch.remoteId /\ b.decided = ch.decided /\ b.sentClose = TRUE
      /\ b.win = ch.win /\ b.winClosed = TRUE /\ b.myWindow = ch.myWindow /\ b.pending = ch.pending /\ b.msg = ch.msg /\ b.reqs = ch.reqs
      /\ b.closed = TRUE /\ b.todo = ch.todo /\ b.reserved = ch.reserved /\ b.taken = ch.taken /\ b.owed = ch.owed /\ b.waits = ch.waits
      /\ b.peer = ch.peer /\ b.lost = ch.lost
  BY DEF Shut, ChannelType
<1> HIDE DEF b
<1>3. Keeps(ch, b) /\ CalmChan(ch, b)
  BY <1>2 DEF Keeps, CalmChan
<1>4. Local(b)
  BY <1>2 DEF Local
<1> QED BY <1>1, <1>3, <1>4 DEF b

\* The channels of e in K are closed, and its list becomes l; s comes to e.
Closes(S, e, K, l, s) ==
  View([S.in EXCEPT ![e] = s],
       [S.chan EXCEPT ![e] = [c \in DOMAIN S.chan[e] |-> IF c \in K THEN Shut(S.chan[e][c]) ELSE S.chan[e][c]]],
       [S.list EXCEPT ![e] = l], S.fresh, S.runs, S.open)

IsClosing(S, T, e, K, l, s) ==
  /\ T \in ViewType /\ T.in[e] = s /\ T.in[Peer(e)] = S.in[Peer(e)] /\ T.list[e] = l /\ T.list[Peer(e)] = S.list[Peer(e)]
  /\ T.chan[Peer(e)] = S.chan[Peer(e)] /\ DOMAIN T.chan[e] = DOMAIN S.chan[e]
  /\ \A c \in DOMAIN S.chan[e] : T.chan[e][c] = IF c \in K THEN Shut(S.chan[e][c]) ELSE S.chan[e][c]
  /\ T.fresh = S.fresh /\ T.runs = S.runs /\ T.open = S.open

LEMMA ClosesFields ==
  ASSUME NEW S, Good(S), NEW e \in Ends, NEW K, NEW l \in Seq(Nat), NEW s \in Seq(PacketType)
  PROVE  IsClosing(S, Closes(S, e, K, l, s), e, K, l, s)
<1> DEFINE T == Closes(S, e, K, l, s) f == Peer(e)
           w == [c \in DOMAIN S.chan[e] |-> IF c \in K THEN Shut(S.chan[e][c]) ELSE S.chan[e][c]]
           i == [S.in EXCEPT ![e] = s] h == [S.chan EXCEPT ![e] = w] m == [S.list EXCEPT ![e] = l]
<1>0. S \in ViewType /\ LocalOK(S, e)
  BY DEF Good
<1>1. f \in Ends /\ f # e
  BY PeerFacts
<1>2. w \in Seq(ChannelType) /\ DOMAIN w = DOMAIN S.chan[e]
  <2>1. \A c \in DOMAIN S.chan[e] : S.chan[e][c] \in ChannelType /\ Local(S.chan[e][c])
    BY <1>0, ViewItems DEF LocalOK
  <2>2. \A c \in DOMAIN S.chan[e] : w[c] \in ChannelType
    BY <2>1, ShutFacts
  <2>3. DOMAIN S.chan[e] = 1..Len(S.chan[e]) /\ Len(S.chan[e]) \in Nat /\ DOMAIN w = DOMAIN S.chan[e]
    BY <1>0, ViewItems
  <2>4. w = [c \in 1..Len(S.chan[e]) |-> w[c]]
    BY <2>3
  <2> DEFINE n == Len(S.chan[e])
  <2>5. n \in Nat /\ w = [c \in 1..n |-> w[c]] /\ \A c \in 1..n : w[c] \in ChannelType
    BY <2>2, <2>3, <2>4
  <2> HIDE DEF w, n
  <2>6. w \in Seq(ChannelType)
    BY SMTT(40), <2>5
  <2> QED BY <2>3, <2>6
<1>a. T = View(i, h, m, S.fresh, S.runs, S.open)
  BY DEF Closes
<1>b. \A c \in DOMAIN S.chan[e] : w[c] = IF c \in K THEN Shut(S.chan[e][c]) ELSE S.chan[e][c]
  OBVIOUS
<1> HIDE DEF w
<1>3. h \in [Ends -> Seq(ChannelType)] /\ h[e] = w /\ h[f] = S.chan[f]
  BY <1>0, <1>1, <1>2, ViewParts
<1>4. i \in [Ends -> Seq(PacketType)] /\ i[e] = s /\ i[f] = S.in[f] /\ m \in [Ends -> Seq(Nat)] /\ m[e] = l /\ m[f] = S.list[f]
  BY <1>0, <1>1, ViewParts
<1> HIDE DEF i, h, m, T
<1>5. T \in ViewType
  BY <1>0, <1>3, <1>4, <1>a, ViewParts, ViewIs
<1>6. T.in = i /\ T.chan = h /\ T.list = m /\ T.fresh = S.fresh /\ T.runs = S.runs /\ T.open = S.open
  BY <1>a, ViewIs
<1>7. IsClosing(S, T, e, K, l, s)
  BY <1>2, <1>3, <1>4, <1>5, <1>6, <1>b DEF IsClosing
<1> QED BY <1>7 DEF T

LEMMA ClosesKeeps ==
  ASSUME NEW S, Good(S), NEW e \in Ends, NEW K, NEW l \in Seq(Nat), NEW s \in Seq(PacketType), NEW T, IsClosing(S, T, e, K, l, s),
         InCalm(S.in[e], s, BothOpen(T)), InStays(S, T, e), ConfirmsStay(S, T, e), ListShrinks(S, T, e), ListStays(S, T, e), Forgotten(S, T, e)
  PROVE  Good(T) /\ ChanKeeps(S, T)
<1> DEFINE f == Peer(e)
<1>0. S \in ViewType /\ T \in ViewType /\ f \in Ends /\ \A x \in Ends : x = e \/ x = f
  BY PeerFacts DEF Good, IsClosing
<1>1. /\ T.in[e] = s /\ T.in[f] = S.in[f] /\ T.list[f] = S.list[f] /\ T.chan[f] = S.chan[f] /\ DOMAIN T.chan[e] = DOMAIN S.chan[e]
      /\ \A c \in DOMAIN S.chan[e] : T.chan[e][c] = Shut(S.chan[e][c]) \/ T.chan[e][c] = S.chan[e][c]
      /\ T.fresh = S.fresh /\ T.runs = S.runs /\ T.open = S.open
  BY DEF IsClosing
<1>2. ASSUME NEW x \in Ends, NEW c \in DOMAIN S.chan[x]
      PROVE  Local(T.chan[x][c]) /\ Keeps(S.chan[x][c], T.chan[x][c]) /\ CalmChan(S.chan[x][c], T.chan[x][c])
  <2>1. S.chan[x][c] \in ChannelType /\ Local(S.chan[x][c])
    BY <1>0, ViewItems DEF Good, LocalOK
  <2>2. T.chan[x][c] = S.chan[x][c] \/ T.chan[x][c] = Shut(S.chan[x][c])
    BY <1>0, <1>1
  <2>3. \A a : Keeps(a, a) /\ CalmChan(a, a)
    BY DEF Keeps, CalmChan
  <2> QED BY <2>1, <2>2, <2>3, ShutFacts
<1>3. \A x \in Ends : DOMAIN T.chan[x] = DOMAIN S.chan[x]
  BY <1>0, <1>1
<1>4. ChanKeeps(S, T)
  BY <1>2, <1>3 DEF ChanKeeps
<1>5. InStays(S, T, f) /\ ConfirmsStay(S, T, f) /\ InCalm(S.in[f], T.in[f], BothOpen(T))
  BY <1>0, <1>1, StaysAsIs
<1>6. \A x \in Ends : InCalm(S.in[x], T.in[x], BothOpen(T))
  BY <1>0, <1>1, <1>5
<1>7. Calm(S, T)
  <2>1. CalmIn(S, T)
    BY <1>1, <1>6 DEF CalmIn, InCalm
  <2> QED BY <1>2, <2>1 DEF Calm
<1>8. \A x \in Ends : LocalOK(T, x)
  BY <1>2, <1>3 DEF LocalOK
<1>9. ListShrinks(S, T, f) /\ ListStays(S, T, f) /\ Forgotten(S, T, f)
  <2>1. \A c : Listed(T, f, c) <=> Listed(S, f, c)
    BY <1>1 DEF Listed
  <2> QED BY <1>1, <2>1 DEF ListShrinks, ListStays, Forgotten
<1>10. ASSUME NEW x \in Ends PROVE CalmStep(S, T, x)
  <2>1. CASE x = e
    BY <1>1, <1>8, <2>1 DEF CalmStep
  <2>2. CASE x = f
    BY <1>1, <1>5, <1>8, <1>9, <2>2 DEF CalmStep
  <2> QED BY <1>0, <2>1, <2>2
<1>11. Good(T)
  BY <1>0, <1>4, <1>7, <1>10, CalmStepKeeps
<1> QED BY <1>4, <1>11

\* The loop has ended: every channel of e is closed.
LEMMA DropsKeeps ==
  ASSUME NEW S, Good(S), NEW e \in Ends, ~S.runs[e], NEW K
  PROVE  Good(Closes(S, e, K, <<>>, S.in[e]))
<1> DEFINE T == Closes(S, e, K, <<>>, S.in[e])
<1>0. S \in ViewType /\ S.in[e] \in Seq(PacketType) /\ <<>> \in Seq(Nat)
  BY ViewFields DEF Good
<1>1. IsClosing(S, T, e, K, <<>>, S.in[e])
  BY <1>0, ClosesFields
<1> HIDE DEF T
<1>2. T.in[e] = S.in[e] /\ T.open = S.open /\ T.list[e] = <<>> /\ ~T.runs[e]
  BY <1>1 DEF IsClosing
<1>3. InStays(S, T, e) /\ ConfirmsStay(S, T, e) /\ InCalm(S.in[e], T.in[e], BothOpen(T))
  BY <1>0, <1>2, StaysAsIs
<1>4. DOMAIN T.list[e] = {}
  BY <1>2
<1>5. ListShrinks(S, T, e) /\ ListStays(S, T, e) /\ Forgotten(S, T, e)
  BY <1>2, <1>4 DEF ListShrinks, ListStays, Forgotten
<1>6. InCalm(S.in[e], S.in[e], BothOpen(T))
  BY <1>2, <1>3
<1>7. Good(T)
  BY <1>0, <1>1, <1>3, <1>5, <1>6, ClosesKeeps
<1> QED BY <1>7 DEF T

\* A channel that is forgotten alone.
LEMMA ForgetOne ==
  ASSUME NEW l \in Seq(Nat), NEW i \in Nat
  PROVE  /\ Forget(l, i) \in Seq(Nat) /\ GetChan(Forget(l, i), i) = 0 /\ DOMAIN Forget(l, i) = DOMAIN l
         /\ \A j : j # i => GetChan(Forget(l, i), j) = GetChan(l, j)
         /\ \A j \in DOMAIN l : Forget(l, i)[j] # 0 => Forget(l, i)[j] = l[j]
<1>1. Forget(l, i) \in Seq(Nat) /\ DOMAIN Forget(l, i) = DOMAIN l /\ Len(Forget(l, i)) = Len(l) /\ DOMAIN l = 1..Len(l)
  BY DEF Forget
<1>2. GetChan(Forget(l, i), i) = 0
  BY <1>1 DEF Forget, GetChan
<1>3. \A j : j # i => GetChan(Forget(l, i), j) = GetChan(l, j)
  BY <1>1 DEF Forget, GetChan
<1>4. \A j \in DOMAIN l : Forget(l, i)[j] # 0 => Forget(l, i)[j] = l[j]
  BY <1>1 DEF Forget
<1> QED BY <1>1, <1>2, <1>3, <1>4

\* A close arrives at a channel that has sent its own.
LEMMA CloseArrives ==
  ASSUME NEW S, Good(S), NEW e \in Ends, S.runs[e], S.in[e] # <<>>, Head(S.in[e]).kind = "close",
         NEW c, c = S.chan[Peer(e)][Head(S.in[e]).from].peer
  PROVE  Good(Closes(S, e, {c}, Forget(S.list[e], S.chan[e][c].localId), Tail(S.in[e])))
<1> DEFINE f == Peer(e) w == S.in[e] p == Head(w) d == p.from l == Forget(S.list[e], S.chan[e][c].localId) s == Tail(w) T == Closes(S, e, {c}, l, s)
<1>0. S \in ViewType /\ w \in Seq(PacketType) /\ f \in Ends /\ Peer(f) = e /\ S.list[e] \in Seq(Nat) /\ w # <<>>
  BY ViewFields, PeerFacts DEF Good
<1>1. 1 \in DOMAIN w /\ p = w[1] /\ s \in Seq(PacketType) /\ (\A j \in DOMAIN w : ~(j < 1)) /\ p.kind = "close" /\ c = S.chan[f][d].peer
  <2>1. p.kind = "close" /\ c = S.chan[f][d].peer
    OBVIOUS
  <2>2. 1 \in DOMAIN w /\ p = w[1] /\ s \in Seq(PacketType) /\ (\A j \in DOMAIN w : ~(j < 1))
    <3> HIDE DEF w
    <3> QED BY <1>0
  <2> QED BY <2>1, <2>2
<1>2. Carries(p) /\ p.kind \notin Responses
  BY <1>1 DEF Carries, Responses, Globals
<1>3. PacketIs(S, e, p) /\ Told(S, e, d)
  BY <1>1, <1>2 DEF Good, PacketsOK
<1>4. d \in DOMAIN S.chan[f] /\ c # 0 /\ Listed(S, e, c) /\ S.chan[f][d].sentClose
  BY ZenonT(60), <1>1, <1>2, <1>3 DEF PacketIs
<1>5. S.chan[e][c].peer = d
  BY ZenonT(60), <1>1, <1>3 DEF Told
<1>6. IsPartner(S, f, d, e, c)
  <2>1. PeersOK(S, f)
    BY <1>0 DEF Good
  <2> QED BY ZenonT(60), <1>0, <1>1, <1>4, <2>1, Partner
<1>7. c \in DOMAIN S.chan[e] /\ (\A x \in DOMAIN S.chan[f] : S.chan[f][x].peer = c => x = d)
  BY ZenonT(60), <1>6 DEF IsPartner
<1>8. S.chan[e][c] \in ChannelType /\ Local(S.chan[e][c]) /\ S.chan[e][c].localId \in Nat
  BY ZenonT(60), <1>0, <1>7, ViewItems, ChannelFields DEF Good, LocalOK
<1> DEFINE i == S.chan[e][c].localId
<1>9. l \in Seq(Nat) /\ GetChan(l, i) = 0 /\ DOMAIN l = DOMAIN S.list[e] /\ (\A j : j # i => GetChan(l, j) = GetChan(S.list[e], j))
      /\ \A j \in DOMAIN S.list[e] : l[j] # 0 => l[j] = S.list[e][j]
  BY ZenonT(60), <1>0, <1>8, ForgetOne
<1>10. IsClosing(S, T, e, {c}, l, s)
  BY ZenonT(60), <1>1, <1>9, ClosesFields
<1>a. GetChan(S.list[e], i) = c
  BY ZenonT(60), <1>4 DEF Listed
<1> HIDE DEF T, l, i
<1>11. T.in[e] = s /\ T.list[e] = l /\ T.runs = S.runs /\ T.open = S.open /\ \A z \in DOMAIN S.chan[e] : T.chan[e][z] = IF z \in {c} THEN Shut(S.chan[e][z]) ELSE S.chan[e][z]
  BY <1>10 DEF IsClosing
<1>12. \A z \in DOMAIN S.chan[e] : T.chan[e][z].localId = S.chan[e][z].localId
  <2>1. Shut(S.chan[e][c]).localId = S.chan[e][c].localId
    BY ZenonT(60), <1>8, ShutFacts DEF Keeps
  <2> QED BY ZenonT(60), <1>11, <2>1
<1>13. ~Listed(T, e, c)
  BY ZenonT(60), <1>4, <1>7, <1>9, <1>11, <1>12 DEF Listed, i
<1>14. ASSUME NEW z \in DOMAIN S.chan[e], z # c, Listed(S, e, z) PROVE Listed(T, e, z)
  <2>1. GetChan(S.list[e], S.chan[e][z].localId) = z
    BY <1>14 DEF Listed
  <2>2. S.chan[e][z].localId # i
    BY <1>14, <2>1, <1>a
  <2>3. GetChan(l, S.chan[e][z].localId) = z
    BY <1>9, <2>1, <2>2
  <2> QED BY <1>11, <1>12, <2>3 DEF Listed
<1>15. Through(S, e, c)
  <2>1. S.chan[e][c].decided
    <3>1. S.chan[e][c].dir = "out" \/ S.chan[e][c].dir = "in"
      BY ZenonT(60), <1>6 DEF IsPartner
    <3>2. CASE S.chan[e][c].dir = "out"
      <4>1. d # 0
        BY ZenonT(60), <1>0, <1>4, ViewItems
      <4> QED BY ZenonT(60), <1>5, <1>8, <3>2, <4>1 DEF Local
    <3>3. CASE S.chan[e][c].dir = "in"
      <4>1. S.chan[e][c].user = "open"
        BY ZenonT(60), <1>6, <3>3 DEF IsPartner
      <4> QED BY ZenonT(60), <1>8, <3>3, <4>1 DEF Local
    <3> QED BY ZenonT(60), <3>1, <3>2, <3>3
  <2> QED BY ZenonT(60), <1>1, <1>4, <1>5, <1>7, <2>1 DEF Through, Done
<1>16. ListShrinks(S, T, e)
  BY ZenonT(60), <1>9, <1>11, <1>13 DEF ListShrinks
<1>17. Forgotten(S, T, e)
  BY ZenonT(60), <1>11, <1>14, <1>15 DEF Forgotten
<1>18. Shift(w, s, 1)
  BY <1>0, Shifts
<1>19. ListStays(S, T, e)
  <2> SUFFICES ASSUME NEW j \in DOMAIN s, Carries(s[j]), Listed(S, e, S.chan[f][s[j].from].peer) PROVE Listed(T, e, S.chan[f][s[j].from].peer)
    BY <1>11 DEF ListStays
  <2> DEFINE z == S.chan[f][s[j].from].peer
  <2>1. j \in Nat /\ j + 1 \in DOMAIN w /\ s[j] = w[j + 1] /\ 1 < j + 1
    <3>1. j \in Nat /\ 1 < j + 1
      <4>1. s \in Seq(PacketType) /\ j \in DOMAIN s
        BY ZenonT(60), <1>1
      <4> HIDE DEF s
      <4> QED BY <4>1
    <3>2. j + 1 \in DOMAIN w /\ s[j] = w[j + 1]
      BY ZenonT(60), <1>18 DEF Shift
    <3> QED BY ZenonT(60), <3>1, <3>2
  <2>2. z \in DOMAIN S.chan[e] /\ s[j].from \in DOMAIN S.chan[f]
    BY ZenonT(60), <2>1, KnownBefore
  <2>3. z # c
    <3> SUFFICES ASSUME z = c PROVE FALSE
      BY ZenonT(60)
    <3>1. s[j].from = d
      BY ZenonT(60), <1>7, <2>2
    <3>2. Orders(w[1], w[j + 1])
      BY ZenonT(60), <1>1, <2>1 DEF Good, PacketsOK
    <3> QED BY ZenonT(60), <1>1, <1>2, <2>1, <3>1, <3>2 DEF Orders
  <2> HIDE DEF z
  <2>4. Listed(S, e, z)
    BY ZenonT(60) DEF z
  <2>5. Listed(T, e, z)
    BY ZenonT(60), <1>14, <2>2, <2>3, <2>4
  <2> QED BY ZenonT(60), <2>5 DEF z
<1>20. InStays(S, T, e)
  <2>1. Shift(S.in[e], T.in[e], 1) /\ S.in[e][1].kind # "confirm"
    BY <1>1, <1>11, <1>18
  <2> QED BY <2>1 DEF InStays
<1>21. ConfirmsStay(S, T, e)
  <2> SUFFICES ASSUME NEW j \in DOMAIN w, w[j].kind = "confirm" PROVE \E x \in DOMAIN s : s[x] = w[j]
    BY <1>11 DEF ConfirmsStay
  <2> HIDE DEF w
  <2>1. j # 1
    BY <1>1
  <2>2. j - 1 \in DOMAIN s /\ s[j - 1] = w[j]
    BY <1>0, <2>1
  <2> QED BY <2>2
<1>22. InCalm(w, s, BothOpen(T))
  <2>1. Quiet(p)
    BY <1>1 DEF Quiet
  <2> QED BY <1>0, <2>1, CalmIns
<1>23. Good(T)
  BY ZenonT(60), <1>1, <1>9, <1>10, <1>16, <1>17, <1>19, <1>20, <1>21, <1>22, ClosesKeeps
<1> QED BY ZenonT(60), <1>23 DEF T, l, i

-----------------------------------------------------------------------------
(* The answer to an open arrives *)

\* The first packet for e is the answer of channel d of the peer to channel c of e.
Ready(S, e, c, d) ==
  LET f == Peer(e) a == S.chan[e][c] o == S.chan[f][d] p == S.in[e][1] IN
  /\ d \in DOMAIN S.chan[f] /\ c \in DOMAIN S.chan[e] /\ c # 0 /\ d # 0 /\ o.peer = c /\ o.dir = "in" /\ Listed(S, e, c)
  /\ a.dir = "out" /\ ~a.decided /\ a.peer = 0 /\ a.win = 0 /\ a.msg = <<>> /\ a.user = "opening" /\ ~a.closed /\ o.remoteId = a.localId
  /\ a.reserved = 0 /\ a.owed = 0 /\ a.taken = 0 /\ a.todo = 0 /\ ~a.waits
  /\ 1 \in DOMAIN S.in[e] /\ p \in PacketType /\ p.from = d /\ p.kind \in Responses /\ p.id = a.localId
  /\ p.kind = "confirm" => o.user = "open" /\ p.aux = o.localId /\ p.n = WindowSize
  /\ p.kind = "failure" => o.user = "none"
  /\ \A x \in DOMAIN S.chan[f] : S.chan[f][x].peer = c => x = d
  /\ \A x \in DOMAIN S.chan[e] : S.chan[e][x].peer # d

LEMMA AnswerReady ==
  ASSUME NEW S, Good(S), NEW e \in Ends, S.runs[e], S.in[e] # <<>>, Head(S.in[e]).kind \in Responses,
         NEW d, d = Head(S.in[e]).from, NEW c, c = S.chan[Peer(e)][d].peer
  PROVE  Ready(S, e, c, d)
<1> DEFINE f == Peer(e) w == S.in[e] p == Head(w) a == S.chan[e][c] o == S.chan[f][d]
<1>0. S \in ViewType /\ w \in Seq(PacketType) /\ f \in Ends /\ Peer(f) = e /\ w # <<>>
  BY ViewFields, PeerFacts DEF Good
<1>1. 1 \in DOMAIN w /\ p = w[1] /\ p \in PacketType
  <2> HIDE DEF w
  <2> QED BY <1>0
<1>2. Carries(p) /\ p.kind \in Responses /\ p.from = d /\ c = o.peer
  BY DEF Carries, Responses, Globals
<1>3. PacketIs(S, e, p)
  BY <1>1 DEF Good, PacketsOK
<1>4. d \in DOMAIN S.chan[f] /\ c # 0 /\ p.id = a.localId /\ Listed(S, e, c) /\ (p.kind = "failure" => o.user = "none")
      /\ (p.kind = "confirm" => o.user = "open" /\ p.aux = o.localId /\ p.n = WindowSize) /\ o.dir = "in" /\ ~a.decided
  BY ZenonT(60), <1>2, <1>3 DEF PacketIs
<1>5. IsPartner(S, f, d, e, c)
  <2>1. PeersOK(S, f)
    BY <1>0 DEF Good
  <2> QED BY ZenonT(60), <1>0, <1>2, <1>4, <2>1, Partner
<1>6. c \in DOMAIN S.chan[e] /\ a.dir = "out" /\ o.remoteId = a.localId /\ \A x \in DOMAIN S.chan[f] : S.chan[f][x].peer = c => x = d
  BY ZenonT(60), <1>4, <1>5 DEF IsPartner
<1>7. a \in ChannelType /\ Local(a) /\ o \in ChannelType /\ d # 0
  BY ZenonT(60), <1>0, <1>4, <1>6, ViewItems DEF Good, LocalOK
<1>8. a.peer = 0 /\ a.msg = <<>> /\ a.user # "waiting" /\ a.user # "open"
  BY ZenonT(60), <1>4, <1>6, <1>7 DEF Local
<1>9. a.win = 0 /\ a.reserved = 0 /\ a.owed = 0 /\ a.taken = 0 /\ a.todo = 0 /\ ~a.waits
  BY ZenonT(60), <1>7, <1>8 DEF Local
<1>10. ~a.closed
  BY ZenonT(60), <1>4, <1>6 DEF Good, ListOK
<1>11. a.user = "opening"
  <2> DEFINE A == Tells(w, d) B == Amount(S.in[f], "request", c) r == Answers(o) m == Len(a.msg) z == Tells(Tail(w), d) v == Tell(p, d)
  <2>1. A + B + r + m <= Waits(a)
    <3>1. AnswerIs(S, e, d)
      BY ZenonT(60), <1>4 DEF Good, AnswersOK
    <3> QED BY ZenonT(60), <1>2, <1>4, <1>10, <3>1 DEF AnswerIs
  <2>2. v = 1
    BY <1>2 DEF Tell
  <2>3. A = v + z
    BY <1>0, <1>1, TellsMoves
  <2>4. z \in Nat
    <3>1. Tail(w) \in Seq(PacketType)
      <4> HIDE DEF w
      <4> QED BY <1>0
    <3> QED BY <3>1, AmountNat
  <2>5. B \in Nat /\ r \in Nat /\ m \in Nat
    BY ZenonT(60), <1>0, <1>7, AmountNat, ViewFields, ChannelFields
  <2> HIDE DEF A, B, r, m, z, v
  <2>6. Waits(a) # 0
    <3> SUFFICES ASSUME Waits(a) = 0 PROVE FALSE
      BY ZenonT(60)
    <3>1. A + B + r + m <= 0
      BY <2>1
    <3> QED BY SMTT(40), <2>2, <2>3, <2>4, <2>5, <3>1
  <2> QED BY ZenonT(60), <1>9, <2>6 DEF Waits
<1>12. ASSUME NEW x \in DOMAIN S.chan[e], S.chan[e][x].peer = d PROVE FALSE
  <2>1. PeersOK(S, e)
    BY DEF Good
  <2>2. IsPartner(S, e, x, f, d)
    BY ZenonT(60), <1>0, <1>7, <1>12, <2>1, Partner
  <2>3. x = c
    BY ZenonT(60), <1>2, <1>4, <2>2 DEF IsPartner
  <2> QED BY ZenonT(60), <1>7, <1>8, <1>12, <2>3
<1> QED BY ZenonT(60), <1>1, <1>2, <1>4, <1>6, <1>7, <1>8, <1>9, <1>10, <1>11, <1>12 DEF Ready

\* The channel is told, and forgets its id when it was refused.
Answered(S, e, c, b, l) ==
  View([S.in EXCEPT ![e] = Tail(S.in[e])], [S.chan EXCEPT ![e] = [@ EXCEPT ![c] = b]], [S.list EXCEPT ![e] = l], S.fresh, S.runs, S.open)
Learns(a, b, p, d) ==
  /\ b \in ChannelType /\ Local(b) /\ b.decided /\ b.msg = <<p.kind>>
  /\ b.dir = a.dir /\ b.localId = a.localId /\ b.user = a.user /\ b.closed = a.closed /\ b.sentClose = a.sentClose /\ b.winClosed = a.winClosed
  /\ b.reserved = a.reserved /\ b.taken = a.taken /\ b.owed = a.owed /\ b.reqs = a.reqs /\ b.waits = a.waits /\ b.myWindow = a.myWindow
  /\ p.kind = "confirm" => b.peer = d /\ b.remoteId = p.aux /\ b.win = WindowSize
  /\ p.kind = "failure" => b.peer = 0 /\ b.win = 0
IsAnswered(S, T, e, c, d, b) ==
  LET f == Peer(e) p == S.in[e][1] IN
  /\ Ready(S, e, c, d) /\ Learns(S.chan[e][c], b, p, d)
  /\ T \in ViewType /\ T.in[f] = S.in[f] /\ S.in[e] # <<>> /\ T.in[e] = Tail(S.in[e]) /\ T.chan[f] = S.chan[f] /\ DOMAIN T.chan[e] = DOMAIN S.chan[e]
  /\ T.chan[e][c] = b /\ \A x \in DOMAIN S.chan[e] : x # c => T.chan[e][x] = S.chan[e][x]
  /\ T.list[f] = S.list[f] /\ (p.kind = "confirm" => T.list[e] = S.list[e]) /\ (p.kind = "failure" => T.list[e] = Forget(S.list[e], S.chan[e][c].localId))
  /\ T.fresh = S.fresh /\ T.runs = S.runs /\ T.open = S.open

LEMMA AnsweredFields ==
  ASSUME NEW S, Good(S), NEW e \in Ends, S.in[e] # <<>>, NEW c, NEW d, Ready(S, e, c, d), NEW b, Learns(S.chan[e][c], b, S.in[e][1], d), NEW l,
         l = IF S.in[e][1].kind = "confirm" THEN S.list[e] ELSE Forget(S.list[e], S.chan[e][c].localId)
  PROVE  IsAnswered(S, Answered(S, e, c, b, l), e, c, d, b)
<1> DEFINE f == Peer(e) T == Answered(S, e, c, b, l) w == [S.chan[e] EXCEPT ![c] = b] i == [S.in EXCEPT ![e] = Tail(S.in[e])]
           h == [S.chan EXCEPT ![e] = w] m == [S.list EXCEPT ![e] = l] p == S.in[e][1]
<1>0. S \in ViewType /\ f \in Ends /\ f # e
  BY PeerFacts DEF Good
<1>1. c \in DOMAIN S.chan[e] /\ b \in ChannelType /\ S.chan[e][c].localId \in Nat
  <2>1. c \in DOMAIN S.chan[e] /\ b \in ChannelType
    BY DEF Ready, Learns
  <2> QED BY <1>0, <2>1, ViewItems, ChannelFields
<1>2. S.chan[e] \in Seq(ChannelType) /\ S.in[e] \in Seq(PacketType) /\ S.list[e] \in Seq(Nat)
  BY <1>0, ViewFields
<1>3. w \in Seq(ChannelType) /\ DOMAIN w = DOMAIN S.chan[e] /\ w[c] = b /\ \A x \in DOMAIN S.chan[e] : x # c => w[x] = S.chan[e][x]
  BY <1>1, <1>2
<1>4. l \in Seq(Nat) /\ (p.kind = "confirm" => l = S.list[e]) /\ (p.kind = "failure" => l = Forget(S.list[e], S.chan[e][c].localId))
  BY <1>1, <1>2, ForgetOne
<1>5. Tail(S.in[e]) \in Seq(PacketType)
  <2> DEFINE z == S.in[e]
  <2>1. z \in Seq(PacketType) /\ z # <<>>
    BY <1>2
  <2> HIDE DEF z
  <2>2. Tail(z) \in Seq(PacketType)
    BY <2>1
  <2> QED BY <2>2 DEF z
<1>6. T = View(i, h, m, S.fresh, S.runs, S.open)
  BY DEF Answered
<1> HIDE DEF w
<1>7. h \in [Ends -> Seq(ChannelType)] /\ h[e] = w /\ h[f] = S.chan[f]
  BY <1>0, <1>3, ViewParts
<1>8. i \in [Ends -> Seq(PacketType)] /\ i[e] = Tail(S.in[e]) /\ i[f] = S.in[f]
  BY <1>0, <1>5, ViewParts
<1>9. m \in [Ends -> Seq(Nat)] /\ m[e] = l /\ m[f] = S.list[f]
  BY <1>0, <1>4, ViewParts
<1> HIDE DEF i, h, m, T
<1>10. T \in ViewType
  BY <1>0, <1>6, <1>7, <1>8, <1>9, ViewParts, ViewIs
<1>11. T.in = i /\ T.chan = h /\ T.list = m /\ T.fresh = S.fresh /\ T.runs = S.runs /\ T.open = S.open
  BY <1>6, ViewIs
<1>12. IsAnswered(S, T, e, c, d, b)
  BY <1>3, <1>4, <1>7, <1>8, <1>9, <1>10, <1>11 DEF IsAnswered
<1> QED BY <1>12 DEF T

LEMMA AnsweredListed ==
  ASSUME NEW S, Good(S), NEW T, NEW e \in Ends, NEW c, NEW d, NEW b, IsAnswered(S, T, e, c, d, b)
  PROVE  /\ \A x \in DOMAIN S.chan[e] : T.chan[e][x].localId = S.chan[e][x].localId /\ T.chan[e][x].closed = S.chan[e][x].closed
                                        /\ T.chan[e][x].user = S.chan[e][x].user
         /\ \A x \in DOMAIN S.chan[e] : x # c => (Listed(T, e, x) <=> Listed(S, e, x))
         /\ S.in[e][1].kind = "confirm" => Listed(T, e, c)
         /\ \A z : Listed(T, Peer(e), z) <=> Listed(S, Peer(e), z)
         /\ \A i \in DOMAIN T.list[e] : T.list[e][i] # 0 => i \in DOMAIN S.list[e] /\ T.list[e][i] = S.list[e][i]
<1> DEFINE f == Peer(e) p == S.in[e][1] i == S.chan[e][c].localId
<1>0. S \in ViewType /\ S.list[e] \in Seq(Nat)
  BY ViewFields DEF Good
<1>1. c \in DOMAIN S.chan[e] /\ Listed(S, e, c) /\ p.kind \in Responses
  BY DEF IsAnswered, Ready
<1>2. /\ T.chan[e][c] = b /\ (\A x \in DOMAIN S.chan[e] : x # c => T.chan[e][x] = S.chan[e][x])
      /\ b.localId = S.chan[e][c].localId /\ b.closed = S.chan[e][c].closed /\ b.user = S.chan[e][c].user
  BY DEF IsAnswered, Learns
<1>3. ASSUME NEW x \in DOMAIN S.chan[e] PROVE T.chan[e][x].localId = S.chan[e][x].localId /\ T.chan[e][x].closed = S.chan[e][x].closed /\ T.chan[e][x].user = S.chan[e][x].user
  BY <1>2
<1>4. \A z : Listed(T, f, z) <=> Listed(S, f, z)
  <2>1. T.list[f] = S.list[f] /\ T.chan[f] = S.chan[f]
    BY DEF IsAnswered
  <2> QED BY <2>1 DEF Listed
<1>5. (p.kind = "confirm" /\ T.list[e] = S.list[e]) \/ (p.kind = "failure" /\ T.list[e] = Forget(S.list[e], i))
  BY <1>1 DEF IsAnswered, Responses
<1>6. i \in Nat /\ GetChan(S.list[e], i) = c
  BY <1>0, <1>1, ViewItems, ChannelFields DEF Listed
<1>7. /\ DOMAIN Forget(S.list[e], i) = DOMAIN S.list[e]
      /\ \A j : j # i => GetChan(Forget(S.list[e], i), j) = GetChan(S.list[e], j)
      /\ GetChan(Forget(S.list[e], i), i) = 0
      /\ \A j \in DOMAIN S.list[e] : Forget(S.list[e], i)[j] # 0 => Forget(S.list[e], i)[j] = S.list[e][j]
  BY <1>0, <1>6, ForgetOne
<1>8. ASSUME NEW x \in DOMAIN S.chan[e], x # c PROVE Listed(T, e, x) <=> Listed(S, e, x)
  <2> DEFINE j == S.chan[e][x].localId
  <2>1. T.chan[e][x].localId = j /\ x # 0
    BY <1>0, <1>3, ViewItems
  <2>2. CASE T.list[e] = S.list[e]
    BY <2>1, <2>2 DEF Listed
  <2>3. CASE T.list[e] = Forget(S.list[e], i)
    <3>1. CASE j = i
      <4>1. GetChan(T.list[e], j) # x /\ GetChan(S.list[e], j) # x
        BY <1>6, <1>7, <1>8, <2>1, <2>3, <3>1
      <4> QED BY <2>1, <4>1 DEF Listed
    <3>2. CASE j # i
      <4>1. GetChan(T.list[e], j) = GetChan(S.list[e], j)
        BY <1>7, <2>3, <3>2
      <4> QED BY <2>1, <4>1 DEF Listed
    <3> QED BY <3>1, <3>2
  <2> QED BY <1>5, <2>2, <2>3
<1>9. p.kind = "confirm" => Listed(T, e, c)
  <2> SUFFICES ASSUME p.kind = "confirm" PROVE Listed(T, e, c)
    OBVIOUS
  <2>1. T.list[e] = S.list[e]
    BY <1>5
  <2> QED BY <1>1, <1>3, <2>1 DEF Listed
<1>10. ASSUME NEW j \in DOMAIN T.list[e], T.list[e][j] # 0 PROVE j \in DOMAIN S.list[e] /\ T.list[e][j] = S.list[e][j]
  BY <1>5, <1>7, <1>10
<1> QED BY <1>3, <1>4, <1>8, <1>9, <1>10

LEMMA AnsweredLists ==
  ASSUME NEW S, Good(S), NEW T, NEW e \in Ends, NEW c, NEW d, NEW b, IsAnswered(S, T, e, c, d, b)
  PROVE  \A x \in Ends : LocalOK(T, x) /\ ListOK(T, x) /\ FreshOK(T, x) /\ PeersOK(T, x) /\ ListingOK(T, x)
<1> DEFINE f == Peer(e) p == S.in[e][1] a == S.chan[e][c] o == S.chan[f][d]
<1>0. S \in ViewType /\ f \in Ends /\ Peer(f) = e /\ f # e /\ \A x \in Ends : x = e \/ x = f
  BY PeerFacts DEF Good
<1>1. /\ d \in DOMAIN S.chan[f] /\ c \in DOMAIN S.chan[e] /\ c # 0 /\ d # 0 /\ o.peer = c /\ o.dir = "in" /\ Listed(S, e, c)
      /\ a.dir = "out" /\ a.peer = 0 /\ o.remoteId = a.localId /\ p.kind \in Responses
      /\ p.kind = "confirm" => o.user = "open" /\ p.aux = o.localId /\ p.n = WindowSize
      /\ p.kind = "failure" => o.user = "none"
      /\ \A x \in DOMAIN S.chan[f] : S.chan[f][x].peer = c => x = d
      /\ \A x \in DOMAIN S.chan[e] : S.chan[e][x].peer # d
  BY DEF IsAnswered, Ready
<1>2. /\ Local(b) /\ b.decided /\ b.dir = a.dir /\ b.sentClose = a.sentClose /\ b.user = a.user
      /\ p.kind = "confirm" => b.peer = d /\ b.remoteId = p.aux
      /\ p.kind = "failure" => b.peer = 0
  BY DEF IsAnswered, Learns
<1>3. /\ T \in ViewType /\ T.chan[f] = S.chan[f] /\ DOMAIN T.chan[e] = DOMAIN S.chan[e]
      /\ T.chan[e][c] = b /\ (\A x \in DOMAIN S.chan[e] : x # c => T.chan[e][x] = S.chan[e][x])
      /\ T.list[f] = S.list[f] /\ T.fresh = S.fresh /\ T.runs = S.runs
  BY DEF IsAnswered
<1>4. /\ \A x \in DOMAIN S.chan[e] : T.chan[e][x].localId = S.chan[e][x].localId /\ T.chan[e][x].closed = S.chan[e][x].closed
                                        /\ T.chan[e][x].user = S.chan[e][x].user
      /\ \A x \in DOMAIN S.chan[e] : x # c => (Listed(T, e, x) <=> Listed(S, e, x))
      /\ p.kind = "confirm" => Listed(T, e, c)
      /\ \A z : Listed(T, f, z) <=> Listed(S, f, z)
      /\ \A i \in DOMAIN T.list[e] : T.list[e][i] # 0 => i \in DOMAIN S.list[e] /\ T.list[e][i] = S.list[e][i]
  BY AnsweredListed
<1>5. LocalOK(S, e) /\ LocalOK(S, f) /\ ListOK(S, e) /\ ListOK(S, f) /\ FreshOK(S, e) /\ FreshOK(S, f) /\ PeersOK(S, e) /\ PeersOK(S, f) /\ ListingOK(S, e) /\ ListingOK(S, f)
  BY <1>0 DEF Good
<1>6. LocalOK(T, e) /\ LocalOK(T, f)
  BY <1>2, <1>3, <1>5 DEF LocalOK
<1>7. FreshOK(T, e) /\ FreshOK(T, f)
  <2>1. FreshOK(T, e)
    BY SMTT(40), <1>3, <1>4, <1>5 DEF FreshOK
  <2>2. FreshOK(T, f)
    BY <1>3, <1>5 DEF FreshOK
  <2> QED BY <2>1, <2>2
<1>8. ListOK(T, f)
  BY <1>3, <1>4, <1>5 DEF ListOK
<1>9. ListOK(T, e)
  <2>1. ASSUME NEW i \in DOMAIN T.list[e], T.list[e][i] # 0 PROVE T.list[e][i] \in DOMAIN T.chan[e] /\ T.chan[e][T.list[e][i]].localId = i
    <3>1. i \in DOMAIN S.list[e] /\ T.list[e][i] = S.list[e][i]
      BY <1>4, <2>1
    <3>2. S.list[e][i] \in DOMAIN S.chan[e] /\ S.chan[e][S.list[e][i]].localId = i
      BY <1>5, <2>1, <3>1 DEF ListOK
    <3> QED BY <1>3, <1>4, <3>1, <3>2
  <2>2. ASSUME T.runs[e], NEW x \in DOMAIN T.chan[e], Listed(T, e, x) PROVE ~T.chan[e][x].closed
    <3>1. Listed(S, e, x) /\ x \in DOMAIN S.chan[e]
      BY <1>1, <1>3, <1>4, <2>2
    <3> QED BY <1>3, <1>4, <1>5, <2>2, <3>1 DEF ListOK
  <2> QED BY <2>1, <2>2 DEF ListOK
<1>10. PeersOK(T, e)
  <2> SUFFICES ASSUME NEW x \in DOMAIN T.chan[e], T.chan[e][x].peer # 0 PROVE Paired(T, e, x)
    BY DEF PeersOK, Paired
  <2>0. x \in DOMAIN S.chan[e]
    BY <1>3
  <2>1. CASE x = c
    <3>1. p.kind = "confirm" /\ T.chan[e][x].peer = d /\ T.chan[e][x].dir = "out" /\ T.chan[e][x].remoteId = o.localId /\ T.chan[f][d] = o
      BY <1>1, <1>2, <1>3, <2>1 DEF Responses
    <3>2. \A z \in DOMAIN T.chan[e] : T.chan[e][z].peer = d => z = c
      BY <1>1, <1>3
    <3> QED BY <1>1, <1>3, <2>1, <3>1, <3>2 DEF Paired
  <2>2. CASE x # c
    <3>1. T.chan[e][x] = S.chan[e][x]
      BY <1>3, <2>0, <2>2
    <3>2. IsPartner(S, e, x, f, S.chan[e][x].peer)
      BY <1>0, <1>5, <2>0, <3>1, Partner
    <3>3. \A z \in DOMAIN T.chan[e] : T.chan[e][z].peer = S.chan[e][x].peer => z = x
      <4>1. ASSUME NEW z \in DOMAIN T.chan[e], T.chan[e][z].peer = S.chan[e][x].peer PROVE z = x
        <5>1. S.chan[e][x].peer # d /\ S.chan[e][x].peer # 0
          BY <1>1, <2>0, <3>1
        <5>2. z # c
          BY <1>1, <1>2, <1>3, <4>1, <5>1 DEF Responses
        <5> QED BY <1>3, <3>2, <4>1, <5>2 DEF IsPartner
      <4> QED BY <4>1
    <3> QED BY ZenonT(60), <1>3, <3>1, <3>2, <3>3 DEF Paired, IsPartner
  <2> QED BY <2>1, <2>2
<1>11. PeersOK(T, f)
  <2> SUFFICES ASSUME NEW x \in DOMAIN T.chan[f], T.chan[f][x].peer # 0 PROVE Paired(T, f, x)
    BY DEF PeersOK, Paired
  <2> DEFINE y == S.chan[f][x].peer
  <2>0. x \in DOMAIN S.chan[f] /\ T.chan[f][x] = S.chan[f][x] /\ y # 0
    BY <1>3
  <2>1. IsPartner(S, f, x, e, y)
    BY <1>0, <1>5, <2>0, Partner
  <2>2. y \in DOMAIN S.chan[e]
    BY <2>1 DEF IsPartner
  <2>3. CASE y = c
    <3>1. x = d
      BY <1>1, <2>0, <2>3
    <3>2. T.chan[e][y].dir = S.chan[e][y].dir /\ T.chan[e][y].localId = S.chan[e][y].localId /\ S.chan[f][x].dir = "in" /\ S.chan[f][x].user # "waiting"
      BY <1>1, <1>2, <1>3, <1>4, <2>2, <2>3, <3>1 DEF Responses
    <3> QED BY ZenonT(60), <1>0, <1>3, <2>0, <2>1, <2>2, <3>2 DEF Paired, IsPartner
  <2>4. CASE y # c
    <3>1. T.chan[e][y] = S.chan[e][y]
      BY <1>3, <2>2, <2>4
    <3> QED BY ZenonT(60), <1>0, <1>3, <2>0, <2>1, <2>2, <3>1 DEF Paired, IsPartner
  <2> QED BY <2>3, <2>4
<1>12. ListingOK(T, e)
  <2> SUFFICES ASSUME T.runs[e], NEW x \in DOMAIN T.chan[e], ~Listed(T, e, x) PROVE Through(T, e, x)
    BY DEF ListingOK
  <2>0. x \in DOMAIN S.chan[e] /\ S.runs[e]
    BY <1>3
  <2>1. CASE x = c
    <3>1. p.kind = "failure"
      BY <1>1, <1>4, <2>1 DEF Responses
    <3>2. T.chan[e][x] = b /\ b.decided /\ b.dir = "out" /\ b.dir # "in"
      BY <1>1, <1>2, <1>3, <2>1
    <3>3. ASSUME NEW z \in DOMAIN T.chan[f], T.chan[f][z].peer = x PROVE Done(T.chan[f][z])
      <4>1. z = d
        BY <1>1, <1>3, <2>1, <3>3
      <4> QED BY <1>1, <1>3, <3>1, <4>1 DEF Done
    <3> QED BY <3>2, <3>3 DEF Through
  <2>2. CASE x # c
    <3>1. T.chan[e][x] = S.chan[e][x] /\ ~Listed(S, e, x)
      BY <1>3, <1>4, <2>0, <2>2
    <3>2. Through(S, e, x)
      BY <1>5, <2>0, <3>1 DEF ListingOK
    <3> QED BY <1>3, <3>1, <3>2 DEF Through
  <2> QED BY <2>1, <2>2
<1>13. ListingOK(T, f)
  <2> SUFFICES ASSUME T.runs[f], NEW x \in DOMAIN T.chan[f], ~Listed(T, f, x) PROVE Through(T, f, x)
    BY DEF ListingOK
  <2>0. x \in DOMAIN S.chan[f] /\ S.runs[f] /\ T.chan[f][x] = S.chan[f][x] /\ ~Listed(S, f, x) /\ x # 0
    BY <1>0, <1>3, <1>4, ViewItems
  <2>1. Through(S, f, x)
    BY <1>5, <2>0 DEF ListingOK
  <2>2. x # d
    <3> SUFFICES ASSUME x = d PROVE FALSE
      OBVIOUS
    <3>1. S.chan[e][c].peer = d
      BY <1>0, <1>1, <2>1 DEF Through
    <3> QED BY <1>1, <3>1
  <2>3. S.chan[f][x].peer # c
    BY <1>1, <2>0, <2>2
  <2>4. ASSUME S.chan[f][x].dir = "in" PROVE T.chan[e][S.chan[f][x].peer].peer = x
    <3>1. S.chan[e][S.chan[f][x].peer].peer = x
      BY <1>0, <2>1, <2>4 DEF Through
    <3>2. S.chan[f][x].peer # 0
      <4>1. Local(S.chan[f][x])
        BY <1>5, <2>0 DEF LocalOK
      <4> QED BY <2>4, <4>1 DEF Local
    <3>3. S.chan[f][x].peer \in DOMAIN S.chan[e]
      <4>1. IsPartner(S, f, x, e, S.chan[f][x].peer)
        BY <1>0, <1>5, <2>0, <3>2, Partner
      <4> QED BY <4>1 DEF IsPartner
    <3> QED BY <1>3, <2>3, <3>1, <3>3
  <2>5. ASSUME NEW z \in DOMAIN T.chan[e], T.chan[e][z].peer = x PROVE Done(T.chan[e][z])
    <3>1. z # c
      BY <1>1, <1>2, <1>3, <2>0, <2>2, <2>5 DEF Responses
    <3>2. T.chan[e][z] = S.chan[e][z] /\ z \in DOMAIN S.chan[e]
      BY <1>3, <3>1
    <3> QED BY <1>0, <2>1, <2>5, <3>2 DEF Through
  <2> QED BY <1>0, <2>0, <2>1, <2>4, <2>5 DEF Through
<1> QED BY <1>0, <1>6, <1>7, <1>8, <1>9, <1>10, <1>11, <1>12, <1>13

\* No packet for a channel of the peer comes from channel c of e.
Silent(S, e, c) == \A i \in DOMAIN S.in[Peer(e)] : Carries(S.in[Peer(e)][i]) => S.in[Peer(e)][i].from # c
SilentCounts(S, e, c) == (\A k \in Counted : Amount(S.in[Peer(e)], k, c) = 0) /\ Tells(S.in[Peer(e)], c) = 0

LEMMA SilentSums ==
  ASSUME NEW S \in ViewType, NEW e \in Ends, NEW c, Silent(S, e, c)
  PROVE  SilentCounts(S, e, c)
<1> DEFINE w == S.in[Peer(e)]
<1>0. w \in Seq(PacketType)
  BY PeerFacts, ViewFields
<1>1. \A i \in DOMAIN w : Carries(w[i]) => w[i].from # c
  BY DEF Silent
<1> HIDE DEF w
<1>2. w = <<>> \/ \E p \in PacketType : p = w[1]
  BY <1>0
<1>3. CASE w = <<>>
  <2>2. PICK p : p \in PacketType
    <3>1. Packet("eof", 0, 0, 0, 0) \in PacketType
      BY DEF Packet, PacketType, Kinds
    <3> QED BY <3>1
  <2>3. \A k : AmountFacts(w, p, k, c)
    BY <1>0, <2>2, AmountMoves
  <2>4. Tells(<<>>, c) = 0
    BY <1>0, <2>2, TellsMoves
  <2> QED BY <1>3, <2>3, <2>4 DEF AmountFacts, SilentCounts, w
<1>4. ASSUME NEW p \in PacketType PROVE SilentCounts(S, e, c)
  <2>1. ASSUME NEW k \in Counted PROVE Amount(w, k, c) = 0
    <3>1. \A i \in DOMAIN w : Weight(w[i], k, c) = 0
      BY <1>1 DEF Weight, Carries, Globals, Counted
    <3>2. AmountFacts(w, p, k, c)
      BY <1>0, AmountMoves
    <3> QED BY <3>1, <3>2 DEF AmountFacts
  <2>2. Tells(w, c) = 0
    <3>1. \A i \in DOMAIN w : Tell(w[i], c) = 0
      BY <1>1 DEF Tell, Carries, Globals, Responses
    <3> QED BY <1>0, <3>1, TellsMoves
  <2> QED BY <2>1, <2>2 DEF SilentCounts, w
<1> QED BY <1>2, <1>3, <1>4

LEMMA NoneSilent ==
  ASSUME NEW S, Good(S), NEW e \in Ends, NEW c, c \notin DOMAIN S.chan[e] \/ S.chan[e][c].peer = 0
  PROVE  Silent(S, e, c) /\ SilentCounts(S, e, c)
<1> DEFINE f == Peer(e)
<1>0. S \in ViewType /\ f \in Ends /\ Peer(f) = e
  BY PeerFacts DEF Good
<1>1. ASSUME NEW i \in DOMAIN S.in[f], Carries(S.in[f][i]), S.in[f][i].from = c PROVE FALSE
  <2>1. PacketIs(S, f, S.in[f][i])
    BY <1>0, <1>1 DEF Good, PacketsOK
  <2>2. c \in DOMAIN S.chan[e] /\ S.chan[e][c].peer # 0
    BY <1>0, <1>1, <2>1 DEF PacketIs
  <2> QED BY <2>2
<1>2. Silent(S, e, c)
  BY <1>1 DEF Silent
<1> QED BY <1>0, <1>2, SilentSums

LEMMA AnsweredPacketsTo ==
  ASSUME NEW S, Good(S), NEW T, NEW e \in Ends, NEW c, NEW d, NEW b, IsAnswered(S, T, e, c, d, b)
  PROVE  OpensOK(T, e) /\ PacketsOK(T, e) /\ AcceptOK(T, e)
<1> DEFINE f == Peer(e) p == S.in[e][1] a == S.chan[e][c] o == S.chan[f][d] w == S.in[e] s == T.in[e]
<1>0. S \in ViewType /\ f \in Ends /\ Peer(f) = e /\ w \in Seq(PacketType) /\ w # <<>> /\ s = Tail(w)
  BY PeerFacts, ViewFields DEF Good, IsAnswered
<1>1. /\ d \in DOMAIN S.chan[f] /\ c \in DOMAIN S.chan[e] /\ c # 0 /\ d # 0 /\ o.peer = c /\ o.dir = "in"
      /\ a.peer = 0 /\ p.kind \in Responses /\ p.from = d /\ Carries(p)
      /\ \A x \in DOMAIN S.chan[f] : S.chan[f][x].peer = c => x = d
      /\ \A x \in DOMAIN S.chan[e] : S.chan[e][x].peer # d
  BY DEF IsAnswered, Ready, Carries, Responses, Globals
<1>2. (p.kind = "confirm" => b.peer = d) /\ (p.kind = "failure" => b.peer = 0)
  BY DEF IsAnswered, Learns
<1>3. /\ T \in ViewType /\ T.chan[f] = S.chan[f] /\ DOMAIN T.chan[e] = DOMAIN S.chan[e]
      /\ T.chan[e][c] = b /\ (\A x \in DOMAIN S.chan[e] : x # c => T.chan[e][x] = S.chan[e][x])
      /\ T.runs = S.runs /\ T.open = S.open
  BY DEF IsAnswered
<1>4. /\ \A x \in DOMAIN S.chan[e] : T.chan[e][x].localId = S.chan[e][x].localId
      /\ \A x \in DOMAIN S.chan[e] : x # c => (Listed(T, e, x) <=> Listed(S, e, x))
      /\ p.kind = "confirm" => Listed(T, e, c)
  BY AnsweredListed
<1>5. OpensOK(S, e) /\ PacketsOK(S, e) /\ AcceptOK(S, e) /\ PeersOK(S, f) /\ LocalOK(S, f)
  BY <1>0 DEF Good
<1> HIDE DEF w, s
<1>6. \A i \in DOMAIN s : i \in Nat /\ i + 1 \in DOMAIN w /\ s[i] = w[i + 1] /\ 1 \in DOMAIN w /\ 1 < i + 1
  BY <1>0
<1>7. \A i \in DOMAIN w : i # 1 => i \in Nat /\ i - 1 \in DOMAIN s /\ s[i - 1] = w[i]
  BY <1>0
<1>8. \A i \in DOMAIN s : Carries(s[i]) => S.chan[f][s[i].from].peer \in DOMAIN S.chan[e] /\ s[i].from \in DOMAIN S.chan[f] /\ s[i].from # 0
  BY SMTT(40), <1>0, <1>6, KnownBefore, ViewItems DEF w
\* What follows a response of d.
<1>9. ASSUME NEW i \in DOMAIN s, Carries(s[i]), s[i].from = d PROVE p.kind = "confirm" /\ s[i].kind \notin Responses
  <2>1. Orders(w[1], w[i + 1])
    BY <1>5, <1>6 DEF PacketsOK, w
  <2> QED BY <1>1, <1>6, <1>9, <2>1 DEF Orders, Responses, w
<1>10. OpensOK(T, e)
  <2>1. ASSUME NEW i \in DOMAIN s, s[i].kind = "open" PROVE OpenIs(T, e, s[i])
    <3>1. OpenIs(S, e, s[i])
      BY <1>5, <1>6 DEF OpensOK, w
    <3>2. s[i].from # d /\ s[i].from # 0
      <4>1. s[i].from \in DOMAIN S.chan[f] /\ S.chan[f][s[i].from].dir = "out"
        BY <2>1, <3>1 DEF OpenIs
      <4> QED BY <1>0, <1>1, <4>1, ViewItems
    <3>3. \A x \in DOMAIN T.chan[e] : T.chan[e][x].peer # s[i].from
      <4>1. b.peer # s[i].from
        BY <1>1, <1>2, <3>2 DEF Responses
      <4>2. \A x \in DOMAIN S.chan[e] : S.chan[e][x].peer # s[i].from
        BY <2>1, <3>1 DEF OpenIs
      <4> QED BY <1>3, <4>1, <4>2
    <3> QED BY <1>3, <3>1, <3>3 DEF OpenIs
  <2>2. ASSUME NEW i \in DOMAIN s, NEW j \in DOMAIN s, s[i].kind = "open", s[j].kind = "open", s[i].from = s[j].from PROVE i = j
    <3>1. i + 1 = j + 1
      BY <1>5, <1>6, <2>2 DEF OpensOK, w
    <3> QED BY <1>6, <3>1
  <2>3. \A i \in DOMAIN s : OpenIs(T, e, s[i])
    BY <2>1 DEF OpenIs
  <2> QED BY <2>2, <2>3 DEF OpensOK, s
<1>11. PacketsOK(T, e)
  <2>1. ASSUME NEW i \in DOMAIN s, Carries(s[i]) PROVE PacketIs(T, e, s[i])
    <3> DEFINE z == S.chan[f][s[i].from].peer
    <3>1. PacketIs(S, e, s[i])
      BY <1>5, <1>6 DEF PacketsOK, w
    <3>2. z \in DOMAIN S.chan[e] /\ s[i].from \in DOMAIN S.chan[f]
      BY <1>8, <2>1
    <3>3. T.runs[e] => Listed(T, e, z)
      <4>1. CASE z = c
        <5>1. s[i].from = d
          BY <1>1, <3>2, <4>1
        <5> QED BY <1>4, <1>9, <2>1, <4>1, <5>1
      <4>2. CASE z # c
        <5>1. S.runs[e] => Listed(S, e, z)
          BY <2>1, <3>1 DEF PacketIs
        <5> QED BY <1>3, <1>4, <3>2, <4>2, <5>1
      <4> QED BY <4>1, <4>2
    <3>4. s[i].kind \in Responses => ~T.chan[e][z].decided
      <4>1. CASE z = c
        <5>1. s[i].from = d
          BY <1>1, <3>2, <4>1
        <5> QED BY <1>9, <2>1, <5>1
      <4>2. CASE z # c
        <5>1. T.chan[e][z] = S.chan[e][z]
          BY <1>3, <3>2, <4>2
        <5> QED BY <2>1, <3>1, <5>1 DEF PacketIs
      <4> QED BY ZenonT(60), <4>1, <4>2
    <3>5. T.chan[e][z].localId = S.chan[e][z].localId
      BY <1>4, <3>2
    <3> QED BY ZenonT(60), <1>3, <2>1, <3>1, <3>3, <3>4, <3>5 DEF PacketIs
  <2>2. ASSUME NEW i \in DOMAIN s, NEW j \in DOMAIN s, i < j PROVE Orders(s[i], s[j])
    <3>1. i + 1 < j + 1
      BY <1>6, <2>2
    <3> QED BY <1>5, <1>6, <3>1 DEF PacketsOK, w
  <2>3. ASSUME NEW i \in DOMAIN s, Carries(s[i]), s[i].kind \notin Responses
        PROVE  Told(T, e, s[i].from) \/ \E j \in DOMAIN s : j < i /\ s[j].kind = "confirm" /\ s[j].from = s[i].from
    <3> DEFINE x == s[i].from z == S.chan[f][x].peer
    <3>1. z \in DOMAIN S.chan[e] /\ x \in DOMAIN S.chan[f] /\ x # 0
      BY <1>8, <2>3
    <3>2. Told(S, e, x) \/ \E j \in DOMAIN w : j < i + 1 /\ w[j].kind = "confirm" /\ w[j].from = x
      BY <1>5, <1>6, <2>3 DEF PacketsOK, w
    <3>3. CASE Told(S, e, x)
      <4>1. S.chan[e][z].peer = x
        BY <3>3 DEF Told
      <4>2. z # c
        BY <1>1, <3>1, <4>1
      <4>3. T.chan[e][z] = S.chan[e][z]
        BY <1>3, <3>1, <4>2
      <4> QED BY <1>3, <4>1, <4>3 DEF Told
    <3>4. ASSUME NEW j \in DOMAIN w, j < i + 1, w[j].kind = "confirm", w[j].from = x
          PROVE  Told(T, e, x) \/ \E y \in DOMAIN s : y < i /\ s[y].kind = "confirm" /\ s[y].from = x
      <4>1. CASE j = 1
        <5>1. x = d /\ p.kind = "confirm"
          BY <1>1, <3>4, <4>1 DEF w
        <5>2. T.chan[f][x].peer = c /\ T.chan[e][c].peer = x
          BY <1>1, <1>2, <1>3, <5>1
        <5> QED BY <5>2 DEF Told
      <4>2. CASE j # 1
        <5>1. j - 1 \in DOMAIN s /\ s[j - 1] = w[j] /\ j \in Nat /\ i \in Nat
          BY <1>6, <1>7, <4>2
        <5>2. j - 1 < i
          BY <3>4, <5>1
        <5> QED BY <3>4, <5>1, <5>2
      <4> QED BY <4>1, <4>2
    <3> QED BY <3>2, <3>3, <3>4
  <2>4. \A i \in DOMAIN s : PacketIs(T, e, s[i])
    BY <2>1 DEF PacketIs
  <2> QED BY <2>2, <2>3, <2>4 DEF PacketsOK, s
<1>12. AcceptOK(T, e)
  <2> SUFFICES ASSUME NEW x \in DOMAIN T.chan[f], T.chan[f][x].dir = "in", T.chan[f][x].user = "open", T.open[e]
               PROVE  Told(T, e, x) \/ \E j \in DOMAIN s : s[j].kind = "confirm" /\ s[j].from = x
    BY DEF AcceptOK, s
  <2> DEFINE z == S.chan[f][x].peer
  <2>1. x \in DOMAIN S.chan[f] /\ S.chan[f][x].dir = "in" /\ S.chan[f][x].user = "open" /\ S.open[e] /\ x # 0
    BY <1>0, <1>3, ViewItems
  <2>2. Told(S, e, x) \/ \E j \in DOMAIN w : w[j].kind = "confirm" /\ w[j].from = x
    BY <1>5, <2>1 DEF AcceptOK, w
  <2>3. z \in DOMAIN S.chan[e]
    <3>1. z # 0
      BY <1>5, <2>1 DEF LocalOK, Local
    <3>2. IsPartner(S, f, x, e, z)
      BY <1>0, <1>5, <2>1, <3>1, Partner
    <3> QED BY <3>2 DEF IsPartner
  <2>4. CASE Told(S, e, x)
    <3>1. S.chan[e][z].peer = x
      BY <2>4 DEF Told
    <3>2. T.chan[e][z] = S.chan[e][z]
      BY <1>1, <1>3, <2>1, <2>3, <3>1
    <3> QED BY <1>3, <3>1, <3>2 DEF Told
  <2>5. ASSUME NEW j \in DOMAIN w, w[j].kind = "confirm", w[j].from = x
        PROVE  Told(T, e, x) \/ \E y \in DOMAIN s : s[y].kind = "confirm" /\ s[y].from = x
    <3>1. CASE j = 1
      <4>1. x = d /\ p.kind = "confirm"
        BY <1>1, <2>5, <3>1 DEF w
      <4>2. T.chan[f][x].peer = c /\ T.chan[e][c].peer = x
        BY <1>1, <1>2, <1>3, <4>1
      <4> QED BY <4>2 DEF Told
    <3>2. CASE j # 1
      BY <1>7, <2>5, <3>2
    <3> QED BY <3>1, <3>2
  <2> QED BY <2>2, <2>4, <2>5
<1> QED BY <1>10, <1>11, <1>12

LEMMA AnsweredPacketsFrom ==
  ASSUME NEW S, Good(S), NEW T, NEW e \in Ends, NEW c, NEW d, NEW b, IsAnswered(S, T, e, c, d, b)
  PROVE  OpensOK(T, Peer(e)) /\ PacketsOK(T, Peer(e)) /\ AcceptOK(T, Peer(e))
<1> DEFINE f == Peer(e) w == S.in[f]
<1>0. S \in ViewType /\ f \in Ends /\ Peer(f) = e /\ w \in Seq(PacketType)
  BY PeerFacts, ViewFields DEF Good
<1>1. d \in DOMAIN S.chan[f] /\ c \in DOMAIN S.chan[e] /\ S.chan[f][d].peer = c /\ S.chan[e][c].peer = 0 /\ S.chan[e][c].dir = "out"
  BY DEF IsAnswered, Ready
<1>2. b.dir = "out"
  BY DEF IsAnswered, Ready, Learns
<1>3. /\ T \in ViewType /\ T.chan[f] = S.chan[f] /\ DOMAIN T.chan[e] = DOMAIN S.chan[e] /\ T.in[f] = w
      /\ T.chan[e][c] = b /\ (\A x \in DOMAIN S.chan[e] : x # c => T.chan[e][x] = S.chan[e][x])
      /\ T.runs = S.runs /\ T.open = S.open
  BY DEF IsAnswered
<1>4. \A z : Listed(T, f, z) <=> Listed(S, f, z)
  BY AnsweredListed
<1>5. OpensOK(S, f) /\ PacketsOK(S, f) /\ AcceptOK(S, f)
  BY <1>0 DEF Good
<1>6. \A i \in DOMAIN w : Carries(w[i]) => w[i].from # c
  BY <1>1, NoneSilent DEF Silent
<1>7. OpensOK(T, f)
  <2>1. ASSUME NEW i \in DOMAIN w, w[i].kind = "open" PROVE OpenIs(T, f, w[i])
    <3>1. OpenIs(S, f, w[i])
      BY <1>5 DEF OpensOK
    <3>2. w[i].from \in DOMAIN S.chan[e] /\ w[i].from # c
      BY <1>0, <1>1, <2>1, <3>1 DEF OpenIs
    <3>3. T.chan[e][w[i].from] = S.chan[e][w[i].from]
      BY <1>3, <3>2
    <3> QED BY ZenonT(60), <1>0, <1>3, <3>1, <3>3 DEF OpenIs
  <2>2. \A i \in DOMAIN w : OpenIs(T, f, w[i])
    BY ZenonT(60), <2>1 DEF OpenIs
  <2> QED BY <1>3, <1>5, <2>2 DEF OpensOK
<1>8. PacketsOK(T, f)
  <2>0. ASSUME NEW i \in DOMAIN w, Carries(w[i])
        PROVE  T.chan[e][w[i].from] = S.chan[e][w[i].from] /\ w[i].from \in DOMAIN S.chan[e]
    <3>1. w[i].from \in DOMAIN S.chan[e]
      BY <1>0, <2>0, KnownBefore
    <3> QED BY <1>3, <1>6, <2>0, <3>1
  <2>1. ASSUME NEW i \in DOMAIN w, Carries(w[i]) PROVE PacketIs(T, f, w[i])
    <3>1. PacketIs(S, f, w[i])
      BY <1>5 DEF PacketsOK
    <3>2. T.chan[e][w[i].from] = S.chan[e][w[i].from]
      BY <2>0, <2>1
    <3> QED BY ZenonT(60), <1>0, <1>3, <1>4, <3>1, <3>2 DEF PacketIs
  <2>2. \A i \in DOMAIN w : PacketIs(T, f, w[i])
    BY ZenonT(60), <2>1 DEF PacketIs
  <2>3. \A i \in DOMAIN w : Carries(w[i]) => (Told(T, f, w[i].from) <=> Told(S, f, w[i].from))
    BY ZenonT(60), <1>0, <1>3, <2>0 DEF Told
  <2> QED BY <1>3, <1>5, <2>2, <2>3 DEF PacketsOK
<1>9. AcceptOK(T, f)
  <2> SUFFICES ASSUME NEW x \in DOMAIN T.chan[e], T.chan[e][x].dir = "in", T.chan[e][x].user = "open", T.open[f]
               PROVE  Told(T, f, x) \/ \E j \in DOMAIN w : w[j].kind = "confirm" /\ w[j].from = x
    BY <1>0, <1>3 DEF AcceptOK
  <2>1. x # c
    BY <1>2, <1>3
  <2>2. T.chan[e][x] = S.chan[e][x] /\ x \in DOMAIN S.chan[e]
    BY <1>3, <2>1
  <2>3. Told(S, f, x) \/ \E j \in DOMAIN w : w[j].kind = "confirm" /\ w[j].from = x
    BY <1>0, <1>3, <1>5, <2>2 DEF AcceptOK
  <2>4. Told(T, f, x) <=> Told(S, f, x)
    BY <1>0, <1>3, <2>2 DEF Told
  <2> QED BY <2>3, <2>4
<1> QED BY <1>7, <1>8, <1>9

\* What the answer moves.
AnsweredMoves(S, T, e, d) ==
  /\ \A k \in Counted : \A z : Amount(T.in[e], k, z) = Amount(S.in[e], k, z)
  /\ \A z : z # d => Tells(T.in[e], z) = Tells(S.in[e], z)
  /\ Tells(S.in[e], d) = 1 + Tells(T.in[e], d)

LEMMA AnsweredCounts ==
  ASSUME NEW S, Good(S), NEW T, NEW e \in Ends, NEW c, NEW d, NEW b, IsAnswered(S, T, e, c, d, b)
  PROVE  AnsweredMoves(S, T, e, d)
<1> DEFINE w == S.in[e] p == S.in[e][1]
<1>0. w \in Seq(PacketType) /\ w # <<>> /\ T.in[e] = Tail(w) /\ p \in PacketType /\ p.kind \in Responses /\ p.from = d
  BY ViewFields DEF Good, IsAnswered, Ready
<1>1. Head(w) = p
  <2>1. Head(w) = w[1]
    <3> HIDE DEF w
    <3> QED BY <1>0
  <2> QED BY <2>1
<1>a. Tail(w) \in Seq(PacketType)
  <2> HIDE DEF w
  <2> QED BY <1>0
<1> HIDE DEF w, p
<1>2. \A k \in Counted : \A z : Weight(p, k, z) = 0
  BY <1>0 DEF Weight, Counted, Responses
<1>3. Tell(p, d) = 1 /\ \A z : z # d => Tell(p, z) = 0
  BY <1>0 DEF Tell
<1>4. ASSUME NEW k \in Counted, NEW z PROVE Amount(Tail(w), k, z) = Amount(w, k, z)
  <2>1. Amount(w, k, z) = Weight(p, k, z) + Amount(Tail(w), k, z)
    BY <1>0, <1>1, AmountSteps
  <2>2. Amount(Tail(w), k, z) \in Nat
    BY <1>a, AmountNat
  <2>3. Weight(p, k, z) = 0
    BY <1>2
  <2> QED BY <2>1, <2>2, <2>3
<1>5. ASSUME NEW z PROVE Tells(w, z) = Tell(p, z) + Tells(Tail(w), z) /\ Tells(Tail(w), z) \in Nat
  BY <1>0, <1>1, <1>a, AmountNat, TellsMoves
<1>6. ASSUME NEW z, z # d PROVE Tells(Tail(w), z) = Tells(w, z)
  <2>1. Tell(p, z) = 0
    BY <1>3, <1>6
  <2> QED BY <1>5, <2>1
<1>7. Tells(w, d) = 1 + Tells(Tail(w), d)
  BY <1>3, <1>5
<1> QED BY <1>0, <1>4, <1>6, <1>7 DEF AnsweredMoves, w

\* What the channels of e were and are.
AnsweredChan(S, T, e) == \A z \in DOMAIN S.chan[e] :
  LET a == S.chan[e][z] b == T.chan[e][z] IN
  /\ b.owed = a.owed /\ b.myWindow = a.myWindow /\ b.closed = a.closed /\ b.sentClose = a.sentClose /\ (b.peer = 0 => a.peer = 0)
  /\ Answers(b) = Answers(a) /\ Waits(b) = Waits(a)

LEMMA AnsweredChans ==
  ASSUME NEW S, NEW T, NEW e \in Ends, NEW c, NEW d, NEW b, IsAnswered(S, T, e, c, d, b)
  PROVE  AnsweredChan(S, T, e)
<1> DEFINE a == S.chan[e][c]
<1>1. T.chan[e][c] = b /\ (\A x \in DOMAIN S.chan[e] : x # c => T.chan[e][x] = S.chan[e][x])
  BY DEF IsAnswered
<1>2. b.owed = a.owed /\ b.myWindow = a.myWindow /\ b.closed = a.closed /\ b.sentClose = a.sentClose /\ a.peer = 0
  BY DEF IsAnswered, Learns, Ready
<1>3. Answers(b) = Answers(a) /\ Waits(b) = Waits(a)
  <2>1. b.reqs = a.reqs /\ b.user = a.user /\ b.waits = a.waits
    BY DEF IsAnswered, Learns
  <2> QED BY <2>1 DEF Answers, Waits
<1>4. ASSUME NEW z \in DOMAIN S.chan[e] PROVE z = c \/ T.chan[e][z] = S.chan[e][z]
  BY <1>1
<1> QED BY <1>1, <1>2, <1>3, <1>4 DEF AnsweredChan

LEMMA AnsweredTo ==
  ASSUME NEW S, Good(S), NEW T, NEW e \in Ends, NEW c, NEW d, NEW b, IsAnswered(S, T, e, c, d, b)
  PROVE  WindowsOK(T, e) /\ AnswersOK(T, e) /\ AskedOK(T, e)
<1> DEFINE f == Peer(e)
<1>0. S \in ViewType /\ f \in Ends /\ Peer(f) = e
  BY PeerFacts DEF Good
<1>1. /\ T \in ViewType /\ T.chan[f] = S.chan[f] /\ T.in[f] = S.in[f] /\ T.runs = S.runs /\ T.open = S.open
      /\ T.chan[e][c] = b /\ (\A x \in DOMAIN S.chan[e] : x # c => T.chan[e][x] = S.chan[e][x])
  BY DEF IsAnswered
<1>2. AnsweredChan(S, T, e) /\ AnsweredMoves(S, T, e, d)
  BY AnsweredChans, AnsweredCounts
<1>3. PeersOK(S, f) /\ WindowsOK(S, e) /\ AnswersOK(S, e) /\ AskedOK(S, e)
  BY <1>0 DEF Good
<1>4. /\ \A x \in DOMAIN S.chan[f] : S.chan[f][x].peer = c => x = d
      /\ S.chan[f][d].peer = c /\ S.chan[e][c].msg = <<>> /\ b.msg = <<S.in[e][1].kind>>
  BY DEF IsAnswered, Ready, Learns
<1>5. ASSUME NEW x \in DOMAIN S.chan[f], S.chan[f][x].peer # 0 PROVE S.chan[f][x].peer \in DOMAIN S.chan[e]
  <2>1. IsPartner(S, f, x, e, S.chan[f][x].peer)
    BY <1>0, <1>3, <1>5, Partner
  <2> QED BY <2>1 DEF IsPartner
<1>6. ASSUME NEW x \in DOMAIN T.chan[f] PROVE WindowIs(T, e, x)
  <2> SUFFICES ASSUME T.chan[f][x].peer # 0 PROVE WindowIs(T, e, x)
    BY DEF WindowIs
  <2> DEFINE z == S.chan[f][x].peer
  <2>1. z \in DOMAIN S.chan[e] /\ WindowIs(S, e, x) /\ T.chan[f][x] = S.chan[f][x] /\ z # 0
    BY <1>1, <1>3, <1>5 DEF WindowsOK
  <2>2. T.chan[e][z].owed = S.chan[e][z].owed /\ T.chan[e][z].myWindow = S.chan[e][z].myWindow /\ T.chan[e][z].closed = S.chan[e][z].closed
        /\ T.chan[e][z].sentClose = S.chan[e][z].sentClose /\ (T.chan[e][z].peer = 0 => S.chan[e][z].peer = 0)
    BY <1>2, <2>1 DEF AnsweredChan
  <2>3. Amount(T.in[e], "data", x) = Amount(S.in[e], "data", x) /\ Amount(T.in[e], "adjust", x) = Amount(S.in[e], "adjust", x)
    BY <1>2 DEF AnsweredMoves, Counted
  <2>4. Credit(T, e, x) = Credit(S, e, x)
    BY <1>1, <2>1, <2>2, <2>3 DEF Credit
  <2>5. Exact(T, e, x) <=> Exact(S, e, x)
    BY <1>1, <2>1, <2>2 DEF Exact
  <2> QED BY <2>1, <2>2, <2>3, <2>4, <2>5 DEF WindowIs
<1>7. ASSUME NEW x \in DOMAIN T.chan[f] PROVE AnswerIs(T, e, x)
  <2> DEFINE z == S.chan[f][x].peer
  <2> SUFFICES ASSUME z # 0, S.runs[e], ~T.chan[e][z].closed
               PROVE  Tells(T.in[e], x) + Amount(S.in[f], "request", z) + Answers(S.chan[f][x]) + Len(T.chan[e][z].msg) <= Waits(T.chan[e][z])
    BY <1>1 DEF AnswerIs
  <2>1. z \in DOMAIN S.chan[e] /\ AnswerIs(S, e, x)
    BY <1>1, <1>3, <1>5 DEF AnswersOK
  <2>2. T.chan[e][z].closed = S.chan[e][z].closed /\ Waits(T.chan[e][z]) = Waits(S.chan[e][z])
    BY <1>2, <2>1 DEF AnsweredChan
  <2> DEFINE A == Tells(S.in[e], x) X == Tells(T.in[e], x) B == Amount(S.in[f], "request", z) r == Answers(S.chan[f][x])
             m == Len(S.chan[e][z].msg) n == Len(T.chan[e][z].msg) v == Waits(S.chan[e][z])
  <2>3. A + B + r + m <= v
    BY <2>1, <2>2 DEF AnswerIs
  <2>4. X + n = A + m
    <3>1. CASE z = c
      <4>1. x = d
        BY <1>1, <1>4, <3>1
      <4>a. A = 1 + X
        BY <1>2, <4>1 DEF AnsweredMoves
      <4>b. S.chan[e][z].msg = <<>> /\ T.chan[e][z].msg = <<S.in[e][1].kind>>
        BY <1>1, <1>4, <3>1
      <4>c. m = 0 /\ n = 1
        BY ZenonT(60), <4>b
      <4>2. A = 1 + X /\ m = 0 /\ n = 1
        BY <4>a, <4>c
      <4>3. X \in Nat
        BY <1>0, <1>1, AmountNat, ViewFields
      <4> HIDE DEF A, X, m, n
      <4> QED BY <4>2, <4>3
    <3>2. CASE z # c
      <4>1. x # d
        BY <1>4, <3>2
      <4>2. T.chan[e][z] = S.chan[e][z] /\ X = A
        BY <1>1, <1>2, <2>1, <3>2, <4>1 DEF AnsweredMoves
      <4> QED BY <4>2
    <3> QED BY <3>1, <3>2
  <2>5. A \in Nat /\ X \in Nat /\ B \in Nat
    BY <1>0, <1>1, AmountNat, ViewFields
  <2>6. r \in Nat /\ m \in Nat /\ v \in Nat
    <3>1. S.chan[e][z] \in ChannelType /\ S.chan[f][x] \in ChannelType
      BY <1>0, <1>1, <2>1, ViewItems
    <3> QED BY <3>1, ChannelFields
  <2>7. n \in Nat
    <3>1. DOMAIN T.chan[e] = DOMAIN S.chan[e]
      BY DEF IsAnswered
    <3>2. T.chan[e][z] \in ChannelType
      BY <1>1, <2>1, <3>1, ViewItems
    <3> QED BY <3>2, ChannelFields
  <2>8. Waits(T.chan[e][z]) = v
    BY <2>2
  <2> HIDE DEF A, X, B, r, m, n, v
  <2>9. X + B + r + n <= v
    BY <2>3, <2>4, <2>5, <2>6, <2>7
  <2> QED BY <2>8, <2>9 DEF X, B, r, n
<1>8. ASSUME NEW x \in DOMAIN T.chan[f] PROVE AskedIs(T, e, x)
  <2> DEFINE z == S.chan[f][x].peer
  <2> SUFFICES ASSUME z # 0, T.chan[e][z].peer = 0, S.runs[f], ~S.chan[f][x].closed
               PROVE  Amount(T.in[e], "request", x) + Answers(T.chan[e][z]) + Len(S.chan[f][x].msg) <= Waits(S.chan[f][x])
    BY <1>1 DEF AskedIs
  <2>1. z \in DOMAIN S.chan[e] /\ AskedIs(S, e, x)
    BY <1>1, <1>3, <1>5 DEF AskedOK
  <2>2. S.chan[e][z].peer = 0 /\ Answers(T.chan[e][z]) = Answers(S.chan[e][z]) /\ Amount(T.in[e], "request", x) = Amount(S.in[e], "request", x)
    BY <1>2, <2>1 DEF AnsweredChan, AnsweredMoves, Counted
  <2> QED BY <2>1, <2>2 DEF AskedIs
<1> QED BY <1>6, <1>7, <1>8 DEF WindowsOK, AnswersOK, AskedOK

LEMMA AnsweredFrom ==
  ASSUME NEW S, Good(S), NEW T, NEW e \in Ends, NEW c, NEW d, NEW b, IsAnswered(S, T, e, c, d, b)
  PROVE  WindowsOK(T, Peer(e)) /\ AnswersOK(T, Peer(e)) /\ AskedOK(T, Peer(e))
<1> DEFINE f == Peer(e) a == S.chan[e][c] o == S.chan[f][d] p == S.in[e][1]
<1>0. S \in ViewType /\ f \in Ends /\ Peer(f) = e
  BY PeerFacts DEF Good
<1>1. /\ T \in ViewType /\ T.chan[f] = S.chan[f] /\ T.in[f] = S.in[f] /\ T.runs = S.runs /\ T.open = S.open /\ DOMAIN T.chan[e] = DOMAIN S.chan[e]
      /\ T.chan[e][c] = b /\ (\A x \in DOMAIN S.chan[e] : x # c => T.chan[e][x] = S.chan[e][x])
  BY DEF IsAnswered
<1>2. AnsweredMoves(S, T, e, d) /\ Answers(b) = Answers(a)
  <2>1. c \in DOMAIN S.chan[e]
    BY DEF IsAnswered, Ready
  <2> QED BY <1>1, <2>1, AnsweredChans, AnsweredCounts DEF AnsweredChan
<1>3. WindowsOK(S, f) /\ AnswersOK(S, f) /\ AskedOK(S, f) /\ WindowIs(S, e, d) /\ AskedIs(S, e, d)
  <2>1. d \in DOMAIN S.chan[f]
    BY DEF IsAnswered, Ready
  <2> QED BY <1>0, <2>1 DEF Good, WindowsOK, AskedOK
<1>4. /\ o.peer = c /\ c # 0 /\ d # 0 /\ a.peer = 0 /\ p.kind \in Responses /\ c \in DOMAIN S.chan[e]
      /\ p.kind = "confirm" => b.peer = d /\ b.win = WindowSize
      /\ p.kind = "failure" => b.peer = 0
      /\ b.reserved = 0
  BY DEF IsAnswered, Ready, Learns
<1>5. SilentCounts(S, e, c)
  BY <1>4, NoneSilent
<1>6. ASSUME NEW x \in DOMAIN T.chan[e] PROVE WindowIs(T, f, x)
  <2>1. CASE x # c
    <3>1. T.chan[e][x] = S.chan[e][x] /\ x \in DOMAIN S.chan[e]
      BY <1>1, <2>1
    <3>2. Amount(T.in[e], "adjust", S.chan[e][x].peer) = Amount(S.in[e], "adjust", S.chan[e][x].peer)
      BY <1>2 DEF AnsweredMoves, Counted
    <3>3. WindowIs(S, f, x)
      BY <1>0, <1>3, <3>1 DEF WindowsOK
    <3>4. Credit(T, f, x) = Credit(S, f, x)
      BY <1>0, <1>1, <3>1, <3>2 DEF Credit
    <3>5. Exact(T, f, x) <=> Exact(S, f, x)
      BY <1>0, <1>1, <3>1 DEF Exact
    <3> QED BY <1>0, <1>1, <3>1, <3>3, <3>4, <3>5 DEF WindowIs
  <2>2. CASE x = c
    <3> SUFFICES ASSUME b.peer # 0 PROVE WindowIs(T, f, x)
      BY <1>0, <1>1, <2>2 DEF WindowIs
    <3>1. b.peer = d /\ b.win = WindowSize /\ T.chan[f][d] = o
      BY <1>1, <1>4 DEF Responses
    <3>2. o.myWindow = WindowSize /\ o.owed = 0 /\ Amount(S.in[e], "adjust", d) = 0
      BY <1>3, <1>4 DEF WindowIs
    <3>3. Amount(T.in[e], "adjust", d) = 0 /\ Amount(T.in[f], "data", c) = 0
      BY <1>1, <1>2, <1>5, <3>2 DEF AnsweredMoves, SilentCounts, Counted
    <3>4. Credit(T, f, c) = WindowSize + 0 + 0 + 0 + 0
      BY <1>0, <1>1, <1>4, <3>1, <3>2, <3>3 DEF Credit
    <3>5. Credit(T, f, c) = WindowSize /\ WindowSize \in Nat
      BY <3>4, WindowAssumption
    <3>6. Credit(T, f, c) <= o.myWindow /\ Credit(T, f, c) = o.myWindow
      BY <3>2, <3>5
    <3> QED BY <1>0, <1>1, <1>4, <2>2, <3>1, <3>6 DEF WindowIs
  <2> QED BY <2>1, <2>2
<1>7. ASSUME NEW x \in DOMAIN T.chan[e] PROVE AnswerIs(T, f, x)
  <2>1. CASE x # c
    <3>1. T.chan[e][x] = S.chan[e][x] /\ x \in DOMAIN S.chan[e]
      BY <1>1, <2>1
    <3>2. Amount(T.in[e], "request", S.chan[e][x].peer) = Amount(S.in[e], "request", S.chan[e][x].peer)
      BY <1>2 DEF AnsweredMoves, Counted
    <3>3. AnswerIs(S, f, x)
      BY <1>0, <1>3, <3>1 DEF AnswersOK
    <3> QED BY <1>0, <1>1, <3>1, <3>2, <3>3 DEF AnswerIs
  <2>2. CASE x = c
    <3> SUFFICES ASSUME b.peer # 0, S.runs[f], ~S.chan[f][b.peer].closed
                 PROVE  Tells(S.in[f], c) + Amount(T.in[e], "request", b.peer) + Answers(b) + Len(S.chan[f][b.peer].msg) <= Waits(S.chan[f][b.peer])
      BY <1>0, <1>1, <2>2 DEF AnswerIs
    <3>1. b.peer = d
      BY <1>4 DEF Responses
    <3> DEFINE A == Amount(S.in[e], "request", d) r == Answers(a) m == Len(o.msg)
    <3>2. A + r + m <= Waits(o)
      BY <1>3, <1>4, <3>1 DEF AskedIs
    <3>3. Tells(S.in[f], c) = 0 /\ Amount(T.in[e], "request", d) = A /\ Answers(b) = r
      BY <1>2, <1>5 DEF SilentCounts, AnsweredMoves, Counted
    <3>4. A \in Nat
      BY <1>0, AmountNat, ViewFields
    <3>5. r \in Nat
      BY <1>0, <1>4, ViewItems, ChannelFields
    <3> HIDE DEF A, r, m
    <3>6. 0 + A + r + m = A + r + m
      BY <3>4, <3>5
    <3> QED BY <3>1, <3>2, <3>3, <3>6 DEF m
  <2> QED BY <2>1, <2>2
<1>8. ASSUME NEW x \in DOMAIN T.chan[e] PROVE AskedIs(T, f, x)
  <2>1. CASE x # c
    <3>1. T.chan[e][x] = S.chan[e][x] /\ x \in DOMAIN S.chan[e]
      BY <1>1, <2>1
    <3>2. AskedIs(S, f, x)
      BY <1>0, <1>3, <3>1 DEF AskedOK
    <3> QED BY <1>0, <1>1, <3>1, <3>2 DEF AskedIs
  <2>2. CASE x = c
    <3>1. b.peer = 0 \/ (b.peer = d /\ T.chan[f][d].peer # 0)
      BY <1>1, <1>4 DEF Responses
    <3> QED BY <1>0, <1>1, <2>2, <3>1 DEF AskedIs
  <2> QED BY <2>1, <2>2
<1> QED BY <1>0, <1>6, <1>7, <1>8 DEF WindowsOK, AnswersOK, AskedOK

\* An answer to an open arrives: everything is kept.
LEMMA AnsweredKeeps ==
  ASSUME NEW S, Good(S), NEW e \in Ends, S.in[e] # <<>>, NEW c, NEW d, Ready(S, e, c, d), NEW b, Learns(S.chan[e][c], b, S.in[e][1], d), NEW l,
         l = IF S.in[e][1].kind = "confirm" THEN S.list[e] ELSE Forget(S.list[e], S.chan[e][c].localId)
  PROVE  Good(Answered(S, e, c, b, l))
<1> DEFINE T == Answered(S, e, c, b, l)
<1>1. IsAnswered(S, T, e, c, d, b)
  BY AnsweredFields
<1> HIDE DEF T
<1>2. \A x \in Ends : LocalOK(T, x) /\ ListOK(T, x) /\ FreshOK(T, x) /\ PeersOK(T, x) /\ ListingOK(T, x)
  BY <1>1, AnsweredLists
<1>3. OpensOK(T, e) /\ PacketsOK(T, e) /\ AcceptOK(T, e) /\ WindowsOK(T, e) /\ AnswersOK(T, e) /\ AskedOK(T, e)
  BY <1>1, AnsweredPacketsTo, AnsweredTo
<1>4. OpensOK(T, Peer(e)) /\ PacketsOK(T, Peer(e)) /\ AcceptOK(T, Peer(e)) /\ WindowsOK(T, Peer(e)) /\ AnswersOK(T, Peer(e)) /\ AskedOK(T, Peer(e))
  BY <1>1, AnsweredPacketsFrom, AnsweredFrom
<1>5. T \in ViewType /\ \A x \in Ends : x = e \/ x = Peer(e)
  BY <1>1, PeerFacts DEF IsAnswered
<1>6. Good(T)
  BY <1>2, <1>3, <1>4, <1>5 DEF Good
<1> QED BY <1>6 DEF T

-----------------------------------------------------------------------------
(* A channel is made *)

\* chanList.add: the id was free, and no other changes.
TakesId(l, m, i, c) ==
  /\ m \in Seq(Nat) /\ i \in Nat /\ GetChan(m, i) = c /\ GetChan(l, i) = 0
  /\ \A j \in Nat : j # i => GetChan(m, j) = GetChan(l, j)

LEMMA AddFacts ==
  ASSUME NEW l \in Seq(Nat), NEW c \in Nat, c # 0, \A i \in DOMAIN l : l[i] # c
  PROVE  TakesId(l, Add(l, c), CHOOSE i \in DOMAIN Add(l, c) : Add(l, c)[i] = c, c)
<1> DEFINE free == {i \in 1..Len(l) : l[i] = 0} m == Add(l, c) k == CHOOSE i \in DOMAIN m : m[i] = c
<1>0. Len(l) \in Nat /\ DOMAIN l = 1..Len(l) /\ \A i \in DOMAIN l : l[i] \in Nat
  OBVIOUS
<1>1. \E n \in Nat : /\ n # 0 /\ m \in Seq(Nat) /\ DOMAIN m = DOMAIN l \cup {n} /\ m[n] = c /\ (n \in DOMAIN l => l[n] = 0)
                     /\ \A j \in DOMAIN m : j # n => j \in DOMAIN l /\ m[j] = l[j]
  <2>1. CASE free = {}
    <3>1. m = Append(l, c)
      BY <2>1 DEF Add
    <3>2. m \in Seq(Nat) /\ DOMAIN m = DOMAIN l \cup {Len(l) + 1} /\ m[Len(l) + 1] = c /\ \A j \in DOMAIN m : j # Len(l) + 1 => j \in DOMAIN l /\ m[j] = l[j]
      BY <3>1
    <3>3. Len(l) + 1 \in Nat /\ Len(l) + 1 # 0 /\ Len(l) + 1 \notin DOMAIN l
      BY <1>0
    <3> HIDE DEF m
    <3> QED BY <3>2, <3>3
  <2>2. CASE free # {}
    <3> DEFINE n == CHOOSE i \in free : \A j \in free : i <= j
    <3>1. m = [l EXCEPT ![n] = c]
      BY <2>2 DEF Add
    <3>2. n \in free
      <4>1. free \in SUBSET Nat
        BY <1>0
      <4> HIDE DEF free
      <4>2. \E i \in free : \A j \in free : i <= j
        BY <2>2, <4>1, LeastNumber
      <4> QED BY <4>2
    <3> HIDE DEF n, m
    <3>3. n \in DOMAIN l /\ l[n] = 0 /\ n \in Nat /\ n # 0
      BY <1>0, <3>2
    <3>4. m \in Seq(Nat) /\ DOMAIN m = DOMAIN l /\ m[n] = c /\ \A j \in DOMAIN l : j # n => m[j] = l[j]
      BY <3>1, <3>3
    <3> QED BY <3>3, <3>4
  <2> QED BY <2>1, <2>2
<1> HIDE DEF m
<1>2. PICK n \in Nat : /\ n # 0 /\ m \in Seq(Nat) /\ DOMAIN m = DOMAIN l \cup {n} /\ m[n] = c /\ (n \in DOMAIN l => l[n] = 0)
                       /\ \A j \in DOMAIN m : j # n => j \in DOMAIN l /\ m[j] = l[j]
  BY <1>1
<1>3. \A i \in DOMAIN m : m[i] = c => i = n
  BY <1>2
<1>4. k \in DOMAIN m /\ m[k] = c
  BY <1>2
<1>5. k = n
  BY <1>3, <1>4
<1> HIDE DEF k
<1>6. DOMAIN m = 1..Len(m)
  BY SMTT(40), <1>2
<1>7. GetChan(m, n) = c /\ GetChan(l, n) = 0
  BY <1>0, <1>2, <1>6 DEF GetChan
<1>8. ASSUME NEW j \in Nat, j # n PROVE GetChan(m, j) = GetChan(l, j)
  BY <1>0, <1>2, <1>6, <1>8 DEF GetChan
<1>9. TakesId(l, m, k, c)
  BY <1>2, <1>5, <1>7, <1>8 DEF TakesId
<1> QED BY <1>9 DEF m, k

\* e makes channel ch; s comes to e, u to its peer, and q is left to answer.
Added(S, e, ch, l, s, u, q) ==
  View([x \in Ends |-> IF x = e THEN s ELSE u], [S.chan EXCEPT ![e] = Append(S.chan[e], ch)], [S.list EXCEPT ![e] = l],
       [S.fresh EXCEPT ![e] = q], S.runs, S.open)

Newborn(ch) ==
  /\ ch \in ChannelType /\ Local(ch) /\ ~ch.closed /\ ~ch.sentClose /\ ~ch.winClosed /\ ~ch.decided /\ ch.myWindow = WindowSize
  /\ ch.taken = 0 /\ ch.owed = 0 /\ ch.reserved = 0 /\ ch.msg = <<>> /\ ch.reqs = <<>> /\ ~ch.waits /\ ch.user # "open"

IsAdded(S, T, e, n, ch) ==
  LET f == Peer(e) i == ch.localId IN
  /\ Newborn(ch) /\ T \in ViewType /\ T.chan[f] = S.chan[f] /\ n \in Nat /\ n # 0 /\ n \notin DOMAIN S.chan[e]
  /\ DOMAIN T.chan[e] = DOMAIN S.chan[e] \cup {n} /\ T.chan[e][n] = ch /\ \A x \in DOMAIN S.chan[e] : T.chan[e][x] = S.chan[e][x]
  /\ TakesId(S.list[e], T.list[e], i, n) /\ T.list[f] = S.list[f] /\ T.fresh[f] = S.fresh[f] /\ T.runs = S.runs /\ T.open = S.open

LEMMA AddedFields ==
  ASSUME NEW S, Good(S), NEW e \in Ends, NEW n, n = Len(S.chan[e]) + 1, NEW l, l = Add(S.list[e], n), NEW ch, Newborn(ch),
         ch.localId = CHOOSE i \in DOMAIN l : l[i] = n, NEW s \in Seq(PacketType), NEW u \in Seq(PacketType), NEW q \in Seq(Nat), NEW T,
         T = Added(S, e, ch, l, s, u, q)
  PROVE  IsAdded(S, T, e, n, ch) /\ T.in[e] = s /\ T.in[Peer(e)] = u /\ T.fresh[e] = q
<1> DEFINE f == Peer(e) w == Append(S.chan[e], ch) i == [x \in Ends |-> IF x = e THEN s ELSE u]
           h == [S.chan EXCEPT ![e] = w] m == [S.list EXCEPT ![e] = l] v == [S.fresh EXCEPT ![e] = q]
<1>0. S \in ViewType /\ f \in Ends /\ f # e /\ ch \in ChannelType
  BY PeerFacts DEF Good, Newborn
<1>1. S.chan[e] \in Seq(ChannelType) /\ S.list[e] \in Seq(Nat)
  BY <1>0, ViewFields
<1>2. n \in Nat /\ n # 0 /\ n \notin DOMAIN S.chan[e]
  BY ZenonT(60), SMTT(40), <1>1
<1>3. w \in Seq(ChannelType) /\ DOMAIN w = DOMAIN S.chan[e] \cup {n} /\ w[n] = ch /\ \A x \in DOMAIN S.chan[e] : w[x] = S.chan[e][x]
  <2> DEFINE z == S.chan[e]
  <2>1. z \in Seq(ChannelType) /\ n = Len(z) + 1
    BY <1>1
  <2> HIDE DEF z
  <2>2. Append(z, ch) \in Seq(ChannelType) /\ DOMAIN Append(z, ch) = DOMAIN z \cup {n} /\ Append(z, ch)[n] = ch /\ \A x \in DOMAIN z : Append(z, ch)[x] = z[x]
    BY ZenonT(60), SMTT(40), <1>0, <2>1
  <2> QED BY <2>2 DEF z
<1>4. TakesId(S.list[e], l, ch.localId, n)
  <2>1. \A x \in DOMAIN S.list[e] : S.list[e][x] # n
    <3>1. ListOK(S, e)
      BY DEF Good
    <3> QED BY <1>2, <3>1 DEF ListOK
  <2> QED BY SMTT(40), <1>1, <1>2, <2>1, AddFacts
<1>5. l \in Seq(Nat)
  BY <1>4 DEF TakesId
<1>6. T = View(i, h, m, v, S.runs, S.open)
  BY DEF Added
<1> HIDE DEF w
<1>7. h \in [Ends -> Seq(ChannelType)] /\ h[e] = w /\ h[f] = S.chan[f]
  BY <1>0, <1>3, ViewParts
<1>8. i \in [Ends -> Seq(PacketType)] /\ i[e] = s /\ i[f] = u
  BY <1>0
<1>9. m \in [Ends -> Seq(Nat)] /\ m[e] = l /\ m[f] = S.list[f]
  BY <1>0, <1>5, ViewParts
<1>10. v \in [Ends -> Seq(Nat)] /\ v[e] = q /\ v[f] = S.fresh[f]
  BY <1>0, ViewParts
<1> HIDE DEF i, h, m, v
<1>11. T \in ViewType
  <2>1. S.runs \in [Ends -> BOOLEAN] /\ S.open \in [Ends -> BOOLEAN]
    BY <1>0, ViewParts
  <2>2. i \in [Ends -> Seq(PacketType)] /\ h \in [Ends -> Seq(ChannelType)] /\ m \in [Ends -> Seq(Nat)] /\ v \in [Ends -> Seq(Nat)]
    BY <1>7, <1>8, <1>9, <1>10
  <2>3. View(i, h, m, v, S.runs, S.open) \in ViewType
    BY <2>1, <2>2, ViewIs
  <2> QED BY <1>6, <2>3
<1>12. T.in = i /\ T.chan = h /\ T.list = m /\ T.fresh = v /\ T.runs = S.runs /\ T.open = S.open
  BY <1>6, ViewIs
<1>a. T.chan[f] = S.chan[f] /\ T.chan[e] = w /\ T.list[e] = l /\ T.list[f] = S.list[f] /\ T.fresh[f] = S.fresh[f] /\ T.in[e] = s /\ T.in[f] = u /\ T.fresh[e] = q
  BY <1>7, <1>8, <1>9, <1>10, <1>12
<1> HIDE DEF f
<1>b. IsAdded(S, T, e, n, ch)
  BY ZenonT(60), <1>2, <1>3, <1>4, <1>11, <1>12, <1>a DEF IsAdded, f
<1> QED BY <1>a, <1>b DEF f

\* Whom the new channel knows: nobody, or the channel of the peer that asked for it.
Joins(S, e, ch) ==
  LET f == Peer(e) o == S.chan[f][ch.peer] IN
  \/ ch.dir = "out" /\ ch.peer = 0
  \/ /\ ch.dir = "in" /\ ch.user = "waiting" /\ ch.peer \in DOMAIN S.chan[f] /\ ch.peer # 0 /\ ch.win = WindowSize
     /\ o.dir = "out" /\ ~o.decided /\ o.localId = ch.remoteId /\ (S.runs[f] /\ ~o.closed => o.user = "opening")
     /\ \A x \in DOMAIN S.chan[e] : S.chan[e][x].peer # ch.peer

LEMMA AddedListed ==
  ASSUME NEW S, Good(S), NEW T, NEW e \in Ends, NEW n, NEW ch, IsAdded(S, T, e, n, ch)
  PROVE  /\ Listed(T, e, n) /\ \A x \in DOMAIN S.chan[e] : Listed(T, e, x) <=> Listed(S, e, x)
         /\ \A x : Listed(T, Peer(e), x) <=> Listed(S, Peer(e), x)
<1> DEFINE f == Peer(e) i == ch.localId
<1>0. S \in ViewType
  BY DEF Good
<1>1. /\ n # 0 /\ n \notin DOMAIN S.chan[e] /\ T.chan[e][n] = ch /\ (\A x \in DOMAIN S.chan[e] : T.chan[e][x] = S.chan[e][x])
      /\ T.list[f] = S.list[f] /\ T.chan[f] = S.chan[f]
      /\ GetChan(T.list[e], i) = n /\ GetChan(S.list[e], i) = 0 /\ \A j \in Nat : j # i => GetChan(T.list[e], j) = GetChan(S.list[e], j)
  BY DEF IsAdded, TakesId
<1>2. Listed(T, e, n)
  BY <1>1 DEF Listed
<1>3. ASSUME NEW x \in DOMAIN S.chan[e] PROVE Listed(T, e, x) <=> Listed(S, e, x)
  <2> DEFINE j == S.chan[e][x].localId
  <2>1. x # 0 /\ j \in Nat /\ x # n
    BY <1>0, <1>1, ViewItems, ChannelFields
  <2>2. T.chan[e][x].localId = j
    BY <1>1
  <2>3. CASE j = i
    BY <1>1, <2>1, <2>2, <2>3 DEF Listed
  <2>4. CASE j # i
    BY <1>1, <2>1, <2>2, <2>4 DEF Listed
  <2> QED BY <2>3, <2>4
<1>4. \A x : Listed(T, f, x) <=> Listed(S, f, x)
  BY <1>1 DEF Listed
<1> QED BY <1>2, <1>3, <1>4

LEMMA AddedLists ==
  ASSUME NEW S, Good(S), NEW T, NEW e \in Ends, NEW n, NEW ch, IsAdded(S, T, e, n, ch), Joins(S, e, ch),
         T.fresh[e] = S.fresh[e] \/ (T.fresh[e] = Append(S.fresh[e], n) /\ ch.user = "waiting")
  PROVE  \A x \in Ends : LocalOK(T, x) /\ ListOK(T, x) /\ FreshOK(T, x) /\ PeersOK(T, x) /\ ListingOK(T, x)
<1> DEFINE f == Peer(e) i == ch.localId
<1>0. S \in ViewType /\ T \in ViewType /\ f \in Ends /\ Peer(f) = e /\ \A x \in Ends : x = e \/ x = f
  BY PeerFacts DEF Good, IsAdded
<1>1. /\ n # 0 /\ n \notin DOMAIN S.chan[e] /\ T.chan[e][n] = ch /\ (\A x \in DOMAIN S.chan[e] : T.chan[e][x] = S.chan[e][x])
      /\ DOMAIN T.chan[e] = DOMAIN S.chan[e] \cup {n} /\ T.list[f] = S.list[f] /\ T.chan[f] = S.chan[f] /\ T.runs = S.runs /\ T.fresh[f] = S.fresh[f]
      /\ GetChan(T.list[e], i) = n /\ (\A j \in Nat : j # i => GetChan(T.list[e], j) = GetChan(S.list[e], j))
      /\ Local(ch) /\ ~ch.closed
  BY DEF IsAdded, TakesId, Newborn
<1>2. /\ Listed(T, e, n) /\ (\A x \in DOMAIN S.chan[e] : Listed(T, e, x) <=> Listed(S, e, x))
      /\ \A x : Listed(T, f, x) <=> Listed(S, f, x)
  BY AddedListed
<1>3. LocalOK(S, e) /\ LocalOK(S, f) /\ ListOK(S, e) /\ ListOK(S, f) /\ FreshOK(S, e) /\ FreshOK(S, f) /\ PeersOK(S, e) /\ PeersOK(S, f) /\ ListingOK(S, e) /\ ListingOK(S, f)
  BY <1>0 DEF Good
<1>4. \A x \in DOMAIN S.chan[e] : T.chan[e][x] = S.chan[e][x] /\ x \in DOMAIN T.chan[e] /\ x # n /\ x # 0
  BY <1>0, <1>1, ViewItems
<1>5. LocalOK(T, e) /\ LocalOK(T, f)
  BY <1>1, <1>3 DEF LocalOK
<1>6. ListOK(T, f)
  BY <1>1, <1>2, <1>3 DEF ListOK
<1>7. ListOK(T, e)
  <2>1. ASSUME NEW j \in DOMAIN T.list[e], T.list[e][j] # 0 PROVE T.list[e][j] \in DOMAIN T.chan[e] /\ T.chan[e][T.list[e][j]].localId = j
    <3>1. j \in Nat /\ GetChan(T.list[e], j) = T.list[e][j]
      BY <1>0, ViewItems DEF GetChan
    <3>2. CASE j = i
      BY <1>1, <3>1, <3>2
    <3>3. CASE j # i
      <4>1. GetChan(S.list[e], j) = T.list[e][j]
        BY <1>1, <3>1, <3>3
      <4>2. j \in DOMAIN S.list[e] /\ S.list[e][j] = T.list[e][j]
        BY <1>0, <2>1, <4>1, ViewItems DEF GetChan
      <4>3. S.list[e][j] \in DOMAIN S.chan[e] /\ S.chan[e][S.list[e][j]].localId = j
        BY <1>3, <2>1, <4>2 DEF ListOK
      <4> QED BY <1>4, <4>2, <4>3
    <3> QED BY <3>2, <3>3
  <2>2. ASSUME T.runs[e], NEW x \in DOMAIN T.chan[e], Listed(T, e, x) PROVE ~T.chan[e][x].closed
    <3>1. CASE x = n
      BY <1>1, <3>1
    <3>2. CASE x # n
      <4>1. x \in DOMAIN S.chan[e] /\ Listed(S, e, x)
        BY <1>1, <1>2, <2>2, <3>2
      <4> QED BY <1>1, <1>3, <2>2, <4>1 DEF ListOK
    <3> QED BY <3>1, <3>2
  <2> QED BY <2>1, <2>2 DEF ListOK
<1>8. FreshOK(T, f)
  BY <1>1, <1>3 DEF FreshOK
<1>9. FreshOK(T, e)
  <2> DEFINE w == S.fresh[e] v == T.fresh[e]
  <2>0. w \in Seq(Nat)
    BY <1>0, ViewFields
  <2>1. /\ \A x \in DOMAIN w : w[x] \in DOMAIN S.chan[e] /\ S.chan[e][w[x]].user = "waiting"
        /\ \A x, y \in DOMAIN w : w[x] = w[y] => x = y
    BY <1>3 DEF FreshOK
  <2>2. CASE v = w
    BY <1>4, <2>1, <2>2 DEF FreshOK
  <2>3. CASE v = Append(w, n) /\ ch.user = "waiting"
    <3>1. n \in Nat
      BY DEF IsAdded
    <3> HIDE DEF w, v
    <3>2. \A x \in DOMAIN v : (x \in DOMAIN w /\ v[x] = w[x]) \/ (x \notin DOMAIN w /\ x = Len(w) + 1 /\ v[x] = n)
      BY <2>0, <2>3, <3>1
    <3>3. ASSUME NEW x \in DOMAIN v PROVE v[x] \in DOMAIN T.chan[e] /\ T.chan[e][v[x]].user = "waiting"
      BY <1>1, <1>4, <2>1, <2>3, <3>2
    <3>4. ASSUME NEW x \in DOMAIN v, NEW y \in DOMAIN v, v[x] = v[y] PROVE x = y
      BY <1>4, <2>1, <3>2, <3>4
    <3> QED BY <3>3, <3>4 DEF FreshOK, v
  <2> QED BY <2>2, <2>3
<1>10. PeersOK(T, e)
  <2> SUFFICES ASSUME NEW x \in DOMAIN T.chan[e], T.chan[e][x].peer # 0 PROVE Paired(T, e, x)
    BY ZenonT(60) DEF PeersOK, Paired
  <2>1. CASE x = n
    <3> DEFINE d == ch.peer o == S.chan[f][d]
    <3>1. /\ ch.dir = "in" /\ d \in DOMAIN S.chan[f] /\ o.dir = "out" /\ ~o.decided /\ o.localId = ch.remoteId
          /\ \A z \in DOMAIN S.chan[e] : S.chan[e][z].peer # d
      BY <1>1, <2>1 DEF Joins
    <3>2. \A z \in DOMAIN T.chan[e] : T.chan[e][z].peer = d => z = n
      BY <1>1, <3>1
    <3> QED BY <1>1, <2>1, <3>1, <3>2 DEF Paired
  <2>2. CASE x # n
    <3>1. x \in DOMAIN S.chan[e] /\ T.chan[e][x] = S.chan[e][x]
      BY <1>1, <2>2
    <3>2. IsPartner(S, e, x, f, S.chan[e][x].peer)
      BY <1>0, <1>3, <3>1, Partner
    <3>3. ch.peer # S.chan[e][x].peer
      BY <3>1 DEF Joins
    <3>4. \A z \in DOMAIN T.chan[e] : T.chan[e][z].peer = S.chan[e][x].peer => z = x
      BY <1>1, <3>2, <3>3 DEF IsPartner
    <3> QED BY ZenonT(60), <1>1, <3>1, <3>2, <3>4 DEF Paired, IsPartner
  <2> QED BY <2>1, <2>2
<1>11. ASSUME NEW x \in DOMAIN S.chan[f], S.chan[f][x].peer # 0
       PROVE  IsPartner(S, f, x, e, S.chan[f][x].peer) /\ S.chan[f][x].peer \in DOMAIN S.chan[e]
  <2>1. IsPartner(S, f, x, e, S.chan[f][x].peer)
    BY <1>0, <1>3, <1>11, Partner
  <2> QED BY ZenonT(60), <2>1 DEF IsPartner
<1>12. PeersOK(T, f)
  <2> SUFFICES ASSUME NEW x \in DOMAIN T.chan[f], T.chan[f][x].peer # 0 PROVE Paired(T, f, x)
    BY ZenonT(60) DEF PeersOK, Paired
  <2>1. x \in DOMAIN S.chan[f] /\ T.chan[f][x] = S.chan[f][x]
    BY <1>1
  <2>2. IsPartner(S, f, x, e, S.chan[f][x].peer) /\ S.chan[f][x].peer \in DOMAIN S.chan[e]
    BY <1>11, <2>1
  <2> QED BY ZenonT(60), <1>0, <1>1, <1>4, <2>1, <2>2 DEF Paired, IsPartner
<1>13. ListingOK(T, e)
  <2> SUFFICES ASSUME T.runs[e], NEW x \in DOMAIN T.chan[e], ~Listed(T, e, x) PROVE Through(T, e, x)
    BY DEF ListingOK
  <2>1. x \in DOMAIN S.chan[e] /\ ~Listed(S, e, x) /\ S.runs[e] /\ T.chan[e][x] = S.chan[e][x]
    BY <1>1, <1>2
  <2>2. Through(S, e, x)
    BY <1>3, <2>1 DEF ListingOK
  <2> QED BY <1>1, <2>1, <2>2 DEF Through
<1>14. ListingOK(T, f)
  <2> SUFFICES ASSUME T.runs[f], NEW x \in DOMAIN T.chan[f], ~Listed(T, f, x) PROVE Through(T, f, x)
    BY DEF ListingOK
  <2>1. x \in DOMAIN S.chan[f] /\ ~Listed(S, f, x) /\ S.runs[f] /\ T.chan[f][x] = S.chan[f][x] /\ x # 0
    BY <1>0, <1>1, <1>2, ViewItems
  <2>2. Through(S, f, x)
    BY <1>3, <2>1 DEF ListingOK
  <2>3. ASSUME S.chan[f][x].dir = "in" PROVE T.chan[e][S.chan[f][x].peer].peer = x
    <3>1. S.chan[f][x].peer # 0
      BY ZenonT(60), <1>3, <2>1, <2>3 DEF LocalOK, Local
    <3> QED BY <1>0, <1>4, <1>11, <2>1, <2>2, <2>3, <3>1 DEF Through
  <2>4. ch.peer # x
    BY <2>1, <2>2 DEF Joins, Through
  <2>5. ASSUME NEW z \in DOMAIN T.chan[e], T.chan[e][z].peer = x PROVE Done(T.chan[e][z])
    <3>1. z \in DOMAIN S.chan[e] /\ T.chan[e][z] = S.chan[e][z]
      BY <1>1, <2>4, <2>5
    <3> QED BY <1>0, <2>2, <2>5, <3>1 DEF Through
  <2> QED BY <1>0, <2>1, <2>2, <2>3, <2>5 DEF Through
<1> QED BY <1>0, <1>5, <1>6, <1>7, <1>8, <1>9, <1>10, <1>12, <1>13, <1>14

\* The open that it answers is taken; the open that it sends is added.
Gets(S, T, e, ch) ==
  \/ T.in[e] = S.in[e] /\ ch.peer = 0
  \/ S.in[e] # <<>> /\ Head(S.in[e]).kind = "open" /\ Head(S.in[e]).from = ch.peer /\ T.in[e] = Tail(S.in[e])
Puts(S, T, e, n, ch) ==
  \/ T.in[Peer(e)] = S.in[Peer(e)]
  \/ \E p \in PacketType :
       /\ T.in[Peer(e)] = Append(S.in[Peer(e)], p) /\ p.kind = "open" /\ p.from = n /\ p.id = ch.localId /\ p.n = WindowSize
       /\ ch.user = "opening" /\ ch.dir = "out"

LEMMA AddedPacketsTo ==
  ASSUME NEW S, Good(S), NEW T, NEW e \in Ends, NEW n, NEW ch, IsAdded(S, T, e, n, ch), Gets(S, T, e, ch)
  PROVE  OpensOK(T, e) /\ PacketsOK(T, e) /\ AcceptOK(T, e)
<1> DEFINE f == Peer(e) w == S.in[e] s == T.in[e]
<1>0. S \in ViewType /\ T \in ViewType /\ f \in Ends /\ Peer(f) = e /\ w \in Seq(PacketType)
  BY PeerFacts, ViewFields DEF Good, IsAdded
<1>1. /\ n # 0 /\ n \notin DOMAIN S.chan[e] /\ T.chan[e][n] = ch /\ (\A x \in DOMAIN S.chan[e] : T.chan[e][x] = S.chan[e][x])
      /\ DOMAIN T.chan[e] = DOMAIN S.chan[e] \cup {n} /\ T.chan[f] = S.chan[f] /\ T.runs = S.runs /\ T.open = S.open
  BY DEF IsAdded
<1>2. \A x \in DOMAIN S.chan[e] : Listed(T, e, x) <=> Listed(S, e, x)
  BY AddedListed
<1>3. OpensOK(S, e) /\ PacketsOK(S, e) /\ AcceptOK(S, e) /\ PeersOK(S, f) /\ LocalOK(S, f)
  BY <1>0 DEF Good
<1>4. (s = w /\ ch.peer = 0) \/ (w # <<>> /\ Head(w).kind = "open" /\ Head(w).from = ch.peer /\ s = Tail(w))
  BY DEF Gets
<1> HIDE DEF w, s
<1>5. PICK k \in {0, 1} :
        /\ \A i \in DOMAIN s : i \in Nat /\ i + k \in DOMAIN w /\ s[i] = w[i + k] /\ 0 < i
        /\ \A i \in DOMAIN w : i \in Nat /\ (w[i].kind # "open" => i - k \in DOMAIN s /\ s[i - k] = w[i])
        /\ k = 0 => ch.peer = 0
        /\ k = 1 => 1 \in DOMAIN w /\ w[1].kind = "open" /\ w[1].from = ch.peer
  <2>1. CASE s = w /\ ch.peer = 0
    <3>1. /\ \A i \in DOMAIN s : i \in Nat /\ i + 0 \in DOMAIN w /\ s[i] = w[i + 0] /\ 0 < i
          /\ \A i \in DOMAIN w : i \in Nat /\ i - 0 \in DOMAIN s /\ s[i - 0] = w[i]
      BY <1>0, <2>1
    <3> QED BY <2>1, <3>1
  <2>2. CASE w # <<>> /\ Head(w).kind = "open" /\ Head(w).from = ch.peer /\ s = Tail(w)
    <3>1. /\ \A i \in DOMAIN s : i \in Nat /\ i + 1 \in DOMAIN w /\ s[i] = w[i + 1] /\ 0 < i
          /\ \A i \in DOMAIN w : i \in Nat /\ (i # 1 => i - 1 \in DOMAIN s /\ s[i - 1] = w[i])
          /\ 1 \in DOMAIN w /\ Head(w) = w[1]
      BY ZenonT(60), SMTT(40), <1>0, <2>2
    <3> QED BY <2>2, <3>1
  <2> QED BY <1>4, <2>1, <2>2
<1>6. \A i \in DOMAIN s : Carries(s[i]) => S.chan[f][s[i].from].peer \in DOMAIN S.chan[e] /\ s[i].from \in DOMAIN S.chan[f]
  BY <1>5, KnownBefore DEF w
<1>7. OpensOK(T, e)
  <2>1. ASSUME NEW i \in DOMAIN s, s[i].kind = "open" PROVE OpenIs(T, e, s[i])
    <3>1. OpenIs(S, e, s[i])
      BY <1>3, <1>5 DEF OpensOK, w
    <3>2. s[i].from # ch.peer
      <4>1. s[i].from # 0
        <5>1. s[i].from \in DOMAIN S.chan[f]
          BY <2>1, <3>1 DEF OpenIs
        <5> QED BY <1>0, <5>1, ViewItems
      <4>2. CASE k = 0
        BY <1>5, <4>1, <4>2
      <4>3. CASE k = 1
        <5> SUFFICES ASSUME s[i].from = ch.peer PROVE FALSE
          OBVIOUS
        <5>1. i + 1 = 1
          BY <1>3, <1>5, <2>1, <4>3 DEF OpensOK, w
        <5> QED BY <1>5, <5>1
      <4> QED BY <1>5, <4>2, <4>3
    <3>3. \A x \in DOMAIN T.chan[e] : T.chan[e][x].peer # s[i].from
      <4>1. \A x \in DOMAIN S.chan[e] : S.chan[e][x].peer # s[i].from
        BY <2>1, <3>1 DEF OpenIs
      <4> QED BY <1>1, <3>2, <4>1
    <3> QED BY <1>1, <3>1, <3>3 DEF OpenIs
  <2>2. ASSUME NEW i \in DOMAIN s, NEW j \in DOMAIN s, s[i].kind = "open", s[j].kind = "open", s[i].from = s[j].from PROVE i = j
    <3>1. i + k = j + k
      BY <1>3, <1>5, <2>2 DEF OpensOK, w
    <3> QED BY <1>5, <3>1
  <2>3. \A i \in DOMAIN s : OpenIs(T, e, s[i])
    BY <2>1 DEF OpenIs
  <2> QED BY <2>2, <2>3 DEF OpensOK, s
<1>8. PacketsOK(T, e)
  <2>1. ASSUME NEW i \in DOMAIN s, Carries(s[i]) PROVE PacketIs(T, e, s[i])
    <3> DEFINE z == S.chan[f][s[i].from].peer
    <3>1. PacketIs(S, e, s[i])
      BY <1>3, <1>5 DEF PacketsOK, w
    <3>2. z \in DOMAIN S.chan[e]
      BY <1>6, <2>1
    <3>3. T.chan[e][z] = S.chan[e][z] /\ (Listed(T, e, z) <=> Listed(S, e, z))
      BY <1>1, <1>2, <3>2
    <3> QED BY ZenonT(60), <1>1, <3>1, <3>3 DEF PacketIs
  <2>2. ASSUME NEW i \in DOMAIN s, NEW j \in DOMAIN s, i < j PROVE Orders(s[i], s[j])
    <3>1. i + k < j + k
      BY <1>5, <2>2
    <3> QED BY <1>3, <1>5, <3>1 DEF PacketsOK, w
  <2>3. ASSUME NEW i \in DOMAIN s, Carries(s[i]), s[i].kind \notin Responses
        PROVE  Told(T, e, s[i].from) \/ \E j \in DOMAIN s : j < i /\ s[j].kind = "confirm" /\ s[j].from = s[i].from
    <3> DEFINE x == s[i].from z == S.chan[f][x].peer
    <3>1. z \in DOMAIN S.chan[e] /\ x \in DOMAIN S.chan[f]
      BY <1>6, <2>3
    <3>2. Told(S, e, x) \/ \E j \in DOMAIN w : j < i + k /\ w[j].kind = "confirm" /\ w[j].from = x
      BY <1>3, <1>5, <2>3 DEF PacketsOK, w
    <3>3. CASE Told(S, e, x)
      <4>1. T.chan[e][z] = S.chan[e][z]
        BY <1>1, <3>1
      <4> QED BY <1>1, <3>3, <4>1 DEF Told
    <3>4. ASSUME NEW j \in DOMAIN w, j < i + k, w[j].kind = "confirm", w[j].from = x
          PROVE  \E y \in DOMAIN s : y < i /\ s[y].kind = "confirm" /\ s[y].from = x
      <4>1. j - k \in DOMAIN s /\ s[j - k] = w[j] /\ j \in Nat /\ i \in Nat
        BY <1>5, <3>4
      <4>2. j - k < i
        BY <1>5, <3>4, <4>1
      <4> QED BY <3>4, <4>1, <4>2
    <3> QED BY <3>2, <3>3, <3>4
  <2>4. \A i \in DOMAIN s : PacketIs(T, e, s[i])
    BY <2>1 DEF PacketIs
  <2> QED BY <2>2, <2>3, <2>4 DEF PacketsOK, s
<1>9. AcceptOK(T, e)
  <2> SUFFICES ASSUME NEW x \in DOMAIN T.chan[f], T.chan[f][x].dir = "in", T.chan[f][x].user = "open", T.open[e]
               PROVE  Told(T, e, x) \/ \E j \in DOMAIN s : s[j].kind = "confirm" /\ s[j].from = x
    BY DEF AcceptOK, s
  <2> DEFINE z == S.chan[f][x].peer
  <2>1. x \in DOMAIN S.chan[f] /\ S.chan[f][x].dir = "in" /\ S.chan[f][x].user = "open" /\ S.open[e]
    BY <1>1
  <2>2. Told(S, e, x) \/ \E j \in DOMAIN w : w[j].kind = "confirm" /\ w[j].from = x
    BY <1>3, <2>1 DEF AcceptOK, w
  <2>3. z \in DOMAIN S.chan[e]
    <3>1. z # 0
      BY <1>3, <2>1 DEF LocalOK, Local
    <3>2. IsPartner(S, f, x, e, z)
      BY <1>0, <1>3, <2>1, <3>1, Partner
    <3> QED BY <3>2 DEF IsPartner
  <2>4. T.chan[e][z] = S.chan[e][z]
    BY <1>1, <2>3
  <2>5. Told(S, e, x) => Told(T, e, x)
    BY <1>1, <2>4 DEF Told
  <2>6. ASSUME NEW j \in DOMAIN w, w[j].kind = "confirm", w[j].from = x
        PROVE  \E y \in DOMAIN s : s[y].kind = "confirm" /\ s[y].from = x
    <3>1. j - k \in DOMAIN s /\ s[j - k] = w[j]
      BY <1>5, <2>6
    <3> QED BY <2>6, <3>1
  <2> QED BY <2>2, <2>5, <2>6
<1> QED BY <1>7, <1>8, <1>9

LEMMA AddedPacketsFrom ==
  ASSUME NEW S, Good(S), NEW T, NEW e \in Ends, NEW n, NEW ch, IsAdded(S, T, e, n, ch), Puts(S, T, e, n, ch)
  PROVE  OpensOK(T, Peer(e)) /\ PacketsOK(T, Peer(e)) /\ AcceptOK(T, Peer(e))
<1> DEFINE f == Peer(e) w == S.in[f] u == T.in[f]
           New(p) == p.kind = "open" /\ p.from = n /\ p.id = ch.localId /\ p.n = WindowSize /\ ch.user = "opening" /\ ch.dir = "out"
<1>0. S \in ViewType /\ T \in ViewType /\ f \in Ends /\ Peer(f) = e /\ w \in Seq(PacketType)
  BY PeerFacts, ViewFields DEF Good, IsAdded
<1>1. /\ n # 0 /\ n \notin DOMAIN S.chan[e] /\ T.chan[e][n] = ch /\ (\A x \in DOMAIN S.chan[e] : T.chan[e][x] = S.chan[e][x])
      /\ DOMAIN T.chan[e] = DOMAIN S.chan[e] \cup {n} /\ T.chan[f] = S.chan[f] /\ T.runs = S.runs /\ T.open = S.open
      /\ ~ch.decided /\ ch.user # "open"
  BY DEF IsAdded, Newborn
<1>2. \A x : Listed(T, f, x) <=> Listed(S, f, x)
  BY AddedListed
<1>3. OpensOK(S, f) /\ PacketsOK(S, f) /\ AcceptOK(S, f) /\ PeersOK(S, f)
  BY <1>0 DEF Good
<1>4. u = w \/ \E p \in PacketType : u = Append(w, p) /\ New(p)
  BY DEF Puts
<1> HIDE DEF w, u, New
<1>5. /\ \A i \in DOMAIN w : i \in DOMAIN u /\ u[i] = w[i] /\ i \in Nat /\ i <= Len(w) /\ Len(w) \in Nat
      /\ \A i \in DOMAIN u : (i \in DOMAIN w /\ u[i] = w[i]) \/ (i \notin DOMAIN w /\ i = Len(w) + 1 /\ New(u[i]))
  <2>1. CASE u = w
    BY <1>0, <2>1
  <2>2. ASSUME NEW p \in PacketType, u = Append(w, p), New(p) PROVE <1>5!1 /\ <1>5!2
    <3>1. /\ \A i \in DOMAIN w : i \in DOMAIN u /\ u[i] = w[i] /\ i \in Nat /\ i <= Len(w) /\ Len(w) \in Nat
          /\ \A i \in DOMAIN u : (i \in DOMAIN w /\ u[i] = w[i]) \/ (i \notin DOMAIN w /\ i = Len(w) + 1 /\ u[i] = p)
      BY <1>0, <2>2
    <3> QED BY <2>2, <3>1
  <2> QED BY <1>4, <2>1, <2>2
<1>6. \A p : New(p) => ~Carries(p) /\ p.kind = "open" /\ p.kind # "confirm"
  BY DEF New, Carries
<1>7. ASSUME NEW i \in DOMAIN w, Carries(w[i]) PROVE w[i].from \in DOMAIN S.chan[e] /\ T.chan[e][w[i].from] = S.chan[e][w[i].from]
  <2>1. w[i].from \in DOMAIN S.chan[e]
    BY <1>0, <1>7, KnownBefore DEF w
  <2> QED BY <1>1, <2>1
<1>8. ASSUME NEW i \in DOMAIN w, w[i].kind = "open" PROVE w[i].from \in DOMAIN S.chan[e] /\ OpenIs(S, f, w[i])
  <2>1. OpenIs(S, f, w[i])
    BY <1>3 DEF OpensOK, w
  <2> QED BY <1>0, <1>8, <2>1 DEF OpenIs
<1>9. OpensOK(T, f)
  <2>1. ASSUME NEW i \in DOMAIN u, u[i].kind = "open" PROVE OpenIs(T, f, u[i])
    <3>1. CASE i \in DOMAIN w /\ u[i] = w[i]
      <4>1. w[i].from \in DOMAIN S.chan[e] /\ OpenIs(S, f, w[i])
        BY <1>8, <2>1, <3>1
      <4>2. T.chan[e][w[i].from] = S.chan[e][w[i].from] /\ w[i].from \in DOMAIN T.chan[e]
        BY <1>1, <4>1
      <4> QED BY <1>0, <1>1, <3>1, <4>1, <4>2 DEF OpenIs
    <3>2. CASE New(u[i])
      <4>1. u[i].from = n /\ u[i].id = ch.localId /\ u[i].n = WindowSize /\ ch.user = "opening" /\ ch.dir = "out"
        BY <3>2 DEF New
      <4>2. ASSUME NEW x \in DOMAIN S.chan[f], S.chan[f][x].peer = n PROVE FALSE
        <5>1. IsPartner(S, f, x, e, n)
          BY <1>0, <1>1, <1>3, <4>2, Partner
        <5> QED BY <1>1, <5>1 DEF IsPartner
      <4> QED BY <1>0, <1>1, <4>1, <4>2 DEF OpenIs
    <3> QED BY <1>5, <3>1, <3>2
  <2>2. ASSUME NEW i \in DOMAIN u, NEW j \in DOMAIN u, u[i].kind = "open", u[j].kind = "open", u[i].from = u[j].from PROVE i = j
    <3>1. CASE i \in DOMAIN w /\ u[i] = w[i] /\ j \in DOMAIN w /\ u[j] = w[j]
      BY <1>3, <2>2, <3>1 DEF OpensOK, w
    <3>2. CASE i = Len(w) + 1 /\ j = Len(w) + 1
      BY <3>2
    <3>3. CASE i \in DOMAIN w /\ u[i] = w[i] /\ New(u[j])
      BY <1>1, <1>8, <2>2, <3>3 DEF New
    <3>4. CASE j \in DOMAIN w /\ u[j] = w[j] /\ New(u[i])
      BY <1>1, <1>8, <2>2, <3>4 DEF New
    <3> QED BY <1>5, <3>1, <3>2, <3>3, <3>4
  <2>3. \A i \in DOMAIN u : OpenIs(T, f, u[i])
    BY <2>1 DEF OpenIs
  <2> QED BY <2>2, <2>3 DEF OpensOK, u
<1>10. PacketsOK(T, f)
  <2>0. \A i \in DOMAIN u : Carries(u[i]) => i \in DOMAIN w /\ u[i] = w[i]
    BY <1>5, <1>6
  <2>1. ASSUME NEW i \in DOMAIN u, Carries(u[i]) PROVE PacketIs(T, f, u[i])
    <3>0. i \in DOMAIN w /\ u[i] = w[i] /\ Carries(w[i])
      BY <2>0, <2>1
    <3>1. PacketIs(S, f, w[i])
      BY <1>3, <3>0 DEF PacketsOK, w
    <3>2. T.chan[e][w[i].from] = S.chan[e][w[i].from] /\ w[i].from \in DOMAIN T.chan[e]
      BY <1>1, <1>7, <3>0
    <3> QED BY <1>0, <1>1, <1>2, <3>0, <3>1, <3>2 DEF PacketIs
  <2>2. ASSUME NEW i \in DOMAIN u, NEW j \in DOMAIN u, i < j PROVE Orders(u[i], u[j])
    <3> SUFFICES ASSUME Carries(u[i]), Carries(u[j]) PROVE Orders(u[i], u[j])
      BY DEF Orders
    <3>1. i \in DOMAIN w /\ j \in DOMAIN w /\ u[i] = w[i] /\ u[j] = w[j]
      BY <2>0
    <3> QED BY <1>3, <2>2, <3>1 DEF PacketsOK, w
  <2>3. ASSUME NEW i \in DOMAIN u, Carries(u[i]), u[i].kind \notin Responses
        PROVE  Told(T, f, u[i].from) \/ \E j \in DOMAIN u : j < i /\ u[j].kind = "confirm" /\ u[j].from = u[i].from
    <3>0. i \in DOMAIN w /\ u[i] = w[i] /\ Carries(w[i])
      BY <2>0, <2>3
    <3>1. Told(S, f, w[i].from) \/ \E j \in DOMAIN w : j < i /\ w[j].kind = "confirm" /\ w[j].from = w[i].from
      BY <1>3, <2>3, <3>0 DEF PacketsOK, w
    <3>2. Told(S, f, w[i].from) => Told(T, f, w[i].from)
      <4>1. T.chan[e][w[i].from] = S.chan[e][w[i].from]
        BY <1>7, <3>0
      <4> QED BY <1>0, <1>1, <4>1 DEF Told
    <3> QED BY <1>5, <3>0, <3>1, <3>2
  <2>4. \A i \in DOMAIN u : PacketIs(T, f, u[i])
    BY <2>1 DEF PacketIs
  <2> QED BY <2>2, <2>3, <2>4 DEF PacketsOK, u
<1>11. AcceptOK(T, f)
  <2> SUFFICES ASSUME NEW x \in DOMAIN T.chan[e], T.chan[e][x].dir = "in", T.chan[e][x].user = "open", T.open[f]
               PROVE  Told(T, f, x) \/ \E j \in DOMAIN u : u[j].kind = "confirm" /\ u[j].from = x
    BY <1>0 DEF AcceptOK, u
  <2>1. x \in DOMAIN S.chan[e] /\ T.chan[e][x] = S.chan[e][x]
    BY <1>1
  <2>2. Told(S, f, x) \/ \E j \in DOMAIN w : w[j].kind = "confirm" /\ w[j].from = x
    BY <1>0, <1>1, <1>3, <2>1 DEF AcceptOK, w
  <2>3. Told(S, f, x) => Told(T, f, x)
    BY <1>0, <1>1, <2>1 DEF Told
  <2> QED BY <1>5, <2>2, <2>3
<1> QED BY <1>9, <1>10, <1>11

LEMMA AddedCounts ==
  ASSUME NEW S, Good(S), NEW T, NEW e \in Ends, NEW n, NEW ch, IsAdded(S, T, e, n, ch), Gets(S, T, e, ch), Puts(S, T, e, n, ch), NEW x \in Ends
  PROVE  (\A k \in Counted : \A z : Amount(T.in[x], k, z) = Amount(S.in[x], k, z)) /\ (\A z : Tells(T.in[x], z) = Tells(S.in[x], z))
<1> DEFINE w == S.in[x] s == T.in[x]
<1>0. w \in Seq(PacketType) /\ s \in Seq(PacketType)
  BY ViewFields DEF Good, IsAdded
<1>1. \/ s = w
      \/ w # <<>> /\ Head(w).kind = "open" /\ s = Tail(w)
      \/ \E p \in PacketType : s = Append(w, p) /\ p.kind = "open"
  BY PeerFacts DEF Gets, Puts
<1>2. \A p : p.kind = "open" => (\A k \in Counted : \A z : Weight(p, k, z) = 0) /\ \A z : Tell(p, z) = 0
  <2>1. \A p : p.kind = "open" => Quiet(p)
    BY DEF Quiet
  <2> QED BY <2>1, QuietWeight
<1> HIDE DEF w, s
<1>3. CASE s = w
  BY <1>3 DEF s, w
<1>4. ASSUME w # <<>>, Head(w).kind = "open", s = Tail(w) PROVE (\A k \in Counted : \A z : Amount(s, k, z) = Amount(w, k, z)) /\ (\A z : Tells(s, z) = Tells(w, z))
  <2>0. Head(w) \in PacketType
    BY <1>0, <1>4
  <2>1. ASSUME NEW k \in Counted, NEW z PROVE Amount(s, k, z) = Amount(w, k, z)
    <3>1. Amount(w, k, z) = Weight(Head(w), k, z) + Amount(s, k, z)
      BY <1>0, <1>4, <2>0, AmountSteps
    <3>2. Amount(s, k, z) \in Nat /\ Weight(Head(w), k, z) = 0
      BY <1>0, <1>2, <1>4, AmountNat
    <3> QED BY <3>1, <3>2
  <2>2. ASSUME NEW z PROVE Tells(s, z) = Tells(w, z)
    <3>1. Tells(w, z) = Tell(Head(w), z) + Tells(s, z)
      BY <1>0, <1>4, <2>0, TellsMoves
    <3>2. Tells(s, z) \in Nat /\ Tell(Head(w), z) = 0
      BY <1>0, <1>2, <1>4, AmountNat
    <3> QED BY <3>1, <3>2
  <2> QED BY <2>1, <2>2
<1>5. ASSUME NEW p \in PacketType, s = Append(w, p), p.kind = "open" PROVE (\A k \in Counted : \A z : Amount(s, k, z) = Amount(w, k, z)) /\ (\A z : Tells(s, z) = Tells(w, z))
  <2>1. ASSUME NEW k \in Counted, NEW z PROVE Amount(s, k, z) = Amount(w, k, z)
    <3>1. Amount(s, k, z) = Amount(w, k, z) + Weight(p, k, z)
      BY <1>0, <1>5, AmountSteps
    <3>2. Amount(w, k, z) \in Nat /\ Weight(p, k, z) = 0
      BY <1>0, <1>2, <1>5, AmountNat
    <3> QED BY <3>1, <3>2
  <2>2. ASSUME NEW z PROVE Tells(s, z) = Tells(w, z)
    <3>1. Tells(s, z) = Tells(w, z) + Tell(p, z)
      BY ZenonT(60), <1>0, <1>5, TellsMoves
    <3>2. Tells(w, z) \in Nat /\ Tell(p, z) = 0
      BY <1>0, <1>2, <1>5, AmountNat
    <3> QED BY <3>1, <3>2
  <2> QED BY <2>1, <2>2
<1> QED BY <1>1, <1>3, <1>4, <1>5 DEF s, w

LEMMA AddedTo ==
  ASSUME NEW S, Good(S), NEW T, NEW e \in Ends, NEW n, NEW ch, IsAdded(S, T, e, n, ch), Gets(S, T, e, ch), Puts(S, T, e, n, ch)
  PROVE  WindowsOK(T, e) /\ AnswersOK(T, e) /\ AskedOK(T, e)
<1> DEFINE f == Peer(e)
<1>0. S \in ViewType /\ f \in Ends /\ Peer(f) = e
  BY PeerFacts DEF Good
<1>1. (\A x \in DOMAIN S.chan[e] : T.chan[e][x] = S.chan[e][x]) /\ T.chan[f] = S.chan[f] /\ T.runs = S.runs /\ T.open = S.open
  BY DEF IsAdded
<1>2. \A x \in Ends : (\A k \in Counted : \A z : Amount(T.in[x], k, z) = Amount(S.in[x], k, z)) /\ (\A z : Tells(T.in[x], z) = Tells(S.in[x], z))
  BY ZenonT(60), AddedCounts
<1>3. PeersOK(S, f) /\ WindowsOK(S, e) /\ AnswersOK(S, e) /\ AskedOK(S, e)
  BY <1>0 DEF Good
<1>4. ASSUME NEW x \in DOMAIN T.chan[f] PROVE WindowIs(T, e, x) /\ AnswerIs(T, e, x) /\ AskedIs(T, e, x)
  <2> DEFINE z == S.chan[f][x].peer
  <2> SUFFICES ASSUME z # 0 PROVE WindowIs(T, e, x) /\ AnswerIs(T, e, x) /\ AskedIs(T, e, x)
    BY ZenonT(60), <1>1 DEF WindowIs, AnswerIs, AskedIs
  <2>1. x \in DOMAIN S.chan[f] /\ T.chan[f][x] = S.chan[f][x]
    BY <1>1
  <2>2. z \in DOMAIN S.chan[e]
    <3>1. IsPartner(S, f, x, e, z)
      BY <1>0, <1>3, <2>1, Partner
    <3> QED BY <3>1 DEF IsPartner
  <2>3. T.chan[e][z] = S.chan[e][z]
    BY <1>1, <2>2
  <2>4. /\ Amount(T.in[e], "data", x) = Amount(S.in[e], "data", x) /\ Amount(T.in[e], "adjust", x) = Amount(S.in[e], "adjust", x)
        /\ Amount(T.in[f], "adjust", z) = Amount(S.in[f], "adjust", z) /\ Amount(T.in[f], "request", z) = Amount(S.in[f], "request", z)
        /\ Amount(T.in[e], "request", x) = Amount(S.in[e], "request", x) /\ Tells(T.in[e], x) = Tells(S.in[e], x)
    BY <1>0, <1>2 DEF Counted
  <2>5. Credit(T, e, x) = Credit(S, e, x) /\ (Exact(T, e, x) <=> Exact(S, e, x))
    BY <1>1, <2>1, <2>3, <2>4 DEF Credit, Exact
  <2>6. WindowIs(T, e, x)
    BY ZenonT(60), <1>3, <2>1, <2>3, <2>4, <2>5 DEF WindowIs, WindowsOK
  <2>7. AnswerIs(T, e, x)
    BY ZenonT(60), <1>1, <1>3, <2>1, <2>3, <2>4 DEF AnswerIs, AnswersOK
  <2>8. AskedIs(T, e, x)
    BY <1>1, <1>3, <2>1, <2>3, <2>4 DEF AskedIs, AskedOK
  <2> QED BY <2>6, <2>7, <2>8
<1> QED BY <1>4 DEF WindowsOK, AnswersOK, AskedOK

LEMMA AddedFrom ==
  ASSUME NEW S, Good(S), NEW T, NEW e \in Ends, NEW n, NEW ch, IsAdded(S, T, e, n, ch), Joins(S, e, ch), Gets(S, T, e, ch), Puts(S, T, e, n, ch)
  PROVE  WindowsOK(T, Peer(e)) /\ AnswersOK(T, Peer(e)) /\ AskedOK(T, Peer(e))
<1> DEFINE f == Peer(e)
<1>0. S \in ViewType /\ f \in Ends /\ Peer(f) = e
  BY PeerFacts DEF Good
<1>1. /\ n \notin DOMAIN S.chan[e] /\ DOMAIN T.chan[e] = DOMAIN S.chan[e] \cup {n} /\ T.chan[e][n] = ch
      /\ (\A x \in DOMAIN S.chan[e] : T.chan[e][x] = S.chan[e][x]) /\ T.chan[f] = S.chan[f] /\ T.runs = S.runs /\ T.open = S.open
  BY DEF IsAdded
<1>2. \A x \in Ends : (\A k \in Counted : \A z : Amount(T.in[x], k, z) = Amount(S.in[x], k, z)) /\ (\A z : Tells(T.in[x], z) = Tells(S.in[x], z))
  BY ZenonT(60), AddedCounts
<1>3. WindowsOK(S, f) /\ AnswersOK(S, f) /\ AskedOK(S, f) /\ LocalOK(S, f)
  BY <1>0 DEF Good
<1>4. ASSUME NEW x \in DOMAIN S.chan[e] PROVE WindowIs(T, f, x) /\ AnswerIs(T, f, x) /\ AskedIs(T, f, x)
  <2> DEFINE z == S.chan[e][x].peer
  <2>1. T.chan[e][x] = S.chan[e][x]
    BY <1>1
  <2>2. /\ Amount(T.in[f], "data", x) = Amount(S.in[f], "data", x) /\ Amount(T.in[f], "adjust", x) = Amount(S.in[f], "adjust", x)
        /\ Amount(T.in[e], "adjust", z) = Amount(S.in[e], "adjust", z) /\ Amount(T.in[e], "request", z) = Amount(S.in[e], "request", z)
        /\ Amount(T.in[f], "request", x) = Amount(S.in[f], "request", x) /\ Tells(T.in[f], x) = Tells(S.in[f], x)
    BY <1>0, <1>2 DEF Counted
  <2>3. Credit(T, f, x) = Credit(S, f, x) /\ (Exact(T, f, x) <=> Exact(S, f, x))
    BY <1>0, <1>1, <2>1, <2>2 DEF Credit, Exact
  <2>4. WindowIs(T, f, x)
    BY SMTT(40), <1>0, <1>1, <1>3, <2>1, <2>2, <2>3 DEF WindowIs, WindowsOK
  <2>5. AnswerIs(T, f, x)
    BY <1>0, <1>1, <1>3, <2>1, <2>2 DEF AnswerIs, AnswersOK
  <2>6. AskedIs(T, f, x)
    BY <1>0, <1>1, <1>3, <2>1, <2>2 DEF AskedIs, AskedOK
  <2> QED BY <2>4, <2>5, <2>6
<1>5. WindowIs(T, f, n) /\ AnswerIs(T, f, n) /\ AskedIs(T, f, n)
  <2> DEFINE d == ch.peer o == S.chan[f][d]
  <2>1. CASE d = 0
    BY <1>0, <1>1, <2>1 DEF WindowIs, AnswerIs, AskedIs
  <2>2. CASE d # 0
    <3>1. ch.user = "waiting" /\ d \in DOMAIN S.chan[f] /\ ch.win = WindowSize /\ o.dir = "out" /\ ~o.decided /\ (S.runs[f] /\ ~o.closed => o.user = "opening")
      BY <2>2 DEF Joins
    <3>2. ch.reserved = 0 /\ ch.myWindow = WindowSize /\ ch.taken = 0 /\ ch.owed = 0 /\ ch.msg = <<>> /\ ch.reqs = <<>> /\ ~ch.waits
      BY DEF IsAdded, Newborn
    <3>3. Local(o)
      BY <1>3, <3>1 DEF LocalOK
    <3>4. o.peer = 0 /\ o.user # "open" /\ o.user # "waiting" /\ o.msg = <<>> /\ o.reqs = <<>> /\ o.myWindow = WindowSize
      BY <3>1, <3>3 DEF Local
    <3>5. o.owed = 0
      BY <3>3, <3>4 DEF Local
    <3>6. SilentCounts(S, e, n) /\ SilentCounts(S, f, d)
      <4>1. SilentCounts(S, e, n)
        BY <1>1, NoneSilent
      <4>2. SilentCounts(S, f, d)
        BY <1>0, <3>4, NoneSilent
      <4> QED BY <4>1, <4>2
    <3>7. /\ Amount(T.in[f], "data", n) = 0 /\ Amount(T.in[f], "adjust", n) = 0 /\ Amount(T.in[f], "request", n) = 0 /\ Tells(T.in[f], n) = 0
          /\ Amount(T.in[e], "adjust", d) = 0 /\ Amount(T.in[e], "request", d) = 0
      BY <1>0, <1>2, <3>6 DEF SilentCounts, Counted
    <3>8. T.chan[f][d] = o
      BY <1>1
    <3>a. WindowSize \in Nat /\ Total(<<>>) = 0
      BY WindowAssumption, TotalEmpty
    <3>9. WindowIs(T, f, n)
      <4>1. Credit(T, f, n) = WindowSize + 0 + 0 + 0 + 0
        BY <1>0, <1>1, <3>1, <3>2, <3>5, <3>7, <3>8 DEF Credit
      <4>2. Credit(T, f, n) = WindowSize
        BY <3>a, <4>1
      <4>3. Credit(T, f, n) <= o.myWindow /\ Credit(T, f, n) = o.myWindow
        BY <3>4, <3>a, <4>2
      <4> QED BY <1>0, <1>1, <3>2, <3>7, <3>8, <4>3 DEF WindowIs
    <3>10. AnswerIs(T, f, n)
      <4> SUFFICES ASSUME S.runs[f], ~o.closed PROVE Tells(T.in[f], n) + Amount(T.in[e], "request", d) + Answers(ch) + Len(o.msg) <= Waits(o)
        BY <1>0, <1>1, <3>8 DEF AnswerIs
      <4>1. Answers(ch) = 0 + 1
        BY <3>1, <3>2, <3>a DEF Answers
      <4>2. Waits(o) = 1
        BY <3>1 DEF Waits
      <4>3. Len(o.msg) = 0
        BY <3>4
      <4> QED BY <3>7, <4>1, <4>2, <4>3
    <3>11. AskedIs(T, f, n)
      <4> SUFFICES Amount(T.in[f], "request", n) + Answers(o) + Len(ch.msg) <= Waits(ch)
        BY <1>0, <1>1, <3>8 DEF AskedIs
      <4>1. Answers(o) = 0 + 0
        BY <3>4, <3>a DEF Answers
      <4>2. Waits(ch) = 0
        BY <3>1, <3>2 DEF Waits
      <4>3. Len(ch.msg) = 0
        BY <3>2
      <4> QED BY <3>7, <4>1, <4>2, <4>3
    <3> QED BY <3>9, <3>10, <3>11
  <2> QED BY <2>1, <2>2
<1>6. \A x \in DOMAIN T.chan[e] : WindowIs(T, f, x) /\ AnswerIs(T, f, x) /\ AskedIs(T, f, x)
  BY <1>1, <1>4, <1>5
<1> QED BY <1>0, <1>6 DEF WindowsOK, AnswersOK, AskedOK

\* A channel is made: everything is kept.
LEMMA AddedKeeps ==
  ASSUME NEW S, Good(S), NEW T, NEW e \in Ends, NEW n, NEW ch, IsAdded(S, T, e, n, ch), Joins(S, e, ch), Gets(S, T, e, ch), Puts(S, T, e, n, ch),
         T.fresh[e] = S.fresh[e] \/ (T.fresh[e] = Append(S.fresh[e], n) /\ ch.user = "waiting")
  PROVE  Good(T)
<1>1. \A x \in Ends : LocalOK(T, x) /\ ListOK(T, x) /\ FreshOK(T, x) /\ PeersOK(T, x) /\ ListingOK(T, x)
  BY AddedLists
<1>2. OpensOK(T, e) /\ PacketsOK(T, e) /\ AcceptOK(T, e) /\ WindowsOK(T, e) /\ AnswersOK(T, e) /\ AskedOK(T, e)
  BY AddedPacketsTo, AddedTo
<1>3. OpensOK(T, Peer(e)) /\ PacketsOK(T, Peer(e)) /\ AcceptOK(T, Peer(e)) /\ WindowsOK(T, Peer(e)) /\ AnswersOK(T, Peer(e)) /\ AskedOK(T, Peer(e))
  BY AddedPacketsFrom, AddedFrom
<1>4. T \in ViewType /\ \A x \in Ends : x = e \/ x = Peer(e)
  BY PeerFacts DEF IsAdded
<1> QED BY <1>1, <1>2, <1>3, <1>4 DEF Good
=============================================================================
