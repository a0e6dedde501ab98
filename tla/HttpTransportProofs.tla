------------------------ MODULE HttpTransportProofs ------------------------
(***************************************************************************)
(* Proofs about HttpTransport: for every set of calls and of keys, every   *)
(* limit of the pool, every script and every order of the goroutines, the  *)
(* lists of the pool agree, a connection is lent to one call at a time,    *)
(* and none is forgotten; and, whatever is reused, canceled, closed or     *)
(* retried, a response goes to the call whose request it answers, and a    *)
(* request that may not be replayed reaches servers at most once.          *)
(*                                                                         *)
(* The operations of the model are functions of a state S; the lemmas are  *)
(* about S and the state T that an operation makes of it.  The first half  *)
(* is about the pool (Sound), the second about the calls (Orderly).        *)
(***************************************************************************)
EXTENDS HttpTransport, SequenceTheorems, FiniteSetTheorems, WellFoundedInduction, TLAPS

-----------------------------------------------------------------------------
(* States *)

LEMMA StateFields ==
  ASSUME NEW S \in StateType
  PROVE  /\ S.pool \in PoolType /\ S.conns \in Seq(PConnType) /\ S.calls \in [Calls -> CallType]
         /\ DOMAIN S.conns = 1..Len(S.conns) /\ Len(S.conns) \in Nat
         /\ \A p \in DOMAIN S.conns : S.conns[p] \in PConnType
         /\ \A c \in Calls : S.calls[c] \in CallType
         /\ S = [pool |-> S.pool, conns |-> S.conns, calls |-> S.calls]
BY DEF StateType

LEMMA StateIs ==
  ASSUME NEW pl \in PoolType, NEW cs \in Seq(PConnType), NEW cl \in [Calls -> CallType]
  PROVE  LET S == [pool |-> pl, conns |-> cs, calls |-> cl] IN
         S \in StateType /\ S.pool = pl /\ S.conns = cs /\ S.calls = cl
BY DEF StateType

\* The values of the enumerated fields.
LEMMA Values ==
  /\ "idle" \in PCs /\ "wait" \in PCs /\ "enter" \in PCs /\ "send" \in PCs /\ "sent" \in PCs /\ "failed" \in PCs /\ "retry" \in PCs /\ "body" \in PCs /\ "eofwait" \in PCs /\ "returned" \in PCs
  /\ "none" \in Cancelers /\ "noop" \in Cancelers /\ "cancelc" \in Cancelers /\ "conn" \in Cancelers
  /\ "none" \in WriteErrs /\ "nil" \in WriteErrs /\ "nothing" \in WriteErrs /\ "write" \in WriteErrs
  /\ "none" \in Errs /\ "dial" \in Errs /\ "canceled" \in Errs /\ "nothing" \in Errs /\ "write" \in Errs /\ "closedIdle" \in Errs /\ "readErr" \in Errs /\ "broken" \in Errs /\ "timeout" \in Errs
  /\ "dialing" \in Dials /\ "ready" \in Dials /\ "failed" \in Dials /\ "done" \in Dials
  /\ "none" \in Reads /\ "peek" \in Reads /\ "recycle" \in Reads /\ "deliver" \in Reads /\ "error" \in Reads /\ "body" \in Reads /\ "eofc" \in Reads /\ "exit" \in Reads /\ "done" \in Reads
  /\ "none" \in Writes /\ "idle" \in Writes /\ "body" \in Writes /\ "failed" \in Writes /\ "done" \in Writes
  /\ "no" \in Closes /\ "other" \in Closes /\ "closedIdle" \in Closes /\ "readErr" \in Closes
  /\ "none" \in Timers /\ "armed" \in Timers /\ "fired" \in Timers
  /\ "none" \in BodyReads /\ "eof" \in BodyReads /\ "early" \in BodyReads
  /\ {} \in SUBSET Calls /\ \A c \in Calls : {c} \in SUBSET Calls
BY DEF PCs, Cancelers, WriteErrs, Errs, Dials, Reads, Writes, Closes, Timers, BodyReads

\* One connection is changed, or one call.
LEMMA ConnsUpdate ==
  ASSUME NEW cs \in Seq(PConnType), NEW p \in DOMAIN cs, NEW P \in PConnType
  PROVE  LET ds == [cs EXCEPT ![p] = P] IN
         /\ ds \in Seq(PConnType) /\ DOMAIN ds = DOMAIN cs /\ Len(ds) = Len(cs) /\ ds[p] = P
         /\ \A q \in DOMAIN cs : q # p => ds[q] = cs[q]
OBVIOUS

LEMMA CallsUpdate ==
  ASSUME NEW cl \in [Calls -> CallType], NEW c \in Calls, NEW C \in CallType
  PROVE  LET dl == [cl EXCEPT ![c] = C] IN
         /\ dl \in [Calls -> CallType] /\ dl[c] = C
         /\ \A d \in Calls : d # c => dl[d] = cl[d]
OBVIOUS

LEMMA BecomesIs ==
  ASSUME NEW T \in StateType, Becomes(T)
  PROVE  Now' = T /\ may' = may
BY StateFields DEF Becomes, Now

-----------------------------------------------------------------------------
(* The invariant *)

Limited(S) == MaxIdle # 0 => Cardinality(S.pool.lru) <= MaxIdle
Arranged(S) == Filed(S) /\ InOrder(S.pool)
Listed(S) == Arranged(S) /\ Limited(S)
Refers(S) == \A c \in Calls : CallRefers(S, c)
Kept(S, p) == OneCall(S, p) /\ RequestsKept(S, p) /\ Owned(S, p)
AllKept(S) == \A p \in DOMAIN S.conns : Kept(S, p)
Sound(S) == TypeOf(S) /\ Listed(S) /\ Refers(S) /\ AllKept(S)

LEMMA SoundMeans == Sound(Now) => PoolSound
BY DEF Sound, PoolSound, TypeOK, PoolConsistent, Lent, NoLeak, OneCallPerConn, Listed, Arranged, Limited, Refers, AllKept, Kept,
       Conns, Now, TypeOf, StateType

LEMMA SoundNext ==
  ASSUME Now' = Now \/ \E T : Now' = T /\ Sound(T), may' = may, Sound(Now)
  PROVE  Sound(Now)'
<1>1. Sound(Now')
  OBVIOUS
<1>2. TypeOf(Now)'
  BY <1>1 DEF Sound, TypeOf
<1>3. Filed(Now)' /\ InOrder(Now.pool)' /\ Limited(Now)'
  BY <1>1 DEF Sound, Listed, Arranged, Filed, InOrder, Limited
<1>4. Refers(Now)'
  BY <1>1 DEF Sound, Refers, CallRefers
<1>5. ASSUME NEW p \in DOMAIN Now'.conns PROVE Kept(Now, p)'
  <2>1. Kept(Now', p)
    BY <1>1 DEF Sound, AllKept
  <2>2. \A P : WithBody(P)' <=> WithBody(P)
    BY DEF WithBody, Req
  <2>3. \A P : LeftToOthers(P)' <=> LeftToOthers(P)
    BY <2>2 DEF LeftToOthers
  <2>4. Users(Now, p)' = Users(Now', p)
    BY DEF Users, Has
  <2>5. OneCall(Now, p)'
    BY <2>1, <2>2, <2>4 DEF Kept, OneCall
  <2>6. RequestsKept(Now, p)'
    BY <2>1, <2>2, <2>4 DEF Kept, RequestsKept, Req
  <2>7. Owned(Now, p)'
    BY <2>1, <2>2, <2>3, <2>4 DEF Kept, Owned
  <2> QED BY <2>5, <2>6, <2>7 DEF Kept
<1> QED BY <1>2, <1>3, <1>4, <1>5 DEF Sound, Listed, Arranged, AllKept

\* What a connection is lent to depends on its own state, and on the calls that have it; once it
\* is closed nobody needs to use it.
SameConn(S, T, p) ==
  LET P == S.conns[p] Q == T.conns[p] IN
  /\ Q.closed = P.closed \/ Q.closed # "no"
  /\ Q.dial = P.dial /\ Q.read = P.read /\ Q.rc = P.rc /\ Q.reqch = P.reqch /\ Q.alive = P.alive /\ Q.resp = P.resp
  /\ p \in T.pool.lru => p \in S.pool.lru
  /\ p \in S.pool.lru => p \in T.pool.lru \/ p \in T.pool.skipped \/ Q.closed # "no"
  /\ p \in S.pool.skipped => p \in T.pool.skipped
SameCalls(S, T, p) ==
  \A c \in Calls : S.calls[c].conn = p \/ T.calls[c].conn = p =>
    T.calls[c].conn = S.calls[c].conn /\ T.calls[c].pc = S.calls[c].pc

LEMMA KeptSame ==
  ASSUME NEW S \in StateType, NEW T \in StateType, NEW p \in DOMAIN S.conns, p \in DOMAIN T.conns,
         Kept(S, p), SameConn(S, T, p), SameCalls(S, T, p)
  PROVE  Kept(T, p)
<1> DEFINE P == S.conns[p] Q == T.conns[p]
<1>0. P \in PConnType /\ Q \in PConnType /\ P.rc \in SUBSET Calls /\ P.reqch \in SUBSET Calls
  BY StateFields DEF PConnType
<1>1. Q.dial = P.dial /\ Q.read = P.read /\ Q.rc = P.rc /\ Q.reqch = P.reqch /\ Q.alive = P.alive /\ Q.resp = P.resp
  BY DEF SameConn
<1>2. Users(T, p) = Users(S, p)
  BY <1>1 DEF Users, Has, SameCalls
<1>3. WithBody(Q) <=> WithBody(P)
  BY <1>1 DEF WithBody
<1>4. LeftToOthers(Q) <=> LeftToOthers(P)
  BY <1>1, <1>3 DEF LeftToOthers
<1>5. OneCall(T, p)
  BY <1>1, <1>2, <1>3 DEF OneCall, Kept, SameConn
<1>6. RequestsKept(T, p)
  BY <1>0, <1>1, <1>2, <1>3 DEF RequestsKept, Kept, SameConn, SameCalls
<1>7. Owned(T, p)
  BY <1>1, <1>2, <1>3, <1>4 DEF Owned, Kept, SameConn
<1> QED BY <1>5, <1>6, <1>7 DEF Kept

\* The lists depend on the pool and on the keys only.
LEMMA ListedSame ==
  ASSUME NEW S \in StateType, NEW T \in StateType, Listed(S),
         T.pool.idle = S.pool.idle, T.pool.lru = S.pool.lru, T.pool.older = S.pool.older,
         DOMAIN S.conns \subseteq DOMAIN T.conns, \A p \in DOMAIN S.conns : T.conns[p].key = S.conns[p].key
  PROVE  Listed(T)
<1>1. Filed(T)
  BY DEF Listed, Arranged, Filed
<1>2. InOrder(T.pool) /\ Limited(T)
  BY DEF Listed, Arranged, InOrder, Limited
<1> QED BY <1>1, <1>2 DEF Listed, Arranged

-----------------------------------------------------------------------------
(* The lists of the pool *)

\* What is left of a list without p: the others, in their order.
LEMMA WithoutFacts ==
  ASSUME NEW U, NEW q \in Seq(U), NEW p, \A i, j \in DOMAIN q : i < j => q[i] # q[j]
  PROVE  LET w == Without(q, p) IN
         /\ w \in Seq(U) /\ Len(w) <= Len(q)
         /\ \A i \in DOMAIN w : w[i] # p /\ \E a \in DOMAIN q : w[i] = q[a]
         /\ \A a \in DOMAIN q : q[a] # p => \E i \in DOMAIN w : w[i] = q[a]
         /\ \A i, j \in DOMAIN w : i < j => \E a, b \in DOMAIN q : a < b /\ w[i] = q[a] /\ w[j] = q[b]
<1> DEFINE w == Without(q, p) n == CHOOSE i \in DOMAIN q : q[i] = p
<1>1. CASE p \notin ToSet(q)
  <2>1. w = q
    BY <1>1 DEF Without
  <2>2. \A i \in DOMAIN q : q[i] # p
    BY <1>1 DEF ToSet
  <2>3. Len(q) <= Len(q)
    OBVIOUS
  <2> QED BY <2>1, <2>2, <2>3
<1>2. CASE p \in ToSet(q)
  <2>1. n \in DOMAIN q /\ q[n] = p
    BY <1>2 DEF ToSet
  <2>2. Len(q) \in Nat /\ DOMAIN q = 1..Len(q) /\ n \in Nat /\ 1 <= n /\ n <= Len(q)
    BY <2>1
  <2>3. w = SubSeq(q, 1, n - 1) \o SubSeq(q, n + 1, Len(q))
    BY <1>2 DEF Without, RemoveAt
  <2> HIDE DEF w, n
  <2>4. /\ SubSeq(q, 1, n - 1) \in Seq(U) /\ Len(SubSeq(q, 1, n - 1)) = n - 1
        /\ \A i \in 1..(n - 1) : SubSeq(q, 1, n - 1)[i] = q[i]
    BY <2>2
  <2>5. /\ SubSeq(q, n + 1, Len(q)) \in Seq(U) /\ Len(SubSeq(q, n + 1, Len(q))) = Len(q) - n
        /\ \A i \in 1..(Len(q) - n) : SubSeq(q, n + 1, Len(q))[i] = q[i + n]
    <3> DEFINE m == n + 1 l == Len(q)
    <3>1. m \in Int /\ l \in Int /\ \A i \in m..l : q[i] \in U
      BY <2>2
    <3>2. l - m + 1 = Len(q) - n /\ (IF m <= l THEN l - m + 1 ELSE 0) = Len(q) - n
      <4>1. \A a, b \in Nat : b <= a => a - (b + 1) + 1 = a - b /\ (IF b + 1 <= a THEN a - (b + 1) + 1 ELSE 0) = a - b
        OBVIOUS
      <4> QED BY <2>2, <4>1
    <3>3. \A i \in 1..(l - m + 1) : m + i - 1 = i + n
      BY <2>2
    <3> HIDE DEF m, l
    <3>4. /\ SubSeq(q, m, l) \in Seq(U) /\ Len(SubSeq(q, m, l)) = IF m <= l THEN l - m + 1 ELSE 0
          /\ \A i \in 1..(l - m + 1) : SubSeq(q, m, l)[i] = q[m + i - 1]
      BY <3>1, SubSeqProperties
    <3>5. \A i \in 1..(l - m + 1) : SubSeq(q, m, l)[i] = q[i + n]
      BY <3>3, <3>4
    <3> QED BY <3>2, <3>4, <3>5 DEF m, l
  <2> DEFINE s == SubSeq(q, 1, n - 1) t == SubSeq(q, n + 1, Len(q))
  <2> HIDE DEF s, t
  <2>6. s \in Seq(U) /\ t \in Seq(U) /\ w = s \o t /\ Len(s) = n - 1 /\ Len(t) = Len(q) - n
        /\ (\A i \in 1..(n - 1) : s[i] = q[i]) /\ (\A i \in 1..(Len(q) - n) : t[i] = q[i + n])
    BY <2>3, <2>4, <2>5 DEF s, t
  <2>a. w \in Seq(U) /\ Len(w) = Len(s) + Len(t)
        /\ \A i \in 1..(Len(s) + Len(t)) : w[i] = IF i <= Len(s) THEN s[i] ELSE t[i - Len(s)]
    BY ZenonT(60), <2>6, ConcatProperties
  <2>7. w \in Seq(U) /\ Len(w) = Len(q) - 1 /\ DOMAIN w = 1..(Len(q) - 1)
    <3>1. \A a, b \in Nat : 1 <= b /\ b <= a => (b - 1) + (a - b) = a - 1
      OBVIOUS
    <3>2. Len(w) = Len(q) - 1
      BY <2>2, <2>6, <2>a, <3>1, Zenon
    <3> QED BY <2>a, <3>2
  <2>b. \A i \in DOMAIN w : w[i] = IF i <= n - 1 THEN s[i] ELSE t[i - (n - 1)]
    BY <2>2, <2>6, <2>7, <2>a
  <2>8. ASSUME NEW i \in DOMAIN w PROVE w[i] = IF i < n THEN q[i] ELSE q[i + 1]
    <3>1. CASE i < n
      <4>1. i \in 1..(n - 1) /\ i <= n - 1
        BY <2>2, <2>7, <3>1
      <4> QED BY <2>6, <2>b, <3>1, <4>1
    <3>2. CASE ~(i < n)
      <4>1. i - (n - 1) \in 1..(Len(q) - n) /\ (i - (n - 1)) + n = i + 1
        BY <2>2, <2>7, <3>2
      <4>2. w[i] = t[i - (n - 1)]
        <5>1. ~(i <= n - 1)
          BY <2>2, <2>7, <3>2
        <5> QED BY <2>b, <5>1
      <4> QED BY <2>6, <3>2, <4>1, <4>2
    <3> QED BY <3>1, <3>2
  <2>9. \A i \in DOMAIN w : (IF i < n THEN i ELSE i + 1) \in DOMAIN q \ {n}
    BY <2>2, <2>7
  <2>10. \A a \in DOMAIN q : q[a] = p => a = n
    BY <2>1, <2>2
  <2>11. \A i \in DOMAIN w : w[i] # p /\ \E a \in DOMAIN q : w[i] = q[a]
    BY <2>8, <2>9, <2>10
  <2>12. ASSUME NEW a \in DOMAIN q, q[a] # p PROVE \E i \in DOMAIN w : w[i] = q[a]
    <3>1. CASE a < n
      BY <2>2, <2>7, <2>8, <3>1
    <3>2. CASE ~(a < n)
      <4>1. a > n /\ a - 1 \in DOMAIN w /\ ~(a - 1 < n) /\ (a - 1) + 1 = a
        BY <2>1, <2>2, <2>7, <2>12, <3>2
      <4> QED BY <2>8, <4>1
    <3> QED BY <3>1, <3>2
  <2>13. ASSUME NEW i \in DOMAIN w, NEW j \in DOMAIN w, i < j
         PROVE  \E a, b \in DOMAIN q : a < b /\ w[i] = q[a] /\ w[j] = q[b]
    <3> DEFINE a == IF i < n THEN i ELSE i + 1
               b == IF j < n THEN j ELSE j + 1
    <3>1. a \in DOMAIN q /\ b \in DOMAIN q /\ a < b
      BY <2>2, <2>7, <2>13
    <3>2. w[i] = q[a] /\ w[j] = q[b]
      BY <2>8
    <3> QED BY <3>1, <3>2
  <2>14. Len(w) <= Len(q)
    BY <2>2, <2>7
  <2> QED BY <2>7, <2>11, <2>12, <2>13, <2>14 DEF w
<1> QED BY <1>1, <1>2

\* A set of numbers that is not empty has a least one.
LEMMA LeastNumber ==
  ASSUME NEW N \in SUBSET Nat, N # {}
  PROVE  \E x \in N : \A y \in N : x <= y
<1> DEFINE Below == {ss \in Nat \X Nat : ss[1] < ss[2]}
<1>1. IsWellFoundedOn(Below, Nat)
  BY NatLessThanWellFounded DEF OpToRel
<1>a. \A x, y \in Nat : <<y, x>> \in Below <=> y < x
  OBVIOUS
<1> HIDE DEF Below
<1>2. PICK x \in N : \A y \in N : ~(<<y, x>> \in Below)
  BY <1>1, WFMin
<1>3. ASSUME NEW y \in N PROVE x <= y
  <2>1. x \in Nat /\ y \in Nat /\ ~(y < x)
    BY <1>2, <1>a
  <2> QED BY <2>1
<1> QED BY <1>3

LEMMA PoolFields ==
  ASSUME NEW pl \in PoolType
  PROVE  /\ pl.idle \in [Keys -> Seq(1..MaxConns)] /\ pl.lru \in SUBSET (1..MaxConns)
         /\ pl.older \in SUBSET ((1..MaxConns) \X (1..MaxConns)) /\ pl.ch \in [Keys -> Nat] /\ pl.chans \in Nat
         /\ pl.wantIdle \in BOOLEAN /\ pl.skipped \in SUBSET (1..MaxConns)
BY DEF PoolType

LEMMA LRUFinite ==
  ASSUME NEW L \in SUBSET (1..MaxConns)
  PROVE  IsFiniteSet(L) /\ Cardinality(L) \in Nat
<1>1. IsFiniteSet(1..MaxConns)
  BY HttpTransportAssumption, FS_Interval
<1> QED BY <1>1, FS_Subset, FS_CardinalityType

\* One of the idle connections has been idle longest.
LEMMA OldestFacts ==
  ASSUME NEW pl \in PoolType, InOrder(pl), pl.lru # {}
  PROVE  Oldest(pl) \in pl.lru /\ \A q \in pl.lru \ {Oldest(pl)} : <<Oldest(pl), q>> \in pl.older
<1> DEFINE Longer(x) == {y \in pl.lru : <<y, x>> \in pl.older}
           N == {Cardinality(Longer(x)) : x \in pl.lru}
<1>1. \A x \in pl.lru : Longer(x) \in SUBSET (1..MaxConns) /\ IsFiniteSet(Longer(x)) /\ Cardinality(Longer(x)) \in Nat
  BY PoolFields, LRUFinite
<1>2. PICK n \in N : \A m \in N : n <= m
  <2>1. N \in SUBSET Nat /\ N # {}
    BY <1>1
  <2> QED BY <2>1, LeastNumber
<1>3. PICK x \in pl.lru : n = Cardinality(Longer(x))
  OBVIOUS
<1>4. ASSUME NEW q \in pl.lru \ {x} PROVE <<x, q>> \in pl.older
  <2>1. SUFFICES ASSUME <<x, q>> \notin pl.older PROVE FALSE
    OBVIOUS
  <2>2. <<q, x>> \in pl.older
    BY <2>1 DEF InOrder
  <2>3. Longer(q) \subseteq Longer(x) /\ q \in Longer(x) /\ q \notin Longer(q)
    BY <2>2 DEF InOrder
  <2>4. Cardinality(Longer(q)) < Cardinality(Longer(x))
    <3>1. Cardinality(Longer(q)) <= Cardinality(Longer(x)) /\ (Cardinality(Longer(q)) = Cardinality(Longer(x)) => Longer(q) = Longer(x))
      BY <1>1, <2>3, FS_Subset
    <3> QED BY <1>1, <2>3, <3>1
  <2>5. n <= Cardinality(Longer(q))
    BY <1>2
  <2>6. \A a, b, m \in Nat : m = b /\ m <= a => ~(a < b)
    OBVIOUS
  <2>7. n \in Nat /\ Cardinality(Longer(q)) \in Nat /\ Cardinality(Longer(x)) \in Nat
    BY <1>1, <1>3
  <2> QED BY <1>3, <2>4, <2>5, <2>6, <2>7, Zenon
<1> QED BY <1>4 DEF Oldest

\* A connection that only its timer, a close, its reuse or the end of its call's interest changed.
SameWork(P, Q) ==
  /\ Q.key = P.key /\ Q.dial = P.dial /\ Q.read = P.read /\ Q.write = P.write /\ Q.canceled = P.canceled
  /\ Q.expected = P.expected /\ Q.nwrite = P.nwrite /\ Q.writech = P.writech /\ Q.reqch = P.reqch /\ Q.rc = P.rc
  /\ Q.werrch = P.werrch /\ Q.alive = P.alive /\ Q.bodyRead = P.bodyRead /\ Q.resp = P.resp /\ Q.closeErr = P.closeErr
  /\ Q.got = P.got /\ Q.full = P.full /\ Q.answered = P.answered /\ Q.out = P.out /\ Q.srvClosed = P.srvClosed
Lighter(P, Q) == SameWork(P, Q) /\ (Q.closed = P.closed \/ Q.closed # "no")
Lightened(S, T) ==
  /\ DOMAIN T.conns = DOMAIN S.conns /\ Len(T.conns) = Len(S.conns)
  /\ \A x \in DOMAIN S.conns : Lighter(S.conns[x], T.conns[x])

LEMMA LighterSelf == \A P : Lighter(P, P)
BY DEF Lighter, SameWork

LEMMA LightenedTwice ==
  ASSUME NEW S, NEW T, NEW V, Lightened(S, T), Lightened(T, V)
  PROVE  Lightened(S, V)
BY DEF Lightened, Lighter, SameWork

\* One connection of S is lighter.
LEMMA LightenedOne ==
  ASSUME NEW S \in StateType, NEW p \in DOMAIN S.conns, NEW P \in PConnType, Lighter(S.conns[p], P),
         NEW T \in StateType, T.conns = [S.conns EXCEPT ![p] = P]
  PROVE  Lightened(S, T)
<1>1. S.conns \in Seq(PConnType)
  BY StateFields
<1> QED BY <1>1, ConnsUpdate, LighterSelf DEF Lightened

\* Removing connections from all lists.
Shrunk(q, w, gone) ==
  /\ Len(w) <= Len(q)
  /\ \A i \in DOMAIN w : w[i] \notin gone /\ \E a \in DOMAIN q : w[i] = q[a]
  /\ \A a \in DOMAIN q : q[a] \notin gone => \E i \in DOMAIN w : w[i] = q[a]
  /\ \A i, j \in DOMAIN w : i < j => \E a, b \in DOMAIN q : a < b /\ w[i] = q[a] /\ w[j] = q[b]

LEMMA ArrangedShrink ==
  ASSUME NEW S \in StateType, NEW T \in StateType, Len(S.conns) <= MaxConns, Arranged(S), NEW gone,
         T.pool.lru = S.pool.lru \ gone,
         T.pool.older = {e \in S.pool.older : e[1] \notin gone /\ e[2] \notin gone},
         DOMAIN T.conns = DOMAIN S.conns, \A x \in DOMAIN S.conns : T.conns[x].key = S.conns[x].key,
         \A k \in Keys : Shrunk(S.pool.idle[k], T.pool.idle[k], gone)
  PROVE  Arranged(T)
<1>0. /\ S.pool.idle \in [Keys -> Seq(1..MaxConns)] /\ T.pool.idle \in [Keys -> Seq(1..MaxConns)]
      /\ S.pool.lru \in SUBSET (1..MaxConns) /\ T.pool.lru \in SUBSET (1..MaxConns)
      /\ S.pool.older \in SUBSET ((1..MaxConns) \X (1..MaxConns))
  BY StateFields, PoolFields
<1>1. S.pool.lru \subseteq DOMAIN S.conns /\ T.pool.lru \subseteq S.pool.lru
  BY DEF Arranged, Filed
<1>2. ASSUME NEW k \in Keys
      PROVE  LET w == T.pool.idle[k] IN
             /\ Len(w) <= MaxIdlePerHost
             /\ \A i \in DOMAIN w : w[i] \in T.pool.lru /\ T.conns[w[i]].key = k
             /\ \A i, j \in DOMAIN w : i < j => <<w[i], w[j]>> \in T.pool.older
  <2> DEFINE q == S.pool.idle[k] w == T.pool.idle[k]
  <2>1. /\ Len(q) <= MaxIdlePerHost
        /\ \A i \in DOMAIN q : q[i] \in S.pool.lru /\ S.conns[q[i]].key = k
        /\ \A i, j \in DOMAIN q : i < j => <<q[i], q[j]>> \in S.pool.older
    BY DEF Arranged, Filed
  <2>2. /\ Len(w) <= Len(q)
        /\ \A i \in DOMAIN w : w[i] \notin gone /\ \E a \in DOMAIN q : w[i] = q[a]
        /\ \A i, j \in DOMAIN w : i < j => \E a, b \in DOMAIN q : a < b /\ w[i] = q[a] /\ w[j] = q[b]
    BY DEF Shrunk
  <2>3. Len(q) \in Nat /\ Len(w) \in Nat /\ MaxIdlePerHost \in Nat
    BY <1>0, HttpTransportAssumption
  <2> HIDE DEF q, w
  <2>4. Len(w) <= MaxIdlePerHost
    BY <2>1, <2>2, <2>3
  <2>5. ASSUME NEW i \in DOMAIN w PROVE w[i] \in T.pool.lru /\ T.conns[w[i]].key = k
    BY <1>1, <2>1, <2>2
  <2>6. ASSUME NEW i \in DOMAIN w, NEW j \in DOMAIN w, i < j PROVE <<w[i], w[j]>> \in T.pool.older
    <3>1. PICK a \in DOMAIN q, b \in DOMAIN q : a < b /\ w[i] = q[a] /\ w[j] = q[b]
      BY <2>2, <2>6
    <3>2. <<w[i], w[j]>> \in S.pool.older /\ w[i] \notin gone /\ w[j] \notin gone
      BY <2>1, <2>2, <3>1
    <3> QED BY <3>2
  <2> QED BY <2>4, <2>5, <2>6 DEF w
<1>3. ASSUME NEW p \in T.pool.lru PROVE p \in ToSet(T.pool.idle[T.conns[p].key])
  <2>1. p \in S.pool.lru /\ p \notin gone /\ p \in DOMAIN S.conns /\ T.conns[p].key = S.conns[p].key
    BY <1>1
  <2>2. S.conns[p].key \in Keys
    BY <2>1, StateFields DEF PConnType
  <2>3. PICK a \in DOMAIN S.pool.idle[S.conns[p].key] : S.pool.idle[S.conns[p].key][a] = p
    BY SMTT(40), <2>1 DEF Arranged, Filed, ToSet
  <2>4. \E i \in DOMAIN T.pool.idle[S.conns[p].key] : T.pool.idle[S.conns[p].key][i] = p
    BY <2>1, <2>2, <2>3 DEF Shrunk
  <2> QED BY <2>1, <2>4 DEF ToSet
<1>4. Filed(T)
  BY <1>1, <1>2, <1>3 DEF Filed
<1>5. InOrder(T.pool)
  BY <1>1 DEF Arranged, InOrder
<1> QED BY <1>4, <1>5 DEF Arranged

LEMMA LimitedShrink ==
  ASSUME NEW S \in StateType, NEW T \in StateType, Limited(S), T.pool.lru \subseteq S.pool.lru
  PROVE  Limited(T)
<1>0. S.pool.lru \in SUBSET (1..MaxConns) /\ T.pool.lru \in SUBSET (1..MaxConns)
  BY StateFields, PoolFields
<1>1. Cardinality(T.pool.lru) <= Cardinality(S.pool.lru) /\ Cardinality(T.pool.lru) \in Nat /\ Cardinality(S.pool.lru) \in Nat
  BY <1>0, LRUFinite, FS_Subset
<1>2. MaxIdle \in Nat
  BY HttpTransportAssumption
<1> QED BY <1>1, <1>2 DEF Limited

\* A state with another pool, connection p or call c.
LEMMA StateUpdate ==
  ASSUME NEW S \in StateType, NEW pl \in PoolType, NEW p \in DOMAIN S.conns, NEW P \in PConnType,
         NEW c \in Calls, NEW C \in CallType
  PROVE  /\ LET T == [S EXCEPT !.pool = pl] IN
            T \in StateType /\ T.pool = pl /\ T.conns = S.conns /\ T.calls = S.calls
         /\ LET T == [S EXCEPT !.conns[p] = P] IN
            T \in StateType /\ T.pool = S.pool /\ T.conns = [S.conns EXCEPT ![p] = P] /\ T.calls = S.calls
         /\ LET T == [S EXCEPT !.calls[c] = C] IN
            T \in StateType /\ T.pool = S.pool /\ T.conns = S.conns /\ T.calls = [S.calls EXCEPT ![c] = C]
         /\ LET T == [S EXCEPT !.pool = pl, !.conns[p] = P] IN
            T \in StateType /\ T.pool = pl /\ T.conns = [S.conns EXCEPT ![p] = P] /\ T.calls = S.calls
         /\ LET T == [S EXCEPT !.conns[p] = P, !.calls[c] = C] IN
            T \in StateType /\ T.pool = S.pool /\ T.conns = [S.conns EXCEPT ![p] = P] /\ T.calls = [S.calls EXCEPT ![c] = C]
<1>1. [S.conns EXCEPT ![p] = P] \in Seq(PConnType) /\ [S.calls EXCEPT ![c] = C] \in [Calls -> CallType]
  BY StateFields, ConnsUpdate, CallsUpdate
<1> QED BY <1>1 DEF StateType

\* What makes a connection lighter.
LEMMA LighterTimer ==
  ASSUME NEW P \in PConnType, NEW t \in Timers
  PROVE  LET Q == [P EXCEPT !.timer = t] IN
         Q \in PConnType /\ Lighter(P, Q) /\ Q.closed = P.closed /\ Q.timer = t
<1> DEFINE Q == [P EXCEPT !.timer = t]
<1>1. Q \in PConnType
  BY DEF PConnType
<1>2. SameWork(P, Q) /\ Q.closed = P.closed /\ Q.timer = t
  BY DEF PConnType, SameWork
<1> QED BY <1>1, <1>2 DEF Lighter

LEMMA LighterReused ==
  ASSUME NEW P \in PConnType, NEW t \in BOOLEAN
  PROVE  LET Q == [P EXCEPT !.reused = t] IN
         Q \in PConnType /\ Lighter(P, Q) /\ Q.closed = P.closed
<1> DEFINE Q == [P EXCEPT !.reused = t]
<1>1. Q \in PConnType
  BY DEF PConnType
<1>2. SameWork(P, Q) /\ Q.closed = P.closed
  BY DEF PConnType, SameWork
<1> QED BY <1>1, <1>2 DEF Lighter

LEMMA LighterPending ==
  ASSUME NEW P \in PConnType, NEW t \in BOOLEAN
  PROVE  LET Q == [P EXCEPT !.pending = t] IN
         Q \in PConnType /\ Lighter(P, Q) /\ Q.closed = P.closed
<1> DEFINE Q == [P EXCEPT !.pending = t]
<1>1. Q \in PConnType
  BY DEF PConnType
<1>2. SameWork(P, Q) /\ Q.closed = P.closed
  BY DEF PConnType, SameWork
<1> QED BY <1>1, <1>2 DEF Lighter

LEMMA ClosedIs ==
  ASSUME NEW P \in PConnType, NEW err \in {"other", "closedIdle", "readErr"}
  PROVE  LET Q == Closed(P, err) IN
         Q \in PConnType /\ Lighter(P, Q) /\ Q.closed # "no" /\ Q.timer = P.timer
<1> DEFINE Q == [P EXCEPT !.closed = err]
<1>1. Q \in PConnType
  BY Values DEF PConnType
<1>2. SameWork(P, Q) /\ Q.closed = err /\ Q.timer = P.timer
  BY DEF PConnType, SameWork
<1> QED BY <1>1, <1>2, LighterSelf DEF Lighter, Closed

\* removeIdleConnLocked
LEMMA RemoveIdleConnIs ==
  ASSUME NEW S \in StateType, Len(S.conns) <= MaxConns, Arranged(S), NEW p \in DOMAIN S.conns
  PROVE  LET T == RemoveIdleConn(S, p) IN
         /\ T \in StateType /\ Arranged(T) /\ Lightened(S, T) /\ T.calls = S.calls
         /\ \A x \in DOMAIN S.conns : T.conns[x].closed = S.conns[x].closed
         /\ T.pool.lru = S.pool.lru \ {p} /\ T.pool.skipped = S.pool.skipped
<1> DEFINE T == RemoveIdleConn(S, p)
           k == S.conns[p].key
           t == IF S.conns[p].timer = "armed" THEN "none" ELSE S.conns[p].timer
           P == [S.conns[p] EXCEPT !.timer = t]
           R == LRURemove(S.pool, {p})
           pl == [R EXCEPT !.idle[k] = Without(S.pool.idle[k], p)]
<1>0. S.conns[p] \in PConnType /\ S.pool \in PoolType /\ S.conns \in Seq(PConnType) /\ S.calls \in [Calls -> CallType]
  BY StateFields
<1>a. k \in Keys /\ t \in Timers
  BY <1>0, Values DEF PConnType
<1>b. T = [S EXCEPT !.pool = pl, !.conns[p] = P]
  BY <1>0 DEF RemoveIdleConn, StateType
<1> HIDE DEF t, k
<1>1. P \in PConnType /\ Lighter(S.conns[p], P) /\ P.closed = S.conns[p].closed
  BY <1>0, <1>a, LighterTimer
<1>2. /\ S.pool.idle \in [Keys -> Seq(1..MaxConns)] /\ S.pool.idle[k] \in Seq(1..MaxConns)
      /\ \A i, j \in DOMAIN S.pool.idle[k] : i < j => S.pool.idle[k][i] # S.pool.idle[k][j]
  <2>1. S.pool.idle \in [Keys -> Seq(1..MaxConns)] /\ S.pool.idle[k] \in Seq(1..MaxConns)
    BY <1>0, <1>a, PoolFields
  <2>2. ASSUME NEW i \in DOMAIN S.pool.idle[k], NEW j \in DOMAIN S.pool.idle[k], i < j
        PROVE  S.pool.idle[k][i] # S.pool.idle[k][j]
    <3>1. <<S.pool.idle[k][i], S.pool.idle[k][j]>> \in S.pool.older /\ S.pool.idle[k][i] \in S.pool.lru
      BY <1>a, <2>2 DEF Arranged, Filed
    <3> QED BY <3>1 DEF Arranged, InOrder
  <2> QED BY <2>1, <2>2
<1>3. Without(S.pool.idle[k], p) \in Seq(1..MaxConns)
  BY <1>2, WithoutFacts
<1>4. /\ R \in PoolType /\ R.idle = S.pool.idle /\ R.lru = S.pool.lru \ {p} /\ R.skipped = S.pool.skipped
      /\ R.older = {e \in S.pool.older : e[1] \notin {p} /\ e[2] \notin {p}}
  BY <1>0 DEF LRURemove, PoolType
<1> HIDE DEF R
<1>5. /\ pl \in PoolType /\ pl.lru = R.lru /\ pl.older = R.older /\ pl.skipped = R.skipped
      /\ pl.idle = [S.pool.idle EXCEPT ![k] = Without(@, p)]
  <2> DEFINE w == Without(S.pool.idle[k], p) id == [S.pool.idle EXCEPT ![k] = w]
  <2>1. id \in [Keys -> Seq(1..MaxConns)] /\ pl = [R EXCEPT !.idle = id]
    BY <1>2, <1>3, <1>4 DEF PoolType
  <2> HIDE DEF id, pl
  <2>2. pl \in PoolType /\ pl.lru = R.lru /\ pl.older = R.older /\ pl.skipped = R.skipped /\ pl.idle = id
    BY <1>4, <2>1 DEF PoolType
  <2> QED BY <2>2 DEF id
<1> HIDE DEF pl, P
<1>7. T \in StateType /\ T.pool = pl /\ T.conns = [S.conns EXCEPT ![p] = P] /\ T.calls = S.calls
  <2>1. [S.conns EXCEPT ![p] = P] \in Seq(PConnType)
    BY <1>0, <1>1, ConnsUpdate
  <2> QED BY <1>0, <1>5, <1>b, <2>1 DEF StateType
<1> HIDE DEF T
<1>8. Lightened(S, T)
  BY <1>1, <1>7, LightenedOne
<1>9. \A x \in DOMAIN S.conns : T.conns[x].closed = S.conns[x].closed
  BY <1>0, <1>1, <1>7, ConnsUpdate
<1>10. Arranged(T)
  <2>1. ASSUME NEW l \in Keys PROVE Shrunk(S.pool.idle[l], T.pool.idle[l], {p})
    <3>1. CASE l = k
      <4> DEFINE q == S.pool.idle[l]
      <4>1. T.pool.idle[l] = Without(q, p)
        BY <1>a, <1>2, <1>5, <1>7, <3>1
      <4>2. q \in Seq(1..MaxConns) /\ \A i, j \in DOMAIN q : i < j => q[i] # q[j]
        BY <1>2, <3>1
      <4> HIDE DEF q
      <4>3. Shrunk(q, Without(q, p), {p})
        BY <4>2, WithoutFacts DEF Shrunk
      <4> QED BY <4>1, <4>3 DEF q
    <3>2. CASE l # k
      <4>1. T.pool.idle[l] = S.pool.idle[l]
        BY <1>a, <1>2, <1>5, <1>7, <3>2
      <4>2. \A i \in DOMAIN S.pool.idle[l] : S.pool.idle[l][i] # p
        BY <3>2 DEF Arranged, Filed, k
      <4>3. Len(S.pool.idle[l]) <= Len(S.pool.idle[l])
        BY <1>2
      <4> QED BY <4>1, <4>2, <4>3 DEF Shrunk
    <3> QED BY <3>1, <3>2
  <2>2. T.pool.lru = S.pool.lru \ {p} /\ T.pool.older = {e \in S.pool.older : e[1] \notin {p} /\ e[2] \notin {p}}
    BY <1>4, <1>5, <1>7
  <2>3. DOMAIN T.conns = DOMAIN S.conns /\ \A x \in DOMAIN S.conns : T.conns[x].key = S.conns[x].key
    BY <1>8 DEF Lightened, Lighter, SameWork
  <2> QED BY <1>7, <2>1, <2>2, <2>3, ArrangedShrink
<1> QED BY <1>4, <1>5, <1>7, <1>8, <1>9, <1>10 DEF T

\* The end of tryPutIdleConn: the connection is idle, or another one is closed instead.
LEMMA AddIdleIs ==
  ASSUME NEW S \in StateType, Len(S.conns) <= MaxConns, Listed(S), NEW p \in DOMAIN S.conns, p \notin S.pool.lru,
         Len(S.pool.idle[S.conns[p].key]) < MaxIdlePerHost
  PROVE  LET T == AddIdle(S, p) IN
         /\ T \in StateType /\ Listed(T) /\ Lightened(S, T) /\ T.calls = S.calls
         /\ T.pool.lru \subseteq S.pool.lru \cup {p} /\ T.pool.skipped = S.pool.skipped
         /\ \A x \in S.pool.lru \cup {p} : x \in T.pool.lru \/ T.conns[x].closed # "no"
<1> DEFINE k == S.conns[p].key
           t == IF may.timer THEN "armed" ELSE "none"
           P == [S.conns[p] EXCEPT !.timer = t]
           R == LRUAdd(S.pool, p)
           pl == [R EXCEPT !.idle[k] = Append(S.pool.idle[k], p)]
           A == [S EXCEPT !.pool = [LRUAdd(S.pool, p) EXCEPT !.idle[k] = Append(S.pool.idle[k], p)],
                     !.conns[p].timer = IF may.timer THEN "armed" ELSE "none"]
           oldest == Oldest(A.pool)
<1>0. S.conns[p] \in PConnType /\ S.pool \in PoolType /\ S.conns \in Seq(PConnType) /\ S.calls \in [Calls -> CallType]
      /\ p \in 1..MaxConns
      /\ DOMAIN S.conns = 1..Len(S.conns) /\ Len(S.conns) \in Nat /\ MaxConns \in Nat
  BY StateFields, HttpTransportAssumption
<1>b. k \in Keys /\ t \in Timers
  BY <1>0, Values DEF PConnType
<1>c. A = [S EXCEPT !.pool = pl, !.conns[p] = P]
  BY <1>0 DEF StateType
<1>a. AddIdle(S, p) = IF MaxIdle # 0 /\ Cardinality(A.pool.lru) > MaxIdle
                      THEN RemoveIdleConn(ClosePC(A, oldest, "other"), oldest) ELSE A
  BY DEF AddIdle
<1> HIDE DEF A, t, k
<1>1. k \in Keys /\ P \in PConnType /\ Lighter(S.conns[p], P) /\ P.closed = S.conns[p].closed
  BY <1>0, <1>b, LighterTimer
<1>2. S.pool.idle \in [Keys -> Seq(1..MaxConns)] /\ S.pool.idle[k] \in Seq(1..MaxConns)
      /\ S.pool.lru \in SUBSET (1..MaxConns) /\ S.pool.older \in SUBSET ((1..MaxConns) \X (1..MaxConns))
  BY <1>0, <1>1, PoolFields
<1>3. Append(S.pool.idle[k], p) \in Seq(1..MaxConns)
  BY <1>0, <1>2
<1>4. /\ R \in PoolType /\ R.idle = S.pool.idle /\ R.lru = S.pool.lru \cup {p} /\ R.skipped = S.pool.skipped
      /\ R.older = S.pool.older \cup (S.pool.lru \X {p})
  BY <1>0, <1>2 DEF LRUAdd, PoolType
<1> HIDE DEF R
<1>5. /\ pl \in PoolType /\ pl.lru = R.lru /\ pl.older = R.older /\ pl.skipped = R.skipped
      /\ pl.idle = [S.pool.idle EXCEPT ![k] = Append(S.pool.idle[k], p)]
  <2> DEFINE w == Append(S.pool.idle[k], p) id == [S.pool.idle EXCEPT ![k] = w]
  <2>1. id \in [Keys -> Seq(1..MaxConns)] /\ pl = [R EXCEPT !.idle = id]
    BY <1>2, <1>3, <1>4 DEF PoolType
  <2> HIDE DEF id, pl
  <2>2. pl \in PoolType /\ pl.lru = R.lru /\ pl.older = R.older /\ pl.skipped = R.skipped /\ pl.idle = id
    BY <1>4, <2>1 DEF PoolType
  <2> QED BY <2>2 DEF id
<1> HIDE DEF pl, P
<1>7. A \in StateType /\ A.pool = pl /\ A.conns = [S.conns EXCEPT ![p] = P] /\ A.calls = S.calls
  <2>1. [S.conns EXCEPT ![p] = P] \in Seq(PConnType)
    BY <1>0, <1>1, ConnsUpdate
  <2> QED BY <1>0, <1>5, <1>c, <2>1 DEF StateType
<1>8. Lightened(S, A) /\ Len(A.conns) <= MaxConns /\ DOMAIN A.conns = DOMAIN S.conns
  <2>1. Lightened(S, A)
    BY <1>1, <1>7, LightenedOne
  <2> QED BY <2>1 DEF Lightened
<1>9. A.pool.lru = S.pool.lru \cup {p} /\ A.pool.skipped = S.pool.skipped /\ A.pool.older = S.pool.older \cup (S.pool.lru \X {p})
  BY <1>4, <1>5, <1>7
<1>10. \A x \in DOMAIN S.conns : A.conns[x].key = S.conns[x].key
  BY <1>8 DEF Lightened, Lighter, SameWork
<1>11. Filed(A)
  <2>1. A.pool.lru \subseteq DOMAIN A.conns
    BY <1>8, <1>9 DEF Listed, Arranged, Filed
  <2>2. ASSUME NEW l \in Keys
        PROVE  LET w == A.pool.idle[l] IN
               /\ Len(w) <= MaxIdlePerHost
               /\ \A i \in DOMAIN w : w[i] \in A.pool.lru /\ A.conns[w[i]].key = l
               /\ \A i, j \in DOMAIN w : i < j => <<w[i], w[j]>> \in A.pool.older
    <3> DEFINE q == S.pool.idle[l]
    <3>1. /\ Len(q) <= MaxIdlePerHost
          /\ \A i \in DOMAIN q : q[i] \in S.pool.lru /\ S.conns[q[i]].key = l
          /\ \A i, j \in DOMAIN q : i < j => <<q[i], q[j]>> \in S.pool.older
      BY DEF Listed, Arranged, Filed
    <3>2. q \in Seq(1..MaxConns)
      BY <1>2
    <3>3. CASE l # k
      <4>1. A.pool.idle[l] = q
        BY <1>1, <1>2, <1>5, <1>7, <3>3
      <4>2. \A i \in DOMAIN q : q[i] \in DOMAIN S.conns
        BY <3>1 DEF Listed, Arranged, Filed
      <4> HIDE DEF q
      <4> QED BY <1>9, <1>10, <3>1, <4>1, <4>2
    <3>4. CASE l = k
      <4> DEFINE w == A.pool.idle[l] n == Len(q) + 1
      <4>1. w = Append(q, p)
        BY <1>1, <1>2, <1>5, <1>7, <3>4
      <4>2. Len(q) < MaxIdlePerHost /\ A.conns[p].key = l
        BY <1>10, <3>4 DEF k
      <4>3. \A i \in DOMAIN q : q[i] \in DOMAIN S.conns
        BY <3>1 DEF Listed, Arranged, Filed
      <4> HIDE DEF q, w
      <4>4. Len(q) \in Nat /\ DOMAIN q = 1..Len(q) /\ DOMAIN w = 1..n /\ Len(w) = n /\ w[n] = p /\ \A i \in DOMAIN q : w[i] = q[i]
        BY <1>0, <3>2, <4>1
      <4>5. Len(w) <= MaxIdlePerHost
        BY <4>2, <4>4, HttpTransportAssumption
      <4>6. \A i \in DOMAIN w : i \in DOMAIN q \/ i = n
        BY <4>4
      <4>7. ASSUME NEW i \in DOMAIN w PROVE w[i] \in A.pool.lru /\ A.conns[w[i]].key = l
        <5>1. CASE i \in DOMAIN q
          BY <1>9, <1>10, <3>1, <4>3, <4>4, <5>1
        <5>2. CASE i = n
          BY <1>9, <4>2, <4>4, <5>2
        <5> QED BY <4>6, <5>1, <5>2
      <4>8. ASSUME NEW i \in DOMAIN w, NEW j \in DOMAIN w, i < j PROVE <<w[i], w[j]>> \in A.pool.older
        <5>1. i \in DOMAIN q
          BY <4>4, <4>8
        <5>2. CASE j \in DOMAIN q
          BY <1>9, <3>1, <4>4, <4>8, <5>1, <5>2
        <5>3. CASE j = n
          <6>1. w[i] \in S.pool.lru /\ w[j] = p
            BY <3>1, <4>4, <5>1, <5>3
          <6> QED BY <1>9, <6>1
        <5> QED BY <4>6, <5>2, <5>3
      <4> QED BY <4>5, <4>7, <4>8 DEF w
    <3> QED BY <3>3, <3>4
  <2>3. ASSUME NEW x \in A.pool.lru PROVE x \in ToSet(A.pool.idle[A.conns[x].key])
    <3> DEFINE l == S.conns[x].key
    <3>1. x \in DOMAIN S.conns /\ A.conns[x].key = l
      BY <1>10, <2>1, <1>8
    <3>2. l \in Keys
      BY <3>1, StateFields DEF PConnType
    <3>3. CASE x = p
      <4>1. A.pool.idle[l] = Append(S.pool.idle[k], p) /\ l = k
        BY <1>1, <1>2, <1>5, <1>7, <3>3 DEF k
      <4>2. \A U : \A q \in Seq(U), e \in U : e \in ToSet(Append(q, e))
        BY DEF ToSet
      <4> QED BY <1>0, <1>2, <3>1, <3>3, <4>1, <4>2
    <3>4. CASE x # p
      <4>1. PICK a \in DOMAIN S.pool.idle[l] : S.pool.idle[l][a] = x
        BY SMTT(40), <1>9, <3>4 DEF Listed, Arranged, Filed, ToSet
      <4>2. CASE l # k
        <5>1. A.pool.idle[l] = S.pool.idle[l]
          BY <1>1, <1>2, <1>5, <1>7, <3>2, <4>2
        <5> QED BY <3>1, <4>1, <5>1 DEF ToSet
      <4>3. CASE l = k
        <5>1. A.pool.idle[l] = Append(S.pool.idle[l], p)
          BY <1>1, <1>2, <1>5, <1>7, <4>3
        <5>2. \A U : \A q \in Seq(U), e \in U : \A i \in DOMAIN q : q[i] \in ToSet(Append(q, e))
          BY DEF ToSet
        <5>3. S.pool.idle[l] \in Seq(1..MaxConns)
          BY <1>2, <3>2
        <5>4. S.pool.idle[l][a] \in ToSet(Append(S.pool.idle[l], p))
          BY <1>0, <4>1, <5>2, <5>3, Zenon
        <5> QED BY <3>1, <4>1, <5>1, <5>4
      <4> QED BY <4>2, <4>3
    <3> QED BY <3>3, <3>4
  <2> QED BY <2>1, <2>2, <2>3 DEF Filed
<1>12. InOrder(A.pool)
  <2>1. InOrder(S.pool)
    BY DEF Listed, Arranged
  <2> QED BY <1>9, <2>1 DEF InOrder
<1>13. Cardinality(A.pool.lru) = Cardinality(S.pool.lru) + 1 /\ Cardinality(S.pool.lru) \in Nat
  <2>1. IsFiniteSet(S.pool.lru) /\ Cardinality(S.pool.lru) \in Nat
    BY <1>2, LRUFinite
  <2> QED BY <1>9, <2>1, FS_AddElement
<1>14. CASE ~(MaxIdle # 0 /\ Cardinality(A.pool.lru) > MaxIdle)
  <2>1. AddIdle(S, p) = A
    BY <1>14, <1>a
  <2>2. Limited(A)
    BY <1>13, <1>14, HttpTransportAssumption DEF Limited
  <2> QED BY <1>7, <1>8, <1>9, <1>11, <1>12, <2>1, <2>2 DEF Listed, Arranged
<1>15. CASE MaxIdle # 0 /\ Cardinality(A.pool.lru) > MaxIdle
  <2> DEFINE B == ClosePC(A, oldest, "other") T == RemoveIdleConn(B, oldest) O == Closed(A.conns[oldest], "other")
  <2>1. AddIdle(S, p) = T
    BY <1>15, <1>a
  <2>2. oldest \in A.pool.lru /\ oldest \in DOMAIN A.conns
    <3>1. A.pool.lru # {} /\ A.pool \in PoolType
      BY <1>9, <1>5, <1>7
    <3>2. oldest \in A.pool.lru
      BY <1>12, <3>1, OldestFacts
    <3> QED BY <1>11, <3>2 DEF Filed
  <2>3. A.conns[oldest] \in PConnType /\ A.pool \in PoolType /\ A.conns \in Seq(PConnType) /\ A.calls \in [Calls -> CallType]
    BY <1>7, <2>2, StateFields
  <2>4. O \in PConnType /\ Lighter(A.conns[oldest], O) /\ O.closed # "no"
    BY <2>3, ClosedIs
  <2>5. B = [A EXCEPT !.conns[oldest] = O]
    BY DEF ClosePC
  <2> HIDE DEF B, O, oldest, T
  <2>6. B \in StateType /\ B.pool = A.pool /\ B.conns = [A.conns EXCEPT ![oldest] = O] /\ B.calls = A.calls
    <3>1. [A.conns EXCEPT ![oldest] = O] \in Seq(PConnType)
      BY <2>2, <2>3, <2>4, ConnsUpdate
    <3> QED BY <1>7, <2>3, <2>5, <3>1 DEF StateType
  <2>7. Lightened(A, B) /\ DOMAIN B.conns = DOMAIN A.conns /\ Len(B.conns) <= MaxConns /\ B.conns[oldest] = O
    <3>1. Lightened(A, B)
      BY SMTT(40), <1>7, <2>2, <2>4, <2>6, LightenedOne
    <3> QED BY <1>8, <2>2, <2>3, <2>4, <2>6, <3>1, ConnsUpdate DEF Lightened
  <2>8. \A x \in DOMAIN B.conns : B.conns[x].key = A.conns[x].key
    BY <2>7 DEF Lightened, Lighter, SameWork
  <2>9. Arranged(B)
    <3>1. Filed(B)
      BY <1>11, <2>6, <2>7, <2>8 DEF Filed
    <3> QED BY <1>12, <2>6, <3>1 DEF Arranged
  <2>10. /\ T \in StateType /\ Arranged(T) /\ Lightened(B, T) /\ T.calls = B.calls
         /\ \A x \in DOMAIN B.conns : T.conns[x].closed = B.conns[x].closed
         /\ T.pool.lru = B.pool.lru \ {oldest} /\ T.pool.skipped = B.pool.skipped
    BY <2>2, <2>6, <2>7, <2>9, RemoveIdleConnIs DEF T
  <2>11. Lightened(S, T)
    BY <1>8, <2>7, <2>10, LightenedTwice
  <2>12. T.conns[oldest].closed # "no"
    BY <2>2, <2>4, <2>7, <2>10
  <2>13. Limited(T)
    <3>1. T.pool.lru = A.pool.lru \ {oldest} /\ A.pool.lru \in SUBSET (1..MaxConns)
      BY <2>3, <2>6, <2>10, PoolFields
    <3>2. Cardinality(T.pool.lru) = Cardinality(A.pool.lru) - 1
      BY SMTT(40), <2>2, <3>1, LRUFinite, FS_RemoveElement
    <3>3. Cardinality(T.pool.lru) = Cardinality(S.pool.lru) /\ Limited(S)
      <4>1. \A n, m \in Nat : m = n + 1 => m - 1 = n
        OBVIOUS
      <4>2. Cardinality(A.pool.lru) \in Nat
        BY <3>1, LRUFinite
      <4> QED BY <1>13, <3>2, <4>1, <4>2 DEF Listed
    <3> QED BY <3>3 DEF Limited
  <2> QED BY <1>7, <1>9, <2>1, <2>6, <2>10, <2>11, <2>12, <2>13 DEF Listed
<1> QED BY <1>14, <1>15

-----------------------------------------------------------------------------
(* A step *)

\* A call that goes on with the connection it has.
SameCall(C, D) == D.conn = C.conn /\ D.pc = C.pc /\ D.dial = C.dial /\ (D.canceler = C.canceler \/ D.canceler # "conn")

\* The calls that change have connection p before and after, or none.
Confined(S, T, p) ==
  \A d \in Calls :
    \/ SameCall(S.calls[d], T.calls[d])
    \/ S.calls[d].conn \in {0, p} /\ T.calls[d].conn \in {0, p} /\ CallRefers(T, d)

\* A step that changes what connection p is lent to: it is for p, and for the calls that change,
\* to be as the invariant says.
LEMMA ChangeSound ==
  ASSUME NEW S, Sound(S), NEW T \in StateType, NEW p, Len(T.conns) <= MaxConns, Len(S.conns) <= Len(T.conns), Listed(T),
         \A q \in DOMAIN T.conns : q # p => q \in DOMAIN S.conns /\ SameConn(S, T, q),
         Confined(S, T, p), p \in DOMAIN T.conns => Kept(T, p)
  PROVE  Sound(T)
<1>1. S \in StateType /\ Refers(S) /\ AllKept(S)
  BY DEF Sound, TypeOf
<1>2. DOMAIN S.conns = 1..Len(S.conns) /\ Len(S.conns) \in Nat /\ DOMAIN T.conns = 1..Len(T.conns) /\ Len(T.conns) \in Nat
  BY <1>1, StateFields
<1>3. ASSUME NEW q \in DOMAIN T.conns PROVE Kept(T, q)
  <2>1. CASE q = p
    BY <2>1
  <2>2. CASE q # p
    <3>1. SameCalls(S, T, q)
      <4>1. q # 0
        BY <1>2
      <4> QED BY <2>2, <4>1 DEF Confined, SameCalls, SameCall
    <3>2. q \in DOMAIN S.conns /\ SameConn(S, T, q) /\ Kept(S, q)
      BY <1>1, <2>2 DEF AllKept
    <3> QED BY <1>1, <3>1, <3>2, KeptSame
  <2> QED BY <2>1, <2>2
<1>4. ASSUME NEW d \in Calls PROVE CallRefers(T, d)
  <2>1. CASE SameCall(S.calls[d], T.calls[d])
    <3>1. CallRefers(S, d)
      BY <1>1 DEF Refers
    <3>2. S.calls[d] \in CallType
      BY <1>1, StateFields
    <3>3. S.calls[d].conn \in Nat /\ S.calls[d].dial \in Nat
      BY <3>2 DEF CallType
    <3>4. \A n, a, b \in Nat : a <= b /\ n \in 0..a => n \in 0..b
      OBVIOUS
    <3>5. \A n, a, b \in Nat : a <= b /\ n \in 1..a => n \in 1..b
      OBVIOUS
    <3> DEFINE C == S.calls[d] D == T.calls[d]
    <3> HIDE DEF C, D
    <3>6. D.conn = C.conn /\ D.pc = C.pc /\ D.dial = C.dial /\ (D.canceler = C.canceler \/ D.canceler # "conn")
      BY <2>1 DEF SameCall, C, D
    <3>7. D.conn \in 0..Len(T.conns)
      BY <1>2, <3>1, <3>3, <3>4, <3>6 DEF CallRefers, C
    <3>8. D.pc = "wait" => D.dial \in 1..Len(T.conns)
      BY <1>2, <3>1, <3>3, <3>5, <3>6 DEF CallRefers, C
    <3>9. /\ D.pc \in {"enter", "send", "sent", "body", "eofwait"} \/ D.canceler = "conn" => D.conn # 0
          /\ D.pc \in {"idle", "wait", "retry"} => D.conn = 0
          /\ D.pc = "failed" => D.canceler # "conn"
      BY <3>1, <3>6 DEF CallRefers, C
    <3> QED BY <3>7, <3>8, <3>9 DEF CallRefers, D
  <2> QED BY <2>1 DEF Confined
<1> QED BY <1>3, <1>4 DEF Sound, TypeOf, Refers, AllKept

\* The step of a loop or of a call is one to a sound state.
LEMMA SoundBecomes ==
  ASSUME NEW T, Sound(T), Becomes(T), Sound(Now)
  PROVE  Sound(Now)'
<1>1. T \in StateType
  BY DEF Sound, TypeOf
<1> QED BY <1>1, BecomesIs, SoundNext

\* The connections and the calls of a sound state.
LEMMA SoundFields ==
  ASSUME NEW S, Sound(S)
  PROVE  /\ S \in StateType /\ Len(S.conns) <= MaxConns /\ Len(S.conns) \in Nat /\ DOMAIN S.conns = 1..Len(S.conns)
         /\ Listed(S)
         /\ \A p \in DOMAIN S.conns : S.conns[p] \in PConnType /\ Kept(S, p)
         /\ \A c \in Calls : S.calls[c] \in CallType /\ CallRefers(S, c)
<1>1. S \in StateType
  BY DEF Sound, TypeOf
<1> QED BY <1>1, StateFields DEF Sound, TypeOf, Refers, AllKept

LEMMA StepSound ==
  ASSUME Sound(Now), may' = may, Sound([pool |-> pool', conns |-> conns', calls |-> calls'])
  PROVE  Sound(Now)'
<1>1. Now' = [pool |-> pool', conns |-> conns', calls |-> calls']
  BY DEF Now
<1> QED BY <1>1, SoundNext

\* What does not change whom a connection is lent to.
Undisturbed(P, Q) ==
  /\ Q.key = P.key /\ Q.dial = P.dial /\ Q.read = P.read /\ Q.rc = P.rc /\ Q.reqch = P.reqch /\ Q.alive = P.alive
  /\ Q.resp = P.resp /\ (Q.closed = P.closed \/ Q.closed # "no")

\* A step of one connection and of calls that disturbs none.
LEMMA FrameSound ==
  ASSUME NEW S, Sound(S), NEW p \in DOMAIN S.conns, NEW Q \in PConnType, Undisturbed(S.conns[p], Q),
         NEW cl \in [Calls -> CallType], \A d \in Calls : SameCall(S.calls[d], cl[d])
  PROVE  Sound([pool |-> S.pool, conns |-> [S.conns EXCEPT ![p] = Q], calls |-> cl])
<1> DEFINE cs == [S.conns EXCEPT ![p] = Q]
           T == [pool |-> S.pool, conns |-> cs, calls |-> cl]
<1>0. /\ S \in StateType /\ Len(S.conns) <= MaxConns /\ Len(S.conns) \in Nat /\ Listed(S)
      /\ S.pool \in PoolType /\ S.conns \in Seq(PConnType)
  BY SoundFields, StateFields
<1>1. cs \in Seq(PConnType) /\ DOMAIN cs = DOMAIN S.conns /\ Len(cs) = Len(S.conns) /\ cs[p] = Q
      /\ \A q \in DOMAIN S.conns : q # p => cs[q] = S.conns[q]
  BY <1>0, ConnsUpdate
<1> HIDE DEF cs
<1>2. T \in StateType /\ T.pool = S.pool /\ T.conns = cs /\ T.calls = cl
  BY <1>0, <1>1, StateIs
<1> HIDE DEF T
<1>3. \A q \in DOMAIN S.conns : SameConn(S, T, q) /\ T.conns[q].key = S.conns[q].key
  BY <1>1, <1>2 DEF SameConn, Undisturbed
<1>4. Listed(T)
  BY <1>0, <1>1, <1>2, <1>3, ListedSame
<1>5. Confined(S, T, 0)
  BY <1>2 DEF Confined
<1>6. Len(T.conns) <= MaxConns /\ Len(S.conns) <= Len(T.conns) /\ DOMAIN T.conns = DOMAIN S.conns
  BY <1>0, <1>1, <1>2
<1>7. 0 \notin DOMAIN T.conns
  BY <1>0, <1>6, StateFields
<1>8. Sound(T)
  BY <1>2, <1>3, <1>4, <1>5, <1>6, <1>7, ChangeSound
<1> QED BY <1>8 DEF T, cs

LEMMA NowFields ==
  ASSUME Sound(Now)
  PROVE  /\ pool \in PoolType /\ conns \in Seq(PConnType) /\ calls \in [Calls -> CallType]
         /\ Now = [pool |-> pool, conns |-> conns, calls |-> calls]
         /\ Now.pool = pool /\ Now.conns = conns /\ Now.calls = calls
         /\ Conns = DOMAIN conns /\ Conns = 1..Len(conns) /\ Len(conns) \in Nat /\ Len(conns) <= MaxConns /\ Listed(Now)
         /\ \A p \in Conns : conns[p] \in PConnType /\ Kept(Now, p)
         /\ \A c \in Calls : calls[c] \in CallType /\ CallRefers(Now, c)
<1>1. Now.pool = pool /\ Now.conns = conns /\ Now.calls = calls /\ Now = [pool |-> pool, conns |-> conns, calls |-> calls]
  BY DEF Now
<1>2. Now \in StateType
  BY SoundFields
<1>3. pool \in PoolType /\ conns \in Seq(PConnType) /\ calls \in [Calls -> CallType]
  BY <1>1, <1>2, StateFields
<1> HIDE DEF Now
<1> QED BY <1>1, <1>3, SoundFields DEF Conns

LEMMA IdleTimerFiresSound ==
  ASSUME Sound(Now), NEW p \in Conns, IdleTimerFires(p)
  PROVE  Sound(Now)'
<1> DEFINE Q == [conns[p] EXCEPT !.timer = "fired"]
<1>0. conns[p] \in PConnType /\ p \in DOMAIN Now.conns /\ calls \in [Calls -> CallType]
  BY NowFields
<1>1. pool' = pool /\ conns' = [conns EXCEPT ![p] = Q] /\ calls' = calls /\ may' = may
  BY DEF IdleTimerFires, Becomes, Now
<1>2. Q \in PConnType /\ Undisturbed(conns[p], Q)
  BY <1>0, Values DEF Undisturbed, PConnType
<1>3. \A d \in Calls : SameCall(calls[d], calls[d])
  BY DEF SameCall
<1> HIDE DEF Q
<1>4. Sound([pool |-> pool, conns |-> [conns EXCEPT ![p] = Q], calls |-> calls])
  BY <1>0, <1>2, <1>3, FrameSound, NowFields
<1> QED BY <1>1, <1>4, StepSound

\* A step of a call that leaves its connection as it is.
LEMMA CallFrameSound ==
  ASSUME NEW S, Sound(S), NEW c \in Calls, NEW C \in CallType, SameCall(S.calls[c], C)
  PROVE  Sound([pool |-> S.pool, conns |-> S.conns, calls |-> [S.calls EXCEPT ![c] = C]])
<1> DEFINE cl == [S.calls EXCEPT ![c] = C]
           T == [pool |-> S.pool, conns |-> S.conns, calls |-> cl]
<1>0. /\ S \in StateType /\ Len(S.conns) <= MaxConns /\ Len(S.conns) \in Nat /\ Listed(S)
      /\ S.pool \in PoolType /\ S.conns \in Seq(PConnType) /\ S.calls \in [Calls -> CallType]
  BY SoundFields, StateFields
<1>1. cl \in [Calls -> CallType] /\ cl[c] = C /\ \A d \in Calls : d # c => cl[d] = S.calls[d]
  BY <1>0, CallsUpdate
<1> HIDE DEF cl
<1>2. T \in StateType /\ T.pool = S.pool /\ T.conns = S.conns /\ T.calls = cl
  BY <1>0, <1>1, StateIs
<1> HIDE DEF T
<1>3. \A q \in DOMAIN S.conns : SameConn(S, T, q)
  BY <1>2 DEF SameConn
<1>4. Listed(T)
  BY <1>0, <1>2, ListedSame
<1>5. Confined(S, T, 0)
  BY <1>1, <1>2 DEF Confined, SameCall
<1>6. Len(T.conns) <= MaxConns /\ Len(S.conns) <= Len(T.conns) /\ DOMAIN T.conns = DOMAIN S.conns
  BY <1>0, <1>2
<1>7. 0 \notin DOMAIN T.conns
  BY <1>0, <1>6, StateFields
<1>8. Sound(T)
  BY <1>2, <1>3, <1>4, <1>5, <1>6, <1>7, ChangeSound
<1> QED BY <1>8 DEF T, cl

LEMMA SameCallSelf == \A C : SameCall(C, C)
BY DEF SameCall

LEMMA ContextEndsSound ==
  ASSUME Sound(Now), NEW c \in Calls, ContextEnds(c)
  PROVE  Sound(Now)'
<1> DEFINE C == [calls[c] EXCEPT !.ctx = TRUE]
<1>0. calls[c] \in CallType
  BY NowFields
<1>1. pool' = pool /\ conns' = conns /\ calls' = [calls EXCEPT ![c] = C] /\ may' = may
  BY DEF ContextEnds
<1>2. C \in CallType /\ SameCall(calls[c], C)
  BY <1>0 DEF SameCall, CallType
<1> HIDE DEF C
<1>3. Sound([pool |-> pool, conns |-> conns, calls |-> [calls EXCEPT ![c] = C]])
  BY <1>2, CallFrameSound, NowFields
<1> QED BY <1>1, <1>3, StepSound

\* cancelRequest disturbs no connection but the one it closes.
LEMMA CancelRequestSound ==
  ASSUME NEW S, Sound(S), NEW c \in Calls
  PROVE  Sound(CancelRequest(S, c))
<1> DEFINE C == S.calls[c]
           n == [C EXCEPT !.canceler = "none"]
<1>0. /\ S \in StateType /\ C \in CallType /\ CallRefers(S, c) /\ DOMAIN S.conns = 1..Len(S.conns) /\ S.calls \in [Calls -> CallType]
      /\ S.conns \in Seq(PConnType) /\ S.pool \in PoolType
      /\ S = [pool |-> S.pool, conns |-> S.conns, calls |-> S.calls]
  BY SoundFields, StateFields
<1>1. n \in CallType /\ SameCall(C, n)
  BY <1>0, Values DEF CallType, SameCall
<1>2. CASE C.canceler = "conn"
  <2> DEFINE p == C.conn
             P == [S.conns[p] EXCEPT !.canceled = TRUE]
             Q == Closed(P, "other")
             cl == [S.calls EXCEPT ![c] = n]
  <2>1. p \in DOMAIN S.conns /\ S.conns[p] \in PConnType
    <3>1. p \in DOMAIN S.conns
      BY <1>0, <1>2 DEF CallRefers
    <3> QED BY <1>0, <3>1, StateFields
  <2>2. P \in PConnType /\ Undisturbed(S.conns[p], P)
    BY <2>1 DEF PConnType, Undisturbed
  <2>3. Q \in PConnType /\ Undisturbed(S.conns[p], Q)
    <3> HIDE DEF P
    <3>1. Q \in PConnType /\ Lighter(P, Q) /\ Q.closed # "no"
      BY <2>2, ClosedIs
    <3> QED BY <2>2, <3>1 DEF Undisturbed, Lighter, SameWork
  <2>4. cl \in [Calls -> CallType] /\ \A d \in Calls : SameCall(S.calls[d], cl[d])
    <3> HIDE DEF n
    <3>1. cl \in [Calls -> CallType] /\ cl[c] = n /\ \A d \in Calls : d # c => cl[d] = S.calls[d]
      BY <1>0, <1>1, CallsUpdate
    <3> HIDE DEF cl
    <3> QED BY <1>1, <3>1, SameCallSelf
  <2>5. CancelRequest(S, c) = [pool |-> S.pool, conns |-> [S.conns EXCEPT ![p] = Q], calls |-> cl]
    BY <1>0, <1>2, <2>1 DEF CancelRequest, StateType
  <2> HIDE DEF Q, cl, p
  <2> QED BY <2>1, <2>3, <2>4, <2>5, FrameSound
<1>3. CASE C.canceler = "cancelc"
  <2> DEFINE m == [n EXCEPT !.cancelc = TRUE]
  <2>1. m \in CallType /\ SameCall(C, m)
    BY <1>0, Values DEF CallType, SameCall
  <2>2. CancelRequest(S, c) = [pool |-> S.pool, conns |-> S.conns, calls |-> [S.calls EXCEPT ![c] = m]]
    BY <1>0, <1>3 DEF CancelRequest, StateType
  <2> HIDE DEF m
  <2> QED BY <2>1, <2>2, CallFrameSound
<1>4. CASE C.canceler \notin {"conn", "cancelc"}
  <2>1. CancelRequest(S, c) = [pool |-> S.pool, conns |-> S.conns, calls |-> [S.calls EXCEPT ![c] = n]]
    BY <1>0, <1>4 DEF CancelRequest, StateType
  <2> HIDE DEF n
  <2> QED BY <1>1, <2>1, CallFrameSound
<1> QED BY <1>2, <1>3, <1>4

LEMMA CancelsSound ==
  ASSUME Sound(Now), NEW c \in Calls, SeesCancel(c) \/ CallerCancels(c)
  PROVE  Sound(Now)'
<1>1. Becomes(CancelRequest(Now, c))
  BY DEF SeesCancel, CallerCancels
<1> QED BY <1>1, CancelRequestSound, SoundBecomes

\* One connection works on.
LEMMA ConnSound ==
  ASSUME NEW S, Sound(S), NEW p \in DOMAIN S.conns, NEW Q \in PConnType, Undisturbed(S.conns[p], Q)
  PROVE  LET T == [S EXCEPT !.conns[p] = Q] IN
         Sound(T) /\ T.conns = [S.conns EXCEPT ![p] = Q] /\ DOMAIN T.conns = DOMAIN S.conns /\ T.conns[p] = Q /\ T.calls = S.calls
<1>1. /\ S \in StateType /\ S.calls \in [Calls -> CallType] /\ S.conns \in Seq(PConnType)
      /\ S = [pool |-> S.pool, conns |-> S.conns, calls |-> S.calls]
  BY SoundFields, StateFields
<1>2. \A d \in Calls : SameCall(S.calls[d], S.calls[d])
  BY SameCallSelf
<1>3. Sound([pool |-> S.pool, conns |-> [S.conns EXCEPT ![p] = Q], calls |-> S.calls])
  BY <1>1, <1>2, FrameSound
<1>4. [S EXCEPT !.conns[p] = Q] = [pool |-> S.pool, conns |-> [S.conns EXCEPT ![p] = Q], calls |-> S.calls]
  BY <1>1 DEF StateType
<1>5. DOMAIN [S.conns EXCEPT ![p] = Q] = DOMAIN S.conns /\ [S.conns EXCEPT ![p] = Q][p] = Q
  BY <1>1, ConnsUpdate
<1> QED BY <1>3, <1>4, <1>5

LEMMA WriteEndsSound ==
  ASSUME NEW S, Sound(S), NEW p \in DOMAIN S.conns, NEW err \in {"nil", "nothing", "write"}
  PROVE  Sound(WriteEnds(S, p, err))
<1> DEFINE w == IF err = "nil" THEN "idle" ELSE "failed"
           Q == [S.conns[p] EXCEPT !.werrch = err, !.writech = {}, !.write = w]
           W(c) == c \in S.conns[p].writech /\ S.calls[c].conn = p
           cl == [c \in Calls |-> IF W(c) THEN [S.calls[c] EXCEPT !.wch = err] ELSE S.calls[c]]
<1>0. /\ S \in StateType /\ S.conns[p] \in PConnType /\ S.conns \in Seq(PConnType) /\ S.calls \in [Calls -> CallType]
      /\ S = [pool |-> S.pool, conns |-> S.conns, calls |-> S.calls]
  BY SoundFields, StateFields
<1>1. WriteEnds(S, p, err) = [pool |-> S.pool, conns |-> [S.conns EXCEPT ![p] = Q], calls |-> cl]
  <2>1. WriteEnds(S, p, err) = [S EXCEPT !.conns[p] = Q, !.calls = cl]
    BY DEF WriteEnds
  <2> HIDE DEF Q, cl
  <2> QED BY <1>0, <2>1 DEF StateType
<1>2. w \in Writes /\ err \in WriteErrs
  BY Values
<1>b. S.conns[p] \in PConnType
  BY <1>0
<1> HIDE DEF w
<1>3. Q \in PConnType
  BY <1>b, <1>2, Values DEF PConnType
<1>a. Undisturbed(S.conns[p], Q)
  BY <1>0, <1>2 DEF PConnType, Undisturbed
<1>4. ASSUME NEW d \in Calls PROVE cl[d] \in CallType /\ SameCall(S.calls[d], cl[d])
  <2> DEFINE D == [S.calls[d] EXCEPT !.wch = err]
  <2>1. S.calls[d] \in CallType
    BY <1>0
  <2>2. D \in CallType /\ SameCall(S.calls[d], D)
    BY <2>1, Values DEF CallType, SameCall
  <2> HIDE DEF D, W
  <2>3. cl[d] = IF W(d) THEN D ELSE S.calls[d]
    BY DEF D
  <2> QED BY <2>1, <2>2, <2>3, SameCallSelf
<1>5. cl \in [Calls -> CallType]
  BY <1>4
<1> HIDE DEF cl, Q
<1> QED BY <1>1, <1>3, <1>a, <1>4, <1>5, FrameSound

LEMMA WriteHeadSound ==
  ASSUME Sound(Now), NEW p \in Conns, WriteHead(p)
  PROVE  Sound(Now)'
<1> DEFINE P == conns[p]
           c == CHOOSE x \in P.writech : TRUE
           g == IF Arrives(P) THEN Append(P.got, c) ELSE P.got
           n == P.nwrite + 1
           Q == [P EXCEPT !.nwrite = n, !.got = g]
           F == [Q EXCEPT !.full = Q.full + 1]
           B == [Q EXCEPT !.write = "body"]
<1>0. P \in PConnType /\ p \in DOMAIN Now.conns /\ Now.conns[p] = P
  BY NowFields
<1>1. c \in Calls /\ P.got \in Seq(Calls) /\ P.nwrite \in Nat
  <2>1. P.writech # {}
    BY DEF WriteHead
  <2> QED BY <1>0, <2>1 DEF PConnType
<1>2. g \in Seq(Calls) /\ n \in Nat
  BY <1>1
<1>3. Becomes([Now EXCEPT !.conns[p] = B]) \/ Becomes(WriteEnds([Now EXCEPT !.conns[p] = F], p, "nil"))
  BY DEF WriteHead, WithConn
<1> HIDE DEF g, n, P
<1>4. Q \in PConnType
  BY <1>0, <1>2 DEF PConnType
<1>5. Undisturbed(P, Q)
  BY <1>0 DEF PConnType, Undisturbed
<1> HIDE DEF Q
<1>6. F \in PConnType /\ B \in PConnType
  <2>1. Q.full \in Nat
    BY <1>4 DEF PConnType
  <2>2. Q.full + 1 \in Nat
    BY <2>1
  <2>3. F \in PConnType
    BY <1>4, <2>2 DEF PConnType
  <2>4. B \in PConnType
    BY <1>4, Values DEF PConnType
  <2> QED BY <2>3, <2>4
<1>7. Undisturbed(P, F) /\ Undisturbed(P, B)
  BY <1>4, <1>5 DEF PConnType, Undisturbed
<1> HIDE DEF F, B
<1>8. Sound([Now EXCEPT !.conns[p] = B]) /\ Sound([Now EXCEPT !.conns[p] = F]) /\ p \in DOMAIN [Now EXCEPT !.conns[p] = F].conns
  BY <1>0, <1>6, <1>7, ConnSound
<1>9. Sound(WriteEnds([Now EXCEPT !.conns[p] = F], p, "nil"))
  BY <1>8, WriteEndsSound
<1> QED BY <1>3, <1>8, <1>9, SoundBecomes

LEMMA WriteBodySound ==
  ASSUME Sound(Now), NEW p \in Conns, WriteBody(p)
  PROVE  Sound(Now)'
<1> DEFINE Q == [conns[p] EXCEPT !.full = conns[p].full + 1]
           S == [Now EXCEPT !.conns[p] = Q]
<1>0. conns[p] \in PConnType /\ p \in DOMAIN Now.conns /\ Now.conns[p] = conns[p] /\ Now.conns = conns
  BY NowFields
<1>1. Becomes(WriteEnds(S, p, "nil"))
  BY <1>0 DEF WriteBody, Now
<1>2. Q \in PConnType /\ Undisturbed(conns[p], Q)
  BY SMTT(40), <1>0 DEF PConnType, Undisturbed
<1> HIDE DEF Q
<1>3. Sound(S) /\ p \in DOMAIN S.conns
  BY <1>0, <1>2, ConnSound
<1> HIDE DEF S
<1>4. Sound(WriteEnds(S, p, "nil"))
  BY <1>3, WriteEndsSound
<1> QED BY <1>1, <1>4, SoundBecomes

LEMMA WriteFailsSound ==
  ASSUME Sound(Now), NEW p \in Conns, WriteFails(p)
  PROVE  Sound(Now)'
<1>1. \E err \in {"nothing", "write"} : Becomes(WriteEnds(Now, p, err))
  BY DEF WriteFails
<1>2. \A err \in {"nothing", "write"} : Sound(WriteEnds(Now, p, err))
  BY NowFields, WriteEndsSound
<1> QED BY <1>1, <1>2, SoundBecomes

LEMMA WriteLoopEndsSound ==
  ASSUME Sound(Now), NEW p \in Conns, WriteLoopEnds(p)
  PROVE  Sound(Now)'
<1> DEFINE P == Closed(conns[p], "other")
           Q == [P EXCEPT !.write = "done"]
           S == [Now EXCEPT !.conns[p] = Q]
<1>0. conns[p] \in PConnType /\ p \in DOMAIN Now.conns /\ Now.conns[p] = conns[p] /\ Now.conns = conns
  BY NowFields
<1>1. Becomes(S)
  BY <1>0 DEF WriteLoopEnds, ClosePC, Now
<1>2. P \in PConnType /\ Undisturbed(conns[p], P)
  BY <1>0, ClosedIs DEF Undisturbed, Lighter, SameWork
<1> HIDE DEF P
<1>3. Q \in PConnType /\ Undisturbed(conns[p], Q)
  BY <1>2, Values DEF PConnType, Undisturbed
<1> HIDE DEF Q
<1>4. Sound(S)
  BY <1>0, <1>3, ConnSound
<1> QED BY <1>1, <1>4, SoundBecomes

LEMMA SrvRespondSound ==
  ASSUME Sound(Now), NEW p \in Conns, SrvRespond(p)
  PROVE  Sound(Now)'
<1> DEFINE P == conns[p]
           m(close) == P.out \o Message(P.got[P.answered + 1], close)
           n == P.answered + 1
           Q(close) == [P EXCEPT !.answered = n, !.srvClosed = close, !.out = m(close)]
<1>0. P \in PConnType /\ p \in DOMAIN Now.conns /\ Now.conns[p] = P
  BY NowFields
<1>1. PICK close \in BOOLEAN : Becomes([Now EXCEPT !.conns[p] = Q(close)])
  BY DEF SrvRespond, WithConn
<1>2. P.answered \in Nat /\ P.got \in Seq(Calls) /\ P.out \in Seq(TokenType) /\ P.answered < Len(P.got)
  BY <1>0 DEF PConnType, SrvRespond
<1>3. n \in Nat /\ P.got[n] \in Calls
  BY <1>2
<1>4. m(close) \in Seq(TokenType)
  <2> DEFINE c == P.got[n]
             h == [call |-> c, close |-> close, k |-> "head"]
             b == [call |-> c, close |-> close, k |-> "body"]
  <2>1. h \in TokenType /\ b \in TokenType
    BY <1>3 DEF TokenType
  <2>2. Message(c, close) = <<h>> \o (IF Req(c).resBody THEN <<b>> ELSE <<>>)
    BY DEF Message
  <2> HIDE DEF h, b, c
  <2>3. <<h>> \in Seq(TokenType) /\ <<b>> \in Seq(TokenType) /\ <<>> \in Seq(TokenType)
    BY <2>1
  <2>4. \A s, t \in Seq(TokenType) : s \o t \in Seq(TokenType)
    BY ConcatProperties
  <2>5. Message(c, close) \in Seq(TokenType)
    BY <2>2, <2>3, <2>4
  <2>6. m(close) = P.out \o Message(c, close)
    BY DEF c
  <2> HIDE DEF m
  <2> QED BY <1>2, <2>4, <2>5, <2>6
<1> HIDE DEF n, m, P
<1>5. Q(close) \in PConnType
  BY <1>0, <1>3, <1>4 DEF PConnType
<1>6. Undisturbed(P, Q(close))
  BY <1>0 DEF PConnType, Undisturbed
<1> HIDE DEF Q
<1>7. Sound([Now EXCEPT !.conns[p] = Q(close)])
  BY <1>0, <1>5, <1>6, ConnSound
<1> QED BY <1>1, <1>7, SoundBecomes

LEMMA SrvCloseSound ==
  ASSUME Sound(Now), NEW p \in Conns, SrvClose(p)
  PROVE  Sound(Now)'
<1> DEFINE Q == [conns[p] EXCEPT !.srvClosed = TRUE]
<1>0. conns[p] \in PConnType /\ p \in DOMAIN Now.conns /\ Now.conns[p] = conns[p]
  BY NowFields
<1>1. Becomes([Now EXCEPT !.conns[p] = Q])
  BY <1>0 DEF SrvClose, Now
<1>2. Q \in PConnType
  BY <1>0 DEF PConnType
<1>3. Undisturbed(conns[p], Q)
  BY <1>0 DEF PConnType, Undisturbed
<1> HIDE DEF Q
<1>4. Sound([Now EXCEPT !.conns[p] = Q])
  BY <1>0, <1>2, <1>3, ConnSound
<1> QED BY <1>1, <1>4, SoundBecomes

\* A step of connection p and of calls.
Turn(S, p, Q, cl) == [pool |-> S.pool, conns |-> [S.conns EXCEPT ![p] = Q], calls |-> cl]

LEMMA TurnIs ==
  ASSUME NEW S \in StateType, NEW p \in DOMAIN S.conns, NEW Q \in PConnType, NEW cl \in [Calls -> CallType]
  PROVE  LET T == Turn(S, p, Q, cl) IN
         /\ T \in StateType /\ T.pool = S.pool /\ T.calls = cl
         /\ DOMAIN T.conns = DOMAIN S.conns /\ Len(T.conns) = Len(S.conns) /\ T.conns[p] = Q
         /\ \A q \in DOMAIN S.conns : q # p => T.conns[q] = S.conns[q]
<1> DEFINE cs == [S.conns EXCEPT ![p] = Q]
<1>1. S.conns \in Seq(PConnType) /\ S.pool \in PoolType
  BY StateFields
<1>2. cs \in Seq(PConnType) /\ DOMAIN cs = DOMAIN S.conns /\ Len(cs) = Len(S.conns) /\ cs[p] = Q
      /\ \A q \in DOMAIN S.conns : q # p => cs[q] = S.conns[q]
  BY <1>1, ConnsUpdate
<1> HIDE DEF cs
<1>3. LET T == [pool |-> S.pool, conns |-> cs, calls |-> cl] IN
      T \in StateType /\ T.pool = S.pool /\ T.conns = cs /\ T.calls = cl
  BY <1>1, <1>2, StateIs
<1>4. Turn(S, p, Q, cl) = [pool |-> S.pool, conns |-> cs, calls |-> cl]
  BY DEF Turn, cs
<1> QED BY <1>2, <1>3, <1>4

LEMMA TurnSound ==
  ASSUME NEW S, Sound(S), NEW p \in DOMAIN S.conns, NEW Q \in PConnType, Q.key = S.conns[p].key,
         NEW cl \in [Calls -> CallType], Confined(S, Turn(S, p, Q, cl), p), Kept(Turn(S, p, Q, cl), p)
  PROVE  Sound(Turn(S, p, Q, cl))
<1> DEFINE T == Turn(S, p, Q, cl)
<1>0. S \in StateType /\ Len(S.conns) <= MaxConns /\ Len(S.conns) \in Nat /\ Listed(S)
  BY SoundFields
<1>1. /\ T \in StateType /\ T.pool = S.pool /\ T.calls = cl
      /\ DOMAIN T.conns = DOMAIN S.conns /\ Len(T.conns) = Len(S.conns) /\ T.conns[p] = Q
      /\ \A q \in DOMAIN S.conns : q # p => T.conns[q] = S.conns[q]
  BY <1>0, TurnIs
<1> HIDE DEF T
<1>2. \A q \in DOMAIN S.conns : T.conns[q].key = S.conns[q].key
  BY <1>1
<1>3. Listed(T)
  BY <1>0, <1>1, <1>2, ListedSame
<1>4. \A q \in DOMAIN T.conns : q # p => q \in DOMAIN S.conns /\ SameConn(S, T, q)
  BY <1>1 DEF SameConn
<1>5. Len(T.conns) <= MaxConns /\ Len(S.conns) <= Len(T.conns)
  BY <1>0, <1>1
<1>6. Confined(S, T, p) /\ Kept(T, p)
  BY DEF T
<1>7. Sound(T)
  BY <1>1, <1>3, <1>4, <1>5, <1>6, ChangeSound
<1> QED BY <1>7 DEF T

\* The same, as a step from the state Now.
LEMMA TurnStep ==
  ASSUME Sound(Now), NEW p \in Conns, NEW Q \in PConnType, NEW cl \in [Calls -> CallType], Q.key = conns[p].key,
         pool' = pool, conns' = [conns EXCEPT ![p] = Q], calls' = cl, may' = may,
         LET T == Turn(Now, p, Q, cl) IN Confined(Now, T, p) /\ OneCall(T, p) /\ RequestsKept(T, p) /\ Owned(T, p)
  PROVE  Sound(Now)'
<1> DEFINE T == Turn(Now, p, Q, cl)
<1>1. T = [pool |-> pool', conns |-> conns', calls |-> calls']
  BY DEF Turn, Now
<1>2. p \in DOMAIN Now.conns /\ Now.conns[p] = conns[p]
  BY NowFields
<1>3. Sound(T)
  BY <1>2, TurnSound DEF Kept
<1> QED BY <1>1, <1>3, StepSound

LEMMA TurnNowIs ==
  ASSUME Sound(Now), NEW p \in Conns, NEW Q \in PConnType, NEW cl \in [Calls -> CallType]
  PROVE  LET T == Turn(Now, p, Q, cl) IN
         T \in StateType /\ T.pool = pool /\ T.calls = cl /\ T.conns[p] = Q /\ Len(T.conns) = Len(conns)
BY TurnIs, NowFields, SoundFields

LEMMA DialDoneSound ==
  ASSUME Sound(Now), NEW p \in Conns, DialDone(p)
  PROVE  Sound(Now)'
<1> DEFINE P == conns[p]
           R == [P EXCEPT !.dial = "ready", !.read = "peek", !.write = "idle"]
           F == [P EXCEPT !.dial = "failed", !.closed = "other"]
<1>0. P \in PConnType /\ p \in DOMAIN Now.conns /\ Now.conns[p] = P /\ Kept(Now, p) /\ Now \in StateType /\ P.dial = "dialing"
  BY NowFields, SoundFields DEF DialDone
<1>1. PICK Q \in {R, F} : pool' = pool /\ conns' = [conns EXCEPT ![p] = Q] /\ calls' = calls /\ may' = may
  BY DEF DialDone, Becomes, Now
<1>2. Q \in PConnType
  <2>1. R \in PConnType
    BY <1>0, Values DEF PConnType
  <2>2. F \in PConnType
    BY <1>0, Values DEF PConnType
  <2> QED BY <1>1, <2>1, <2>2
<1>3. /\ Q.key = P.key /\ Q.dial # "done" /\ Q.dial # "dialing" /\ (Q.dial = "failed" => Q.closed # "no") /\ Q.reqch = P.reqch /\ Q.rc = P.rc
      /\ Q.read = "peek" \/ (Q.read = P.read /\ Q.closed # "no")
      /\ Q.resp = P.resp
  <2>0. P \in PConnType
    BY <1>0
  <2>1. /\ R.key = P.key /\ R.dial = "ready" /\ R.reqch = P.reqch /\ R.rc = P.rc /\ R.read = "peek" /\ R.resp = P.resp
        /\ F.key = P.key /\ F.dial = "failed" /\ F.reqch = P.reqch /\ F.rc = P.rc /\ F.read = P.read /\ F.closed = "other" /\ F.resp = P.resp
    <3> HIDE DEF P
    <3> QED BY <2>0 DEF PConnType
  <2> HIDE DEF R, F
  <2> QED BY <1>1, <2>1
<1> HIDE DEF R, F, P
<1> DEFINE T == Turn(Now, p, Q, calls)
<1>4. calls \in [Calls -> CallType] /\ Now.calls = calls /\ Now.pool = pool
  BY NowFields
<1>5. T.pool = pool /\ T.calls = calls /\ T.conns[p] = Q
  BY <1>2, <1>4, TurnNowIs
<1> HIDE DEF T
<1>7. Users(Now, p) = {} /\ P.reqch = {} /\ P.rc = {} /\ p \notin pool.lru /\ (\A c \in Calls : calls[c].conn # p)
      /\ P.read \notin {"recycle", "deliver", "error", "body", "eofc"}
  BY <1>0, <1>4 DEF Kept, OneCall, RequestsKept
<1>8. Users(T, p) = {} /\ ~WithBody(Q)
  BY <1>3, <1>5, <1>7 DEF Users, Has, WithBody
<1>9. OneCall(T, p)
  BY <1>3, <1>5, <1>7, <1>8 DEF OneCall
<1>10. RequestsKept(T, p)
  BY <1>3, <1>5, <1>7, <1>8 DEF RequestsKept
<1>11. Owned(T, p)
  BY <1>3, <1>5 DEF Owned
<1>12. Confined(Now, T, p)
  BY <1>4, <1>5, SameCallSelf DEF Confined
<1> QED BY <1>1, <1>2, <1>3, <1>4, <1>9, <1>10, <1>11, <1>12, TurnStep DEF T, P

\* The calls of a turn that changes call c.
LEMMA ConfinedOne ==
  ASSUME NEW S, NEW T, NEW p, NEW c \in Calls, \A d \in Calls : d # c => T.calls[d] = S.calls[d],
         S.calls[c].conn \in {0, p}, T.calls[c].conn \in {0, p}, CallRefers(T, c)
  PROVE  Confined(S, T, p)
BY SameCallSelf DEF Confined

\* The dial is over: its connection has no call yet.
LEMMA NewConn ==
  ASSUME NEW S, Sound(S), NEW p \in DOMAIN S.conns, S.conns[p].dial # "done"
  PROVE  /\ Users(S, p) = {} /\ S.conns[p].reqch = {} /\ S.conns[p].rc = {} /\ p \notin S.pool.lru
         /\ \A c \in Calls : S.calls[c].conn # p
         /\ S.conns[p].read \notin {"recycle", "deliver", "error", "body", "eofc"}
BY SoundFields DEF Kept, OneCall, RequestsKept

LEMMA GotDialSound ==
  ASSUME Sound(Now), NEW c \in Calls, GotDial(c)
  PROVE  Sound(Now)'
<1> DEFINE p == calls[c].dial
           P == conns[p]
           Q == [P EXCEPT !.dial = "done"]
           E == [calls[c] EXCEPT !.dial = 0, !.pc = "enter", !.conn = p]
           F == [calls[c] EXCEPT !.dial = 0, !.pc = "failed", !.err = "dial", !.canceler = "none"]
<1>0. /\ calls \in [Calls -> CallType] /\ calls[c] \in CallType /\ calls[c].pc = "wait" /\ calls[c].conn = 0
      /\ p \in Conns /\ p \in DOMAIN conns /\ p \in Nat /\ P.dial \in {"ready", "failed"}
      /\ Now.calls = calls /\ Now.pool = pool /\ Now.conns = conns
  <2>1. calls[c].pc = "wait" /\ P.dial \in {"ready", "failed"}
    BY DEF GotDial
  <2>2. CallRefers(Now, c) /\ Conns = 1..Len(conns) /\ Now.calls = calls /\ Now.conns = conns
    BY NowFields
  <2> QED BY <2>1, <2>2, NowFields DEF CallRefers
<1>a. P \in PConnType /\ Kept(Now, p) /\ p \in DOMAIN Now.conns
  BY <1>0, NowFields
<1>1. /\ pool' = pool /\ conns' = [conns EXCEPT ![p] = Q] /\ may' = may
      /\ calls' = [calls EXCEPT ![c] = IF P.dial = "ready" THEN E ELSE F]
  BY <1>0 DEF GotDial, Becomes, Now, Fails
<1>2. Q \in PConnType
  BY <1>a, Values DEF PConnType
<1>3. /\ Q.key = P.key /\ Q.dial = "done" /\ Q.reqch = P.reqch /\ Q.rc = P.rc /\ Q.read = P.read /\ Q.closed = P.closed
      /\ Q.resp = P.resp
  BY <1>a DEF PConnType
<1>4. E \in CallType
  BY <1>0, Values DEF CallType
<1>5. F \in CallType
  BY <1>0, Values DEF CallType
<1>6. E.pc = "enter" /\ E.conn = p /\ F.pc = "failed" /\ F.conn = 0 /\ F.canceler = "none"
  BY <1>0 DEF CallType
<1> DEFINE C == IF P.dial = "ready" THEN E ELSE F
           cl == [calls EXCEPT ![c] = C]
           T == Turn(Now, p, Q, cl)
<1>7. C \in CallType /\ (C = E \/ C = F) /\ (P.dial # "ready" => C = F) /\ (P.dial = "ready" => C = E)
  BY <1>4, <1>5
<1> HIDE DEF C, E, F
<1>8. cl \in [Calls -> CallType] /\ cl[c] = C /\ \A d \in Calls : d # c => cl[d] = calls[d]
  BY <1>0, <1>7, CallsUpdate
<1> HIDE DEF cl
<1>9. T.pool = pool /\ T.calls = cl /\ T.conns[p] = Q /\ Len(T.conns) = Len(conns)
  BY <1>0, <1>2, <1>8, TurnNowIs
<1> HIDE DEF T, Q
<1>10. /\ P.reqch = {} /\ P.rc = {} /\ p \notin pool.lru /\ \A d \in Calls : calls[d].conn # p
       /\ P.read \notin {"recycle", "deliver", "error", "body", "eofc"}
  BY <1>0, <1>a, NewConn
<1>11. ~WithBody(Q) /\ (P.dial = "ready" => Users(T, p) = {c}) /\ (P.dial # "ready" => Users(T, p) = {})
  <2>1. \A d \in Calls : Has(T, d, p) <=> d = c /\ P.dial = "ready"
    BY <1>0, <1>3, <1>6, <1>7, <1>8, <1>9, <1>10 DEF Has
  <2> QED BY <1>3, <1>10, <2>1 DEF Users, WithBody
<1>12. OneCall(T, p)
  BY <1>3, <1>9, <1>10, <1>11 DEF OneCall
<1>13. RequestsKept(T, p)
  BY <1>3, <1>9, <1>10, <1>11 DEF RequestsKept
<1>14. Owned(T, p)
  BY <1>0, <1>a, <1>3, <1>9, <1>11 DEF Owned, Kept
<1>15. Confined(Now, T, p)
  <2>1. p \in 0..Len(T.conns) /\ 0 \in 0..Len(T.conns) /\ p # 0
    BY <1>0, <1>9, NowFields
  <2>2. CallRefers(T, c)
    BY <1>6, <1>7, <1>8, <1>9, <2>1 DEF CallRefers
  <2> QED BY <1>0, <1>6, <1>7, <1>8, <1>9, <2>2, ConfinedOne
<1> QED BY <1>0, <1>1, <1>2, <1>3, <1>8, <1>12, <1>13, <1>14, <1>15, TurnStep DEF T, cl, C

\* A call without a connection changes, and no connection is disturbed.
LEMMA FrameTurn ==
  ASSUME Sound(Now), NEW p \in Conns, NEW Q \in PConnType, NEW cl \in [Calls -> CallType], Undisturbed(conns[p], Q),
         pool' = pool, conns' = [conns EXCEPT ![p] = Q], calls' = cl, may' = may, Confined(Now, Turn(Now, p, Q, cl), 0)
  PROVE  Sound(Now)'
<1> DEFINE T == Turn(Now, p, Q, cl)
<1>0. /\ Now \in StateType /\ Listed(Now) /\ Len(Now.conns) <= MaxConns /\ Len(Now.conns) \in Nat
      /\ p \in DOMAIN Now.conns /\ Now.conns[p] = conns[p] /\ DOMAIN Now.conns = 1..Len(Now.conns)
  BY SoundFields, NowFields
<1>1. /\ T \in StateType /\ T.pool = Now.pool /\ T.calls = cl
      /\ DOMAIN T.conns = DOMAIN Now.conns /\ Len(T.conns) = Len(Now.conns) /\ T.conns[p] = Q
      /\ \A q \in DOMAIN Now.conns : q # p => T.conns[q] = Now.conns[q]
  BY <1>0, TurnIs
<1>2. T = [pool |-> pool', conns |-> conns', calls |-> calls']
  BY DEF Turn, Now
<1> HIDE DEF T
<1>3. \A q \in DOMAIN Now.conns : SameConn(Now, T, q) /\ T.conns[q].key = Now.conns[q].key
  BY <1>0, <1>1 DEF SameConn, Undisturbed
<1>4. Listed(T)
  BY <1>0, <1>1, <1>3, ListedSame
<1>5. Len(T.conns) <= MaxConns /\ Len(Now.conns) <= Len(T.conns) /\ 0 \notin DOMAIN T.conns
  BY <1>0, <1>1
<1>6. Confined(Now, T, 0)
  BY DEF T
<1>7. Sound(T)
  BY <1>1, <1>3, <1>4, <1>5, <1>6, ChangeSound
<1> QED BY <1>2, <1>7, StepSound

LEMMA WaitCanceledSound ==
  ASSUME Sound(Now), NEW c \in Calls, WaitCanceled(c)
  PROVE  Sound(Now)'
<1> DEFINE p == calls[c].dial
           Q == [conns[p] EXCEPT !.pending = TRUE]
           C == [calls[c] EXCEPT !.dial = 0, !.pc = "failed", !.err = "canceled", !.canceler = "none"]
           cl == [calls EXCEPT ![c] = C]
           T == Turn(Now, p, Q, cl)
<1>0. /\ calls \in [Calls -> CallType] /\ calls[c] \in CallType /\ calls[c].pc = "wait" /\ calls[c].conn = 0
      /\ p \in Conns /\ p \in DOMAIN conns /\ p \in Nat
      /\ Now.calls = calls /\ Now.pool = pool /\ Now.conns = conns
  <2>1. calls[c].pc = "wait"
    BY DEF WaitCanceled
  <2>2. CallRefers(Now, c) /\ Conns = 1..Len(conns) /\ Now.calls = calls /\ Now.conns = conns
    BY NowFields
  <2> QED BY <2>1, <2>2, NowFields DEF CallRefers
<1>1. conns[p] \in PConnType
  BY <1>0, NowFields
<1>2. pool' = pool /\ conns' = [conns EXCEPT ![p] = Q] /\ may' = may /\ calls' = cl
  BY <1>0 DEF WaitCanceled, Becomes, Now, Fails, HandlePendingDial
<1>3. Q \in PConnType /\ Undisturbed(conns[p], Q)
  <2>1. Lighter(conns[p], Q) /\ Q \in PConnType
    BY <1>1, LighterPending
  <2> QED BY <2>1 DEF Lighter, SameWork, Undisturbed
<1>4. C \in CallType
  BY <1>0, Values DEF CallType
<1>5. C.pc = "failed" /\ C.conn = 0 /\ C.canceler = "none"
  BY <1>0 DEF CallType
<1> HIDE DEF C, Q
<1>6. cl \in [Calls -> CallType] /\ cl[c] = C /\ \A d \in Calls : d # c => cl[d] = calls[d]
  BY <1>0, <1>4, CallsUpdate
<1> HIDE DEF cl
<1>7. T.calls = cl /\ Len(T.conns) = Len(conns) /\ Len(conns) \in Nat
  BY <1>0, <1>3, <1>6, TurnNowIs, NowFields
<1> HIDE DEF T
<1>8. CallRefers(T, c)
  BY <1>5, <1>6, <1>7 DEF CallRefers
<1>9. Confined(Now, T, 0)
  BY <1>0, <1>5, <1>6, <1>7, <1>8, ConfinedOne
<1> QED BY <1>0, <1>2, <1>3, <1>6, <1>9, FrameTurn DEF T

\* The call that has a connection, before its request is sent.
LEMMA Lonely ==
  ASSUME NEW S, Sound(S), NEW c \in Calls, S.calls[c].pc \in {"enter", "send"}
  PROVE  LET p == S.calls[c].conn P == S.conns[p] IN
         /\ p \in DOMAIN S.conns /\ Users(S, p) = {c} /\ c \notin P.rc /\ P.reqch = {}
         /\ P.dial = "done" /\ p \notin S.pool.lru /\ P.read \notin {"body", "recycle"} /\ ~WithBody(P)
         /\ P.closed = "no" => P.read \notin {"none", "error"}
<1> DEFINE p == S.calls[c].conn P == S.conns[p]
<1>1. p \in DOMAIN S.conns
  BY SoundFields DEF CallRefers
<1>2. Kept(S, p) /\ P \in PConnType
  BY <1>1, SoundFields
<1>3. P.rc \in SUBSET Calls /\ P.reqch \in SUBSET Calls
  BY <1>2 DEF PConnType
<1> HIDE DEF p
<1>4. S.calls[c].conn = p
  BY DEF p
<1>5. c \notin P.rc /\ c \notin P.reqch
  BY <1>2, <1>3, <1>4 DEF Kept, RequestsKept
<1>6. Has(S, c, p)
  BY <1>4, <1>5 DEF Has
<1>7. Users(S, p) = {c}
  BY <1>2, <1>6 DEF Users, Kept, OneCall
<1>8. P.reqch = {} /\ P.dial = "done" /\ p \notin S.pool.lru /\ P.read \notin {"body", "recycle"} /\ ~WithBody(P)
  BY <1>2, <1>3, <1>5, <1>7 DEF Kept, OneCall, RequestsKept
<1>9. P.closed = "no" => P.read # "none"
  BY <1>2, <1>8 DEF Kept, Owned
<1>10. ASSUME P.closed = "no", P.read = "error" PROVE FALSE
  <2>1. PICK d \in P.rc : S.calls[d].conn = p /\ S.calls[d].pc = "sent"
    BY <1>2, <1>10 DEF Kept, RequestsKept
  <2>2. d \in Calls /\ Has(S, d, p)
    BY <1>3, <1>10, <2>1 DEF Has
  <2> QED BY <1>5, <1>7, <2>1, <2>2 DEF Users
<1> QED BY <1>1, <1>5, <1>7, <1>8, <1>9, <1>10 DEF p

\* What a call that has a connection says of it.
LEMMA CallFields ==
  ASSUME Sound(Now), NEW c \in Calls
  PROVE  /\ calls \in [Calls -> CallType] /\ calls[c] \in CallType /\ Now.calls = calls /\ Now.pool = pool /\ Now.conns = conns
         /\ calls[c].pc \in {"enter", "send", "sent", "body", "eofwait"} =>
              /\ calls[c].conn \in Conns /\ calls[c].conn \in DOMAIN conns /\ conns[calls[c].conn] \in PConnType
              /\ Kept(Now, calls[c].conn) /\ calls[c].conn \in 0..Len(conns) /\ calls[c].conn # 0
<1>1. CallRefers(Now, c) /\ Conns = 1..Len(conns) /\ Conns = DOMAIN conns /\ Len(conns) \in Nat /\ Now.conns = conns /\ Now.calls = calls
  BY NowFields
<1>2. ASSUME calls[c].pc \in {"enter", "send", "sent", "body", "eofwait"} PROVE calls[c].conn \in Conns
  <2>1. calls[c].conn \in 0..Len(conns) /\ calls[c].conn # 0
    BY <1>1, <1>2 DEF CallRefers
  <2> QED BY <1>1, <2>1
<1> QED BY <1>1, <1>2, NowFields

LEMMA EntersSound ==
  ASSUME Sound(Now), NEW c \in Calls, EnterRoundTrip(c), calls[c].canceler # "none"
  PROVE  Sound(Now)'
<1> DEFINE p == calls[c].conn
           P == conns[p]
           n == P.expected + 1
           Q == [P EXCEPT !.expected = n]
           C == [calls[c] EXCEPT !.canceler = "conn", !.pc = "send"]
           cl == [calls EXCEPT ![c] = C]
           T == Turn(Now, p, Q, cl)
<1>0. calls[c].pc = "enter"
  BY DEF EnterRoundTrip
<1>1. /\ calls \in [Calls -> CallType] /\ calls[c] \in CallType /\ Now.calls = calls /\ Now.pool = pool /\ Now.conns = conns
      /\ p \in Conns /\ p \in DOMAIN conns /\ P \in PConnType /\ Kept(Now, p) /\ p \in 0..Len(conns) /\ p # 0
  BY <1>0, CallFields
<1>2. pool' = pool /\ conns' = [conns EXCEPT ![p] = Q] /\ may' = may /\ calls' = cl
  BY <1>0, <1>1 DEF EnterRoundTrip, Becomes, Now
<1>3. n \in Nat
  BY <1>1 DEF PConnType
<1>b. P \in PConnType
  BY <1>1
<1> HIDE DEF n, P
<1>4. Q \in PConnType
  BY <1>b, <1>3 DEF PConnType
<1> USE DEF P
<1>5. Undisturbed(P, Q) /\ Q.key = P.key
  BY <1>1 DEF PConnType, Undisturbed
<1>6. C \in CallType
  BY <1>1, Values DEF CallType
<1>7. C.pc = "send" /\ C.conn = p
  BY <1>1 DEF CallType
<1> HIDE DEF C, Q
<1>8. cl \in [Calls -> CallType] /\ cl[c] = C /\ \A d \in Calls : d # c => cl[d] = calls[d]
  BY <1>1, <1>6, CallsUpdate
<1> HIDE DEF cl
<1>9. T.pool = pool /\ T.calls = cl /\ T.conns[p] = Q /\ Len(T.conns) = Len(conns)
  BY <1>1, <1>4, <1>8, TurnNowIs
<1>10. /\ Users(Now, p) = {c} /\ c \notin P.rc /\ P.reqch = {} /\ P.dial = "done" /\ p \notin pool.lru
       /\ P.read \notin {"body", "recycle"} /\ ~WithBody(P)
  BY <1>0, <1>1, Lonely
<1> HIDE DEF T, p
<1>11. Users(T, p) = Users(Now, p) /\ (WithBody(Q) <=> WithBody(P)) /\ (LeftToOthers(Q) <=> LeftToOthers(P))
  <2>1. \A d \in Calls : Has(T, d, p) <=> Has(Now, d, p)
    BY <1>0, <1>1, <1>5, <1>7, <1>8, <1>9 DEF Has, Undisturbed, p
  <2> QED BY <1>5, <2>1 DEF Users, WithBody, LeftToOthers, Undisturbed
<1>12. OneCall(T, p)
  BY <1>5, <1>9, <1>10, <1>11 DEF OneCall, Undisturbed
<1>13. RequestsKept(T, p)
  <2>1. \A d \in P.rc : d \in Calls /\ T.calls[d] = calls[d]
    BY <1>1, <1>8, <1>9, <1>10 DEF PConnType
  <2>2. RequestsKept(Now, p) /\ Now.conns[p] = P
    BY <1>1 DEF Kept
  <2> HIDE DEF P
  <2> QED BY <2>2, <1>1, <1>5, <1>8, <1>9, <1>10, <1>11, <2>1 DEF RequestsKept, Kept, Undisturbed
<1>14. Owned(T, p)
  BY <1>1, <1>5, <1>9, <1>10, <1>11 DEF Owned, Kept, Undisturbed
<1>15. CallRefers(T, c)
  BY <1>1, <1>7, <1>8, <1>9 DEF CallRefers
<1>16. Confined(Now, T, p)
  BY <1>1, <1>7, <1>8, <1>9, <1>15, ConfinedOne DEF p
<1> QED BY <1>1, <1>2, <1>4, <1>5, <1>8, <1>12, <1>13, <1>14, <1>16, TurnStep DEF T

LEMMA SendRequestSound ==
  ASSUME Sound(Now), NEW c \in Calls, SendRequest(c)
  PROVE  Sound(Now)'
<1> DEFINE p == calls[c].conn
           P == conns[p]
           n == P.nwrite
           Q == [P EXCEPT !.writech = {c}, !.reqch = {c}]
           C == [calls[c] EXCEPT !.pc = "sent", !.start = n, !.wrote = FALSE, !.wch = "none"]
           cl == [calls EXCEPT ![c] = C]
           T == Turn(Now, p, Q, cl)
<1>0. calls[c].pc = "send"
  BY DEF SendRequest
<1>1. /\ calls \in [Calls -> CallType] /\ calls[c] \in CallType /\ Now.calls = calls /\ Now.pool = pool /\ Now.conns = conns
      /\ p \in Conns /\ p \in DOMAIN conns /\ P \in PConnType /\ Kept(Now, p) /\ p \in 0..Len(conns) /\ p # 0
  BY <1>0, CallFields
<1>2. pool' = pool /\ conns' = [conns EXCEPT ![p] = Q] /\ may' = may /\ calls' = cl
  BY <1>0, <1>1 DEF SendRequest, Becomes, Now
<1>3. n \in Nat /\ {c} \in SUBSET Calls
  BY <1>1 DEF PConnType
<1>b. P \in PConnType
  BY <1>1
<1> HIDE DEF n, P
<1>4. Q \in PConnType
  BY <1>b, <1>3 DEF PConnType
<1> USE DEF P
<1>5. /\ Q.key = P.key /\ Q.dial = P.dial /\ Q.read = P.read /\ Q.rc = P.rc /\ Q.reqch = {c} /\ Q.alive = P.alive
      /\ Q.resp = P.resp /\ Q.closed = P.closed
  BY <1>1 DEF PConnType
<1>6. C \in CallType
  BY <1>1, <1>3, Values DEF CallType
<1>7. C.pc = "sent" /\ C.conn = p
  BY <1>1 DEF CallType
<1> HIDE DEF C, Q
<1>8. cl \in [Calls -> CallType] /\ cl[c] = C /\ \A d \in Calls : d # c => cl[d] = calls[d]
  BY <1>1, <1>6, CallsUpdate
<1> HIDE DEF cl
<1>9. T.pool = pool /\ T.calls = cl /\ T.conns[p] = Q /\ Len(T.conns) = Len(conns)
  BY <1>1, <1>4, <1>8, TurnNowIs
<1>10. /\ Users(Now, p) = {c} /\ c \notin P.rc /\ P.dial = "done" /\ p \notin pool.lru
       /\ P.read \notin {"body", "recycle"} /\ ~WithBody(P)
  BY <1>0, <1>1, Lonely
<1> HIDE DEF T, p
<1>11. Users(T, p) = {c} /\ (WithBody(Q) <=> WithBody(P)) /\ (LeftToOthers(Q) <=> LeftToOthers(P))
  <2>1. \A d \in Calls : Has(T, d, p) <=> Has(Now, d, p)
    BY <1>0, <1>1, <1>5, <1>7, <1>8, <1>9, <1>10 DEF Has, p
  <2> QED BY <1>5, <1>10, <2>1 DEF Users, WithBody, LeftToOthers
<1>12. OneCall(T, p)
  BY <1>5, <1>9, <1>10, <1>11 DEF OneCall
<1>13. RequestsKept(T, p)
  <2>1. \A d \in P.rc : d \in Calls /\ T.calls[d] = calls[d]
    BY <1>1, <1>8, <1>9, <1>10 DEF PConnType
  <2>2. RequestsKept(Now, p) /\ Now.conns[p] = P
    BY <1>1 DEF Kept
  <2> HIDE DEF P
  <2> QED BY <2>2, <1>1, <1>5, <1>7, <1>8, <1>9, <1>10, <1>11, <2>1 DEF RequestsKept, Kept
<1>14. Owned(T, p)
  BY <1>1, <1>5, <1>9, <1>10, <1>11 DEF Owned, Kept
<1>15. CallRefers(T, c)
  BY <1>1, <1>7, <1>8, <1>9 DEF CallRefers
<1>16. Confined(Now, T, p)
  BY <1>1, <1>7, <1>8, <1>9, <1>15, ConfinedOne DEF p
<1> QED BY <1>1, <1>2, <1>4, <1>5, <1>8, <1>12, <1>13, <1>14, <1>16, TurnStep DEF T

\* A call that waits for its response fails, and its connection is closed.
LEMMA CallFails ==
  ASSUME Sound(Now), NEW c \in Calls, calls[c].pc = "sent", NEW err \in Errs, NEW Q \in PConnType,
         Lighter(conns[calls[c].conn], Q), Q.closed # "no",
         pool' = pool, conns' = [conns EXCEPT ![calls[c].conn] = Q], may' = may,
         calls' = [calls EXCEPT ![c] = [calls[c] EXCEPT !.pc = "failed", !.err = err, !.canceler = "none"]]
  PROVE  Sound(Now)'
<1> DEFINE p == calls[c].conn
           P == conns[p]
           C == [calls[c] EXCEPT !.pc = "failed", !.err = err, !.canceler = "none"]
           cl == [calls EXCEPT ![c] = C]
           T == Turn(Now, p, Q, cl)
<1>1. /\ calls \in [Calls -> CallType] /\ calls[c] \in CallType /\ Now.calls = calls /\ Now.pool = pool /\ Now.conns = conns
      /\ p \in Conns /\ p \in DOMAIN conns /\ P \in PConnType /\ Kept(Now, p) /\ p \in 0..Len(conns) /\ p # 0
  BY CallFields
<1>2. /\ Q.key = P.key /\ Q.dial = P.dial /\ Q.read = P.read /\ Q.rc = P.rc /\ Q.reqch = P.reqch /\ Q.alive = P.alive
      /\ Q.resp = P.resp
  BY DEF Lighter, SameWork
<1>3. C \in CallType
  BY <1>1, Values DEF CallType
<1>4. C.pc = "failed" /\ C.conn = p /\ C.canceler = "none"
  BY <1>1 DEF CallType
<1>5. pool' = pool /\ conns' = [conns EXCEPT ![p] = Q] /\ may' = may /\ calls' = cl
  OBVIOUS
<1> HIDE DEF C
<1>6. cl \in [Calls -> CallType] /\ cl[c] = C /\ \A d \in Calls : d # c => cl[d] = calls[d]
  BY <1>1, <1>3, CallsUpdate
<1> HIDE DEF cl
<1>7. T.pool = pool /\ T.calls = cl /\ T.conns[p] = Q /\ Len(T.conns) = Len(conns)
  BY <1>1, <1>6, TurnNowIs
<1>8. calls[c].conn = p
  OBVIOUS
<1> HIDE DEF T, p
<1>9. P.rc \in SUBSET Calls /\ P.reqch \in SUBSET Calls /\ Now.conns[p] = P /\ RequestsKept(Now, p) /\ OneCall(Now, p)
  BY <1>1 DEF PConnType, Kept
<1> HIDE DEF P
<1>10. Users(T, p) = Users(Now, p) \ {c} /\ (WithBody(Q) <=> WithBody(P))
  <2>1. \A d \in Calls : Has(T, d, p) <=> Has(Now, d, p) /\ d # c
    BY <1>1, <1>2, <1>4, <1>6, <1>7, <1>9 DEF Has
  <2> QED BY <1>2, <2>1 DEF Users, WithBody
<1>11. OneCall(T, p)
  BY <1>2, <1>7, <1>9, <1>10, <1>1 DEF OneCall
<1>12. P.read \in {"body", "eofc"} => c \notin P.rc
  BY <1>1, <1>9 DEF RequestsKept
<1>13. P.dial = "done"
  BY <1>1, <1>8, <1>9 DEF RequestsKept
<1>14. \A d \in Calls : d # c => T.calls[d] = Now.calls[d]
  BY <1>1, <1>6, <1>7
<1>15. RequestsKept(T, p)
  BY <1>1, <1>2, <1>4, <1>6, <1>7, <1>9, <1>10, <1>12, <1>13, <1>14 DEF RequestsKept
<1>16. Owned(T, p)
  BY <1>7 DEF Owned
<1>17. CallRefers(T, c)
  BY <1>1, <1>4, <1>6, <1>7 DEF CallRefers
<1>18. Confined(Now, T, p)
  BY <1>1, <1>4, <1>6, <1>7, <1>8, <1>14, <1>17, ConfinedOne
<1> QED BY ZenonT(60), <1>1, <1>2, <1>5, <1>6, <1>11, <1>15, <1>16, <1>18, TurnStep DEF T, P

LEMMA SeesWriteSound ==
  ASSUME Sound(Now), NEW c \in Calls, SeesWrite(c)
  PROVE  Sound(Now)'
<1> DEFINE p == calls[c].conn
           P == conns[p]
           err == calls[c].wch
           e == IF P.canceled THEN "canceled" ELSE err
           Q == Closed(P, "other")
<1>0. calls[c].pc = "sent" /\ err # "none"
  BY DEF SeesWrite, OnWire
<1>1. /\ calls \in [Calls -> CallType] /\ calls[c] \in CallType /\ Now.calls = calls /\ Now.pool = pool /\ Now.conns = conns
      /\ p \in Conns /\ p \in DOMAIN conns /\ P \in PConnType
  BY <1>0, CallFields
<1>2. CASE err = "nil"
  <2> DEFINE C == [calls[c] EXCEPT !.wrote = TRUE]
  <2>1. pool' = pool /\ conns' = conns /\ calls' = [calls EXCEPT ![c] = C] /\ may' = may
    BY <1>1, <1>2 DEF SeesWrite, Becomes, Now
  <2>2. C \in CallType
    BY <1>1 DEF CallType
  <2>3. SameCall(calls[c], C)
    BY <1>1 DEF SameCall, CallType
  <2> HIDE DEF C
  <2>4. Sound([pool |-> pool, conns |-> conns, calls |-> [calls EXCEPT ![c] = C]])
    BY <1>1, <2>2, <2>3, CallFrameSound
  <2> QED BY <2>1, <2>4, StepSound
<1>3. CASE err # "nil"
  <2>1. /\ pool' = pool /\ conns' = [conns EXCEPT ![p] = Q] /\ may' = may
        /\ calls' = [calls EXCEPT ![c] = [calls[c] EXCEPT !.pc = "failed", !.err = e, !.canceler = "none"]]
    BY <1>1, <1>3 DEF SeesWrite, Becomes, Now, ClosePC, Fails
  <2>2. e \in Errs
    BY <1>0, <1>1, <1>3 DEF CallType, Errs, WriteErrs
  <2>3. Q \in PConnType /\ Lighter(P, Q) /\ Q.closed # "no"
    BY <1>1, ClosedIs
  <2> HIDE DEF Q, e
  <2> QED BY <1>0, <2>1, <2>2, <2>3, CallFails
<1> QED BY <1>2, <1>3

LEMMA SeesClosedSound ==
  ASSUME Sound(Now), NEW c \in Calls, SeesClosed(c)
  PROVE  Sound(Now)'
<1> DEFINE p == calls[c].conn
           P == conns[p]
           e == IF P.canceled THEN "canceled"
                ELSE IF P.closed \in {"closedIdle", "readErr"} THEN P.closed
                ELSE IF NothingWritten(c, p) THEN "nothing" ELSE "broken"
<1>0. calls[c].pc = "sent" /\ P.closed # "no"
  BY DEF SeesClosed, OnWire
<1>1. /\ calls \in [Calls -> CallType] /\ calls[c] \in CallType /\ conns \in Seq(PConnType)
      /\ p \in DOMAIN conns /\ P \in PConnType
  BY <1>0, CallFields, NowFields
<1>2. /\ pool' = pool /\ conns' = conns /\ may' = may
      /\ calls' = [calls EXCEPT ![c] = [calls[c] EXCEPT !.pc = "failed", !.err = e, !.canceler = "none"]]
  BY <1>1 DEF SeesClosed, Becomes, Now, Fails
<1>3. e \in Errs
  BY Values
<1>4. conns' = [conns EXCEPT ![p] = P]
  BY <1>1, <1>2
<1> HIDE DEF e
<1> QED BY <1>0, <1>1, <1>2, <1>3, <1>4, LighterSelf, CallFails

LEMMA HeaderTimeoutSound ==
  ASSUME Sound(Now), NEW c \in Calls, HeaderTimeout(c)
  PROVE  Sound(Now)'
<1> DEFINE p == calls[c].conn
           Q == Closed(conns[p], "other")
<1>0. calls[c].pc = "sent"
  BY DEF HeaderTimeout, OnWire
<1>1. calls \in [Calls -> CallType] /\ calls[c] \in CallType /\ p \in DOMAIN conns /\ conns[p] \in PConnType
  BY <1>0, CallFields
<1>2. /\ pool' = pool /\ conns' = [conns EXCEPT ![p] = Q] /\ may' = may
      /\ calls' = [calls EXCEPT ![c] = [calls[c] EXCEPT !.pc = "failed", !.err = "timeout", !.canceler = "none"]]
  BY <1>1 DEF HeaderTimeout, Becomes, Now, ClosePC, Fails
<1>3. Q \in PConnType /\ Lighter(conns[p], Q) /\ Q.closed # "no"
  BY <1>1, ClosedIs
<1>4. "timeout" \in Errs
  BY Values
<1> HIDE DEF Q
<1> QED BY <1>0, <1>2, <1>3, <1>4, CallFails

\* A call that is over, or waits no longer: its connection does not notice.
LEMMA CallLeaves ==
  ASSUME Sound(Now), NEW c \in Calls, NEW C \in CallType, calls[c].pc \in {"failed", "body"}, NEW p, p = calls[c].conn,
         \/ C.conn = p /\ calls[c].pc = "body" /\ C.pc \in {"eofwait", "returned"}
         \/ C.conn = 0 /\ calls[c].pc = "failed" /\ C.pc \in {"retry", "returned"},
         C.canceler = calls[c].canceler,
         NEW T \in StateType, T.pool = pool, T.calls = [calls EXCEPT ![c] = C], Len(T.conns) = Len(conns),
         DOMAIN T.conns = DOMAIN conns, \A q \in DOMAIN conns : Undisturbed(conns[q], T.conns[q])
  PROVE  Sound(T)
<1>1. /\ calls \in [Calls -> CallType] /\ calls[c] \in CallType /\ Now.calls = calls /\ Now.pool = pool /\ Now.conns = conns
      /\ conns \in Seq(PConnType) /\ Now \in StateType /\ Listed(Now) /\ Conns = DOMAIN conns /\ Conns = 1..Len(conns)
      /\ Len(conns) \in Nat /\ Len(conns) <= MaxConns /\ CallRefers(Now, c)
  BY CallFields, NowFields, SoundFields
<1>2. T.calls[c] = C /\ \A d \in Calls : d # c => T.calls[d] = calls[d]
  BY <1>1
<1>4. p \in 0..Len(conns) /\ (calls[c].pc = "body" => p # 0)
  BY <1>1 DEF CallRefers
<1>5. \A q \in DOMAIN conns : T.conns[q].key = conns[q].key
  BY DEF Undisturbed
<1>6. Listed(T)
  BY <1>1, <1>5, ListedSame
<1>7. CallRefers(T, c)
  BY <1>1, <1>2, <1>4 DEF CallRefers
<1>8. Confined(Now, T, p)
  BY <1>1, <1>2, <1>7, ConfinedOne
<1>9. \A q \in DOMAIN T.conns : q # p => q \in DOMAIN Now.conns /\ SameConn(Now, T, q)
  BY <1>1 DEF SameConn, Undisturbed
<1>10. ASSUME p \in Conns PROVE Kept(T, p)
  <2> DEFINE P == conns[p] Q == T.conns[p]
  <2>1. /\ P \in PConnType /\ Now.conns[p] = P /\ OneCall(Now, p) /\ RequestsKept(Now, p) /\ Owned(Now, p)
        /\ P.rc \in SUBSET Calls /\ P.reqch \in SUBSET Calls
    <3>1. P \in PConnType /\ Kept(Now, p)
      BY <1>10, NowFields
    <3>2. P.rc \in SUBSET Calls /\ P.reqch \in SUBSET Calls
      BY <3>1 DEF PConnType
    <3> QED BY <1>1, <3>1, <3>2 DEF Kept
  <2> HIDE DEF P
  <2>2. /\ Q.dial = P.dial /\ Q.read = P.read /\ Q.rc = P.rc /\ Q.reqch = P.reqch /\ Q.alive = P.alive
        /\ Q.resp = P.resp /\ (Q.closed = P.closed \/ Q.closed # "no") /\ T.conns[p] = Q
    BY <1>1, <1>10 DEF Undisturbed, P
  <2>3. Users(T, p) = Users(Now, p) /\ (WithBody(Q) <=> WithBody(P)) /\ (LeftToOthers(Q) <=> LeftToOthers(P))
    <3>1. \A d \in Calls : Has(T, d, p) <=> Has(Now, d, p)
      BY <1>1, <1>2, <2>1, <2>2 DEF Has
    <3> QED BY <2>2, <3>1 DEF Users, WithBody, LeftToOthers
  <2>4. OneCall(T, p)
    BY <1>1, <2>1, <2>2, <2>3 DEF OneCall
  <2>5. P.dial = "done"
    BY <1>1, <2>1 DEF RequestsKept
  <2>6. RequestsKept(T, p)
    <3>1. \A d \in P.reqch \cup P.rc :
            /\ d \in Calls /\ (d # c => T.calls[d] = calls[d])
            /\ d = c => T.calls[d].pc \in {"retry", "eofwait", "returned"} /\ (T.calls[d].conn = p => calls[d].pc = "body")
      <4>1. p # 0
        BY <1>1, <1>10
      <4> QED BY <1>2, <2>1, <4>1
    <3>2. \A d \in P.reqch :
            /\ Users(T, p) \subseteq {d} /\ d \notin P.rc
            /\ T.calls[d].conn = p => T.calls[d].pc \notin {"enter", "send"}
            /\ P.closed = "no" => T.calls[d].conn = p /\ T.calls[d].pc = "sent"
      BY <1>1, <2>1, <2>3, <3>1 DEF RequestsKept
    <3>3. \A d \in P.rc :
            /\ T.calls[d].conn = p => T.calls[d].pc \notin {"enter", "send"}
            /\ P.closed = "no" /\ P.read \in {"recycle", "deliver", "error"} =>
                 T.calls[d].conn = p /\ T.calls[d].pc = "sent"
            /\ P.read \in {"body", "eofc"} => T.calls[d].conn = p /\ T.calls[d].pc \in {"body", "eofwait", "returned"}
      BY <1>1, <1>2, <2>1, <3>1 DEF RequestsKept
    <3>4. /\ \A x, y \in P.rc : x = y
          /\ P.rc # {} <=> P.read \in {"recycle", "deliver", "error", "body", "eofc"}
          /\ P.read \in {"recycle", "deliver"} => P.resp # {}
          /\ P.read = "recycle" => \A x \in P.rc : ~Req(x).resBody
          /\ p \in pool.lru => P.reqch = {} /\ P.read \notin {"none", "recycle", "error", "body"} /\ ~WithBody(P)
      BY <1>1, <2>1 DEF RequestsKept
    <3>5. T.pool.lru = pool.lru
      OBVIOUS
    <3> HIDE DEF Q
    <3> QED BY SMTT(60), <2>2, <2>3, <2>5, <3>2, <3>3, <3>4, <3>5 DEF RequestsKept
  <2>7. Owned(T, p)
    BY <1>1, <2>1, <2>2, <2>3 DEF Owned
  <2> QED BY <2>4, <2>6, <2>7 DEF Kept
<1> QED BY <1>1, <1>6, <1>8, <1>9, <1>10, ChangeSound

LEMMA UndisturbedSelf == \A P : Undisturbed(P, P)
BY DEF Undisturbed

LEMMA RetrySound ==
  ASSUME Sound(Now), NEW c \in Calls, Retry(c)
  PROVE  Sound(Now)'
<1> DEFINE pc == IF calls[c].conn # 0 /\ ShouldRetryRequest(c, conns[calls[c].conn], calls[c].err) THEN "retry" ELSE "returned"
           C == [calls[c] EXCEPT !.pc = pc, !.conn = 0]
           T == [pool |-> pool, conns |-> conns, calls |-> [calls EXCEPT ![c] = C]]
<1>1. /\ calls \in [Calls -> CallType] /\ calls[c] \in CallType /\ calls[c].pc = "failed"
      /\ pool \in PoolType /\ conns \in Seq(PConnType)
  BY CallFields, NowFields DEF Retry
<1>2. pool' = pool /\ conns' = conns /\ calls' = [calls EXCEPT ![c] = C] /\ may' = may
  BY DEF Retry
<1>3. pc \in {"retry", "returned"} /\ pc \in PCs
  BY Values
<1> HIDE DEF pc
<1>4. C \in CallType
  BY <1>1, <1>3 DEF CallType
<1>5. C.conn = 0 /\ C.pc \in {"retry", "returned"} /\ C.canceler = calls[c].canceler
  BY <1>1, <1>3 DEF CallType
<1> HIDE DEF C
<1>6. [calls EXCEPT ![c] = C] \in [Calls -> CallType]
  BY <1>1, <1>4
<1>7. T \in StateType /\ T.pool = pool /\ T.conns = conns /\ T.calls = [calls EXCEPT ![c] = C]
  BY <1>1, <1>6, StateIs
<1> HIDE DEF T
<1>8. Sound(T)
  BY <1>1, <1>4, <1>5, <1>7, UndisturbedSelf, CallLeaves
<1> QED BY <1>2, <1>8, StepSound DEF T

LEMMA ReadBodySound ==
  ASSUME Sound(Now), NEW c \in Calls, ReadBody(c)
  PROVE  Sound(Now)'
<1> DEFINE p == calls[c].conn
           P == conns[p]
           t == Tail(P.out)
           E == [P EXCEPT !.bodyRead = "early"]
           F == [P EXCEPT !.bodyRead = "eof", !.out = t]
           C(pc) == [calls[c] EXCEPT !.pc = pc]
<1>0. calls[c].pc = "body"
  BY DEF ReadBody
<1>1. /\ calls \in [Calls -> CallType] /\ calls[c] \in CallType /\ conns \in Seq(PConnType) /\ pool \in PoolType
      /\ p \in DOMAIN conns /\ P \in PConnType
  BY <1>0, CallFields, NowFields
<1>2. ASSUME NEW Q \in PConnType, Undisturbed(P, Q), NEW pc \in {"returned", "eofwait"},
             pool' = pool, conns' = [conns EXCEPT ![p] = Q], may' = may, calls' = [calls EXCEPT ![c] = C(pc)]
      PROVE  Sound(Now)'
  <2> DEFINE D == C(pc)
             cl == [calls EXCEPT ![c] = D]
             T == Turn(Now, p, Q, cl)
  <2>1. D \in CallType
    BY <1>1, Values DEF CallType
  <2>2. D.pc = pc /\ D.conn = p /\ D.canceler = calls[c].canceler
    BY <1>1 DEF CallType
  <2>3. calls' = cl
    BY <1>2
  <2> HIDE DEF D
  <2>4. cl \in [Calls -> CallType]
    BY <1>1, <2>1
  <2> HIDE DEF cl
  <2>5. Now \in StateType /\ Now.conns = conns /\ Now.pool = pool /\ p \in DOMAIN Now.conns
    BY <1>1, NowFields, SoundFields
  <2>6. T = [pool |-> pool', conns |-> conns', calls |-> calls']
    BY <1>2, <2>3 DEF Turn, Now
  <2> HIDE DEF p
  <2>7. /\ T \in StateType /\ T.pool = Now.pool /\ T.calls = cl
        /\ DOMAIN T.conns = DOMAIN Now.conns /\ Len(T.conns) = Len(Now.conns) /\ T.conns[p] = Q
        /\ \A q \in DOMAIN Now.conns : q # p => T.conns[q] = Now.conns[q]
    BY <2>4, <2>5, TurnIs
  <2> HIDE DEF T
  <2>8. \A q \in DOMAIN conns : Undisturbed(conns[q], T.conns[q])
    BY <1>2, <2>5, <2>7, UndisturbedSelf
  <2>9. p = calls[c].conn /\ calls[c].pc = "body" /\ D.pc \in {"eofwait", "returned"}
    BY <1>0, <2>2 DEF p
  <2>10. T.calls = [calls EXCEPT ![c] = D]
    BY <2>7 DEF cl
  <2>11. Sound(T)
    <3>1. T.pool = pool /\ Len(T.conns) = Len(conns) /\ DOMAIN T.conns = DOMAIN conns
      BY <2>5, <2>7
    <3>2. /\ calls[c].pc \in {"failed", "body"}
          /\ \/ D.conn = p /\ calls[c].pc = "body" /\ D.pc \in {"eofwait", "returned"}
             \/ D.conn = 0 /\ calls[c].pc = "failed" /\ D.pc \in {"retry", "returned"}
      BY <2>2, <2>9
    <3> QED BY <2>1, <2>2, <2>7, <2>8, <2>9, <2>10, <3>1, <3>2, CallLeaves, Zenon
  <2> QED BY <1>2, <2>6, <2>11, StepSound
<1>3. CASE conns[p].closed # "no" \/ Req(c).reads # "all"
  <2>1. pool' = pool /\ conns' = [conns EXCEPT ![p] = E] /\ may' = may /\ calls' = [calls EXCEPT ![c] = C("returned")]
    BY <1>1, <1>3 DEF ReadBody, Becomes, Now
  <2>2. E \in PConnType
    BY <1>1, Values DEF PConnType
  <2>3. Undisturbed(P, E)
    BY <1>1 DEF PConnType, Undisturbed
  <2> HIDE DEF E
  <2> QED BY <1>2, <2>1, <2>2, <2>3
<1>4. CASE ~(conns[p].closed # "no" \/ Req(c).reads # "all")
  <2>1. /\ pool' = pool /\ conns' = [conns EXCEPT ![p] = F] /\ may' = may /\ calls' = [calls EXCEPT ![c] = C("eofwait")]
        /\ P.out # <<>>
    BY <1>1, <1>4 DEF ReadBody, Becomes, Now
  <2>2. t \in Seq(TokenType)
    BY SMTT(40), <1>1, <2>1 DEF PConnType
  <2> HIDE DEF t
  <2>3. F \in PConnType
    BY <1>1, <2>2, Values DEF PConnType
  <2>4. Undisturbed(P, F)
    BY <1>1 DEF PConnType, Undisturbed
  <2> HIDE DEF F
  <2> QED BY <1>2, <2>1, <2>3, <2>4
<1> QED BY <1>3, <1>4

-----------------------------------------------------------------------------
(* The read loop *)

LEMMA ConnFields ==
  ASSUME Sound(Now), NEW p \in Conns
  PROVE  /\ p \in DOMAIN conns /\ conns[p] \in PConnType /\ Now.conns[p] = conns[p] /\ Now.calls = calls /\ Now.pool = pool
         /\ OneCall(Now, p) /\ RequestsKept(Now, p) /\ Owned(Now, p)
         /\ conns[p].rc \in SUBSET Calls /\ conns[p].reqch \in SUBSET Calls /\ calls \in [Calls -> CallType]
         /\ p \in 0..Len(conns) /\ p # 0
<1>1. p \in DOMAIN conns /\ conns[p] \in PConnType /\ Now.conns = conns /\ Now.calls = calls /\ Now.pool = pool /\ Kept(Now, p)
      /\ calls \in [Calls -> CallType] /\ Conns = 1..Len(conns) /\ Len(conns) \in Nat
  BY NowFields
<1>2. p \in 0..Len(conns) /\ p # 0
  BY <1>1
<1> QED BY <1>1, <1>2 DEF Kept, PConnType

LEMMA PeekUnexpectedSound ==
  ASSUME Sound(Now), NEW p \in Conns, PeekUnexpected(p)
  PROVE  Sound(Now)'
<1> DEFINE P == conns[p]
           err == IF ~HasData(P) /\ P.closed = "no" THEN "closedIdle" ELSE "other"
           R == Closed(P, err)
           Q == [R EXCEPT !.read = "exit"]
           T == Turn(Now, p, Q, calls)
<1>0. /\ p \in DOMAIN conns /\ P \in PConnType /\ Now.conns[p] = P /\ Now.calls = calls /\ Now.pool = pool
      /\ OneCall(Now, p) /\ RequestsKept(Now, p) /\ P.rc \in SUBSET Calls /\ P.reqch \in SUBSET Calls /\ calls \in [Calls -> CallType]
  BY ConnFields
<1>1. P.read = "peek"
  BY DEF PeekUnexpected
<1>2. pool' = pool /\ conns' = [conns EXCEPT ![p] = Q] /\ may' = may /\ calls' = calls
  BY <1>0 DEF PeekUnexpected, Becomes, Now, ClosePC
<1>3. err \in {"other", "closedIdle", "readErr"}
  OBVIOUS
<1> HIDE DEF err
<1>4. R \in PConnType /\ Lighter(P, R) /\ R.closed # "no"
  BY <1>0, <1>3, ClosedIs
<1> HIDE DEF R
<1>5. Q \in PConnType
  BY <1>4, Values DEF PConnType
<1>6. /\ Q.key = P.key /\ Q.dial = P.dial /\ Q.read = "exit" /\ Q.rc = P.rc /\ Q.reqch = P.reqch /\ Q.closed # "no"
  BY <1>4 DEF Lighter, SameWork, PConnType
<1> HIDE DEF Q, P
<1>7. T.pool = pool /\ T.calls = calls /\ T.conns[p] = Q
  BY <1>0, <1>5, TurnNowIs
<1> HIDE DEF T
<1>8. Users(T, p) = Users(Now, p) /\ ~WithBody(Q) /\ P.rc = {}
  <2>1. \A d \in Calls : Has(T, d, p) <=> Has(Now, d, p)
    BY <1>0, <1>1, <1>6, <1>7 DEF Has
  <2> QED BY <1>0, <1>1, <1>6, <2>1 DEF Users, WithBody, RequestsKept
<1>9. OneCall(T, p)
  BY <1>0, <1>6, <1>7, <1>8 DEF OneCall
<1>10. RequestsKept(T, p)
  BY <1>0, <1>6, <1>7, <1>8 DEF RequestsKept
<1>11. Owned(T, p)
  BY <1>6, <1>7 DEF Owned
<1>12. Confined(Now, T, p)
  BY <1>0, <1>7, SameCallSelf DEF Confined
<1> QED BY <1>0, <1>2, <1>5, <1>6, <1>9, <1>10, <1>11, <1>12, TurnStep DEF T, P

LEMMA EofcSound ==
  ASSUME Sound(Now), NEW p \in Conns, Eofc(p)
  PROVE  Sound(Now)'
<1> DEFINE P == conns[p]
           c == RC(p)
           r == IF P.alive THEN "peek" ELSE "exit"
           pc == IF calls[c].pc = "eofwait" THEN "returned" ELSE calls[c].pc
           Q == [P EXCEPT !.read = r, !.rc = {}]
           C == [calls[c] EXCEPT !.pc = pc]
           cl == [calls EXCEPT ![c] = C]
           T == Turn(Now, p, Q, cl)
<1>0. /\ p \in DOMAIN conns /\ P \in PConnType /\ Now.conns[p] = P /\ Now.calls = calls /\ Now.pool = pool
      /\ OneCall(Now, p) /\ RequestsKept(Now, p) /\ Owned(Now, p)
      /\ P.rc \in SUBSET Calls /\ P.reqch \in SUBSET Calls /\ calls \in [Calls -> CallType]
      /\ p \in 0..Len(conns) /\ p # 0
  BY ConnFields
<1>1. P.read = "eofc"
  BY DEF Eofc
<1>2. c \in P.rc /\ c \in Calls /\ calls[c].conn = p /\ calls[c].pc \in {"body", "eofwait", "returned"}
  <2>1. P.rc # {}
    BY <1>0, <1>1 DEF RequestsKept
  <2>2. c \in P.rc
    BY <2>1 DEF RC
  <2> QED BY <1>0, <1>1, <2>2 DEF RequestsKept
<1>3. pool' = pool /\ conns' = [conns EXCEPT ![p] = Q] /\ may' = may /\ calls' = cl
  BY <1>0, <1>2 DEF Eofc, Becomes, Now
<1>4. calls[c] \in CallType /\ pc \in {"body", "eofwait", "returned"} /\ pc \in PCs /\ r \in Reads /\ r \in {"peek", "exit"}
      /\ (r = "peek" => P.alive)
  BY <1>0, <1>2, Values
<1> HIDE DEF r, pc, c
<1>5. Q \in PConnType
  BY <1>0, <1>4, Values DEF PConnType
<1>6. /\ Q.key = P.key /\ Q.dial = P.dial /\ Q.read = r /\ Q.rc = {} /\ Q.reqch = P.reqch /\ Q.closed = P.closed /\ Q.alive = P.alive
  BY <1>0 DEF PConnType
<1>7. C \in CallType
  BY <1>4 DEF CallType
<1>8. C.pc = pc /\ C.conn = p
  BY <1>2, <1>4 DEF CallType
<1> HIDE DEF C, Q, P
<1>9. cl \in [Calls -> CallType] /\ cl[c] = C /\ \A d \in Calls : d # c => cl[d] = calls[d]
  BY <1>0, <1>2, <1>7, CallsUpdate
<1> HIDE DEF cl
<1>10. T.pool = pool /\ T.calls = cl /\ T.conns[p] = Q /\ Len(T.conns) = Len(conns)
  BY <1>0, <1>5, <1>9, TurnNowIs
<1> HIDE DEF T
<1>11. Users(T, p) = Users(Now, p) /\ ~WithBody(Q) /\ P.dial = "done"
  <2>1. \A d \in Calls : Has(T, d, p) <=> Has(Now, d, p)
    BY <1>0, <1>1, <1>2, <1>4, <1>6, <1>8, <1>9, <1>10 DEF Has
  <2> QED BY <1>0, <1>1, <1>2, <1>4, <1>6, <2>1 DEF Users, WithBody, RequestsKept
<1>12. OneCall(T, p)
  BY <1>0, <1>4, <1>6, <1>10, <1>11 DEF OneCall
<1>13. RequestsKept(T, p)
  <2>1. \A d \in P.reqch : d # c /\ d \in Calls /\ T.calls[d] = calls[d]
    BY <1>0, <1>2, <1>9, <1>10 DEF RequestsKept
  <2> QED BY <1>0, <1>1, <1>4, <1>6, <1>10, <1>11, <2>1 DEF RequestsKept
<1>14. Owned(T, p)
  BY <1>0, <1>1, <1>4, <1>6, <1>10, <1>11 DEF Owned, LeftToOthers
<1>15. CallRefers(T, c)
  <2>1. CallRefers(Now, c)
    BY <1>2, NowFields
  <2> QED BY <1>0, <1>4, <1>8, <1>9, <1>10, <2>1 DEF CallRefers
<1>16. Confined(Now, T, p)
  BY <1>0, <1>2, <1>8, <1>9, <1>10, <1>15, ConfinedOne
<1> QED BY <1>0, <1>3, <1>5, <1>6, <1>9, <1>12, <1>13, <1>14, <1>16, TurnStep DEF T, P

\* The request whose response, or error, the read loop has: it goes from reqch to rc.
LEMMA RequestRead ==
  ASSUME Sound(Now), NEW p \in Conns, NEW c \in conns[p].reqch, conns[p].read = "peek", NEW Q \in PConnType,
         Q.key = conns[p].key, Q.dial = conns[p].dial, Q.closed = conns[p].closed, Q.reqch = {}, Q.rc = {c},
         \/ Q.read = "deliver" /\ Req(c).resBody
         \/ Q.read = "recycle" /\ ~Req(c).resBody
         \/ Q.read = "error",
         Q.read = "error" \/ Q.resp # {},
         NEW C \in CallType, SameCall(calls[c], C),
         pool' = pool, conns' = [conns EXCEPT ![p] = Q], may' = may, calls' = [calls EXCEPT ![c] = C]
  PROVE  Sound(Now)'
<1> DEFINE P == conns[p]
           cl == [calls EXCEPT ![c] = C]
           T == Turn(Now, p, Q, cl)
<1>0. /\ p \in DOMAIN conns /\ P \in PConnType /\ Now.conns[p] = P /\ Now.calls = calls /\ Now.pool = pool
      /\ OneCall(Now, p) /\ RequestsKept(Now, p) /\ Owned(Now, p) /\ c \in Calls /\ calls \in [Calls -> CallType]
      /\ p \in 0..Len(conns) /\ p # 0
  BY ConnFields
<1>1. cl \in [Calls -> CallType] /\ cl[c] = C /\ \A d \in Calls : d # c => cl[d] = calls[d]
  BY <1>0, CallsUpdate
<1>2. calls' = cl
  OBVIOUS
<1> HIDE DEF cl
<1>3. T.pool = pool /\ T.calls = cl /\ T.conns[p] = Q /\ Len(T.conns) = Len(conns)
  BY <1>0, <1>1, TurnNowIs
<1> HIDE DEF T
<1>4. \A d \in Calls : SameCall(calls[d], T.calls[d])
  BY <1>1, <1>3, SameCallSelf
<1>5. /\ Users(Now, p) \subseteq {c} /\ P.dial = "done" /\ p \notin pool.lru
      /\ calls[c].conn = p => calls[c].pc \notin {"enter", "send"}
      /\ P.closed = "no" => calls[c].conn = p /\ calls[c].pc = "sent"
  BY <1>0 DEF RequestsKept
<1>6. Users(T, p) \subseteq {c} /\ (Q.read = "deliver" => Users(T, p) = {})
  <2>1. \A d \in Calls : Has(T, d, p) => Has(Now, d, p) /\ ~(Q.read = "deliver" /\ d = c)
    BY <1>0, <1>3, <1>4 DEF Has, SameCall
  <2> QED BY <1>5, <2>1 DEF Users
<1>7. OneCall(T, p)
  BY <1>3, <1>5, <1>6 DEF OneCall, WithBody
<1>8. RequestsKept(T, p)
  <2>1. T.calls[c].conn = calls[c].conn /\ T.calls[c].pc = calls[c].pc
    BY <1>0, <1>4 DEF SameCall
  <2> QED BY <1>3, <1>5, <1>6, <2>1 DEF RequestsKept, WithBody
<1>9. Owned(T, p)
  BY <1>0, <1>3, <1>5 DEF Owned, LeftToOthers, WithBody
<1>10. Confined(Now, T, p)
  BY <1>0, <1>4 DEF Confined
<1> QED BY <1>0, <1>1, <1>2, <1>7, <1>8, <1>9, <1>10, TurnStep DEF T

LEMMA ReadResponseSound ==
  ASSUME Sound(Now), NEW p \in Conns, ReadResponse(p)
  PROVE  Sound(Now)'
<1> DEFINE P == conns[p]
           c == CHOOSE x \in P.reqch : TRUE
           R == [P EXCEPT !.reqch = {}, !.rc = {c}]
           C == [calls[c] EXCEPT !.canceler = "none"]
<1>0. p \in DOMAIN conns /\ P \in PConnType /\ P.reqch \in SUBSET Calls /\ calls \in [Calls -> CallType]
  BY ConnFields
<1>1. P.read = "peek" /\ c \in P.reqch /\ c \in Calls /\ P.expected > 0 /\ calls[c] \in CallType
  BY <1>0 DEF ReadResponse
<1>2. {c} \in SUBSET Calls
  BY <1>1
<1>3. ReadResponse(p) =>
        \/ /\ HasData(P)
           /\ Becomes(WithConn(Now, p, [TakeResponse(R) EXCEPT !.read = IF Req(c).resBody THEN "deliver" ELSE "recycle"]))
        \/ /\ ~HasData(P) \/ P.closed # "no"
           /\ LET U == WithConn(Now, p, [R EXCEPT !.closeErr = "readErr", !.read = "error"]) IN
              Becomes(IF ShouldRetryRequest(c, P, "readErr") THEN U ELSE NoCanceler(U, c))
  BY DEF ReadResponse
<1> HIDE DEF c
<1>4. R \in PConnType
  BY <1>0, <1>2, Values DEF PConnType
<1>5. R.key = P.key /\ R.dial = P.dial /\ R.closed = P.closed /\ R.reqch = {} /\ R.rc = {c} /\ R.out = P.out /\ R.expected = P.expected
  BY <1>0 DEF PConnType
<1> HIDE DEF R, P
<1>6. ASSUME HasData(P),
             Becomes(WithConn(Now, p, [TakeResponse(R) EXCEPT !.read = IF Req(c).resBody THEN "deliver" ELSE "recycle"]))
      PROVE  Sound(Now)'
  <2> DEFINE t == Tail(R.out)
             e == R.expected - 1
             h == Head(R.out)
             rs == {h}
             a == ~h.close
             r == IF Req(c).resBody THEN "deliver" ELSE "recycle"
             Q == [R EXCEPT !.out = t, !.expected = e, !.resp = rs, !.alive = a, !.read = r]
  <2>1. /\ pool' = pool /\ conns' = [conns EXCEPT ![p] = Q] /\ may' = may /\ calls' = calls
    BY <1>0, <1>6 DEF Becomes, Now, WithConn, TakeResponse
  <2>2. R.out \in Seq(TokenType) /\ R.expected \in Nat /\ R.out # <<>> /\ R.expected > 0
    BY <1>1, <1>4, <1>5, <1>6 DEF PConnType, HasData
  <2>3. t \in Seq(TokenType) /\ h \in TokenType /\ e \in Nat
    BY <2>2
  <2>4. rs \in SUBSET TokenType /\ rs # {} /\ a \in BOOLEAN /\ r \in Reads
    BY <2>3, Values
  <2>5. (r = "deliver" /\ Req(c).resBody) \/ (r = "recycle" /\ ~Req(c).resBody)
    OBVIOUS
  <2> HIDE DEF t, e, rs, a, r
  <2>6. Q \in PConnType
    BY <1>4, <2>3, <2>4 DEF PConnType
  <2>7. Q.key = P.key /\ Q.dial = P.dial /\ Q.closed = P.closed /\ Q.reqch = {} /\ Q.rc = {c} /\ Q.read = r /\ Q.resp = rs
    BY <1>4, <1>5 DEF PConnType
  <2> HIDE DEF Q
  <2>8. calls' = [calls EXCEPT ![c] = calls[c]]
    BY <1>0, <2>1
  <2> QED BY <1>1, <2>1, <2>4, <2>5, <2>6, <2>7, <2>8, SameCallSelf, RequestRead DEF P
<1>7. ASSUME LET U == WithConn(Now, p, [R EXCEPT !.closeErr = "readErr", !.read = "error"]) IN
             Becomes(IF ShouldRetryRequest(c, P, "readErr") THEN U ELSE NoCanceler(U, c))
      PROVE  Sound(Now)'
  <2> DEFINE Q == [R EXCEPT !.closeErr = "readErr", !.read = "error"]
  <2>1. /\ pool' = pool /\ conns' = [conns EXCEPT ![p] = Q] /\ may' = may
        /\ calls' = [calls EXCEPT ![c] = calls[c]] \/ calls' = [calls EXCEPT ![c] = C]
    BY <1>0, <1>1, <1>7 DEF Becomes, Now, WithConn, NoCanceler
  <2>2. Q \in PConnType
    BY <1>4, Values DEF PConnType
  <2>3. Q.key = P.key /\ Q.dial = P.dial /\ Q.closed = P.closed /\ Q.reqch = {} /\ Q.rc = {c} /\ Q.read = "error"
    BY <1>4, <1>5 DEF PConnType
  <2>4. C \in CallType
    BY <1>1, Values DEF CallType
  <2>5. SameCall(calls[c], C)
    BY <1>1 DEF CallType, SameCall
  <2> HIDE DEF Q, C
  <2> QED BY <1>1, <2>1, <2>2, <2>3, <2>4, <2>5, SameCallSelf, RequestRead DEF P
<1> QED BY <1>3, <1>6, <1>7

\* The response, or the error, is handed over and the read loop goes on without the request.
LEMMA HandedOver ==
  ASSUME Sound(Now), NEW p \in Conns, NEW c \in conns[p].rc, conns[p].read \in {"deliver", "error"}, NEW Q \in PConnType,
         Q.key = conns[p].key, Q.dial = conns[p].dial, Q.closed = conns[p].closed, Q.reqch = conns[p].reqch,
         Q.rc = {}, Q.read = "exit" \/ (Q.read = "peek" /\ conns[p].read = "deliver" /\ conns[p].alive /\ ~Req(c).resBody),
         NEW C \in CallType, C.conn = calls[c].conn,
         \/ C = calls[c] /\ Gone(p, c)
         \/ C.pc = "failed" /\ C.canceler = "none" /\ ~Gone(p, c) /\ conns[p].read = "error"
         \/ C.pc = "returned" /\ C.canceler = calls[c].canceler /\ ~Gone(p, c) /\ conns[p].read = "deliver",
         pool' = pool, conns' = [conns EXCEPT ![p] = Q], may' = may, calls' = [calls EXCEPT ![c] = C]
  PROVE  Sound(Now)'
<1> DEFINE P == conns[p]
           cl == [calls EXCEPT ![c] = C]
           T == Turn(Now, p, Q, cl)
<1>0. /\ p \in DOMAIN conns /\ P \in PConnType /\ Now.conns[p] = P /\ Now.calls = calls /\ Now.pool = pool
      /\ OneCall(Now, p) /\ RequestsKept(Now, p) /\ Owned(Now, p) /\ c \in Calls /\ calls \in [Calls -> CallType]
      /\ p \in 0..Len(conns) /\ p # 0 /\ P.rc \in SUBSET Calls /\ P.reqch \in SUBSET Calls
  BY ConnFields
<1>1. cl \in [Calls -> CallType] /\ cl[c] = C /\ \A d \in Calls : d # c => cl[d] = calls[d]
  BY <1>0, CallsUpdate
<1>2. calls' = cl
  OBVIOUS
<1> HIDE DEF cl
<1>3. T.pool = pool /\ T.calls = cl /\ T.conns[p] = Q /\ Len(T.conns) = Len(conns)
  BY <1>0, <1>1, TurnNowIs
<1> HIDE DEF T
<1>4. /\ calls[c].conn = p => calls[c].pc \notin {"enter", "send"}
      /\ P.closed = "no" => calls[c].conn = p /\ calls[c].pc = "sent"
      /\ P.dial = "done" /\ c \notin P.reqch /\ P.rc = {c}
  <2>1. P.rc = {c}
    BY <1>0 DEF RequestsKept
  <2> QED BY <1>0, <2>1 DEF RequestsKept
<1>5. ~Gone(p, c) => calls[c].conn = p /\ calls[c].pc = "sent"
  BY DEF Gone
<1>6. \A d \in Calls : d # c => T.calls[d] = calls[d]
  BY <1>1, <1>3
<1>7. \A d \in Calls : Has(T, d, p) <=> Has(Now, d, p) /\ d # c
  <2>1. ~Has(T, c, p)
    BY <1>0, <1>1, <1>3, <1>4, <1>5 DEF Has, Gone
  <2>2. ASSUME NEW d \in Calls, d # c PROVE Has(T, d, p) <=> Has(Now, d, p)
    BY <1>0, <1>3, <1>4, <1>6, <2>2 DEF Has
  <2> QED BY <2>1, <2>2
<1>8. Users(T, p) = Users(Now, p) \ {c}
  BY <1>7 DEF Users
<1>9. OneCall(T, p)
  BY <1>0, <1>3, <1>4, <1>8 DEF OneCall, WithBody
<1>10. RequestsKept(T, p)
  <2>1. p \in pool.lru => P.reqch = {}
    BY <1>0 DEF RequestsKept
  <2> QED BY <1>0, <1>3, <1>4, <1>6, <1>8, <2>1 DEF RequestsKept, WithBody
<1>11. Owned(T, p)
  <2>1. SUFFICES ASSUME Q.closed = "no", Q.read = "peek" PROVE p \in pool.lru \/ p \in pool.skipped \/ Users(T, p) # {}
    BY <1>0, <1>3, <1>4 DEF Owned, LeftToOthers
  <2>2. LeftToOthers(P)
    BY <1>4, <2>1 DEF LeftToOthers, WithBody
  <2>3. Users(T, p) = Users(Now, p)
    BY <1>0, <1>4, <1>8, <2>1 DEF Users, Has
  <2> QED BY <1>0, <1>4, <2>1, <2>2, <2>3 DEF Owned
<1>12. Confined(Now, T, p)
  <2>1. CASE C = calls[c]
    BY <1>0, <1>1, <1>3, <2>1, SameCallSelf DEF Confined
  <2>2. CASE ~Gone(p, c)
    <3>1. CallRefers(T, c)
      BY <1>0, <1>1, <1>3, <1>5, <2>2 DEF CallRefers, Gone
    <3> QED BY <1>0, <1>1, <1>3, <1>5, <1>6, <2>2, <3>1, ConfinedOne
  <2> QED BY <2>1, <2>2
<1> QED BY <1>0, <1>1, <1>2, <1>9, <1>10, <1>11, <1>12, TurnStep DEF T

\* The caller has the response, and reads its body.
LEMMA BodyHandedOver ==
  ASSUME Sound(Now), NEW p \in Conns, NEW c \in conns[p].rc, conns[p].read = "deliver", Req(c).resBody, NEW Q \in PConnType,
         Q.key = conns[p].key, Q.dial = conns[p].dial, Q.closed = conns[p].closed, Q.reqch = conns[p].reqch,
         Q.rc = conns[p].rc, Q.read = "body",
         NEW C \in CallType, C.conn = calls[c].conn, C.pc = "body", C.canceler = calls[c].canceler, ~Gone(p, c),
         pool' = pool, conns' = [conns EXCEPT ![p] = Q], may' = may, calls' = [calls EXCEPT ![c] = C]
  PROVE  Sound(Now)'
<1> DEFINE P == conns[p]
           cl == [calls EXCEPT ![c] = C]
           T == Turn(Now, p, Q, cl)
<1>0. /\ p \in DOMAIN conns /\ P \in PConnType /\ Now.conns[p] = P /\ Now.calls = calls /\ Now.pool = pool
      /\ OneCall(Now, p) /\ RequestsKept(Now, p) /\ Owned(Now, p) /\ c \in Calls /\ calls \in [Calls -> CallType]
      /\ p \in 0..Len(conns) /\ p # 0 /\ P.rc \in SUBSET Calls /\ P.reqch \in SUBSET Calls
  BY ConnFields
<1>1. cl \in [Calls -> CallType] /\ cl[c] = C /\ \A d \in Calls : d # c => cl[d] = calls[d]
  BY <1>0, CallsUpdate
<1>2. calls' = cl
  OBVIOUS
<1> HIDE DEF cl
<1>3. T.pool = pool /\ T.calls = cl /\ T.conns[p] = Q /\ Len(T.conns) = Len(conns)
  BY <1>0, <1>1, TurnNowIs
<1> HIDE DEF T
<1>4. /\ calls[c].conn = p /\ calls[c].pc = "sent" /\ P.rc = {c} /\ WithBody(P)
      /\ P.dial = "done" /\ c \notin P.reqch /\ p \notin pool.lru /\ Users(Now, p) = {}
  <2>1. P.rc = {c} /\ WithBody(P) /\ calls[c].conn = p /\ calls[c].pc = "sent"
    BY <1>0 DEF RequestsKept, WithBody, Gone
  <2> QED BY <1>0, <2>1 DEF RequestsKept, OneCall
<1>5. \A d \in Calls : d # c => T.calls[d] = calls[d]
  BY <1>1, <1>3
<1>6. Users(T, p) = {}
  <2>1. ~Has(T, c, p)
    BY <1>0, <1>1, <1>3 DEF Has
  <2>2. ASSUME NEW d \in Calls, d # c PROVE Has(T, d, p) <=> Has(Now, d, p)
    BY <1>0, <1>3, <1>4, <1>5, <2>2 DEF Has
  <2> QED BY <1>4, <2>1, <2>2 DEF Users
<1>7. OneCall(T, p)
  BY <1>3, <1>6 DEF OneCall
<1>8. RequestsKept(T, p)
  <2>1. \A d \in P.reqch : d # c /\ d \in Calls /\ T.calls[d] = calls[d]
    BY <1>0, <1>4, <1>5
  <2>2. T.calls[c].conn = p /\ T.calls[c].pc = "body" /\ ~WithBody(Q)
    BY <1>1, <1>3, <1>4 DEF WithBody
  <2> HIDE DEF P
  <2>3. Q.rc = {c} /\ Q.reqch = P.reqch /\ Q.dial = "done" /\ Q.closed = P.closed /\ Q.read = "body" /\ Now.conns[p] = P
    BY <1>0, <1>4 DEF P
  <2>4. ASSUME NEW d \in P.reqch
        PROVE  /\ Users(T, p) \subseteq {d} /\ d \notin Q.rc
               /\ T.calls[d].conn = p => T.calls[d].pc \notin {"enter", "send"}
               /\ Q.closed = "no" => T.calls[d].conn = p /\ T.calls[d].pc = "sent"
    BY <1>0, <1>6, <2>1, <2>3 DEF RequestsKept
  <2> QED BY SMTT(40), <1>3, <1>4, <2>2, <2>3, <2>4 DEF RequestsKept
<1>9. Owned(T, p)
  BY <1>0, <1>3, <1>4 DEF Owned, LeftToOthers
<1>10. CallRefers(T, c)
  BY <1>0, <1>1, <1>3, <1>4 DEF CallRefers
<1>11. Confined(Now, T, p)
  BY <1>0, <1>1, <1>3, <1>4, <1>5, <1>10, ConfinedOne
<1> QED BY <1>0, <1>1, <1>2, <1>7, <1>8, <1>9, <1>11, TurnStep DEF T

LEMMA AnswerType ==
  ASSUME NEW P \in PConnType, P.resp # {}
  PROVE  Answer(P) \in Calls \cup {"none", "garbage"}
<1> DEFINE r == CHOOSE x \in P.resp : TRUE
<1>1. r \in TokenType
  BY DEF PConnType
<1>2. r.call \in Calls
  BY <1>1 DEF TokenType
<1>3. Answer(P) = IF r.k = "head" THEN r.call ELSE "garbage"
  BY DEF Answer
<1> QED BY <1>2, <1>3

LEMMA DeliverSound ==
  ASSUME Sound(Now), NEW p \in Conns, Deliver(p)
  PROVE  Sound(Now)'
<1> DEFINE P == conns[p]
           c == RC(p)
           X == [P EXCEPT !.read = "exit", !.rc = {}]
<1>0. /\ p \in DOMAIN conns /\ P \in PConnType /\ RequestsKept(Now, p) /\ Now.conns[p] = P /\ P.rc \in SUBSET Calls
      /\ calls \in [Calls -> CallType]
  BY ConnFields
<1>1. P.read \in {"deliver", "error"}
  BY DEF Deliver
<1>2. c \in P.rc /\ c \in Calls /\ calls[c] \in CallType
  <2>1. P.rc # {}
    BY <1>0, <1>1 DEF RequestsKept
  <2> QED BY <1>0, <2>1 DEF RC
<1>3. \/ Gone(p, c) /\ Becomes(WithConn(Now, p, X))
      \/ /\ ~Gone(p, c) /\ P.read = "error"
         /\ Becomes(WithConn(Fails(Now, c, IF P.canceled THEN "canceled" ELSE "readErr"), p, X))
      \/ /\ ~Gone(p, c) /\ P.read # "error" /\ Req(c).resBody
         /\ Becomes([Now EXCEPT !.conns[p] = [@ EXCEPT !.read = "body", !.bodyRead = "none"],
                                !.calls[c] = [@ EXCEPT !.pc = "body", !.res = Answer(P)]])
      \/ /\ ~Gone(p, c) /\ P.read # "error" /\ ~Req(c).resBody
         /\ Becomes([Now EXCEPT !.conns[p] = [@ EXCEPT !.read = IF P.alive THEN "peek" ELSE "exit", !.rc = {}],
                                !.calls[c] = [@ EXCEPT !.pc = "returned", !.res = Answer(P)]])
  BY DEF Deliver
<1> HIDE DEF c
<1>4. X \in PConnType
  BY <1>0, Values DEF PConnType
<1>5. X.key = P.key /\ X.dial = P.dial /\ X.closed = P.closed /\ X.reqch = P.reqch /\ X.rc = {} /\ X.read = "exit"
  BY <1>0 DEF PConnType
<1>6. CASE Gone(p, c) /\ Becomes(WithConn(Now, p, X))
  <2>1. pool' = pool /\ conns' = [conns EXCEPT ![p] = X] /\ may' = may /\ calls' = [calls EXCEPT ![c] = calls[c]]
    BY <1>0, <1>2, <1>6 DEF Becomes, WithConn, Now
  <2> HIDE DEF X
  <2> QED BY <1>1, <1>2, <1>4, <1>5, <1>6, <2>1, HandedOver
<1>7. CASE ~Gone(p, c) /\ P.read = "error" /\ Becomes(WithConn(Fails(Now, c, IF P.canceled THEN "canceled" ELSE "readErr"), p, X))
  <2> DEFINE e == IF P.canceled THEN "canceled" ELSE "readErr"
             C == [calls[c] EXCEPT !.pc = "failed", !.err = e, !.canceler = "none"]
  <2>1. pool' = pool /\ conns' = [conns EXCEPT ![p] = X] /\ may' = may /\ calls' = [calls EXCEPT ![c] = C]
    BY <1>0, <1>2, <1>7 DEF Becomes, WithConn, Now, Fails
  <2>2. e \in Errs
    BY Values
  <2> HIDE DEF e
  <2>3. C \in CallType
    BY <1>2, <2>2, Values DEF CallType
  <2>4. C.pc = "failed" /\ C.canceler = "none" /\ C.conn = calls[c].conn
    BY <1>2 DEF CallType
  <2> HIDE DEF X, C
  <2> QED BY <1>1, <1>2, <1>4, <1>5, <1>7, <2>1, <2>3, <2>4, HandedOver
<1>8. CASE /\ ~Gone(p, c) /\ P.read # "error" /\ Req(c).resBody
           /\ Becomes([Now EXCEPT !.conns[p] = [@ EXCEPT !.read = "body", !.bodyRead = "none"],
                                  !.calls[c] = [@ EXCEPT !.pc = "body", !.res = Answer(P)]])
  <2> DEFINE a == Answer(P)
             Q == [P EXCEPT !.read = "body", !.bodyRead = "none"]
             C == [calls[c] EXCEPT !.pc = "body", !.res = a]
  <2>1. pool' = pool /\ conns' = [conns EXCEPT ![p] = Q] /\ may' = may /\ calls' = [calls EXCEPT ![c] = C]
    BY <1>0, <1>2, <1>8 DEF Becomes, Now
  <2>2. a \in Calls \cup {"none", "garbage"}
    BY <1>0, <1>1, <1>8, AnswerType DEF RequestsKept
  <2> HIDE DEF a
  <2>3. C \in CallType
    BY <1>2, <2>2, Values DEF CallType
  <2>4. C.pc = "body" /\ C.canceler = calls[c].canceler /\ C.conn = calls[c].conn
    BY <1>2 DEF CallType
  <2>5. Q \in PConnType
    BY <1>0, Values DEF PConnType
  <2>6. Q.key = P.key /\ Q.dial = P.dial /\ Q.closed = P.closed /\ Q.reqch = P.reqch /\ Q.rc = P.rc /\ Q.read = "body"
    BY <1>0 DEF PConnType
  <2> HIDE DEF Q, C
  <2> QED BY <1>1, <1>2, <1>8, <2>1, <2>3, <2>4, <2>5, <2>6, BodyHandedOver
<1>9. CASE /\ ~Gone(p, c) /\ P.read # "error" /\ ~Req(c).resBody
           /\ Becomes([Now EXCEPT !.conns[p] = [@ EXCEPT !.read = IF P.alive THEN "peek" ELSE "exit", !.rc = {}],
                                  !.calls[c] = [@ EXCEPT !.pc = "returned", !.res = Answer(P)]])
  <2> DEFINE a == Answer(P)
             r == IF P.alive THEN "peek" ELSE "exit"
             Q == [P EXCEPT !.read = r, !.rc = {}]
             C == [calls[c] EXCEPT !.pc = "returned", !.res = a]
  <2>1. pool' = pool /\ conns' = [conns EXCEPT ![p] = Q] /\ may' = may /\ calls' = [calls EXCEPT ![c] = C]
    BY <1>0, <1>2, <1>9 DEF Becomes, Now
  <2>2. a \in Calls \cup {"none", "garbage"}
    BY <1>0, <1>1, <1>9, AnswerType DEF RequestsKept
  <2>3. r \in Reads /\ (r = "exit" \/ (r = "peek" /\ P.alive))
    BY Values
  <2> HIDE DEF a, r
  <2>4. C \in CallType
    BY <1>2, <2>2, Values DEF CallType
  <2>5. C.pc = "returned" /\ C.canceler = calls[c].canceler /\ C.conn = calls[c].conn
    BY <1>2 DEF CallType
  <2>6. Q \in PConnType
    BY <1>0, <2>3, Values DEF PConnType
  <2>7. Q.key = P.key /\ Q.dial = P.dial /\ Q.closed = P.closed /\ Q.reqch = P.reqch /\ Q.rc = {} /\ Q.read = r
    BY <1>0 DEF PConnType
  <2>8. P.read = "deliver"
    BY <1>1, <1>9
  <2>9. Q.read = "exit" \/ (Q.read = "peek" /\ P.read = "deliver" /\ P.alive /\ ~Req(c).resBody)
    BY <1>9, <2>3, <2>7, <2>8
  <2> HIDE DEF Q, C
  <2> QED BY <1>1, <1>2, <1>9, <2>1, <2>4, <2>5, <2>6, <2>7, <2>8, <2>9, HandedOver
<1> QED BY <1>3, <1>6, <1>7, <1>8, <1>9

LEMMA BodyCanceledSound ==
  ASSUME Sound(Now), NEW p \in Conns, BodyCanceled(p)
  PROVE  Sound(Now)'
<1> DEFINE P == conns[p]
           c == RC(p)
           Q == [P EXCEPT !.alive = FALSE, !.read = "exit", !.rc = {}]
           S == WithConn(Now, p, Q)
           T == Turn(Now, p, Q, calls)
<1>0. /\ p \in DOMAIN conns /\ P \in PConnType /\ Now.conns[p] = P /\ Now.calls = calls /\ Now.pool = pool
      /\ OneCall(Now, p) /\ RequestsKept(Now, p) /\ Owned(Now, p) /\ calls \in [Calls -> CallType]
      /\ P.rc \in SUBSET Calls /\ P.reqch \in SUBSET Calls
  BY ConnFields
<1>1. P.read = "body" /\ (Becomes(CancelRequest(S, c)) \/ Becomes(S))
  BY DEF BodyCanceled
<1>2. c \in Calls
  <2>1. P.rc # {}
    BY <1>0, <1>1 DEF RequestsKept
  <2> QED BY <1>0, <2>1 DEF RC
<1>3. Q \in PConnType
  BY <1>0, Values DEF PConnType
<1>4. /\ Q.key = P.key /\ Q.dial = P.dial /\ Q.read = "exit" /\ Q.rc = {} /\ Q.reqch = P.reqch /\ Q.closed = P.closed
  BY <1>0 DEF PConnType
<1>5. S = T
  BY <1>0 DEF WithConn, Turn, Now
<1> HIDE DEF Q, S, c
<1>6. T.pool = pool /\ T.calls = calls /\ T.conns[p] = Q
  BY <1>0, <1>3, TurnNowIs
<1> HIDE DEF T
<1>7. Users(T, p) = {} /\ ~WithBody(Q) /\ P.dial = "done" /\ p \notin pool.lru
  <2>1. \A d \in Calls : Has(T, d, p) <=> Has(Now, d, p)
    BY <1>0, <1>1, <1>4, <1>6 DEF Has
  <2> QED BY <1>0, <1>1, <1>4, <2>1 DEF Users, WithBody, RequestsKept, OneCall
<1>8. OneCall(T, p)
  BY <1>4, <1>6, <1>7 DEF OneCall
<1>9. RequestsKept(T, p)
  BY <1>0, <1>4, <1>6, <1>7 DEF RequestsKept
<1>10. Owned(T, p)
  BY <1>0, <1>4, <1>6, <1>7 DEF Owned, LeftToOthers
<1>11. Confined(Now, T, p)
  BY <1>0, <1>6, SameCallSelf DEF Confined
<1>12. Sound(T)
  <2>1. Q.key = Now.conns[p].key /\ p \in DOMAIN Now.conns
    BY <1>0, <1>4, NowFields
  <2> QED BY <1>0, <1>3, <1>8, <1>9, <1>10, <1>11, <2>1, TurnSound DEF T, Kept
<1> QED BY <1>1, <1>2, <1>5, <1>12, CancelRequestSound, SoundBecomes

-----------------------------------------------------------------------------
(* Steps that change the pool *)

\* What ChangeSound asks of the other connections, and what lightening them gives.
LEMMA LighterSame ==
  ASSUME NEW S, NEW T, NEW q \in DOMAIN S.conns, Lighter(S.conns[q], T.conns[q]),
         q \in T.pool.lru => q \in S.pool.lru,
         q \in S.pool.lru => q \in T.pool.lru \/ q \in T.pool.skipped \/ T.conns[q].closed # "no",
         q \in S.pool.skipped => q \in T.pool.skipped
  PROVE  SameConn(S, T, q)
BY DEF SameConn, Lighter, SameWork

\* Steps that only take connections from the pool: all calls stay as they are.
LEMMA TakenSound ==
  ASSUME NEW S, Sound(S), NEW T \in StateType, T.calls = S.calls, Listed(T), Lightened(S, T),
         T.pool.lru \subseteq S.pool.lru, S.pool.skipped \subseteq T.pool.skipped,
         \A x \in S.pool.lru : x \in T.pool.lru \/ x \in T.pool.skipped \/ T.conns[x].closed # "no"
  PROVE  Sound(T)
<1>1. Len(S.conns) <= MaxConns /\ Len(S.conns) \in Nat /\ DOMAIN S.conns = 1..Len(S.conns)
  BY SoundFields
<1>2. DOMAIN T.conns = DOMAIN S.conns /\ Len(T.conns) = Len(S.conns) /\ \A x \in DOMAIN S.conns : Lighter(S.conns[x], T.conns[x])
  BY DEF Lightened
<1>3. \A q \in DOMAIN S.conns : SameConn(S, T, q)
  BY <1>2, LighterSame
<1>4. Confined(S, T, 0)
  BY SameCallSelf DEF Confined
<1>5. Len(T.conns) <= MaxConns /\ Len(S.conns) <= Len(T.conns) /\ 0 \notin DOMAIN T.conns
  BY <1>1, <1>2
<1> QED BY <1>2, <1>3, <1>4, <1>5, ChangeSound

LEMMA ClosePCIs ==
  ASSUME NEW S \in StateType, NEW p \in DOMAIN S.conns, NEW err \in {"other", "closedIdle", "readErr"}
  PROVE  LET T == ClosePC(S, p, err) IN
         /\ T \in StateType /\ T.pool = S.pool /\ T.calls = S.calls /\ Lightened(S, T) /\ T.conns[p].closed # "no"
         /\ T.conns = [S.conns EXCEPT ![p] = Closed(S.conns[p], err)]
<1> DEFINE O == Closed(S.conns[p], err)
           T == ClosePC(S, p, err)
<1>1. O \in PConnType /\ Lighter(S.conns[p], O) /\ O.closed # "no" /\ S.conns \in Seq(PConnType)
  BY StateFields, ClosedIs
<1>2. T = [S EXCEPT !.conns[p] = O]
  BY DEF ClosePC
<1> HIDE DEF O, T
<1>3. T \in StateType /\ T.pool = S.pool /\ T.conns = [S.conns EXCEPT ![p] = O] /\ T.calls = S.calls
  <2>1. [S.conns EXCEPT ![p] = O] \in Seq(PConnType)
    BY <1>1, ConnsUpdate
  <2> QED BY <1>2, <2>1 DEF StateType
<1>4. Lightened(S, T)
  BY <1>1, <1>3, LightenedOne
<1>5. T.conns[p] = O
  BY <1>1, <1>3, ConnsUpdate
<1> QED BY <1>1, <1>3, <1>4, <1>5 DEF T, O

\* Lists stay arranged while the connections get lighter.
LEMMA ListedLighter ==
  ASSUME NEW S \in StateType, NEW T \in StateType, Lightened(S, T), T.pool = S.pool, Arranged(S)
  PROVE  Arranged(T) /\ (Limited(S) => Limited(T))
<1>1. DOMAIN T.conns = DOMAIN S.conns /\ \A x \in DOMAIN S.conns : T.conns[x].key = S.conns[x].key
  BY DEF Lightened, Lighter, SameWork
<1>2. Filed(T)
  BY <1>1 DEF Arranged, Filed
<1> QED BY <1>2 DEF Arranged, InOrder, Limited

LEMMA CloseConnIfStillIdleSound ==
  ASSUME Sound(Now), NEW p \in Conns, CloseConnIfStillIdle(p)
  PROVE  Sound(Now)'
<1> DEFINE P == conns[p]
           Q == [P EXCEPT !.timer = "none"]
           S == [Now EXCEPT !.conns[p] = Q]
           R == RemoveIdleConn(S, p)
           T == ClosePC(R, p, "other")
<1>0. p \in DOMAIN Now.conns /\ Now.conns[p] = P /\ P \in PConnType
  BY NowFields
<1>1. IF p \in pool.lru THEN Becomes(T) ELSE Becomes(S)
  <2>1. S = [Now EXCEPT !.conns[p].timer = "none"]
    BY <1>0 DEF Now
  <2> HIDE DEF S
  <2> QED BY <2>1 DEF CloseConnIfStillIdle
<1>2. Q \in PConnType /\ Undisturbed(P, Q)
  <2>1. Q \in PConnType /\ Lighter(P, Q)
    BY <1>0, LighterTimer, Values
  <2> QED BY <2>1 DEF Lighter, SameWork, Undisturbed
<1> HIDE DEF Q
<1>3. Sound(S) /\ DOMAIN S.conns = DOMAIN Now.conns
  BY <1>0, <1>2, ConnSound
<1> HIDE DEF S
<1>4. CASE p \notin pool.lru
  BY <1>1, <1>3, <1>4, SoundBecomes
<1>5. CASE p \in pool.lru
  <2>0. S \in StateType /\ Listed(S) /\ Arranged(S) /\ Limited(S) /\ Len(S.conns) <= MaxConns /\ p \in DOMAIN S.conns
    BY <1>0, <1>3, SoundFields DEF Listed
  <2>1. /\ R \in StateType /\ Arranged(R) /\ Lightened(S, R) /\ R.calls = S.calls
        /\ R.pool.lru = S.pool.lru \ {p} /\ R.pool.skipped = S.pool.skipped
    BY <2>0, RemoveIdleConnIs
  <2>2. p \in DOMAIN R.conns
    BY <2>0, <2>1 DEF Lightened
  <2> HIDE DEF R
  <2>3. T \in StateType /\ T.pool = R.pool /\ T.calls = R.calls /\ Lightened(R, T) /\ T.conns[p].closed # "no"
    BY <2>1, <2>2, ClosePCIs
  <2> HIDE DEF T
  <2>4. Lightened(S, T) /\ Arranged(T)
    BY <2>1, <2>3, LightenedTwice, ListedLighter
  <2>5. T.pool.lru = S.pool.lru \ {p} /\ T.pool.skipped = S.pool.skipped
    BY <2>1, <2>3
  <2>6. Listed(T)
    BY <2>0, <2>3, <2>4, <2>5, LimitedShrink DEF Listed
  <2>7. \A x \in S.pool.lru : x \in T.pool.lru \/ T.conns[x].closed # "no"
    BY <2>3, <2>5
  <2>8. Sound(T)
    BY <1>3, <2>1, <2>3, <2>4, <2>5, <2>6, <2>7, TakenSound
  <2> QED BY <1>1, <1>5, <2>8, SoundBecomes
<1> QED BY <1>4, <1>5

LEMMA CloseIdleConnectionsSound ==
  ASSUME Sound(Now), CloseIdleConnections
  PROVE  Sound(Now)'
<1> DEFINE idle == UNION {ToSet(pool.idle[k]) : k \in Keys}
           none == [k \in Keys |-> <<>>]
           zero == [k \in Keys |-> 0]
           pl == [pool EXCEPT !.idle = none, !.lru = {}, !.older = {}, !.ch = zero, !.wantIdle = TRUE]
           cs == [p \in DOMAIN conns |-> IF p \in idle THEN Closed(conns[p], "other") ELSE conns[p]]
           T == [pool |-> pl, conns |-> cs, calls |-> calls]
<1>0. /\ pool \in PoolType /\ conns \in Seq(PConnType) /\ calls \in [Calls -> CallType] /\ Listed(Now) /\ Now \in StateType
      /\ Now.pool = pool /\ Now.conns = conns /\ Now.calls = calls /\ Len(conns) \in Nat /\ DOMAIN conns = 1..Len(conns)
  BY NowFields, SoundFields
<1>1. pool' = pl /\ conns' = cs /\ calls' = calls /\ may' = may
  BY DEF CloseIdleConnections, Becomes, Now
<1>2. none \in [Keys -> Seq(1..MaxConns)] /\ zero \in [Keys -> Nat] /\ (\A k \in Keys : none[k] = <<>>)
  OBVIOUS
<1> HIDE DEF none, zero
<1>3. pl \in PoolType
  BY <1>0, <1>2 DEF PoolType
<1>4. pl.idle = none /\ pl.lru = {} /\ pl.older = {} /\ pl.skipped = pool.skipped
  BY <1>0 DEF PoolType
<1> HIDE DEF pl, idle
<1>5. \A p \in DOMAIN conns : cs[p] \in PConnType /\ Lighter(conns[p], cs[p]) /\ (p \in idle => cs[p].closed # "no")
  <2>1. ASSUME NEW p \in DOMAIN conns
        PROVE  cs[p] \in PConnType /\ Lighter(conns[p], cs[p]) /\ (p \in idle => cs[p].closed # "no")
    <3> DEFINE O == Closed(conns[p], "other")
    <3>1. conns[p] \in PConnType
      BY <1>0
    <3>2. O \in PConnType /\ Lighter(conns[p], O) /\ O.closed # "no"
      BY <3>1, ClosedIs
    <3> HIDE DEF O
    <3>3. cs[p] = IF p \in idle THEN O ELSE conns[p]
      BY DEF O
    <3> QED BY <3>1, <3>2, <3>3, LighterSelf
  <2> QED BY <2>1
<1>6. cs \in Seq(PConnType) /\ DOMAIN cs = DOMAIN conns /\ Len(cs) = Len(conns)
  <2>1. DOMAIN cs = 1..Len(conns)
    BY <1>0
  <2> HIDE DEF cs
  <2>2. cs = [i \in 1..Len(conns) |-> cs[i]]
    BY <2>1 DEF cs
  <2>3. cs \in [1..Len(conns) -> PConnType]
    BY <1>0, <1>5, <2>1, <2>2
  <2> QED BY <1>0, <2>1, <2>3
<1> HIDE DEF cs
<1>7. T \in StateType /\ T.pool = pl /\ T.conns = cs /\ T.calls = calls
  BY <1>0, <1>3, <1>6, StateIs
<1> HIDE DEF T
<1>8. Lightened(Now, T)
  BY <1>0, <1>5, <1>6, <1>7 DEF Lightened
<1>9. Listed(T)
  <2>1. Filed(T)
    BY <1>2, <1>4, <1>7, HttpTransportAssumption DEF Filed
  <2>2. InOrder(T.pool)
    BY <1>4, <1>7 DEF InOrder
  <2>3. Limited(T)
    BY <1>4, <1>7, FS_EmptySet, HttpTransportAssumption DEF Limited
  <2> QED BY <2>1, <2>2, <2>3 DEF Listed, Arranged
<1>10. \A x \in pool.lru : T.conns[x].closed # "no"
  <2>1. ASSUME NEW x \in pool.lru PROVE x \in DOMAIN conns /\ x \in idle
    <3>1. x \in DOMAIN conns /\ x \in ToSet(pool.idle[conns[x].key])
      BY <1>0 DEF Listed, Arranged, Filed
    <3>2. conns[x] \in PConnType
      BY <1>0, <3>1
    <3>3. conns[x].key \in Keys
      BY <3>2 DEF PConnType
    <3> QED BY <3>1, <3>3 DEF idle
  <2> QED BY <1>5, <1>7, <2>1
<1>11. Sound(T)
  BY <1>0, <1>4, <1>7, <1>8, <1>9, <1>10, TakenSound
<1> QED BY <1>1, <1>11, StepSound DEF T

LEMMA TurnFields ==
  ASSUME NEW S \in StateType, NEW p, NEW Q, NEW cl
  PROVE  LET T == [S EXCEPT !.conns[p] = Q, !.calls = cl] IN
         T.pool = S.pool /\ T.conns = [S.conns EXCEPT ![p] = Q] /\ T.calls = cl
BY DEF StateType

LEMMA ReadLoopEndsSound ==
  ASSUME Sound(Now), NEW p \in Conns, ReadLoopEnds(p)
  PROVE  Sound(Now)'
<1> DEFINE A == ClosePC(Now, p, conns[p].closeErr)
           B == RemoveIdleConn(A, p)
           Q == [B.conns[p] EXCEPT !.read = "done", !.rc = {}, !.resp = {}, !.out = <<>>, !.alive = FALSE,
                                   !.bodyRead = "none", !.werrch = "none"]
           W(c) == calls[c].pc = "eofwait" /\ calls[c].conn = p
           cl == [c \in Calls |-> IF W(c) THEN [calls[c] EXCEPT !.pc = "returned"] ELSE calls[c]]
           T == Turn(B, p, Q, cl)
<1>0. /\ p \in DOMAIN Now.conns /\ conns[p] \in PConnType /\ Now.conns = conns /\ Now.calls = calls /\ Now.pool = pool
      /\ OneCall(Now, p) /\ RequestsKept(Now, p) /\ calls \in [Calls -> CallType] /\ conns[p].read = "exit"
      /\ Now \in StateType /\ Listed(Now) /\ Arranged(Now) /\ Limited(Now) /\ Len(conns) <= MaxConns /\ Len(conns) \in Nat
      /\ conns[p].reqch \in SUBSET Calls /\ p \in 0..Len(conns) /\ p # 0 /\ DOMAIN conns = 1..Len(conns)
  BY ConnFields, NowFields, SoundFields DEF ReadLoopEnds, Listed
<1>1. conns[p].closeErr \in {"other", "closedIdle", "readErr"}
  BY <1>0 DEF PConnType
<1>2. A \in StateType /\ A.pool = pool /\ A.calls = calls /\ Lightened(Now, A) /\ A.conns[p].closed # "no"
  <2> DEFINE err == conns[p].closeErr
  <2>1. err \in {"other", "closedIdle", "readErr"}
    BY <1>1
  <2> HIDE DEF err
  <2>2. LET V == ClosePC(Now, p, err) IN
        V \in StateType /\ V.pool = Now.pool /\ V.calls = Now.calls /\ Lightened(Now, V) /\ V.conns[p].closed # "no"
    BY <1>0, <2>1, ClosePCIs, ZenonT(60)
  <2>3. A = ClosePC(Now, p, err)
    BY DEF err
  <2> HIDE DEF A
  <2> QED BY <1>0, <2>2, <2>3
<1>3. Arranged(A) /\ Limited(A)
  BY <1>0, <1>2, ListedLighter
<1>4. Len(A.conns) <= MaxConns /\ p \in DOMAIN A.conns
  BY <1>0, <1>2 DEF Lightened
<1>a. Becomes([B EXCEPT !.conns[p] = [@ EXCEPT !.read = "done", !.rc = {}, !.resp = {}, !.out = <<>>, !.alive = FALSE,
                                       !.bodyRead = "none", !.werrch = "none"], !.calls = cl])
  BY DEF ReadLoopEnds
<1> HIDE DEF A
<1>5. /\ B \in StateType /\ Arranged(B) /\ Lightened(A, B) /\ B.calls = A.calls /\ B.conns[p].closed = A.conns[p].closed
      /\ B.pool.lru = A.pool.lru \ {p} /\ B.pool.skipped = A.pool.skipped
  BY <1>2, <1>3, <1>4, RemoveIdleConnIs
<1> HIDE DEF B
<1>6. /\ B.conns[p] \in PConnType /\ B.conns \in Seq(PConnType) /\ p \in DOMAIN B.conns /\ Lightened(Now, B)
      /\ Lighter(conns[p], B.conns[p]) /\ B.conns[p].closed # "no"
  <2>1. Lightened(Now, B)
    BY <1>2, <1>5, LightenedTwice
  <2>2. p \in DOMAIN B.conns /\ Lighter(conns[p], B.conns[p])
    BY <1>0, <2>1 DEF Lightened
  <2> QED BY <1>2, <1>5, <2>1, <2>2, StateFields
<1>7. pool' = T.pool /\ conns' = T.conns /\ calls' = T.calls /\ may' = may /\ T = [pool |-> T.pool, conns |-> T.conns, calls |-> T.calls]
  <2>1. T.pool = B.pool /\ T.conns = [B.conns EXCEPT ![p] = Q] /\ T.calls = cl /\ T = [pool |-> T.pool, conns |-> T.conns, calls |-> T.calls]
    <3> HIDE DEF Q, cl, B
    <3> QED BY DEF Turn
  <2>2. LET E == [B EXCEPT !.conns[p] = Q, !.calls = cl] IN
        E.pool = B.pool /\ E.conns = [B.conns EXCEPT ![p] = Q] /\ E.calls = cl
    <3> HIDE DEF Q, cl, T
    <3> QED BY <1>5, TurnFields
  <2> HIDE DEF T, cl
  <2> QED BY <1>a, <2>1, <2>2 DEF Becomes
<1>8. Q \in PConnType
  <2>1. <<>> \in Seq(TokenType) /\ {} \in SUBSET TokenType
    OBVIOUS
  <2> QED BY <1>6, <2>1, Values DEF PConnType
<1>9. Q.key = conns[p].key /\ Q.dial = conns[p].dial /\ Q.read = "done" /\ Q.rc = {} /\ Q.reqch = conns[p].reqch /\ Q.closed # "no"
  BY <1>6 DEF PConnType, Lighter, SameWork
<1> HIDE DEF Q
<1>10. \A d \in Calls : /\ cl[d] \in CallType /\ cl[d].conn = calls[d].conn /\ cl[d].canceler = calls[d].canceler
                        /\ cl[d] = calls[d] \/ (cl[d].pc = "returned" /\ calls[d].pc = "eofwait" /\ calls[d].conn = p)
  <2>1. ASSUME NEW d \in Calls
        PROVE  /\ cl[d] \in CallType /\ cl[d].conn = calls[d].conn /\ cl[d].canceler = calls[d].canceler
               /\ cl[d] = calls[d] \/ (cl[d].pc = "returned" /\ calls[d].pc = "eofwait" /\ calls[d].conn = p)
    <3> DEFINE D == [calls[d] EXCEPT !.pc = "returned"]
    <3>1. calls[d] \in CallType
      BY <1>0
    <3>2. D \in CallType
      BY <3>1, Values DEF CallType
    <3>3. D.conn = calls[d].conn /\ D.canceler = calls[d].canceler /\ D.pc = "returned"
      BY <3>1 DEF CallType
    <3> HIDE DEF D
    <3>4. cl[d] = IF W(d) THEN D ELSE calls[d]
      BY DEF D
    <3> QED BY <3>1, <3>2, <3>3, <3>4
  <2> QED BY <2>1
<1>11. cl \in [Calls -> CallType]
  BY <1>10
<1> HIDE DEF cl, W
<1>12. /\ T \in StateType /\ T.pool = B.pool /\ T.calls = cl
       /\ DOMAIN T.conns = DOMAIN B.conns /\ Len(T.conns) = Len(B.conns) /\ T.conns[p] = Q
       /\ \A q \in DOMAIN B.conns : q # p => T.conns[q] = B.conns[q]
  BY <1>5, <1>6, <1>8, <1>11, TurnIs
<1> HIDE DEF T
<1>13. Listed(T)
  <2>1. \A x \in DOMAIN B.conns : T.conns[x].key = B.conns[x].key
    BY <1>6, <1>9, <1>12 DEF Lighter, SameWork
  <2>2. Limited(B)
    BY <1>2, <1>3, <1>5, LimitedShrink
  <2>3. Listed(B)
    BY <1>5, <2>2 DEF Listed
  <2> QED BY <1>5, <1>12, <2>1, <2>3, ListedSame
<1>14. \A q \in DOMAIN T.conns : q # p => q \in DOMAIN Now.conns /\ SameConn(Now, T, q)
  <2>1. ASSUME NEW q \in DOMAIN T.conns, q # p PROVE q \in DOMAIN Now.conns /\ SameConn(Now, T, q)
    <3>1. q \in DOMAIN Now.conns /\ Lighter(Now.conns[q], T.conns[q])
      BY <1>6, <1>12, <2>1 DEF Lightened
    <3>2. T.pool.lru = pool.lru \ {p} /\ T.pool.skipped = pool.skipped
      BY <1>2, <1>5, <1>12
    <3> QED BY <1>0, <2>1, <3>1, <3>2, LighterSame
  <2> QED BY <2>1
<1>15. Users(T, p) = Users(Now, p) /\ conns[p].rc = {} /\ p \notin T.pool.lru /\ (p \in T.pool.lru => p \in pool.lru)
  <2>1. \A d \in Calls : Has(T, d, p) <=> Has(Now, d, p)
    BY <1>0, <1>9, <1>10, <1>12 DEF Has
  <2> QED BY <1>0, <1>5, <1>12, <2>1 DEF Users, RequestsKept
<1>16. Kept(T, p)
  <2>1. OneCall(T, p)
    BY <1>0, <1>9, <1>12, <1>15 DEF OneCall, WithBody
  <2>2. RequestsKept(T, p)
    BY <1>0, <1>9, <1>10, <1>12, <1>15 DEF RequestsKept, WithBody
  <2>3. Owned(T, p)
    BY <1>9, <1>12 DEF Owned
  <2> QED BY <2>1, <2>2, <2>3 DEF Kept
<1>17. Len(T.conns) <= MaxConns /\ Len(Now.conns) <= Len(T.conns) /\ Len(T.conns) = Len(conns)
  BY <1>0, <1>6, <1>12 DEF Lightened
<1>18. Confined(Now, T, p)
  <2>1. ASSUME NEW d \in Calls
        PROVE  \/ SameCall(Now.calls[d], T.calls[d])
               \/ Now.calls[d].conn \in {0, p} /\ T.calls[d].conn \in {0, p} /\ CallRefers(T, d)
    <3>1. CASE cl[d] = calls[d]
      BY <1>0, <1>12, <3>1, SameCallSelf
    <3>2. CASE cl[d].pc = "returned" /\ calls[d].pc = "eofwait" /\ calls[d].conn = p
      <4>1. cl[d].conn = p /\ T.calls[d] = cl[d]
        BY <1>10, <1>12, <3>2
      <4>2. CallRefers(T, d)
        BY <1>0, <1>17, <3>2, <4>1 DEF CallRefers
      <4> QED BY <1>0, <3>2, <4>1, <4>2
    <3> QED BY <1>10, <3>1, <3>2
  <2> QED BY <2>1 DEF Confined
<1>19. Sound(T)
  BY <1>12, <1>13, <1>14, <1>16, <1>17, <1>18, ChangeSound
<1> QED BY <1>7, <1>19, StepSound

-----------------------------------------------------------------------------
(* getConn *)

LEMMA GreatestNumber ==
  ASSUME NEW n \in Nat, NEW N \in SUBSET (1..n), N # {}
  PROVE  Max(N) \in N /\ \A x \in N : x <= Max(N)
<1> DEFINE M == {n - x : x \in N}
<1>0. \A x \in N : x \in Int /\ n - x \in Nat
  OBVIOUS
<1>1. M \in SUBSET Nat /\ M # {}
  BY <1>0
<1> HIDE DEF M
<1>2. PICK m \in M : \A y \in M : m <= y
  BY <1>1, LeastNumber
<1>3. PICK x \in N : m = n - x
  BY <1>2 DEF M
<1>4. \A y \in N : x >= y
  <2>1. ASSUME NEW y \in N PROVE x >= y
    <3>1. n - y \in M
      BY DEF M
    <3>2. n - x <= n - y
      BY <1>2, <1>3, <3>1
    <3> QED BY <1>0, <3>2
  <2> QED BY <2>1
<1> QED BY <1>4 DEF Max

\* getIdleConn: what it passes over is closed, or its timer will close it.
LEMMA GetIdleConnIs ==
  ASSUME NEW S, Sound(S), NEW k \in Keys
  PROVE  LET g == GetIdleConn(S, k) T == g.s p == g.p IN
         /\ T \in StateType /\ Listed(T) /\ Lightened(S, T) /\ T.calls = S.calls
         /\ T.pool.lru \subseteq S.pool.lru /\ S.pool.skipped \subseteq T.pool.skipped
         /\ \A x \in S.pool.lru : x = p \/ x \in T.pool.lru \/ x \in T.pool.skipped \/ T.conns[x].closed # "no"
         /\ p = 0 \/ (p \in S.pool.lru /\ p \notin T.pool.lru /\ S.conns[p].closed = "no" /\ T.conns[p].closed = "no")
<1> DEFINE q == S.pool.idle[k]
           good == {i \in DOMAIN q : Usable(S.conns[q[i]])}
           at == IF good = {} THEN 1 ELSE Max(good)
           gone == {q[i] : i \in at..Len(q)}
           late == {x \in gone : S.conns[x].timer = "fired" /\ S.conns[x].closed = "no"}
           Stops(x) == x \in gone /\ S.conns[x].closed = "no" /\ S.conns[x].timer = "armed"
           P(x) == [S.conns[x] EXCEPT !.timer = "none"]
           cs == [x \in DOMAIN S.conns |-> IF Stops(x) THEN P(x) ELSE S.conns[x]]
           pl == [LRURemove(S.pool, gone) EXCEPT !.idle[k] = TakeIdle(q, at), !.skipped = S.pool.skipped \cup late]
           p == IF good = {} THEN 0 ELSE q[at]
           T == [S EXCEPT !.pool = pl, !.conns = cs]
<1>0. /\ S \in StateType /\ Len(S.conns) <= MaxConns /\ Arranged(S) /\ Limited(S) /\ S.pool \in PoolType
      /\ S.conns \in Seq(PConnType) /\ S.calls \in [Calls -> CallType] /\ DOMAIN S.conns = 1..Len(S.conns) /\ Len(S.conns) \in Nat
      /\ \A x \in DOMAIN S.conns : S.conns[x] \in PConnType
  BY SoundFields, StateFields DEF Listed
<1>1. /\ S.pool.idle \in [Keys -> Seq(1..MaxConns)] /\ q \in Seq(1..MaxConns) /\ Len(q) \in Nat /\ DOMAIN q = 1..Len(q)
      /\ S.pool.lru \in SUBSET (1..MaxConns) /\ S.pool.skipped \in SUBSET (1..MaxConns)
      /\ S.pool.older \in SUBSET ((1..MaxConns) \X (1..MaxConns))
  BY <1>0, PoolFields
<1>2. /\ \A i \in DOMAIN q : q[i] \in S.pool.lru /\ S.conns[q[i]].key = k /\ q[i] \in DOMAIN S.conns
      /\ \A i, j \in DOMAIN q : i < j => q[i] # q[j]
      /\ \A x \in S.pool.lru : x \in DOMAIN S.conns
  BY <1>0 DEF Arranged, Filed, InOrder
<1> HIDE DEF q
<1>3. /\ at \in Nat /\ at >= 1 /\ (at <= Len(q) \/ at = 1)
      /\ good # {} => at \in good
      /\ \A i \in DOMAIN q : i \in good => i <= at
  <2>1. CASE good = {}
    BY <2>1
  <2>2. CASE good # {}
    <3>1. good \in SUBSET (1..Len(q))
      BY <1>1
    <3> HIDE DEF good
    <3>2. Max(good) \in good /\ \A i \in good : i <= Max(good)
      BY <1>1, <2>2, <3>1, GreatestNumber
    <3>3. at = Max(good)
      BY <2>2
    <3> HIDE DEF at
    <3>4. at \in 1..Len(q)
      BY <3>1, <3>2, <3>3
    <3> QED BY <1>1, <3>2, <3>3, <3>4
  <2> QED BY <2>1, <2>2
<1>4. /\ p = 0 \/ (p = q[at] /\ at \in DOMAIN q /\ S.conns[p].closed = "no")
      /\ \A i \in DOMAIN q : i >= at => q[i] = p \/ ~Usable(S.conns[q[i]])
  <2>1. CASE good = {}
    <3>1. \A i \in DOMAIN q : ~Usable(S.conns[q[i]])
      BY <2>1
    <3> HIDE DEF good
    <3>2. p = 0
      BY <2>1
    <3> HIDE DEF p, at
    <3> QED BY <2>1, <3>1, <3>2
  <2>2. CASE good # {}
    <3>1. at \in good /\ p = q[at]
      BY <1>3, <2>2
    <3>2. at \in DOMAIN q /\ Usable(S.conns[q[at]])
      BY <3>1
    <3>3. \A i \in DOMAIN q : i > at => ~Usable(S.conns[q[i]])
      <4>1. \A i \in DOMAIN q : Usable(S.conns[q[i]]) => i \in good
        OBVIOUS
      <4> HIDE DEF at, good
      <4> QED BY <1>1, <1>3, <4>1
    <3> HIDE DEF at, p, good
    <3> QED BY <1>1, <1>3, <3>1, <3>2, <3>3 DEF Usable
  <2> QED BY <2>1, <2>2
<1>5. good # {} => p = q[at] /\ at \in DOMAIN q
  BY <1>3
<1> HIDE DEF at, p, good
<1>6. gone \subseteq S.pool.lru /\ \A x \in gone : \E i \in DOMAIN q : i >= at /\ x = q[i]
  BY <1>1, <1>2, <1>3
<1>7. TakeIdle(q, at) \in Seq(1..MaxConns) /\ Shrunk(q, TakeIdle(q, at), gone)
  <2> DEFINE w == TakeIdle(q, at)
  <2>1. w \in Seq(1..MaxConns) /\ Len(w) = at - 1 /\ Len(w) <= Len(q) /\ \A i \in DOMAIN w : w[i] = q[i] /\ i \in DOMAIN q /\ i < at
    <3>1. at - 1 \in Nat /\ 1 \in 1..(Len(q) + 1) /\ at - 1 \in 0..Len(q)
      BY <1>1, <1>3
    <3> DEFINE m == at - 1
    <3>2. w = SubSeq(q, 1, m)
      BY DEF TakeIdle
    <3> HIDE DEF m, w
    <3>3. w \in Seq(1..MaxConns) /\ Len(w) = m /\ \A i \in 1..m : w[i] = q[i]
      <4>1. m \in Nat /\ \A i \in 1..m : q[i] \in 1..MaxConns
        <5>1. m \in 0..Len(q)
          BY <3>1 DEF m
        <5>2. \A i \in 1..m : i \in 1..Len(q)
          BY <1>1, <5>1
        <5>3. \A i \in DOMAIN q : q[i] \in 1..MaxConns
          <6> DEFINE U == 1..MaxConns
          <6>1. q \in Seq(U)
            BY <1>1
          <6> HIDE DEF U
          <6>2. \A i \in DOMAIN q : q[i] \in U
            BY <6>1
          <6> QED BY <6>2 DEF U
        <5> QED BY <1>1, <5>1, <5>2, <5>3
      <4>2. w \in Seq(1..MaxConns) /\ Len(w) = (IF 1 <= m THEN m - 1 + 1 ELSE 0) /\ \A i \in 1..(m - 1 + 1) : w[i] = q[1 + i - 1]
        BY <3>2, <4>1, SubSeqProperties
      <4> QED BY <4>1, <4>2
    <3> QED BY <1>1, <1>3, <3>1, <3>3 DEF m
  <2>2. DOMAIN w = 1..(at - 1)
    BY <2>1
  <2> HIDE DEF w
  <2>3. \A i \in DOMAIN w : w[i] \notin gone
    BY SMTT(40), <1>1, <1>2, <1>3, <2>1
  <2>4. \A a \in DOMAIN q : q[a] \notin gone => a \in DOMAIN w
    BY <1>1, <1>3, <2>2
  <2> QED BY <2>1, <2>3, <2>4 DEF Shrunk, w
<1>8. late \subseteq gone
  OBVIOUS
<1>9. /\ pl \in PoolType /\ pl.lru = S.pool.lru \ gone /\ pl.skipped = S.pool.skipped \cup late
      /\ pl.older = {e \in S.pool.older : e[1] \notin gone /\ e[2] \notin gone}
      /\ pl.idle = [S.pool.idle EXCEPT ![k] = TakeIdle(q, at)]
  <2> DEFINE w == TakeIdle(q, at) sk == S.pool.skipped \cup late
  <2>1. w \in Seq(1..MaxConns) /\ sk \in SUBSET (1..MaxConns)
    BY <1>1, <1>6, <1>7, <1>8
  <2>2. S.pool \in PoolType
    BY <1>0
  <2> HIDE DEF w, sk, gone
  <2> QED BY <2>1, <2>2 DEF PoolType, LRURemove, w, sk
<1>10. /\ cs \in Seq(PConnType) /\ DOMAIN cs = DOMAIN S.conns /\ Len(cs) = Len(S.conns)
       /\ \A x \in DOMAIN S.conns : Lighter(S.conns[x], cs[x]) /\ cs[x].closed = S.conns[x].closed /\ cs[x] \in PConnType
  <2>1. \A x \in DOMAIN S.conns : P(x) \in PConnType /\ Lighter(S.conns[x], P(x)) /\ P(x).closed = S.conns[x].closed
    BY <1>0, Values, LighterTimer
  <2> HIDE DEF P, Stops
  <2>2. \A x \in DOMAIN S.conns : cs[x] \in PConnType /\ Lighter(S.conns[x], cs[x]) /\ cs[x].closed = S.conns[x].closed
    BY <1>0, <2>1, LighterSelf
  <2>3. DOMAIN cs = 1..Len(S.conns)
    BY <1>0
  <2> HIDE DEF cs
  <2>4. cs = [i \in 1..Len(S.conns) |-> cs[i]]
    BY <2>3 DEF cs
  <2>5. cs \in [1..Len(S.conns) -> PConnType]
    BY <1>0, <2>2, <2>3, <2>4
  <2> QED BY <1>0, <2>2, <2>3, <2>5
<1> HIDE DEF pl, cs
<1>12. T \in StateType /\ T.pool = pl /\ T.conns = cs /\ T.calls = S.calls
  BY <1>0, <1>9, <1>10 DEF StateType
<1> HIDE DEF T
<1>13. Lightened(S, T)
  BY <1>0, <1>10, <1>12 DEF Lightened
<1>14. Arranged(T)
  <2>1. \A h \in Keys : Shrunk(S.pool.idle[h], T.pool.idle[h], gone)
    <3>1. ASSUME NEW h \in Keys, h # k PROVE Shrunk(S.pool.idle[h], T.pool.idle[h], gone)
      <4>1. T.pool.idle[h] = S.pool.idle[h] /\ S.pool.idle[h] \in Seq(1..MaxConns)
        BY <1>1, <1>9, <1>12, <3>1
      <4>2. \A i \in DOMAIN S.pool.idle[h] : S.conns[S.pool.idle[h][i]].key = h
        BY <1>0 DEF Arranged, Filed
      <4>3. \A x \in gone : S.conns[x].key = k
        BY <1>2, <1>6
      <4> QED BY <3>1, <4>1, <4>2, <4>3 DEF Shrunk
    <3>2. Shrunk(S.pool.idle[k], T.pool.idle[k], gone)
      BY <1>1, <1>7, <1>9, <1>12 DEF q
    <3> QED BY <3>1, <3>2
  <2>2. \A x \in DOMAIN S.conns : T.conns[x].key = S.conns[x].key
    BY <1>13 DEF Lightened, Lighter, SameWork
  <2> HIDE DEF gone
  <2> QED BY <1>0, <1>9, <1>10, <1>12, <2>1, <2>2, ArrangedShrink
<1>15. Listed(T)
  BY <1>0, <1>9, <1>12, <1>14, LimitedShrink DEF Listed
<1>16. \A x \in gone : x = p \/ x \in T.pool.skipped \/ T.conns[x].closed # "no"
  <2>1. ASSUME NEW x \in gone, x # p, T.conns[x].closed = "no" PROVE x \in T.pool.skipped
    <3>1. PICK i \in DOMAIN q : i >= at /\ x = q[i]
      BY <1>6
    <3>2. ~Usable(S.conns[x]) /\ x \in DOMAIN S.conns
      BY <1>2, <1>4, <2>1, <3>1
    <3>3. S.conns[x].closed = "no"
      BY <1>10, <1>12, <2>1, <3>2
    <3>4. x \in late
      BY <3>2, <3>3 DEF Usable
    <3> HIDE DEF late
    <3> QED BY <1>9, <1>12, <3>4
  <2> QED BY <2>1
<1>17. p = 0 \/ (p \in S.pool.lru /\ p \notin T.pool.lru /\ S.conns[p].closed = "no" /\ T.conns[p].closed = "no")
  <2>1. CASE p = q[at] /\ at \in DOMAIN q /\ S.conns[p].closed = "no"
    <3>1. p \in gone
      BY <1>1, <2>1
    <3> QED BY <1>2, <1>9, <1>10, <1>12, <2>1, <3>1
  <2> QED BY <1>4, <2>1
<1>18. GetIdleConn(S, k) = [p |-> p, s |-> T]
  BY DEF GetIdleConn, p, T, pl, cs, late, gone, at, good, q, Stops, P
<1> HIDE DEF gone, late
<1>19. \A x \in S.pool.lru : x = p \/ x \in T.pool.lru \/ x \in T.pool.skipped \/ T.conns[x].closed # "no"
  BY <1>9, <1>12, <1>16
<1>20. T.pool.lru \subseteq S.pool.lru /\ S.pool.skipped \subseteq T.pool.skipped
  BY <1>9, <1>12
<1> QED BY <1>12, <1>13, <1>15, <1>17, <1>18, <1>19, <1>20

LEMMA GetIdleConnChIs ==
  ASSUME NEW S \in StateType, NEW c \in Calls, NEW k \in Keys
  PROVE  LET T == GetIdleConnCh(S, c, k) IN
         /\ T \in StateType /\ T.conns = S.conns
         /\ T.pool.idle = S.pool.idle /\ T.pool.lru = S.pool.lru /\ T.pool.older = S.pool.older /\ T.pool.skipped = S.pool.skipped
         /\ SameCall(S.calls[c], T.calls[c]) /\ T.calls[c].res = S.calls[c].res /\ \A d \in Calls : d # c => T.calls[d] = S.calls[d]
<1> DEFINE n == S.pool.chans + 1
           h == S.pool.ch[k]
           Ch(x) == [S.calls[c] EXCEPT !.ch = x]
           A == [S EXCEPT !.pool.wantIdle = FALSE, !.calls[c].ch = h]
           B == [S EXCEPT !.pool.wantIdle = FALSE, !.pool.chans = n, !.pool.ch[k] = n, !.calls[c].ch = n]
           pa == [S.pool EXCEPT !.wantIdle = FALSE]
           pb == [S.pool EXCEPT !.wantIdle = FALSE, !.chans = n, !.ch[k] = n]
           Good(T) == 
             /\ T \in StateType /\ T.conns = S.conns
             /\ T.pool.idle = S.pool.idle /\ T.pool.lru = S.pool.lru /\ T.pool.older = S.pool.older /\ T.pool.skipped = S.pool.skipped
             /\ SameCall(S.calls[c], T.calls[c]) /\ T.calls[c].res = S.calls[c].res /\ \A d \in Calls : d # c => T.calls[d] = S.calls[d]
<1>0. /\ S.pool \in PoolType /\ S.conns \in Seq(PConnType) /\ S.calls \in [Calls -> CallType] /\ S.calls[c] \in CallType
      /\ S.pool.ch \in [Keys -> Nat] /\ S.pool.chans \in Nat
  BY StateFields, PoolFields
<1>1. n \in Nat /\ h \in Nat
  BY <1>0
<1>2. \A x \in Nat : Ch(x) \in CallType /\ SameCall(S.calls[c], Ch(x)) /\ Ch(x).res = S.calls[c].res
  <2>1. ASSUME NEW x \in Nat PROVE Ch(x) \in CallType /\ SameCall(S.calls[c], Ch(x)) /\ Ch(x).res = S.calls[c].res
    <3>1. Ch(x) \in CallType
      BY <1>0 DEF CallType
    <3>2. SameCall(S.calls[c], Ch(x)) /\ Ch(x).res = S.calls[c].res
      BY <1>0 DEF CallType, SameCall
    <3> QED BY <3>1, <3>2
  <2> QED BY <2>1
<1>a. A = [S EXCEPT !.pool = pa, !.calls[c] = Ch(h)]
  <2> HIDE DEF h, n
  <2> QED OBVIOUS
<1>b. B = [S EXCEPT !.pool = pb, !.calls[c] = Ch(n)]
  <2> HIDE DEF h, n
  <2> QED BY ZenonT(60)
<1>3. pa \in PoolType /\ pa.idle = S.pool.idle /\ pa.lru = S.pool.lru /\ pa.older = S.pool.older /\ pa.skipped = S.pool.skipped
  BY <1>0 DEF PoolType
<1>4. pb \in PoolType /\ pb.idle = S.pool.idle /\ pb.lru = S.pool.lru /\ pb.older = S.pool.older /\ pb.skipped = S.pool.skipped
  <2> HIDE DEF n
  <2> QED BY <1>0, <1>1 DEF PoolType
<1> HIDE DEF n, h, Ch, pa, pb, A, B
<1>5. ASSUME NEW pl \in PoolType, NEW C \in CallType, SameCall(S.calls[c], C), C.res = S.calls[c].res,
             pl.idle = S.pool.idle, pl.lru = S.pool.lru, pl.older = S.pool.older, pl.skipped = S.pool.skipped
      PROVE  Good([S EXCEPT !.pool = pl, !.calls[c] = C])
  <2> DEFINE T == [S EXCEPT !.pool = pl, !.calls[c] = C]
             cl == [S.calls EXCEPT ![c] = C]
  <2>1. cl \in [Calls -> CallType] /\ cl[c] = C /\ \A d \in Calls : d # c => cl[d] = S.calls[d]
    BY <1>0, CallsUpdate
  <2>2. T = [S EXCEPT !.pool = pl, !.calls = cl]
    OBVIOUS
  <2> HIDE DEF cl, T
  <2>3. T \in StateType /\ T.pool = pl /\ T.conns = S.conns /\ T.calls = cl
    BY <1>5, <2>1, <2>2 DEF StateType
  <2>4. Good(T)
    BY <1>5, <2>1, <2>3
  <2> QED BY <2>4 DEF T
<1>6. Good(S)
  BY DEF SameCall
<1>7. Good(A)
  BY <1>1, <1>2, <1>3, <1>5, <1>a
<1>8. Good(B)
  BY <1>1, <1>2, <1>4, <1>5, <1>b
<1>9. GetIdleConnCh(S, c, k) = S \/ GetIdleConnCh(S, c, k) = A \/ GetIdleConnCh(S, c, k) = B
  BY DEF GetIdleConnCh, A, B, n, h
<1>10. Good(GetIdleConnCh(S, c, k))
  <2> HIDE DEF Good
  <2> QED BY <1>6, <1>7, <1>8, <1>9
<1> QED BY <1>10

\* A call takes an idle connection.
LEMMA IdleTaken ==
  ASSUME Sound(Now), NEW c \in Calls, calls[c].pc \in {"idle", "retry"}, NEW p \in pool.lru,
         NEW G \in StateType, Listed(G), Lightened(Now, G), G.calls = calls, G.pool.lru \subseteq pool.lru,
         pool.skipped \subseteq G.pool.skipped, p \notin G.pool.lru, G.conns[p].closed = "no", conns[p].closed = "no",
         \A x \in pool.lru : x = p \/ x \in G.pool.lru \/ x \in G.pool.skipped \/ G.conns[x].closed # "no",
         NEW C \in CallType, C.pc = "enter", C.conn = p, C.canceler = "noop",
         NEW T \in StateType, T.pool = G.pool, T.conns = G.conns, T.calls = [calls EXCEPT ![c] = C]
  PROVE  Sound(T)
<1>0. /\ Now.pool = pool /\ Now.conns = conns /\ Now.calls = calls /\ calls \in [Calls -> CallType] /\ Listed(Now)
      /\ DOMAIN conns = 1..Len(conns) /\ Len(conns) \in Nat /\ Len(conns) <= MaxConns /\ calls[c] \in CallType
      /\ CallRefers(Now, c) /\ Conns = DOMAIN conns
  BY NowFields
<1>1. p \in DOMAIN conns /\ p \in Conns
  BY <1>0 DEF Listed, Arranged, Filed
<1>2. OneCall(Now, p) /\ RequestsKept(Now, p) /\ Owned(Now, p) /\ conns[p].rc \in SUBSET Calls
  BY <1>1, ConnFields
<1>3. calls[c].conn = 0 /\ p # 0 /\ p \in 0..Len(conns)
  BY <1>0, <1>1 DEF CallRefers
<1>4. T.calls[c] = C /\ \A d \in Calls : d # c => T.calls[d] = calls[d]
  BY <1>0
<1>5. Len(T.conns) = Len(conns) /\ DOMAIN T.conns = DOMAIN conns /\ Lightened(Now, T)
  BY <1>0 DEF Lightened
<1>6. Listed(T)
  <2>1. \A x \in DOMAIN G.conns : T.conns[x].key = G.conns[x].key
    OBVIOUS
  <2> QED BY <2>1, ListedSame
<1>7. \A q \in DOMAIN T.conns : q # p => q \in DOMAIN Now.conns /\ SameConn(Now, T, q)
  <2>1. ASSUME NEW q \in DOMAIN T.conns, q # p PROVE q \in DOMAIN Now.conns /\ SameConn(Now, T, q)
    <3>1. q \in DOMAIN Now.conns /\ Lighter(Now.conns[q], T.conns[q])
      BY <1>0, <1>5 DEF Lightened
    <3>2. /\ q \in T.pool.lru => q \in Now.pool.lru
          /\ q \in Now.pool.lru => q \in T.pool.lru \/ q \in T.pool.skipped \/ T.conns[q].closed # "no"
          /\ q \in Now.pool.skipped => q \in T.pool.skipped
      BY <1>0, <2>1
    <3> QED BY <3>1, <3>2, LighterSame
  <2> QED BY <2>1
<1>8. /\ T.conns[p].dial = conns[p].dial /\ T.conns[p].read = conns[p].read /\ T.conns[p].rc = conns[p].rc
      /\ T.conns[p].reqch = conns[p].reqch /\ T.conns[p].resp = conns[p].resp /\ T.conns[p].closed = "no"
      /\ T.conns[p].alive = conns[p].alive
  BY <1>0, <1>1, <1>5 DEF Lightened, Lighter, SameWork
<1>9. /\ Users(Now, p) = {} /\ conns[p].dial = "done" /\ conns[p].reqch = {} /\ ~WithBody(conns[p])
      /\ conns[p].read \notin {"none", "recycle", "error", "body"}
  BY <1>0, <1>2 DEF OneCall, RequestsKept
<1>10. c \notin conns[p].rc
  BY <1>0, <1>2, <1>3, <1>9 DEF RequestsKept
<1>11. Users(T, p) = {c} /\ (WithBody(T.conns[p]) <=> WithBody(conns[p]))
  <2>1. ~(T.conns[p].read = "deliver" /\ c \in T.conns[p].rc)
    BY <1>8, <1>10
  <2>2. Has(T, c, p)
    BY <1>4, <2>1 DEF Has
  <2>3. \A d \in Calls : d # c => ~Has(T, d, p)
    BY <1>0, <1>4, <1>8, <1>9 DEF Users, Has
  <2> QED BY <1>8, <2>2, <2>3 DEF Users, WithBody
<1>12. OneCall(T, p)
  BY <1>8, <1>9, <1>11 DEF OneCall
<1>13. RequestsKept(T, p)
  <2>1. \A d \in conns[p].rc : T.calls[d] = calls[d]
    BY <1>2, <1>4, <1>10
  <2> QED BY <1>0, <1>2, <1>8, <1>9, <1>11, <2>1 DEF RequestsKept
<1>14. Owned(T, p)
  BY <1>0, <1>8, <1>9, <1>11 DEF Owned
<1>15. CallRefers(T, c)
  BY <1>3, <1>4, <1>5 DEF CallRefers
<1>16. Confined(Now, T, p)
  BY <1>0, <1>3, <1>4, <1>15, ConfinedOne
<1>17. Kept(T, p)
  BY <1>12, <1>13, <1>14 DEF Kept
<1> QED BY <1>0, <1>5, <1>6, <1>7, <1>16, <1>17, ChangeSound

\* A call dials.
LEMMA Dialled ==
  ASSUME Sound(Now), NEW c \in Calls, calls[c].pc \in {"idle", "retry"}, NEW k \in Keys,
         NEW G \in StateType, Listed(G), Lightened(Now, G), G.calls = calls, G.pool.lru \subseteq pool.lru,
         pool.skipped \subseteq G.pool.skipped,
         \A x \in pool.lru : x \in G.pool.lru \/ x \in G.pool.skipped \/ G.conns[x].closed # "no",
         Len(conns) + 1 <= MaxConns,
         NEW T \in StateType, T.conns = Append(G.conns, NewPConn(k)),
         T.pool.idle = G.pool.idle, T.pool.lru = G.pool.lru, T.pool.older = G.pool.older, T.pool.skipped = G.pool.skipped,
         \A d \in Calls : d # c => T.calls[d] = calls[d],
         T.calls[c].pc = "wait", T.calls[c].conn = calls[c].conn, T.calls[c].canceler # "conn",
         T.calls[c].dial = Len(conns) + 1
  PROVE  Sound(T)
<1> DEFINE n == Len(conns) + 1
<1>0. /\ Now.pool = pool /\ Now.conns = conns /\ Now.calls = calls /\ calls \in [Calls -> CallType] /\ Listed(Now)
      /\ DOMAIN conns = 1..Len(conns) /\ Len(conns) \in Nat /\ calls[c] \in CallType
      /\ \A d \in Calls : CallRefers(Now, d)
  BY NowFields
<1>1. /\ G.conns \in Seq(PConnType) /\ Len(G.conns) = Len(conns) /\ DOMAIN G.conns = DOMAIN conns
  BY <1>0, StateFields DEF Lightened
<1>2. /\ Len(T.conns) = n /\ T.conns[n] = NewPConn(k) /\ DOMAIN T.conns = 1..n
      /\ \A x \in DOMAIN conns : T.conns[x] = G.conns[x]
  <2> DEFINE N == NewPConn(k)
  <2> HIDE DEF N
  <2>1. T.conns = Append(G.conns, N)
    BY DEF N
  <2>2. /\ Len(T.conns) = n /\ T.conns[n] = N /\ DOMAIN T.conns = 1..n
        /\ \A x \in DOMAIN conns : T.conns[x] = G.conns[x]
    BY <1>0, <1>1, <2>1
  <2> QED BY <2>2 DEF N
<1>3. calls[c].conn = 0 /\ \A d \in Calls : calls[d].conn # n /\ T.calls[d].conn # n
  <2>1. calls[c].conn = 0
    BY <1>0 DEF CallRefers
  <2>2. \A d \in Calls : calls[d].conn \in 0..Len(conns)
    BY <1>0 DEF CallRefers
  <2>3. \A d \in Calls : calls[d].conn # n
    BY <1>0, <2>2
  <2> QED BY <2>1, <2>3
<1>4. n \notin DOMAIN conns /\ n \in Nat /\ n \notin T.pool.lru
  <2>1. G.pool.lru \subseteq DOMAIN G.conns
    BY DEF Listed, Arranged, Filed
  <2>2. n \notin DOMAIN conns /\ n \in Nat
    BY <1>0
  <2> QED BY <1>1, <2>1, <2>2
<1>5. Listed(T)
  <2>1. DOMAIN G.conns \subseteq DOMAIN T.conns /\ \A x \in DOMAIN G.conns : T.conns[x].key = G.conns[x].key
    BY <1>0, <1>1, <1>2
  <2> QED BY <2>1, ListedSame
<1>6. \A q \in DOMAIN T.conns : q # n => q \in DOMAIN Now.conns /\ SameConn(Now, T, q)
  <2>1. ASSUME NEW q \in DOMAIN T.conns, q # n PROVE q \in DOMAIN Now.conns /\ SameConn(Now, T, q)
    <3>1. q \in DOMAIN conns
      BY <1>0, <1>2, <2>1
    <3>2. q \in DOMAIN Now.conns /\ Lighter(Now.conns[q], T.conns[q])
      BY <1>0, <1>2, <3>1 DEF Lightened
    <3>3. /\ q \in T.pool.lru => q \in Now.pool.lru
          /\ q \in Now.pool.lru => q \in T.pool.lru \/ q \in T.pool.skipped \/ T.conns[q].closed # "no"
          /\ q \in Now.pool.skipped => q \in T.pool.skipped
      BY <1>0, <1>2, <3>1
    <3> QED BY <3>2, <3>3, LighterSame
  <2> QED BY <2>1
<1>7. /\ T.conns[n].dial = "dialing" /\ T.conns[n].read = "none" /\ T.conns[n].rc = {} /\ T.conns[n].reqch = {}
  BY <1>2 DEF NewPConn
<1>8. Users(T, n) = {} /\ ~WithBody(T.conns[n])
  BY <1>3, <1>7 DEF Users, Has, WithBody
<1> HIDE DEF n
<1>9. OneCall(T, n) /\ RequestsKept(T, n) /\ Owned(T, n)
  <2>1. OneCall(T, n)
    BY <1>7, <1>8 DEF OneCall
  <2>2. RequestsKept(T, n)
    BY <1>3, <1>4, <1>7, <1>8 DEF RequestsKept
  <2>3. Owned(T, n)
    BY <1>7 DEF Owned
  <2> QED BY <2>1, <2>2, <2>3
<1>10. CallRefers(T, c)
  <2>1. n \in 1..n /\ 0 \in 0..n /\ T.calls[c].conn = 0 /\ T.calls[c].dial = n
    BY <1>0, <1>3, <1>4 DEF n
  <2> QED BY <1>2, <2>1 DEF CallRefers
<1>11. Confined(Now, T, n)
  BY <1>0, <1>3, <1>10, ConfinedOne
<1>12. n <= MaxConns /\ Len(Now.conns) <= n
  BY <1>0 DEF n
<1>13. Kept(T, n)
  BY <1>9 DEF Kept
<1> QED BY <1>2, <1>5, <1>6, <1>11, <1>12, <1>13, ChangeSound

LEMMA GetConnSound ==
  ASSUME Sound(Now), may \in Scripts, NEW c \in Calls, GetConn(c)
  PROVE  Sound(Now)'
<1> DEFINE k == Req(c).key
           g == GetIdleConn(Now, k)
           G == g.s
           p == g.p
           n == Len(conns) + 1
<1>0. /\ Now.pool = pool /\ Now.conns = conns /\ Now.calls = calls /\ calls \in [Calls -> CallType]
      /\ calls[c] \in CallType /\ Len(conns) \in Nat /\ Len(conns) <= MaxConns
  BY NowFields
<1>1. k \in Keys
  BY HttpTransportAssumption DEF Req
<1>2. calls[c].pc \in {"idle", "retry"}
  BY DEF GetConn
<1> DEFINE taken == [G EXCEPT !.calls[c] = [@ EXCEPT !.pc = "enter", !.conn = p, !.canceler = "noop"]]
           U == [G EXCEPT !.calls[c] = [@ EXCEPT !.pc = "wait", !.dial = n, !.canceler = "cancelc", !.cancelc = FALSE],
                          !.conns = Append(@, NewPConn(k))]
<1>3. IF p # 0 THEN Becomes(taken) ELSE n <= MaxConns /\ Becomes(GetIdleConnCh(U, c, k))
  BY DEF GetConn
<1>4. /\ G \in StateType /\ Listed(G) /\ Lightened(Now, G) /\ G.calls = calls
      /\ G.pool.lru \subseteq pool.lru /\ pool.skipped \subseteq G.pool.skipped
      /\ \A x \in pool.lru : x = p \/ x \in G.pool.lru \/ x \in G.pool.skipped \/ G.conns[x].closed # "no"
      /\ p = 0 \/ (p \in pool.lru /\ p \notin G.pool.lru /\ conns[p].closed = "no" /\ G.conns[p].closed = "no")
  <2>1. /\ G \in StateType /\ Listed(G) /\ Lightened(Now, G) /\ G.calls = Now.calls
        /\ G.pool.lru \subseteq Now.pool.lru /\ Now.pool.skipped \subseteq G.pool.skipped
        /\ \A x \in Now.pool.lru : x = p \/ x \in G.pool.lru \/ x \in G.pool.skipped \/ G.conns[x].closed # "no"
        /\ p = 0 \/ (p \in Now.pool.lru /\ p \notin G.pool.lru /\ Now.conns[p].closed = "no" /\ G.conns[p].closed = "no")
    <3> HIDE DEF k
    <3> QED BY <1>1, GetIdleConnIs
  <2> HIDE DEF G, p
  <2> QED BY <1>0, <2>1
<1> HIDE DEF k, p, G
<1>5. G.pool \in PoolType /\ G.conns \in Seq(PConnType)
  BY <1>4, StateFields
<1>6. pool.lru \in SUBSET (1..MaxConns) /\ MaxConns \in Nat
  BY NowFields, PoolFields, HttpTransportAssumption
<1>7. CASE p # 0
  <2> DEFINE C == [calls[c] EXCEPT !.pc = "enter", !.conn = p, !.canceler = "noop"]
             cl == [calls EXCEPT ![c] = C]
             T == [pool |-> G.pool, conns |-> G.conns, calls |-> cl]
  <2>1. p \in pool.lru /\ p \in Nat
    BY <1>4, <1>6, <1>7
  <2>2. C \in CallType
    BY <1>0, <2>1, Values DEF CallType
  <2>3. C.pc = "enter" /\ C.conn = p /\ C.canceler = "noop"
    BY <1>0 DEF CallType
  <2>4. taken = [G EXCEPT !.calls[c] = C]
    BY <1>4
  <2> HIDE DEF C
  <2>5. cl \in [Calls -> CallType]
    BY <1>0, <2>2
  <2>6. T \in StateType /\ T.pool = G.pool /\ T.conns = G.conns /\ T.calls = cl
    BY <1>5, <2>5, StateIs
  <2>7. pool' = G.pool /\ conns' = G.conns /\ calls' = cl /\ may' = may
    <3>1. Becomes([G EXCEPT !.calls[c] = C])
      BY <1>3, <1>7, <2>4
    <3>2. LET E == [G EXCEPT !.calls[c] = C] IN E.pool = G.pool /\ E.conns = G.conns /\ E.calls = cl
      BY <1>4 DEF StateType
    <3> HIDE DEF cl
    <3> QED BY <3>1, <3>2 DEF Becomes
  <2> HIDE DEF T
  <2>8. Sound(T)
    BY <1>2, <1>4, <1>7, <2>1, <2>2, <2>3, <2>6, IdleTaken
  <2> QED BY <2>7, <2>8, StepSound DEF T
<1>8. CASE p = 0
  <2> DEFINE C == [calls[c] EXCEPT !.pc = "wait", !.dial = n, !.canceler = "cancelc", !.cancelc = FALSE]
             cl == [calls EXCEPT ![c] = C]
             N == NewPConn(k)
             cs == Append(G.conns, N)
             T == GetIdleConnCh(U, c, k)
  <2>0. n \in Nat /\ n <= MaxConns
    BY <1>0, <1>3, <1>8
  <2>1. C \in CallType
    <3> HIDE DEF n
    <3> QED BY <1>0, <2>0, Values DEF CallType
  <2>2. C.pc = "wait" /\ C.conn = calls[c].conn /\ C.canceler = "cancelc" /\ C.dial = n
    <3> HIDE DEF n
    <3> QED BY <1>0 DEF CallType
  <2>3. U = [G EXCEPT !.calls[c] = C, !.conns = Append(@, N)]
    BY <1>4
  <2>4. N \in PConnType
    <3>1. <<>> \in Seq(Calls) /\ <<>> \in Seq(TokenType) /\ {} \in SUBSET TokenType
      OBVIOUS
    <3> QED BY <1>1, <3>1, Values DEF NewPConn, PConnType
  <2> HIDE DEF C, N
  <2>5. cl \in [Calls -> CallType] /\ cl[c] = C /\ \A d \in Calls : d # c => cl[d] = calls[d]
    BY <1>0, <2>1
  <2>6. cs \in Seq(PConnType)
    BY <1>5, <2>4
  <2>7. U = [G EXCEPT !.calls = cl, !.conns = cs]
    BY <1>4, <2>3
  <2> HIDE DEF cl, cs, U
  <2>8. U \in StateType /\ U.pool = G.pool /\ U.conns = cs /\ U.calls = cl
    BY <1>4, <2>5, <2>6, <2>7 DEF StateType
  <2>9. /\ T \in StateType /\ T.conns = cs
        /\ T.pool.idle = G.pool.idle /\ T.pool.lru = G.pool.lru /\ T.pool.older = G.pool.older /\ T.pool.skipped = G.pool.skipped
        /\ SameCall(C, T.calls[c]) /\ \A d \in Calls : d # c => T.calls[d] = calls[d]
    <3>1. /\ T \in StateType /\ T.conns = U.conns
          /\ T.pool.idle = U.pool.idle /\ T.pool.lru = U.pool.lru /\ T.pool.older = U.pool.older /\ T.pool.skipped = U.pool.skipped
          /\ SameCall(U.calls[c], T.calls[c]) /\ \A d \in Calls : d # c => T.calls[d] = U.calls[d]
      BY <1>1, <2>8, GetIdleConnChIs
    <3> HIDE DEF T
    <3> QED BY <2>5, <2>8, <3>1
  <2>10. Becomes(T)
    BY <1>3, <1>8
  <2> HIDE DEF T
  <2>11. T.calls[c].pc = "wait" /\ T.calls[c].conn = calls[c].conn /\ T.calls[c].dial = n /\ T.calls[c].canceler # "conn"
    BY <2>2, <2>9 DEF SameCall
  <2>12. Sound(T)
    <3>1. \A x \in pool.lru : x \in G.pool.lru \/ x \in G.pool.skipped \/ G.conns[x].closed # "no"
      BY <1>4, <1>6, <1>8
    <3>2. T.conns = Append(G.conns, NewPConn(k))
      BY <2>9 DEF cs, N
    <3> QED BY <1>1, <1>2, <1>4, <2>0, <2>9, <2>11, <3>1, <3>2, Dialled
  <2> QED BY <2>10, <2>12, SoundBecomes
<1> QED BY <1>7, <1>8

-----------------------------------------------------------------------------
(* tryPutIdleConn *)

\* What becomes of connection p when it is put back: refused, idle, or given to a call that waits.
Handed(S, V, p) ==
  \E d \in Calls :
    /\ S.calls[d].pc = "wait" /\ V.calls[d].conn = p /\ V.calls[d].pc = "enter" /\ V.calls[d].canceler = S.calls[d].canceler
    /\ V.calls[d].res = S.calls[d].res
    /\ \A e \in Calls : e # d => V.calls[e] = S.calls[e]
Outcome(S, p, V, ok) ==
  /\ V \in StateType /\ Listed(V) /\ Lightened(S, V) /\ V.pool.skipped = S.pool.skipped
  /\ V.pool.lru \subseteq S.pool.lru \cup {p}
  /\ \A x \in S.pool.lru : x \in V.pool.lru \/ V.conns[x].closed # "no"
  /\ ok \in BOOLEAN /\ (ok => S.conns[p].closed = "no")
  /\ \/ ~ok /\ V.calls = S.calls /\ p \notin V.pool.lru
     \/ ok /\ V.calls = S.calls /\ (p \in V.pool.lru \/ V.conns[p].closed # "no")
     \/ ok /\ p \notin V.pool.lru /\ Handed(S, V, p)

LEMMA HandlePendingDialIs ==
  ASSUME NEW S \in StateType, NEW c \in Calls, S.calls[c].dial \in DOMAIN S.conns
  PROVE  LET T == HandlePendingDial(S, c) IN
         /\ T \in StateType /\ T.pool = S.pool /\ Lightened(S, T)
         /\ T.calls[c] \in CallType /\ T.calls[c].canceler = S.calls[c].canceler /\ T.calls[c].res = S.calls[c].res
         /\ \A d \in Calls : d # c => T.calls[d] = S.calls[d]
<1> DEFINE q == S.calls[c].dial
           P == [S.conns[q] EXCEPT !.pending = TRUE]
           C == [S.calls[c] EXCEPT !.dial = 0]
           T == HandlePendingDial(S, c)
<1>0. S.conns[q] \in PConnType /\ S.calls[c] \in CallType /\ S.calls \in [Calls -> CallType]
  BY StateFields
<1>1. P \in PConnType /\ Lighter(S.conns[q], P)
  BY <1>0, LighterPending
<1>2. C \in CallType /\ C.canceler = S.calls[c].canceler /\ C.res = S.calls[c].res
  BY <1>0 DEF CallType
<1>3. T = [S EXCEPT !.conns[q] = P, !.calls[c] = C]
  BY DEF HandlePendingDial
<1> HIDE DEF q, P, C, T
<1>4. q \in DOMAIN S.conns
  BY DEF q
<1>5. T \in StateType /\ T.pool = S.pool /\ T.conns = [S.conns EXCEPT ![q] = P] /\ T.calls = [S.calls EXCEPT ![c] = C]
  <2> DEFINE cs == [S.conns EXCEPT ![q] = P] cl == [S.calls EXCEPT ![c] = C]
  <2>1. cs \in Seq(PConnType) /\ cl \in [Calls -> CallType]
    BY <1>0, <1>1, <1>2, <1>4, StateFields, ConnsUpdate, CallsUpdate
  <2>2. T = [S EXCEPT !.conns = cs, !.calls = cl]
    BY <1>3
  <2> HIDE DEF cs, cl
  <2>3. T \in StateType /\ T.pool = S.pool /\ T.conns = cs /\ T.calls = cl
    BY <2>1, <2>2 DEF StateType
  <2> QED BY <2>3 DEF cs, cl
<1>6. T.calls[c] = C /\ \A d \in Calls : d # c => T.calls[d] = S.calls[d]
  BY <1>0, <1>2, <1>5, CallsUpdate
<1>7. Lightened(S, T)
  BY <1>1, <1>4, <1>5, LightenedOne
<1> QED BY <1>2, <1>5, <1>6, <1>7 DEF T

LEMMA TryPutIs ==
  ASSUME NEW S \in StateType, Len(S.conns) <= MaxConns, Listed(S), Refers(S), NEW p \in DOMAIN S.conns, p \notin S.pool.lru,
         NEW r \in TryPutIdleConn(S, p)
  PROVE  Outcome(S, p, r.s, r.ok)
<1> DEFINE k == S.conns[p].key
           P == [S.conns[p] EXCEPT !.reused = TRUE]
           R == [S EXCEPT !.conns[p].reused = TRUE]
           D == [R EXCEPT !.pool.ch[k] = 0]
           H(c) == [HandlePendingDial(R, c) EXCEPT !.calls[c] = [@ EXCEPT !.conn = p, !.pc = "enter"]]
<1>0. /\ S.conns \in Seq(PConnType) /\ S.conns[p] \in PConnType /\ S.pool \in PoolType /\ S.calls \in [Calls -> CallType]
      /\ DOMAIN S.conns = 1..Len(S.conns) /\ Len(S.conns) \in Nat
  BY StateFields
<1>1. k \in Keys
  BY <1>0 DEF PConnType
<1>2. P \in PConnType /\ Lighter(S.conns[p], P) /\ P.closed = S.conns[p].closed
  BY <1>0, LighterReused
<1>3. R = [S EXCEPT !.conns[p] = P]
  OBVIOUS
<1>4. \/ r = [s |-> S, ok |-> FALSE]
      \/ S.conns[p].closed = "no" /\ \E c \in Waiting(S, k) : r = [s |-> H(c), ok |-> TRUE]
      \/ S.conns[p].closed = "no" /\ r = [s |-> D, ok |-> FALSE]
      \/ S.conns[p].closed = "no" /\ Len(S.pool.idle[k]) < MaxIdlePerHost /\ r = [s |-> AddIdle(D, p), ok |-> TRUE]
  <2>1. Len(S.pool.idle[k]) \in Nat /\ MaxIdlePerHost \in Nat
    <3>1. S.pool.idle \in [Keys -> Seq(1..MaxConns)]
      BY <1>0, PoolFields
    <3> HIDE DEF k
    <3>2. S.pool.idle[k] \in Seq(1..MaxConns)
      BY <1>1, <3>1
    <3> QED BY <3>2, HttpTransportAssumption
  <2>2. ~(Len(S.pool.idle[k]) >= MaxIdlePerHost) => Len(S.pool.idle[k]) < MaxIdlePerHost
    BY <2>1
  <2> QED BY <2>2 DEF TryPutIdleConn
<1> HIDE DEF P, R
<1>5. /\ R \in StateType /\ R.pool = S.pool /\ R.conns = [S.conns EXCEPT ![p] = P] /\ R.calls = S.calls
  <2> DEFINE cs == [S.conns EXCEPT ![p] = P]
  <2>1. cs \in Seq(PConnType)
    BY <1>0, <1>2, ConnsUpdate
  <2>2. R = [S EXCEPT !.conns = cs]
    BY <1>3
  <2> HIDE DEF cs
  <2>3. R \in StateType /\ R.pool = S.pool /\ R.conns = cs /\ R.calls = S.calls
    BY <2>1, <2>2 DEF StateType
  <2> QED BY <2>3 DEF cs
<1>6. Lightened(S, R) /\ R.conns[p].closed = S.conns[p].closed /\ R.conns[p].key = k
  <2>1. Lightened(S, R)
    BY <1>2, <1>5, LightenedOne
  <2>2. R.conns[p] = P
    BY <1>0, <1>5
  <2> QED BY <1>2, <2>1, <2>2 DEF Lighter, SameWork
<1>7. ASSUME NEW V \in StateType, Lightened(S, V), V.pool.idle = S.pool.idle, V.pool.lru = S.pool.lru, V.pool.older = S.pool.older
      PROVE  Listed(V)
  <2>1. \A x \in DOMAIN S.conns : V.conns[x].key = S.conns[x].key
    BY <1>7 DEF Lightened, Lighter, SameWork
  <2> QED BY <1>7, <2>1, ListedSame DEF Lightened
<1>8. CASE r = [s |-> S, ok |-> FALSE]
  <2>1. Lightened(S, S)
    BY LighterSelf DEF Lightened
  <2> QED BY <1>8, <2>1 DEF Outcome
<1>9. ASSUME S.conns[p].closed = "no", NEW c \in Waiting(S, k) PROVE Outcome(S, p, H(c), TRUE)
  <2> DEFINE V == HandlePendingDial(R, c)
             C == [V.calls[c] EXCEPT !.conn = p, !.pc = "enter"]
             T == H(c)
  <2>1. c \in Calls /\ S.calls[c].pc = "wait" /\ S.calls[c].dial \in DOMAIN S.conns
    BY <1>0, <1>9 DEF Waiting, Refers, CallRefers
  <2>2. R.calls[c].dial \in DOMAIN R.conns
    BY <1>5, <1>6, <2>1 DEF Lightened
  <2>3. /\ V \in StateType /\ V.pool = R.pool /\ Lightened(R, V) /\ V.calls[c] \in CallType
        /\ V.calls[c].canceler = R.calls[c].canceler /\ V.calls[c].res = R.calls[c].res
        /\ \A d \in Calls : d # c => V.calls[d] = R.calls[d]
    BY <1>5, <2>1, <2>2, HandlePendingDialIs
  <2> HIDE DEF V
  <2>4. p \in Nat
    BY <1>0
  <2>5. C \in CallType
    BY <2>3, <2>4, Values DEF CallType
  <2>6. C.conn = p /\ C.pc = "enter" /\ C.canceler = V.calls[c].canceler /\ C.res = V.calls[c].res
    BY <2>3 DEF CallType
  <2>7. T = [V EXCEPT !.calls[c] = C]
    BY DEF V
  <2> HIDE DEF C, T
  <2>8. T \in StateType /\ T.pool = V.pool /\ T.conns = V.conns /\ T.calls = [V.calls EXCEPT ![c] = C]
    BY <2>1, <2>3, <2>5, <2>7, StateFields, StateUpdate DEF StateType
  <2>9. V.calls \in [Calls -> CallType]
    BY <2>3, StateFields
  <2>10. T.calls[c] = C /\ \A d \in Calls : d # c => T.calls[d] = S.calls[d]
    BY <1>5, <2>1, <2>3, <2>8, <2>9
  <2>11. Lightened(S, T)
    <3>1. Lightened(S, V)
      BY <1>6, <2>3, LightenedTwice
    <3> QED BY <2>8, <3>1 DEF Lightened
  <2>12. T.pool = S.pool
    BY <1>5, <2>3, <2>8
  <2>13. Handed(S, T, p)
    BY <1>5, <2>1, <2>3, <2>6, <2>10 DEF Handed
  <2>14. Listed(T)
    BY <1>7, <2>8, <2>11, <2>12
  <2>15. Outcome(S, p, T, TRUE)
    BY <1>9, <2>8, <2>11, <2>12, <2>13, <2>14 DEF Outcome
  <2> QED BY <2>15 DEF T
<1>10. /\ D \in StateType /\ D.conns = R.conns /\ D.calls = S.calls /\ D.pool.idle = S.pool.idle /\ D.pool.lru = S.pool.lru
       /\ D.pool.older = S.pool.older /\ D.pool.skipped = S.pool.skipped
  <2> DEFINE pl == [R.pool EXCEPT !.ch[k] = 0]
  <2>1. pl \in PoolType /\ pl.idle = R.pool.idle /\ pl.lru = R.pool.lru /\ pl.older = R.pool.older /\ pl.skipped = R.pool.skipped
    <3>1. R.pool \in PoolType
      BY <1>5, StateFields
    <3> HIDE DEF k
    <3> QED BY <1>1, <3>1 DEF PoolType
  <2>2. D = [R EXCEPT !.pool = pl]
    OBVIOUS
  <2> HIDE DEF pl, D
  <2>3. D \in StateType /\ D.pool = pl /\ D.conns = R.conns /\ D.calls = R.calls
    BY <1>5, <2>1, <2>2 DEF StateType
  <2> QED BY <1>5, <2>1, <2>3
<1> HIDE DEF D
<1>11. Lightened(S, D) /\ Listed(D) /\ D.conns[p].key = k /\ D.conns[p].closed = S.conns[p].closed
  <2>1. Lightened(S, D)
    BY <1>6, <1>10 DEF Lightened
  <2> QED BY <1>6, <1>7, <1>10, <2>1
<1>12. CASE S.conns[p].closed = "no" /\ r = [s |-> D, ok |-> FALSE]
  BY <1>10, <1>11, <1>12 DEF Outcome
<1>13. ASSUME S.conns[p].closed = "no", Len(S.pool.idle[k]) < MaxIdlePerHost PROVE Outcome(S, p, AddIdle(D, p), TRUE)
  <2> DEFINE T == AddIdle(D, p)
  <2>1. p \in DOMAIN D.conns /\ Len(D.conns) <= MaxConns
    BY <1>11 DEF Lightened
  <2>2. /\ T \in StateType /\ Listed(T) /\ Lightened(D, T) /\ T.calls = D.calls
        /\ T.pool.lru \subseteq D.pool.lru \cup {p} /\ T.pool.skipped = D.pool.skipped
        /\ \A x \in D.pool.lru \cup {p} : x \in T.pool.lru \/ T.conns[x].closed # "no"
    BY <1>10, <1>11, <1>13, <2>1, AddIdleIs
  <2> HIDE DEF T
  <2>3. Lightened(S, T)
    BY <1>11, <2>2, LightenedTwice
  <2>4. Outcome(S, p, T, TRUE)
    BY <1>10, <1>13, <2>2, <2>3 DEF Outcome
  <2> QED BY <2>4 DEF T
<1> HIDE DEF H, k
<1>14. CASE S.conns[p].closed = "no" /\ \E c \in Waiting(S, k) : r = [s |-> H(c), ok |-> TRUE]
  <2>1. PICK c \in Waiting(S, k) : r = [s |-> H(c), ok |-> TRUE]
    BY <1>14
  <2>2. Outcome(S, p, H(c), TRUE)
    BY <1>9, <1>14
  <2>3. r.s = H(c) /\ r.ok = TRUE
    BY <2>1
  <2> QED BY <2>2, <2>3
<1>15. CASE S.conns[p].closed = "no" /\ Len(S.pool.idle[k]) < MaxIdlePerHost /\ r = [s |-> AddIdle(D, p), ok |-> TRUE]
  BY <1>13, <1>15
<1> QED BY <1>4, <1>8, <1>12, <1>14, <1>15

\* Connection p, as S has it, can be lent to the next call.
Lendable(S, p) ==
  /\ RequestsKept(S, p) /\ Users(S, p) = {} /\ S.conns[p].dial = "done" /\ p \notin S.pool.lru
  /\ S.conns[p].closed = "no" => S.conns[p].read \notin {"none", "recycle", "error", "body"}
  /\ ~WithBody(S.conns[p])
SameLoan(P, Q) ==
  /\ Q.key = P.key /\ Q.dial = P.dial /\ Q.read = P.read /\ Q.rc = P.rc /\ Q.reqch = P.reqch /\ Q.resp = P.resp
  /\ Q.closed = P.closed \/ Q.closed # "no"

\* A step that makes p lendable and puts it back.
LEMMA PutBack ==
  ASSUME Sound(Now), NEW p \in Conns, NEW S \in StateType, S.pool = pool, DOMAIN S.conns = DOMAIN conns, Len(S.conns) = Len(conns),
         \A q \in DOMAIN conns : q # p => S.conns[q] = conns[q],
         Confined(Now, S, p), Refers(S), Lendable(S, p),
         NEW V, NEW ok \in BOOLEAN, Outcome(S, p, V, ok),
         NEW Q \in PConnType, SameLoan(V.conns[p], Q),
         ~ok => Q.closed # "no" \/ (Q.read # "none" /\ ~LeftToOthers(Q)),
         NEW T \in StateType, T.pool = V.pool, T.conns = [V.conns EXCEPT ![p] = Q], T.calls = V.calls
  PROVE  Sound(T)
<1>0. /\ Now.pool = pool /\ Now.conns = conns /\ Now.calls = calls /\ p \in DOMAIN conns /\ p # 0 /\ p \in 0..Len(conns)
      /\ DOMAIN conns = 1..Len(conns) /\ Len(conns) \in Nat /\ Len(conns) <= MaxConns
  BY NowFields, ConnFields
<1>1. /\ V \in StateType /\ Listed(V) /\ Lightened(S, V) /\ V.pool.skipped = pool.skipped
      /\ V.pool.lru \subseteq pool.lru \cup {p}
      /\ \A x \in pool.lru : x \in V.pool.lru \/ V.conns[x].closed # "no"
  BY DEF Outcome
<1>2. V.conns \in Seq(PConnType) /\ DOMAIN V.conns = DOMAIN conns /\ Len(V.conns) = Len(conns)
  BY <1>1, StateFields DEF Lightened
<1>3. /\ DOMAIN T.conns = DOMAIN conns /\ Len(T.conns) = Len(conns) /\ T.conns[p] = Q
      /\ \A q \in DOMAIN conns : q # p => T.conns[q] = V.conns[q]
  BY <1>0, <1>2, ConnsUpdate
<1>4. /\ Q.key = S.conns[p].key /\ Q.dial = S.conns[p].dial /\ Q.read = S.conns[p].read /\ Q.rc = S.conns[p].rc
      /\ Q.reqch = S.conns[p].reqch /\ Q.resp = S.conns[p].resp /\ (Q.closed = S.conns[p].closed \/ Q.closed # "no")
      /\ V.conns[p].closed # "no" => Q.closed # "no"
  <2>1. Lighter(S.conns[p], V.conns[p])
    BY <1>0, <1>1 DEF Lightened
  <2> QED BY <2>1 DEF Lighter, SameWork, SameLoan
<1>5. S.conns[p] \in PConnType /\ Q.rc \in SUBSET Calls /\ Q.reqch \in SUBSET Calls /\ S.calls \in [Calls -> CallType]
  BY <1>0, StateFields DEF PConnType
<1>6. Listed(T)
  <2>1. DOMAIN V.conns \subseteq DOMAIN T.conns /\ \A x \in DOMAIN V.conns : T.conns[x].key = V.conns[x].key
    BY <1>2, <1>3 DEF SameLoan
  <2> QED BY <1>1, <2>1, ListedSame
<1>7. \A q \in DOMAIN T.conns : q # p => q \in DOMAIN Now.conns /\ SameConn(Now, T, q)
  <2>1. ASSUME NEW q \in DOMAIN T.conns, q # p PROVE q \in DOMAIN Now.conns /\ SameConn(Now, T, q)
    <3>1. q \in DOMAIN Now.conns /\ Lighter(Now.conns[q], T.conns[q])
      BY <1>0, <1>1, <1>3, <2>1 DEF Lightened
    <3>2. /\ q \in T.pool.lru => q \in Now.pool.lru
          /\ q \in Now.pool.lru => q \in T.pool.lru \/ q \in T.pool.skipped \/ T.conns[q].closed # "no"
          /\ q \in Now.pool.skipped => q \in T.pool.skipped
      BY <1>0, <1>1, <1>3, <2>1
    <3> QED BY <3>1, <3>2, LighterSame
  <2> QED BY <2>1
<1>8. (S.conns[p].closed = "no" => Q.reqch = {}) /\ ~WithBody(Q)
  <2>1. ASSUME S.conns[p].closed = "no", NEW c \in S.conns[p].reqch PROVE FALSE
    <3>1. c \in Calls /\ S.calls[c].conn = p /\ S.calls[c].pc = "sent" /\ c \notin S.conns[p].rc
      BY <1>4, <1>5, <2>1 DEF Lendable, RequestsKept
    <3>2. c \in Users(S, p)
      BY <3>1 DEF Users, Has
    <3> QED BY <3>2 DEF Lendable
  <2> QED BY <1>4, <2>1 DEF Lendable, WithBody
<1>9. CASE V.calls = S.calls
  <2>1. Users(T, p) = {}
    BY <1>3, <1>4, <1>9 DEF Users, Has, Lendable
  <2>2. p \in T.pool.lru => S.conns[p].closed = "no"
    BY <1>9 DEF Outcome
  <2>3. OneCall(T, p)
    BY <2>1 DEF OneCall
  <2>4. RequestsKept(T, p)
    <3>1. RequestsKept(S, p) /\ S.conns[p].dial = "done" /\ (p \in T.pool.lru => S.conns[p].read \notin {"none", "recycle", "error", "body"})
      BY <2>2 DEF Lendable
    <3>2. \A c \in Calls : T.calls[c] = S.calls[c]
      BY <1>9
    <3>3. p \in T.pool.lru => Q.reqch = {}
      BY <1>8, <2>2
    <3>4. ~WithBody(T.conns[p])
      BY <1>3, <1>8
    <3> QED BY <1>3, <1>4, <1>5, <2>1, <3>1, <3>2, <3>3, <3>4 DEF RequestsKept
  <2>5. Owned(T, p)
    <3>1. CASE ~ok
      BY <1>3, <1>4, <3>1 DEF Owned, Lendable
    <3>2. CASE ok /\ p \in V.pool.lru
      BY <1>3, <1>4, <3>2 DEF Owned, Lendable, Outcome
    <3>3. CASE V.conns[p].closed # "no"
      BY <1>3, <1>4, <3>3 DEF Owned
    <3>4. CASE ok /\ p \notin V.pool.lru /\ Handed(S, V, p)
      <4>1. PICK d \in Calls : S.calls[d].pc = "wait" /\ V.calls[d].pc = "enter"
        BY <3>4 DEF Handed
      <4> QED BY <1>9, <4>1
    <3> QED BY <3>1, <3>2, <3>3, <3>4 DEF Outcome
  <2>6. Confined(Now, T, p)
    <3>1. ASSUME NEW d \in Calls
          PROVE  \/ SameCall(Now.calls[d], T.calls[d])
                 \/ Now.calls[d].conn \in {0, p} /\ T.calls[d].conn \in {0, p} /\ CallRefers(T, d)
      <4>1. T.calls[d] = S.calls[d] /\ CallRefers(S, d)
        BY <1>9 DEF Refers
      <4>2. CallRefers(T, d)
        BY <1>3, <4>1 DEF CallRefers
      <4> QED BY <4>1, <4>2 DEF Confined
    <3> QED BY <3>1 DEF Confined
  <2>7. Kept(T, p)
    BY <2>3, <2>4, <2>5 DEF Kept
  <2> QED BY <1>0, <1>3, <1>6, <1>7, <2>6, <2>7, ChangeSound
<1>10. CASE ok /\ p \notin V.pool.lru /\ Handed(S, V, p)
  <2>0. S.conns[p].closed = "no"
    BY <1>10 DEF Outcome
  <2>1. PICK d \in Calls :
           /\ S.calls[d].pc = "wait" /\ V.calls[d].conn = p /\ V.calls[d].pc = "enter" /\ V.calls[d].canceler = S.calls[d].canceler
           /\ \A e \in Calls : e # d => V.calls[e] = S.calls[e]
    BY <1>10 DEF Handed
  <2>2. S.calls[d].conn = 0
    BY <2>1 DEF Refers, CallRefers
  <2>3. d \notin Q.rc
    BY <1>0, <1>4, <2>0, <2>2 DEF Lendable, RequestsKept
  <2>4. Users(T, p) = {d}
    <3>1. Has(T, d, p)
      BY <1>3, <2>1, <2>3 DEF Has
    <3>2. \A e \in Calls : e # d => ~Has(T, e, p)
      BY <1>3, <1>4, <2>1 DEF Users, Has, Lendable
    <3> QED BY <3>1, <3>2 DEF Users
  <2>5. Q.read \notin {"none", "recycle", "error", "body"} /\ Q.dial = "done"
    BY <1>4, <2>0 DEF Lendable
  <2>6. OneCall(T, p)
    BY <1>3, <1>8, <1>10, <2>4, <2>5 DEF OneCall
  <2>7. RequestsKept(T, p)
    <3>1. RequestsKept(S, p)
      BY DEF Lendable
    <3>2. \A e \in Q.rc : T.calls[e] = S.calls[e]
      BY <1>5, <2>1, <2>3
    <3> QED BY <1>3, <1>4, <1>8, <1>10, <2>0, <2>5, <3>1, <3>2 DEF RequestsKept
  <2>8. Owned(T, p)
    BY <1>3, <2>4, <2>5 DEF Owned
  <2>9. Confined(Now, T, p)
    <3>1. ASSUME NEW e \in Calls
          PROVE  \/ SameCall(Now.calls[e], T.calls[e])
                 \/ Now.calls[e].conn \in {0, p} /\ T.calls[e].conn \in {0, p} /\ CallRefers(T, e)
      <4>1. CASE e # d
        <5>1. T.calls[e] = S.calls[e] /\ CallRefers(S, e)
          BY <2>1, <4>1 DEF Refers
        <5>2. CallRefers(T, e)
          BY <1>3, <5>1 DEF CallRefers
        <5> QED BY <5>1, <5>2 DEF Confined
      <4>2. CASE e = d
        <5>1. CallRefers(T, d)
          BY <1>0, <1>3, <2>1 DEF CallRefers
        <5>2. Now.calls[d].conn \in {0, p}
          BY <2>2 DEF Confined, SameCall
        <5> QED BY <2>1, <4>2, <5>1, <5>2
      <4> QED BY <4>1, <4>2
    <3> QED BY <3>1 DEF Confined
  <2>10. Kept(T, p)
    BY <2>6, <2>7, <2>8 DEF Kept
  <2> QED BY <1>0, <1>3, <1>6, <1>7, <2>9, <2>10, ChangeSound
<1> QED BY <1>9, <1>10 DEF Outcome

\* S is the state of a step that puts p back, before it does.
Returns(S, p) ==
  /\ S \in StateType /\ S.pool = pool /\ DOMAIN S.conns = DOMAIN conns /\ Len(S.conns) = Len(conns)
  /\ \A q \in DOMAIN conns : q # p => S.conns[q] = conns[q]
  /\ S.conns[p].key = conns[p].key /\ Confined(Now, S, p) /\ Refers(S) /\ Lendable(S, p)

LEMMA ReturnsListed ==
  ASSUME Sound(Now), NEW p \in Conns, NEW S, Returns(S, p)
  PROVE  /\ S \in StateType /\ Len(S.conns) <= MaxConns /\ Listed(S) /\ Refers(S) /\ p \in DOMAIN S.conns /\ p \notin S.pool.lru
         /\ Outcome(S, p, S, FALSE) /\ S.conns[p] \in PConnType
<1>0. /\ Now \in StateType /\ Now.pool = pool /\ Now.conns = conns /\ Len(conns) <= MaxConns /\ Conns = DOMAIN conns /\ Listed(Now)
  BY NowFields, SoundFields
<1>1. S \in StateType /\ Len(S.conns) <= MaxConns /\ Refers(S) /\ p \in DOMAIN S.conns /\ p \notin S.pool.lru
  BY <1>0 DEF Returns, Lendable
<1>2. \A x \in DOMAIN conns : S.conns[x].key = conns[x].key
  BY <1>0 DEF Returns
<1>3. Listed(S)
  BY <1>0, <1>1, <1>2, ListedSame DEF Returns
<1>4. Lightened(S, S)
  BY LighterSelf DEF Lightened
<1>5. Outcome(S, p, S, FALSE)
  BY <1>1, <1>3, <1>4 DEF Outcome
<1> QED BY <1>1, <1>3, <1>5, StateFields

LEMMA Put ==
  ASSUME Sound(Now), NEW p \in Conns, NEW S, Returns(S, p), NEW V, NEW ok \in BOOLEAN, Outcome(S, p, V, ok),
         NEW Q \in PConnType, SameLoan(V.conns[p], Q),
         ~ok => Q.closed # "no" \/ (Q.read # "none" /\ ~LeftToOthers(Q))
  PROVE  Sound([V EXCEPT !.conns[p] = Q])
<1> DEFINE cs == [V.conns EXCEPT ![p] = Q]
           T == [V EXCEPT !.conns[p] = Q]
<1>0. V \in StateType /\ p \in DOMAIN V.conns
  BY ReturnsListed DEF Outcome, Lightened
<1>1. cs \in Seq(PConnType)
  BY <1>0, StateFields, ConnsUpdate
<1>2. T = [V EXCEPT !.conns = cs]
  OBVIOUS
<1> HIDE DEF cs, T
<1>3. T \in StateType /\ T.pool = V.pool /\ T.conns = cs /\ T.calls = V.calls
  BY <1>0, <1>1, <1>2 DEF StateType
<1>4. Sound(T)
  BY <1>3, PutBack DEF Returns, cs
<1> QED BY <1>4 DEF T

\* putOrCloseIdleConn
LEMMA PutOrClose ==
  ASSUME Sound(Now), NEW p \in Conns, NEW S, Returns(S, p), NEW T \in PutOrCloseIdleConn(S, p)
  PROVE  Sound(T)
<1>1. PICK r \in TryPutIdleConn(S, p) : T = IF r.ok THEN r.s ELSE ClosePC(r.s, p, "other")
  BY DEF PutOrCloseIdleConn
<1> DEFINE V == r.s ok == r.ok
<1>2. Outcome(S, p, V, ok)
  BY ReturnsListed, TryPutIs
<1>3. ok \in BOOLEAN
  BY <1>2 DEF Outcome
<1>a. T = IF ok THEN V ELSE ClosePC(V, p, "other")
  BY <1>1
<1> HIDE DEF V, ok
<1>4. V \in StateType /\ p \in DOMAIN V.conns /\ V.conns[p] \in PConnType
  BY <1>2, ReturnsListed, StateFields DEF Outcome, Lightened
<1>5. CASE ok
  <2> DEFINE Q == V.conns[p]
  <2>1. SameLoan(V.conns[p], Q)
    BY DEF SameLoan
  <2>2. Sound([V EXCEPT !.conns[p] = Q])
    BY <1>2, <1>3, <1>4, <1>5, <2>1, Put
  <2>3. [V EXCEPT !.conns[p] = Q] = V
    <3>1. [V.conns EXCEPT ![p] = Q] = V.conns /\ V = [pool |-> V.pool, conns |-> V.conns, calls |-> V.calls]
      BY <1>4, StateFields
    <3> QED BY <1>4, <3>1 DEF StateType
  <2> HIDE DEF Q
  <2> QED BY <1>5, <1>a, <2>2, <2>3
<1>6. CASE ~ok
  <2> DEFINE Q == Closed(V.conns[p], "other")
  <2>1. Q \in PConnType /\ Lighter(V.conns[p], Q) /\ Q.closed # "no"
    BY <1>4, ClosedIs
  <2>2. T = [V EXCEPT !.conns[p] = Q]
    BY <1>6, <1>a DEF ClosePC
  <2> HIDE DEF Q
  <2>3. SameLoan(V.conns[p], Q)
    BY <2>1 DEF SameLoan, Lighter, SameWork
  <2> QED BY <1>2, <1>3, <2>1, <2>2, <2>3, Put
<1> QED BY <1>5, <1>6

\* The end of a response: the connection is put back, or its read loop will end.
LEMMA PutOrEnd ==
  ASSUME Sound(Now), NEW p \in Conns, NEW S, Returns(S, p),
         S.conns[p].read \in {"deliver", "eofc"}, NEW keep,
         IF keep THEN \E r \in TryPutIdleConn(S, p) : Becomes([r.s EXCEPT !.conns[p].alive = r.ok])
         ELSE Becomes([S EXCEPT !.conns[p].alive = FALSE])
  PROVE  Sound(Now)'
<1>1. ASSUME NEW V, NEW ok \in BOOLEAN, Outcome(S, p, V, ok)
      PROVE  Sound([V EXCEPT !.conns[p].alive = ok])
  <2> DEFINE Q == [V.conns[p] EXCEPT !.alive = ok]
  <2>1. V \in StateType /\ p \in DOMAIN V.conns /\ V.conns[p] \in PConnType /\ Lighter(S.conns[p], V.conns[p])
    BY <1>1, ReturnsListed, StateFields DEF Outcome, Lightened
  <2>2. Q \in PConnType
    BY <1>1, <2>1 DEF PConnType
  <2>3. SameLoan(V.conns[p], Q) /\ Q.alive = ok
    BY <2>1 DEF PConnType, SameLoan
  <2>4. [V EXCEPT !.conns[p].alive = ok] = [V EXCEPT !.conns[p] = Q]
    OBVIOUS
  <2> HIDE DEF Q
  <2>5. Q.read \in {"deliver", "eofc"}
    BY <2>1, <2>3 DEF SameLoan, Lighter, SameWork
  <2>6. ~ok => Q.read # "none" /\ ~LeftToOthers(Q)
    BY <2>3, <2>5 DEF LeftToOthers
  <2> QED BY <1>1, <2>2, <2>3, <2>4, <2>6, Put
<1>2. CASE ~keep
  <2>1. Outcome(S, p, S, FALSE)
    BY ReturnsListed
  <2>2. Sound([S EXCEPT !.conns[p].alive = FALSE])
    BY <1>1, <2>1
  <2> QED BY <1>2, <2>2, SoundBecomes
<1>3. CASE keep
  <2>1. PICK r \in TryPutIdleConn(S, p) : Becomes([r.s EXCEPT !.conns[p].alive = r.ok])
    BY <1>3
  <2>2. Outcome(S, p, r.s, r.ok)
    BY ReturnsListed, TryPutIs
  <2>3. r.ok \in BOOLEAN
    BY <2>2 DEF Outcome
  <2>4. Sound([r.s EXCEPT !.conns[p].alive = r.ok])
    BY <1>1, <2>2, <2>3
  <2> QED BY <2>1, <2>4, SoundBecomes
<1> QED BY <1>2, <1>3

LEMMA ReturnsTurn ==
  ASSUME Sound(Now), NEW p \in Conns, NEW Q \in PConnType, NEW cl \in [Calls -> CallType], Q.key = conns[p].key,
         LET T == Turn(Now, p, Q, cl) IN Confined(Now, T, p) /\ Lendable(T, p)
  PROVE  Returns(Turn(Now, p, Q, cl), p)
<1> DEFINE T == Turn(Now, p, Q, cl)
<1>0. /\ Now \in StateType /\ Now.pool = pool /\ Now.conns = conns /\ Now.calls = calls /\ p \in DOMAIN Now.conns
      /\ \A d \in Calls : CallRefers(Now, d)
  BY NowFields, SoundFields
<1>1. /\ T \in StateType /\ T.pool = Now.pool /\ T.calls = cl
      /\ DOMAIN T.conns = DOMAIN Now.conns /\ Len(T.conns) = Len(Now.conns) /\ T.conns[p] = Q
      /\ \A q \in DOMAIN Now.conns : q # p => T.conns[q] = Now.conns[q]
  BY <1>0, TurnIs
<1>2. Confined(Now, T, p) /\ Lendable(T, p)
  OBVIOUS
<1> HIDE DEF T
<1>3. Refers(T)
  <2>1. ASSUME NEW d \in Calls PROVE CallRefers(T, d)
    <3>1. CASE SameCall(Now.calls[d], T.calls[d])
      BY <1>0, <1>1, <3>1 DEF CallRefers, SameCall
    <3> QED BY <1>2, <3>1 DEF Confined
  <2> QED BY <2>1 DEF Refers
<1>4. Returns(T, p)
  BY <1>0, <1>1, <1>2, <1>3 DEF Returns
<1> QED BY <1>4 DEF T

\* The connection of a dial that was given up is lendable.
LEMMA PendingDialReturns ==
  ASSUME Sound(Now), NEW p \in Conns, PendingDial(p)
  PROVE  LET S == [Now EXCEPT !.conns[p] = [@ EXCEPT !.pending = FALSE, !.dial = "done"]]
             Q == [conns[p] EXCEPT !.pending = FALSE, !.dial = "done"] IN
         /\ Returns(S, p) /\ S.conns[p] = Q /\ S.calls = calls
         /\ Q \in PConnType /\ Q.closed = conns[p].closed
<1> DEFINE Q == [conns[p] EXCEPT !.pending = FALSE, !.dial = "done"]
           S == [Now EXCEPT !.conns[p] = [@ EXCEPT !.pending = FALSE, !.dial = "done"]]
           T == Turn(Now, p, Q, calls)
<1>0. /\ conns[p] \in PConnType /\ OneCall(Now, p) /\ RequestsKept(Now, p) /\ Owned(Now, p) /\ calls \in [Calls -> CallType]
      /\ Now.conns[p] = conns[p] /\ Now.calls = calls /\ Now.pool = pool /\ p \in DOMAIN Now.conns
      /\ Now = [pool |-> pool, conns |-> conns, calls |-> calls]
  BY ConnFields, NowFields
<1>1. conns[p].dial \in {"ready", "failed"}
  BY DEF PendingDial
<1>3. /\ Users(Now, p) = {} /\ conns[p].reqch = {} /\ conns[p].rc = {} /\ p \notin pool.lru
      /\ conns[p].read \notin {"recycle", "deliver", "error", "body", "eofc"} /\ (\A c \in Calls : calls[c].conn # p)
  BY <1>0, <1>1, NewConn
<1>4. S = T
  BY <1>0 DEF Turn, Now
<1>5. Q \in PConnType
  BY <1>0, Values DEF PConnType
<1>6. /\ Q.key = conns[p].key /\ Q.dial = "done" /\ Q.read = conns[p].read /\ Q.rc = {} /\ Q.reqch = {}
      /\ Q.closed = conns[p].closed
  BY <1>0, <1>3 DEF PConnType
<1> HIDE DEF Q, S
<1>7. T.pool = pool /\ T.calls = calls /\ T.conns[p] = Q /\ T \in StateType
  BY <1>0, <1>5, TurnNowIs
<1> HIDE DEF T
<1>8. Lendable(T, p)
  <2>1. Users(T, p) = {} /\ ~WithBody(Q)
    BY <1>3, <1>6, <1>7 DEF Users, Has, WithBody
  <2>2. RequestsKept(T, p)
    BY <1>3, <1>6, <1>7, <2>1 DEF RequestsKept
  <2>3. Q.closed = "no" => Q.read # "none"
    BY <1>0, <1>1, <1>6 DEF Owned
  <2> QED BY <1>3, <1>6, <1>7, <2>1, <2>2, <2>3 DEF Lendable
<1>9. Confined(Now, T, p)
  BY <1>0, <1>7, SameCallSelf DEF Confined
<1>10. Returns(S, p)
  BY <1>0, <1>4, <1>5, <1>6, <1>8, <1>9, ReturnsTurn DEF T
<1> QED BY <1>4, <1>5, <1>6, <1>7, <1>10 DEF S, Q

LEMMA PendingDialSound ==
  ASSUME Sound(Now), NEW p \in Conns, PendingDial(p)
  PROVE  Sound(Now)'
<1> DEFINE Q == [conns[p] EXCEPT !.pending = FALSE, !.dial = "done"]
           S == [Now EXCEPT !.conns[p] = [@ EXCEPT !.pending = FALSE, !.dial = "done"]]
<1>1. IF conns[p].dial = "failed" THEN Becomes(S) ELSE \E V \in PutOrCloseIdleConn(S, p) : Becomes(V)
  BY DEF PendingDial
<1>2. Returns(S, p) /\ S.conns[p] = Q /\ Q \in PConnType /\ Q.closed = conns[p].closed
  BY PendingDialReturns
<1> HIDE DEF S, Q
<1>3. CASE conns[p].dial = "failed"
  <2>1. Q.closed # "no"
    BY <1>2, <1>3, ConnFields DEF Owned
  <2>2. Outcome(S, p, S, FALSE) /\ S \in StateType /\ p \in DOMAIN S.conns
    BY <1>2, ReturnsListed
  <2>3. SameLoan(S.conns[p], Q)
    BY <1>2 DEF SameLoan
  <2>4. Sound([S EXCEPT !.conns[p] = Q])
    BY <1>2, <2>1, <2>2, <2>3, Put
  <2>5. [S EXCEPT !.conns[p] = Q] = S
    <3>1. S.conns \in Seq(PConnType)
      BY <2>2, StateFields
    <3>2. [S.conns EXCEPT ![p] = Q] = S.conns
      BY <1>2, <2>2, <3>1
    <3> QED BY <2>2, <3>2 DEF StateType
  <2> QED BY <1>1, <1>3, <2>4, <2>5, SoundBecomes
<1>4. CASE conns[p].dial # "failed"
  <2>1. PICK V \in PutOrCloseIdleConn(S, p) : Becomes(V)
    BY <1>1, <1>4
  <2>2. Sound(V)
    BY <1>2, <2>1, PutOrClose
  <2> QED BY <2>1, <2>2, SoundBecomes
<1> QED BY <1>3, <1>4

\* The connection of a call that was canceled before it used it is lendable.
LEMMA EnterCanceledReturns ==
  ASSUME Sound(Now), NEW c \in Calls, EnterRoundTrip(c), calls[c].canceler = "none"
  PROVE  LET S == Fails(Now, c, "canceled") p == calls[c].conn IN
         /\ Returns(S, p) /\ S.conns[p] = conns[p] /\ p \in Conns /\ calls[c].pc = "enter"
         /\ S.calls[c].pc = "failed" /\ S.calls[c].res = calls[c].res /\ \A d \in Calls : d # c => S.calls[d] = calls[d]
<1> DEFINE p == calls[c].conn
           C == [calls[c] EXCEPT !.pc = "failed", !.err = "canceled", !.canceler = "none"]
           cl == [calls EXCEPT ![c] = C]
           S == Fails(Now, c, "canceled")
           T == Turn(Now, p, conns[p], cl)
<1>0. /\ calls[c].pc = "enter" /\ calls \in [Calls -> CallType] /\ calls[c] \in CallType /\ Now.calls = calls /\ Now.pool = pool
      /\ Now.conns = conns /\ p \in Conns /\ p \in DOMAIN conns /\ conns[p] \in PConnType /\ RequestsKept(Now, p)
      /\ p \in 0..Len(conns) /\ p # 0 /\ conns \in Seq(PConnType)
      /\ Now = [pool |-> pool, conns |-> conns, calls |-> calls]
  BY CallFields, NowFields DEF EnterRoundTrip, Kept
<1>2. /\ Users(Now, p) = {c} /\ c \notin conns[p].rc /\ conns[p].reqch = {} /\ conns[p].dial = "done" /\ p \notin pool.lru
      /\ conns[p].read \notin {"body", "recycle"} /\ ~WithBody(conns[p]) /\ (conns[p].closed = "no" => conns[p].read \notin {"none", "error"})
  BY <1>0, Lonely
<1>3. C \in CallType
  BY <1>0, Values DEF CallType
<1>4. C.conn = p /\ C.pc = "failed" /\ C.canceler = "none" /\ C.res = calls[c].res
  BY <1>0 DEF CallType
<1>5. S = T
  <2>1. [conns EXCEPT ![p] = conns[p]] = conns
    BY <1>0
  <2>2. S = [pool |-> pool, conns |-> conns, calls |-> cl]
    BY <1>0 DEF Fails, Now
  <2> HIDE DEF cl
  <2> QED BY <1>0, <2>1, <2>2 DEF Turn
<1> HIDE DEF C, S
<1>6. cl \in [Calls -> CallType] /\ cl[c] = C /\ \A d \in Calls : d # c => cl[d] = calls[d]
  BY <1>0, <1>3
<1> HIDE DEF cl
<1>7. T.pool = pool /\ T.calls = cl /\ T.conns[p] = conns[p] /\ T \in StateType /\ Len(T.conns) = Len(conns)
  BY <1>0, <1>6, TurnNowIs
<1> HIDE DEF T, p
<1>8. Lendable(T, p)
  <2>1. Users(T, p) = {}
    <3>1. ~Has(T, c, p)
      BY <1>4, <1>6, <1>7 DEF Has
    <3>2. \A d \in Calls : d # c => ~Has(T, d, p)
      BY <1>0, <1>2, <1>6, <1>7 DEF Users, Has
    <3> QED BY <3>1, <3>2 DEF Users
  <2>2. conns[p].rc \in SUBSET Calls
    BY <1>0 DEF PConnType
  <2>3. \A d \in conns[p].rc : T.calls[d] = calls[d]
    BY <1>2, <1>6, <1>7, <2>2
  <2>4. RequestsKept(T, p)
    BY <1>0, <1>2, <1>7, <2>1, <2>3 DEF RequestsKept
  <2> QED BY <1>2, <1>7, <2>1, <2>4 DEF Lendable
<1>9. Confined(Now, T, p)
  <2>1. CallRefers(T, c)
    BY <1>0, <1>4, <1>6, <1>7 DEF CallRefers
  <2>2. Now.calls[c].conn = p /\ T.calls[c].conn = p /\ \A d \in Calls : d # c => T.calls[d] = Now.calls[d]
    BY <1>0, <1>4, <1>6, <1>7 DEF p
  <2> QED BY <2>1, <2>2, ConfinedOne
<1>10. Returns(S, p)
  BY <1>0, <1>5, <1>6, <1>8, <1>9, ReturnsTurn DEF T
<1> QED BY <1>0, <1>4, <1>5, <1>6, <1>7, <1>10 DEF S, p

LEMMA EnterCanceledSound ==
  ASSUME Sound(Now), NEW c \in Calls, EnterRoundTrip(c), calls[c].canceler = "none"
  PROVE  Sound(Now)'
<1> DEFINE S == Fails(Now, c, "canceled")
           p == calls[c].conn
<1>1. PICK V \in PutOrCloseIdleConn(S, p) : Becomes(V)
  BY DEF EnterRoundTrip
<1>2. Returns(S, p) /\ p \in Conns
  BY EnterCanceledReturns
<1> HIDE DEF S, p
<1>3. Sound(V)
  BY <1>2, PutOrClose
<1> QED BY <1>1, <1>3, SoundBecomes

\* The response of p is at its end: p is lendable.
LEMMA ResponseEnds ==
  ASSUME Sound(Now), NEW p \in Conns, NEW to,
         \/ conns[p].read = "recycle" /\ to = "deliver"
         \/ conns[p].read = "body" /\ to = "eofc"
  PROVE  LET S == NoCanceler(WithConn(Now, p, [conns[p] EXCEPT !.read = to, !.werrch = "none"]), RC(p)) IN
         Returns(S, p) /\ S.conns[p].read = to
<1> DEFINE c == RC(p)
           Q == [conns[p] EXCEPT !.read = to, !.werrch = "none"]
           C == [calls[c] EXCEPT !.canceler = "none"]
           cl == [calls EXCEPT ![c] = C]
           S == NoCanceler(WithConn(Now, p, Q), c)
           T == Turn(Now, p, Q, cl)
<1>0. /\ conns[p] \in PConnType /\ OneCall(Now, p) /\ RequestsKept(Now, p) /\ calls \in [Calls -> CallType]
      /\ Now.conns[p] = conns[p] /\ Now.calls = calls /\ Now.pool = pool /\ p \in DOMAIN conns
      /\ conns[p].rc \in SUBSET Calls /\ conns[p].reqch \in SUBSET Calls
  BY ConnFields
<1>1. conns[p].rc # {} /\ conns[p].dial = "done" /\ p \notin pool.lru
  BY <1>0 DEF RequestsKept
<1>2. c \in conns[p].rc /\ c \in Calls
  BY <1>0, <1>1 DEF RC
<1>3. conns[p].rc = {c} /\ to \in Reads
  <2>1. \A x, y \in conns[p].rc : x = y
    BY <1>0 DEF RequestsKept
  <2>2. to \in Reads
    BY Values
  <2> HIDE DEF c
  <2> QED BY <1>2, <2>1, <2>2
<1>4. Q \in PConnType
  BY <1>0, <1>3, Values DEF PConnType
<1>5. /\ Q.key = conns[p].key /\ Q.dial = "done" /\ Q.read = to /\ Q.rc = {c} /\ Q.reqch = conns[p].reqch /\ Q.resp = conns[p].resp
      /\ Q.closed = conns[p].closed
  BY <1>0, <1>1, <1>3 DEF PConnType
<1>6. calls[c] \in CallType
  BY <1>0, <1>2
<1> HIDE DEF c
<1>7. C \in CallType
  BY <1>6, Values DEF CallType
<1>8. C.conn = calls[c].conn /\ C.pc = calls[c].pc /\ SameCall(calls[c], C)
  BY <1>6 DEF CallType, SameCall
<1>9. S = T
  <2> DEFINE cs == [conns EXCEPT ![p] = Q]
  <2> HIDE DEF Q
  <2>1. WithConn(Now, p, Q) = [pool |-> pool, conns |-> cs, calls |-> calls] /\ T = [pool |-> pool, conns |-> cs, calls |-> cl]
    BY DEF Turn, WithConn, Now
  <2> HIDE DEF cs, T
  <2>2. NoCanceler([pool |-> pool, conns |-> cs, calls |-> calls], c) = [pool |-> pool, conns |-> cs, calls |-> cl]
    BY DEF NoCanceler
  <2> HIDE DEF cl
  <2> QED BY <2>1, <2>2
<1> HIDE DEF Q, C, S
<1>10. cl \in [Calls -> CallType] /\ cl[c] = C /\ \A d \in Calls : d # c => cl[d] = calls[d]
  BY <1>0, <1>2, <1>7
<1> HIDE DEF cl
<1>11. T.pool = pool /\ T.calls = cl /\ T.conns[p] = Q /\ T \in StateType
  BY <1>4, <1>10, TurnNowIs
<1>12. \A d \in Calls : T.calls[d].conn = calls[d].conn /\ T.calls[d].pc = calls[d].pc
  BY <1>8, <1>10, <1>11
<1> HIDE DEF T
<1>13. Users(T, p) = {}
  <2>1. \A d \in Users(T, p) : Has(Now, d, p)
    BY <1>0, <1>11, <1>12 DEF Users, Has
  <2>2. CASE conns[p].read = "recycle" /\ to = "deliver"
    <3>1. Users(Now, p) \subseteq {c}
      BY <1>0, <1>3, <2>2 DEF OneCall
    <3>2. c \notin Users(T, p)
      BY <1>5, <1>11, <2>2 DEF Users, Has
    <3> QED BY <2>1, <3>1, <3>2 DEF Users
  <2>3. CASE conns[p].read = "body"
    <3>1. Users(Now, p) = {}
      BY <1>0, <2>3 DEF OneCall
    <3> QED BY <2>1, <3>1 DEF Users
  <2> QED BY <2>2, <2>3
<1>14. ~WithBody(Q)
  BY <1>0, <1>2, <1>5 DEF WithBody, RequestsKept
<1>15. RequestsKept(T, p)
  <2>1. CASE conns[p].read = "recycle" /\ to = "deliver"
    <3>1. /\ calls[c].conn = p => calls[c].pc \notin {"enter", "send"}
          /\ conns[p].closed = "no" => calls[c].conn = p /\ calls[c].pc = "sent"
          /\ conns[p].resp # {}
      BY <1>0, <1>2, <2>1 DEF RequestsKept
    <3>2. \A d \in conns[p].reqch :
            /\ d \notin conns[p].rc /\ (calls[d].conn = p => calls[d].pc \notin {"enter", "send"})
            /\ conns[p].closed = "no" => calls[d].conn = p /\ calls[d].pc = "sent"
      BY <1>0 DEF RequestsKept
    <3> QED BY <1>0, <1>1, <1>2, <1>3, <1>5, <1>11, <1>12, <1>13, <1>14, <2>1, <3>1, <3>2 DEF RequestsKept
  <2>2. CASE conns[p].read = "body" /\ to = "eofc"
    <3>1. /\ calls[c].conn = p => calls[c].pc \notin {"enter", "send"}
          /\ calls[c].conn = p /\ calls[c].pc \in {"body", "eofwait", "returned"}
      BY <1>0, <1>2, <2>2 DEF RequestsKept
    <3>2. \A d \in conns[p].reqch :
            /\ d \notin conns[p].rc /\ (calls[d].conn = p => calls[d].pc \notin {"enter", "send"})
            /\ conns[p].closed = "no" => calls[d].conn = p /\ calls[d].pc = "sent"
      BY <1>0 DEF RequestsKept
    <3> QED BY <1>0, <1>1, <1>2, <1>3, <1>5, <1>11, <1>12, <1>13, <1>14, <2>2, <3>1, <3>2 DEF RequestsKept
  <2> QED BY <2>1, <2>2
<1>16. Lendable(T, p)
  BY <1>1, <1>5, <1>11, <1>13, <1>14, <1>15 DEF Lendable
<1>17. Confined(Now, T, p)
  <2>1. \A d \in Calls : SameCall(Now.calls[d], T.calls[d])
    BY <1>0, <1>8, <1>10, <1>11, SameCallSelf
  <2> QED BY <2>1 DEF Confined
<1>18. Returns(T, p)
  BY <1>4, <1>5, <1>10, <1>16, <1>17, ReturnsTurn DEF T
<1> QED BY <1>5, <1>9, <1>11, <1>18 DEF S, Q, c

LEMMA RecycleSound ==
  ASSUME Sound(Now), NEW p \in Conns, Recycle(p)
  PROVE  Sound(Now)'
<1> DEFINE S == NoCanceler(WithConn(Now, p, [conns[p] EXCEPT !.read = "deliver", !.werrch = "none"]), RC(p))
<1>1. conns[p].read = "recycle"
  BY DEF Recycle
<1>2. PICK keep : IF keep THEN \E r \in TryPutIdleConn(S, p) : Becomes([r.s EXCEPT !.conns[p].alive = r.ok])
                  ELSE Becomes([S EXCEPT !.conns[p].alive = FALSE])
  BY DEF Recycle
<1>3. Returns(S, p) /\ S.conns[p].read = "deliver"
  BY <1>1, ResponseEnds
<1> HIDE DEF S
<1> QED BY <1>2, <1>3, PutOrEnd

LEMMA BodyDoneSound ==
  ASSUME Sound(Now), NEW p \in Conns, BodyDone(p)
  PROVE  Sound(Now)'
<1> DEFINE S == NoCanceler(WithConn(Now, p, [conns[p] EXCEPT !.read = "eofc", !.werrch = "none"]), RC(p))
<1>1. conns[p].read = "body"
  BY DEF BodyDone
<1>2. PICK keep : IF keep THEN \E r \in TryPutIdleConn(S, p) : Becomes([r.s EXCEPT !.conns[p].alive = r.ok])
                  ELSE Becomes([S EXCEPT !.conns[p].alive = FALSE])
  BY DEF BodyDone
<1>3. Returns(S, p) /\ S.conns[p].read = "eofc"
  BY <1>1, ResponseEnds
<1> HIDE DEF S
<1> QED BY <1>2, <1>3, PutOrEnd

-----------------------------------------------------------------------------
(* The pool *)

LEMMA InitSound == Init => Sound(Now)
<1> SUFFICES ASSUME Init PROVE Sound(Now)
  OBVIOUS
<1>1. conns = <<>> /\ calls = [c \in Calls |-> NewCall] /\ Now.pool = pool /\ Now.conns = conns /\ Now.calls = calls
      /\ pool = [idle |-> [k \in Keys |-> <<>>], lru |-> {}, older |-> {}, ch |-> [k \in Keys |-> 0],
                 chans |-> 0, wantIdle |-> FALSE, skipped |-> {}]
  BY DEF Init, Now
<1>2. NewCall \in CallType
  BY Values DEF NewCall, CallType
<1>3. pool \in PoolType /\ pool.lru = {} /\ pool.older = {} /\ \A k \in Keys : pool.idle[k] = <<>>
  BY <1>1 DEF PoolType
<1>4. Now \in StateType /\ Len(conns) = 0 /\ DOMAIN conns = {}
  BY <1>1, <1>2, <1>3 DEF StateType, Now
<1>5. Listed(Now)
  <2>1. Filed(Now)
    BY <1>1, <1>3, HttpTransportAssumption DEF Filed
  <2>2. InOrder(Now.pool)
    BY <1>1, <1>3 DEF InOrder
  <2>3. Limited(Now)
    BY <1>1, <1>3, FS_EmptySet, HttpTransportAssumption DEF Limited
  <2> QED BY <2>1, <2>2, <2>3 DEF Listed, Arranged
<1>6. Refers(Now)
  BY <1>1, <1>4 DEF Refers, CallRefers, NewCall
<1> QED BY <1>1, <1>4, <1>5, <1>6, HttpTransportAssumption DEF Sound, TypeOf, AllKept

\* The script stays.
LEMMA ScriptStays == [Next]_vars => may' = may
<1>1. \A S : Becomes(S) => may' = may
  BY DEF Becomes
<1>2. ASSUME NEW c \in Calls, Step(c) \/ HeaderTimeout(c) \/ ContextEnds(c) \/ CallerCancels(c) PROVE may' = may
  BY <1>1, <1>2 DEF Step, GetConn, GotDial, WaitCanceled, EnterRoundTrip, SendRequest, SeesWrite, SeesClosed, SeesCancel, Retry,
     ReadBody, HeaderTimeout, ContextEnds, CallerCancels
<1>3. ASSUME NEW p \in Conns, ReadLoop(p) PROVE may' = may
  BY <1>1, <1>3 DEF ReadLoop, PeekUnexpected, ReadResponse, Recycle, Deliver, BodyDone, BodyCanceled, Eofc, ReadLoopEnds
<1>4. ASSUME NEW p \in Conns, WriteLoop(p) \/ Dialer(p) \/ Server(p) \/ IdleTimerFires(p) \/ CloseConnIfStillIdle(p) PROVE may' = may
  BY <1>1, <1>4 DEF WriteLoop, WriteHead, WriteBody, WriteFails, WriteLoopEnds, Dialer, DialDone, PendingDial, Server, SrvRespond,
     SrvClose, IdleTimerFires, CloseConnIfStillIdle
<1>5. CloseIdleConnections => may' = may
  BY <1>1 DEF CloseIdleConnections
<1> QED BY <1>2, <1>3, <1>4, <1>5 DEF Next, vars

LEMMA NextSound ==
  ASSUME Sound(Now), may \in Scripts, [Next]_vars
  PROVE  Sound(Now)' /\ may' \in Scripts
<1>1. ASSUME NEW c \in Calls, Step(c) PROVE Sound(Now)'
  <2>1. EnterRoundTrip(c) => Sound(Now)'
    BY EntersSound, EnterCanceledSound
  <2> QED BY <1>1, <2>1, GetConnSound, GotDialSound, WaitCanceledSound, SendRequestSound, SeesWriteSound, SeesClosedSound,
             CancelsSound, RetrySound, ReadBodySound DEF Step
<1>2. ASSUME NEW p \in Conns, ReadLoop(p) PROVE Sound(Now)'
  BY <1>2, PeekUnexpectedSound, ReadResponseSound, RecycleSound, DeliverSound, BodyDoneSound, BodyCanceledSound, EofcSound,
     ReadLoopEndsSound DEF ReadLoop
<1>3. ASSUME NEW p \in Conns, WriteLoop(p) \/ Dialer(p) \/ Server(p) PROVE Sound(Now)'
  BY <1>3, WriteHeadSound, WriteBodySound, WriteFailsSound, WriteLoopEndsSound, DialDoneSound, PendingDialSound,
     SrvRespondSound, SrvCloseSound DEF WriteLoop, Dialer, Server
<1>4. CASE UNCHANGED vars
  <2>1. Now' = Now /\ may' = may
    BY <1>4 DEF vars, Now
  <2> QED BY <2>1, SoundNext
<1>5. Next => Sound(Now)'
  BY <1>1, <1>2, <1>3, HeaderTimeoutSound, ContextEndsSound, CancelsSound, IdleTimerFiresSound, CloseConnIfStillIdleSound,
     CloseIdleConnectionsSound DEF Next
<1>6. may' = may
  BY ScriptStays
<1> QED BY <1>4, <1>5, <1>6

\* The pool is sound: the free lists and the LRU list agree, a connection is lent to one call at a
\* time, and every open connection is idle, in use, or about to be closed (tryPutIdleConn,
\* getIdleConn, readLoop, roundTrip), whatever is canceled, times out or is closed by the server.
THEOREM PoolStaysSound == Spec => []PoolSound
<1>1. Init => Sound(Now) /\ may \in Scripts
  BY InitSound DEF Init
<1>2. Sound(Now) /\ may \in Scripts /\ [Next]_vars => Sound(Now)' /\ (may \in Scripts)'
  BY NextSound
<1>3. Sound(Now) => PoolSound
  BY SoundMeans
<1> QED BY <1>1, <1>2, <1>3, PTL DEF Spec

-----------------------------------------------------------------------------
(* The calls: the invariant *)

\* The read loop may still read a response.
Live(P) == P.read \in {"none", "peek", "recycle", "deliver", "body", "eofc"}
\* Both ends have the connection.
Open(P) == P.closed = "no" /\ ~P.srvClosed

\* What the server sent and nobody read: all of the response to the request in reqch, or the body
\* of the response that the read loop hands over.
BodyLeft(P) ==
  /\ Len(P.out) = 1 /\ \E c \in P.rc : Req(c).resBody
  /\ P.read = "deliver" \/ (P.read \in {"body", "eofc"} /\ P.bodyRead # "eof")
Whole(P, c) ==
  P.reqch = {c} /\ Head(P.out).k = "head" /\ Head(P.out).call = c /\ Len(P.out) = IF Req(c).resBody THEN 2 ELSE 1
OutIs(P) == P.out # <<>> => BodyLeft(P) \/ \E c \in P.reqch : Whole(P, c)

\* The server has at most one request to answer, and it is the one in reqch; so is a request that
\* is not written yet.
Unanswered(P) ==
  Open(P) /\ P.answered # Len(P.got) => P.out = <<>> /\ P.answered + 1 = Len(P.got) /\ P.reqch = {P.got[Len(P.got)]}
NotWritten(P) ==
  Open(P) /\ P.write = "idle" => \A c \in P.writech : P.reqch = {c} /\ P.out = <<>> /\ P.answered = Len(P.got)
InTurn(P) ==
  OutIs(P) /\ Unanswered(P) /\ NotWritten(P) /\ (WithBody(P) \/ P.read = "body" => P.reqch = {})

\* The response in the read loop's hands answers the request in its hands.
RespIs(P) == P.read \in {"recycle", "deliver"} => \A c \in P.rc, r \in P.resp : r.k = "head" /\ r.call = c

\* A connection whose body was not read to its end goes to nobody.
Spoilt(P) == P.read = "eofc" /\ P.bodyRead # "eof"

InLine(S, p) ==
  LET P == S.conns[p] IN
  /\ RespIs(P) /\ (P.read = "error" => ~Open(P)) /\ (P.dial # "done" => P.writech = {}) /\ (P.dial = "dialing" => P.read = "none")
  /\ Live(P) => InTurn(P)
  /\ Live(P) => \A c \in Calls : S.calls[c].conn = p /\ S.calls[c].pc = "body" =>
                  c \in P.rc /\ P.read = "body" /\ P.bodyRead = "none"
  /\ Spoilt(P) => /\ ~P.alive /\ p \notin S.pool.lru
                  /\ \A c \in Calls : S.calls[c].conn = p => S.calls[c].pc \notin {"enter", "send", "sent"}

\* A request that may not be replayed and that was written.
Past == {"sent", "failed", "body", "eofwait", "returned"}
Seen(S, c) == \E p \in DOMAIN S.conns : \E i \in DOMAIN S.conns[p].got : S.conns[p].got[i] = c
Written(S, p, i) ==
  LET c == S.conns[p].got[i] C == S.calls[c] IN
  ~Req(c).replayable =>
    /\ C.pc \in Past
    /\ C.pc = "sent" => C.conn = p /\ C.start < S.conns[p].nwrite /\ C.wch # "nothing"
    /\ C.pc = "failed" => C.err # "nothing"
    /\ \A q \in DOMAIN S.conns : \A j \in DOMAIN S.conns[q].got : S.conns[q].got[j] = c => q = p /\ i = j
Unwritten(S, p, c) ==
  LET P == S.conns[p] C == S.calls[c] IN
  P.write = "idle" =>
    /\ Open(P) => C.pc = "sent" /\ C.conn = p
    /\ C.pc = "sent" /\ C.conn = p => C.wch = "none" /\ (Req(c).replayable \/ ~Seen(S, c))
SentOnce(S) ==
  /\ \A p \in DOMAIN S.conns : \A i \in DOMAIN S.conns[p].got : Written(S, p, i)
  /\ \A p \in DOMAIN S.conns : \A c \in S.conns[p].writech : Unwritten(S, p, c)
  /\ \A c \in Calls : S.calls[c].pc = "sent" => S.calls[c].start <= S.conns[S.calls[c].conn].nwrite

Matched(S) == \A c \in Calls : S.calls[c].res \in {"none", c}

AllInLine(S) == \A p \in DOMAIN S.conns : InLine(S, p)
Orderly(S) == AllInLine(S) /\ SentOnce(S) /\ Matched(S)

LEMMA OrderlyMeans ==
  ASSUME Sound(Now), Orderly(Now)
  PROVE  CallsKept
<1>1. TypeOK
  BY DEF Sound, TypeOK
<1>2. ResponseMatches
  BY NowFields DEF Orderly, Matched, ResponseMatches
<1>3. RetrySafe
  BY SMTT(40), NowFields DEF Orderly, SentOnce, Written, RetrySafe
<1> QED BY <1>1, <1>2, <1>3 DEF CallsKept

LEMMA OrderlyNext ==
  ASSUME may' = may, Orderly(Now')
  PROVE  Orderly(Now)'
<1>1. \A P : /\ WithBody(P)' <=> WithBody(P)
             /\ BodyLeft(P)' <=> BodyLeft(P)
             /\ \A c : Whole(P, c)' <=> Whole(P, c)
  BY DEF WithBody, BodyLeft, Whole, Req
<1>2. \A P : OutIs(P)' <=> OutIs(P)
  BY <1>1 DEF OutIs
<1>3. \A P : InTurn(P)' <=> InTurn(P)
  BY <1>1, <1>2 DEF InTurn, Unanswered, NotWritten, Open
<1>4. AllInLine(Now)'
  BY <1>3 DEF Orderly, AllInLine, InLine, RespIs, Live, Open, Spoilt
<1>5. SentOnce(Now)'
  <2>1. \A p, i : Written(Now, p, i)' <=> Written(Now', p, i)
    BY DEF Written, Req
  <2>2. \A p, c : Unwritten(Now, p, c)' <=> Unwritten(Now', p, c)
    BY DEF Unwritten, Req, Seen, Open
  <2> QED BY <2>1, <2>2 DEF Orderly, SentOnce
<1>6. Matched(Now)'
  BY DEF Orderly, Matched
<1> QED BY <1>4, <1>5, <1>6 DEF Orderly

\* The step to a state that is typed.
LEMMA NextTyped ==
  ASSUME Sound(Now)'
  PROVE  Now' \in StateType
BY DEF Sound, TypeOf

-----------------------------------------------------------------------------
(* Steps that leave a connection or a request alone *)

\* The two ends of a connection have no more to say to each other.
SameTalk(P, Q) ==
  /\ Q.read = P.read /\ Q.reqch = P.reqch /\ Q.rc = P.rc /\ Q.alive = P.alive /\ Q.bodyRead = P.bodyRead /\ Q.resp = P.resp
  /\ Q.got = P.got /\ Q.nwrite = P.nwrite /\ Q.answered = P.answered /\ Q.out = P.out
  /\ Q.dial = P.dial \/ Q.dial = "done"
  /\ Q.writech = {} \/ (Q.writech = P.writech /\ (Q.write = P.write \/ Q.write # "idle"))
  /\ Open(Q) => Open(P)

\* The calls that read from connection q did so before; when q may not be used again, nobody got it.
NobodyNew(S, T, q) ==
  /\ \A c \in Calls : T.calls[c].conn = q /\ T.calls[c].pc = "body" => S.calls[c].conn = q /\ S.calls[c].pc = "body"
  /\ Spoilt(S.conns[q]) =>
       /\ q \in T.pool.lru => q \in S.pool.lru
       /\ \A c \in Calls : T.calls[c].conn = q /\ T.calls[c].pc \in {"enter", "send", "sent"} =>
            S.calls[c].conn = q /\ S.calls[c].pc \in {"enter", "send", "sent"}

LEMMA LighterTalk ==
  ASSUME NEW P, NEW Q, Lighter(P, Q)
  PROVE  SameTalk(P, Q)
BY DEF Lighter, SameWork, SameTalk, Open

LEMMA InTurnSame ==
  ASSUME NEW P, NEW Q, SameTalk(P, Q), InTurn(P)
  PROVE  InTurn(Q)
<1>1. OutIs(Q)
  BY DEF SameTalk, InTurn, OutIs, BodyLeft, Whole
<1>2. WithBody(Q) <=> WithBody(P)
  BY DEF SameTalk, WithBody
<1> QED BY <1>1, <1>2 DEF SameTalk, InTurn, Unanswered, NotWritten

LEMMA InLineSame ==
  ASSUME NEW S, NEW T, NEW q, InLine(S, q), SameTalk(S.conns[q], T.conns[q]), NobodyNew(S, T, q)
  PROVE  InLine(T, q)
<1> DEFINE P == S.conns[q] Q == T.conns[q]
<1>1. SameTalk(P, Q)
  OBVIOUS
<1>2. RespIs(Q) /\ (Q.read = "error" => ~Open(Q)) /\ (Q.dial # "done" => Q.writech = {}) /\ (Q.dial = "dialing" => Q.read = "none")
  BY DEF InLine, SameTalk, RespIs
<1>3. Live(Q) => Live(P) /\ InTurn(Q)
  BY <1>1, InTurnSame DEF InLine, Live, SameTalk
<1>4. Live(Q) => \A c \in Calls : T.calls[c].conn = q /\ T.calls[c].pc = "body" => c \in Q.rc /\ Q.read = "body" /\ Q.bodyRead = "none"
  BY <1>3 DEF InLine, NobodyNew, SameTalk
<1>5. Spoilt(Q) => /\ ~Q.alive /\ q \notin T.pool.lru
                   /\ \A c \in Calls : T.calls[c].conn = q => T.calls[c].pc \notin {"enter", "send", "sent"}
  BY DEF InLine, NobodyNew, SameTalk, Spoilt
<1> QED BY <1>2, <1>3, <1>4, <1>5 DEF InLine

\* A connection whose sending did not change, or that has nothing to send.
SameSending(P, Q) ==
  /\ Q.got = P.got /\ Q.nwrite = P.nwrite
  /\ \/ Q.writech = {}
     \/ Q.writech = P.writech /\ (Q.write = P.write \/ Q.write # "idle") /\ (Open(Q) => Open(P))

LEMMA TalkSending ==
  ASSUME NEW P, NEW Q, SameTalk(P, Q)
  PROVE  SameSending(P, Q)
BY DEF SameTalk, SameSending

\* A call that sends nothing: when it was written it stays so, and when it gives up before that,
\* the connection is closed.
Quiet(S, T, c) ==
  LET C == S.calls[c] D == T.calls[c] IN
  /\ D.pc = "sent" =>
       /\ C.pc = "sent" /\ D.conn = C.conn /\ D.start = C.start
       /\ D.wch = C.wch \/ (c \notin T.conns[D.conn].writech /\ (Seen(S, c) /\ ~Req(c).replayable => D.wch # "nothing"))
  /\ Seen(S, c) /\ ~Req(c).replayable /\ C.pc \in Past =>
       D.pc \in Past /\ (D.pc = "failed" => D.err # "nothing" \/ (C.pc = "failed" /\ D.err = C.err))
  /\ \A p \in DOMAIN T.conns : C.pc = "sent" /\ C.conn = p /\ (D.pc # "sent" \/ D.conn # p) =>
       c \notin T.conns[p].writech \/ T.conns[p].write # "idle" \/ ~Open(T.conns[p])

\* What is known of a request that was written and may not be replayed.
LEMMA SeenIs ==
  ASSUME NEW S, SentOnce(S), NEW c, Seen(S, c), ~Req(c).replayable
  PROVE  /\ S.calls[c].pc \in Past
         /\ S.calls[c].pc = "sent" => S.calls[c].start < S.conns[S.calls[c].conn].nwrite /\ S.calls[c].wch # "nothing"
         /\ S.calls[c].pc = "failed" => S.calls[c].err # "nothing"
BY SMTT(40) DEF SentOnce, Seen, Written

LEMMA SentQuiet ==
  ASSUME NEW S \in StateType, NEW T \in StateType, SentOnce(S), Refers(S), DOMAIN S.conns \subseteq DOMAIN T.conns,
         \A q \in DOMAIN S.conns : SameSending(S.conns[q], T.conns[q]),
         \A q \in DOMAIN T.conns : q \in DOMAIN S.conns \/ (T.conns[q].got = <<>> /\ T.conns[q].writech = {}),
         \A c \in Calls : Quiet(S, T, c)
  PROVE  SentOnce(T)
<1>0. \A q \in DOMAIN T.conns : T.conns[q].got # <<>> \/ T.conns[q].writech # {} =>
        q \in DOMAIN S.conns /\ SameSending(S.conns[q], T.conns[q])
  OBVIOUS
<1>1. \A q \in DOMAIN T.conns : \A i \in DOMAIN T.conns[q].got :
        q \in DOMAIN S.conns /\ T.conns[q].got = S.conns[q].got /\ T.conns[q].nwrite = S.conns[q].nwrite /\ i \in DOMAIN S.conns[q].got
  BY <1>0 DEF SameSending
<1>a. \A q \in DOMAIN T.conns : T.conns[q].got \in Seq(Calls) /\ T.conns[q].writech \in SUBSET Calls
  BY StateFields DEF PConnType
<1>2. \A c : Seen(T, c) => Seen(S, c)
  BY <1>1 DEF Seen
<1>3. ASSUME NEW p \in DOMAIN T.conns, NEW i \in DOMAIN T.conns[p].got PROVE Written(T, p, i)
  <2> DEFINE c == T.conns[p].got[i]
  <2>1. p \in DOMAIN S.conns /\ c = S.conns[p].got[i] /\ i \in DOMAIN S.conns[p].got /\ Written(S, p, i) /\ T.conns[p].nwrite = S.conns[p].nwrite
    BY <1>1, <1>3 DEF SentOnce
  <2>2. c \in Calls
    BY <1>a, <1>3
  <2>3. Seen(S, c)
    BY <2>1 DEF Seen
  <2>4. Quiet(S, T, c)
    BY <2>2
  <2>5. ASSUME NEW q \in DOMAIN T.conns, NEW j \in DOMAIN T.conns[q].got, T.conns[q].got[j] = c, ~Req(c).replayable PROVE q = p /\ i = j
    <3>1. q \in DOMAIN S.conns /\ j \in DOMAIN S.conns[q].got /\ S.conns[q].got[j] = c
      BY <1>1, <2>5
    <3> QED BY <2>1, <2>5, <3>1 DEF Written
  <2> HIDE DEF c
  <2>6. c = T.conns[p].got[i]
    BY DEF c
  <2>7. ASSUME ~Req(c).replayable
        PROVE  /\ T.calls[c].pc \in Past
               /\ T.calls[c].pc = "sent" => T.calls[c].conn = p /\ T.calls[c].start < T.conns[p].nwrite /\ T.calls[c].wch # "nothing"
               /\ T.calls[c].pc = "failed" => T.calls[c].err # "nothing"
    <3>1. /\ S.calls[c].pc \in Past
          /\ S.calls[c].pc = "sent" => S.calls[c].conn = p /\ S.calls[c].start < S.conns[p].nwrite /\ S.calls[c].wch # "nothing"
          /\ S.calls[c].pc = "failed" => S.calls[c].err # "nothing"
      BY <2>1, <2>7 DEF Written
    <3> QED BY <2>1, <2>3, <2>4, <2>7, <3>1 DEF Quiet
  <2> QED BY <2>5, <2>6, <2>7 DEF Written
<1>4. ASSUME NEW p \in DOMAIN T.conns, NEW c \in T.conns[p].writech PROVE Unwritten(T, p, c)
  <2>1. /\ p \in DOMAIN S.conns /\ c \in S.conns[p].writech
        /\ T.conns[p].write = "idle" => S.conns[p].write = "idle"
        /\ Open(T.conns[p]) => Open(S.conns[p])
    BY <1>0, <1>4 DEF SameSending
  <2>2. Unwritten(S, p, c) /\ Quiet(S, T, c)
    BY <1>4, <1>a, <2>1 DEF SentOnce
  <2> QED BY <1>2, <1>4, <2>1, <2>2 DEF Unwritten, Quiet
<1>5. ASSUME NEW c \in Calls, T.calls[c].pc = "sent" PROVE T.calls[c].start <= T.conns[T.calls[c].conn].nwrite
  <2>1. Quiet(S, T, c) /\ CallRefers(S, c)
    BY DEF Refers
  <2> DEFINE p == S.calls[c].conn
  <2>2. S.calls[c].pc = "sent" /\ T.calls[c].conn = p /\ T.calls[c].start = S.calls[c].start /\ S.calls[c].start <= S.conns[p].nwrite
    BY <1>5, <2>1 DEF Quiet, SentOnce
  <2>3. p \in 1..Len(S.conns)
    BY <2>1, <2>2, StateFields DEF CallRefers
  <2>4. p \in DOMAIN S.conns
    BY <2>3, StateFields
  <2>5. T.conns[p].nwrite = S.conns[p].nwrite
    BY <2>4 DEF SameSending
  <2> QED BY <2>2, <2>5
<1> QED BY <1>3, <1>4, <1>5 DEF SentOnce

-----------------------------------------------------------------------------
(* Steps *)

LEMMA NextFields == Now'.pool = pool' /\ Now'.conns = conns' /\ Now'.calls = calls'
BY DEF Now

\* A step that changes connection p, and leaves what the others say.
LEMMA StepOrderly ==
  ASSUME Orderly(Now), NEW p,
         \A q \in DOMAIN conns' : q # p => q \in DOMAIN conns /\ SameTalk(conns[q], conns'[q]) /\ NobodyNew(Now, Now', q),
         p \in DOMAIN conns' => InLine(Now', p), SentOnce(Now'), Matched(Now')
  PROVE  Orderly(Now')
<1>1. ASSUME NEW q \in DOMAIN conns', q # p PROVE InLine(Now', q)
  <2>1. q \in DOMAIN conns /\ SameTalk(conns[q], conns'[q]) /\ NobodyNew(Now, Now', q)
    BY <1>1
  <2>2. InLine(Now, q)
    BY <2>1 DEF Orderly, AllInLine, Now
  <2>3. SameTalk(Now.conns[q], Now'.conns[q])
    BY <2>1 DEF Now
  <2> QED BY <2>1, <2>2, <2>3, InLineSame
<1>2. AllInLine(Now')
  BY <1>1, NextFields DEF AllInLine
<1> QED BY <1>2 DEF Orderly

\* A call that goes on as before.
SameUse(C, D) == D.pc = C.pc /\ D.conn = C.conn /\ D.start = C.start /\ D.wch = C.wch /\ D.err = C.err /\ D.res = C.res
\* A call that gets no connection.
Goes(C, D) ==
  \/ D.conn = C.conn /\ (D.pc = C.pc \/ (C.pc = "enter" /\ D.pc = "send"))
  \/ D.pc \notin {"enter", "send", "sent", "body"}

\* A step that sends nothing.
LEMMA SentSame ==
  ASSUME Sound(Now), Orderly(Now), Sound(Now)', DOMAIN conns \subseteq DOMAIN conns',
         \A q \in DOMAIN conns : SameSending(conns[q], conns'[q]),
         \A q \in DOMAIN conns' : q \in DOMAIN conns \/ (conns'[q].got = <<>> /\ conns'[q].writech = {}),
         \A d \in Calls : SameUse(calls[d], calls'[d]) \/ Quiet(Now, Now', d)
  PROVE  SentOnce(Now')
<1>1. Now \in StateType /\ Now' \in StateType /\ SentOnce(Now) /\ Refers(Now)
  BY NextTyped DEF Sound, TypeOf, Orderly
<1>2. \A d \in Calls : Quiet(Now, Now', d)
  BY NextFields, NowFields DEF SameUse, Quiet
<1>3. Now.conns = conns
  BY NowFields
<1> QED BY <1>1, <1>2, <1>3, NextFields, SentQuiet

LEMMA NobodyGoes ==
  ASSUME Sound(Now), pool'.lru \subseteq pool.lru, \A d \in Calls : SameUse(calls[d], calls'[d]) \/ Goes(calls[d], calls'[d])
  PROVE  \A q : NobodyNew(Now, Now', q)
BY NextFields, NowFields DEF NobodyNew, SameUse, Goes

\* A step that leaves what all connections say, gives none to a call, and sends nothing.
LEMMA QuietOrderly ==
  ASSUME Sound(Now), Orderly(Now), Sound(Now)', pool'.lru \subseteq pool.lru, DOMAIN conns' = DOMAIN conns,
         \A q \in DOMAIN conns : SameTalk(conns[q], conns'[q]),
         \A d \in Calls : \/ SameUse(calls[d], calls'[d])
                          \/ Goes(calls[d], calls'[d]) /\ Quiet(Now, Now', d) /\ calls'[d].res = calls[d].res
  PROVE  Orderly(Now')
<1>1. SentOnce(Now')
  BY TalkSending, SentSame
<1>2. Matched(Now')
  BY NextFields, NowFields DEF Matched, Orderly, SameUse
<1>3. \A q : NobodyNew(Now, Now', q)
  BY NobodyGoes
<1>4. 0 \notin DOMAIN conns'
  BY NowFields
<1> QED BY <1>1, <1>2, <1>3, <1>4, StepOrderly

LEMMA TalkSelf == \A P : SameTalk(P, P)
BY DEF SameTalk

LEMMA SameUseSelf == \A C : SameUse(C, C)
BY DEF SameUse

\* The same for a step of connection p and of call c.
LEMMA QuietTurn ==
  ASSUME Sound(Now), Orderly(Now), Sound(Now)', pool'.lru \subseteq pool.lru,
         NEW p \in Conns, NEW Q, conns' = [conns EXCEPT ![p] = Q], SameTalk(conns[p], Q),
         NEW c \in Calls, NEW C, calls' = [calls EXCEPT ![c] = C],
         SameUse(calls[c], C) \/ (Goes(calls[c], C) /\ Quiet(Now, Now', c) /\ C.res = calls[c].res)
  PROVE  Orderly(Now')
<1>1. DOMAIN conns' = DOMAIN conns /\ \A q \in DOMAIN conns : SameTalk(conns[q], conns'[q])
  BY NowFields, TalkSelf
<1>2. calls'[c] = C /\ \A d \in Calls : d # c => calls'[d] = calls[d]
  BY NowFields
<1>3. \A d \in Calls : \/ SameUse(calls[d], calls'[d])
                       \/ Goes(calls[d], calls'[d]) /\ Quiet(Now, Now', d) /\ calls'[d].res = calls[d].res
  BY <1>2, SameUseSelf
<1> QED BY <1>1, <1>3, QuietOrderly

\* A step of connection p.
LEMMA QuietConn ==
  ASSUME Sound(Now), Orderly(Now), Sound(Now)', pool'.lru \subseteq pool.lru,
         NEW p \in Conns, NEW Q, conns' = [conns EXCEPT ![p] = Q], SameTalk(conns[p], Q), calls' = calls
  PROVE  Orderly(Now')
<1>1. DOMAIN conns' = DOMAIN conns /\ \A q \in DOMAIN conns : SameTalk(conns[q], conns'[q])
  BY NowFields, TalkSelf
<1> QED BY <1>1, SameUseSelf, QuietOrderly

LEMMA IdleTimerFiresOrderly ==
  ASSUME Sound(Now), Orderly(Now), Sound(Now)', NEW p \in Conns, IdleTimerFires(p)
  PROVE  Orderly(Now')
<1> DEFINE Q == [conns[p] EXCEPT !.timer = "fired"]
<1>1. conns[p] \in PConnType
  BY NowFields
<1>2. pool' = pool /\ conns' = [conns EXCEPT ![p] = Q] /\ calls' = calls
  BY DEF IdleTimerFires, Becomes, Now
<1>3. SameTalk(conns[p], Q)
  BY <1>1 DEF SameTalk, Open, PConnType
<1> HIDE DEF Q
<1> QED BY <1>2, <1>3, QuietConn

LEMMA SrvCloseOrderly ==
  ASSUME Sound(Now), Orderly(Now), Sound(Now)', NEW p \in Conns, SrvClose(p)
  PROVE  Orderly(Now')
<1> DEFINE Q == [conns[p] EXCEPT !.srvClosed = TRUE]
<1>1. conns[p] \in PConnType
  BY NowFields
<1>2. pool' = pool /\ conns' = [conns EXCEPT ![p] = Q] /\ calls' = calls
  BY DEF SrvClose, Becomes, Now
<1>3. SameTalk(conns[p], Q)
  BY <1>1 DEF SameTalk, Open, PConnType
<1> HIDE DEF Q
<1> QED BY <1>2, <1>3, QuietConn

LEMMA WriteLoopEndsOrderly ==
  ASSUME Sound(Now), Orderly(Now), Sound(Now)', NEW p \in Conns, WriteLoopEnds(p)
  PROVE  Orderly(Now')
<1> DEFINE O == Closed(conns[p], "other")
           Q == [O EXCEPT !.write = "done"]
<1>1. conns[p] \in PConnType /\ p \in DOMAIN conns
  BY NowFields
<1>2. O \in PConnType /\ Lighter(conns[p], O) /\ O.closed # "no"
  BY <1>1, ClosedIs
<1>3. pool' = pool /\ conns' = [conns EXCEPT ![p] = Q] /\ calls' = calls
  <2> HIDE DEF O
  <2>1. Becomes([[Now EXCEPT !.conns[p] = O] EXCEPT !.conns[p].write = "done"])
    BY DEF WriteLoopEnds, ClosePC, Now, O
  <2> QED BY <1>1, <2>1, NowFields DEF Becomes, Now
<1> HIDE DEF O
<1>4. SameTalk(conns[p], Q)
  BY <1>2 DEF SameTalk, Open, Lighter, SameWork, PConnType
<1> HIDE DEF Q
<1> QED BY <1>3, <1>4, QuietConn

LEMMA ContextEndsOrderly ==
  ASSUME Sound(Now), Orderly(Now), Sound(Now)', NEW c \in Calls, ContextEnds(c)
  PROVE  Orderly(Now')
<1>1. \A d \in Calls : SameUse(calls[d], calls'[d])
  BY NowFields DEF ContextEnds, SameUse, CallType
<1>2. pool' = pool /\ conns' = conns
  BY DEF ContextEnds
<1> QED BY <1>1, <1>2, TalkSelf, QuietOrderly

\* A call that fails before it sent anything, or that closed its connection.
LEMMA FailsOrderly ==
  ASSUME Sound(Now), Orderly(Now), Sound(Now)', pool' = pool, NEW p \in Conns, NEW Q, conns' = [conns EXCEPT ![p] = Q],
         SameTalk(conns[p], Q), NEW c \in Calls, NEW err, NEW C, C.pc = "failed", C.err = err, C.res = calls[c].res,
         calls' = [calls EXCEPT ![c] = C], calls[c].pc = "sent" => calls[c].conn = p /\ Q.closed # "no",
         Seen(Now, c) /\ ~Req(c).replayable => err # "nothing"
  PROVE  Orderly(Now')
<1>1. calls'[c] = C /\ conns'[p] = Q
  BY NowFields
<1>2. Quiet(Now, Now', c)
  BY <1>1, NextFields, NowFields DEF Quiet, Past, Open
<1>3. Goes(calls[c], C)
  BY DEF Goes
<1> QED BY <1>2, <1>3, QuietTurn

LEMMA WaitCanceledOrderly ==
  ASSUME Sound(Now), Orderly(Now), Sound(Now)', NEW c \in Calls, WaitCanceled(c)
  PROVE  Orderly(Now')
<1> DEFINE p == calls[c].dial
           Q == [conns[p] EXCEPT !.pending = TRUE]
           C == [calls[c] EXCEPT !.dial = 0, !.pc = "failed", !.err = "canceled", !.canceler = "none"]
<1>1. calls[c] \in CallType /\ calls[c].pc = "wait" /\ p \in Conns /\ conns[p] \in PConnType
  BY NowFields DEF WaitCanceled, CallRefers
<1>2. pool' = pool /\ conns' = [conns EXCEPT ![p] = Q] /\ calls' = [calls EXCEPT ![c] = C]
  BY <1>1, NowFields DEF WaitCanceled, Fails, HandlePendingDial, Becomes, Now
<1>3. SameTalk(conns[p], Q)
  BY <1>1 DEF SameTalk, Open, PConnType
<1>4. C.pc = "failed" /\ C.err = "canceled" /\ C.res = calls[c].res
  BY <1>1 DEF CallType
<1> HIDE DEF Q, C, p
<1> QED BY <1>1, <1>2, <1>3, <1>4, FailsOrderly

LEMMA EntersOrderly ==
  ASSUME Sound(Now), Orderly(Now), Sound(Now)', NEW c \in Calls, EnterRoundTrip(c), calls[c].canceler # "none"
  PROVE  Orderly(Now')
<1> DEFINE p == calls[c].conn
           Q == [conns[p] EXCEPT !.expected = conns[p].expected + 1]
           C == [calls[c] EXCEPT !.canceler = "conn", !.pc = "send"]
<1>1. calls[c] \in CallType /\ calls[c].pc = "enter" /\ p \in Conns /\ conns[p] \in PConnType
  BY CallFields, NowFields DEF EnterRoundTrip
<1>2. pool' = pool /\ conns' = [conns EXCEPT ![p] = Q] /\ calls' = [calls EXCEPT ![c] = C]
  BY <1>1, NowFields DEF EnterRoundTrip, Becomes, Now
<1>3. SameTalk(conns[p], Q)
  BY <1>1 DEF SameTalk, Open, PConnType
<1>4. C.pc = "send" /\ C.conn = p /\ C.res = calls[c].res /\ C.err = calls[c].err
  BY <1>1 DEF CallType
<1> HIDE DEF Q, C
<1>5. calls'[c] = C
  BY <1>2, NowFields
<1>6. Quiet(Now, Now', c)
  BY <1>1, <1>4, <1>5, NextFields, NowFields DEF Quiet, Past
<1>7. Goes(calls[c], C)
  BY <1>1, <1>4 DEF Goes
<1> HIDE DEF p
<1> QED BY <1>1, <1>2, <1>3, <1>4, <1>6, <1>7, QuietTurn

LEMMA RetryOrderly ==
  ASSUME Sound(Now), Orderly(Now), Sound(Now)', NEW c \in Calls, Retry(c)
  PROVE  Orderly(Now')
<1> DEFINE r == calls[c].conn # 0 /\ ShouldRetryRequest(c, conns[calls[c].conn], calls[c].err)
           C == calls'[c]
<1>1. calls[c] \in CallType /\ calls[c].pc = "failed" /\ calls \in [Calls -> CallType]
  BY NowFields DEF Retry
<1>2. pool' = pool /\ conns' = conns /\ \A d \in Calls : d # c => calls'[d] = calls[d]
  BY <1>1 DEF Retry
<1>3. C.pc = (IF r THEN "retry" ELSE "returned") /\ C.err = calls[c].err /\ C.res = calls[c].res
  <2> HIDE DEF r
  <2>1. calls' = [calls EXCEPT ![c].pc = IF r THEN "retry" ELSE "returned", ![c].conn = 0]
    BY DEF Retry, r
  <2> QED BY <1>1, <2>1 DEF CallType
<1>4. Seen(Now, c) /\ ~Req(c).replayable => ~r
  <2>1. Seen(Now, c) /\ ~Req(c).replayable => calls[c].err # "nothing"
    BY <1>1, SeenIs, NowFields DEF Orderly
  <2> QED BY <2>1 DEF ShouldRetryRequest
<1> HIDE DEF r, C
<1>5. Quiet(Now, Now', c)
  BY <1>1, <1>3, <1>4, NextFields, NowFields DEF Quiet, Past, C
<1>6. Goes(calls[c], C)
  BY <1>3 DEF Goes
<1>7. \A d \in Calls : d # c => SameUse(calls[d], calls'[d])
  BY <1>2, SameUseSelf
<1> QED BY <1>2, <1>3, <1>5, <1>6, <1>7, TalkSelf, QuietOrderly DEF C

\* A call whose request was sent fails, and its connection is closed.
LEMMA SentFails ==
  ASSUME Sound(Now), Orderly(Now), Sound(Now)', NEW c \in Calls, calls[c].pc = "sent", NEW err,
         Becomes(ClosePC(Fails(Now, c, err), calls[c].conn, "other")), Seen(Now, c) /\ ~Req(c).replayable => err # "nothing"
  PROVE  Orderly(Now')
<1> DEFINE p == calls[c].conn
           Q == Closed(conns[p], "other")
           C == [calls[c] EXCEPT !.pc = "failed", !.err = err, !.canceler = "none"]
<1>1. calls[c] \in CallType /\ p \in Conns /\ conns[p] \in PConnType
  BY CallFields
<1>2. pool' = pool /\ conns' = [conns EXCEPT ![p] = Q] /\ calls' = [calls EXCEPT ![c] = C]
  <2> HIDE DEF p
  <2> QED BY <1>1, NowFields DEF ClosePC, Fails, Becomes, Now, p
<1>3. Q.closed # "no" /\ SameTalk(conns[p], Q)
  BY <1>1, ClosedIs, LighterTalk
<1>4. C.pc = "failed" /\ C.err = err /\ C.res = calls[c].res
  BY <1>1 DEF CallType
<1> HIDE DEF Q, C
<1> QED BY <1>1, <1>2, <1>3, <1>4, FailsOrderly

LEMMA SeesWriteOrderly ==
  ASSUME Sound(Now), Orderly(Now), Sound(Now)', NEW c \in Calls, SeesWrite(c)
  PROVE  Orderly(Now')
<1>1. calls[c] \in CallType /\ calls[c].pc = "sent"
  BY NowFields DEF SeesWrite, OnWire
<1>2. CASE calls[c].wch = "nil"
  <2>1. pool' = pool /\ conns' = conns /\ \A d \in Calls : SameUse(calls[d], calls'[d])
    BY SMTT(40), <1>2, NowFields DEF SeesWrite, Becomes, Now, SameUse, CallType
  <2> QED BY <2>1, TalkSelf, QuietOrderly
<1>3. CASE calls[c].wch # "nil"
  <2> DEFINE err == IF conns[calls[c].conn].canceled THEN "canceled" ELSE calls[c].wch
  <2>1. Becomes(ClosePC(Fails(Now, c, err), calls[c].conn, "other"))
    BY <1>3 DEF SeesWrite
  <2>2. Seen(Now, c) /\ ~Req(c).replayable => calls[c].wch # "nothing"
    BY <1>1, SeenIs, NowFields DEF Orderly
  <2>3. Seen(Now, c) /\ ~Req(c).replayable => err # "nothing"
    BY <2>2
  <2> HIDE DEF err
  <2> QED BY <1>1, <2>1, <2>3, SentFails
<1> QED BY <1>2, <1>3

LEMMA HeaderTimeoutOrderly ==
  ASSUME Sound(Now), Orderly(Now), Sound(Now)', NEW c \in Calls, HeaderTimeout(c)
  PROVE  Orderly(Now')
<1>1. calls[c].pc = "sent" /\ Becomes(ClosePC(Fails(Now, c, "timeout"), calls[c].conn, "other"))
  BY DEF HeaderTimeout, OnWire
<1> QED BY <1>1, SentFails

LEMMA SeesClosedOrderly ==
  ASSUME Sound(Now), Orderly(Now), Sound(Now)', NEW c \in Calls, SeesClosed(c)
  PROVE  Orderly(Now')
<1> DEFINE p == calls[c].conn
           P == conns[p]
           err == IF P.canceled THEN "canceled" ELSE IF P.closed \in {"closedIdle", "readErr"} THEN P.closed
                  ELSE IF NothingWritten(c, p) THEN "nothing" ELSE "broken"
           C == [calls[c] EXCEPT !.pc = "failed", !.err = err, !.canceler = "none"]
<1>1. calls[c] \in CallType /\ calls[c].pc = "sent" /\ p \in Conns /\ P \in PConnType /\ P.closed # "no"
  BY CallFields DEF SeesClosed, OnWire
<1>2. pool' = pool /\ conns' = conns /\ calls' = [calls EXCEPT ![c] = C]
  <2> HIDE DEF err
  <2>1. Becomes(Fails(Now, c, err))
    BY DEF SeesClosed, err
  <2> QED BY <2>1, NowFields DEF Fails, Becomes, Now
<1>3. conns' = [conns EXCEPT ![p] = P]
  <2> HIDE DEF p
  <2> QED BY <1>1, <1>2, NowFields
<1>4. Seen(Now, c) /\ ~Req(c).replayable => err # "nothing"
  <2>1. Seen(Now, c) /\ ~Req(c).replayable => calls[c].start < conns[p].nwrite
    BY <1>1, SeenIs, NowFields DEF Orderly
  <2>2. calls[c].start \in Nat /\ conns[p].nwrite \in Nat
    BY <1>1 DEF CallType, PConnType
  <2> QED BY <2>1, <2>2 DEF NothingWritten
<1>5. C.pc = "failed" /\ C.err = err /\ C.res = calls[c].res
  <2> HIDE DEF err
  <2> QED BY <1>1 DEF CallType
<1> HIDE DEF C, err
<1> QED BY ZenonT(60), <1>1, <1>2, <1>3, <1>4, <1>5, TalkSelf, FailsOrderly

LEMMA CancelRequestIs ==
  ASSUME NEW S \in StateType, NEW c \in Calls, CallRefers(S, c)
  PROVE  LET T == CancelRequest(S, c) IN
         /\ T.pool = S.pool /\ DOMAIN T.conns = DOMAIN S.conns
         /\ \A q \in DOMAIN S.conns : SameTalk(S.conns[q], T.conns[q])
         /\ \A d \in Calls : SameUse(S.calls[d], T.calls[d])
<1> DEFINE C == S.calls[c]
           n == [C EXCEPT !.canceler = "none"]
           T == CancelRequest(S, c)
<1>0. /\ S \in StateType /\ C \in CallType /\ S.calls \in [Calls -> CallType] /\ S.conns \in Seq(PConnType) /\ S.pool \in PoolType
      /\ DOMAIN S.conns = 1..Len(S.conns)
      /\ S = [pool |-> S.pool, conns |-> S.conns, calls |-> S.calls]
  BY SoundFields, StateFields
<1>1. SameUse(C, n)
  BY <1>0 DEF CallType, SameUse
<1>2. CASE C.canceler = "conn"
  <2> DEFINE p == C.conn
             P == [S.conns[p] EXCEPT !.canceled = TRUE]
             Q == Closed(P, "other")
  <2>1. p \in DOMAIN S.conns /\ S.conns[p] \in PConnType
    <3>1. p \in DOMAIN S.conns
      BY <1>0, <1>2 DEF CallRefers
    <3> QED BY <1>0, <3>1, StateFields
  <2>2. P \in PConnType /\ SameTalk(S.conns[p], P)
    BY <2>1 DEF PConnType, SameTalk, Open
  <2>3. SameTalk(S.conns[p], Q)
    <3> HIDE DEF P
    <3>1. SameTalk(P, Q)
      BY <2>2, ClosedIs, LighterTalk
    <3> HIDE DEF Q
    <3> QED BY <2>2, <3>1 DEF SameTalk
  <2>4. T = [pool |-> S.pool, conns |-> [S.conns EXCEPT ![p] = Q], calls |-> [S.calls EXCEPT ![c] = n]]
    BY <1>0, <1>2, <2>1 DEF CancelRequest, StateType
  <2> HIDE DEF Q, T, p, n
  <2> QED BY <1>0, <1>1, <2>1, <2>3, <2>4, TalkSelf, SameUseSelf DEF p, T
<1>3. CASE C.canceler = "cancelc"
  <2> DEFINE m == [n EXCEPT !.cancelc = TRUE]
  <2>1. SameUse(C, m)
    BY <1>0 DEF CallType, SameUse
  <2>2. T = [pool |-> S.pool, conns |-> S.conns, calls |-> [S.calls EXCEPT ![c] = m]]
    BY <1>0, <1>3 DEF CancelRequest, StateType
  <2> HIDE DEF m, T
  <2> QED BY <1>0, <2>1, <2>2, TalkSelf, SameUseSelf DEF T
<1>4. CASE C.canceler \notin {"conn", "cancelc"}
  <2>1. T = [pool |-> S.pool, conns |-> S.conns, calls |-> [S.calls EXCEPT ![c] = n]]
    BY <1>0, <1>4 DEF CancelRequest, StateType
  <2> HIDE DEF n, T
  <2> QED BY <1>0, <1>1, <2>1, TalkSelf, SameUseSelf DEF T
<1> QED BY <1>2, <1>3, <1>4

LEMMA CancelsOrderly ==
  ASSUME Sound(Now), Orderly(Now), Sound(Now)', NEW c \in Calls, SeesCancel(c) \/ CallerCancels(c)
  PROVE  Orderly(Now')
<1> DEFINE T == CancelRequest(Now, c)
<1>1. pool' = T.pool /\ conns' = T.conns /\ calls' = T.calls
  BY DEF SeesCancel, CallerCancels, Becomes
<1>2. /\ T.pool = Now.pool /\ DOMAIN T.conns = DOMAIN Now.conns
      /\ \A q \in DOMAIN Now.conns : SameTalk(Now.conns[q], T.conns[q])
      /\ \A d \in Calls : SameUse(Now.calls[d], T.calls[d])
  BY NowFields, SoundFields, CancelRequestIs
<1> HIDE DEF T
<1> QED BY <1>1, <1>2, NowFields, QuietOrderly

\* A step that closes idle connections.
LEMMA LightenedOrderly ==
  ASSUME Sound(Now), Orderly(Now), Sound(Now)', Lightened(Now, Now'), calls' = calls, pool'.lru \subseteq pool.lru
  PROVE  Orderly(Now')
<1>1. DOMAIN conns' = DOMAIN conns /\ \A q \in DOMAIN conns : Lighter(conns[q], conns'[q])
  BY NextFields, NowFields DEF Lightened
<1> QED BY <1>1, LighterTalk, SameUseSelf, QuietOrderly

LEMMA CloseConnIfStillIdleOrderly ==
  ASSUME Sound(Now), Orderly(Now), Sound(Now)', NEW p \in Conns, CloseConnIfStillIdle(p)
  PROVE  Orderly(Now')
<1> DEFINE P == conns[p]
           Q == [P EXCEPT !.timer = "none"]
           S == [Now EXCEPT !.conns[p] = Q]
           R == RemoveIdleConn(S, p)
           T == ClosePC(R, p, "other")
<1>0. p \in DOMAIN Now.conns /\ Now.conns[p] = P /\ P \in PConnType /\ Now \in StateType
  BY NowFields, SoundFields
<1>1. IF p \in pool.lru THEN Becomes(T) ELSE Becomes(S)
  <2>1. S = [Now EXCEPT !.conns[p].timer = "none"]
    BY <1>0 DEF Now
  <2> HIDE DEF S
  <2> QED BY <2>1 DEF CloseConnIfStillIdle
<1>2. Q \in PConnType /\ Lighter(P, Q) /\ Undisturbed(P, Q)
  <2>1. Q \in PConnType /\ Lighter(P, Q)
    BY <1>0, LighterTimer, Values
  <2> QED BY <2>1 DEF Lighter, SameWork, Undisturbed
<1> HIDE DEF Q
<1>3. Sound(S) /\ DOMAIN S.conns = DOMAIN Now.conns /\ S.conns = [Now.conns EXCEPT ![p] = Q] /\ S.calls = Now.calls
  BY <1>0, <1>2, ConnSound
<1>4. S.pool = Now.pool
  BY DEF Now
<1> HIDE DEF S
<1>5. S \in StateType /\ Len(S.conns) <= MaxConns /\ Arranged(S)
  BY <1>3, SoundFields DEF Listed
<1>6. Lightened(Now, S)
  BY <1>0, <1>2, <1>3, <1>5, LightenedOne
<1>7. CASE p \notin pool.lru
  <2>1. Now' = S
    BY <1>1, <1>5, <1>7, BecomesIs
  <2> QED BY <1>3, <1>4, <1>6, <2>1, NextFields, NowFields, LightenedOrderly
<1>8. CASE p \in pool.lru
  <2>1. R \in StateType /\ Lightened(S, R) /\ R.calls = S.calls /\ R.pool.lru = S.pool.lru \ {p}
    BY <1>0, <1>3, <1>5, RemoveIdleConnIs
  <2>2. p \in DOMAIN R.conns
    BY <1>0, <1>3, <2>1 DEF Lightened
  <2> HIDE DEF R
  <2>3. T \in StateType /\ T.pool = R.pool /\ T.calls = R.calls /\ Lightened(R, T)
    BY <2>1, <2>2, ClosePCIs
  <2> HIDE DEF T
  <2>4. Now' = T
    BY <1>1, <1>8, <2>3, BecomesIs
  <2>5. Lightened(Now, T)
    BY <1>6, <2>1, <2>3, LightenedTwice
  <2> QED BY <1>3, <1>4, <2>1, <2>3, <2>4, <2>5, NextFields, NowFields, LightenedOrderly
<1> QED BY <1>7, <1>8

LEMMA CloseIdleConnectionsOrderly ==
  ASSUME Sound(Now), Orderly(Now), Sound(Now)', CloseIdleConnections
  PROVE  Orderly(Now')
<1> DEFINE idle == UNION {ToSet(pool.idle[k]) : k \in Keys}
           cs == [p \in DOMAIN conns |-> IF p \in idle THEN Closed(conns[p], "other") ELSE conns[p]]
<1>1. conns' = cs /\ calls' = calls
  BY DEF CloseIdleConnections, Becomes, Now
<1>2. pool'.lru = {}
  BY NowFields DEF CloseIdleConnections, Becomes, Now, PoolType
<1> HIDE DEF idle
<1>3. \A p \in DOMAIN conns : SameTalk(conns[p], cs[p])
  <2>1. ASSUME NEW p \in DOMAIN conns PROVE SameTalk(conns[p], cs[p])
    <3>1. conns[p] \in PConnType
      BY NowFields
    <3>2. SameTalk(conns[p], Closed(conns[p], "other"))
      BY <3>1, ClosedIs, LighterTalk
    <3> QED BY <3>2, TalkSelf
  <2> QED BY <2>1
<1>4. DOMAIN cs = DOMAIN conns
  OBVIOUS
<1> HIDE DEF cs
<1> QED BY <1>1, <1>2, <1>3, <1>4, SameUseSelf, QuietOrderly

\* The end of a write: the calls that wait for it know.
Wrote(P, C, D, c, p, err) ==
  /\ D.pc = C.pc /\ D.conn = C.conn /\ D.start = C.start /\ D.err = C.err /\ D.res = C.res
  /\ D.wch = IF c \in P.writech /\ C.conn = p THEN err ELSE C.wch
WroteAll(P, err) == [P EXCEPT !.werrch = err, !.writech = {}, !.write = IF err = "nil" THEN "idle" ELSE "failed"]
LEMMA WriteEndsIs ==
  ASSUME NEW S \in StateType, NEW p \in DOMAIN S.conns, NEW err \in WriteErrs
  PROVE  /\ WriteEnds(S, p, err).pool = S.pool
         /\ WriteEnds(S, p, err).conns = [S.conns EXCEPT ![p] = WroteAll(S.conns[p], err)]
         /\ \A d \in Calls : Wrote(S.conns[p], S.calls[d], WriteEnds(S, p, err).calls[d], d, p, err)
<1> DEFINE cl == [c \in Calls |-> IF c \in S.conns[p].writech /\ S.calls[c].conn = p
                                  THEN [S.calls[c] EXCEPT !.wch = err] ELSE S.calls[c]]
           Q == WroteAll(S.conns[p], err)
           T == WriteEnds(S, p, err)
<1>1. T.pool = S.pool /\ T.conns = [S.conns EXCEPT ![p] = Q] /\ T.calls = cl
  <2>1. T = [S EXCEPT !.conns[p] = Q, !.calls = cl]
    BY DEF WriteEnds, WroteAll
  <2> HIDE DEF cl, Q, T
  <2> QED BY <2>1 DEF StateType
<1>2. ASSUME NEW d \in Calls PROVE Wrote(S.conns[p], S.calls[d], cl[d], d, p, err)
  <2>1. S.calls[d] \in CallType
    BY StateFields
  <2> QED BY <2>1 DEF CallType, Wrote
<1> HIDE DEF cl
<1> QED BY <1>1, <1>2

\* A write that ends without anything sent by this step.
LEMMA WrittenOrderly ==
  ASSUME Sound(Now), Orderly(Now), Sound(Now)', NEW p \in Conns, NEW Q, SameTalk(conns[p], Q), Q.writech = {},
         conns' = [conns EXCEPT ![p] = Q], pool' = pool, NEW err,
         \A d \in Calls : Wrote(conns[p], calls[d], calls'[d], d, p, err),
         \A d \in conns[p].writech : calls[d].pc = "sent" /\ calls[d].conn = p /\ Seen(Now, d) /\ ~Req(d).replayable => err # "nothing"
  PROVE  Orderly(Now')
<1>1. conns'[p] = Q /\ DOMAIN conns' = DOMAIN conns /\ \A q \in DOMAIN conns : SameTalk(conns[q], conns'[q])
  BY NowFields, TalkSelf
<1>2. ASSUME NEW d \in Calls
      PROVE  SameUse(calls[d], calls'[d]) \/ (Goes(calls[d], calls'[d]) /\ Quiet(Now, Now', d) /\ calls'[d].res = calls[d].res)
  <2>1. CASE d \in conns[p].writech /\ calls[d].conn = p
    <3>1. Quiet(Now, Now', d)
      BY <1>1, <2>1, NextFields, NowFields DEF Quiet, Wrote
    <3> QED BY <3>1 DEF Goes, Wrote
  <2>2. CASE ~(d \in conns[p].writech /\ calls[d].conn = p)
    BY <2>2 DEF SameUse, Wrote
  <2> QED BY <2>1, <2>2
<1> QED BY <1>1, <1>2, QuietOrderly

LEMMA WriteBodyOrderly ==
  ASSUME Sound(Now), Orderly(Now), Sound(Now)', NEW p \in Conns, WriteBody(p)
  PROVE  Orderly(Now')
<1> DEFINE n == conns[p].full + 1
           P == [conns[p] EXCEPT !.full = n]
           S == [Now EXCEPT !.conns[p] = P]
           Q == WroteAll(P, "nil")
           T == WriteEnds(S, p, "nil")
<1>0. conns[p] \in PConnType /\ p \in DOMAIN conns /\ Now.conns = conns /\ Now.calls = calls /\ Now.pool = pool /\ conns \in Seq(PConnType)
  BY NowFields
<1>a. n \in Nat
  BY SMTT(40), <1>0 DEF PConnType
<1>1. P \in PConnType /\ Undisturbed(conns[p], P)
  <2> HIDE DEF n
  <2> QED BY ZenonT(60), <1>0, <1>a DEF PConnType, Undisturbed
<1>2. Sound(S) /\ S.conns = [conns EXCEPT ![p] = P] /\ S.calls = calls /\ DOMAIN S.conns = DOMAIN conns /\ S.conns[p] = P
  <2> HIDE DEF P
  <2> QED BY <1>0, <1>1, ConnSound
<1>3. S.pool = pool
  BY DEF Now
<1>4. Becomes(T)
  <2>1. S = [Now EXCEPT !.conns[p].full = @ + 1]
    BY <1>0 DEF Now
  <2> HIDE DEF S
  <2> QED BY <2>1 DEF WriteBody
<1>5. SameTalk(conns[p], Q) /\ Q.writech = {} /\ P.writech = conns[p].writech
  <2> HIDE DEF n
  <2> QED BY <1>0, <1>1 DEF PConnType, SameTalk, Open, WroteAll
<1> HIDE DEF P, S
<1>6. /\ T.pool = S.pool /\ T.conns = [S.conns EXCEPT ![p] = Q]
      /\ \A d \in Calls : Wrote(S.conns[p], S.calls[d], T.calls[d], d, p, "nil")
  <2>1. S \in StateType
    BY <1>2, SoundFields
  <2>2. p \in DOMAIN S.conns /\ "nil" \in WriteErrs /\ S.conns[p] = P
    BY <1>0, <1>2, Values
  <2> HIDE DEF Q, T
  <2> QED BY <2>1, <2>2, WriteEndsIs DEF Q, T
<1>7. [S.conns EXCEPT ![p] = Q] = [conns EXCEPT ![p] = Q]
  <2> HIDE DEF Q
  <2> QED BY <1>0, <1>2
<1>8. pool' = T.pool /\ conns' = T.conns /\ calls' = T.calls
  BY <1>4 DEF Becomes
<1> HIDE DEF Q, T
<1>9. pool' = pool /\ conns' = [conns EXCEPT ![p] = Q]
      /\ \A d \in Calls : Wrote(conns[p], calls[d], calls'[d], d, p, "nil")
  BY <1>2, <1>3, <1>5, <1>6, <1>7, <1>8 DEF Wrote
<1> QED BY <1>5, <1>9, WrittenOrderly

LEMMA WriteFailsOrderly ==
  ASSUME Sound(Now), Orderly(Now), Sound(Now)', NEW p \in Conns, WriteFails(p)
  PROVE  Orderly(Now')
<1> DEFINE P == conns[p]
           c == CHOOSE c \in P.writech : TRUE
           err == IF P.write = "idle" /\ ~Req(c).body THEN "nothing" ELSE "write"
           Q == WroteAll(P, err)
           T == WriteEnds(Now, p, err)
<1>0. P \in PConnType /\ p \in DOMAIN conns /\ Now.conns = conns /\ Now.calls = calls /\ Now.pool = pool /\ Now \in StateType
  BY NowFields, SoundFields
<1>1. Becomes(T)
  BY DEF WriteFails
<1>2. err \in WriteErrs /\ err # "nil" /\ (err = "nothing" => P.write = "idle")
  BY Values
<1> HIDE DEF err
<1>3. /\ T.pool = pool /\ T.conns = [conns EXCEPT ![p] = Q]
      /\ \A d \in Calls : Wrote(P, calls[d], T.calls[d], d, p, err)
  <2>1. p \in DOMAIN Now.conns /\ Now.conns[p] = P
    BY <1>0
  <2> HIDE DEF Q, T
  <2> QED BY <1>0, <1>2, <2>1, WriteEndsIs DEF Q, T
<1>4. SameTalk(P, Q) /\ Q.writech = {}
  BY <1>0, <1>2 DEF PConnType, SameTalk, Open, WroteAll
<1>5. pool' = T.pool /\ conns' = T.conns /\ calls' = T.calls
  BY <1>1 DEF Becomes
<1>6. \A d \in P.writech : calls[d].pc = "sent" /\ calls[d].conn = p /\ Seen(Now, d) /\ ~Req(d).replayable => err # "nothing"
  BY <1>0, <1>2 DEF Orderly, SentOnce, Unwritten
<1> HIDE DEF Q, T
<1> QED BY <1>3, <1>4, <1>5, <1>6, WrittenOrderly

-----------------------------------------------------------------------------
(* Steps of the loops *)

\* A step that is about connection p.
LEMMA ConnOrderly ==
  ASSUME Sound(Now), Orderly(Now), Sound(Now)', NEW p \in Conns, DOMAIN conns' = DOMAIN conns,
         \A q \in DOMAIN conns : q # p => SameTalk(conns[q], conns'[q]), pool'.lru \subseteq pool.lru \cup {p},
         \A d \in Calls : SameUse(calls[d], calls'[d]) \/ Goes(calls[d], calls'[d]) \/ calls'[d].conn = p,
         InLine(Now', p), SentOnce(Now'), Matched(Now')
  PROVE  Orderly(Now')
<1>1. \A q : q # p => NobodyNew(Now, Now', q)
  BY NextFields, NowFields DEF NobodyNew, SameUse, Goes
<1> QED BY <1>1, StepOrderly

\* Connection p goes on, its sending is left alone, and the calls send nothing.
LEMMA LoopOrderly ==
  ASSUME Sound(Now), Orderly(Now), Sound(Now)', NEW p \in Conns, DOMAIN conns' = DOMAIN conns,
         \A q \in DOMAIN conns : q # p => SameTalk(conns[q], conns'[q]), pool'.lru \subseteq pool.lru \cup {p},
         SameSending(conns[p], conns'[p]),
         \A d \in Calls : SameUse(calls[d], calls'[d]) \/ (Goes(calls[d], calls'[d]) /\ Quiet(Now, Now', d)) \/
                            (calls'[d].conn = p /\ Quiet(Now, Now', d)),
         \A d \in Calls : calls'[d].res \in {calls[d].res, d}, InLine(Now', p)
  PROVE  Orderly(Now')
<1>1. SentOnce(Now')
  <2>1. \A q \in DOMAIN conns : SameSending(conns[q], conns'[q])
    BY TalkSending
  <2> QED BY <2>1, SentSame
<1>2. Matched(Now')
  BY NextFields, NowFields DEF Matched, Orderly
<1> QED BY <1>1, <1>2, ConnOrderly

\* The read loop has ended.
LEMMA Ended ==
  ASSUME NEW S, NEW p, S.conns[p].read \in {"exit", "done"}, S.conns[p].dial # "done" => S.conns[p].writech = {},
         S.conns[p].dial # "dialing"
  PROVE  InLine(S, p)
BY DEF InLine, RespIs, Live, Spoilt

LEMMA PeekUnexpectedOrderly ==
  ASSUME Sound(Now), Orderly(Now), Sound(Now)', NEW p \in Conns, PeekUnexpected(p)
  PROVE  Orderly(Now')
<1> DEFINE P == conns[p]
           err == IF ~HasData(P) /\ P.closed = "no" THEN "closedIdle" ELSE "other"
           O == Closed(P, err)
           Q == [O EXCEPT !.read = "exit"]
<1>1. P \in PConnType /\ p \in DOMAIN conns /\ InLine(Now, p) /\ Now.conns = conns
  BY NowFields DEF Orderly, AllInLine
<1>2. err \in {"other", "closedIdle", "readErr"}
  OBVIOUS
<1> HIDE DEF err
<1>3. O \in PConnType /\ Lighter(P, O)
  BY <1>1, <1>2, ClosedIs, ZenonT(60)
<1>4. pool' = pool /\ conns' = [conns EXCEPT ![p] = Q] /\ calls' = calls
  <2> HIDE DEF O
  <2>1. Becomes([[Now EXCEPT !.conns[p] = O] EXCEPT !.conns[p].read = "exit"])
    BY DEF PeekUnexpected, ClosePC, Now, O, err
  <2> QED BY <1>1, <2>1, NowFields DEF Becomes, Now
<1> HIDE DEF O
<1>5. Q.read = "exit" /\ Q.dial = P.dial /\ Q.writech = P.writech /\ SameSending(P, Q)
  BY <1>3 DEF PConnType, Lighter, SameWork, SameSending, Open
<1> HIDE DEF Q
<1>6. conns'[p] = Q /\ DOMAIN conns' = DOMAIN conns /\ \A q \in DOMAIN conns : q # p => SameTalk(conns[q], conns'[q])
  BY <1>1, <1>4, TalkSelf
<1>7. InLine(Now', p)
  <2>1. P.read = "peek"
    BY DEF PeekUnexpected
  <2> QED BY <1>1, <1>5, <1>6, <2>1, NextFields, Ended DEF InLine
<1> QED BY <1>4, <1>5, <1>6, <1>7, SameUseSelf, LoopOrderly

LEMMA BodyCanceledOrderly ==
  ASSUME Sound(Now), Orderly(Now), Sound(Now)', NEW p \in Conns, BodyCanceled(p)
  PROVE  Orderly(Now')
<1> DEFINE P == conns[p]
           c == RC(p)
           Q == [P EXCEPT !.alive = FALSE, !.read = "exit", !.rc = {}]
           S == WithConn(Now, p, Q)
           T == CancelRequest(S, c)
<1>0. /\ P \in PConnType /\ p \in DOMAIN conns /\ InLine(Now, p) /\ Now.conns = conns /\ RequestsKept(Now, p) /\ P.rc \in SUBSET Calls
      /\ Now \in StateType /\ Now.pool = pool /\ Now.calls = calls /\ Len(conns) \in Nat /\ conns \in Seq(PConnType)
  BY NowFields, ConnFields, SoundFields DEF Orderly, AllInLine
<1>1. P.read = "body" /\ (Becomes(T) \/ Becomes(S))
  BY DEF BodyCanceled
<1>2. c \in Calls
  <2>1. P.rc # {}
    BY <1>0, <1>1 DEF RequestsKept
  <2> QED BY <1>0, <2>1 DEF RC
<1>3. Q \in PConnType
  BY ZenonT(60), <1>0, Values DEF PConnType
<1>4. Q.read = "exit" /\ Q.dial = P.dial /\ Q.writech = P.writech /\ SameSending(P, Q)
  BY <1>0 DEF PConnType, SameSending, Open
<1> HIDE DEF Q
<1>5. S \in StateType /\ S.pool = pool /\ S.conns = [conns EXCEPT ![p] = Q] /\ S.calls = calls
  <2>1. [conns EXCEPT ![p] = Q] \in Seq(PConnType)
    BY <1>0, <1>3, ConnsUpdate
  <2> QED BY <1>0, <2>1 DEF WithConn, StateType
<1>6. S.conns[p] = Q /\ DOMAIN S.conns = DOMAIN conns /\ Len(S.conns) = Len(conns) /\ \A q \in DOMAIN conns : q # p => S.conns[q] = conns[q]
  BY <1>0, <1>3, <1>5, ConnsUpdate
<1> HIDE DEF S, c
<1>7. CallRefers(S, c)
  <2>1. CallRefers(Now, c)
    BY <1>2, NowFields
  <2> QED BY <1>0, <1>5, <1>6, <2>1 DEF CallRefers
<1>8. /\ T.pool = S.pool /\ DOMAIN T.conns = DOMAIN S.conns
      /\ \A q \in DOMAIN S.conns : SameTalk(S.conns[q], T.conns[q])
      /\ \A d \in Calls : SameUse(S.calls[d], T.calls[d])
  BY <1>2, <1>5, <1>7, CancelRequestIs
<1> HIDE DEF T
<1>9. /\ pool' = pool /\ DOMAIN conns' = DOMAIN conns /\ \A q \in DOMAIN conns : SameTalk(S.conns[q], conns'[q])
      /\ \A d \in Calls : SameUse(calls[d], calls'[d])
  BY <1>1, <1>5, <1>6, <1>8, TalkSelf, SameUseSelf DEF Becomes
<1>10. SameTalk(Q, conns'[p]) /\ \A q \in DOMAIN conns : q # p => SameTalk(conns[q], conns'[q])
  BY <1>0, <1>6, <1>9
<1>11. InLine(Now', p)
  <2>1. conns'[p].read = "exit" /\ (conns'[p].dial # "done" => conns'[p].writech = {}) /\ conns'[p].dial # "dialing"
    BY <1>0, <1>1, <1>4, <1>10 DEF SameTalk, InLine
  <2> QED BY <2>1, NextFields, Ended
<1>12. SameSending(P, conns'[p])
  BY <1>4, <1>10 DEF SameTalk, SameSending
<1> QED BY <1>9, <1>10, <1>11, <1>12, LoopOrderly DEF SameUse

\* A step of connection p alone, or of p and of call c.
LEMMA LoopTurn ==
  ASSUME Sound(Now), Orderly(Now), Sound(Now)', NEW p \in Conns, NEW Q, conns' = [conns EXCEPT ![p] = Q], pool' = pool,
         SameSending(conns[p], Q), calls' = calls, InLine(Now', p)
  PROVE  Orderly(Now')
<1>1. conns'[p] = Q /\ DOMAIN conns' = DOMAIN conns /\ \A q \in DOMAIN conns : q # p => SameTalk(conns[q], conns'[q])
  BY NowFields, TalkSelf
<1> QED BY <1>1, SameUseSelf, LoopOrderly

LEMMA TurnOrderly ==
  ASSUME Sound(Now), Orderly(Now), Sound(Now)', NEW p \in Conns, NEW Q, conns' = [conns EXCEPT ![p] = Q], pool' = pool,
         SameSending(conns[p], Q), NEW c \in Calls, NEW C, calls' = [calls EXCEPT ![c] = C],
         SameUse(calls[c], C) \/ (Quiet(Now, Now', c) /\ (Goes(calls[c], C) \/ C.conn = p)),
         C.res \in {calls[c].res, c}, InLine(Now', p)
  PROVE  Orderly(Now')
<1>1. conns'[p] = Q /\ DOMAIN conns' = DOMAIN conns /\ \A q \in DOMAIN conns : q # p => SameTalk(conns[q], conns'[q])
  BY NowFields, TalkSelf
<1>2. calls'[c] = C /\ \A d \in Calls : d # c => calls'[d] = calls[d]
  BY NowFields
<1>3. \A d \in Calls : /\ SameUse(calls[d], calls'[d]) \/ (Goes(calls[d], calls'[d]) /\ Quiet(Now, Now', d)) \/
                            (calls'[d].conn = p /\ Quiet(Now, Now', d))
                       /\ calls'[d].res \in {calls[d].res, d}
  BY <1>2, SameUseSelf
<1> QED BY <1>1, <1>3, LoopOrderly

LEMMA ReadLoopEndsOrderly ==
  ASSUME Sound(Now), Orderly(Now), Sound(Now)', NEW p \in Conns, ReadLoopEnds(p)
  PROVE  Orderly(Now')
<1> DEFINE err == conns[p].closeErr
           A == ClosePC(Now, p, err)
           B == RemoveIdleConn(A, p)
           Q == [B.conns[p] EXCEPT !.read = "done", !.rc = {}, !.resp = {}, !.out = <<>>, !.alive = FALSE,
                                   !.bodyRead = "none", !.werrch = "none"]
           cl == [c \in Calls |-> IF calls[c].pc = "eofwait" /\ calls[c].conn = p
                                  THEN [calls[c] EXCEPT !.pc = "returned"] ELSE calls[c]]
<1>0. /\ p \in DOMAIN Now.conns /\ conns[p] \in PConnType /\ Now.conns = conns /\ Now.calls = calls /\ Now.pool = pool
      /\ Now \in StateType /\ Arranged(Now) /\ Len(conns) <= MaxConns /\ InLine(Now, p)
  BY NowFields, SoundFields DEF Listed, Orderly, AllInLine
<1>1. err \in {"other", "closedIdle", "readErr"}
  BY <1>0 DEF PConnType
<1>2. Becomes([B EXCEPT !.conns[p] = [@ EXCEPT !.read = "done", !.rc = {}, !.resp = {}, !.out = <<>>, !.alive = FALSE,
                                       !.bodyRead = "none", !.werrch = "none"], !.calls = cl])
  BY DEF ReadLoopEnds
<1> HIDE DEF err
<1>3. A \in StateType /\ A.pool = pool /\ Lightened(Now, A)
  <2>1. LET V == ClosePC(Now, p, err) IN V \in StateType /\ V.pool = Now.pool /\ Lightened(Now, V)
    BY <1>0, <1>1, ClosePCIs, ZenonT(60)
  <2> QED BY <1>0, <2>1
<1>4. Arranged(A)
  BY <1>0, <1>3, ListedLighter
<1>5. Len(A.conns) <= MaxConns /\ p \in DOMAIN A.conns
  BY <1>0, <1>3 DEF Lightened
<1> HIDE DEF A
<1>6. B \in StateType /\ Lightened(A, B) /\ B.pool.lru = A.pool.lru \ {p}
  BY <1>3, <1>4, <1>5, RemoveIdleConnIs
<1> HIDE DEF B
<1>7. Lightened(Now, B)
  BY <1>3, <1>6, LightenedTwice
<1>8. /\ DOMAIN B.conns = DOMAIN conns /\ p \in DOMAIN B.conns /\ B.conns[p] \in PConnType /\ B.conns \in Seq(PConnType)
      /\ \A q \in DOMAIN conns : Lighter(conns[q], B.conns[q])
  BY <1>0, <1>6, <1>7, StateFields DEF Lightened
<1>9. pool' = B.pool /\ conns' = [B.conns EXCEPT ![p] = Q] /\ calls' = cl
  <2>1. LET E == [B EXCEPT !.conns[p] = Q, !.calls = cl] IN
        E.pool = B.pool /\ E.conns = [B.conns EXCEPT ![p] = Q] /\ E.calls = cl
    <3> HIDE DEF Q, cl
    <3> QED BY <1>6, TurnFields
  <2> HIDE DEF cl
  <2> QED BY <1>2, <2>1 DEF Becomes
<1>10. Q.read = "done" /\ Q.dial = conns[p].dial /\ Q.writech = conns[p].writech /\ SameSending(conns[p], Q)
  <2>1. Lighter(conns[p], B.conns[p])
    BY <1>0, <1>8
  <2>2. /\ Q.read = "done" /\ Q.dial = B.conns[p].dial /\ Q.writech = B.conns[p].writech /\ Q.got = B.conns[p].got
        /\ Q.nwrite = B.conns[p].nwrite /\ Q.write = B.conns[p].write /\ Q.closed = B.conns[p].closed /\ Q.srvClosed = B.conns[p].srvClosed
    BY <1>8 DEF PConnType
  <2> HIDE DEF Q
  <2> QED BY <2>1, <2>2 DEF Lighter, SameWork, SameSending, Open
<1> HIDE DEF Q
<1>11. conns'[p] = Q /\ DOMAIN conns' = DOMAIN conns /\ \A q \in DOMAIN conns : q # p => SameTalk(conns[q], conns'[q])
  BY <1>8, <1>9, LighterTalk
<1>12. InLine(Now', p)
  <2>1. conns[p].read = "exit"
    BY DEF ReadLoopEnds
  <2> QED BY <1>0, <1>10, <1>11, <2>1, NextFields, Ended DEF InLine
<1>13. ASSUME NEW d \in Calls
       PROVE  /\ SameUse(calls[d], calls'[d]) \/ (Goes(calls[d], calls'[d]) /\ Quiet(Now, Now', d))
              /\ calls'[d].res = calls[d].res
  <2> DEFINE D == [calls[d] EXCEPT !.pc = "returned"]
  <2>1. calls[d] \in CallType
    BY NowFields
  <2>2. calls'[d] = IF calls[d].pc = "eofwait" /\ calls[d].conn = p THEN D ELSE calls[d]
    BY <1>9
  <2>3. D.pc = "returned" /\ D.res = calls[d].res
    BY <2>1 DEF CallType
  <2> HIDE DEF D
  <2>4. CASE calls[d].pc = "eofwait" /\ calls[d].conn = p
    <3>1. Quiet(Now, Now', d)
      BY <2>2, <2>3, <2>4, NextFields, NowFields DEF Quiet, Past
    <3> QED BY <2>2, <2>3, <2>4, <3>1 DEF Goes
  <2>5. CASE ~(calls[d].pc = "eofwait" /\ calls[d].conn = p)
    BY <2>2, <2>5 DEF SameUse
  <2> QED BY <2>4, <2>5
<1>14. pool'.lru \subseteq pool.lru
  BY <1>3, <1>6, <1>9
<1> QED BY <1>10, <1>11, <1>12, <1>13, <1>14, LoopOrderly

\* What the invariants say of connection p.
LEMMA LineFields ==
  ASSUME Sound(Now), Orderly(Now), NEW p \in Conns
  PROVE  /\ p \in DOMAIN conns /\ conns[p] \in PConnType /\ Now.conns[p] = conns[p] /\ Now.calls = calls /\ Now.pool = pool
         /\ RequestsKept(Now, p) /\ OneCall(Now, p) /\ conns[p].rc \in SUBSET Calls /\ conns[p].reqch \in SUBSET Calls
         /\ RespIs(conns[p]) /\ (conns[p].read = "error" => ~Open(conns[p]))
         /\ (conns[p].dial # "done" => conns[p].writech = {}) /\ (conns[p].dial = "dialing" => conns[p].read = "none")
         /\ Live(conns[p]) => InTurn(conns[p])
         /\ Live(conns[p]) => \A c \in Calls : calls[c].conn = p /\ calls[c].pc = "body" =>
                                c \in conns[p].rc /\ conns[p].read = "body" /\ conns[p].bodyRead = "none"
         /\ Spoilt(conns[p]) => /\ ~conns[p].alive /\ p \notin pool.lru
                                /\ \A c \in Calls : calls[c].conn = p => calls[c].pc \notin {"enter", "send", "sent"}
<1>1. InLine(Now, p)
  BY NowFields DEF Orderly, AllInLine
<1> QED BY <1>1, ConnFields DEF InLine

LEMMA DialDoneOrderly ==
  ASSUME Sound(Now), Orderly(Now), Sound(Now)', NEW p \in Conns, DialDone(p)
  PROVE  Orderly(Now')
<1> DEFINE P == conns[p]
           A == [P EXCEPT !.dial = "ready", !.read = "peek", !.write = "idle"]
           B == [P EXCEPT !.dial = "failed", !.closed = "other"]
<1>1. /\ P \in PConnType /\ P.dial = "dialing" /\ P.read = "none" /\ P.writech = {} /\ P.reqch = {} /\ P.rc = {} /\ InTurn(P)
      /\ \A d \in Calls : calls[d].conn # p
  BY LineFields DEF DialDone, RequestsKept, Live
<1>2. \E Q \in {A, B} : pool' = pool /\ conns' = [conns EXCEPT ![p] = Q] /\ calls' = calls
  BY DEF DialDone, Becomes, Now
<1>3. \A Q \in {A, B} : /\ Q.read \in {"none", "peek"} /\ Q.writech = {} /\ Q.reqch = {} /\ Q.rc = {} /\ Q.out = P.out /\ Q.got = P.got
                        /\ Q.answered = P.answered /\ (Open(Q) => Open(P)) /\ Q.nwrite = P.nwrite /\ Q.dial # "dialing"
  BY ZenonT(60), <1>1 DEF PConnType, Open
<1> HIDE DEF A, B
<1>4. PICK Q \in {A, B} : pool' = pool /\ conns' = [conns EXCEPT ![p] = Q] /\ calls' = calls
  BY <1>2
<1>5. conns'[p] = Q
  BY <1>4, NowFields
<1>6. InTurn(Q)
  <2>1. P.out = <<>>
    BY <1>1 DEF InTurn, OutIs, BodyLeft
  <2>2. Open(P) => P.answered = Len(P.got)
    BY <1>1 DEF InTurn, Unanswered
  <2> QED BY <1>3, <2>1, <2>2 DEF InTurn, OutIs, Unanswered, NotWritten, WithBody
<1>7. InLine(Now', p)
  BY <1>1, <1>3, <1>4, <1>5, <1>6, NextFields DEF InLine, RespIs, Spoilt
<1>8. SameSending(P, Q)
  BY <1>3 DEF SameSending
<1> QED BY <1>4, <1>7, <1>8, LoopTurn

\* Connection p, whose responses were read to their end, is given to a call or becomes idle.
LEMMA LentOrderly ==
  ASSUME Sound(Now), Orderly(Now), Sound(Now)', NEW p \in Conns, ~Spoilt(conns[p]), DOMAIN conns' = DOMAIN conns,
         \A q \in DOMAIN conns : SameTalk(conns[q], conns'[q]), pool'.lru \subseteq pool.lru \cup {p},
         \A d \in Calls : \/ SameUse(calls[d], calls'[d])
                          \/ Goes(calls[d], calls'[d]) /\ Quiet(Now, Now', d) /\ calls'[d].res = calls[d].res
                          \/ /\ calls[d].pc \notin Past /\ calls'[d].conn = p /\ calls'[d].pc = "enter"
                             /\ calls'[d].res = calls[d].res
  PROVE  Orderly(Now')
<1>1. \A d \in Calls : calls[d].pc \notin Past /\ calls'[d].pc = "enter" => Quiet(Now, Now', d)
  BY NextFields, NowFields DEF Quiet, Past
<1>2. NobodyNew(Now, Now', p)
  BY NextFields, LineFields DEF NobodyNew, SameUse, Goes
<1>3. InLine(Now', p)
  <2>1. InLine(Now, p) /\ SameTalk(Now.conns[p], Now'.conns[p])
    BY NextFields, NowFields DEF Orderly, AllInLine
  <2> QED BY <1>2, <2>1, InLineSame
<1>4. SameSending(conns[p], conns'[p])
  BY NowFields, TalkSending
<1>5. \A d \in Calls : SameUse(calls[d], calls'[d]) \/ (Goes(calls[d], calls'[d]) /\ Quiet(Now, Now', d)) \/
                            (calls'[d].conn = p /\ Quiet(Now, Now', d))
  BY <1>1
<1>6. \A d \in Calls : calls'[d].res \in {calls[d].res, d}
  BY DEF SameUse
<1> QED BY <1>3, <1>4, <1>5, <1>6, LoopOrderly

LEMMA GotDialOrderly ==
  ASSUME Sound(Now), Orderly(Now), Sound(Now)', NEW c \in Calls, GotDial(c)
  PROVE  Orderly(Now')
<1> DEFINE p == calls[c].dial
           Q == [conns[p] EXCEPT !.dial = "done"]
           A == [calls[c] EXCEPT !.dial = 0, !.pc = "enter", !.conn = p]
           B == [calls[c] EXCEPT !.dial = 0, !.pc = "failed", !.err = "dial", !.canceler = "none"]
<1>1. calls[c] \in CallType /\ calls[c].pc = "wait" /\ p \in Conns
  BY NowFields DEF GotDial, CallRefers
<1>2. conns[p] \in PConnType /\ conns[p].dial # "done" /\ conns[p].rc = {}
  <2> HIDE DEF p
  <2>1. conns[p].dial # "done"
    BY DEF GotDial, p
  <2> QED BY <1>1, <2>1, LineFields DEF RequestsKept
<1>3. pool' = pool /\ conns' = [conns EXCEPT ![p] = Q] /\ \E C \in {A, B} : calls' = [calls EXCEPT ![c] = C]
  BY <1>1, NowFields DEF GotDial, Fails, Becomes, Now
<1>4. SameTalk(conns[p], Q)
  BY <1>2 DEF SameTalk, Open, PConnType
<1>5. ~Spoilt(conns[p])
  <2> HIDE DEF p
  <2> QED BY <1>1, <1>2, LineFields DEF RequestsKept, Spoilt
<1>6. A.pc = "enter" /\ A.conn = p /\ A.res = calls[c].res /\ B.pc = "failed" /\ B.err = "dial" /\ B.res = calls[c].res
  BY <1>1 DEF CallType
<1> HIDE DEF Q, A, B, p
<1>7. PICK C \in {A, B} : calls' = [calls EXCEPT ![c] = C]
  BY <1>3
<1>8. calls'[c] = C /\ \A d \in Calls : d # c => calls'[d] = calls[d]
  BY <1>7, NowFields
<1>9. DOMAIN conns' = DOMAIN conns /\ \A q \in DOMAIN conns : SameTalk(conns[q], conns'[q])
  BY <1>1, <1>3, <1>4, NowFields, TalkSelf
<1>10. C = B => Goes(calls[c], calls'[c]) /\ Quiet(Now, Now', c)
  BY <1>1, <1>6, <1>8, NextFields, NowFields DEF Quiet, Goes, Past
<1>11. calls[c].pc \notin Past
  BY <1>1 DEF Past
<1>12. \A d \in Calls : \/ SameUse(calls[d], calls'[d])
                        \/ Goes(calls[d], calls'[d]) /\ Quiet(Now, Now', d) /\ calls'[d].res = calls[d].res
                        \/ /\ calls[d].pc \notin Past /\ calls'[d].conn = p /\ calls'[d].pc = "enter"
                           /\ calls'[d].res = calls[d].res
  BY <1>6, <1>7, <1>8, <1>10, <1>11, SameUseSelf
<1> QED BY <1>1, <1>3, <1>5, <1>9, <1>12, LentOrderly

LEMMA SrvRespondOrderly ==
  ASSUME Sound(Now), Orderly(Now), Sound(Now)', NEW p \in Conns, SrvRespond(p)
  PROVE  Orderly(Now')
<1> DEFINE P == conns[p]
           c == P.got[P.answered + 1]
           n == P.answered + 1
           out(close) == P.out \o Message(c, close)
           Q(close) == [P EXCEPT !.answered = n, !.srvClosed = close, !.out = out(close)]
<1>1. /\ P \in PConnType /\ Open(P) /\ P.answered < Len(P.got) /\ P.got \in Seq(Calls) /\ P.answered \in Nat
      /\ P.out \in Seq(TokenType) /\ (Live(P) => InTurn(P))
  BY LineFields DEF SrvRespond, Open, PConnType
<1>2. \E close \in BOOLEAN : pool' = pool /\ conns' = [conns EXCEPT ![p] = Q(close)] /\ calls' = calls
  BY DEF SrvRespond, Becomes, Now, WithConn
<1>3. PICK close \in BOOLEAN : pool' = pool /\ conns' = [conns EXCEPT ![p] = Q(close)] /\ calls' = calls
  BY <1>2
<1> DEFINE R == Q(close)
<1>4. /\ R.read = P.read /\ R.writech = P.writech /\ R.reqch = P.reqch /\ R.rc = P.rc /\ R.resp = P.resp /\ R.out = out(close) /\ R.got = P.got
      /\ R.answered = n /\ (Open(R) => Open(P)) /\ R.nwrite = P.nwrite /\ R.dial = P.dial /\ R.write = P.write /\ R.bodyRead = P.bodyRead
      /\ R.alive = P.alive
  <2> HIDE DEF n, out
  <2> QED BY <1>1 DEF PConnType, Open
<1>5. conns'[p] = R
  BY <1>3, NowFields
<1> HIDE DEF Q, out
<1>6. ASSUME Live(P) PROVE InTurn(R)
  <2>1. P.out = <<>> /\ P.answered + 1 = Len(P.got) /\ P.reqch = {c}
    BY <1>1, <1>6 DEF InTurn, Unanswered
  <2>2. P.write = "idle" => P.writech = {}
    BY <1>1, <1>6 DEF InTurn, NotWritten
  <2>3. /\ out(close) # <<>> /\ Head(out(close)).k = "head" /\ Head(out(close)).call = c
        /\ Len(out(close)) = IF Req(c).resBody THEN 2 ELSE 1
    BY <2>1 DEF Message, out
  <2>4. OutIs(R)
    BY <1>4, <2>1, <2>3 DEF OutIs, Whole
  <2>5. Unanswered(R) /\ NotWritten(R)
    BY <1>4, <2>1, <2>2 DEF Unanswered, NotWritten
  <2>6. WithBody(R) \/ R.read = "body" => R.reqch = {}
    BY <1>1, <1>4, <1>6 DEF InTurn, WithBody
  <2> QED BY <2>4, <2>5, <2>6 DEF InTurn
<1>7. InLine(Now', p)
  <2>1. /\ RespIs(R) /\ (R.read = "error" => ~Open(R)) /\ (R.dial # "done" => R.writech = {}) /\ (R.dial = "dialing" => R.read = "none")
        /\ (Live(R) <=> Live(P)) /\ (Spoilt(R) <=> Spoilt(P))
    BY <1>1, <1>4, LineFields DEF RespIs, Live, Spoilt
  <2> HIDE DEF R
  <2> QED BY <1>3, <1>4, <1>5, <1>6, <2>1, NextFields, LineFields DEF InLine
<1>8. SameSending(P, R)
  BY <1>4 DEF SameSending
<1> QED BY <1>3, <1>7, <1>8, LoopTurn

LEMMA TailIs ==
  ASSUME NEW X, NEW s \in Seq(X), s # <<>>
  PROVE  Len(s) \in Nat /\ Len(Tail(s)) = Len(s) - 1 /\ (Len(s) = 1 => Tail(s) = <<>>)
OBVIOUS

LEMMA ReadResponseOrderly ==
  ASSUME Sound(Now), Orderly(Now), Sound(Now)', NEW p \in Conns, ReadResponse(p)
  PROVE  Orderly(Now')
<1> DEFINE P == conns[p]
           c == CHOOSE c \in P.reqch : TRUE
           m == P.expected - 1
           A == [P EXCEPT !.reqch = {}, !.rc = {c}, !.out = Tail(P.out), !.expected = m, !.resp = {Head(P.out)},
                          !.alive = ~Head(P.out).close, !.read = IF Req(c).resBody THEN "deliver" ELSE "recycle"]
           B == [P EXCEPT !.reqch = {}, !.rc = {c}, !.closeErr = "readErr", !.read = "error"]
           C == [calls[c] EXCEPT !.canceler = "none"]
<1>1. /\ P \in PConnType /\ P.read = "peek" /\ PeekReturns(P) /\ P.reqch # {} /\ P.reqch \in SUBSET Calls /\ InTurn(P)
      /\ P.out \in Seq(TokenType) /\ P.rc = {} /\ P.dial # "dialing"
  BY ZenonT(60), LineFields DEF ReadResponse, Live, PConnType, RequestsKept
<1>2. c \in P.reqch /\ c \in Calls /\ calls[c] \in CallType
  BY <1>1, NowFields
<1> HIDE DEF c
<1>3. \/ HasData(P) /\ pool' = pool /\ conns' = [conns EXCEPT ![p] = A] /\ calls' = calls
      \/ /\ ~HasData(P) \/ P.closed # "no"
         /\ pool' = pool /\ conns' = [conns EXCEPT ![p] = B] /\ (calls' = calls \/ calls' = [calls EXCEPT ![c] = C])
  <2>1. [TakeResponse([P EXCEPT !.reqch = {}, !.rc = {c}]) EXCEPT !.read = IF Req(c).resBody THEN "deliver" ELSE "recycle"] = A
    BY <1>1 DEF TakeResponse, PConnType
  <2>2. [[P EXCEPT !.reqch = {}, !.rc = {c}] EXCEPT !.closeErr = "readErr", !.read = "error"] = B
    BY <1>1 DEF PConnType
  <2> HIDE DEF A, B
  <2>3. \/ HasData(P) /\ Becomes(WithConn(Now, p, A))
        \/ /\ ~HasData(P) \/ P.closed # "no"
           /\ Becomes(WithConn(Now, p, B)) \/ Becomes(NoCanceler(WithConn(Now, p, B), c))
    BY <2>1, <2>2 DEF ReadResponse, c
  <2> QED BY <2>3 DEF Becomes, WithConn, NoCanceler, Now
<1>4. CASE HasData(P) /\ pool' = pool /\ conns' = [conns EXCEPT ![p] = A] /\ calls' = calls
  <2>1. /\ A.read = IF Req(c).resBody THEN "deliver" ELSE "recycle"
        /\ A.writech = P.writech /\ A.reqch = {} /\ A.rc = {c} /\ A.resp = {Head(P.out)} /\ A.out = Tail(P.out) /\ A.got = P.got
        /\ A.answered = P.answered /\ (Open(A) <=> Open(P)) /\ A.nwrite = P.nwrite /\ A.dial = P.dial /\ A.write = P.write
    <3> HIDE DEF m
    <3> QED BY <1>1 DEF PConnType, Open
  <2> HIDE DEF A
  <2>2. P.out # <<>> /\ Whole(P, c)
    <3>1. P.out # <<>> /\ OutIs(P) /\ ~BodyLeft(P)
      BY <1>1, <1>4 DEF HasData, InTurn, BodyLeft
    <3> QED BY <1>2, <3>1 DEF OutIs, Whole
  <2>3. RespIs(A)
    BY <2>1, <2>2 DEF RespIs, Whole
  <2>4. A.out # <<>> => Len(A.out) = 1 /\ Req(c).resBody
    <3>1. Len(P.out) = IF Req(c).resBody THEN 2 ELSE 1
      BY <2>2 DEF Whole
    <3>2. Len(A.out) = Len(P.out) - 1 /\ (Len(P.out) = 1 => A.out = <<>>)
      BY <1>1, <2>1, <2>2, TailIs
    <3> QED BY <3>1, <3>2
  <2>5. OutIs(A)
    BY <2>1, <2>4 DEF OutIs, BodyLeft
  <2>6. Unanswered(A) /\ NotWritten(A)
    BY <1>1, <2>1, <2>2 DEF InTurn, Unanswered, NotWritten
  <2>7. InTurn(A)
    BY <2>1, <2>5, <2>6 DEF InTurn
  <2>8. conns'[p] = A
    BY <1>4, NowFields
  <2>9. InLine(Now', p)
    <3>1. Live(P)
      BY <1>1 DEF Live
    <3> QED BY <1>1, <1>4, <2>1, <2>3, <2>7, <2>8, <3>1, NextFields, LineFields DEF InLine, Spoilt
  <2>10. SameSending(P, A)
    BY <2>1 DEF SameSending
  <2> QED BY <1>4, <2>9, <2>10, LoopTurn
<1>5. CASE /\ ~HasData(P) \/ P.closed # "no"
           /\ pool' = pool /\ conns' = [conns EXCEPT ![p] = B] /\ (calls' = calls \/ calls' = [calls EXCEPT ![c] = C])
  <2>1. B.read = "error" /\ B.writech = P.writech /\ B.got = P.got /\ ~Open(B) /\ B.nwrite = P.nwrite /\ B.dial = P.dial /\ B.write = P.write
        /\ ~Open(P)
    BY <1>1, <1>5 DEF PConnType, Open, PeekReturns
  <2> HIDE DEF B
  <2>2. conns'[p] = B
    BY <1>5, NowFields
  <2>3. InLine(Now', p)
    BY <1>1, <2>1, <2>2, NextFields, LineFields DEF InLine, Live, RespIs, Spoilt
  <2>4. SameSending(P, B)
    BY <2>1 DEF SameSending
  <2>5. SameUse(calls[c], C)
    BY <1>2 DEF SameUse, CallType
  <2>6. C.res = calls[c].res
    BY <2>5 DEF SameUse
  <2> HIDE DEF C
  <2> QED BY <1>2, <1>5, <2>3, <2>4, <2>5, <2>6, LoopTurn, TurnOrderly
<1> QED BY <1>3, <1>4, <1>5

LEMMA EofcOrderly ==
  ASSUME Sound(Now), Orderly(Now), Sound(Now)', NEW p \in Conns, Eofc(p)
  PROVE  Orderly(Now')
<1> DEFINE P == conns[p]
           c == RC(p)
           Q == [P EXCEPT !.read = IF P.alive THEN "peek" ELSE "exit", !.rc = {}]
           C == [calls[c] EXCEPT !.pc = IF calls[c].pc = "eofwait" THEN "returned" ELSE calls[c].pc]
<1>1. /\ P \in PConnType /\ P.read = "eofc" /\ InTurn(P) /\ P.rc # {} /\ P.rc \in SUBSET Calls /\ Live(P) /\ P.dial # "dialing"
  BY LineFields DEF Eofc, Live, RequestsKept
<1>2. c \in P.rc /\ c \in Calls
  BY <1>1 DEF RC
<1> HIDE DEF c
<1>3. calls[c] \in CallType
  BY <1>2, NowFields
<1>4. pool' = pool /\ conns' = [conns EXCEPT ![p] = Q] /\ calls' = [calls EXCEPT ![c] = C]
  BY DEF Eofc, Becomes, Now, c
<1>5. /\ Q.read = (IF P.alive THEN "peek" ELSE "exit")
      /\ Q.writech = P.writech /\ Q.reqch = P.reqch /\ Q.rc = {} /\ Q.resp = P.resp /\ Q.out = P.out /\ Q.got = P.got
      /\ Q.answered = P.answered /\ (Open(Q) <=> Open(P)) /\ Q.nwrite = P.nwrite /\ Q.dial = P.dial /\ Q.write = P.write
  BY <1>1 DEF PConnType, Open
<1>6. /\ C.pc = (IF calls[c].pc = "eofwait" THEN "returned" ELSE calls[c].pc) /\ C.conn = calls[c].conn /\ C.start = calls[c].start
      /\ C.wch = calls[c].wch /\ C.err = calls[c].err /\ C.res = calls[c].res
  BY <1>3 DEF CallType
<1> HIDE DEF Q, C
<1>7. conns'[p] = Q /\ calls'[c] = C /\ \A d \in Calls : d # c => calls'[d] = calls[d]
  BY <1>2, <1>4, NowFields
<1>8. ASSUME P.alive PROVE InTurn(Q)
  <2>1. ~BodyLeft(P)
    BY <1>1, <1>8, LineFields DEF BodyLeft, Spoilt
  <2>2. OutIs(Q)
    BY <1>1, <1>5, <2>1 DEF InTurn, OutIs, Whole
  <2> QED BY <1>1, <1>5, <1>8, <2>2 DEF InTurn, Unanswered, NotWritten, WithBody
<1>9. InLine(Now', p)
  <2>1. \A d \in Calls : calls'[d].conn = p => calls'[d].pc # "body"
    BY <1>1, <1>6, <1>7, LineFields
  <2> QED BY <1>1, <1>5, <1>7, <1>8, <2>1, NextFields, LineFields DEF InLine, Live, RespIs, Spoilt
<1>10. SameSending(P, Q)
  BY <1>5 DEF SameSending
<1>11. SameUse(calls[c], C) \/ (Quiet(Now, Now', c) /\ Goes(calls[c], C))
  <2>1. CASE calls[c].pc = "eofwait"
    BY <1>6, <1>7, <2>1, NextFields, NowFields DEF Quiet, Goes, Past
  <2>2. CASE calls[c].pc # "eofwait"
    BY <1>6, <2>2 DEF SameUse
  <2> QED BY <2>1, <2>2
<1> QED BY <1>2, <1>4, <1>6, <1>9, <1>10, <1>11, TurnOrderly

LEMMA ReadBodyOrderly ==
  ASSUME Sound(Now), Orderly(Now), Sound(Now)', NEW c \in Calls, ReadBody(c)
  PROVE  Orderly(Now')
<1> DEFINE p == calls[c].conn
           P == conns[p]
           A == [P EXCEPT !.bodyRead = "early"]
           B == [P EXCEPT !.bodyRead = "eof", !.out = Tail(P.out)]
           Ends(Q, pc) == conns' = [conns EXCEPT ![p] = Q] /\ calls' = [calls EXCEPT ![c] = [calls[c] EXCEPT !.pc = pc]]
<1>1. calls[c].pc = "body" /\ calls[c] \in CallType /\ p \in Conns
  BY CallFields DEF ReadBody
<1>2. pool' = pool /\ (Ends(A, "returned") \/ (P.out # <<>> /\ Ends(B, "eofwait")))
  BY DEF ReadBody, Becomes, Now
<1>3. P \in PConnType /\ P.out \in Seq(TokenType)
  <2> HIDE DEF p
  <2>1. P \in PConnType
    BY <1>1, NowFields
  <2> QED BY <2>1 DEF PConnType
<1>4. \A Q \in {A, B} : /\ Q.read = P.read /\ Q.writech = P.writech /\ Q.reqch = P.reqch /\ Q.rc = P.rc /\ Q.resp = P.resp /\ Q.got = P.got
                        /\ Q.answered = P.answered /\ (Open(Q) <=> Open(P)) /\ Q.nwrite = P.nwrite /\ Q.dial = P.dial /\ Q.write = P.write
  BY ZenonT(60), <1>3 DEF PConnType, Open
<1>5. A.bodyRead = "early" /\ A.out = P.out /\ B.bodyRead = "eof" /\ B.out = Tail(P.out)
  BY <1>3 DEF PConnType
<1>6. \A pc : LET C == [calls[c] EXCEPT !.pc = pc] IN C.pc = pc /\ C.res = calls[c].res
  BY <1>1 DEF CallType
<1>7. PICK Q \in {A, B}, pc \in {"returned", "eofwait"} :
        Ends(Q, pc) /\ ((Q.out = P.out /\ Q.bodyRead = "early") \/ (Q.out = Tail(P.out) /\ P.out # <<>>))
  <2> HIDE DEF A, B, Ends
  <2> QED BY <1>2, <1>5
<1> DEFINE C == [calls[c] EXCEPT !.pc = pc]
<1> HIDE DEF A, B
<1>8. C.pc = pc /\ C.res = calls[c].res
  BY <1>6
<1>9. conns' = [conns EXCEPT ![p] = Q] /\ calls' = [calls EXCEPT ![c] = C]
  BY <1>7
<1> HIDE DEF C, p, Ends
<1>10. conns'[p] = Q /\ calls'[c] = C /\ \A d \in Calls : d # c => calls'[d] = calls[d]
  BY <1>1, <1>9, NowFields
<1>11. Live(P) => c \in P.rc /\ P.read = "body" /\ P.bodyRead = "none" /\ InTurn(P) /\ P.reqch = {}
  <2>1. Live(P) => c \in P.rc /\ P.read = "body" /\ P.bodyRead = "none" /\ InTurn(P)
    BY <1>1, LineFields DEF p
  <2> QED BY <2>1 DEF InTurn
<1>12. ASSUME Live(P) PROVE InTurn(Q)
  <2>1. P.out # <<>> => BodyLeft(P)
    BY <1>11, <1>12 DEF InTurn, OutIs, Whole
  <2>2. Q.out # <<>> => BodyLeft(Q)
    <3>1. CASE Q.out = P.out /\ Q.bodyRead = "early"
      BY <1>4, <1>11, <1>12, <2>1, <3>1 DEF BodyLeft
    <3>2. CASE Q.out = Tail(P.out) /\ P.out # <<>>
      BY <1>3, <2>1, <3>2, TailIs DEF BodyLeft
    <3> QED BY <1>7, <3>1, <3>2
  <2>3. P.out = <<>> => Q.out = <<>>
    BY <1>7
  <2> QED BY <1>4, <1>11, <1>12, <2>2, <2>3 DEF InTurn, OutIs, Unanswered, NotWritten
<1>13. InLine(Now', p)
  <2>1. \A d \in P.rc : d = c \/ ~Live(P)
    BY <1>1, <1>11, LineFields DEF RequestsKept
  <2>2. \A d \in Calls : calls'[d].conn = p /\ calls'[d].pc = "body" => ~Live(P)
    BY <1>1, <1>8, <1>10, <2>1, LineFields
  <2>3. (Live(Q) <=> Live(P)) /\ ~Spoilt(Q)
    BY <1>4, <1>11 DEF Live, Spoilt
  <2>4. RespIs(Q) /\ (Q.read = "error" => ~Open(Q)) /\ (Q.dial # "done" => Q.writech = {}) /\ (Q.dial = "dialing" => Q.read = "none")
    BY <1>1, <1>4, LineFields DEF RespIs
  <2> QED BY <1>10, <1>12, <2>2, <2>3, <2>4, NextFields DEF InLine
<1>14. SameSending(P, Q)
  BY <1>4 DEF SameSending
<1>15. Quiet(Now, Now', c) /\ Goes(calls[c], C)
  BY <1>1, <1>8, <1>10, NextFields, NowFields DEF Quiet, Goes, Past
<1> QED BY <1>1, <1>2, <1>8, <1>9, <1>13, <1>14, <1>15, TurnOrderly

\* The response in the read loop's hands is that of the call it waits to give it to.
LEMMA AnswerIs ==
  ASSUME Sound(Now), Orderly(Now), NEW p \in Conns, conns[p].read = "deliver", NEW c \in conns[p].rc
  PROVE  Answer(conns[p]) = c
<1> DEFINE P == conns[p]
           r == CHOOSE r \in P.resp : TRUE
<1>1. P.resp # {} /\ RespIs(P)
  BY LineFields DEF RequestsKept
<1>2. r \in P.resp
  BY <1>1
<1> HIDE DEF r
<1>3. r.k = "head" /\ r.call = c
  BY <1>1, <1>2 DEF RespIs
<1> QED BY <1>3 DEF Answer, r

LEMMA DeliverOrderly ==
  ASSUME Sound(Now), Orderly(Now), Sound(Now)', NEW p \in Conns, Deliver(p)
  PROVE  Orderly(Now')
<1> DEFINE P == conns[p]
           c == RC(p)
           err == IF P.canceled THEN "canceled" ELSE "readErr"
           ans == Answer(P)
           E == [P EXCEPT !.read = "exit", !.rc = {}]
           B == [P EXCEPT !.read = "body", !.bodyRead = "none"]
           R == [P EXCEPT !.read = IF P.alive THEN "peek" ELSE "exit", !.rc = {}]
           Fail == [calls[c] EXCEPT !.pc = "failed", !.err = err, !.canceler = "none"]
           Body == [calls[c] EXCEPT !.pc = "body", !.res = ans]
           Done == [calls[c] EXCEPT !.pc = "returned", !.res = ans]
           Same(Q) == /\ Q.writech = P.writech /\ Q.reqch = P.reqch /\ Q.resp = P.resp /\ Q.out = P.out /\ Q.got = P.got
                      /\ Q.answered = P.answered /\ (Open(Q) <=> Open(P)) /\ Q.nwrite = P.nwrite /\ Q.dial = P.dial /\ Q.write = P.write
<1>0. /\ P \in PConnType /\ P.read \in {"deliver", "error"} /\ P.rc # {} /\ P.rc \in SUBSET Calls /\ P.dial # "dialing"
      /\ \A d \in P.rc : P.rc = {d}
  BY LineFields DEF Deliver, RequestsKept
<1>1. c \in P.rc /\ c \in Calls /\ P.rc = {c}
  BY <1>0 DEF RC
<1> HIDE DEF c
<1>2. calls[c] \in CallType
  BY <1>1, NowFields
<1>3. pool' = pool /\
      \/ conns' = [conns EXCEPT ![p] = E] /\ calls' = calls
      \/ P.read = "error" /\ ~Gone(p, c) /\ conns' = [conns EXCEPT ![p] = E] /\ calls' = [calls EXCEPT ![c] = Fail]
      \/ /\ P.read = "deliver" /\ ~Gone(p, c) /\ Req(c).resBody
         /\ conns' = [conns EXCEPT ![p] = B] /\ calls' = [calls EXCEPT ![c] = Body]
      \/ /\ P.read = "deliver" /\ ~Gone(p, c) /\ ~Req(c).resBody
         /\ conns' = [conns EXCEPT ![p] = R] /\ calls' = [calls EXCEPT ![c] = Done]
  BY <1>0 DEF Deliver, Becomes, Now, WithConn, Fails, c
<1>4. Same(E) /\ Same(B) /\ Same(R)
  BY <1>0 DEF PConnType, Open
<1>5. /\ E.read = "exit" /\ E.rc = {} /\ B.read = "body" /\ B.bodyRead = "none" /\ B.rc = P.rc
      /\ R.read = (IF P.alive THEN "peek" ELSE "exit") /\ R.rc = {}
  BY <1>0 DEF PConnType
<1>6. /\ Fail.pc = "failed" /\ Fail.err = err /\ Fail.res = calls[c].res
      /\ Body.pc = "body" /\ Body.res = ans /\ Body.conn = calls[c].conn
      /\ Done.pc = "returned" /\ Done.res = ans
  <2> HIDE DEF ans, err
  <2> QED BY <1>2 DEF CallType
<1>7. P.read = "deliver" => ans = c
  BY <1>1, AnswerIs
<1>8. err # "nothing"
  OBVIOUS
<1> HIDE DEF E, B, R, Fail, Body, Done, ans, err, Same
<1>9. ASSUME NEW Q, Same(Q), conns' = [conns EXCEPT ![p] = Q]
      PROVE  conns'[p] = Q /\ SameSending(P, Q)
  BY <1>9, NowFields DEF SameSending, Same
<1>10. ASSUME conns'[p] = E PROVE InLine(Now', p)
  BY <1>0, <1>4, <1>5, <1>10, NextFields, LineFields, Ended DEF Same
<1>a. ASSUME NEW C, calls' = [calls EXCEPT ![c] = C]
      PROVE  calls'[c] = C /\ \A d \in Calls : d # c => calls'[d] = calls[d]
  BY <1>1, <1>a, NowFields
<1>b. P.read = "deliver" => Live(P) /\ InTurn(P) /\ (\A d \in Calls : calls[d].conn = p => calls[d].pc # "body")
  BY LineFields DEF Live
\* The request of c was written, or will not be.
<1>c. c \in P.writech => P.write # "idle" \/ ~Open(P)
  BY <1>0, <1>1, <1>b, LineFields DEF InTurn, NotWritten, RequestsKept
<1>d. ASSUME ~Gone(p, c), calls'[c].pc \in {"failed", "body", "returned"}, calls'[c].pc = "failed" => calls'[c].err # "nothing",
             Same(conns'[p])
      PROVE  Quiet(Now, Now', c)
  <2>1. calls[c].pc = "sent" /\ calls[c].conn = p
    BY <1>d DEF Gone
  <2> QED BY <1>c, <1>d, <2>1, NextFields, NowFields DEF Quiet, Past, Same
<1>11. CASE conns' = [conns EXCEPT ![p] = E] /\ calls' = calls
  BY <1>3, <1>4, <1>9, <1>10, <1>11, LoopTurn
<1>12. CASE P.read = "error" /\ ~Gone(p, c) /\ conns' = [conns EXCEPT ![p] = E] /\ calls' = [calls EXCEPT ![c] = Fail]
  <2>a. conns'[p] = E /\ calls'[c] = Fail
    BY <1>4, <1>9, <1>12, <1>a
  <2>1. Quiet(Now, Now', c)
    BY <1>4, <1>6, <1>8, <1>12, <1>d, <2>a
  <2>2. Goes(calls[c], Fail)
    BY <1>6 DEF Goes
  <2>3. InLine(Now', p) /\ SameSending(P, E)
    BY <1>4, <1>9, <1>10, <1>12
  <2> QED BY <1>1, <1>3, <1>6, <1>12, <2>1, <2>2, <2>3, TurnOrderly
<1>13. CASE /\ P.read = "deliver" /\ ~Gone(p, c) /\ Req(c).resBody
            /\ conns' = [conns EXCEPT ![p] = B] /\ calls' = [calls EXCEPT ![c] = Body]
  <2>a. conns'[p] = B /\ calls'[c] = Body
    BY <1>4, <1>9, <1>13, <1>a
  <2>1. Quiet(Now, Now', c)
    BY <1>4, <1>6, <1>13, <1>d, <2>a
  <2>2. Body.conn = p
    BY <1>6, <1>13 DEF Gone
  <2>3. WithBody(P) /\ P.reqch = {}
    BY <1>1, <1>13, <1>b DEF WithBody, InTurn
  <2>4. OutIs(B)
    BY <1>4, <1>5, <1>b, <1>13, <2>3 DEF InTurn, OutIs, BodyLeft, Same
  <2>5. InTurn(B)
    BY <1>4, <1>b, <1>13, <2>3, <2>4 DEF InTurn, Unanswered, NotWritten, Same
  <2>6. conns'[p] = B /\ SameSending(P, B) /\ calls'[c] = Body /\ \A d \in Calls : d # c => calls'[d] = calls[d]
    BY <1>4, <1>9, <1>13, <1>a
  <2>7. InLine(Now', p)
    BY <1>0, <1>1, <1>4, <1>5, <1>b, <1>13, <2>5, <2>6, NextFields, LineFields DEF InLine, RespIs, Spoilt, Same
  <2> QED BY <1>1, <1>3, <1>6, <1>7, <1>13, <2>1, <2>2, <2>6, <2>7, TurnOrderly
<1>14. CASE /\ P.read = "deliver" /\ ~Gone(p, c) /\ ~Req(c).resBody
            /\ conns' = [conns EXCEPT ![p] = R] /\ calls' = [calls EXCEPT ![c] = Done]
  <2>a. conns'[p] = R /\ calls'[c] = Done
    BY <1>4, <1>9, <1>14, <1>a
  <2>1. Quiet(Now, Now', c)
    BY <1>4, <1>6, <1>14, <1>d, <2>a
  <2>2. Goes(calls[c], Done)
    BY <1>6 DEF Goes
  <2>3. ~BodyLeft(P)
    BY <1>1, <1>14 DEF BodyLeft
  <2>4. OutIs(R)
    BY <1>4, <1>b, <1>14, <2>3 DEF InTurn, OutIs, Whole, Same
  <2>5. InTurn(R)
    BY <1>4, <1>5, <1>b, <1>14, <2>4 DEF InTurn, Unanswered, NotWritten, WithBody, Same
  <2>6. conns'[p] = R /\ SameSending(P, R) /\ calls'[c] = Done /\ \A d \in Calls : d # c => calls'[d] = calls[d]
    BY <1>4, <1>9, <1>14, <1>a
  <2>7. InLine(Now', p)
    BY <1>0, <1>1, <1>4, <1>5, <1>6, <1>b, <1>14, <2>5, <2>6, NextFields, LineFields DEF InLine, RespIs, Spoilt, Same
  <2> QED BY <1>1, <1>3, <1>6, <1>7, <1>14, <2>1, <2>2, <2>6, <2>7, TurnOrderly
<1> QED BY <1>3, <1>11, <1>12, <1>13, <1>14

-----------------------------------------------------------------------------
(* Steps that send *)

LEMMA SendRequestOrderly ==
  ASSUME Sound(Now), Orderly(Now), Sound(Now)', NEW c \in Calls, SendRequest(c)
  PROVE  Orderly(Now')
<1> DEFINE p == calls[c].conn
           P == conns[p]
           Q == [P EXCEPT !.writech = {c}, !.reqch = {c}]
           n == P.nwrite
           C == [calls[c] EXCEPT !.pc = "sent", !.start = n, !.wrote = FALSE, !.wch = "none"]
<1>1. calls[c].pc = "send" /\ calls[c] \in CallType /\ p \in Conns
  BY CallFields DEF SendRequest
<1>2. pool' = pool /\ conns' = [conns EXCEPT ![p] = Q] /\ calls' = [calls EXCEPT ![c] = C]
  BY DEF SendRequest, Becomes, Now
<1>3. P.reqch = {} /\ P.dial = "done" /\ P.read \notin {"body", "recycle"} /\ ~WithBody(P)
  <2>1. LET q == Now.calls[c].conn O == Now.conns[q] IN O.reqch = {} /\ O.dial = "done" /\ O.read \notin {"body", "recycle"} /\ ~WithBody(O)
    BY <1>1, NowFields, Lonely
  <2> QED BY <2>1, NowFields
<1>4. C.pc = "sent" /\ C.conn = p /\ C.start = n /\ C.wch = "none" /\ C.res = calls[c].res
  <2> HIDE DEF n
  <2> QED BY <1>1 DEF CallType
<1> HIDE DEF p, n, C
<1>5. P \in PConnType /\ Now.conns = conns /\ Now.calls = calls /\ calls[c].conn = p
  BY <1>1, NowFields DEF p
<1>6. /\ Q.writech = {c} /\ Q.reqch = {c} /\ Q.read = P.read /\ Q.rc = P.rc /\ Q.resp = P.resp /\ Q.out = P.out /\ Q.got = P.got /\ Q.bodyRead = P.bodyRead
      /\ Q.answered = P.answered /\ (Open(Q) <=> Open(P)) /\ Q.nwrite = P.nwrite /\ Q.dial = P.dial /\ Q.write = P.write
  BY <1>5 DEF PConnType, Open
<1> HIDE DEF Q
<1>7. /\ conns'[p] = Q /\ DOMAIN conns' = DOMAIN conns /\ \A q \in DOMAIN conns : q # p => conns'[q] = conns[q]
      /\ calls'[c] = C /\ \A d \in Calls : d # c => calls'[d] = calls[d]
  BY <1>1, <1>2, NowFields
<1>8. InLine(Now', p)
  <2>1. ~Spoilt(P)
    BY <1>1, <1>5, LineFields
  <2>2. ASSUME Live(P) PROVE InTurn(Q) /\ \A d \in Calls : calls[d].conn = p => calls[d].pc # "body"
    <3>1. InTurn(P) /\ \A d \in Calls : calls[d].conn = p => calls[d].pc # "body"
      BY <1>1, <1>3, <2>2, LineFields
    <3>2. P.out = <<>>
      BY <1>3, <2>1, <3>1 DEF InTurn, OutIs, BodyLeft, WithBody, Spoilt
    <3>3. Open(P) => P.answered = Len(P.got)
      BY <1>3, <3>1 DEF InTurn, Unanswered
    <3>4. OutIs(Q) /\ Unanswered(Q) /\ NotWritten(Q)
      BY <1>6, <3>2, <3>3 DEF OutIs, Unanswered, NotWritten
    <3>5. ~(WithBody(Q) \/ Q.read = "body")
      BY <1>3, <1>6 DEF WithBody
    <3> QED BY <3>1, <3>4, <3>5 DEF InTurn
  <2>3. RespIs(Q) /\ (Q.read = "error" => ~Open(Q)) /\ Q.dial = "done" /\ (Live(Q) <=> Live(P)) /\ ~Spoilt(Q)
    BY <1>1, <1>3, <1>6, <2>1, LineFields DEF RespIs, Live, Spoilt
  <2> QED BY <1>4, <1>7, <2>2, <2>3, NextFields DEF InLine
<1>9. SentOnce(Now')
  <2>1. SentOnce(Now)
    BY DEF Orderly
  <2>2. \A q \in DOMAIN conns : conns'[q].got = conns[q].got /\ conns'[q].nwrite = conns[q].nwrite
    BY <1>6, <1>7
  <2>3. Seen(Now, c) => Req(c).replayable
    BY <1>1, <1>5, <2>1, SeenIs DEF Past
  <2>4. \A d : Seen(Now', d) <=> Seen(Now, d)
    BY <1>5, <1>7, <2>2, NextFields DEF Seen
  <2>5. ASSUME NEW q \in DOMAIN conns, NEW i \in DOMAIN conns[q].got PROVE Written(Now', q, i)
    <3> DEFINE d == conns[q].got[i]
    <3>1. Written(Now, q, i) /\ Seen(Now, d)
      BY <1>5, <2>1, <2>5 DEF SentOnce, Seen
    <3>2. d \in Calls
      <4>1. conns[q] \in PConnType
        BY <2>5, NowFields
      <4>2. conns[q].got \in Seq(Calls)
        BY <4>1 DEF PConnType
      <4> QED BY <2>5, <4>2
    <3>3. ~Req(d).replayable => calls'[d] = calls[d]
      BY <1>7, <2>3, <3>1, <3>2
    <3>4. conns'[q].got[i] = d
      BY <2>2, <2>5
    <3> HIDE DEF d
    <3>5. Now.conns[q].got[i] = d /\ Now'.conns[q].got[i] = d
      BY <1>5, <3>4, NextFields DEF d
    <3> QED BY <1>5, <1>7, <2>2, <2>5, <3>1, <3>3, <3>5, NextFields DEF Written
  <2>6. ASSUME NEW q \in DOMAIN conns, NEW d \in conns'[q].writech PROVE Unwritten(Now', q, d)
    <3>1. CASE q = p
      BY <1>4, <1>6, <1>7, <2>3, <2>4, <2>6, <3>1, NextFields DEF Unwritten
    <3>2. CASE q # p
      <4>1. conns'[q] = conns[q] /\ Unwritten(Now, q, d)
        BY <1>5, <1>7, <2>1, <2>6, <3>2 DEF SentOnce
      <4>2. CASE d = c
        BY <1>1, <1>4, <1>5, <1>7, <3>2, <4>1, <4>2, NextFields DEF Unwritten
      <4>3. CASE d # c
        <5>1. conns[q] \in PConnType
          BY <2>6, NowFields
        <5>2. d \in Calls
          BY <2>6, <4>1, <5>1 DEF PConnType
        <5> QED BY <1>5, <1>7, <2>4, <4>1, <4>3, <5>2, NextFields DEF Unwritten
      <4> QED BY <4>2, <4>3
    <3> QED BY <3>1, <3>2
  <2>7. ASSUME NEW d \in Calls, calls'[d].pc = "sent" PROVE calls'[d].start <= conns'[calls'[d].conn].nwrite
    <3>1. CASE d = c
      <4>1. n \in Nat /\ conns'[p].nwrite = n
        BY <1>5, <1>6, <1>7 DEF n, PConnType
      <4> QED BY <1>4, <1>7, <3>1, <4>1
    <3>2. CASE d # c
      <4>1. calls[d].pc = "sent" /\ calls'[d] = calls[d]
        BY <1>7, <2>7, <3>2
      <4>2. calls[d].conn \in DOMAIN conns /\ calls[d].start <= conns[calls[d].conn].nwrite
        BY <1>5, <2>1, <4>1, CallFields DEF SentOnce
      <4> QED BY <2>2, <4>1, <4>2
    <3> QED BY <3>1, <3>2
  <2> QED BY <1>7, <2>2, <2>5, <2>6, <2>7, NextFields DEF SentOnce
<1>10. Matched(Now')
  BY <1>4, <1>5, <1>7, NextFields DEF Orderly, Matched
<1>11. \A d \in Calls : SameUse(calls[d], calls'[d]) \/ calls'[d].conn = p
  BY <1>4, <1>7, SameUseSelf
<1> QED BY <1>1, <1>2, <1>7, <1>8, <1>9, <1>10, <1>11, TalkSelf, ConnOrderly

\* The head of the request of c is written.
HeadSent(P, Q, c) ==
  /\ c \in P.writech /\ P.write = "idle" /\ Q.nwrite = P.nwrite + 1 /\ Q.got = IF P.srvClosed THEN P.got ELSE Append(P.got, c)
  /\ Q.read = P.read /\ Q.reqch = P.reqch /\ Q.rc = P.rc /\ Q.resp = P.resp /\ Q.out = P.out /\ Q.answered = P.answered
  /\ Q.bodyRead = P.bodyRead /\ Q.alive = P.alive /\ Q.dial = P.dial /\ Q.closed = P.closed /\ Q.srvClosed = P.srvClosed /\ P.closed = "no"
  /\ Q.writech = {} \/ (Q.writech = P.writech /\ Q.write # "idle")

LEMMA WriteHeadIs ==
  ASSUME Sound(Now), NEW p \in Conns, WriteHead(p)
  PROVE  /\ pool' = pool /\ DOMAIN conns' = DOMAIN conns /\ \A q \in DOMAIN conns : q # p => conns'[q] = conns[q]
         /\ \E c \in conns[p].writech : HeadSent(conns[p], conns'[p], c)
         /\ \A d \in Calls : Wrote(conns[p], calls[d], calls'[d], d, p, "nil") \/ calls'[d] = calls[d]
<1> DEFINE P == conns[p]
           c == CHOOSE c \in P.writech : TRUE
           n == P.nwrite + 1
           f == P.full + 1
           got == IF Arrives(P) THEN Append(P.got, c) ELSE P.got
           A == [P EXCEPT !.nwrite = n, !.got = got, !.write = "body"]
           B == [P EXCEPT !.nwrite = n, !.got = got, !.full = f]
           S == [Now EXCEPT !.conns[p] = B]
           R == WroteAll(B, "nil")
           T == WriteEnds(S, p, "nil")
<1>0. P \in PConnType /\ Now.conns = conns /\ Now.calls = calls /\ Now.pool = pool /\ p \in DOMAIN conns /\ conns \in Seq(PConnType)
      /\ Now \in StateType
  BY NowFields, SoundFields
<1>1. P.write = "idle" /\ P.writech # {} /\ P.closed = "no" /\ P.writech \in SUBSET Calls /\ P.got \in Seq(Calls) /\ P.nwrite \in Nat /\ P.full \in Nat
  BY <1>0 DEF WriteHead, PConnType
<1>2. c \in P.writech /\ c \in Calls
  BY <1>1
<1>3. Becomes(IF Req(c).body THEN [Now EXCEPT !.conns[p] = A] ELSE T)
  <2>1. [P EXCEPT !.nwrite = @ + 1, !.got = IF Arrives(P) THEN Append(@, c) ELSE @] = [P EXCEPT !.nwrite = n, !.got = got]
    BY <1>0 DEF PConnType
  <2>2. [[P EXCEPT !.nwrite = n, !.got = got] EXCEPT !.write = "body"] = A /\ [[P EXCEPT !.nwrite = n, !.got = got] EXCEPT !.full = @ + 1] = B
    <3> HIDE DEF n, got
    <3> QED BY <1>0 DEF PConnType
  <2> DEFINE Q == [P EXCEPT !.nwrite = @ + 1, !.got = IF Arrives(P) THEN Append(@, c) ELSE @]
  <2>3. Becomes(IF Req(c).body THEN WithConn(Now, p, [Q EXCEPT !.write = "body"])
                ELSE WriteEnds(WithConn(Now, p, [Q EXCEPT !.full = @ + 1]), p, "nil"))
    BY DEF WriteHead
  <2>4. [Q EXCEPT !.write = "body"] = A /\ [Q EXCEPT !.full = @ + 1] = B
    BY <2>1, <2>2
  <2> HIDE DEF Q, A, B, c
  <2> QED BY <2>3, <2>4 DEF WithConn
<1>4. n \in Nat /\ f \in Nat /\ got \in Seq(Calls) /\ got = IF P.srvClosed THEN P.got ELSE Append(P.got, c)
  <2>1. n \in Nat /\ f \in Nat
    BY <1>1
  <2> HIDE DEF c
  <2>2. P.srvClosed \in BOOLEAN
    BY <1>0 DEF PConnType
  <2> QED BY <1>1, <1>2, <2>1, <2>2 DEF Arrives
<1> HIDE DEF n, f, got, c
<1>5. HeadSent(P, A, c)
  <2>1. /\ A.nwrite = n /\ A.got = got /\ A.write = "body"
        /\ A.read = P.read /\ A.reqch = P.reqch /\ A.rc = P.rc /\ A.resp = P.resp /\ A.out = P.out /\ A.answered = P.answered
        /\ A.bodyRead = P.bodyRead /\ A.alive = P.alive /\ A.dial = P.dial /\ A.closed = P.closed /\ A.srvClosed = P.srvClosed /\ A.writech = P.writech
    BY <1>0 DEF PConnType
  <2> HIDE DEF A
  <2> QED BY <1>1, <1>2, <1>4, <2>1 DEF HeadSent, n
<1>6. B \in PConnType
  BY ZenonT(60), <1>0, <1>4 DEF PConnType
<1>7. HeadSent(P, R, c)
  <2>1. /\ B.nwrite = n /\ B.got = got
        /\ B.read = P.read /\ B.reqch = P.reqch /\ B.rc = P.rc /\ B.resp = P.resp /\ B.out = P.out /\ B.answered = P.answered
        /\ B.bodyRead = P.bodyRead /\ B.alive = P.alive /\ B.dial = P.dial /\ B.closed = P.closed /\ B.srvClosed = P.srvClosed
    BY <1>0 DEF PConnType
  <2> HIDE DEF B
  <2>2. /\ R.nwrite = B.nwrite /\ R.got = B.got /\ R.writech = {}
        /\ R.read = B.read /\ R.reqch = B.reqch /\ R.rc = B.rc /\ R.resp = B.resp /\ R.out = B.out /\ R.answered = B.answered
        /\ R.bodyRead = B.bodyRead /\ R.alive = B.alive /\ R.dial = B.dial /\ R.closed = B.closed /\ R.srvClosed = B.srvClosed
    BY <1>6 DEF PConnType, WroteAll
  <2> HIDE DEF R
  <2> QED BY <1>1, <1>2, <1>4, <2>1, <2>2 DEF HeadSent, n
<1>8. B.writech = P.writech
  BY <1>0 DEF PConnType
<1> HIDE DEF A, B
<1>9. CASE Req(c).body
  <2>1. pool' = pool /\ conns' = [conns EXCEPT ![p] = A] /\ calls' = calls
    BY <1>3, <1>9 DEF Becomes, Now
  <2>2. conns'[p] = A /\ DOMAIN conns' = DOMAIN conns /\ \A q \in DOMAIN conns : q # p => conns'[q] = conns[q]
    BY <1>0, <2>1
  <2> QED BY <1>2, <1>5, <2>1, <2>2
<1>10. CASE ~Req(c).body
  <2>1. S \in StateType /\ S.pool = pool /\ S.conns = [conns EXCEPT ![p] = B] /\ S.calls = calls
    <3> DEFINE cs == [conns EXCEPT ![p] = B]
    <3>1. cs \in Seq(PConnType)
      BY <1>0, <1>6, ConnsUpdate
    <3>2. S = [Now EXCEPT !.conns = cs]
      BY <1>0
    <3> HIDE DEF cs, S
    <3>3. S \in StateType /\ S.pool = pool /\ S.conns = cs /\ S.calls = calls
      BY <1>0, <3>1, <3>2 DEF StateType
    <3> QED BY <3>3 DEF cs
  <2> HIDE DEF S
  <2>2. p \in DOMAIN S.conns /\ S.conns[p] = B /\ "nil" \in WriteErrs
    BY <1>0, <2>1, Values
  <2>3. T.pool = pool /\ T.conns = [S.conns EXCEPT ![p] = R] /\ \A d \in Calls : Wrote(B, calls[d], T.calls[d], d, p, "nil")
    <3>1. /\ WriteEnds(S, p, "nil").pool = S.pool
          /\ WriteEnds(S, p, "nil").conns = [S.conns EXCEPT ![p] = WroteAll(S.conns[p], "nil")]
          /\ \A d \in Calls : Wrote(S.conns[p], S.calls[d], WriteEnds(S, p, "nil").calls[d], d, p, "nil")
      BY <2>1, <2>2, WriteEndsIs
    <3>2. S.pool = pool /\ S.calls = calls /\ S.conns[p] = B
      BY <2>1, <2>2
    <3> QED BY ONLY <3>1, <3>2
  <2>4. pool' = T.pool /\ conns' = T.conns /\ calls' = T.calls
    BY <1>3, <1>10 DEF Becomes
  <2> HIDE DEF T, R
  <2>5. conns'[p] = R /\ DOMAIN conns' = DOMAIN conns /\ \A q \in DOMAIN conns : q # p => conns'[q] = conns[q]
    BY <1>0, <2>1, <2>3, <2>4
  <2>6. \A d \in Calls : Wrote(P, calls[d], calls'[d], d, p, "nil")
    BY <1>8, <2>3, <2>4 DEF Wrote
  <2> QED BY <1>2, <1>7, <2>3, <2>4, <2>5, <2>6
<1> QED BY <1>9, <1>10

LEMMA WriteHeadOrderly ==
  ASSUME Sound(Now), Orderly(Now), Sound(Now)', NEW p \in Conns, WriteHead(p)
  PROVE  Orderly(Now')
<1> DEFINE P == conns[p]
           Q == conns'[p]
<1>0. /\ P \in PConnType /\ p \in DOMAIN conns /\ Now.conns = conns /\ Now.calls = calls /\ SentOnce(Now) /\ P.nwrite \in Nat /\ P.got \in Seq(Calls)
      /\ P.writech \in SUBSET Calls /\ (Live(P) => InTurn(P))
  BY NowFields, LineFields DEF Orderly, PConnType
<1>1. /\ pool' = pool /\ DOMAIN conns' = DOMAIN conns /\ \A q \in DOMAIN conns : q # p => conns'[q] = conns[q]
      /\ \E c \in P.writech : HeadSent(P, Q, c)
      /\ \A d \in Calls : Wrote(P, calls[d], calls'[d], d, p, "nil") \/ calls'[d] = calls[d]
  BY WriteHeadIs
<1>2. PICK c \in P.writech : HeadSent(P, Q, c)
  BY <1>1
<1>3. \A d \in Calls : /\ calls'[d].pc = calls[d].pc /\ calls'[d].conn = calls[d].conn /\ calls'[d].start = calls[d].start
                       /\ calls'[d].err = calls[d].err /\ calls'[d].res = calls[d].res /\ calls'[d].wch \in {calls[d].wch, "nil"}
                       /\ calls[d].conn # p => calls'[d].wch = calls[d].wch
  BY <1>1 DEF Wrote
<1>4. Open(P) => /\ calls[c].pc = "sent" /\ calls[c].conn = p /\ calls[c].wch = "none" /\ (Req(c).replayable \/ ~Seen(Now, c))
                 /\ Q.got = Append(P.got, c)
  BY <1>0, <1>2 DEF SentOnce, Unwritten, HeadSent, Open
<1>5. ~Open(P) => Q.got = P.got
  BY <1>2 DEF HeadSent, Open
<1>6. InLine(Now', p)
  <2>1. ASSUME Live(P) PROVE InTurn(Q)
    <3>1. Open(P) => P.reqch = {c} /\ P.out = <<>> /\ P.answered = Len(P.got)
      BY <1>0, <1>2, <2>1 DEF InTurn, NotWritten, HeadSent
    <3>2. OutIs(Q)
      BY <1>0, <1>2, <2>1 DEF InTurn, OutIs, BodyLeft, Whole, HeadSent
    <3>3. (Open(Q) <=> Open(P)) /\ NotWritten(Q)
      BY <1>2 DEF NotWritten, HeadSent, Open
    <3>4. Unanswered(Q)
      <4>1. CASE Open(P)
        <5>1. Len(Q.got) = Len(P.got) + 1 /\ Q.got[Len(Q.got)] = c /\ Len(P.got) \in Nat
          BY <1>0, <1>4, <4>1
        <5>2. Q.out = P.out /\ Q.reqch = P.reqch /\ Q.answered = P.answered
          BY <1>2 DEF HeadSent
        <5> QED BY <3>1, <4>1, <5>1, <5>2 DEF Unanswered
      <4> QED BY <3>3, <4>1 DEF Unanswered
    <3>5. WithBody(Q) \/ Q.read = "body" => Q.reqch = {}
      BY <1>0, <1>2, <2>1 DEF InTurn, WithBody, HeadSent
    <3> QED BY <3>2, <3>3, <3>4, <3>5 DEF InTurn
  <2>2. /\ RespIs(Q) /\ (Q.read = "error" => ~Open(Q)) /\ (Q.dial # "done" => Q.writech = {}) /\ (Q.dial = "dialing" => Q.read = "none")
        /\ (Live(Q) <=> Live(P)) /\ (Spoilt(Q) <=> Spoilt(P)) /\ Q.rc = P.rc /\ Q.read = P.read /\ Q.bodyRead = P.bodyRead /\ Q.alive = P.alive
    BY <1>2, LineFields DEF RespIs, Live, Spoilt, HeadSent, Open
  <2> HIDE DEF P, Q
  <2>3. Now'.conns[p] = Q /\ Now'.calls = calls' /\ Now'.pool.lru = pool.lru
    BY <1>1, NextFields DEF Q
  <2>4. /\ Live(P) => \A d \in Calls : calls[d].conn = p /\ calls[d].pc = "body" => d \in P.rc /\ P.read = "body" /\ P.bodyRead = "none"
        /\ Spoilt(P) => ~P.alive /\ p \notin pool.lru /\ \A d \in Calls : calls[d].conn = p => calls[d].pc \notin {"enter", "send", "sent"}
    BY LineFields DEF P
  <2> QED BY <1>3, <2>1, <2>2, <2>3, <2>4 DEF InLine
<1>7. \A d : Seen(Now', d) => Seen(Now, d) \/ (d = c /\ Open(P))
  <2>1. \A q \in DOMAIN conns : \A i \in DOMAIN conns'[q].got :
          (i \in DOMAIN conns[q].got /\ conns'[q].got[i] = conns[q].got[i]) \/ (conns'[q].got[i] = c /\ Open(P))
    <3>1. \A i \in DOMAIN Q.got : (i \in DOMAIN P.got /\ Q.got[i] = P.got[i]) \/ (Q.got[i] = c /\ Open(P))
      <4> HIDE DEF P, Q
      <4>1. CASE Open(P)
        BY <1>0, <1>4, <4>1
      <4>2. CASE ~Open(P)
        BY <1>5, <4>2
      <4> QED BY <4>1, <4>2
    <3> QED BY <1>1, <3>1
  <2> QED BY <1>0, <1>1, <2>1, NextFields DEF Seen
<1>8. \A q \in DOMAIN conns : conns[q].nwrite \in Nat /\ conns'[q].nwrite \in Nat /\ conns[q].nwrite <= conns'[q].nwrite
  <2>1. \A q \in DOMAIN conns : conns[q].nwrite \in Nat
    BY NowFields DEF PConnType
  <2> QED BY <1>0, <1>1, <1>2, <2>1 DEF HeadSent
<1> HIDE DEF P, Q
<1>9. \A d \in Calls : calls[d].start \in Nat
  BY NowFields DEF CallType
\* A request that was written before.
<1>10. ASSUME NEW q \in DOMAIN conns, NEW i \in DOMAIN conns[q].got
       PROVE  /\ conns[q].got[i] \in Calls /\ i \in DOMAIN conns'[q].got /\ conns'[q].got[i] = conns[q].got[i] /\ Seen(Now, conns[q].got[i])
              /\ Written(Now, q, i)
  <2>1. conns[q].got \in Seq(Calls)
    BY NowFields DEF PConnType
  <2>2. i \in DOMAIN conns'[q].got /\ conns'[q].got[i] = conns[q].got[i]
    BY <1>0, <1>1, <1>4, <1>5, <2>1 DEF P, Q
  <2> QED BY <1>0, <2>1, <2>2 DEF Seen, SentOnce
\* The request that is written now.
<1>11. ASSUME NEW q \in DOMAIN conns, NEW i \in DOMAIN conns'[q].got, i \notin DOMAIN conns[q].got
       PROVE  q = p /\ Open(P) /\ conns'[q].got[i] = c /\ i = Len(P.got) + 1
  BY <1>0, <1>1, <1>4, <1>5, <1>11 DEF P, Q
<1>12. ASSUME NEW q \in DOMAIN conns, NEW i \in DOMAIN conns'[q].got PROVE Written(Now', q, i)
  <2> DEFINE d == conns'[q].got[i]
  <2>1. CASE i \in DOMAIN conns[q].got
    <3>1. conns[q].got[i] = d /\ d \in Calls /\ Seen(Now, d) /\ Written(Now, q, i)
      BY <1>10, <2>1
    <3> HIDE DEF d
    <3>2. ASSUME ~Req(d).replayable
          PROVE  /\ calls[d].pc \in Past /\ (calls[d].pc = "failed" => calls[d].err # "nothing")
                 /\ calls[d].pc = "sent" => calls[d].conn = q /\ calls[d].start < conns[q].nwrite /\ calls[d].wch # "nothing"
      BY <1>0, <3>1, <3>2 DEF Written
    <3>3. ASSUME ~Req(d).replayable, NEW y \in DOMAIN conns, NEW j \in DOMAIN conns'[y].got, conns'[y].got[j] = d PROVE y = q /\ i = j
      <4>1. d # c \/ ~Open(P)
        BY <1>4, <3>1, <3>3
      <4>2. j \in DOMAIN conns[y].got /\ conns[y].got[j] = d
        BY <1>10, <1>11, <3>3, <4>1
      <4> QED BY <1>0, <3>1, <3>3, <4>2 DEF Written
    <3>4. ASSUME ~Req(d).replayable
          PROVE  /\ calls'[d].pc \in Past /\ (calls'[d].pc = "failed" => calls'[d].err # "nothing")
                 /\ calls'[d].pc = "sent" => calls'[d].conn = q /\ calls'[d].start < conns'[q].nwrite /\ calls'[d].wch # "nothing"
      <4>1. calls[d].start < conns[q].nwrite => calls[d].start < conns'[q].nwrite
        BY <1>8, <1>9, <3>1
      <4> QED BY <1>3, <3>1, <3>2, <3>4, <4>1
    <3>5. Now'.conns[q].got[i] = d
      BY NextFields DEF d
    <3> QED BY <1>1, <3>3, <3>4, <3>5, NextFields DEF Written
  <2>2. CASE i \notin DOMAIN conns[q].got
    <3>1. q = p /\ Open(P) /\ d = c /\ i = Len(P.got) + 1 /\ d \in Calls
      BY <1>0, <1>11, <2>2
    <3> HIDE DEF d
    <3>2. ASSUME ~Req(d).replayable, NEW y \in DOMAIN conns, NEW j \in DOMAIN conns'[y].got, conns'[y].got[j] = d PROVE y = q /\ i = j
      <4>1. j \notin DOMAIN conns[y].got
        BY <1>4, <1>10, <3>1, <3>2
      <4> QED BY <1>11, <3>1, <3>2, <4>1
    <3>3. /\ calls'[d].pc = "sent" /\ calls'[d].conn = q /\ calls'[d].start < conns'[q].nwrite /\ calls'[d].wch # "nothing"
      <4>1. calls[d].start <= conns[p].nwrite /\ conns'[p].nwrite = conns[p].nwrite + 1
        BY <1>0, <1>2, <1>4, <3>1 DEF SentOnce, HeadSent, P, Q
      <4>2. calls[d].start < conns'[p].nwrite
        BY <1>0, <1>8, <1>9, <3>1, <4>1
      <4> QED BY <1>3, <1>4, <3>1, <4>2
    <3>4. Now'.conns[q].got[i] = d
      BY NextFields DEF d
    <3> QED BY <1>1, <3>2, <3>3, <3>4, NextFields DEF Written, Past
  <2> QED BY <2>1, <2>2
<1>13. ASSUME NEW q \in DOMAIN conns, NEW d \in conns'[q].writech PROVE Unwritten(Now', q, d)
  <2>1. CASE q = p
    BY <1>2, <1>13, <2>1, NextFields DEF Unwritten, HeadSent, Q
  <2>2. CASE q # p
    <3>1. conns'[q] = conns[q] /\ Unwritten(Now, q, d) /\ d \in Calls
      <4>1. conns'[q] = conns[q] /\ conns[q].writech \in SUBSET Calls
        BY <1>1, <2>2, NowFields DEF PConnType
      <4> QED BY <1>0, <1>13, <4>1 DEF SentOnce
    <3>2. Seen(Now', d) => Seen(Now, d) \/ (calls[d].conn = p /\ calls[d].pc = "sent")
      BY <1>4, <1>7
    <3> QED BY <1>0, <1>3, <2>2, <3>1, <3>2, NextFields DEF Unwritten
  <2> QED BY <2>1, <2>2
<1>14. ASSUME NEW d \in Calls, calls'[d].pc = "sent" PROVE calls'[d].start <= conns'[calls'[d].conn].nwrite
  <2>1. calls[d].pc = "sent" /\ calls'[d].conn = calls[d].conn /\ calls'[d].start = calls[d].start
    BY <1>3, <1>14
  <2>2. calls[d].conn \in DOMAIN conns /\ calls[d].start <= conns[calls[d].conn].nwrite
    BY <1>0, <2>1, CallFields DEF SentOnce
  <2> QED BY <1>8, <1>9, <2>1, <2>2
<1>15. SentOnce(Now')
  BY <1>1, <1>12, <1>13, <1>14, NextFields DEF SentOnce
<1>16. Matched(Now')
  BY <1>0, <1>3, NextFields DEF Orderly, Matched
<1>17. \A d \in Calls : Goes(calls[d], calls'[d])
  BY <1>3 DEF Goes
<1> QED BY <1>1, <1>6, <1>15, <1>16, <1>17, TalkSelf, ConnOrderly

-----------------------------------------------------------------------------
(* Steps that lend a connection *)

LEMMA GetConnOrderly ==
  ASSUME Sound(Now), Orderly(Now), Sound(Now)', may \in Scripts, NEW c \in Calls, GetConn(c)
  PROVE  Orderly(Now')
<1> DEFINE k == Req(c).key
           g == GetIdleConn(Now, k)
           G == g.s
           p == g.p
           n == Len(conns) + 1
           taken == [G EXCEPT !.calls[c] = [@ EXCEPT !.pc = "enter", !.conn = p, !.canceler = "noop"]]
           U == [G EXCEPT !.calls[c] = [@ EXCEPT !.pc = "wait", !.dial = n, !.canceler = "cancelc", !.cancelc = FALSE],
                          !.conns = Append(@, NewPConn(k))]
<1>0. /\ Now.pool = pool /\ Now.conns = conns /\ Now.calls = calls /\ calls \in [Calls -> CallType]
      /\ calls[c] \in CallType /\ Len(conns) \in Nat /\ DOMAIN conns = 1..Len(conns)
      /\ Conns = DOMAIN conns /\ pool.lru \subseteq DOMAIN conns
  BY NowFields, SoundFields DEF Listed, Arranged, Filed
<1>1. k \in Keys
  BY HttpTransportAssumption DEF Req
<1>2. calls[c].pc \in {"idle", "retry"} /\ calls[c].pc \notin Past
  BY DEF GetConn, Past
<1>3. IF p # 0 THEN Becomes(taken) ELSE Becomes(GetIdleConnCh(U, c, k))
  BY DEF GetConn
<1>4. /\ G \in StateType /\ Lightened(Now, G) /\ G.calls = calls /\ G.pool.lru \subseteq pool.lru /\ (p = 0 \/ p \in pool.lru)
  <2>1. /\ G \in StateType /\ Lightened(Now, G) /\ G.calls = Now.calls
        /\ G.pool.lru \subseteq Now.pool.lru /\ (p = 0 \/ p \in Now.pool.lru)
    <3> HIDE DEF k
    <3> QED BY <1>1, GetIdleConnIs
  <2> HIDE DEF G, p
  <2> QED BY <1>0, <2>1
<1> HIDE DEF k, p, G
<1>5. /\ G.pool \in PoolType /\ G.conns \in Seq(PConnType) /\ DOMAIN G.conns = DOMAIN conns /\ Len(G.conns) = Len(conns)
      /\ \A q \in DOMAIN conns : SameTalk(conns[q], G.conns[q])
  BY <1>0, <1>4, StateFields, LighterTalk DEF Lightened
<1>6. CASE p # 0
  <2> DEFINE C == [calls[c] EXCEPT !.pc = "enter", !.conn = p, !.canceler = "noop"]
             cl == [calls EXCEPT ![c] = C]
  <2>1. p \in pool.lru /\ p \in Conns
    BY <1>0, <1>4, <1>6
  <2>2. C.pc = "enter" /\ C.conn = p /\ C.res = calls[c].res
    BY <1>0 DEF CallType
  <2>3. taken = [G EXCEPT !.calls[c] = C]
    BY <1>4
  <2> HIDE DEF C
  <2>4. pool' = G.pool /\ conns' = G.conns /\ calls' = cl
    <3>1. Becomes([G EXCEPT !.calls[c] = C])
      BY <1>3, <1>6, <2>3
    <3>2. LET E == [G EXCEPT !.calls[c] = C] IN E.pool = G.pool /\ E.conns = G.conns /\ E.calls = cl
      BY <1>4 DEF StateType
    <3> HIDE DEF cl
    <3> QED BY <3>1, <3>2 DEF Becomes
  <2>5. calls'[c] = C /\ \A d \in Calls : d # c => calls'[d] = calls[d]
    BY <1>0, <2>4
  <2>6. ~Spoilt(conns[p])
    BY <2>1, LineFields
  <2>7. \A d \in Calls : \/ SameUse(calls[d], calls'[d])
                         \/ /\ calls[d].pc \notin Past /\ calls'[d].conn = p /\ calls'[d].pc = "enter"
                            /\ calls'[d].res = calls[d].res
    BY <1>2, <2>2, <2>5, SameUseSelf
  <2> QED BY <1>4, <1>5, <2>1, <2>4, <2>6, <2>7, LentOrderly
<1>7. CASE p = 0
  <2> DEFINE C == [calls[c] EXCEPT !.pc = "wait", !.dial = n, !.canceler = "cancelc", !.cancelc = FALSE]
             cl == [calls EXCEPT ![c] = C]
             N == NewPConn(k)
             cs == Append(G.conns, N)
             T == GetIdleConnCh(U, c, k)
  <2>0. n \in Nat
    BY <1>0
  <2>1. C \in CallType
    <3> HIDE DEF n
    <3> QED BY <1>0, <2>0, Values DEF CallType
  <2>2. C.pc = "wait" /\ C.res = calls[c].res
    <3> HIDE DEF n
    <3> QED BY <1>0 DEF CallType
  <2>3. U = [G EXCEPT !.calls[c] = C, !.conns = Append(@, N)]
    BY <1>4
  <2>4. N \in PConnType
    <3>1. <<>> \in Seq(Calls) /\ <<>> \in Seq(TokenType) /\ {} \in SUBSET TokenType
      OBVIOUS
    <3> QED BY <1>1, <3>1, Values DEF NewPConn, PConnType
  <2>5. N.read = "none" /\ N.writech = {} /\ N.got = <<>> /\ N.out = <<>> /\ N.answered = 0 /\ N.reqch = {}
    BY DEF NewPConn
  <2> HIDE DEF C, N
  <2>6. cl \in [Calls -> CallType] /\ cl[c] = C /\ \A d \in Calls : d # c => cl[d] = calls[d]
    BY <1>0, <2>1
  <2>7. cs \in Seq(PConnType) /\ DOMAIN cs = 1..n /\ cs[n] = N /\ \A q \in DOMAIN conns : cs[q] = G.conns[q]
    BY <1>0, <1>5, <2>4
  <2>8. U = [G EXCEPT !.calls = cl, !.conns = cs]
    BY <1>4, <2>3
  <2> HIDE DEF cl, cs, U
  <2>9. U \in StateType /\ U.pool = G.pool /\ U.conns = cs /\ U.calls = cl
    BY <1>4, <2>6, <2>7, <2>8 DEF StateType
  <2>10. /\ T.conns = cs /\ T.pool.lru = G.pool.lru
         /\ SameCall(C, T.calls[c]) /\ T.calls[c].res = C.res /\ \A d \in Calls : d # c => T.calls[d] = calls[d]
    <3>1. /\ T.conns = U.conns /\ T.pool.lru = U.pool.lru
          /\ SameCall(U.calls[c], T.calls[c]) /\ T.calls[c].res = U.calls[c].res /\ \A d \in Calls : d # c => T.calls[d] = U.calls[d]
      BY <1>1, <2>9, GetIdleConnChIs
    <3> HIDE DEF T
    <3> QED BY <2>6, <2>9, <3>1
  <2>11. pool' = T.pool /\ conns' = T.conns /\ calls' = T.calls
    BY <1>3, <1>7 DEF Becomes
  <2> HIDE DEF T
  <2>12. /\ calls'[c].pc = "wait" /\ calls'[c].res = calls[c].res /\ \A d \in Calls : d # c => calls'[d] = calls[d]
         /\ pool'.lru \subseteq pool.lru /\ conns' = cs
    BY <1>4, <2>2, <2>10, <2>11 DEF SameCall
  <2>13. DOMAIN conns \subseteq DOMAIN cs /\ n \notin DOMAIN conns /\ \A q \in DOMAIN cs : q = n \/ q \in DOMAIN conns
    <3>1. \A q \in 1..n : q = n \/ q \in 1..Len(conns)
      BY <1>0
    <3>2. 1..Len(conns) \subseteq 1..n /\ n \notin 1..Len(conns)
      BY <1>0
    <3> QED BY <1>0, <2>7, <3>1, <3>2
  <2> HIDE DEF n
  <2>14. \A q \in DOMAIN conns : SameTalk(conns[q], conns'[q])
    BY <1>5, <2>7, <2>12
  <2>15. Quiet(Now, Now', c)
    BY <1>0, <1>2, <2>12, NextFields DEF Quiet
  <2>16. \A d \in Calls : SameUse(calls[d], calls'[d]) \/ (Goes(calls[d], calls'[d]) /\ Quiet(Now, Now', d))
    BY <2>12, <2>15, SameUseSelf DEF Goes
  <2>17. SentOnce(Now')
    <3>1. \A q \in DOMAIN conns : SameSending(conns[q], conns'[q])
      BY <2>14, TalkSending
    <3>2. \A q \in DOMAIN conns' : q \in DOMAIN conns \/ (conns'[q].got = <<>> /\ conns'[q].writech = {})
      BY <2>5, <2>7, <2>12, <2>13
    <3> QED BY <2>12, <2>13, <2>16, <3>1, <3>2, SentSame
  <2>18. Matched(Now')
    BY <1>0, <2>12, NextFields DEF Orderly, Matched
  <2>19. \A q : NobodyNew(Now, Now', q)
    BY <2>12, <2>16, NobodyGoes
  <2>20. InLine(Now', n)
    <3>1. InTurn(N)
      BY <2>5 DEF InTurn, OutIs, Unanswered, NotWritten, WithBody
    <3>2. \A d \in Calls : calls'[d].conn = n => calls'[d].pc # "body"
      <4>1. ASSUME NEW d \in Calls, calls[d].pc = "body" PROVE calls[d].conn # n
        BY <1>0, <2>13, <4>1, CallFields
      <4> QED BY <2>12, <4>1
    <3>3. Now'.conns[n] = N /\ Now'.calls = calls'
      BY <2>7, <2>12, NextFields
    <3> QED BY <2>5, <3>1, <3>2, <3>3 DEF InLine, RespIs, Spoilt
  <2> QED BY <2>12, <2>13, <2>14, <2>17, <2>18, <2>19, <2>20, StepOrderly
<1> QED BY <1>6, <1>7

LEMMA TalkTwice ==
  ASSUME NEW P, NEW Q, NEW R, SameTalk(P, Q), SameTalk(Q, R)
  PROVE  SameTalk(P, R)
BY DEF SameTalk

\* What tryPutIdleConn leaves of the other connections and of the calls.
LEMMA OutcomeIs ==
  ASSUME Sound(Now), NEW p \in Conns, NEW S, Returns(S, p), NEW V, NEW ok, Outcome(S, p, V, ok)
  PROVE  /\ V \in StateType /\ ok \in BOOLEAN /\ DOMAIN V.conns = DOMAIN conns /\ p \in DOMAIN conns /\ p \in DOMAIN V.conns
         /\ V.pool.lru \subseteq pool.lru \cup {p}
         /\ \A q \in DOMAIN conns : SameTalk(S.conns[q], V.conns[q])
         /\ \A q \in DOMAIN conns : q # p => SameTalk(conns[q], V.conns[q])
         /\ V.calls = S.calls \/ Handed(S, V, p)
<1>1. /\ V \in StateType /\ ok \in BOOLEAN /\ Lightened(S, V) /\ V.pool.lru \subseteq S.pool.lru \cup {p}
      /\ V.calls = S.calls \/ Handed(S, V, p)
  BY DEF Outcome
<1>2. S.pool = pool /\ DOMAIN S.conns = DOMAIN conns /\ \A q \in DOMAIN conns : q # p => S.conns[q] = conns[q]
  BY DEF Returns
<1>3. DOMAIN V.conns = DOMAIN conns /\ \A q \in DOMAIN conns : SameTalk(S.conns[q], V.conns[q])
  BY <1>1, <1>2, LighterTalk DEF Lightened
<1>4. p \in DOMAIN conns
  BY NowFields
<1> QED BY <1>1, <1>2, <1>3, <1>4

\* putOrCloseIdleConn of a connection that its read loop and its server left alone.
LEMMA PutOrderly ==
  ASSUME Sound(Now), Orderly(Now), Sound(Now)', NEW p \in Conns, ~Spoilt(conns[p]), NEW S, Returns(S, p),
         SameTalk(conns[p], S.conns[p]),
         \A d \in Calls : \/ SameUse(calls[d], S.calls[d])
                          \/ calls[d].pc \notin Past /\ S.calls[d].pc = "failed" /\ S.calls[d].res = calls[d].res,
         NEW T \in PutOrCloseIdleConn(S, p), Becomes(T)
  PROVE  Orderly(Now')
<1>1. PICK r \in TryPutIdleConn(S, p) : T = IF r.ok THEN r.s ELSE ClosePC(r.s, p, "other")
  BY DEF PutOrCloseIdleConn
<1> DEFINE V == r.s ok == r.ok
<1>2. Outcome(S, p, V, ok)
  BY ReturnsListed, TryPutIs
<1>3. T = IF ok THEN V ELSE ClosePC(V, p, "other")
  BY <1>1
<1> HIDE DEF V, ok
<1>4. /\ V \in StateType /\ DOMAIN V.conns = DOMAIN conns /\ p \in DOMAIN V.conns /\ p \in DOMAIN conns
      /\ V.pool.lru \subseteq pool.lru \cup {p} /\ SameTalk(S.conns[p], V.conns[p])
      /\ \A q \in DOMAIN conns : q # p => SameTalk(conns[q], V.conns[q])
      /\ V.calls = S.calls \/ Handed(S, V, p)
  BY <1>2, OutcomeIs
<1>5. \A q \in DOMAIN conns : SameTalk(conns[q], V.conns[q])
  BY <1>4, TalkTwice
<1>6. T.pool = V.pool /\ T.calls = V.calls /\ DOMAIN T.conns = DOMAIN conns /\ \A q \in DOMAIN conns : SameTalk(conns[q], T.conns[q])
  <2>1. CASE ok
    BY <1>3, <1>4, <1>5, <2>1
  <2>2. CASE ~ok
    <3>1. T.pool = V.pool /\ T.calls = V.calls /\ Lightened(V, T)
      BY <1>3, <1>4, <2>2, ClosePCIs
    <3>2. DOMAIN T.conns = DOMAIN conns /\ \A q \in DOMAIN conns : SameTalk(V.conns[q], T.conns[q])
      BY <1>4, <3>1, LighterTalk DEF Lightened
    <3> QED BY <1>5, <3>1, <3>2, TalkTwice
  <2> QED BY <2>1, <2>2
<1>7. pool' = V.pool /\ calls' = V.calls /\ conns' = T.conns
  BY <1>6 DEF Becomes
<1>8. ASSUME NEW d \in Calls
      PROVE  \/ SameUse(calls[d], calls'[d])
             \/ Goes(calls[d], calls'[d]) /\ Quiet(Now, Now', d) /\ calls'[d].res = calls[d].res
             \/ /\ calls[d].pc \notin Past /\ calls'[d].conn = p /\ calls'[d].pc = "enter"
                /\ calls'[d].res = calls[d].res
  <2>1. CASE calls'[d] = S.calls[d]
    <3>1. CASE calls[d].pc \notin Past /\ S.calls[d].pc = "failed" /\ S.calls[d].res = calls[d].res
      BY <2>1, <3>1, NextFields, NowFields DEF Quiet, Goes, Past
    <3> QED BY <2>1, <3>1
  <2>2. CASE S.calls[d].pc = "wait" /\ calls'[d].conn = p /\ calls'[d].pc = "enter" /\ calls'[d].res = S.calls[d].res
    BY <2>2 DEF SameUse, Past
  <2> QED BY <1>4, <1>7, <2>1, <2>2 DEF Handed
<1> QED BY <1>4, <1>6, <1>7, <1>8, LentOrderly

LEMMA PendingDialOrderly ==
  ASSUME Sound(Now), Orderly(Now), Sound(Now)', NEW p \in Conns, PendingDial(p)
  PROVE  Orderly(Now')
<1> DEFINE Q == [conns[p] EXCEPT !.pending = FALSE, !.dial = "done"]
           S == [Now EXCEPT !.conns[p] = [@ EXCEPT !.pending = FALSE, !.dial = "done"]]
<1>1. conns[p].dial # "done"
  BY DEF PendingDial
<1>2. IF conns[p].dial = "failed" THEN Becomes(S) ELSE \E V \in PutOrCloseIdleConn(S, p) : Becomes(V)
  BY DEF PendingDial
<1>3. Returns(S, p) /\ S.conns[p] = Q /\ S.calls = calls
  BY PendingDialReturns
<1>4. SameTalk(conns[p], Q)
  BY LineFields DEF SameTalk, Open, PConnType
<1>5. ~Spoilt(conns[p])
  BY <1>1, LineFields DEF RequestsKept, Spoilt
<1> HIDE DEF Q, S
<1>6. CASE conns[p].dial = "failed"
  <2>1. pool' = S.pool /\ conns' = S.conns /\ calls' = S.calls
    BY <1>2, <1>6 DEF Becomes
  <2>2. S.pool = pool /\ DOMAIN S.conns = DOMAIN conns /\ \A q \in DOMAIN conns : q # p => S.conns[q] = conns[q]
    BY <1>3 DEF Returns
  <2> QED BY <1>3, <1>4, <2>1, <2>2, TalkSelf, SameUseSelf, QuietOrderly
<1>7. CASE conns[p].dial # "failed"
  BY <1>2, <1>3, <1>4, <1>5, <1>7, SameUseSelf, PutOrderly
<1> QED BY <1>6, <1>7

LEMMA EnterCanceledOrderly ==
  ASSUME Sound(Now), Orderly(Now), Sound(Now)', NEW c \in Calls, EnterRoundTrip(c), calls[c].canceler = "none"
  PROVE  Orderly(Now')
<1> DEFINE S == Fails(Now, c, "canceled")
           p == calls[c].conn
<1>1. PICK V \in PutOrCloseIdleConn(S, p) : Becomes(V)
  BY DEF EnterRoundTrip
<1>2. /\ Returns(S, p) /\ S.conns[p] = conns[p] /\ p \in Conns /\ calls[c].pc = "enter"
      /\ S.calls[c].pc = "failed" /\ S.calls[c].res = calls[c].res /\ \A d \in Calls : d # c => S.calls[d] = calls[d]
  BY EnterCanceledReturns
<1>3. ~Spoilt(conns[p])
  BY <1>2, LineFields
<1> HIDE DEF S, p
<1>4. \A d \in Calls : \/ SameUse(calls[d], S.calls[d])
                       \/ calls[d].pc \notin Past /\ S.calls[d].pc = "failed" /\ S.calls[d].res = calls[d].res
  BY <1>2, SameUseSelf DEF Past
<1> QED BY <1>1, <1>2, <1>3, <1>4, TalkSelf, PutOrderly

\* The end of a response on p, which is put back, or not.
LEMMA OverOrderly ==
  ASSUME Sound(Now), Orderly(Now), Sound(Now)', NEW p \in Conns, NEW to,
         \/ conns[p].read = "recycle" /\ to = "deliver"
         \/ conns[p].read = "body" /\ to = "eofc" /\ conns[p].bodyRead # "none",
         NEW S, Returns(S, p), S.conns[p] = [conns[p] EXCEPT !.read = to, !.werrch = "none"],
         \A d \in Calls : SameUse(calls[d], S.calls[d]),
         NEW V, NEW ok, Outcome(S, p, V, ok), Becomes([V EXCEPT !.conns[p].alive = ok]),
         conns[p].read = "body" /\ conns[p].bodyRead # "eof" => ~ok /\ V = S
  PROVE  Orderly(Now')
<1> DEFINE P == conns[p]
           Q == [V.conns[p] EXCEPT !.alive = ok]
<1>1. /\ V \in StateType /\ ok \in BOOLEAN /\ DOMAIN V.conns = DOMAIN conns /\ p \in DOMAIN conns
      /\ V.pool.lru \subseteq pool.lru \cup {p} /\ SameTalk(S.conns[p], V.conns[p])
      /\ \A q \in DOMAIN conns : q # p => SameTalk(conns[q], V.conns[q])
      /\ V.calls = S.calls \/ Handed(S, V, p)
  BY OutcomeIs
<1>2. V.conns[p] \in PConnType /\ V.conns \in Seq(PConnType)
  BY <1>1, StateFields
<1>3. pool' = V.pool /\ conns' = [V.conns EXCEPT ![p] = Q] /\ calls' = V.calls
  <2>1. Becomes([V EXCEPT !.conns[p] = Q])
    OBVIOUS
  <2> HIDE DEF Q
  <2> QED BY <1>1, <2>1 DEF Becomes, StateType
<1>a. S.conns[p].read = to /\ S.conns[p].reqch = P.reqch /\ S.conns[p].rc = P.rc /\ S.conns[p].bodyRead = P.bodyRead
      /\ S.conns[p].resp = P.resp /\ S.conns[p].got = P.got /\ S.conns[p].nwrite = P.nwrite /\ S.conns[p].answered = P.answered
      /\ S.conns[p].out = P.out /\ S.conns[p].dial = P.dial /\ S.conns[p].writech = P.writech /\ S.conns[p].write = P.write
      /\ (Open(S.conns[p]) <=> Open(P))
  BY LineFields DEF PConnType, Open
<1>b. /\ Q.alive = ok /\ Q.read = V.conns[p].read /\ Q.reqch = V.conns[p].reqch /\ Q.rc = V.conns[p].rc /\ Q.bodyRead = V.conns[p].bodyRead
      /\ Q.resp = V.conns[p].resp /\ Q.got = V.conns[p].got /\ Q.nwrite = V.conns[p].nwrite /\ Q.answered = V.conns[p].answered
      /\ Q.out = V.conns[p].out /\ Q.dial = V.conns[p].dial /\ Q.writech = V.conns[p].writech /\ Q.write = V.conns[p].write
      /\ (Open(Q) <=> Open(V.conns[p]))
  BY <1>2 DEF PConnType, Open
<1> HIDE DEF Q
<1>4. /\ Q.alive = ok /\ Q.read = to /\ Q.reqch = P.reqch /\ Q.rc = P.rc /\ Q.bodyRead = P.bodyRead /\ Q.resp = P.resp /\ Q.got = P.got
      /\ Q.nwrite = P.nwrite /\ Q.answered = P.answered /\ Q.out = P.out /\ (Q.dial = P.dial \/ Q.dial = "done")
      /\ Q.writech = {} \/ (Q.writech = P.writech /\ (Q.write = P.write \/ Q.write # "idle"))
      /\ Open(Q) => Open(P)
  BY <1>1, <1>a, <1>b DEF SameTalk
<1>5. conns'[p] = Q /\ DOMAIN conns' = DOMAIN conns /\ \A q \in DOMAIN conns : q # p => SameTalk(conns[q], conns'[q])
  BY <1>1, <1>2, <1>3
<1>6. SameSending(P, Q)
  BY <1>4 DEF SameSending
<1>7. ASSUME NEW d \in Calls
      PROVE  \/ SameUse(calls[d], calls'[d])
             \/ /\ ~ok => calls'[d] = S.calls[d]
                /\ calls'[d].pc = "enter" /\ calls'[d].conn = p /\ calls'[d].res = calls[d].res /\ calls[d].pc = "wait"
  <2>1. CASE calls'[d] = S.calls[d]
    BY <2>1
  <2>2. CASE S.calls[d].pc = "wait" /\ calls'[d].conn = p /\ calls'[d].pc = "enter" /\ calls'[d].res = S.calls[d].res /\ calls'[d] # S.calls[d]
    <3>1. ok
      BY <1>1, <1>3, <2>2 DEF Outcome
    <3> QED BY <2>2, <3>1 DEF SameUse
  <2> QED BY <1>1, <1>3, <2>1, <2>2 DEF Handed
<1>8. \A d \in Calls : \/ SameUse(calls[d], calls'[d])
                       \/ Quiet(Now, Now', d) /\ calls'[d].conn = p
  BY <1>7, NextFields, NowFields DEF Quiet, Past
<1>9. InLine(Now', p)
  <2>0. P.rc # {} /\ P.dial = "done" /\ p \notin pool.lru /\ InTurn(P) /\ RespIs(P)
    <3>1. P.rc # {} /\ P.dial = "done" /\ p \notin pool.lru
      BY LineFields DEF RequestsKept
    <3> QED BY <3>1, LineFields DEF Live
  <2>1. RespIs(Q) /\ Q.read # "error" /\ Q.dial = "done"
    BY <1>4, <2>0 DEF RespIs
  <2>2. \A d \in Calls : calls'[d].conn = p => calls'[d].pc # "body"
    <3>1. \A d \in Calls : calls[d].conn = p => calls[d].pc # "body"
      BY LineFields DEF Live
    <3> QED BY <1>7, <3>1 DEF SameUse
  <2>3. InTurn(Q)
    <3>1. Unanswered(Q) /\ NotWritten(Q)
      BY <1>4, <2>0 DEF InTurn, Unanswered, NotWritten
    <3>2. CASE P.read = "recycle" /\ to = "deliver"
      <4>1. \A c \in P.rc : ~Req(c).resBody
        BY <3>2, LineFields DEF RequestsKept
      <4>2. ~WithBody(Q)
        BY <1>4, <4>1 DEF WithBody
      <4>3. OutIs(Q)
        BY <1>4, <2>0, <3>2 DEF InTurn, OutIs, BodyLeft, Whole
      <4> QED BY <1>4, <3>1, <3>2, <4>2, <4>3 DEF InTurn
    <3>3. CASE P.read = "body" /\ to = "eofc"
      <4>1. ~WithBody(Q) /\ Q.read # "body"
        BY <1>4, <3>3 DEF WithBody
      <4>2. OutIs(Q)
        BY <1>4, <2>0, <3>3 DEF InTurn, OutIs, BodyLeft, Whole
      <4> QED BY <3>1, <4>1, <4>2 DEF InTurn
    <3> QED BY <3>2, <3>3
  <2>4. Spoilt(Q) => ~Q.alive /\ p \notin pool'.lru /\ \A d \in Calls : calls'[d].conn = p => calls'[d].pc \notin {"enter", "send", "sent"}
    <3> SUFFICES ASSUME Spoilt(Q)
                 PROVE  ~Q.alive /\ p \notin pool'.lru /\ \A d \in Calls : calls'[d].conn = p => calls'[d].pc \notin {"enter", "send", "sent"}
      OBVIOUS
    <3>1. P.read = "body" /\ P.bodyRead # "eof" /\ ~ok /\ V = S
      BY <1>4 DEF Spoilt
    <3>2. \A d \in Calls : calls[d].conn = p => calls[d].pc \notin {"enter", "send", "sent"}
      <4>1. Users(Now, p) = {}
        BY <3>1, LineFields DEF OneCall
      <4> QED BY <3>1, <4>1, LineFields DEF Users, Has
    <3>3. pool'.lru = pool.lru
      BY <1>3, <3>1 DEF Returns
    <3>4. \A d \in Calls : SameUse(calls[d], calls'[d])
      BY <1>3, <3>1
    <3> QED BY <1>4, <2>0, <3>1, <3>2, <3>3, <3>4 DEF SameUse
  <2> QED BY <1>5, <2>1, <2>2, <2>3, <2>4, NextFields DEF InLine
<1>10. \A d \in Calls : calls'[d].res \in {calls[d].res, d}
  BY <1>7 DEF SameUse
<1> QED BY <1>1, <1>3, <1>5, <1>6, <1>8, <1>9, <1>10, LoopOrderly

\* The state that Recycle and BodyDone put p back from.
LEMMA OverIs ==
  ASSUME Sound(Now), NEW p \in Conns, NEW to, conns[p].rc # {}
  PROVE  LET S == NoCanceler(WithConn(Now, p, [conns[p] EXCEPT !.read = to, !.werrch = "none"]), RC(p)) IN
         /\ S.conns[p] = [conns[p] EXCEPT !.read = to, !.werrch = "none"]
         /\ \A d \in Calls : SameUse(calls[d], S.calls[d])
<1> DEFINE c == RC(p)
           Q == [conns[p] EXCEPT !.read = to, !.werrch = "none"]
           C == [calls[c] EXCEPT !.canceler = "none"]
           S == NoCanceler(WithConn(Now, p, Q), c)
<1>0. p \in DOMAIN conns /\ conns \in Seq(PConnType) /\ calls \in [Calls -> CallType] /\ conns[p].rc \in SUBSET Calls
  BY NowFields, ConnFields
<1>1. c \in Calls
  BY <1>0 DEF RC
<1> HIDE DEF Q, c
<1>2. S.conns = [conns EXCEPT ![p] = Q] /\ S.calls = [calls EXCEPT ![c] = C]
  BY DEF NoCanceler, WithConn, Now
<1>3. SameUse(calls[c], C)
  BY <1>0, <1>1 DEF CallType, SameUse
<1> HIDE DEF C, S
<1>4. S.conns[p] = Q /\ \A d \in Calls : SameUse(calls[d], S.calls[d])
  BY <1>0, <1>1, <1>2, <1>3, SameUseSelf
<1> QED BY <1>4 DEF S, Q, c

LEMMA EndsOrderly ==
  ASSUME Sound(Now), Orderly(Now), Sound(Now)', NEW p \in Conns, NEW to,
         \/ conns[p].read = "recycle" /\ to = "deliver"
         \/ conns[p].read = "body" /\ to = "eofc" /\ conns[p].bodyRead # "none",
         NEW keep, conns[p].read = "body" /\ conns[p].bodyRead # "eof" => ~keep,
         LET S == NoCanceler(WithConn(Now, p, [conns[p] EXCEPT !.read = to, !.werrch = "none"]), RC(p)) IN
         IF keep THEN \E r \in TryPutIdleConn(S, p) : Becomes([r.s EXCEPT !.conns[p].alive = r.ok])
         ELSE Becomes([S EXCEPT !.conns[p].alive = FALSE])
  PROVE  Orderly(Now')
<1> DEFINE S == NoCanceler(WithConn(Now, p, [conns[p] EXCEPT !.read = to, !.werrch = "none"]), RC(p))
<1>1. Returns(S, p)
  BY ResponseEnds
<1>2. S.conns[p] = [conns[p] EXCEPT !.read = to, !.werrch = "none"] /\ \A d \in Calls : SameUse(calls[d], S.calls[d])
  <2>1. conns[p].rc # {}
    BY LineFields DEF RequestsKept
  <2> QED BY <2>1, OverIs
<1>3. IF keep THEN \E r \in TryPutIdleConn(S, p) : Becomes([r.s EXCEPT !.conns[p].alive = r.ok])
      ELSE Becomes([S EXCEPT !.conns[p].alive = FALSE])
  OBVIOUS
<1> HIDE DEF S
<1>4. CASE keep
  <2>1. PICK r \in TryPutIdleConn(S, p) : Becomes([r.s EXCEPT !.conns[p].alive = r.ok])
    BY <1>3, <1>4
  <2>2. Outcome(S, p, r.s, r.ok)
    BY <1>1, ReturnsListed, TryPutIs
  <2> QED BY <1>1, <1>2, <1>4, <2>1, <2>2, OverOrderly
<1>5. CASE ~keep
  <2>1. Outcome(S, p, S, FALSE)
    BY <1>1, ReturnsListed
  <2> QED BY <1>1, <1>2, <1>3, <1>5, <2>1, OverOrderly
<1> QED BY <1>4, <1>5

LEMMA RecycleOrderly ==
  ASSUME Sound(Now), Orderly(Now), Sound(Now)', NEW p \in Conns, Recycle(p)
  PROVE  Orderly(Now')
<1> DEFINE S == NoCanceler(WithConn(Now, p, [conns[p] EXCEPT !.read = "deliver", !.werrch = "none"]), RC(p))
<1>1. conns[p].read = "recycle"
  BY DEF Recycle
<1>2. PICK keep : IF keep THEN \E r \in TryPutIdleConn(S, p) : Becomes([r.s EXCEPT !.conns[p].alive = r.ok])
                  ELSE Becomes([S EXCEPT !.conns[p].alive = FALSE])
  BY DEF Recycle
<1> QED BY <1>1, <1>2, EndsOrderly

LEMMA BodyDoneOrderly ==
  ASSUME Sound(Now), Orderly(Now), Sound(Now)', NEW p \in Conns, BodyDone(p)
  PROVE  Orderly(Now')
<1> DEFINE S == NoCanceler(WithConn(Now, p, [conns[p] EXCEPT !.read = "eofc", !.werrch = "none"]), RC(p))
<1>1. conns[p].read = "body" /\ conns[p].bodyRead # "none"
  BY DEF BodyDone
<1>2. PICK keep \in Recycles(conns[p], conns[p].bodyRead = "eof") :
        IF keep THEN \E r \in TryPutIdleConn(S, p) : Becomes([r.s EXCEPT !.conns[p].alive = r.ok])
        ELSE Becomes([S EXCEPT !.conns[p].alive = FALSE])
  BY DEF BodyDone
<1>3. conns[p].bodyRead # "eof" => ~keep
  <2> SUFFICES ASSUME conns[p].bodyRead # "eof" PROVE ~keep
    OBVIOUS
  <2>1. (conns[p].bodyRead = "eof") = FALSE
    OBVIOUS
  <2>2. \A x \in Recycles(conns[p], FALSE) : ~x
    BY DEF Recycles
  <2> QED BY <2>1, <2>2
<1> QED BY <1>1, <1>2, <1>3, EndsOrderly

-----------------------------------------------------------------------------
(* The calls *)

LEMMA InitOrderly == Init => Orderly(Now)
<1> SUFFICES ASSUME Init PROVE Orderly(Now)
  OBVIOUS
<1>1. Now.conns = <<>> /\ DOMAIN Now.conns = {} /\ \A c \in Calls : Now.calls[c].res = "none" /\ Now.calls[c].pc = "idle"
  BY DEF Init, Now, NewCall
<1> QED BY <1>1 DEF Orderly, AllInLine, SentOnce, Matched

LEMMA NextOrderly ==
  ASSUME Sound(Now), may \in Scripts, Orderly(Now), [Next]_vars
  PROVE  Orderly(Now)'
<1>1. Sound(Now)' /\ may' = may
  BY NextSound, ScriptStays
<1>2. ASSUME NEW c \in Calls, Step(c) PROVE Orderly(Now')
  <2>1. EnterRoundTrip(c) => Orderly(Now')
    BY <1>1, EntersOrderly, EnterCanceledOrderly
  <2> QED BY <1>1, <1>2, <2>1, GetConnOrderly, GotDialOrderly, WaitCanceledOrderly, SendRequestOrderly, SeesWriteOrderly,
             SeesClosedOrderly, CancelsOrderly, RetryOrderly, ReadBodyOrderly DEF Step
<1>3. ASSUME NEW p \in Conns, ReadLoop(p) PROVE Orderly(Now')
  BY <1>1, <1>3, PeekUnexpectedOrderly, ReadResponseOrderly, RecycleOrderly, DeliverOrderly, BodyDoneOrderly,
     BodyCanceledOrderly, EofcOrderly, ReadLoopEndsOrderly DEF ReadLoop
<1>4. ASSUME NEW p \in Conns, WriteLoop(p) \/ Dialer(p) \/ Server(p) PROVE Orderly(Now')
  BY <1>1, <1>4, WriteHeadOrderly, WriteBodyOrderly, WriteFailsOrderly, WriteLoopEndsOrderly, DialDoneOrderly,
     PendingDialOrderly, SrvRespondOrderly, SrvCloseOrderly DEF WriteLoop, Dialer, Server
<1>5. UNCHANGED vars => Orderly(Now')
  <2>1. UNCHANGED vars => Now' = Now
    BY DEF vars, Now
  <2> QED BY <2>1
<1>6. Next => Orderly(Now')
  BY <1>1, <1>2, <1>3, <1>4, HeaderTimeoutOrderly, ContextEndsOrderly, CancelsOrderly, IdleTimerFiresOrderly,
     CloseConnIfStillIdleOrderly, CloseIdleConnectionsOrderly DEF Next
<1> QED BY <1>1, <1>5, <1>6, OrderlyNext

\* Calls and connections match: the response that roundTrip returns is the one to its own request,
\* and a request that shouldRetryRequest may not replay reaches servers at most once (readLoop,
\* writeLoop, roundTrip, mapRoundTripErrorAfterClosed), whatever is reused, canceled, closed or
\* answered early.
THEOREM CallsStayKept == Spec => []CallsKept
<1>1. Init => Sound(Now) /\ may \in Scripts /\ Orderly(Now)
  BY InitSound, InitOrderly DEF Init
<1>2. Sound(Now) /\ may \in Scripts /\ Orderly(Now) /\ [Next]_vars => Sound(Now)' /\ (may \in Scripts)' /\ Orderly(Now)'
  BY NextSound, NextOrderly
<1>3. Sound(Now) /\ Orderly(Now) => CallsKept
  BY OrderlyMeans
<1> QED BY <1>1, <1>2, <1>3, PTL DEF Spec
=============================================================================
