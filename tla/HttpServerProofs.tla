-------------------------- MODULE HttpServerProofs --------------------------
(***************************************************************************)
(* ConnectionsSound is inductive: for every set of connections, every      *)
(* script and every limit, the server finds the heads and bodies where the *)
(* client put them, keeps every byte, never reads a connection twice at    *)
(* once, keeps a connection only after a delimited response, and tracks    *)
(* the connections that are open.                                          *)
(*                                                                         *)
(* A step changes one connection, or closes some: the proof is about one   *)
(* connection C and its requests R, and an action of the server or of the  *)
(* client that makes D of it.                                              *)
(***************************************************************************)
EXTENDS HttpServer, SequenceTheorems, TLAPS

-----------------------------------------------------------------------------
(* Sequences *)

\* The head and the tail of three parts are those of the first.
LEMMA HeadOfThree ==
  ASSUME NEW S, NEW s \in Seq(S), NEW t \in Seq(S), NEW v \in Seq(S), s # <<>>
  PROVE  s \o t \o v # <<>> /\ Head(s \o t \o v) = Head(s)
OBVIOUS

LEMMA TailOfThree ==
  ASSUME NEW S, NEW s \in Seq(S), NEW t \in Seq(S), NEW v \in Seq(S), s # <<>>
  PROVE  Tail(s \o t \o v) = Tail(s) \o t \o v
OBVIOUS

\* Appending to the last part of a concatenation appends to the whole.
LEMMA AppendToConcat ==
  ASSUME NEW S, NEW s \in Seq(S), NEW t \in Seq(S), NEW e \in S
  PROVE  s \o Append(t, e) = Append(s \o t, e)
<1>1. Append(t, e) = t \o <<e>> /\ <<e>> \in Seq(S) /\ s \o t \in Seq(S)
  BY AppendProperties, ConcatProperties, AppendIsConcat
<1>2. Append(s \o t, e) = (s \o t) \o <<e>>
  BY <1>1, AppendIsConcat
<1> QED BY <1>1, <1>2, ConcatAssociative

\* The rest of a sequence: what it begins with, and how it grows.
LEMMA RestBegins ==
  ASSUME NEW S, NEW s \in Seq(S), NEW u \in Nat, u <= Len(s)
  PROVE  /\ SubSeq(s, u + 1, Len(s)) \in Seq(S)
         /\ SubSeq(s, u + 1, Len(s)) = <<>> <=> u = Len(s)
         /\ u < Len(s) => /\ Head(SubSeq(s, u + 1, Len(s))) = s[u + 1]
                          /\ Tail(SubSeq(s, u + 1, Len(s))) = SubSeq(s, u + 1 + 1, Len(s))
<1>1. Len(s) \in Nat /\ \A j \in u + 1 .. Len(s) : s[j] \in S
  BY LenProperties, ElementOfSeq
<1>2. SubSeq(s, u + 1, Len(s)) \in Seq(S)
      /\ Len(SubSeq(s, u + 1, Len(s))) = IF u + 1 <= Len(s) THEN Len(s) - (u + 1) + 1 ELSE 0
  BY <1>1, SubSeqProperties
<1>3. SubSeq(s, u + 1, Len(s)) = <<>> <=> u = Len(s)
  <2>1. \A x \in Seq(S) : x = <<>> <=> Len(x) = 0
    BY EmptySeq
  <2>2. SubSeq(s, u + 1, Len(s)) = <<>> <=> Len(SubSeq(s, u + 1, Len(s))) = 0
    BY <1>2, <2>1
  <2> QED BY <1>1, <1>2, <2>2
<1>4. ASSUME u < Len(s)
      PROVE  /\ Head(SubSeq(s, u + 1, Len(s))) = s[u + 1]
             /\ Tail(SubSeq(s, u + 1, Len(s))) = SubSeq(s, u + 1 + 1, Len(s))
  <2>1. u + 1 \in 1..Len(s) /\ Len(s) \in (u + 1)..Len(s)
    BY <1>1, <1>4
  <2> QED BY <2>1, HeadTailOfSubSeq
<1> QED BY <1>2, <1>3, <1>4

LEMMA RestElement ==
  ASSUME NEW S, NEW s \in Seq(S), NEW u \in Nat, u <= Len(s), NEW j \in 1..Len(SubSeq(s, u + 1, Len(s)))
  PROVE  u + j \in 1..Len(s) /\ SubSeq(s, u + 1, Len(s))[j] = s[u + j]
<1> DEFINE r == SubSeq(s, u + 1, Len(s))
<1>1. Len(s) \in Nat /\ \A k \in u + 1 .. Len(s) : s[k] \in S
  BY LenProperties, ElementOfSeq
<1>2. Len(r) = (IF u + 1 <= Len(s) THEN Len(s) - (u + 1) + 1 ELSE 0)
      /\ \A k \in 1..(Len(s) - (u + 1) + 1) : r[k] = s[u + 1 + k - 1]
  BY <1>1, SubSeqProperties
<1> HIDE DEF r
<1>3. j \in 1..Len(r)
  BY DEF r
<1>4. j \in 1..(Len(s) - (u + 1) + 1) /\ u + 1 + j - 1 = u + j /\ u + j \in 1..Len(s)
  BY <1>1, <1>2, <1>3
<1>5. r[j] = s[u + j]
  BY <1>2, <1>4
<1> QED BY <1>4, <1>5 DEF r

LEMMA RestGrows ==
  ASSUME NEW S, NEW s \in Seq(S), NEW u \in Nat, u <= Len(s), NEW e \in S
  PROVE  SubSeq(Append(s, e), u + 1, Len(Append(s, e))) = Append(SubSeq(s, u + 1, Len(s)), e)
<1> DEFINE a == Append(s, e)
           x == SubSeq(a, u + 1, Len(a))
           y == Append(SubSeq(s, u + 1, Len(s)), e)
<1>1. Len(s) \in Nat /\ a \in Seq(S) /\ Len(a) = Len(s) + 1 /\ a[Len(s) + 1] = e
      /\ \A j \in 1..Len(s) : a[j] = s[j]
  BY LenProperties, AppendProperties
<1>2. \A j \in u + 1 .. Len(a) : a[j] \in S
  BY <1>1, ElementOfSeq
<1>3. x \in Seq(S) /\ Len(x) = Len(s) + 1 - u /\ \A j \in 1..(Len(s) + 1 - u) : x[j] = a[u + 1 + j - 1]
  BY <1>1, <1>2, SubSeqProperties
<1>4. \A j \in u + 1 .. Len(s) : s[j] \in S
  BY <1>1, ElementOfSeq
<1>5. SubSeq(s, u + 1, Len(s)) \in Seq(S) /\ Len(SubSeq(s, u + 1, Len(s))) = Len(s) - u
      /\ \A j \in 1..(Len(s) - u) : SubSeq(s, u + 1, Len(s))[j] = s[u + 1 + j - 1]
  BY <1>1, <1>4, SubSeqProperties
<1>6. y \in Seq(S) /\ Len(y) = Len(s) - u + 1 /\ y[Len(s) - u + 1] = e
      /\ \A j \in 1..(Len(s) - u) : y[j] = SubSeq(s, u + 1, Len(s))[j]
  BY <1>5, AppendProperties
<1>7. \A j \in 1..(Len(s) + 1 - u) : x[j] = y[j]
  <2> SUFFICES ASSUME NEW j \in 1..(Len(s) + 1 - u) PROVE x[j] = y[j]
    OBVIOUS
  <2> HIDE DEF a, x, y
  <2>1. CASE j \in 1..(Len(s) - u)
    <3>1. u + 1 + j - 1 \in 1..Len(s)
      BY <1>1, <2>1
    <3> QED BY <1>1, <1>3, <1>5, <1>6, <2>1, <3>1
  <2>2. CASE j = Len(s) + 1 - u
    <3>1. u + 1 + j - 1 = Len(s) + 1 /\ j = Len(s) - u + 1
      BY <1>1, <2>2
    <3> QED BY <1>1, <1>3, <1>6, <3>1
  <2> QED BY <1>1, <2>1, <2>2
<1>8. Len(x) = Len(y)
  BY <1>1, <1>3, <1>6
<1>9. \A j \in 1..Len(x) : x[j] = y[j]
  BY <1>3, <1>7
<1> HIDE DEF a, x, y
<1>10. x = y
  BY <1>3, <1>6, <1>8, <1>9, SeqEqual
<1> QED BY <1>10 DEF x, y, a

-----------------------------------------------------------------------------
(* One connection *)

\* ConnectionsSound, of a connection C with the requests R.
Sound(C, R) ==
  /\ C \in ConnType /\ ~C.garbled /\ ~C.panicked
  /\ SendsInOrder(C, R) /\ BytesInOrder(C) /\ InStep(C, R) /\ OneReader(C)
  /\ ServesInOrder(C) /\ Replies(C, R) /\ KeptOpen(C, R)

\* What two connections have in common: the client's end, what is read of it, and
\* the rest of the server's end.
SameClient(C, D) ==
  D.sent = C.sent /\ D.i = C.i /\ D.left = C.left /\ D.waits = C.waits /\ D.here = C.here
SameBytes(C, D) == D.wire = C.wire /\ D.inbuf = C.inbuf /\ D.byte = C.byte /\ D.used = C.used
SameReply(C, D) ==
  /\ D.state = C.state /\ D.open = C.open /\ D.panicked = C.panicked /\ D.garbled = C.garbled
  /\ D.req = C.req /\ D.out = C.out /\ D.cl = C.cl /\ D.closeAfter = C.closeAfter /\ D.ecrEOF = C.ecrEOF
SameServer(C, D) == SameReply(C, D) /\ D.pc = C.pc /\ D.after = C.after /\ D.budget = C.budget
SameReader(C, D) == D.inRead = C.inRead /\ D.body = C.body

\* The types of the fields.
LEMMA FieldTypes ==
  ASSUME NEW C \in ConnType
  PROVE  /\ C.pc \in Pcs /\ C.state \in States /\ C.open \in BOOLEAN
         /\ C.wire \in Seq(TokenType) /\ C.inbuf \in Seq(TokenType) /\ C.byte \in TokenType /\ C.used \in Nat
         /\ C.inRead \in BOOLEAN /\ C.garbled \in BOOLEAN /\ C.panicked \in BOOLEAN
         /\ C.req \in Nat /\ C.body \in BodyType /\ C.budget \in 0..(MaxPost + 1) /\ C.reads \in Nat
         /\ C.after \in {"none", "write", "reuse"}
         /\ C.done \in BOOLEAN /\ C.closeAfter \in BOOLEAN /\ C.continued \in BOOLEAN /\ C.ecrEOF \in BOOLEAN
         /\ C.cl \in Nat \cup {-1} /\ C.out \in Seq(OutputType)
         /\ C.sent \in Seq(TokenType) /\ C.i \in Nat /\ C.left \in Nat /\ C.waits \in BOOLEAN /\ C.here \in BOOLEAN
BY DEF ConnType

LEMMA NoTokType == NoTok \in TokenType
BY DEF NoTok, Tok, TokenType

-----------------------------------------------------------------------------
(* Reading *)

\* Fill moves bytes between the socket, the byte of the background read and the
\* buffer, and keeps their order; it finds nothing only when there is nothing.
LEMMA FillKeeps ==
  ASSUME NEW C \in ConnType, ~C.inRead
  PROVE  /\ Fill(C) \in ConnType /\ SameClient(C, Fill(C)) /\ SameServer(C, Fill(C)) /\ SameReader(C, Fill(C)) /\ Fill(C).used = C.used
         /\ Fill(C).inbuf \o ByteKept(Fill(C)) \o Fill(C).wire = C.inbuf \o ByteKept(C) \o C.wire
         /\ Fill(C).byte = C.byte \/ Fill(C).byte = NoTok
         /\ Fill(C).inbuf = <<>> => C.inbuf = <<>> /\ C.byte = NoTok /\ (C.open => C.wire = <<>>)
<1> DEFINE Goal(F) ==
      /\ F \in ConnType /\ SameClient(C, F) /\ SameServer(C, F) /\ SameReader(C, F) /\ F.used = C.used
      /\ F.inbuf \o ByteKept(F) \o F.wire = C.inbuf \o ByteKept(C) \o C.wire
      /\ F.byte = C.byte \/ F.byte = NoTok
      /\ F.inbuf = <<>> => C.inbuf = <<>> /\ C.byte = NoTok /\ (C.open => C.wire = <<>>)
<1>1. C.wire \in Seq(TokenType) /\ C.inbuf \in Seq(TokenType) /\ C.byte \in TokenType /\ NoTok \in TokenType
  BY FieldTypes, NoTokType
<1>2. <<C.byte>> \in Seq(TokenType) /\ <<>> \in Seq(TokenType) /\ <<C.byte>> # <<>>
  BY <1>1
<1>3. CASE C.inbuf # <<>>
  BY <1>3 DEF Fill, SameClient, SameServer, SameReply, SameReader
<1>4. CASE C.inbuf = <<>> /\ C.byte # NoTok
  <2> DEFINE F == [C EXCEPT !.inbuf = <<C.byte>>, !.byte = NoTok]
  <2>1. Fill(C) = F
    BY <1>4 DEF Fill
  <2>2. F \in ConnType
    BY <1>1, <1>2 DEF ConnType
  <2>3. F.inbuf = <<C.byte>> /\ F.byte = NoTok /\ F.wire = C.wire /\ F.used = C.used
        /\ SameClient(C, F) /\ SameServer(C, F) /\ SameReader(C, F)
    BY DEF ConnType, SameClient, SameServer, SameReply, SameReader
  <2>4. F.inbuf \o ByteKept(F) \o F.wire = C.inbuf \o ByteKept(C) \o C.wire
    <3>1. ByteKept(F) = <<>> /\ ByteKept(C) = <<C.byte>>
      BY <1>4, <2>3 DEF ByteKept
    <3>2. <<C.byte>> \o <<>> = <<C.byte>> /\ <<>> \o <<C.byte>> = <<C.byte>>
      BY <1>2, ConcatEmptySeq
    <3> QED BY <1>4, <2>3, <3>1, <3>2
  <2> QED BY <1>2, <2>1, <2>2, <2>3, <2>4
<1>5. CASE C.inbuf = <<>> /\ C.byte = NoTok /\ C.open
  <2> DEFINE F == [C EXCEPT !.inbuf = C.wire, !.wire = <<>>]
  <2>1. Fill(C) = F
    BY <1>5 DEF Fill
  <2>2. F \in ConnType
    BY <1>1, <1>2 DEF ConnType
  <2>3. F.inbuf = C.wire /\ F.byte = NoTok /\ F.wire = <<>> /\ F.used = C.used
        /\ SameClient(C, F) /\ SameServer(C, F) /\ SameReader(C, F)
    BY <1>5 DEF ConnType, SameClient, SameServer, SameReply, SameReader
  <2>4. F.inbuf \o ByteKept(F) \o F.wire = C.inbuf \o ByteKept(C) \o C.wire
    <3>1. ByteKept(F) = <<>> /\ ByteKept(C) = <<>>
      BY <1>5, <2>3 DEF ByteKept
    <3>2. C.wire \o <<>> = C.wire /\ <<>> \o C.wire = C.wire /\ <<>> \o <<>> = <<>>
      BY <1>1, <1>2, ConcatEmptySeq
    <3> QED BY <1>5, <2>3, <3>1, <3>2
  <2> QED BY <1>5, <2>1, <2>2, <2>3, <2>4
<1>6. CASE C.inbuf = <<>> /\ C.byte = NoTok /\ ~C.open
  BY <1>6 DEF Fill, SameClient, SameServer, SameReply, SameReader
<1> QED BY <1>3, <1>4, <1>5, <1>6

\* What the client sent are tokens of its requests.
LEMMA SentTokens ==
  ASSUME NEW C \in ConnType, NEW R, SendsInOrder(C, R), NEW k \in 1..Len(C.sent)
  PROVE  /\ C.sent[k] \in TokenType /\ C.sent[k] # NoTok
         /\ C.sent[k].i \in 1..C.i /\ C.sent[k].n \in 0..Size(R[C.sent[k].i])
         /\ C.sent[k] = TokAt(R[C.sent[k].i], C.sent[k].i, C.sent[k].n)
<1>1. C.sent[k] \in TokenType
  BY FieldTypes, ElementOfSeq
<1>2. C.sent[k].i \in 1..C.i /\ C.sent[k].n \in 0..Size(R[C.sent[k].i])
      /\ C.sent[k] = TokAt(R[C.sent[k].i], C.sent[k].i, C.sent[k].n)
  BY DEF SendsInOrder
<1>3. NoTok.i = 0
  BY DEF NoTok, Tok
<1>4. C.sent[k] # NoTok
  BY <1>2, <1>3, FieldTypes
<1> QED BY <1>1, <1>2, <1>4

\* What is read next is the next token that the client sent.
LEMMA TakeReads ==
  ASSUME NEW C \in ConnType, ~C.inRead, BytesInOrder(C), NextTok(C) # NoTok
  PROVE  /\ C.used < Len(C.sent) /\ NextTok(C) = C.sent[C.used + 1] /\ ~Dead(C)
         /\ Take(C) \in ConnType /\ SameClient(C, Take(C)) /\ SameServer(C, Take(C)) /\ SameReader(C, Take(C))
         /\ Take(C).used = C.used + 1 /\ BytesInOrder(Take(C))
         /\ Take(C).byte = C.byte \/ Take(C).byte = NoTok
<1> DEFINE F == Fill(C)
           T == [F EXCEPT !.inbuf = Tail(@), !.used = @ + 1]
           bs == F.inbuf \o ByteKept(F) \o F.wire
           rest == SubSeq(C.sent, C.used + 1, Len(C.sent))
<1>1. F \in ConnType /\ SameClient(C, F) /\ SameServer(C, F) /\ SameReader(C, F) /\ F.used = C.used
      /\ bs = C.inbuf \o ByteKept(C) \o C.wire
      /\ (F.byte = C.byte \/ F.byte = NoTok)
  BY FillKeeps
<1>2. F.inbuf # <<>> /\ NextTok(C) = Head(F.inbuf)
  BY DEF NextTok
<1>3. Take(C) = T
  BY <1>2 DEF Take
<1>4. F.inbuf \in Seq(TokenType) /\ F.wire \in Seq(TokenType) /\ F.byte \in TokenType /\ F.used \in Nat
      /\ C.sent \in Seq(TokenType) /\ C.used \in Nat
  BY <1>1, FieldTypes
<1> HIDE DEF F
<1>5. ByteKept(F) \in Seq(TokenType)
  BY <1>4 DEF ByteKept
<1>7. bs # <<>> /\ Head(bs) = Head(F.inbuf) /\ Tail(bs) = Tail(F.inbuf) \o ByteKept(F) \o F.wire
  <2>1. F.inbuf # <<>>
    BY <1>2
  <2>2. F.inbuf \in Seq(TokenType) /\ ByteKept(F) \in Seq(TokenType) /\ F.wire \in Seq(TokenType)
    BY <1>4, <1>5
  <2>3. bs # <<>> /\ Head(bs) = Head(F.inbuf)
    BY <2>1, <2>2, HeadOfThree
  <2>4. Tail(bs) = Tail(F.inbuf) \o ByteKept(F) \o F.wire
    <3>1. \A x, y, z \in Seq(TokenType) : x # <<>> => Tail(x \o y \o z) = Tail(x) \o y \o z
      BY TailOfThree
    <3> QED BY <2>1, <2>2, <3>1, Zenon
  <2> QED BY <2>3, <2>4
<1>8. bs = rest /\ C.used <= Len(C.sent) /\ (C.state = "hijacked" => C.byte = NoTok)
  BY <1>1 DEF BytesInOrder
<1>9. Len(C.sent) \in Nat
  BY <1>4, LenProperties
<1>10. C.used < Len(C.sent)
  <2>1. rest = <<>> <=> C.used = Len(C.sent)
    BY <1>4, <1>8, RestBegins
  <2> QED BY <1>4, <1>7, <1>8, <1>9, <2>1
<1>11. Head(rest) = C.sent[C.used + 1] /\ Tail(rest) = SubSeq(C.sent, C.used + 1 + 1, Len(C.sent))
  BY <1>4, <1>8, <1>10, RestBegins
<1>12. NextTok(C) = C.sent[C.used + 1]
  BY <1>2, <1>7, <1>8, <1>11
<1>13. Tail(F.inbuf) \in Seq(TokenType) /\ F.used + 1 \in Nat
  BY <1>2, <1>4, HeadTailProperties
<1>14. T \in ConnType
  BY <1>1, <1>13 DEF ConnType
<1>15. T.inbuf = Tail(F.inbuf) /\ T.used = F.used + 1 /\ T.byte = F.byte /\ T.wire = F.wire
       /\ SameClient(F, T) /\ SameServer(F, T) /\ SameReader(F, T)
  BY <1>1 DEF ConnType, SameClient, SameServer, SameReply, SameReader
<1>16. SameClient(C, T) /\ SameServer(C, T) /\ SameReader(C, T)
  BY <1>1, <1>15 DEF SameClient, SameServer, SameReply, SameReader
<1>17. BytesInOrder(T)
  <2>1. T.sent = C.sent /\ T.state = C.state
    BY <1>16 DEF SameClient, SameServer, SameReply, SameReader
  <2>2. ByteKept(T) = ByteKept(F)
    BY <1>15 DEF ByteKept
  <2>3. T.inbuf \o ByteKept(T) \o T.wire = Tail(F.inbuf) \o ByteKept(F) \o F.wire
    BY <1>15, <2>2
  <2>4. T.inbuf \o ByteKept(T) \o T.wire = SubSeq(T.sent, T.used + 1, Len(T.sent))
    BY <1>1, <1>7, <1>8, <1>11, <1>15, <2>1, <2>3
  <2>5. T.used <= Len(T.sent)
    BY <1>1, <1>4, <1>9, <1>10, <1>15, <2>1
  <2>6. T.state = "hijacked" => T.byte = NoTok
    BY <1>1, <1>8, <1>15, <2>1
  <2> HIDE DEF T
  <2> QED BY <2>4, <2>5, <2>6 DEF BytesInOrder
<1>18. ~Dead(C)
  <2>1. C.used # Len(C.sent)
    BY <1>4, <1>9, <1>10
  <2>2. ASSUME ~C.open, C.inbuf = <<>>, C.byte = NoTok
        PROVE  FALSE
    BY <1>2, <2>2 DEF Fill, F
  <2> QED BY <2>1, <2>2 DEF Dead
<1> HIDE DEF T
<1> QED BY <1>1, <1>3, <1>10, <1>12, <1>14, <1>15, <1>16, <1>17, <1>18

\* When nothing is there and nothing more can come, nothing can be read any more.
LEMMA NothingToRead ==
  ASSUME NEW C \in ConnType, NEW R, ~C.inRead, BytesInOrder(C), SendsInOrder(C, R),
         NextTok(C) = NoTok, AtEOF(C)
  PROVE  Dead(C)
<1> DEFINE F == Fill(C)
<1>1. F \in ConnType /\ F.inbuf \o ByteKept(F) \o F.wire = C.inbuf \o ByteKept(C) \o C.wire
      /\ (F.inbuf = <<>> => C.inbuf = <<>> /\ C.byte = NoTok /\ (C.open => C.wire = <<>>))
  BY FillKeeps
<1>2. F.inbuf \in Seq(TokenType) /\ F.wire \in Seq(TokenType) /\ F.byte \in TokenType
      /\ C.sent \in Seq(TokenType) /\ C.used \in Nat
  BY <1>1, FieldTypes
<1>3. C.inbuf \o ByteKept(C) \o C.wire = SubSeq(C.sent, C.used + 1, Len(C.sent)) /\ C.used <= Len(C.sent)
  BY DEF BytesInOrder
<1>4. F.inbuf = <<>>
  <2> SUFFICES ASSUME F.inbuf # <<>> PROVE FALSE
    OBVIOUS
  <2>1. Head(F.inbuf) = NoTok
    BY DEF NextTok
  <2> HIDE DEF F
  <2>2. ByteKept(F) \in Seq(TokenType)
    BY <1>2 DEF ByteKept
  <2>0. \A a, b, c \in Seq(TokenType) : a # <<>> => a \o b \o c # <<>> /\ Head(a \o b \o c) = Head(a)
    BY HeadOfThree
  <2>3. F.inbuf \o ByteKept(F) \o F.wire # <<>> /\ Head(F.inbuf \o ByteKept(F) \o F.wire) = Head(F.inbuf)
    BY <1>2, <2>0, <2>2, Zenon
  <2>4. SubSeq(C.sent, C.used + 1, Len(C.sent)) # <<>>
        /\ Head(SubSeq(C.sent, C.used + 1, Len(C.sent))) = NoTok
    BY <1>1, <1>3, <2>1, <2>3
  <2>5. Len(C.sent) \in Nat
    BY <1>2, LenProperties
  <2>6. C.used < Len(C.sent)
    <3>1. SubSeq(C.sent, C.used + 1, Len(C.sent)) = <<>> <=> C.used = Len(C.sent)
      BY <1>2, <1>3, RestBegins
    <3> QED BY <1>2, <1>3, <2>4, <2>5, <3>1
  <2>7. C.sent[C.used + 1] = NoTok
    BY <1>2, <1>3, <2>4, <2>6, RestBegins
  <2>8. C.used + 1 \in 1..Len(C.sent)
    BY <1>2, <2>5, <2>6
  <2> QED BY <2>7, <2>8, SentTokens
<1>5. C.inbuf = <<>> /\ C.byte = NoTok /\ (C.open => C.wire = <<>>)
  BY <1>1, <1>4
<1>6. CASE ~C.open
  BY <1>5, <1>6 DEF Dead
<1>7. CASE C.open /\ ~C.here
  <2>1. C.inbuf \o ByteKept(C) \o C.wire = <<>>
    <3>1. ByteKept(C) = <<>> /\ C.wire = <<>>
      BY <1>5, <1>7 DEF ByteKept
    <3>2. <<>> \o <<>> = <<>>
      BY EmptySeq, ConcatEmptySeq
    <3> QED BY <1>5, <3>1, <3>2
  <2>2. C.used = Len(C.sent)
    BY <1>2, <1>3, <2>1, RestBegins
  <2> QED BY <1>7, <2>2 DEF Dead
<1> QED BY <1>6, <1>7 DEF AtEOF

-----------------------------------------------------------------------------
(* The body *)

\* A request of the script.
LEMMA RequestTypes ==
  ASSUME NEW q \in Requests
  PROVE  /\ q.m \in {"GET", "HEAD"} /\ q.v \in {0, 1} /\ q.body \in Nat /\ q.chunked \in BOOLEAN
         /\ q.reads \in Nat /\ q.cl \in Nat \cup {-1} /\ q.writes \in Nat /\ Size(q) \in Nat
BY DEF Requests, Size

\* The background read starts only where nothing was read ahead.
LEMMA StartsBackgroundRead ==
  ASSUME NEW C \in ConnType, ~C.inRead
  PROVE  LET D == StartBackgroundRead(C) IN
         /\ D \in ConnType /\ SameClient(C, D) /\ SameBytes(C, D) /\ SameServer(C, D) /\ D.body = C.body
         /\ D.inRead => D.byte = NoTok
         /\ D.continued = C.continued /\ D.reads = C.reads
<1>1. CASE C.byte # NoTok
  BY <1>1 DEF StartBackgroundRead, SameClient, SameBytes, SameServer, SameReply
<1>2. CASE C.byte = NoTok
  <2> DEFINE D == [C EXCEPT !.inRead = TRUE]
  <2>1. StartBackgroundRead(C) = D
    BY <1>2 DEF StartBackgroundRead
  <2>2. D \in ConnType
    BY DEF ConnType
  <2>3. SameClient(C, D) /\ SameBytes(C, D) /\ SameServer(C, D) /\ D.body = C.body /\ D.byte = C.byte
        /\ D.continued = C.continued /\ D.reads = C.reads
    BY DEF ConnType, SameClient, SameBytes, SameServer, SameReply
  <2> HIDE DEF D
  <2> QED BY <1>2, <2>1, <2>2, <2>3
<1> QED BY <1>1, <1>2

\* The token after one within a body is the next of the same body.
LEMMA NextOfBody ==
  ASSUME NEW R \in Seq(Requests), NEW C \in ConnType, SendsInOrder(C, R), InStep(C, R),
         C.req > 0, ~C.body.sawEOF, C.used < Len(C.sent)
  PROVE  /\ C.req \in 1..Len(R) /\ C.used \in 1..Len(C.sent) /\ C.used + 1 \in 1..Len(C.sent)
         /\ C.sent[C.used].n \in Nat /\ C.sent[C.used].n < Size(R[C.req])
         /\ C.sent[C.used + 1] = TokAt(R[C.req], C.req, C.sent[C.used].n + 1)
         /\ C.waits => C.req # C.i
<1> DEFINE t == C.sent[C.used]
           u == C.sent[C.used + 1]
<1>1. C.req \in Nat /\ C.i \in Nat /\ C.used \in Nat /\ C.sent \in Seq(TokenType) /\ Len(R) \in Nat
  BY FieldTypes, LenProperties
<1>2. Len(C.sent) \in Nat
  BY <1>1, LenProperties
<1>3. C.req \in 0..C.i /\ C.i \in 0..Len(R) /\ C.used # 0 /\ t.i = C.req /\ t.n < Size(R[C.req])
  BY DEF InStep, SendsInOrder
<1>4. C.req \in 1..Len(R) /\ C.used \in 1..Len(C.sent) /\ C.used + 1 \in 1..Len(C.sent)
  BY <1>1, <1>2, <1>3
<1>5. t \in TokenType /\ t.n \in 0..Size(R[t.i])
  BY <1>4, SentTokens
<1>6. t.n \in Nat
  BY <1>5 DEF TokenType
<1>7. u = Following(R, t)
  <2>1. u = IF C.used + 1 = 1 THEN TokAt(R[1], 1, 0) ELSE Following(R, C.sent[C.used + 1 - 1])
    BY <1>4 DEF SendsInOrder
  <2>2. C.used + 1 # 1 /\ C.used + 1 - 1 = C.used
    BY <1>1, <1>3
  <2> QED BY <2>1, <2>2
<1>8. u = TokAt(R[C.req], C.req, t.n + 1)
  BY <1>3, <1>7 DEF Following
<1>9. ASSUME C.waits, C.req = C.i
      PROVE  FALSE
  <2> DEFINE l == C.sent[Len(C.sent)]
  <2>1. l.n = 0 /\ Len(C.sent) \in 1..Len(C.sent) /\ l.i = C.i
    BY <1>2, <1>3, <1>4, <1>9 DEF SendsInOrder
  <2>2. u.i = C.i /\ u.n = t.n + 1
    BY <1>8, <1>9 DEF TokAt, Tok
  <2>3. C.used + 1 < Len(C.sent)
    <3>1. u.n # l.n
      BY <1>6, <2>1, <2>2
    <3>2. C.used + 1 # Len(C.sent)
      BY <3>1
    <3> QED BY <1>2, <1>4, <3>2
  <2>4. Precedes(u, l)
    BY <1>4, <2>1, <2>3 DEF SendsInOrder
  <2> HIDE DEF u, l, t
  <2> QED BY <1>1, <1>6, <2>1, <2>2, <2>4 DEF Precedes
<1> QED BY <1>3, <1>4, <1>6, <1>8, <1>9

\* What Read of a body does: one token of it, and the background read after the last.
LEMMA BodyReads ==
  ASSUME NEW R \in Seq(Requests), NEW C \in ConnType, SendsInOrder(C, R), BytesInOrder(C), InStep(C, R),
         ~C.inRead, C.req > 0, ~C.body.sawEOF, NextTok(C) # NoTok, ~C.garbled
  PROVE  /\ BodyRead(C) \in ConnType /\ SameClient(C, BodyRead(C)) /\ SameServer(C, BodyRead(C))
         /\ BytesInOrder(BodyRead(C)) /\ InStep(BodyRead(C), R)
         /\ BodyRead(C).body.closed = C.body.closed
         /\ BodyRead(C).inRead => BodyRead(C).byte = NoTok /\ BodyRead(C).body.sawEOF
         /\ C.waits => C.req # C.i
<1> DEFINE T == Take(C)
           q == R[C.req]
           n == C.sent[C.used].n
           u == C.sent[C.used + 1]
           eof == IF C.body.left = -1 THEN NextTok(C).t = "end" ELSE C.body.left = 1
           left == IF T.body.left > 0 THEN T.body.left - 1 ELSE T.body.left
           body == [T.body EXCEPT !.left = left, !.sawEOF = eof]
           garbled == T.garbled \/ NextTok(C).i # C.req \/ NextTok(C).t = "head"
           B == [T EXCEPT !.body = body, !.garbled = garbled]
<1>1. /\ C.used < Len(C.sent) /\ NextTok(C) = u
      /\ T \in ConnType /\ SameClient(C, T) /\ SameServer(C, T) /\ SameReader(C, T)
      /\ T.used = C.used + 1 /\ BytesInOrder(T)
  BY TakeReads
<1>2. /\ C.req \in 1..Len(R) /\ C.used \in 1..Len(C.sent) /\ C.used + 1 \in 1..Len(C.sent)
      /\ n \in Nat /\ n < Size(q) /\ u = TokAt(q, C.req, n + 1)
      /\ (C.waits => C.req # C.i)
  BY <1>1, NextOfBody
<1>3. q \in Requests
  BY <1>2, ElementOfSeq
<1>4. q.body \in Nat /\ q.chunked \in BOOLEAN /\ Size(q) \in Nat /\ C.body \in BodyType /\ T.body = C.body
      /\ T.garbled = C.garbled /\ T.inRead = C.inRead
  BY <1>1, <1>3, RequestTypes, FieldTypes DEF SameServer, SameReply, SameReader
<1>5. C.body.left = IF q.chunked THEN -1 ELSE Size(q) - n
  BY <1>2 DEF InStep
<1>6. u.i = C.req /\ u.n = n + 1 /\ u.t = IF n + 1 <= q.body THEN "data" ELSE "end"
  <2>1. n + 1 # 0
    BY <1>2
  <2> QED BY <1>2, <2>1 DEF TokAt, Tok
<1>7. garbled = FALSE
  <2>1. u.t # "head"
    BY <1>6
  <2> QED BY <1>1, <1>4, <1>6, <2>1
<1>8. eof = (n + 1 = Size(q))
  <2>1. CASE q.chunked
    <3>1. C.body.left = -1 /\ Size(q) = q.body + 1
      BY <1>4, <1>5, <2>1 DEF Size
    <3>2. eof = (u.t = "end")
      BY <1>1, <3>1
    <3>3. (u.t = "end") = ~(n + 1 <= q.body)
      BY <1>6
    <3>4. ~(n + 1 <= q.body) <=> n + 1 = Size(q)
      <4>1. \A x, y \in Nat : x < y + 1 => (~(x + 1 <= y) <=> x + 1 = y + 1)
        OBVIOUS
      <4>2. n \in Nat /\ q.body \in Nat /\ n < q.body + 1
        BY <1>2, <1>4, <3>1
      <4> HIDE DEF n, q
      <4> QED BY <3>1, <4>1, <4>2
    <3> QED BY <3>2, <3>3, <3>4
  <2>2. CASE ~q.chunked
    <3>1. C.body.left = Size(q) - n /\ C.body.left # -1
      BY <1>2, <1>4, <1>5, <2>2
    <3>2. (C.body.left = 1) <=> n + 1 = Size(q)
      BY <1>2, <1>4, <3>1
    <3> QED BY <3>1, <3>2
  <2> QED BY <1>4, <2>1, <2>2
<1>9. left = IF q.chunked THEN -1 ELSE Size(q) - (n + 1)
  BY <1>2, <1>4, <1>5
<1>10. left \in Nat \cup {-1} /\ eof \in BOOLEAN
  <2>1. \A x, y \in Nat : x < y => y - (x + 1) \in Nat
    OBVIOUS
  <2>2. Size(q) - (n + 1) \in Nat
    BY <1>2, <1>4, <2>1
  <2> HIDE DEF left, n, q
  <2>3. left \in Nat \cup {-1}
    BY <1>9, <2>2
  <2> QED BY <1>8, <2>3
<1> HIDE DEF left, eof, garbled
<1>11. body \in BodyType /\ body.left = left /\ body.sawEOF = eof /\ body.closed = C.body.closed
  BY <1>4, <1>10 DEF BodyType
<1>12. BodyRead(C) = IF eof THEN StartBackgroundRead(B) ELSE B
  <2>1. [T EXCEPT !.body.left = left, !.body.sawEOF = eof, !.garbled = garbled] = B
    BY <1>1 DEF ConnType
  <2>2. [T EXCEPT !.body.left = IF @ > 0 THEN @ - 1 ELSE @, !.body.sawEOF = eof,
                  !.garbled = @ \/ NextTok(C).i # C.req \/ NextTok(C).t = "head"] = B
    BY <1>1, <2>1 DEF left, garbled, ConnType
  <2> QED BY <2>2 DEF BodyRead, eof
<1>13. B \in ConnType
  BY ZenonT(40), <1>1, <1>7, <1>11 DEF ConnType
<1>14. B.body = body /\ B.garbled = FALSE /\ B.inRead = C.inRead /\ SameClient(T, B) /\ SameBytes(T, B)
       /\ B.pc = T.pc /\ B.state = T.state /\ B.open = T.open /\ B.after = T.after /\ B.budget = T.budget
       /\ B.panicked = T.panicked /\ B.req = T.req /\ B.out = T.out /\ B.cl = T.cl
       /\ B.closeAfter = T.closeAfter /\ B.ecrEOF = T.ecrEOF
  BY <1>1, <1>4, <1>7 DEF ConnType, SameClient, SameBytes
<1> HIDE DEF body, B, T
<1>15. SameClient(C, B) /\ SameServer(C, B)
  <2>1. C.garbled = FALSE
    BY FieldTypes
  <2> QED BY <1>1, <1>14, <2>1 DEF SameClient, SameServer, SameReply
<1>16. BytesInOrder(B)
  BY <1>1, <1>14, <1>15 DEF BytesInOrder, SameBytes, SameClient, SameServer, SameReply, ByteKept
<1>17. InStep(B, R)
  <2>1. B.req = C.req /\ B.i = C.i /\ B.sent = C.sent /\ B.used = C.used + 1
    BY <1>1, <1>14, <1>15 DEF SameClient, SameServer, SameReply, SameBytes
  <2>2. B.req \in 0..B.i /\ B.req > 0 /\ B.used # 0 /\ B.req # 0
    BY <1>2, <2>1 DEF InStep
  <2>3. B.sent[B.used] = u
    BY <2>1
  <2>4. B.body.sawEOF => u.n = Size(q)
    BY <1>6, <1>8, <1>11, <1>14
  <2>5. ~B.body.sawEOF => u.n < Size(q) /\ B.body.left = IF q.chunked THEN -1 ELSE Size(q) - u.n
    <3>1. n + 1 # Size(q) => n + 1 < Size(q)
      BY SMTT(40), <1>2, <1>4
    <3> QED BY <1>6, <1>8, <1>9, <1>11, <1>14, <3>1
  <2> HIDE DEF u, n
  <2> QED BY <1>6, <2>1, <2>2, <2>3, <2>4, <2>5 DEF InStep
<1>18. CASE eof
  <2> DEFINE D == StartBackgroundRead(B)
  <2>1. BodyRead(C) = D
    BY <1>12, <1>18
  <2>2. /\ D \in ConnType /\ SameClient(B, D) /\ SameBytes(B, D) /\ SameServer(B, D) /\ D.body = B.body
        /\ (D.inRead => D.byte = NoTok)
    BY <1>13, <1>14, StartsBackgroundRead
  <2> HIDE DEF D
  <2>3. SameClient(C, D) /\ SameServer(C, D)
    BY <1>15, <2>2 DEF SameClient, SameServer, SameReply
  <2>4. BytesInOrder(D)
    BY <1>16, <2>2 DEF BytesInOrder, SameBytes, SameClient, SameServer, SameReply, ByteKept
  <2>5. InStep(D, R)
    BY <1>17, <2>2 DEF InStep, Dead, SameBytes, SameClient, SameServer, SameReply
  <2>6. D.body.sawEOF /\ D.body.closed = C.body.closed
    BY <1>11, <1>14, <1>18, <2>2
  <2> QED BY <1>2, <2>1, <2>2, <2>3, <2>4, <2>5, <2>6
<1>19. CASE ~eof
  <2>1. BodyRead(C) = B
    BY <1>12, <1>19
  <2> QED BY <1>2, <1>11, <1>13, <1>14, <1>15, <1>16, <1>17, <2>1
<1> QED BY <1>18, <1>19

\* The client is gone, and so is the rest of the body.
LEMMA BodyFailing ==
  ASSUME NEW R \in Seq(Requests), NEW C \in ConnType, SendsInOrder(C, R), BytesInOrder(C), InStep(C, R),
         ~C.inRead, C.req > 0, ~C.body.sawEOF, NextTok(C) = NoTok, AtEOF(C)
  PROVE  /\ BodyFails(C) \in ConnType /\ SameClient(C, BodyFails(C)) /\ SameServer(C, BodyFails(C))
         /\ BytesInOrder(BodyFails(C)) /\ InStep(BodyFails(C), R)
         /\ BodyFails(C).body.closed = C.body.closed
         /\ BodyFails(C).inRead => BodyFails(C).byte = NoTok /\ BodyFails(C).body.sawEOF
<1>1. Dead(C)
  BY NothingToRead
<1>2. CASE C.body.left > 0 /\ C.open
  <2> DEFINE body == [C.body EXCEPT !.sawEOF = TRUE]
             B == [C EXCEPT !.body = body]
             D == StartBackgroundRead(B)
  <2>1. C.body \in BodyType
    BY FieldTypes
  <2>2. body \in BodyType /\ body.sawEOF /\ body.closed = C.body.closed
    BY <2>1 DEF BodyType
  <2>3. BodyFails(C) = D
    BY <1>2 DEF BodyFails, ConnType
  <2>4. B \in ConnType
    BY <2>2 DEF ConnType
  <2>5. B.body = body /\ SameClient(C, B) /\ SameBytes(C, B) /\ SameServer(C, B) /\ ~B.inRead
    BY DEF ConnType, SameClient, SameBytes, SameServer, SameReply
  <2> HIDE DEF body, B
  <2>6. /\ D \in ConnType /\ SameClient(B, D) /\ SameBytes(B, D) /\ SameServer(B, D) /\ D.body = B.body
        /\ (D.inRead => D.byte = NoTok)
    BY <2>4, <2>5, StartsBackgroundRead
  <2> HIDE DEF D
  <2>7. SameClient(C, D) /\ SameBytes(C, D) /\ SameServer(C, D)
    BY <2>5, <2>6 DEF SameClient, SameBytes, SameServer, SameReply
  <2>8. BytesInOrder(D)
    BY <2>7 DEF BytesInOrder, SameBytes, SameClient, SameServer, SameReply, ByteKept
  <2>9. D.body.sawEOF /\ D.body.closed = C.body.closed
    BY <2>2, <2>5, <2>6
  <2>10. Dead(D)
    BY <1>1, <2>7 DEF Dead, SameBytes, SameClient, SameServer, SameReply
  <2>11. InStep(D, R)
    BY <2>7, <2>9, <2>10 DEF InStep, SameBytes, SameClient, SameServer, SameReply
  <2> QED BY <2>3, <2>6, <2>7, <2>8, <2>9, <2>11
<1>3. CASE ~(C.body.left > 0 /\ C.open)
  BY <1>3 DEF BodyFails, SameClient, SameServer, SameReply
<1> QED BY <1>2, <1>3

\* Close of the body: at once, or with some reading first.
LEMMA ClosingBody ==
  ASSUME NEW C \in ConnType, NEW q, NEW after \in {"write", "reuse"}
  PROVE  LET D == CloseBody(C, q, after) IN
         /\ D \in ConnType /\ SameClient(C, D) /\ SameBytes(C, D) /\ SameReply(C, D) /\ D.inRead = C.inRead
         /\ D.body.left = C.body.left /\ D.body.sawEOF = C.body.sawEOF
         /\ \/ D.pc = after
            \/ D.pc = "drain" /\ D.after = after /\ D.budget > 0 /\ ~D.body.sawEOF /\ ~D.body.closed
<1> DEFINE D == CloseBody(C, q, after)
<1>0. C.body \in BodyType /\ after \in Pcs /\ "drain" \in Pcs
  BY FieldTypes DEF Pcs
<1>1. CASE C.body.closed \/ C.body.sawEOF \/ (ShouldClose(q) /\ ~q.chunked)
  <2> DEFINE body == [C.body EXCEPT !.closed = TRUE]
             B == [C EXCEPT !.body = body, !.pc = after]
  <2>1. D = B
    BY <1>1 DEF CloseBody, ConnType
  <2>2. body \in BodyType /\ body.left = C.body.left /\ body.sawEOF = C.body.sawEOF
    BY <1>0 DEF BodyType
  <2>3. B \in ConnType
    BY <1>0, <2>2 DEF ConnType
  <2>4. B.body = body /\ B.pc = after /\ SameClient(C, B) /\ SameBytes(C, B) /\ SameReply(C, B) /\ B.inRead = C.inRead
    BY DEF ConnType, SameClient, SameBytes, SameReply
  <2> HIDE DEF body, B, D
  <2> QED BY <2>1, <2>2, <2>3, <2>4 DEF D
<1>2. CASE ~(C.body.closed \/ C.body.sawEOF \/ (ShouldClose(q) /\ ~q.chunked)) /\ C.body.left > MaxPost
  <2> DEFINE body == [C.body EXCEPT !.closed = TRUE, !.early = TRUE]
             B == [C EXCEPT !.body = body, !.pc = after]
  <2>1. D = B
    BY <1>2 DEF CloseBody, ConnType
  <2>2. body \in BodyType /\ body.left = C.body.left /\ body.sawEOF = C.body.sawEOF
    BY <1>0 DEF BodyType
  <2>3. B \in ConnType
    BY <1>0, <2>2 DEF ConnType
  <2>4. B.body = body /\ B.pc = after /\ SameClient(C, B) /\ SameBytes(C, B) /\ SameReply(C, B) /\ B.inRead = C.inRead
    BY DEF ConnType, SameClient, SameBytes, SameReply
  <2> HIDE DEF body, B, D
  <2> QED BY <2>1, <2>2, <2>3, <2>4 DEF D
<1>3. CASE ~(C.body.closed \/ C.body.sawEOF \/ (ShouldClose(q) /\ ~q.chunked)) /\ ~(C.body.left > MaxPost)
  <2> DEFINE B == [C EXCEPT !.pc = "drain", !.budget = MaxPost, !.after = after]
  <2>1. D = B
    BY <1>3 DEF CloseBody
  <2>2. MaxPost \in 0..(MaxPost + 1) /\ MaxPost > 0
    BY HttpServerAssumption
  <2>3. B \in ConnType
    BY <1>0, <2>2 DEF ConnType
  <2>4. B.body = C.body /\ B.pc = "drain" /\ B.budget = MaxPost /\ B.after = after
        /\ SameClient(C, B) /\ SameBytes(C, B) /\ SameReply(C, B) /\ B.inRead = C.inRead
    BY DEF ConnType, SameClient, SameBytes, SameReply
  <2> HIDE DEF B, D
  <2> QED BY <1>3, <2>1, <2>2, <2>3, <2>4 DEF D
<1> QED BY <1>1, <1>2, <1>3

-----------------------------------------------------------------------------
(* Steps that leave parts of a connection alone *)

LEMMA SendsFrame ==
  ASSUME NEW R, NEW C, NEW D, SendsInOrder(C, R), SameClient(C, D), D.out = C.out
  PROVE  SendsInOrder(D, R)
BY DEF SendsInOrder, Skipped, Responded, SameClient

LEMMA BytesFrame ==
  ASSUME NEW C, NEW D, BytesInOrder(C), SameBytes(C, D), D.sent = C.sent, D.state # "hijacked" \/ D.state = C.state
  PROVE  BytesInOrder(D)
BY DEF BytesInOrder, ByteKept, SameBytes

LEMMA StepFrame ==
  ASSUME NEW R, NEW C, NEW D, InStep(C, R), SameClient(C, D), SameBytes(C, D), D.open = C.open \/ ~D.open,
         D.req = C.req, D.body.left = C.body.left, D.body.sawEOF = C.body.sawEOF
  PROVE  InStep(D, R)
<1>1. Dead(C) => Dead(D)
  BY DEF Dead, SameClient, SameBytes
<1> QED BY <1>1 DEF InStep, SameClient, SameBytes

\* A step of the serve loop that reads nothing and writes nothing.
LEMMA QuietStep ==
  ASSUME NEW R, NEW C, NEW D \in ConnType, Sound(C, R), SameClient(C, D), SameBytes(C, D), SameReply(C, D),
         D.body.left = C.body.left, D.body.sawEOF = C.body.sawEOF,
         OneReader(D), ServesInOrder(D), Replies(D, R), KeptOpen(D, R)
  PROVE  Sound(D, R)
<1>1. SendsInOrder(D, R)
  BY SendsFrame DEF Sound, SameReply
<1>2. BytesInOrder(D)
  BY BytesFrame DEF Sound, SameReply, SameClient
<1>3. InStep(D, R)
  BY StepFrame DEF Sound, SameReply
<1> QED BY <1>1, <1>2, <1>3 DEF Sound, SameReply

\* The replies, before one is written, after it, and when the connection is done.
LEMMA RepliesBefore ==
  ASSUME NEW R, NEW C, NEW D, Replies(C, R), Serving(C), ~Replying(C), ~Replying(D),
         D.pc \notin {"discard", "emit"}, D.out = C.out, D.req = C.req, D.i = C.i, D.waits = C.waits
  PROVE  Replies(D, R)
BY DEF Replies

LEMMA RepliesAfter ==
  ASSUME NEW R, NEW C, NEW D, Replies(C, R), Replying(C), Replying(D),
         D.out = C.out, D.req = C.req, D.i = C.i, D.waits = C.waits, D.cl = C.cl, D.closeAfter = C.closeAfter
  PROVE  Replies(D, R)
<1>1. D.pc \notin {"discard", "emit"}
  BY DEF Replying
<1> QED BY <1>1 DEF Replies, LengthOf, Responded

LEMMA RepliesDone ==
  ASSUME NEW R, NEW C, NEW D, Replies(C, R), ~Serving(D),
         D.out = C.out, D.req = C.req, D.i = C.i, D.waits = C.waits
  PROVE  Replies(D, R)
<1>1. ~Replying(D) /\ D.pc \notin {"discard", "emit"}
  BY DEF Replying, Serving
<1> QED BY <1>1 DEF Replies

\* The serve loop goes on to another stage before the reply.
LEMMA NextStage ==
  ASSUME NEW R, NEW C, NEW D \in ConnType, Sound(C, R), SameClient(C, D), SameBytes(C, D), SameReply(C, D),
         D.body.left = C.body.left, D.body.sawEOF = C.body.sawEOF, D.inRead = C.inRead,
         Serving(C), ~Replying(C), D.pc \in {"handler", "write", "hijack", "header", "closing"}
  PROVE  Sound(D, R)
<1>1. ~Replying(D) /\ D.pc \notin {"discard", "emit"}
  BY DEF Replying
<1>2. Replies(D, R)
  BY <1>1, RepliesBefore DEF Sound, SameClient, SameReply
<1>3. OneReader(D)
  BY DEF OneReader, Sound, SameBytes
<1>4. ServesInOrder(D)
  BY <1>1 DEF ServesInOrder, Sound, SameClient, SameReply, Serving
<1>5. KeptOpen(D, R)
  BY DEF KeptOpen
<1> QED BY <1>2, <1>3, <1>4, <1>5, QuietStep

\* The serve loop ends.
LEMMA LoopEnds ==
  ASSUME NEW R, NEW C, NEW D \in ConnType, Sound(C, R), SameClient(C, D), SameBytes(C, D),
         D.open = C.open \/ ~D.open, D.state # "hijacked" \/ (D.state = C.state /\ D.pc = "closing"),
         D.panicked = C.panicked, D.garbled = C.garbled,
         D.req = C.req, D.out = C.out, D.ecrEOF = C.ecrEOF,
         D.body.left = C.body.left, D.body.sawEOF = C.body.sawEOF, D.inRead = C.inRead,
         D.pc \in {"closing", "end"}
  PROVE  Sound(D, R)
<1>1. ~Serving(D) /\ ~Replying(D) /\ D.pc \notin {"discard", "emit"}
  BY DEF Replying, Serving
<1>2. Replies(D, R)
  BY <1>1, RepliesDone DEF Sound, SameClient
<1>3. OneReader(D)
  BY DEF OneReader, Sound, SameBytes
<1>4. ServesInOrder(D)
  BY <1>1 DEF ServesInOrder, Sound, SameClient
<1>5. KeptOpen(D, R)
  BY DEF KeptOpen
<1>6. SendsInOrder(D, R)
  BY SendsFrame DEF Sound
<1>7. BytesInOrder(D)
  BY BytesFrame DEF Sound, SameClient
<1>8. InStep(D, R)
  BY StepFrame DEF Sound
<1> QED BY <1>2, <1>3, <1>4, <1>5, <1>6, <1>7, <1>8 DEF Sound

-----------------------------------------------------------------------------
(* The server, action by action *)

\* Accept
LEMMA AcceptSound ==
  ASSUME NEW R, NEW C, NEW D, Sound(C, R), C.pc = "none", D = [C EXCEPT !.pc = "accepted"]
  PROVE  Sound(D, R)
<1>0. C \in ConnType /\ "accepted" \in Pcs
  BY DEF Sound, Pcs
<1>1. D \in ConnType
  BY <1>0 DEF ConnType
<1>2. D.pc = "accepted" /\ D.inRead = C.inRead /\ D.body = C.body /\ SameClient(C, D) /\ SameBytes(C, D) /\ SameReply(C, D)
  BY <1>0 DEF ConnType, SameClient, SameBytes, SameReply
<1>3. ~Serving(D) /\ ~Replying(D)
  BY <1>2 DEF Serving, Replying
<1>4. Replies(D, R)
  BY <1>2, <1>3, RepliesDone DEF Sound, SameClient, SameReply
<1>5. OneReader(D)
  BY <1>2 DEF OneReader, Sound, SameBytes
<1>6. ServesInOrder(D)
  BY <1>2, <1>3 DEF ServesInOrder, Sound, SameClient, SameReply
<1>7. KeptOpen(D, R)
  BY <1>2 DEF KeptOpen
<1> QED BY <1>1, <1>2, <1>4, <1>5, <1>6, <1>7, QuietStep

\* StateNew, and IdleCheck when the connection goes on: before the next request.
LEMMA BeforeRead ==
  ASSUME NEW R, NEW C, NEW D, Sound(C, R), C.pc \in {"accepted", "idle"}, D.pc = "read", D \in ConnType,
         D.state # "hijacked", D.open = C.open, D.panicked = C.panicked, D.garbled = C.garbled, D.req = C.req,
         D.out = C.out, D.ecrEOF = C.ecrEOF, D.body = C.body, D.inRead = C.inRead, SameClient(C, D), SameBytes(C, D)
  PROVE  Sound(D, R)
<1>1. ~Serving(D) /\ ~Replying(D) /\ D.pc \notin {"discard", "emit"}
  BY DEF Serving, Replying
<1>2. Replies(D, R)
  BY <1>1, RepliesDone DEF Sound, SameClient
<1>3. OneReader(D)
  BY DEF OneReader, Sound, SameBytes
<1>4. ServesInOrder(D)
  BY <1>1 DEF ServesInOrder, Sound, SameClient
<1>5. KeptOpen(D, R)
  BY DEF KeptOpen
<1>6. SendsInOrder(D, R)
  BY SendsFrame DEF Sound
<1>7. BytesInOrder(D)
  BY BytesFrame DEF Sound, SameClient
<1>8. InStep(D, R)
  BY StepFrame DEF Sound
<1> QED BY <1>2, <1>3, <1>4, <1>5, <1>6, <1>7, <1>8 DEF Sound

LEMMA StateNewSound ==
  ASSUME NEW R, NEW C, NEW D, Sound(C, R), C.pc = "accepted", D = [C EXCEPT !.pc = "read", !.state = "new"]
  PROVE  Sound(D, R)
<1>0. C \in ConnType /\ "read" \in Pcs /\ "new" \in States
  BY DEF Sound, Pcs, States
<1>1. D \in ConnType
  BY <1>0 DEF ConnType
<1>2. D.pc = "read" /\ D.state = "new" /\ D.open = C.open /\ D.panicked = C.panicked /\ D.garbled = C.garbled
      /\ D.req = C.req /\ D.out = C.out /\ D.ecrEOF = C.ecrEOF /\ D.body = C.body /\ D.inRead = C.inRead
      /\ SameClient(C, D) /\ SameBytes(C, D)
  BY <1>0 DEF ConnType, SameClient, SameBytes
<1> QED BY <1>1, <1>2, BeforeRead

LEMMA IdleCheckSound ==
  ASSUME NEW R, NEW C, NEW D, NEW p \in {"read", "closing"}, Sound(C, R), C.pc = "idle", C.state # "hijacked",
         D = [C EXCEPT !.pc = p]
  PROVE  Sound(D, R)
<1>0. C \in ConnType /\ p \in Pcs
  BY DEF Sound, Pcs
<1>1. D \in ConnType
  BY <1>0 DEF ConnType
<1>2. D.pc = p /\ D.body = C.body /\ D.inRead = C.inRead /\ SameClient(C, D) /\ SameBytes(C, D) /\ SameReply(C, D)
  BY <1>0 DEF ConnType, SameClient, SameBytes, SameReply
<1>3. CASE p = "read"
  BY <1>1, <1>2, <1>3, BeforeRead DEF SameReply
<1>4. CASE p = "closing"
  BY <1>1, <1>2, <1>4, LoopEnds DEF SameReply
<1> QED BY <1>3, <1>4

\* The owner closes the connection under the serve loop.
LEMMA ClosedUnder ==
  ASSUME NEW R, NEW C, NEW D, Sound(C, R), D = [C EXCEPT !.open = FALSE]
  PROVE  Sound(D, R)
<1>0. C \in ConnType
  BY DEF Sound
<1>1. D \in ConnType
  BY <1>0 DEF ConnType
<1>2. /\ D.open = FALSE /\ D.state = C.state /\ D.panicked = C.panicked /\ D.garbled = C.garbled
      /\ D.req = C.req /\ D.out = C.out /\ D.cl = C.cl /\ D.closeAfter = C.closeAfter /\ D.ecrEOF = C.ecrEOF
      /\ D.pc = C.pc /\ D.after = C.after /\ D.budget = C.budget /\ D.inRead = C.inRead /\ D.body = C.body
      /\ SameClient(C, D) /\ SameBytes(C, D)
  BY <1>0 DEF ConnType, SameClient, SameBytes
<1>3. Replies(D, R)
  BY ZenonT(40), <1>2 DEF Replies, Replying, Serving, LengthOf, Responded, Sound, SameClient
<1>4. OneReader(D)
  BY <1>2 DEF OneReader, Sound, SameBytes
<1>5. ServesInOrder(D)
  BY <1>2 DEF ServesInOrder, Replying, Serving, Sound, SameClient
<1>6. KeptOpen(D, R)
  BY <1>2 DEF KeptOpen, HeadOf, Sound
<1>7. SendsInOrder(D, R)
  BY <1>2, SendsFrame DEF Sound
<1>8. BytesInOrder(D)
  BY <1>2, BytesFrame DEF Sound, SameClient
<1>9. InStep(D, R)
  BY <1>2, StepFrame DEF Sound
<1> QED BY <1>1, <1>2, <1>3, <1>4, <1>5, <1>6, <1>7, <1>8, <1>9 DEF Sound

\* Closing
LEMMA ClosingSound ==
  ASSUME NEW R, NEW C, NEW D, Sound(C, R), D = [C EXCEPT !.open = FALSE, !.state = "closed", !.pc = "end"]
  PROVE  Sound(D, R)
<1>0. C \in ConnType /\ "end" \in Pcs /\ "closed" \in States
  BY DEF Sound, Pcs, States
<1>1. D \in ConnType
  BY <1>0 DEF ConnType
<1>2. /\ ~D.open /\ D.state = "closed" /\ D.panicked = C.panicked /\ D.garbled = C.garbled
      /\ D.req = C.req /\ D.out = C.out /\ D.ecrEOF = C.ecrEOF
      /\ D.pc = "end" /\ D.inRead = C.inRead /\ D.body = C.body
      /\ SameClient(C, D) /\ SameBytes(C, D)
  BY <1>0 DEF ConnType, SameClient, SameBytes
<1> QED BY <1>1, <1>2, LoopEnds

\* HandlerEnds
LEMMA HandlerEndsSound ==
  ASSUME NEW R, NEW C, NEW D, NEW q, Sound(C, R), C.pc = "write",
         D = IF q.does = "hijack" THEN [C EXCEPT !.pc = "hijack"]
             ELSE IF EarlyHeader(q) THEN [C EXCEPT !.pc = "header"]
             ELSE IF q.does = "panic" THEN [C EXCEPT !.pc = "closing"]
             ELSE [C EXCEPT !.pc = "header", !.done = TRUE]
  PROVE  Sound(D, R)
<1>0. C \in ConnType /\ {"hijack", "header", "closing"} \subseteq Pcs
  BY DEF Sound, Pcs
<1>1. D \in ConnType
  <2>1. [C EXCEPT !.pc = "hijack"] \in ConnType
    BY <1>0 DEF ConnType
  <2>2. [C EXCEPT !.pc = "header"] \in ConnType
    BY <1>0 DEF ConnType
  <2>3. [C EXCEPT !.pc = "closing"] \in ConnType
    BY <1>0 DEF ConnType
  <2>4. [C EXCEPT !.pc = "header", !.done = TRUE] \in ConnType
    BY <1>0 DEF ConnType
  <2> QED BY <2>1, <2>2, <2>3, <2>4, Zenon
<1>2. /\ D.pc \in {"hijack", "header", "closing"} /\ D.inRead = C.inRead /\ D.body = C.body
      /\ SameClient(C, D) /\ SameBytes(C, D) /\ SameReply(C, D)
  BY <1>0 DEF ConnType, SameClient, SameBytes, SameReply
<1>3. Serving(C) /\ ~Replying(C)
  BY DEF Serving, Replying
<1> QED BY <1>1, <1>2, <1>3, NextStage

\* HandlerWrites: the handler may close its body.
LEMMA HandlerWritesSound ==
  ASSUME NEW R, NEW C, NEW D, NEW q, Sound(C, R), C.pc = "handler",
         D = IF q.closes THEN CloseBody(C, q, "write") ELSE [C EXCEPT !.pc = "write"]
  PROVE  Sound(D, R)
<1>0. C \in ConnType /\ "write" \in Pcs
  BY DEF Sound, Pcs
<1>3. Serving(C) /\ ~Replying(C)
  BY DEF Serving, Replying
<1>4. CASE ~q.closes
  <2>1. D \in ConnType
    BY <1>0, <1>4 DEF ConnType
  <2>2. /\ D.pc = "write" /\ D.inRead = C.inRead /\ D.body = C.body
        /\ SameClient(C, D) /\ SameBytes(C, D) /\ SameReply(C, D)
    BY <1>0, <1>4 DEF ConnType, SameClient, SameBytes, SameReply
  <2> QED BY <1>3, <2>1, <2>2, NextStage
<1>5. CASE q.closes
  <2>1. /\ D \in ConnType /\ SameClient(C, D) /\ SameBytes(C, D) /\ SameReply(C, D) /\ D.inRead = C.inRead
        /\ D.body.left = C.body.left /\ D.body.sawEOF = C.body.sawEOF
        /\ \/ D.pc = "write"
           \/ D.pc = "drain" /\ D.after = "write" /\ D.budget > 0 /\ ~D.body.sawEOF /\ ~D.body.closed
    BY <1>0, <1>5, ClosingBody
  <2>2. CASE D.pc = "write"
    BY <1>3, <2>1, <2>2, NextStage
  <2>3. CASE D.pc = "drain" /\ D.after = "write" /\ D.budget > 0 /\ ~D.body.sawEOF /\ ~D.body.closed
    <3>1. ~Replying(D) /\ D.pc \notin {"discard", "emit"}
      BY <2>3 DEF Replying
    <3>2. Replies(D, R)
      BY <1>3, <2>1, <3>1, RepliesBefore DEF Sound, SameClient, SameReply
    <3>3. OneReader(D)
      BY <2>1, <2>3 DEF OneReader, Sound, SameBytes
    <3>4. ServesInOrder(D)
      BY <1>3, <2>1, <2>3, <3>1 DEF ServesInOrder, Sound, SameClient, SameReply, Serving
    <3>5. KeptOpen(D, R)
      BY <2>3 DEF KeptOpen
    <3> QED BY <2>1, <3>2, <3>3, <3>4, <3>5, QuietStep
  <2> QED BY <2>1, <2>2, <2>3
<1> QED BY <1>4, <1>5

\* A read of the body, by the handler or by the server for it.
Advanced(C, B, R) ==
  /\ B \in ConnType /\ SameClient(C, B) /\ SameServer(C, B) /\ BytesInOrder(B) /\ InStep(B, R)
  /\ B.body.closed = C.body.closed /\ (B.inRead => B.byte = NoTok /\ B.body.sawEOF)

LEMMA BodyStep ==
  ASSUME NEW R \in Seq(Requests), NEW C, Sound(C, R), Serving(C), ~C.body.sawEOF, CanRead(C)
  PROVE  /\ NextTok(C) = NoTok => Advanced(C, BodyFails(C), R)
         /\ NextTok(C) # NoTok => Advanced(C, BodyRead(C), R) /\ (C.waits => C.req # C.i)
<1>1. C \in ConnType /\ SendsInOrder(C, R) /\ BytesInOrder(C) /\ InStep(C, R) /\ ~C.garbled /\ C.req > 0 /\ ~C.inRead
  BY DEF Sound, OneReader, ServesInOrder
<1>2. ASSUME NextTok(C) = NoTok PROVE Advanced(C, BodyFails(C), R)
  <2>1. AtEOF(C)
    BY <1>2 DEF CanRead
  <2> QED BY <1>1, <1>2, <2>1, BodyFailing DEF Advanced
<1>3. ASSUME NextTok(C) # NoTok PROVE Advanced(C, BodyRead(C), R) /\ (C.waits => C.req # C.i)
  BY <1>1, <1>3, BodyReads DEF Advanced
<1> QED BY <1>2, <1>3

SameOutput(B, D) ==
  /\ D.state = B.state /\ D.open = B.open /\ D.panicked = B.panicked /\ D.garbled = B.garbled
  /\ D.req = B.req /\ D.out = B.out /\ D.body.left = B.body.left /\ D.body.sawEOF = B.body.sawEOF

LEMMA AfterRead ==
  ASSUME NEW R, NEW C, NEW B, NEW D \in ConnType, Sound(C, R), Advanced(C, B, R),
         SameClient(B, D), SameBytes(B, D), SameOutput(B, D),
         OneReader(D), ServesInOrder(D), Replies(D, R), KeptOpen(D, R)
  PROVE  Sound(D, R)
<1>1. SameClient(C, D) /\ D.out = C.out /\ ~D.garbled /\ ~D.panicked
  BY DEF Advanced, SameClient, SameServer, SameReply, SameOutput, Sound
<1>2. SendsInOrder(D, R)
  BY <1>1, SendsFrame DEF Sound
<1>3. BytesInOrder(D)
  BY BytesFrame DEF Advanced, SameClient, SameOutput
<1>4. InStep(D, R)
  BY StepFrame DEF Advanced, SameOutput
<1> QED BY <1>1, <1>2, <1>3, <1>4 DEF Sound

\* HandlerRead
LEMMA HandlerReadSound ==
  ASSUME NEW R \in Seq(Requests), NEW C, NEW D, NEW q \in Requests, Sound(C, R),
         C.pc = "handler", WantsMore(C, q), CanRead(C),
         D = IF NextTok(C) = NoTok THEN [BodyFails(C) EXCEPT !.reads = q.reads]
             ELSE [BodyRead(C) EXCEPT !.reads = @ + 1, !.ecrEOF = BodyRead(C).body.sawEOF]
  PROVE  Sound(D, R)
<1>0. Serving(C) /\ ~Replying(C) /\ ~C.body.sawEOF /\ C.req > 0 /\ C.waits \in BOOLEAN /\ C.ecrEOF \in BOOLEAN
  BY FieldTypes DEF Serving, Replying, WantsMore, Sound, ServesInOrder
<1>1. CASE NextTok(C) = NoTok
  <2> DEFINE B == BodyFails(C)
  <2>1. Advanced(C, B, R)
    BY <1>0, <1>1, BodyStep
  <2>2. B \in ConnType /\ q.reads \in Nat
    BY <2>1, RequestTypes DEF Advanced
  <2> HIDE DEF B
  <2>3. D = [B EXCEPT !.reads = q.reads]
    BY <1>1 DEF B
  <2>4. D \in ConnType
    BY ZenonT(40), <2>2, <2>3 DEF ConnType
  <2>5. SameClient(B, D) /\ SameBytes(B, D) /\ SameServer(B, D) /\ SameReader(B, D)
    BY ZenonT(40), <2>2, <2>3 DEF ConnType, SameClient, SameBytes, SameServer, SameReply, SameReader
  <2>6. D.pc = "handler" /\ D.inRead = B.inRead /\ D.body = B.body /\ D.byte = B.byte /\ D.ecrEOF = C.ecrEOF
        /\ D.out = C.out /\ D.req = C.req /\ D.i = C.i /\ D.waits = C.waits
    BY <2>1, <2>5 DEF Advanced, SameClient, SameBytes, SameServer, SameReply, SameReader
  <2>7. ~Replying(D) /\ D.pc \notin {"discard", "emit"}
    BY <2>6 DEF Replying
  <2>8. Replies(D, R)
    BY <1>0, <2>6, <2>7, RepliesBefore DEF Sound
  <2>9. OneReader(D)
    BY <2>1, <2>6 DEF OneReader, Advanced
  <2>10. ~C.ecrEOF
    BY <1>0 DEF Sound, ServesInOrder
  <2>11. ServesInOrder(D)
    BY <1>0, <2>6, <2>7, <2>10 DEF ServesInOrder
  <2>12. KeptOpen(D, R)
    BY <2>6 DEF KeptOpen
  <2>13. SameOutput(B, D)
    BY <2>5 DEF SameServer, SameReply, SameReader, SameOutput
  <2> QED BY <2>1, <2>4, <2>5, <2>8, <2>9, <2>11, <2>12, <2>13, AfterRead
<1>2. CASE NextTok(C) # NoTok
  <2> DEFINE B == BodyRead(C)
  <2>1. Advanced(C, B, R) /\ (C.waits => C.req # C.i)
    BY <1>0, <1>2, BodyStep
  <2>2. B \in ConnType
    BY <2>1 DEF Advanced
  <2>3. B.reads + 1 \in Nat /\ B.body.sawEOF \in BOOLEAN
    BY <2>2, FieldTypes DEF BodyType
  <2> HIDE DEF B
  <2>4. D = [B EXCEPT !.reads = B.reads + 1, !.ecrEOF = B.body.sawEOF]
    BY <1>2 DEF B
  <2>5. D \in ConnType
    BY ZenonT(40), <2>2, <2>3, <2>4 DEF ConnType
  <2>6. SameClient(B, D) /\ SameBytes(B, D) /\ SameReader(B, D) /\ D.pc = B.pc /\ D.ecrEOF = B.body.sawEOF
        /\ D.state = B.state /\ D.open = B.open /\ D.panicked = B.panicked
        /\ D.garbled = B.garbled /\ D.req = B.req /\ D.out = B.out
    BY ZenonT(40), <2>2, <2>4 DEF ConnType, SameClient, SameBytes, SameReader
  <2>7. D.pc = "handler" /\ D.inRead = B.inRead /\ D.body = B.body /\ D.byte = B.byte
        /\ D.out = C.out /\ D.req = C.req /\ D.i = C.i /\ D.waits = C.waits
    BY <2>1, <2>6 DEF Advanced, SameClient, SameBytes, SameServer, SameReply, SameReader
  <2>8. ~Replying(D) /\ D.pc \notin {"discard", "emit"}
    BY <2>7 DEF Replying
  <2>9. Replies(D, R)
    BY <1>0, <2>7, <2>8, RepliesBefore DEF Sound
  <2>10. OneReader(D)
    BY <2>1, <2>7 DEF OneReader, Advanced
  <2>11. ServesInOrder(D)
    BY <1>0, <2>1, <2>6, <2>7, <2>8 DEF ServesInOrder
  <2>12. KeptOpen(D, R)
    BY <2>7 DEF KeptOpen
  <2>13. SameOutput(B, D)
    BY <2>6 DEF SameReader, SameOutput
  <2>14. SameClient(B, D) /\ SameBytes(B, D)
    BY <2>6
  <2> QED BY <2>1, <2>5, <2>9, <2>10, <2>11, <2>12, <2>13, <2>14, AfterRead
<1> QED BY <1>1, <1>2

\* Drain
SameLength(C, D) == D.cl = C.cl /\ D.closeAfter = C.closeAfter /\ D.ecrEOF = C.ecrEOF

LEMMA Drained ==
  ASSUME NEW R, NEW C, NEW A, NEW D \in ConnType, Sound(C, R), C.pc = "drain", Advanced(C, A, R),
         SameClient(A, D), SameBytes(A, D), SameOutput(A, D), SameLength(A, D), D.inRead = A.inRead,
         D.pc = C.after \/ (D.pc = "drain" /\ D.after = C.after /\ D.budget > 0 /\ ~D.body.sawEOF /\ ~D.body.closed)
  PROVE  Sound(D, R)
<1>1. Serving(C) /\ C.req > 0 /\ ~C.body.sawEOF /\ C.after \in {"write", "reuse"} /\ ~C.ecrEOF
      /\ (C.after = "reuse" => Replying(C) /\ C.closeAfter) /\ (C.after = "write" => ~Replying(C))
  BY FieldTypes DEF Sound, ServesInOrder, Serving, Replying
<1>2. D.out = C.out /\ D.req = C.req /\ D.i = C.i /\ D.waits = C.waits /\ D.cl = C.cl
      /\ D.closeAfter = C.closeAfter /\ D.ecrEOF = C.ecrEOF
      /\ (D.inRead => D.byte = NoTok /\ D.body.sawEOF)
  BY DEF Advanced, SameClient, SameBytes, SameOutput, SameLength, SameServer, SameReply
<1>3. OneReader(D)
  BY <1>1, <1>2 DEF OneReader
<1>4. Replies(D, R)
  <2>1. CASE C.after = "write"
    <3>1. ~Replying(D) /\ D.pc \notin {"discard", "emit"}
      BY <2>1 DEF Replying
    <3> QED BY <1>1, <1>2, <2>1, <3>1, RepliesBefore DEF Sound
  <2>2. CASE C.after = "reuse"
    <3>1. Replying(D)
      BY <2>2 DEF Replying
    <3> QED BY <1>1, <1>2, <2>2, <3>1, RepliesAfter DEF Sound
  <2> QED BY <1>1, <2>1, <2>2
<1>5. ServesInOrder(D)
  <2>1. D.pc \in {"write", "reuse", "drain"}
    BY <1>1
  <2>2. Replying(D) => D.closeAfter
    BY <1>1, <1>2, <2>1 DEF Replying
  <2> QED BY <1>1, <1>2, <2>1, <2>2 DEF ServesInOrder
<1>6. KeptOpen(D, R)
  BY <1>1 DEF KeptOpen
<1> QED BY <1>3, <1>4, <1>5, <1>6, AfterRead

LEMMA DrainSound ==
  ASSUME NEW R \in Seq(Requests), NEW C, Sound(C, R), C.pc = "drain", CanRead(C)
  PROVE  LET B == IF NextTok(C) = NoTok THEN BodyFails(C)
                  ELSE [BodyRead(C) EXCEPT !.budget = IF NextTok(C).t # "end" THEN @ - 1 ELSE @] IN
         Sound(IF NextTok(C) = NoTok \/ B.body.sawEOF \/ B.budget = 0
               THEN [B EXCEPT !.body.closed = TRUE, !.body.early = B.budget = 0, !.pc = C.after]
               ELSE B, R)
<1> DEFINE B == IF NextTok(C) = NoTok THEN BodyFails(C)
                ELSE [BodyRead(C) EXCEPT !.budget = IF NextTok(C).t # "end" THEN @ - 1 ELSE @]
           D == IF NextTok(C) = NoTok \/ B.body.sawEOF \/ B.budget = 0
                THEN [B EXCEPT !.body.closed = TRUE, !.body.early = B.budget = 0, !.pc = C.after]
                ELSE B
<1> SUFFICES Sound(D, R)
  OBVIOUS
<1> DEFINE A == IF NextTok(C) = NoTok THEN BodyFails(C) ELSE BodyRead(C)
           k == IF NextTok(C) = NoTok \/ NextTok(C).t = "end" THEN A.budget ELSE A.budget - 1
<1>1. Serving(C) /\ ~C.body.sawEOF /\ ~C.body.closed /\ C.budget > 0 /\ C.budget \in 0..(MaxPost + 1)
      /\ C.after \in {"write", "reuse"} /\ C.after \in Pcs
  BY FieldTypes DEF Serving, Sound, ServesInOrder, Pcs
<1>2. Advanced(C, A, R)
  BY <1>1, BodyStep
<1>3. A \in ConnType /\ A.budget = C.budget /\ A.body.closed = C.body.closed /\ A.pc = "drain" /\ A.after = C.after
  BY <1>2 DEF Advanced, SameServer
<1>4. k \in 0..(MaxPost + 1)
  <2>1. \A x \in 0..(MaxPost + 1) : x > 0 => x - 1 \in 0..(MaxPost + 1)
    BY HttpServerAssumption
  <2> HIDE DEF A
  <2> QED BY <1>1, <1>3, <2>1
<1> HIDE DEF k
<1>5. B = [A EXCEPT !.budget = k]
  BY <1>3 DEF k, ConnType
<1> HIDE DEF A, B
<1>6. B \in ConnType
  BY <1>3, <1>4, <1>5 DEF ConnType
<1>7. SameClient(A, B) /\ SameBytes(A, B) /\ SameReply(A, B) /\ SameReader(A, B) /\ B.pc = A.pc /\ B.after = A.after
      /\ B.budget = k
  BY <1>3, <1>5 DEF ConnType, SameClient, SameBytes, SameReply, SameReader
<1>8. CASE NextTok(C) = NoTok \/ B.body.sawEOF \/ B.budget = 0
  <2> DEFINE body == [B.body EXCEPT !.closed = TRUE, !.early = B.budget = 0]
  <2>1. B.body \in BodyType
    BY <1>6, FieldTypes
  <2>2. body \in BodyType /\ body.left = B.body.left /\ body.sawEOF = B.body.sawEOF
    BY <2>1 DEF BodyType
  <2>3. D = [B EXCEPT !.body = body, !.pc = C.after]
    BY <1>6, <1>8 DEF ConnType
  <2> HIDE DEF body, D
  <2>4. D \in ConnType
    BY <1>1, <1>6, <2>2, <2>3 DEF ConnType
  <2>5. D.body = body /\ D.pc = C.after /\ SameClient(B, D) /\ SameBytes(B, D) /\ SameReply(B, D) /\ D.inRead = B.inRead
    BY <1>6, <2>3 DEF ConnType, SameClient, SameBytes, SameReply
  <2>6. SameClient(A, D) /\ SameBytes(A, D) /\ SameOutput(A, D) /\ SameLength(A, D) /\ D.inRead = A.inRead
    BY <1>7, <2>2, <2>5 DEF SameClient, SameBytes, SameReply, SameReader, SameOutput, SameLength
  <2> QED BY <1>2, <2>4, <2>5, <2>6, Drained
<1>9. CASE ~(NextTok(C) = NoTok \/ B.body.sawEOF \/ B.budget = 0)
  <2>1. D = B
    BY <1>9
  <2> HIDE DEF D
  <2>2. SameClient(A, D) /\ SameBytes(A, D) /\ SameOutput(A, D) /\ SameLength(A, D) /\ D.inRead = A.inRead
    BY <1>7, <2>1 DEF SameClient, SameBytes, SameReply, SameReader, SameOutput, SameLength
  <2>3. D.pc = "drain" /\ D.after = C.after /\ ~D.body.sawEOF /\ ~D.body.closed
    BY <1>1, <1>3, <1>7, <1>9, <2>1 DEF SameReader
  <2>4. D.budget > 0
    <3>1. \A x \in 0..(MaxPost + 1) : x # 0 => x > 0
      BY HttpServerAssumption
    <3> QED BY <1>4, <1>7, <1>9, <2>1, <3>1
  <2> QED BY <1>2, <1>6, <2>1, <2>2, <2>3, <2>4, Drained
<1> QED BY <1>8, <1>9

\* Discard
LEMMA Discarded ==
  ASSUME NEW R, NEW C, NEW D, Replies(C, R), C.pc = "discard", D.pc \in {"discard", "emit"},
         D.closeAfter \/ SameLength(C, D), D.out = C.out, D.req = C.req, D.i = C.i, D.waits = C.waits
  PROVE  Replies(D, R)
<1>1. ~Replying(D) /\ ~Replying(C) /\ Serving(C)
  BY DEF Replying, Serving
<1> QED BY <1>1 DEF Replies, SameLength, LengthOf

LEMMA DiscardSound ==
  ASSUME NEW R \in Seq(Requests), NEW C, Sound(C, R), C.pc = "discard"
  PROVE  LET t == NextTok(C)
             B == IF t = NoTok THEN BodyFails(C)
                  ELSE [BodyRead(C) EXCEPT !.budget = IF t.t = "end" THEN @ ELSE @ - 1] IN
         /\ C.body.sawEOF \/ C.body.closed => Sound([C EXCEPT !.body.closed = TRUE, !.pc = "emit"], R)
         /\ ~(C.body.sawEOF \/ C.body.closed) /\ CanRead(C) =>
              Sound(IF t = NoTok \/ B.budget = 0 THEN [B EXCEPT !.closeAfter = TRUE, !.pc = "emit"] ELSE B, R)
<1> DEFINE t == NextTok(C)
           B == IF t = NoTok THEN BodyFails(C)
                ELSE [BodyRead(C) EXCEPT !.budget = IF t.t = "end" THEN @ ELSE @ - 1]
<1>0. C \in ConnType /\ Serving(C) /\ ~Replying(C) /\ C.req > 0 /\ C.budget > 0 /\ (C.body.closed => C.body.sawEOF)
      /\ Replies(C, R) /\ "emit" \in Pcs /\ (C.ecrEOF => C.body.sawEOF /\ ~(C.waits /\ C.req = C.i))
      /\ C.budget \in 0..(MaxPost + 1) /\ C.body \in BodyType /\ OneReader(C)
  BY FieldTypes DEF Serving, Replying, Sound, ServesInOrder, Pcs
<1>1. ASSUME C.body.sawEOF \/ C.body.closed
      PROVE  Sound([C EXCEPT !.body.closed = TRUE, !.pc = "emit"], R)
  <2> DEFINE body == [C.body EXCEPT !.closed = TRUE]
             D == [C EXCEPT !.body = body, !.pc = "emit"]
  <2>1. [C EXCEPT !.body.closed = TRUE, !.pc = "emit"] = D
    BY <1>0 DEF ConnType
  <2>2. body \in BodyType /\ body.left = C.body.left /\ body.sawEOF = C.body.sawEOF
    BY <1>0 DEF BodyType
  <2> HIDE DEF body
  <2>3. D \in ConnType
    BY <1>0, <2>2 DEF ConnType
  <2>4. D.body = body /\ D.pc = "emit" /\ D.inRead = C.inRead /\ SameClient(C, D) /\ SameBytes(C, D) /\ SameReply(C, D)
    BY <1>0 DEF ConnType, SameClient, SameBytes, SameReply
  <2> HIDE DEF D
  <2>5. Replies(D, R)
    <3>1. D.out = C.out /\ D.req = C.req /\ D.i = C.i /\ D.waits = C.waits /\ SameLength(C, D)
      BY <2>4 DEF SameClient, SameReply, SameLength
    <3> QED BY <1>0, <2>4, <3>1, Discarded
  <2>6. OneReader(D)
    BY <1>0, <2>2, <2>4 DEF OneReader, SameBytes
  <2>7. D.body.sawEOF
    BY <1>0, <1>1, <2>2, <2>4
  <2>8. ServesInOrder(D)
    BY <1>0, <2>2, <2>4, <2>7 DEF ServesInOrder, SameClient, SameReply
  <2>9. KeptOpen(D, R)
    BY <2>4 DEF KeptOpen
  <2>10. D.body.left = C.body.left /\ D.body.sawEOF = C.body.sawEOF
    BY <2>2, <2>4
  <2> QED BY <2>1, <2>3, <2>4, <2>5, <2>6, <2>8, <2>9, <2>10, QuietStep
<1>2. ASSUME ~(C.body.sawEOF \/ C.body.closed), CanRead(C)
      PROVE  Sound(IF t = NoTok \/ B.budget = 0 THEN [B EXCEPT !.closeAfter = TRUE, !.pc = "emit"] ELSE B, R)
  <2> DEFINE A == IF NextTok(C) = NoTok THEN BodyFails(C) ELSE BodyRead(C)
             k == IF NextTok(C) = NoTok \/ NextTok(C).t = "end" THEN A.budget ELSE A.budget - 1
             D == IF t = NoTok \/ B.budget = 0 THEN [B EXCEPT !.closeAfter = TRUE, !.pc = "emit"] ELSE B
  <2>0. ~C.body.sawEOF /\ ~C.body.closed
    BY <1>2
  <2>1. Advanced(C, A, R)
    BY <1>0, <1>2, <2>0, BodyStep
  <2>2. A \in ConnType /\ A.budget = C.budget /\ A.body.closed = C.body.closed /\ A.pc = "discard"
        /\ (A.inRead => A.byte = NoTok /\ A.body.sawEOF)
    BY <2>1 DEF Advanced, SameServer
  <2>3. k \in 0..(MaxPost + 1)
    <3>1. \A x \in 0..(MaxPost + 1) : x > 0 => x - 1 \in 0..(MaxPost + 1)
      BY HttpServerAssumption
    <3> HIDE DEF A
    <3> QED BY <1>0, <2>2, <3>1
  <2> HIDE DEF k
  <2>4. B = [A EXCEPT !.budget = k]
    BY <2>2 DEF k, ConnType
  <2> HIDE DEF A, B
  <2>5. B \in ConnType
    BY <2>2, <2>3, <2>4 DEF ConnType
  <2>6. SameClient(A, B) /\ SameBytes(A, B) /\ SameReply(A, B) /\ SameReader(A, B) /\ B.pc = A.pc /\ B.budget = k
    BY <2>2, <2>4 DEF ConnType, SameClient, SameBytes, SameReply, SameReader
  <2>7. D \in ConnType /\ SameClient(A, D) /\ SameBytes(A, D) /\ SameOutput(A, D) /\ D.inRead = A.inRead
        /\ D.body = A.body /\ D.ecrEOF = A.ecrEOF
        /\ \/ D.pc = "emit" /\ D.closeAfter
           \/ D.pc = "discard" /\ D.budget > 0 /\ SameLength(A, D)
    <3>1. CASE t = NoTok \/ B.budget = 0
      <4>1. D = [B EXCEPT !.closeAfter = TRUE, !.pc = "emit"]
        BY <3>1
      <4> HIDE DEF D
      <4>2. D \in ConnType
        BY <1>0, <2>5, <4>1 DEF ConnType
      <4>3. D.pc = "emit" /\ D.closeAfter /\ SameClient(B, D) /\ SameBytes(B, D) /\ SameReader(B, D) /\ SameOutput(B, D)
            /\ D.ecrEOF = B.ecrEOF
        BY <2>5, <4>1 DEF ConnType, SameClient, SameBytes, SameReader, SameOutput
      <4> QED BY <2>6, <4>2, <4>3 DEF SameClient, SameBytes, SameReply, SameReader, SameOutput
    <3>2. CASE ~(t = NoTok \/ B.budget = 0)
      <4>1. D = B
        BY <3>2
      <4> HIDE DEF D
      <4>2. D.budget > 0
        <5>1. \A x \in 0..(MaxPost + 1) : x # 0 => x > 0
          BY HttpServerAssumption
        <5> QED BY <2>3, <2>6, <3>2, <4>1, <5>1
      <4> QED BY <2>2, <2>5, <2>6, <4>1, <4>2 DEF SameClient, SameBytes, SameReply, SameReader, SameOutput, SameLength
    <3> QED BY <3>1, <3>2
  <2> HIDE DEF D
  <2>8. D.out = C.out /\ D.req = C.req /\ D.i = C.i /\ D.waits = C.waits /\ D.ecrEOF = C.ecrEOF
        /\ (D.closeAfter \/ SameLength(C, D)) /\ (D.inRead => D.byte = NoTok /\ D.body.sawEOF)
    BY <2>1, <2>7 DEF Advanced, SameClient, SameBytes, SameOutput, SameLength, SameServer, SameReply
  <2>9. Replies(D, R)
    BY <1>0, <2>7, <2>8, Discarded
  <2>10. OneReader(D)
    BY <2>7, <2>8 DEF OneReader
  <2>11. ServesInOrder(D)
    <3>1. ~Replying(D)
      BY <2>7 DEF Replying
    <3>2. ~D.body.closed /\ ~D.ecrEOF
      BY <1>0, <2>0, <2>2, <2>7, <2>8
    <3> QED BY <1>0, <2>7, <2>8, <3>1, <3>2 DEF ServesInOrder
  <2>12. KeptOpen(D, R)
    BY <2>7 DEF KeptOpen
  <2>13. Sound(D, R)
    BY <2>1, <2>7, <2>9, <2>10, <2>11, <2>12, AfterRead
  <2> QED BY <2>13 DEF D
<1> QED BY <1>1, <1>2

-----------------------------------------------------------------------------
(* What the server writes *)

LEMMA SetOfAppend ==
  ASSUME NEW S, NEW s \in Seq(S), NEW e \in S
  PROVE  Append(s, e) \in Seq(S) /\ ToSet(Append(s, e)) = ToSet(s) \cup {e}
<1>1. Append(s, e) \in Seq(S) /\ Len(Append(s, e)) = Len(s) + 1 /\ Append(s, e)[Len(s) + 1] = e
      /\ Len(s) \in Nat /\ \A j \in 1..Len(s) : Append(s, e)[j] = s[j]
  BY AppendProperties, LenProperties
<1>2. DOMAIN s = 1..Len(s) /\ DOMAIN Append(s, e) = 1..(Len(s) + 1)
  BY <1>1, LenProperties
<1> QED BY <1>1, <1>2 DEF ToSet

\* D has written E more than C, about the request that C answers.
Adds(C, D, E) ==
  /\ ToSet(D.out) = ToSet(C.out) \cup E
  /\ \A e \in E : e.i = C.req /\ (e.k = "head" => ~Responded(C, C.req))

LEMMA SendsGrow ==
  ASSUME NEW R, NEW C, NEW D, NEW E, SendsInOrder(C, R), SameClient(C, D), Adds(C, D, E)
  PROVE  SendsInOrder(D, R)
<1>1. Skipped(C, R) => Skipped(D, R)
  BY DEF Skipped, Responded, SameClient, Adds
<1> QED BY <1>1 DEF SendsInOrder, SameClient

\* A response is not written twice.
LEMMA OnceResponded ==
  ASSUME NEW R, NEW C, Replies(C, R), Serving(C), ~Replying(C)
  PROVE  ~Responded(C, C.req)
BY DEF Replies, Responded

\* A step of the serve loop that writes, and reads nothing.
LEMMA WritingStep ==
  ASSUME NEW R, NEW C, NEW D \in ConnType, NEW E, Sound(C, R), SameClient(C, D), SameBytes(C, D),
         D.state # "hijacked" \/ D.state = C.state, D.open = C.open, D.panicked = C.panicked,
         D.garbled = C.garbled, D.req = C.req, Adds(C, D, E),
         D.body.left = C.body.left, D.body.sawEOF = C.body.sawEOF,
         OneReader(D), ServesInOrder(D), Replies(D, R), KeptOpen(D, R)
  PROVE  Sound(D, R)
<1>1. SendsInOrder(D, R)
  BY SendsGrow DEF Sound
<1>2. BytesInOrder(D)
  BY BytesFrame DEF Sound, SameClient
<1>3. InStep(D, R)
  BY StepFrame DEF Sound
<1> QED BY <1>1, <1>2, <1>3 DEF Sound

\* WriteContinue
LEMMA WriteContinueSound ==
  ASSUME NEW R, NEW C, Sound(C, R), C.pc = "handler"
  PROVE  Sound([C EXCEPT !.continued = TRUE, !.out = Append(@, Mark(C, "continue"))], R)
<1> DEFINE e == Mark(C, "continue")
           out == Append(C.out, e)
           D == [C EXCEPT !.continued = TRUE, !.out = out]
<1>0. C \in ConnType /\ Serving(C) /\ ~Replying(C) /\ C.req \in Nat /\ C.out \in Seq(OutputType) /\ Replies(C, R)
  BY FieldTypes DEF Sound, Serving, Replying
<1>1. e \in OutputType /\ e.k = "continue" /\ e.i = C.req
  BY <1>0 DEF Mark, OutputType
<1> HIDE DEF e
<1>2. out \in Seq(OutputType) /\ ToSet(out) = ToSet(C.out) \cup {e}
  BY <1>0, <1>1, SetOfAppend
<1> HIDE DEF out
<1>3. D \in ConnType
  BY <1>0, <1>2 DEF ConnType
<1>4. D.out = out /\ SameClient(C, D) /\ SameBytes(C, D) /\ SameReader(C, D) /\ D.pc = C.pc
      /\ D.state = C.state /\ D.open = C.open /\ D.panicked = C.panicked /\ D.garbled = C.garbled /\ D.req = C.req
      /\ SameLength(C, D)
  BY <1>0 DEF ConnType, SameClient, SameBytes, SameReader, SameLength
<1> HIDE DEF D
<1>5. Adds(C, D, {e})
  BY <1>1, <1>2, <1>4 DEF Adds
<1>6. ~Replying(D) /\ D.pc \notin {"discard", "emit"}
  BY <1>4 DEF Replying
<1>7. Replies(D, R)
  <2>1. \A f \in ToSet(D.out) : f.k = "head" => f \in ToSet(C.out)
    BY <1>1, <1>2, <1>4
  <2>2. \A f \in ToSet(D.out) : f.i <= D.req
    BY <1>0, <1>1, <1>2, <1>4 DEF Replies
  <2> QED BY <1>0, <1>4, <1>6, <2>1, <2>2 DEF Replies, SameClient
<1>8. OneReader(D)
  BY <1>4 DEF OneReader, Sound, SameBytes, SameReader
<1>9. ServesInOrder(D)
  BY <1>4, <1>6 DEF ServesInOrder, Sound, SameClient, SameReader, SameLength, Serving
<1>10. KeptOpen(D, R)
  BY <1>4 DEF KeptOpen
<1>11. Sound(D, R)
  BY <1>3, <1>4, <1>5, <1>7, <1>8, <1>9, <1>10, WritingStep DEF SameReader
<1> QED BY <1>11 DEF D, out, e

\* FinishRequest
LEMMA FinishRequestSound ==
  ASSUME NEW R, NEW C, Sound(C, R), C.pc = "flush"
  PROVE  Sound([C EXCEPT !.done = TRUE, !.out = Append(@, Mark(C, "end")), !.pc = "abort"], R)
<1> DEFINE e == Mark(C, "end")
           out == Append(C.out, e)
           D == [C EXCEPT !.done = TRUE, !.out = out, !.pc = "abort"]
<1>0. C \in ConnType /\ Serving(C) /\ Replying(C) /\ C.req \in Nat /\ C.out \in Seq(OutputType) /\ Replies(C, R)
      /\ "abort" \in Pcs
  BY FieldTypes DEF Sound, Serving, Replying, Pcs
<1>1. e \in OutputType /\ e.k = "end" /\ e.i = C.req
  BY <1>0 DEF Mark, OutputType
<1> HIDE DEF e
<1>2. out \in Seq(OutputType) /\ ToSet(out) = ToSet(C.out) \cup {e}
  BY <1>0, <1>1, SetOfAppend
<1> HIDE DEF out
<1>3. D \in ConnType
  BY <1>0, <1>2 DEF ConnType
<1>4. D.out = out /\ SameClient(C, D) /\ SameBytes(C, D) /\ SameReader(C, D) /\ D.pc = "abort"
      /\ D.state = C.state /\ D.open = C.open /\ D.panicked = C.panicked /\ D.garbled = C.garbled /\ D.req = C.req
      /\ SameLength(C, D)
  BY <1>0 DEF ConnType, SameClient, SameBytes, SameReader, SameLength
<1> HIDE DEF D
<1>5. Adds(C, D, {e})
  BY <1>1, <1>2, <1>4 DEF Adds
<1>6. Replying(D)
  BY <1>4 DEF Replying
<1>7. Replies(D, R)
  <2>1. \A f \in ToSet(D.out) : f.k = "head" => f \in ToSet(C.out)
    BY <1>1, <1>2, <1>4
  <2>2. \A f \in ToSet(D.out) : f.i <= D.req
    BY <1>0, <1>1, <1>2, <1>4 DEF Replies
  <2>3. Responded(D, D.req)
    BY <1>0, <1>2, <1>4 DEF Replies, Responded
  <2> QED BY <1>0, <1>4, <1>6, <2>1, <2>2, <2>3 DEF Replies, SameClient, SameLength, LengthOf
<1>8. OneReader(D)
  BY <1>4 DEF OneReader, Sound, SameBytes, SameReader
<1>9. ServesInOrder(D)
  BY <1>0, <1>4, <1>6 DEF ServesInOrder, Sound, SameClient, SameReader, SameLength, Serving
<1>10. KeptOpen(D, R)
  BY <1>4 DEF KeptOpen
<1>11. Sound(D, R)
  BY <1>3, <1>4, <1>5, <1>7, <1>8, <1>9, <1>10, WritingStep DEF SameReader
<1> QED BY <1>11 DEF D, out, e

\* StartHandler
LEMMA StartHandlerSound ==
  ASSUME NEW R, NEW S, NEW q, Sound(S, R), S.pc = "got"
  PROVE  LET C == [S EXCEPT !.state = "active"] IN
         Sound(IF q.expect = "other"
               THEN [C EXCEPT !.closeAfter = TRUE, !.done = TRUE, !.pc = "abort", !.werr = ~C.open,
                              !.out = @ \o <<[Mark(C, "head") EXCEPT !.keep = FALSE, !.how = "length"],
                                             Mark(C, "end")>>]
               ELSE IF C.body.sawEOF THEN StartBackgroundRead([C EXCEPT !.pc = "handler"])
               ELSE [C EXCEPT !.pc = "handler"], R)
<1> DEFINE C == [S EXCEPT !.state = "active"]
           H == [Mark(C, "head") EXCEPT !.keep = FALSE, !.how = "length"]
           e == Mark(C, "end")
           D1 == [C EXCEPT !.closeAfter = TRUE, !.done = TRUE, !.pc = "abort", !.werr = ~C.open,
                           !.out = @ \o <<H, e>>]
           D2 == [C EXCEPT !.pc = "handler"]
<1>0. /\ S \in ConnType /\ Serving(S) /\ ~Replying(S) /\ S.req \in Nat /\ S.req > 0 /\ S.out \in Seq(OutputType)
      /\ Replies(S, R) /\ "abort" \in Pcs /\ "handler" \in Pcs /\ "active" \in States /\ ~S.inRead
      /\ S.open \in BOOLEAN
  BY FieldTypes DEF Sound, Serving, Replying, Pcs, States, OneReader, ServesInOrder
<1>1. C \in ConnType
  BY <1>0 DEF ConnType
<1>2. /\ C.state = "active" /\ C.open = S.open /\ C.panicked = S.panicked /\ C.garbled = S.garbled /\ C.req = S.req
      /\ C.out = S.out /\ C.pc = "got" /\ SameClient(S, C) /\ SameBytes(S, C) /\ SameReader(S, C) /\ SameLength(S, C)
  BY <1>0 DEF ConnType, SameClient, SameBytes, SameReader, SameLength
<1> HIDE DEF C
<1>3. Sound(D1, R)
  <2>1. H \in OutputType /\ H.k = "head" /\ H.i = S.req /\ H.keep = FALSE
    BY <1>0, <1>2 DEF Mark, OutputType
  <2>2. e \in OutputType /\ e.k = "end" /\ e.i = S.req
    BY <1>0, <1>2 DEF Mark, OutputType
  <2> DEFINE out == C.out \o <<H, e>>
  <2> HIDE DEF H, e
  <2>3. out \in Seq(OutputType) /\ ToSet(out) = ToSet(S.out) \cup {H, e}
    <3>1. <<H, e>> \in Seq(OutputType) /\ <<H, e>> = Append(<<H>>, e) /\ <<H>> \in Seq(OutputType)
      BY <2>1, <2>2
    <3>2. out = Append(Append(C.out, H), e)
      <4>1. out = C.out \o Append(<<H>>, e)
        BY <3>1
      <4>2. \A x, y \in Seq(OutputType) : \A z \in OutputType : x \o Append(y, z) = Append(x \o y, z)
        BY AppendToConcat
      <4>3. out = Append(C.out \o <<H>>, e)
        BY <1>0, <1>2, <2>2, <3>1, <4>1, <4>2
      <4>4. C.out \o <<H>> = Append(C.out, H)
        BY <1>0, <1>2, <2>1, AppendIsConcat
      <4> QED BY <4>3, <4>4
    <3>3. Append(C.out, H) \in Seq(OutputType) /\ ToSet(Append(C.out, H)) = ToSet(C.out) \cup {H}
      BY <1>0, <1>2, <2>1, SetOfAppend
    <3>4. Append(Append(C.out, H), e) \in Seq(OutputType)
          /\ ToSet(Append(Append(C.out, H), e)) = ToSet(Append(C.out, H)) \cup {e}
      <4>1. \A s \in Seq(OutputType) : \A x \in OutputType :
              Append(s, x) \in Seq(OutputType) /\ ToSet(Append(s, x)) = ToSet(s) \cup {x}
        BY SetOfAppend
      <4> QED BY <2>2, <3>3, <4>1, Zenon
    <3> QED BY <1>2, <3>2, <3>3, <3>4
  <2> DEFINE werr == ~C.open
             D == [C EXCEPT !.closeAfter = TRUE, !.done = TRUE, !.pc = "abort", !.werr = werr, !.out = out]
  <2>4. D1 = D
    BY <1>1 DEF ConnType
  <2>5. werr \in BOOLEAN
    BY <1>0, <1>2
  <2> HIDE DEF out, werr
  <2>6. D \in ConnType
    BY <1>0, <1>1, <2>3, <2>5 DEF ConnType
  <2>7. D.out = out /\ D.closeAfter = TRUE /\ D.pc = "abort" /\ SameClient(C, D) /\ SameBytes(C, D) /\ SameReader(C, D)
        /\ D.state = C.state /\ D.open = C.open /\ D.panicked = C.panicked /\ D.garbled = C.garbled /\ D.req = C.req
        /\ D.ecrEOF = C.ecrEOF
    BY <1>1 DEF ConnType, SameClient, SameBytes, SameReader
  <2> HIDE DEF D, D1
  <2>8. SameClient(S, D) /\ SameBytes(S, D) /\ SameReader(S, D)
    BY <1>2, <2>7 DEF SameClient, SameBytes, SameReader
  <2>9. D.state = "active" /\ D.open = S.open /\ D.panicked = S.panicked /\ D.garbled = S.garbled /\ D.req = S.req
        /\ D.ecrEOF = S.ecrEOF
    BY <1>2, <2>7 DEF SameLength
  <2>10. Adds(S, D, {H, e})
    BY <1>0, <2>1, <2>2, <2>3, <2>7, OnceResponded DEF Adds
  <2>11. Replying(D) /\ D.pc \notin {"discard", "emit"}
    BY <2>7 DEF Replying
  <2>12. Replies(D, R)
    <3>1. \A f \in ToSet(D.out) : f \in ToSet(S.out) \/ (f.i = S.req /\ ~(f.k = "head" /\ f.keep))
      BY <2>1, <2>2, <2>3, <2>7
    <3>2. \A f \in ToSet(D.out) : f.i <= D.req
      BY <1>0, <2>9, <3>1 DEF Replies
    <3>3. Responded(D, D.req)
      BY <2>1, <2>3, <2>7, <2>9 DEF Responded
    <3>4. \A f \in ToSet(D.out) : f.k = "head" /\ f.i = D.i /\ D.waits => ~f.keep
      BY <1>0, <2>8, <3>1 DEF Replies, SameClient
    <3> QED BY <2>7, <2>11, <3>2, <3>3, <3>4 DEF Replies
  <2>13. OneReader(D)
    BY <1>0, <2>8 DEF OneReader, SameReader
  <2>14. ServesInOrder(D)
    BY <1>0, <2>7, <2>8, <2>9 DEF ServesInOrder, Sound, SameClient, SameReader
  <2>15. KeptOpen(D, R)
    BY <2>7 DEF KeptOpen
  <2>16. Sound(D, R)
    BY <2>6, <2>8, <2>9, <2>10, <2>12, <2>13, <2>14, <2>15, WritingStep DEF SameReader
  <2> QED BY <2>4, <2>16
<1>4. D2 \in ConnType
  BY <1>0, <1>1 DEF ConnType
<1>5. D2.pc = "handler" /\ D2.state = "active" /\ D2.out = C.out /\ D2.open = C.open /\ D2.panicked = C.panicked
      /\ D2.garbled = C.garbled /\ D2.req = C.req
      /\ SameClient(C, D2) /\ SameBytes(C, D2) /\ SameReader(C, D2) /\ SameLength(C, D2)
  BY <1>1, <1>2 DEF ConnType, SameClient, SameBytes, SameReader, SameLength
<1> HIDE DEF D2
<1>6. ASSUME NEW D \in ConnType, SameClient(D2, D), SameBytes(D2, D), SameServer(D2, D), D.body = D2.body,
             D.inRead => D.byte = NoTok /\ D.body.sawEOF
      PROVE  Sound(D, R)
  <2>1. SameClient(S, D) /\ SameBytes(S, D) /\ D.body = S.body
    BY <1>2, <1>5, <1>6 DEF SameClient, SameBytes, SameReader
  <2>2. D.pc = "handler" /\ D.state = "active" /\ D.open = S.open /\ D.panicked = S.panicked /\ D.garbled = S.garbled
        /\ D.req = S.req /\ D.out = S.out /\ D.ecrEOF = S.ecrEOF
    BY <1>2, <1>5, <1>6 DEF SameServer, SameReply, SameLength
  <2>3. Adds(S, D, {})
    BY <2>2 DEF Adds
  <2>4. ~Replying(D) /\ D.pc \notin {"discard", "emit"}
    BY <2>2 DEF Replying
  <2>5. Replies(D, R)
    BY <1>0, <2>1, <2>2, <2>4, RepliesBefore DEF SameClient
  <2>6. OneReader(D)
    BY <1>6, <2>2 DEF OneReader
  <2>7. ServesInOrder(D)
    BY <1>0, <2>1, <2>2, <2>4 DEF ServesInOrder, Sound, SameClient
  <2>8. KeptOpen(D, R)
    BY <2>2 DEF KeptOpen
  <2> QED BY <2>1, <2>2, <2>3, <2>5, <2>6, <2>7, <2>8, WritingStep
<1>7. Sound(D2, R)
  BY <1>0, <1>2, <1>4, <1>5, <1>6 DEF SameClient, SameBytes, SameServer, SameReply, SameReader
<1>8. ASSUME C.body.sawEOF PROVE Sound(StartBackgroundRead(D2), R)
  <2> DEFINE D == StartBackgroundRead(D2)
  <2>1. ~D2.inRead /\ D2.body.sawEOF
    BY <1>0, <1>2, <1>5, <1>8 DEF SameReader
  <2>2. D \in ConnType /\ SameClient(D2, D) /\ SameBytes(D2, D) /\ SameServer(D2, D) /\ D.body = D2.body
        /\ (D.inRead => D.byte = NoTok)
    BY <1>4, <2>1, StartsBackgroundRead
  <2> HIDE DEF D
  <2>3. Sound(D, R)
    BY <1>6, <2>1, <2>2
  <2> QED BY <2>3 DEF D
<1> HIDE DEF D1
<1> QED BY <1>3, <1>7, <1>8 DEF D1, D2, C, H, e

\* AbortPendingRead
LEMMA AbortedSound ==
  ASSUME NEW R, NEW C, Sound(C, R)
  PROVE  Sound([C EXCEPT !.aborted = TRUE], R)
<1> DEFINE D == [C EXCEPT !.aborted = TRUE]
<1>0. C \in ConnType
  BY DEF Sound
<1>1. D \in ConnType
  BY <1>0 DEF ConnType
<1>2. SameClient(C, D) /\ SameBytes(C, D) /\ SameServer(C, D) /\ SameReader(C, D)
  BY <1>0 DEF ConnType, SameClient, SameBytes, SameServer, SameReply, SameReader
<1> HIDE DEF D
<1>3. /\ D.state = C.state /\ D.out = C.out /\ D.req = C.req /\ D.cl = C.cl /\ D.closeAfter = C.closeAfter
      /\ D.ecrEOF = C.ecrEOF /\ D.pc = C.pc /\ D.after = C.after /\ D.budget = C.budget /\ D.inRead = C.inRead
      /\ D.body = C.body /\ D.byte = C.byte /\ D.i = C.i /\ D.waits = C.waits
  BY <1>2 DEF SameClient, SameBytes, SameServer, SameReply, SameReader
<1>4. Replies(D, R)
  BY <1>3 DEF Replies, Replying, Serving, LengthOf, Responded, Sound
<1>5. OneReader(D)
  BY <1>3 DEF OneReader, Sound
<1>6. ServesInOrder(D)
  BY <1>3 DEF ServesInOrder, Replying, Serving, Sound
<1>7. KeptOpen(D, R)
  BY <1>3 DEF KeptOpen, HeadOf, Sound
<1>8. Sound(D, R)
  BY <1>1, <1>2, <1>3, <1>4, <1>5, <1>6, <1>7, QuietStep DEF SameServer
<1> QED BY <1>8 DEF D

LEMMA AbortPendingReadSound ==
  ASSUME NEW R, NEW C, NEW q, Sound(C, R), C.pc = "abort"
  PROVE  Sound(IF C.inRead THEN [C EXCEPT !.aborted = TRUE] ELSE CloseBody(C, q, "reuse"), R)
<1>1. CASE C.inRead
  BY <1>1, AbortedSound
<1>2. CASE ~C.inRead
  <2> DEFINE D == CloseBody(C, q, "reuse")
  <2>0. C \in ConnType /\ Replying(C) /\ C.req > 0 /\ (C.closeAfter \/ C.body.sawEOF)
        /\ (C.ecrEOF => C.body.sawEOF /\ ~(C.waits /\ C.req = C.i))
    BY DEF Sound, ServesInOrder, Replying, Serving
  <2>1. /\ D \in ConnType /\ SameClient(C, D) /\ SameBytes(C, D) /\ SameReply(C, D) /\ D.inRead = C.inRead
        /\ D.body.left = C.body.left /\ D.body.sawEOF = C.body.sawEOF
        /\ \/ D.pc = "reuse"
           \/ D.pc = "drain" /\ D.after = "reuse" /\ D.budget > 0 /\ ~D.body.sawEOF /\ ~D.body.closed
    BY <2>0, ClosingBody
  <2> HIDE DEF D
  <2>2. Replying(D)
    BY <2>1 DEF Replying
  <2>3. Replies(D, R)
    BY <2>0, <2>1, <2>2, RepliesAfter DEF Sound, SameClient, SameReply
  <2>4. OneReader(D)
    BY <1>2, <2>1 DEF OneReader
  <2>5. ServesInOrder(D)
    BY <2>0, <2>1, <2>2 DEF ServesInOrder, SameClient, SameReply
  <2>6. KeptOpen(D, R)
    BY <2>1 DEF KeptOpen
  <2>7. Sound(D, R)
    BY <2>1, <2>3, <2>4, <2>5, <2>6, QuietStep
  <2> QED BY <1>2, <2>7 DEF D
<1> QED BY <1>1, <1>2

\* Reuse: a declared length was written in full.
LEMMA ReuseSound ==
  ASSUME NEW R, NEW C, NEW q, q = R[C.req], Sound(C, R), C.pc = "reuse", C.state # "hijacked"
  PROVE  Sound(IF ShouldReuseConnection(C, q) THEN [C EXCEPT !.pc = "idle", !.state = "idle"]
               ELSE [C EXCEPT !.pc = "closing"], R)
<1>0. C \in ConnType /\ Replying(C) /\ Replies(C, R) /\ C.req > 0 /\ (C.closeAfter \/ C.body.sawEOF)
      /\ {"idle", "closing"} \subseteq Pcs /\ "idle" \in States /\ (C.inRead => C.closeAfter)
      /\ (C.ecrEOF => C.body.sawEOF /\ ~(C.waits /\ C.req = C.i))
  BY DEF Sound, ServesInOrder, OneReader, Replying, Serving, Pcs, States
<1>1. CASE ~ShouldReuseConnection(C, q)
  <2> DEFINE D == [C EXCEPT !.pc = "closing"]
  <2>1. D \in ConnType
    BY <1>0 DEF ConnType
  <2>2. D.pc = "closing" /\ D.body = C.body /\ D.inRead = C.inRead /\ SameClient(C, D) /\ SameBytes(C, D) /\ SameReply(C, D)
    BY <1>0 DEF ConnType, SameClient, SameBytes, SameReply
  <2> HIDE DEF D
  <2>3. Sound(D, R)
    BY <2>1, <2>2, LoopEnds DEF SameReply
  <2> QED BY <1>1, <2>3 DEF D
<1>2. CASE ShouldReuseConnection(C, q)
  <2> DEFINE D == [C EXCEPT !.pc = "idle", !.state = "idle"]
  <2>0. ~C.closeAfter /\ (q.m # "HEAD" /\ C.cl # -1 /\ BodyAllowed(q) => C.cl = Written(q))
    BY <1>2 DEF ShouldReuseConnection
  <2>1. D \in ConnType
    BY <1>0 DEF ConnType
  <2>2. /\ D.pc = "idle" /\ D.state = "idle" /\ D.body = C.body /\ D.inRead = C.inRead /\ D.out = C.out /\ D.req = C.req
        /\ D.open = C.open /\ D.panicked = C.panicked /\ D.garbled = C.garbled
        /\ SameClient(C, D) /\ SameBytes(C, D) /\ SameLength(C, D)
    BY <1>0 DEF ConnType, SameClient, SameBytes, SameLength
  <2> HIDE DEF D
  <2>3. Replying(D)
    BY <2>2 DEF Replying
  <2>4. Replies(D, R)
    BY <1>0, <2>2, <2>3, RepliesAfter DEF SameClient, SameLength
  <2>5. OneReader(D)
    BY <1>0, <2>0, <2>2 DEF OneReader
  <2>6. ServesInOrder(D)
    BY <1>0, <2>0, <2>2 DEF ServesInOrder, SameClient, SameLength
  <2>7. KeptOpen(D, R)
    <3> DEFINE h == HeadOf(D, D.req)
    <3>1. h \in ToSet(D.out) /\ h.k = "head" /\ h.i = D.req
      BY <1>0, <2>2 DEF Replies, Responded, HeadOf
    <3> HIDE DEF h
    <3>2. LengthOf(C, q) /\ h.keep /\ h.how # "eof" /\ (h.how = "length" => HasBody(q) /\ C.cl # -1)
      BY <1>0, <2>0, <2>2, <3>1 DEF Replies
    <3>3. ASSUME h.how = "length" PROVE C.cl = Buffered(q)
      <4>1. C.cl # -1 /\ C.cl = Written(q)
        BY <2>0, <3>2, <3>3 DEF HasBody
      <4>2. CASE C.cl = q.cl
        <5>1. ~(Written(q) > q.cl)
          <6>1. C.cl \in Nat
            BY <1>0, <4>1, FieldTypes
          <6>2. \A x \in Nat : ~(x > x)
            OBVIOUS
          <6> QED BY <4>1, <4>2, <6>1, <6>2
        <5> QED BY <4>1, <4>2, <5>1 DEF Buffered
      <4>3. CASE q.cl = -1 /\ C.cl = Buffered(q)
        BY <4>3
      <4> QED BY <3>2, <4>2, <4>3 DEF LengthOf
    <3> QED BY <2>2, <3>2, <3>3 DEF KeptOpen, SameLength, h
  <2>8. Adds(C, D, {})
    BY <2>2 DEF Adds
  <2>9. Sound(D, R)
    BY <2>1, <2>2, <2>4, <2>5, <2>6, <2>7, <2>8, WritingStep
  <2> QED BY <1>2, <2>9 DEF D
<1> QED BY <1>1, <1>2

\* Hijack: the byte of the background read goes to the buffer.
LEMMA HijackSound ==
  ASSUME NEW R, NEW C, Sound(C, R), C.pc = "hijack", ~C.inRead
  PROVE  Sound([C EXCEPT !.state = "hijacked", !.pc = "end", !.byte = NoTok,
                         !.inbuf = @ \o (IF C.byte = NoTok THEN <<>> ELSE <<C.byte>>)], R)
<1> DEFINE inbuf == C.inbuf \o (IF C.byte = NoTok THEN <<>> ELSE <<C.byte>>)
           D == [C EXCEPT !.state = "hijacked", !.pc = "end", !.byte = NoTok, !.inbuf = inbuf]
<1>0. /\ C \in ConnType /\ "end" \in Pcs /\ "hijacked" \in States /\ NoTok \in TokenType /\ BytesInOrder(C)
      /\ C.inbuf \in Seq(TokenType) /\ C.wire \in Seq(TokenType) /\ C.byte \in TokenType
  BY FieldTypes, NoTokType DEF Sound, Pcs, States
<1>1. inbuf = C.inbuf \o ByteKept(C) /\ ByteKept(C) \in Seq(TokenType)
  BY <1>0 DEF ByteKept
<1>2. inbuf \in Seq(TokenType) /\ inbuf \o <<>> = inbuf
  <2>1. C.inbuf \o ByteKept(C) \in Seq(TokenType)
    BY <1>0, <1>1, ConcatProperties
  <2> HIDE DEF inbuf
  <2>2. inbuf \in Seq(TokenType)
    BY <1>1, <2>1
  <2> QED BY <2>2, ConcatEmptySeq
<1> HIDE DEF inbuf
<1>3. D \in ConnType
  BY <1>0, <1>2 DEF ConnType
<1>4. /\ D.pc = "end" /\ D.byte = NoTok /\ D.inbuf = inbuf /\ D.wire = C.wire /\ D.used = C.used
      /\ D.open = C.open /\ D.panicked = C.panicked /\ D.garbled = C.garbled /\ D.req = C.req /\ D.out = C.out
      /\ D.body = C.body /\ D.inRead = C.inRead /\ SameClient(C, D) /\ SameLength(C, D)
  BY <1>0 DEF ConnType, SameClient, SameLength
<1> HIDE DEF D
<1>5. ~Serving(D) /\ ~Replying(D)
  BY <1>4 DEF Serving, Replying
<1>6. Replies(D, R)
  BY <1>4, <1>5, RepliesDone DEF Sound, SameClient
<1>7. OneReader(D)
  BY <1>4 DEF OneReader
<1>8. ServesInOrder(D)
  BY <1>4, <1>5 DEF ServesInOrder, Sound, SameClient, SameLength
<1>9. KeptOpen(D, R)
  BY <1>4 DEF KeptOpen
<1>10. SendsInOrder(D, R)
  BY <1>4, SendsFrame DEF Sound
<1>11. BytesInOrder(D)
  <2>1. ByteKept(D) = <<>>
    BY <1>4 DEF ByteKept
  <2>2. D.inbuf \o ByteKept(D) \o D.wire = C.inbuf \o ByteKept(C) \o C.wire
    BY <1>1, <1>2, <1>4, <2>1
  <2> QED BY <1>0, <1>4, <2>2 DEF BytesInOrder, SameClient
<1>12. InStep(D, R)
  <2>1. Dead(C) => Dead(D)
    <3>1. <<>> \o <<>> = <<>>
      BY EmptySeq, ConcatEmptySeq
    <3>2. ASSUME ~C.open, C.inbuf = <<>>, C.byte = NoTok PROVE Dead(D)
      BY <1>1, <1>4, <3>1, <3>2 DEF ByteKept, Dead
    <3>3. ASSUME ~C.here, C.used = Len(C.sent) PROVE Dead(D)
      BY <1>4, <3>3 DEF SameClient, Dead
    <3> QED BY <3>2, <3>3 DEF Dead
  <2> QED BY <1>4, <2>1 DEF Sound, InStep, SameClient
<1>13. Sound(D, R)
  BY <1>3, <1>4, <1>6, <1>7, <1>8, <1>9, <1>10, <1>11, <1>12 DEF Sound
<1> QED BY <1>13 DEF D, inbuf

\* BackgroundRead: its byte is the next of the socket.
LEMMA MiddleOfThree ==
  ASSUME NEW S, NEW s \in Seq(S), NEW v \in Seq(S), v # <<>>
  PROVE  /\ s \o <<Head(v)>> \o Tail(v) = s \o v
         /\ Head(v) \in S /\ Tail(v) \in Seq(S) /\ Len(s) + 1 \in 1..Len(s \o v) /\ (s \o v)[Len(s) + 1] = Head(v)
<1>1. Head(v) \in S /\ Tail(v) \in Seq(S) /\ Len(v) \in Nat \ {0} /\ Len(s) \in Nat /\ v = <<Head(v)>> \o Tail(v)
  <2>1. Len(v) \in Nat \ {0}
    BY EmptySeq, LenProperties
  <2> QED BY <2>1, HeadTailProperties, LenProperties, ConcatProperties
<1>2. <<Head(v)>> \in Seq(S)
  BY <1>1
<1>3. \A x, y, z \in Seq(S) : (x \o y) \o z = x \o (y \o z)
  BY ConcatAssociative
<1>4. s \o <<Head(v)>> \o Tail(v) = s \o (<<Head(v)>> \o Tail(v))
  BY <1>1, <1>2, <1>3, Zenon
<1>5. Len(s \o v) = Len(s) + Len(v) /\ (s \o v)[Len(s) + 1] = v[1]
  BY <1>1, ConcatProperties
<1> QED BY <1>1, <1>4, <1>5

LEMMA BackgroundReadSound ==
  ASSUME NEW R, NEW S, Sound(S, R), S.inRead, S.state = "hijacked" => S.pc = "end"
  PROVE  LET C == [S EXCEPT !.inRead = FALSE, !.aborted = FALSE] IN
         /\ Sound(C, R)
         /\ C.open /\ C.wire # <<>> => Sound([C EXCEPT !.byte = Head(C.wire), !.wire = Tail(@)], R)
<1> DEFINE C == [S EXCEPT !.inRead = FALSE, !.aborted = FALSE]
<1>0. S \in ConnType /\ S.byte = NoTok /\ S.state # "hijacked"
  BY DEF Sound, OneReader
<1>1. C \in ConnType
  BY ZenonT(40), <1>0 DEF ConnType
<1>2. C.inRead = FALSE /\ C.body = S.body /\ SameClient(S, C) /\ SameBytes(S, C) /\ SameServer(S, C)
  BY <1>0 DEF ConnType, SameClient, SameBytes, SameServer, SameReply
<1> HIDE DEF C
<1>3. /\ C.state = S.state /\ C.out = S.out /\ C.req = S.req /\ C.cl = S.cl /\ C.closeAfter = S.closeAfter
      /\ C.ecrEOF = S.ecrEOF /\ C.pc = S.pc /\ C.after = S.after /\ C.budget = S.budget
      /\ C.byte = S.byte /\ C.i = S.i /\ C.waits = S.waits
  BY <1>2 DEF SameClient, SameBytes, SameServer, SameReply
<1>4. Replies(C, R)
  BY ZenonT(40), <1>3 DEF Replies, Replying, Serving, LengthOf, Responded, Sound
<1>5. OneReader(C)
  BY <1>2 DEF OneReader
<1>6. ServesInOrder(C)
  BY <1>2, <1>3 DEF ServesInOrder, Replying, Serving, Sound
<1>7. KeptOpen(C, R)
  BY <1>3 DEF KeptOpen, HeadOf, Sound
<1>8. Sound(C, R)
  BY <1>1, <1>2, <1>3, <1>4, <1>5, <1>6, <1>7, QuietStep DEF SameServer
<1>9. ASSUME C.open, C.wire # <<>> PROVE Sound([C EXCEPT !.byte = Head(C.wire), !.wire = Tail(@)], R)
  <2> DEFINE b == Head(C.wire)
             wire == Tail(C.wire)
             D == [C EXCEPT !.byte = b, !.wire = wire]
  <2>1. C.inbuf \in Seq(TokenType) /\ C.wire \in Seq(TokenType) /\ C.sent \in Seq(TokenType) /\ C.used \in Nat
    BY <1>1, FieldTypes
  <2>2. /\ C.inbuf \o <<b>> \o wire = C.inbuf \o C.wire /\ b \in TokenType /\ wire \in Seq(TokenType)
        /\ Len(C.inbuf) + 1 \in 1..Len(C.inbuf \o C.wire) /\ (C.inbuf \o C.wire)[Len(C.inbuf) + 1] = b
    <3>1. \A s, v \in Seq(TokenType) : v # <<>> =>
            /\ s \o <<Head(v)>> \o Tail(v) = s \o v
            /\ Head(v) \in TokenType /\ Tail(v) \in Seq(TokenType) /\ Len(s) + 1 \in 1..Len(s \o v)
            /\ (s \o v)[Len(s) + 1] = Head(v)
      BY MiddleOfThree
    <3> QED BY <1>9, <2>1, <3>1, Zenon
  <2> HIDE DEF b, wire
  <2>3. C.inbuf \o C.wire = SubSeq(C.sent, C.used + 1, Len(C.sent)) /\ C.used <= Len(C.sent)
    <3>1. ByteKept(C) = <<>> /\ C.inbuf \o <<>> = C.inbuf
      BY <1>0, <1>3, <2>1, ConcatEmptySeq DEF ByteKept
    <3> QED BY <1>8, <3>1 DEF Sound, BytesInOrder
  <2>4. b # NoTok
    <3> DEFINE j == Len(C.inbuf) + 1
               rest == SubSeq(C.sent, C.used + 1, Len(C.sent))
    <3>1. j \in 1..Len(rest) /\ rest[j] = b
      BY <2>2, <2>3
    <3> HIDE DEF j, rest
    <3>2. C.used + j \in 1..Len(C.sent) /\ b = C.sent[C.used + j]
      BY <2>1, <2>3, <3>1, RestElement DEF rest
    <3> QED BY <1>1, <1>8, <3>2, SentTokens DEF Sound
  <2>5. D \in ConnType
    BY <1>1, <2>2 DEF ConnType
  <2>6. /\ D.byte = b /\ D.wire = wire /\ D.inbuf = C.inbuf /\ D.used = C.used /\ SameClient(C, D) /\ SameServer(C, D)
        /\ SameReader(C, D)
    BY <1>1 DEF ConnType, SameClient, SameServer, SameReply, SameReader
  <2> HIDE DEF D
  <2>7. /\ D.state = C.state /\ D.out = C.out /\ D.req = C.req /\ D.cl = C.cl /\ D.closeAfter = C.closeAfter
        /\ D.ecrEOF = C.ecrEOF /\ D.pc = C.pc /\ D.after = C.after /\ D.budget = C.budget /\ D.open = C.open
        /\ D.body = C.body /\ D.inRead = FALSE /\ D.i = C.i /\ D.waits = C.waits /\ D.sent = C.sent
        /\ D.garbled = C.garbled /\ D.panicked = C.panicked
    BY <1>2, <2>6 DEF SameClient, SameServer, SameReply, SameReader
  <2>8. Replies(D, R)
    BY ZenonT(40), <1>4, <2>7 DEF Replies, Replying, Serving, LengthOf, Responded
  <2>9. OneReader(D)
    BY <2>7 DEF OneReader
  <2>10. ServesInOrder(D)
    BY <1>6, <2>7 DEF ServesInOrder, Replying, Serving
  <2>11. KeptOpen(D, R)
    BY <1>7, <2>7 DEF KeptOpen, HeadOf
  <2>12. SendsInOrder(D, R)
    BY <1>8, <2>6, <2>7, SendsFrame DEF Sound
  <2>13. BytesInOrder(D)
    <3>1. ByteKept(D) = <<b>>
      BY <2>4, <2>6 DEF ByteKept
    <3>2. D.inbuf \o ByteKept(D) \o D.wire = SubSeq(D.sent, D.used + 1, Len(D.sent))
      BY <2>2, <2>3, <2>6, <2>7, <3>1
    <3> QED BY <1>0, <1>3, <2>3, <2>6, <2>7, <3>2 DEF BytesInOrder
  <2>14. InStep(D, R)
    <3>1. Dead(C) => Dead(D)
      BY <1>9, <2>6 DEF Dead, SameClient
    <3> QED BY <1>8, <2>6, <2>7, <3>1 DEF Sound, InStep
  <2>15. Sound(D, R)
    BY <1>8, <2>5, <2>7, <2>8, <2>9, <2>10, <2>11, <2>12, <2>13, <2>14 DEF Sound
  <2> QED BY <2>15 DEF D, b, wire
<1> QED BY <1>8, <1>9 DEF C

\* The request that is served is one of the client's.
LEMMA ServedRequest ==
  ASSUME NEW R \in Seq(Requests), NEW C, Sound(C, R), C.req > 0
  PROVE  /\ C.req \in 1..Len(R) /\ R[C.req] \in Requests /\ C.used \in 1..Len(C.sent) /\ C.req <= C.i
         /\ C.sent[C.used].n \in Nat
<1>1. C \in ConnType /\ SendsInOrder(C, R) /\ InStep(C, R) /\ BytesInOrder(C)
  BY DEF Sound
<1>2. C.req \in Nat /\ C.i \in Nat /\ C.used \in Nat /\ C.sent \in Seq(TokenType) /\ Len(R) \in Nat
  BY <1>1, FieldTypes, LenProperties
<1>3. Len(C.sent) \in Nat
  BY <1>2, LenProperties
<1>4. C.req \in 0..C.i /\ C.i \in 0..Len(R) /\ C.used # 0 /\ C.used <= Len(C.sent)
  BY <1>1, <1>2 DEF InStep, SendsInOrder, BytesInOrder
<1>5. C.req \in 1..Len(R) /\ C.used \in 1..Len(C.sent) /\ C.req <= C.i
  BY <1>2, <1>3, <1>4
<1>6. R[C.req] \in Requests
  BY <1>5, ElementOfSeq
<1>7. C.sent[C.used] \in TokenType
  BY <1>1, <1>5, SentTokens
<1> QED BY <1>5, <1>6, <1>7 DEF TokenType

LEMMA LengthTypes ==
  ASSUME NEW q \in Requests
  PROVE  Buffered(q) \in Nat /\ Written(q) \in Nat /\ q.cl \in Nat \cup {-1}
<1>1. q.writes \in Nat /\ q.cl \in Nat \cup {-1}
  BY RequestTypes
<1>2. Written(q) \in Nat
  BY <1>1 DEF Written
<1> QED BY <1>1, <1>2 DEF Buffered

\* What writeHeader does not read of the body was read, or the connection will close.
LEMMA UnreadMeans ==
  ASSUME NEW R \in Seq(Requests), NEW C, NEW q, q = R[C.req], Sound(C, R), C.req > 0, NEW hasCL, NEW keep,
         ~CloseBefore(q, hasCL, keep, C.ecrEOF)
  PROVE  /\ Unread(C, q) \in {"nothing", "discard", "lost", "tooBig"}
         /\ Unread(C, q) = "nothing" => C.body.sawEOF
         /\ Unread(C, q) = "discard" => (C.body.closed => C.body.sawEOF)
<1>1. q \in Requests /\ C.sent[C.used].n \in Nat
  BY ServedRequest
<1>2. q.body \in Nat /\ q.chunked \in BOOLEAN
  BY <1>1, RequestTypes
<1>3. ContinueBody(q) => C.body.sawEOF
  BY DEF CloseBefore, Sound, ServesInOrder
<1>4. ContentLength(q) = 0 => C.body.sawEOF
  <2> SUFFICES ASSUME ContentLength(q) = 0, ~C.body.sawEOF PROVE FALSE
    OBVIOUS
  <2>1. Size(q) = 0
    BY <1>2 DEF ContentLength, Size
  <2>2. C.sent[C.used].n < Size(q)
    BY DEF Sound, InStep
  <2> QED BY <1>1, <2>1, <2>2
<1> QED BY <1>3, <1>4 DEF Unread

\* WriteHeader
LEMMA WriteHeaderSound ==
  ASSUME NEW R \in Seq(Requests), NEW C, NEW q, q = R[C.req], NEW keep, Sound(C, R), C.pc = "header"
  PROVE  LET cl == IF AutoLength(q, C.done, Buffered(q)) THEN Buffered(q) ELSE q.cl
             close == CloseBefore(q, cl # -1, keep, C.ecrEOF)
             unread == IF close THEN "nothing" ELSE Unread(C, q) IN
         Sound([C EXCEPT !.cl = cl, !.closeAfter = close \/ unread \in {"lost", "tooBig"},
                         !.budget = MaxPost + 1,
                         !.pc = IF unread = "discard" THEN "discard" ELSE "emit"], R)
<1> DEFINE cl == IF AutoLength(q, C.done, Buffered(q)) THEN Buffered(q) ELSE q.cl
           close == CloseBefore(q, cl # -1, keep, C.ecrEOF)
           unread == IF close THEN "nothing" ELSE Unread(C, q)
           ca == close \/ unread \in {"lost", "tooBig"}
           k == MaxPost + 1
           p == IF unread = "discard" THEN "discard" ELSE "emit"
           D == [C EXCEPT !.cl = cl, !.closeAfter = ca, !.budget = k, !.pc = p]
<1>0. /\ C \in ConnType /\ Serving(C) /\ ~Replying(C) /\ C.req > 0 /\ Replies(C, R) /\ OneReader(C)
      /\ (C.ecrEOF => C.body.sawEOF /\ ~(C.waits /\ C.req = C.i))
  BY DEF Sound, Serving, Replying, ServesInOrder
<1>1. q \in Requests
  BY <1>0, ServedRequest
<1>2. Buffered(q) \in Nat /\ q.cl \in Nat \cup {-1}
  BY <1>1, LengthTypes
<1>3. cl \in Nat \cup {-1} /\ (cl = q.cl \/ (q.cl = -1 /\ cl = Buffered(q)))
  BY <1>2 DEF AutoLength
<1> HIDE DEF cl
<1>4. ~close => /\ Unread(C, q) \in {"nothing", "discard", "lost", "tooBig"}
                /\ Unread(C, q) = "nothing" => C.body.sawEOF
                /\ Unread(C, q) = "discard" => (C.body.closed => C.body.sawEOF)
  BY <1>0, UnreadMeans
<1>5. ~close => ~CloseBefore(q, cl # -1, TRUE, C.ecrEOF)
  BY DEF CloseBefore
<1> HIDE DEF close
<1>6. p \in {"discard", "emit"} /\ ca \in BOOLEAN /\ (p = "discard" => (C.body.closed => C.body.sawEOF))
      /\ (p = "emit" => ca \/ C.body.sawEOF) /\ (~ca => ~close)
  BY <1>4
<1>7. k \in 0..(MaxPost + 1) /\ k > 0 /\ p \in Pcs
  BY <1>6, HttpServerAssumption DEF Pcs
<1> HIDE DEF ca, k, p
<1>8. D \in ConnType
  BY <1>0, <1>3, <1>6, <1>7 DEF ConnType
<1>9. /\ D.cl = cl /\ D.closeAfter = ca /\ D.budget = k /\ D.pc = p /\ SameClient(C, D) /\ SameBytes(C, D) /\ SameReader(C, D)
      /\ D.state = C.state /\ D.open = C.open /\ D.panicked = C.panicked /\ D.garbled = C.garbled
      /\ D.req = C.req /\ D.out = C.out /\ D.ecrEOF = C.ecrEOF
  BY <1>0 DEF ConnType, SameClient, SameBytes, SameReader
<1> HIDE DEF D
<1>10. ~Replying(D)
  BY <1>6, <1>9 DEF Replying
<1>11. Replies(D, R)
  <2>1. ~D.closeAfter => LengthOf(D, R[D.req]) /\ ~CloseBefore(R[D.req], D.cl # -1, TRUE, D.ecrEOF)
    BY <1>3, <1>5, <1>6, <1>9 DEF LengthOf
  <2> QED BY <1>0, <1>9, <1>10, <2>1 DEF Replies, SameClient
<1>12. OneReader(D)
  BY <1>0, <1>6, <1>9 DEF OneReader, SameBytes, SameReader
<1>13. ServesInOrder(D)
  BY <1>0, <1>6, <1>7, <1>9, <1>10 DEF ServesInOrder, SameClient, SameReader
<1>14. KeptOpen(D, R)
  BY <1>6, <1>9 DEF KeptOpen
<1>15. Adds(C, D, {})
  BY <1>9 DEF Adds
<1>16. Sound(D, R)
  BY <1>8, <1>9, <1>11, <1>12, <1>13, <1>14, <1>15, WritingStep DEF SameReader
<1> QED BY <1>16 DEF D, p, k, ca, close, cl

\* Emit
LEMMA EmitSound ==
  ASSUME NEW R \in Seq(Requests), NEW S, NEW q, q = R[S.req], Sound(S, R), S.pc = "emit"
  PROVE  LET C == [S EXCEPT !.closeAfter = @ \/ CloseToEnd(q, S.cl # -1), !.werr = ~S.open] IN
         Sound([C EXCEPT !.out = Append(@, Response(C, q, C.cl # -1)),
                         !.pc = IF ~C.done /\ q.does = "panic" THEN "closing" ELSE "flush"], R)
<1> DEFINE ca == S.closeAfter \/ CloseToEnd(q, S.cl # -1)
           werr == ~S.open
           C == [S EXCEPT !.closeAfter = ca, !.werr = werr]
           e == Response(C, q, S.cl # -1)
           out == Append(S.out, e)
           p == IF ~C.done /\ q.does = "panic" THEN "closing" ELSE "flush"
           D == [C EXCEPT !.out = out, !.pc = p]
<1>0. /\ S \in ConnType /\ Serving(S) /\ ~Replying(S) /\ S.req > 0 /\ Replies(S, R) /\ OneReader(S)
      /\ (S.ecrEOF => S.body.sawEOF /\ ~(S.waits /\ S.req = S.i)) /\ (S.closeAfter \/ S.body.sawEOF)
      /\ S.req \in Nat /\ S.out \in Seq(OutputType) /\ S.closeAfter \in BOOLEAN /\ S.open \in BOOLEAN
  BY FieldTypes DEF Sound, Serving, Replying, ServesInOrder
<1>1. ca \in BOOLEAN /\ werr \in BOOLEAN /\ (ca <=> S.closeAfter \/ CloseToEnd(q, S.cl # -1))
  BY <1>0 DEF CloseToEnd
<1> HIDE DEF ca, werr
<1>2. C \in ConnType
  BY <1>0, <1>1 DEF ConnType
<1>3. /\ C.closeAfter = ca /\ SameClient(S, C) /\ SameBytes(S, C) /\ SameReader(S, C)
      /\ C.state = S.state /\ C.open = S.open /\ C.panicked = S.panicked /\ C.garbled = S.garbled
      /\ C.req = S.req /\ C.out = S.out /\ C.ecrEOF = S.ecrEOF /\ C.cl = S.cl
  BY <1>0 DEF ConnType, SameClient, SameBytes, SameReader
<1> HIDE DEF C
<1>4. q \in Requests
  BY <1>0, ServedRequest
<1>5. SaysKeepAlive(C, q, S.cl # -1) \in BOOLEAN
  BY <1>1, <1>3 DEF SaysKeepAlive, Wants10KeepAlive
<1>6. e.k = "head" /\ e.i = S.req /\ e.keep = SaysKeepAlive(C, q, S.cl # -1)
      /\ e.how = IF ~HasBody(q) THEN "none" ELSE IF Length(q, S.cl # -1) THEN "length"
                 ELSE IF Chunking(q, S.cl # -1) THEN "chunked" ELSE "eof"
  BY <1>3 DEF Response
<1>7. e \in OutputType
  BY <1>0, <1>3, <1>5 DEF Response, OutputType
<1> HIDE DEF e
<1>8. out \in Seq(OutputType) /\ ToSet(out) = ToSet(S.out) \cup {e}
  BY <1>0, <1>7, SetOfAppend
<1>9. p \in {"closing", "flush"} /\ p \in Pcs
  BY DEF Pcs
<1> HIDE DEF out, p
<1>10. D \in ConnType
  BY <1>2, <1>8, <1>9 DEF ConnType
<1>11. /\ D.out = out /\ D.pc = p /\ SameClient(C, D) /\ SameBytes(C, D) /\ SameReader(C, D) /\ SameLength(C, D)
       /\ D.state = C.state /\ D.open = C.open /\ D.panicked = C.panicked /\ D.garbled = C.garbled /\ D.req = C.req
  BY <1>2 DEF ConnType, SameClient, SameBytes, SameReader, SameLength
<1> HIDE DEF D
<1>12. /\ SameClient(S, D) /\ SameBytes(S, D) /\ SameReader(S, D) /\ D.state = S.state /\ D.open = S.open
       /\ D.panicked = S.panicked /\ D.garbled = S.garbled /\ D.req = S.req /\ D.ecrEOF = S.ecrEOF /\ D.cl = S.cl
       /\ D.closeAfter = ca
  BY <1>3, <1>11 DEF SameClient, SameBytes, SameReader, SameLength
<1>13. Replying(D) <=> p = "flush"
  BY <1>9, <1>11 DEF Replying
<1>14. ~Responded(S, S.req)
  BY <1>0, OnceResponded
<1>15. Replies(D, R)
  <2>1. \A f \in ToSet(D.out) : f.i <= D.req
    BY <1>0, <1>6, <1>8, <1>11, <1>12 DEF Replies
  <2>2. Replying(D) \/ ~Serving(D)
    BY <1>9, <1>11 DEF Replying, Serving
  <2>3. ~S.closeAfter => LengthOf(S, q) /\ ~CloseBefore(q, S.cl # -1, TRUE, S.ecrEOF)
    BY <1>0 DEF Replies
  <2>4. S.req = S.i /\ S.waits => ~e.keep
    <3> SUFFICES ASSUME S.req = S.i, S.waits PROVE ~e.keep
      OBVIOUS
    <3>1. ContinueBody(q)
      BY DEF Sound, SendsInOrder
    <3>2. S.closeAfter
      BY <1>0, <2>3, <3>1 DEF CloseBefore
    <3>3. ca /\ q.v = 1
      BY <1>1, <3>1, <3>2 DEF ContinueBody
    <3> QED BY <1>3, <1>6, <3>3 DEF SaysKeepAlive
  <2>5. \A f \in ToSet(D.out) : f.k = "head" /\ f.i = D.i /\ D.waits => ~f.keep
    BY <1>0, <1>6, <1>8, <1>11, <1>12, <2>4 DEF Replies, SameClient
  <2>6. Responded(D, D.req)
    BY <1>6, <1>8, <1>11, <1>12 DEF Responded
  <2>7. \A f \in ToSet(D.out) : f.k = "head" /\ f.i = D.req => f = e
    BY <1>8, <1>11, <1>12, <1>14 DEF Responded
  <2>8. ASSUME ~ca
        PROVE  LengthOf(D, R[D.req]) /\ e.keep /\ e.how # "eof" /\ (e.how = "length" => HasBody(R[D.req]) /\ D.cl # -1)
    <3>1. ~S.closeAfter /\ ~CloseToEnd(q, S.cl # -1)
      BY <1>1, <2>8
    <3>2. LengthOf(D, q)
      BY <1>12, <2>3, <3>1 DEF LengthOf
    <3>3. e.how # "eof" /\ (e.how = "length" => HasBody(q) /\ D.cl # -1)
      BY <1>6, <1>12, <3>1 DEF CloseToEnd, Length
    <3>4. e.keep
      <4>1. CASE q.v = 1
        BY <1>3, <1>6, <2>8, <4>1 DEF SaysKeepAlive
      <4>2. CASE q.v # 1
        <5>1. q.v = 0
          BY <1>4, <4>2, RequestTypes
        <5>2. Wants10KeepAlive(q) /\ (q.m = "HEAD" \/ S.cl # -1 \/ ~BodyAllowed(q)) /\ ~q.hclose
          BY <2>3, <3>1, <5>1 DEF CloseBefore
        <5> QED BY <1>6, <4>2, <5>2 DEF SaysKeepAlive
      <4> QED BY <4>1, <4>2
    <3> QED BY <1>12, <3>2, <3>3, <3>4
  <2>9. D.pc \notin {"discard", "emit"}
    BY <1>9, <1>11
  <2> QED BY <1>12, <2>1, <2>2, <2>5, <2>6, <2>7, <2>8, <2>9 DEF Replies
<1>16. OneReader(D)
  BY <1>0, <1>9, <1>11, <1>12 DEF OneReader, SameBytes, SameReader
<1>17. ServesInOrder(D)
  <2>1. D.closeAfter \/ D.body.sawEOF
    BY <1>0, <1>1, <1>12 DEF SameReader
  <2> QED BY <1>0, <1>9, <1>11, <1>12, <2>1 DEF ServesInOrder, SameClient, SameReader
<1>18. KeptOpen(D, R)
  BY <1>9, <1>11 DEF KeptOpen
<1>19. Adds(S, D, {e})
  BY <1>6, <1>8, <1>11, <1>14 DEF Adds
<1>20. Sound(D, R)
  BY <1>10, <1>12, <1>16, <1>15, <1>17, <1>18, <1>19, WritingStep DEF SameReader
<1>21. C = [S EXCEPT !.closeAfter = @ \/ CloseToEnd(q, S.cl # -1), !.werr = ~S.open]
  BY <1>0 DEF C, ca, werr, ConnType
<1>22. D = [C EXCEPT !.out = Append(@, Response(C, q, C.cl # -1)),
                     !.pc = IF ~C.done /\ q.does = "panic" THEN "closing" ELSE "flush"]
  BY <1>2, <1>3 DEF D, out, e, p
<1> QED BY <1>20, <1>21, <1>22

\* ReadRequest: when the body is read, the next token is the head of the next request.
LEMMA NextIsHead ==
  ASSUME NEW R \in Seq(Requests), NEW C, Sound(C, R), C.body.sawEOF, C.used < Len(C.sent), ~Dead(C)
  PROVE  /\ C.used + 1 \in 1..Len(C.sent) /\ C.req \in Nat
         /\ C.sent[C.used + 1] = TokAt(R[C.req + 1], C.req + 1, 0) /\ C.req + 1 \in 1..C.i
<1>1. C \in ConnType /\ SendsInOrder(C, R) /\ InStep(C, R)
  BY DEF Sound
<1>2. C.req \in Nat /\ C.i \in Nat /\ C.used \in Nat /\ C.sent \in Seq(TokenType)
  BY <1>1, FieldTypes
<1>3. Len(C.sent) \in Nat
  BY <1>2, LenProperties
<1>4. C.used + 1 \in 1..Len(C.sent)
  BY <1>2, <1>3
<1>5. /\ C.used = 0 => C.sent[C.used + 1] = TokAt(R[1], 1, 0)
      /\ C.used # 0 => C.sent[C.used + 1] = Following(R, C.sent[C.used])
  <2>1. \A k \in 1..Len(C.sent) : C.sent[k] = IF k = 1 THEN TokAt(R[1], 1, 0) ELSE Following(R, C.sent[k - 1])
    BY <1>1 DEF SendsInOrder
  <2> DEFINE k == C.used + 1
  <2>2. k \in 1..Len(C.sent)
    BY <1>4
  <2> HIDE DEF k
  <2>3. C.sent[k] = IF k = 1 THEN TokAt(R[1], 1, 0) ELSE Following(R, C.sent[k - 1])
    BY <2>1, <2>2
  <2>4. (C.used = 0 => k = 1) /\ (C.used # 0 => k # 1 /\ k - 1 = C.used)
    BY <1>2 DEF k
  <2>5. /\ C.used = 0 => C.sent[k] = TokAt(R[1], 1, 0)
        /\ C.used # 0 => C.sent[k] = Following(R, C.sent[C.used])
    BY <2>3, <2>4
  <2> QED BY <2>5 DEF k
<1>6. C.sent[C.used + 1] = TokAt(R[C.req + 1], C.req + 1, 0)
  <2>1. CASE C.req = 0
    <3>1. C.used = 0
      BY <1>1, <2>1 DEF InStep
    <3> QED BY <1>5, <2>1, <3>1
  <2>2. CASE C.req # 0
    <3>1. C.req > 0
      BY <1>2, <2>2
    <3>2. R[C.req] \in Requests /\ C.sent[C.used].n \in Nat
      BY <3>1, ServedRequest
    <3>3. Size(R[C.req]) \in Nat
      BY <3>2, RequestTypes
    <3>4. C.sent[C.used].i = C.req /\ C.sent[C.used].n = Size(R[C.req]) /\ C.used # 0
      BY <1>1, <3>1 DEF InStep
    <3>6. ~(C.sent[C.used].n < Size(R[C.sent[C.used].i]))
      <4>1. \A x \in Nat : ~(x < x)
        OBVIOUS
      <4> QED BY <3>3, <3>4, <4>1
    <3> QED BY <1>5, <3>4, <3>6 DEF Following
  <2> QED BY <2>1, <2>2
<1>7. C.sent[C.used + 1].i \in 1..C.i
  BY <1>1, <1>4, SentTokens
<1> QED BY <1>2, <1>4, <1>6, <1>7 DEF TokAt, Tok

LEMMA ReadRequestSound ==
  ASSUME NEW R \in Seq(Requests), NEW C, Sound(C, R), C.pc = "read", CanRead(C)
  PROVE  LET t == NextTok(C) q == R[t.i] IN
         Sound(IF t = NoTok THEN [C EXCEPT !.pc = "closing"]
               ELSE IF t.t # "head" THEN [C EXCEPT !.pc = "closing", !.garbled = TRUE]
               ELSE [Take(C) EXCEPT
                       !.pc = "got", !.req = t.i, !.reads = 0, !.done = FALSE, !.closeAfter = FALSE,
                       !.continued = FALSE, !.ecrEOF = FALSE, !.cl = -1,
                       !.garbled = @ \/ t.i # C.req + 1,
                       !.body = [NoBody EXCEPT !.left = ContentLength(q), !.sawEOF = ContentLength(q) = 0]], R)
<1> DEFINE t == NextTok(C)
           q == R[t.i]
           T == Take(C)
<1>0. /\ C \in ConnType /\ BytesInOrder(C) /\ SendsInOrder(C, R) /\ ~C.inRead /\ C.body.sawEOF /\ ~C.garbled /\ ~C.panicked
      /\ {"closing", "got"} \subseteq Pcs /\ Replies(C, R) /\ C.req \in Nat /\ C.i \in Nat
  BY FieldTypes DEF Sound, OneReader, ServesInOrder, Pcs
<1>1. CASE t = NoTok
  <2> DEFINE D == [C EXCEPT !.pc = "closing"]
  <2>1. D \in ConnType
    BY <1>0 DEF ConnType
  <2>2. D.pc = "closing" /\ D.body = C.body /\ D.inRead = C.inRead /\ SameClient(C, D) /\ SameBytes(C, D) /\ SameReply(C, D)
    BY <1>0 DEF ConnType, SameClient, SameBytes, SameReply
  <2> HIDE DEF D
  <2>3. Sound(D, R)
    BY <2>1, <2>2, LoopEnds DEF SameReply
  <2> QED BY <1>1, <2>3 DEF D
<1>2. CASE t # NoTok
  <2>1. /\ C.used < Len(C.sent) /\ t = C.sent[C.used + 1] /\ ~Dead(C)
        /\ T \in ConnType /\ SameClient(C, T) /\ SameServer(C, T) /\ SameReader(C, T)
        /\ T.used = C.used + 1 /\ BytesInOrder(T)
    BY <1>0, <1>2, TakeReads
  <2>2. C.used + 1 \in 1..Len(C.sent) /\ t = TokAt(R[C.req + 1], C.req + 1, 0) /\ C.req + 1 \in 1..C.i
    BY <1>0, <2>1, NextIsHead
  <2>3. t.t = "head" /\ t.i = C.req + 1 /\ t.n = 0
    BY <2>2 DEF TokAt, Tok
  <2>4. t.i \in Nat /\ C.i \in 0..Len(R) /\ Len(R) \in Nat /\ t.i \in 1..C.i /\ t.i > C.req
    BY <1>0, <2>2, <2>3, LenProperties DEF SendsInOrder
  <2>5. t.i \in 1..Len(R)
    BY <1>0, <2>4
  <2> HIDE DEF t, T
  <2>6. q \in Requests
    BY <2>5, ElementOfSeq
  <2>7. q.body \in Nat /\ q.chunked \in BOOLEAN
    BY <2>6, RequestTypes
  <2> HIDE DEF q
  <2>8. ContentLength(q) \in Nat \cup {-1}
    BY <2>7 DEF ContentLength
  <2> DEFINE body == [NoBody EXCEPT !.left = ContentLength(q), !.sawEOF = ContentLength(q) = 0]
             eof == ContentLength(q) = 0
  <2>9. eof \in BOOLEAN
    OBVIOUS
  <2>10. body \in BodyType /\ body.left = ContentLength(q) /\ body.sawEOF = eof
    BY <2>8, <2>9 DEF NoBody, BodyType
  <2> DEFINE g == T.garbled \/ t.i # C.req + 1
  <2>11. g = FALSE
    BY <1>0, <2>1, <2>3 DEF SameServer, SameReply
  <2> HIDE DEF body
  <2> DEFINE D == [T EXCEPT !.pc = "got", !.req = t.i, !.reads = 0, !.done = FALSE, !.closeAfter = FALSE,
                            !.continued = FALSE, !.ecrEOF = FALSE, !.cl = -1, !.garbled = FALSE, !.body = body]
  <2>12. D = [T EXCEPT !.pc = "got", !.req = t.i, !.reads = 0, !.done = FALSE, !.closeAfter = FALSE,
                       !.continued = FALSE, !.ecrEOF = FALSE, !.cl = -1, !.garbled = @ \/ t.i # C.req + 1,
                       !.body = body]
    BY <2>1, <2>11 DEF ConnType
  <2>13. D \in ConnType
    <3> DEFINE T1 == [T EXCEPT !.pc = "got", !.req = t.i, !.reads = 0, !.done = FALSE, !.closeAfter = FALSE]
    <3>1. 0 \in Nat /\ -1 \in Nat \cup {-1} /\ "got" \in Pcs
      BY <1>0
    <3>2. T1 \in ConnType
      BY ZenonT(40), <2>1, <2>4, <3>1 DEF ConnType
    <3>3. D = [T1 EXCEPT !.continued = FALSE, !.ecrEOF = FALSE, !.cl = -1, !.garbled = FALSE, !.body = body]
      BY <2>1 DEF ConnType
    <3> HIDE DEF T1, D
    <3> QED BY ZenonT(40), <2>10, <3>1, <3>2, <3>3 DEF ConnType
  <2>14. /\ D.pc = "got" /\ D.req = t.i /\ D.ecrEOF = FALSE /\ D.garbled = FALSE /\ D.body = body
         /\ D.state = T.state /\ D.open = T.open /\ D.panicked = T.panicked /\ D.out = T.out /\ D.inRead = T.inRead
         /\ SameClient(T, D) /\ SameBytes(T, D)
    BY <2>1 DEF ConnType, SameClient, SameBytes
  <2> HIDE DEF D
  <2>15. /\ D.state = C.state /\ D.open = C.open /\ D.panicked = C.panicked /\ D.out = C.out /\ D.inRead = C.inRead
         /\ SameClient(C, D) /\ D.used = C.used + 1
    BY <2>1, <2>14 DEF SameClient, SameBytes, SameServer, SameReply, SameReader
  <2>16. BytesInOrder(D)
    BY <2>1, <2>14, BytesFrame DEF SameClient
  <2>17. SendsInOrder(D, R)
    BY <1>0, <2>15, SendsFrame
  <2>18. InStep(D, R)
    <3>1. D.sent[D.used] = t /\ D.req \in 0..D.i /\ D.req > 0 /\ D.used # 0 /\ D.req # 0
      <4>1. C.used \in Nat
        BY <1>0, FieldTypes
      <4> QED BY <1>0, <2>1, <2>4, <2>14, <2>15, <4>1 DEF SameClient
    <3>0. (D.body.sawEOF <=> ContentLength(q) = 0) /\ D.body.left = ContentLength(q)
      BY <2>10, <2>14
    <3>2. D.body.sawEOF => t.n = Size(q)
      BY <2>3, <2>7, <3>0 DEF ContentLength, Size
    <3>3. ~D.body.sawEOF => t.n < Size(q) /\ D.body.left = IF q.chunked THEN -1 ELSE Size(q) - t.n
      BY <2>3, <2>7, <3>0 DEF ContentLength, Size
    <3>4. R[D.req] = q /\ t.i = D.req
      BY <2>14 DEF q
    <3> QED BY <3>1, <3>2, <3>3, <3>4 DEF InStep
  <2>19. OneReader(D)
    BY <1>0, <2>15 DEF OneReader
  <2>20. ServesInOrder(D)
    BY <1>0, <2>4, <2>14 DEF ServesInOrder, Replying
  <2>21. Replies(D, R)
    <3>1. \A e \in ToSet(D.out) : e.i <= C.req
      BY <1>0, <2>15 DEF Replies
    <3>2. \A e \in ToSet(D.out) : e.i \in Nat
      <4>1. D.out \in Seq(OutputType)
        BY <2>13, FieldTypes
      <4>2. \A e \in ToSet(D.out) : e \in OutputType
        BY <4>1, ElementOfSeq, LenProperties DEF ToSet
      <4> QED BY <4>2 DEF OutputType
    <3>3. \A e \in ToSet(D.out) : e.i <= D.req /\ e.i # D.req
      BY <1>0, <2>4, <2>14, <3>1, <3>2
    <3>4. ~Replying(D) /\ D.pc \notin {"discard", "emit"}
      BY <2>14 DEF Replying
    <3> QED BY <1>0, <2>15, <3>3, <3>4 DEF Replies, SameClient
  <2>22. KeptOpen(D, R)
    BY <2>14 DEF KeptOpen
  <2>23. Sound(D, R)
    BY <1>0, <2>13, <2>14, <2>15, <2>16, <2>17, <2>18, <2>19, <2>20, <2>21, <2>22 DEF Sound
  <2> QED BY <1>2, <2>3, <2>12, <2>23 DEF body, T, t, q
<1> QED BY <1>1, <1>2

-----------------------------------------------------------------------------
(* The client, action by action *)

\* ClientGoesOn and ClientSkips: a response that comes while the client waits announces
\* that the connection closes.
LEMMA ClientGoesOnSound ==
  ASSUME NEW R \in Seq(Requests), NEW C, Sound(C, R), C.waits
  PROVE  /\ Sound([C EXCEPT !.waits = FALSE], R)
         /\ Responded(C, C.i) => Sound([C EXCEPT !.waits = FALSE, !.left = 0], R)
<1>0. C \in ConnType /\ SendsInOrder(C, R) /\ Replies(C, R) /\ InStep(C, R) /\ C.left \in Nat /\ C.i \in Nat
  BY FieldTypes DEF Sound
<1>1. C.i > 0 /\ ContinueBody(R[C.i]) /\ C.left = Size(R[C.i])
  BY <1>0 DEF SendsInOrder
<1>2. ASSUME NEW k \in {C.left, 0}, k = 0 => k = C.left \/ Responded(C, C.i)
      PROVE  Sound([C EXCEPT !.waits = FALSE, !.left = k], R)
  <2> DEFINE D == [C EXCEPT !.waits = FALSE, !.left = k]
  <2>0. k \in Nat /\ k <= Size(R[C.i])
    BY <1>0, <1>1
  <2>1. D \in ConnType
    BY <1>0, <2>0 DEF ConnType
  <2>2. /\ D.waits = FALSE /\ D.left = k /\ D.sent = C.sent /\ D.i = C.i /\ D.here = C.here
        /\ SameBytes(C, D) /\ SameServer(C, D) /\ SameReader(C, D)
    BY <1>0 DEF ConnType, SameBytes, SameServer, SameReply, SameReader
  <2> HIDE DEF D
  <2>3. /\ D.state = C.state /\ D.out = C.out /\ D.req = C.req /\ D.cl = C.cl /\ D.closeAfter = C.closeAfter
        /\ D.ecrEOF = C.ecrEOF /\ D.pc = C.pc /\ D.after = C.after /\ D.budget = C.budget /\ D.inRead = C.inRead
        /\ D.body = C.body /\ D.byte = C.byte /\ D.open = C.open /\ D.garbled = C.garbled /\ D.panicked = C.panicked
    BY <2>2 DEF SameBytes, SameServer, SameReply, SameReader
  <2>4. Replies(D, R)
    BY ZenonT(40), <1>0, <2>2, <2>3 DEF Replies, Replying, Serving, LengthOf, Responded
  <2>5. OneReader(D)
    BY <2>3 DEF OneReader, Sound
  <2>6. ServesInOrder(D)
    BY <2>2, <2>3 DEF ServesInOrder, Replying, Serving, Sound
  <2>7. KeptOpen(D, R)
    BY <2>3 DEF KeptOpen, HeadOf, Sound
  <2>8. BytesInOrder(D)
    BY <2>2, <2>3, BytesFrame DEF Sound
  <2>9. InStep(D, R)
    <3>1. Dead(C) => Dead(D)
      BY <2>2, <2>3 DEF Dead, SameBytes
    <3> QED BY <1>0, <2>2, <2>3, <3>1 DEF InStep, SameBytes
  <2>10. SendsInOrder(D, R)
    <3>1. C.left = k \/ Skipped(D, R)
      BY <1>0, <1>1, <1>2, <2>2, <2>3 DEF Skipped, Responded, Replies
    <3>2. ~Skipped(C, R) \/ Skipped(D, R)
      BY <1>2, <2>2, <2>3, <3>1 DEF Skipped, Responded
    <3> QED BY <1>0, <1>1, <2>0, <2>2, <3>1, <3>2 DEF SendsInOrder
  <2>11. Sound(D, R)
    BY <2>1, <2>3, <2>4, <2>5, <2>6, <2>7, <2>8, <2>9, <2>10 DEF Sound
  <2> QED BY <2>11 DEF D
<1>3. Sound([C EXCEPT !.waits = FALSE], R)
  <2>1. [C EXCEPT !.waits = FALSE, !.left = C.left] = [C EXCEPT !.waits = FALSE]
    BY <1>0 DEF ConnType
  <2>2. Sound([C EXCEPT !.waits = FALSE, !.left = C.left], R)
    BY <1>2
  <2> QED BY <2>1, <2>2
<1> QED BY <1>2, <1>3

\* ClientCloses
LEMMA ClientClosesSound ==
  ASSUME NEW R, NEW C, Sound(C, R)
  PROVE  Sound([C EXCEPT !.here = FALSE], R)
<1> DEFINE D == [C EXCEPT !.here = FALSE]
<1>0. C \in ConnType
  BY DEF Sound
<1>1. D \in ConnType
  BY <1>0 DEF ConnType
<1>2. /\ D.here = FALSE /\ D.waits = C.waits /\ D.left = C.left /\ D.sent = C.sent /\ D.i = C.i
      /\ SameBytes(C, D) /\ SameServer(C, D) /\ SameReader(C, D)
  BY <1>0 DEF ConnType, SameBytes, SameServer, SameReply, SameReader
<1> HIDE DEF D
<1>3. /\ D.state = C.state /\ D.out = C.out /\ D.req = C.req /\ D.cl = C.cl /\ D.closeAfter = C.closeAfter
      /\ D.ecrEOF = C.ecrEOF /\ D.pc = C.pc /\ D.after = C.after /\ D.budget = C.budget /\ D.inRead = C.inRead
      /\ D.body = C.body /\ D.byte = C.byte /\ D.open = C.open /\ D.garbled = C.garbled /\ D.panicked = C.panicked
  BY <1>2 DEF SameBytes, SameServer, SameReply, SameReader
<1>4. Replies(D, R)
  BY <1>2, <1>3 DEF Replies, Replying, Serving, LengthOf, Responded, Sound
<1>5. OneReader(D)
  BY <1>3 DEF OneReader, Sound
<1>6. ServesInOrder(D)
  BY <1>2, <1>3 DEF ServesInOrder, Replying, Serving, Sound
<1>7. KeptOpen(D, R)
  BY <1>3 DEF KeptOpen, HeadOf, Sound
<1>8. BytesInOrder(D)
  BY <1>2, <1>3, BytesFrame DEF Sound
<1>9. InStep(D, R)
  <2>1. Dead(C) => Dead(D)
    BY <1>2, <1>3 DEF Dead, SameBytes
  <2> QED BY <1>2, <1>3, <2>1 DEF InStep, SameBytes, Sound
<1>10. SendsInOrder(D, R)
  BY <1>2, <1>3 DEF SendsInOrder, Skipped, Responded, Sound
<1>11. Sound(D, R)
  BY <1>1, <1>3, <1>4, <1>5, <1>6, <1>7, <1>8, <1>9, <1>10 DEF Sound
<1> QED BY <1>11 DEF D

\* The client sends a token: it is the last of what was sent, and the last to be read.
Sends(C, D, t) ==
  /\ D.sent = Append(C.sent, t) /\ D.wire = Append(C.wire, t) /\ D.here = C.here
  /\ D.inbuf = C.inbuf /\ D.byte = C.byte /\ D.used = C.used /\ SameServer(C, D) /\ SameReader(C, D)

LEMMA SendsMore ==
  ASSUME NEW C \in ConnType, NEW D, NEW t \in TokenType, Sends(C, D, t), BytesInOrder(C)
  PROVE  /\ BytesInOrder(D) /\ Len(C.sent) \in Nat /\ Len(D.sent) = Len(C.sent) + 1
         /\ D.sent[Len(C.sent) + 1] = t /\ \A k \in 1..Len(C.sent) : D.sent[k] = C.sent[k]
<1>1. C.sent \in Seq(TokenType) /\ C.wire \in Seq(TokenType) /\ C.inbuf \in Seq(TokenType) /\ C.byte \in TokenType
      /\ C.used \in Nat
  BY FieldTypes
<1>2. /\ Len(C.sent) \in Nat /\ Len(Append(C.sent, t)) = Len(C.sent) + 1 /\ Append(C.sent, t)[Len(C.sent) + 1] = t
      /\ \A k \in 1..Len(C.sent) : Append(C.sent, t)[k] = C.sent[k]
  BY <1>1, AppendProperties, LenProperties
<1>3. /\ Len(D.sent) = Len(C.sent) + 1 /\ D.sent[Len(C.sent) + 1] = t
      /\ \A k \in 1..Len(C.sent) : D.sent[k] = C.sent[k]
  BY <1>2 DEF Sends
<1>4. ByteKept(C) \in Seq(TokenType) /\ ByteKept(D) = ByteKept(C)
  BY <1>1 DEF ByteKept, Sends
<1> DEFINE front == C.inbuf \o ByteKept(C)
<1>5. front \in Seq(TokenType)
  BY <1>1, <1>4, ConcatProperties
<1> HIDE DEF front
<1>6. front \o Append(C.wire, t) = Append(front \o C.wire, t)
  BY <1>1, <1>5, AppendToConcat
<1>7. C.used <= Len(C.sent) /\ front \o C.wire = SubSeq(C.sent, C.used + 1, Len(C.sent))
      /\ (C.state = "hijacked" => C.byte = NoTok)
  BY DEF BytesInOrder, front
<1>8. SubSeq(Append(C.sent, t), C.used + 1, Len(Append(C.sent, t))) = Append(SubSeq(C.sent, C.used + 1, Len(C.sent)), t)
  BY <1>1, <1>7, RestGrows
<1>9. D.inbuf \o ByteKept(D) \o D.wire = SubSeq(D.sent, D.used + 1, Len(D.sent))
  <2>1. D.inbuf \o ByteKept(D) \o D.wire = front \o Append(C.wire, t)
    BY <1>4 DEF Sends, front
  <2>2. SubSeq(D.sent, D.used + 1, Len(D.sent)) = SubSeq(Append(C.sent, t), C.used + 1, Len(Append(C.sent, t)))
    BY DEF Sends
  <2> QED BY <1>6, <1>7, <1>8, <2>1, <2>2
<1>10. D.used <= Len(D.sent)
  BY <1>1, <1>2, <1>3, <1>7 DEF Sends
<1>11. D.state = "hijacked" => D.byte = NoTok
  BY <1>7 DEF Sends, SameServer, SameReply
<1> QED BY <1>2, <1>3, <1>9, <1>10, <1>11 DEF BytesInOrder

LEMMA SendingStep ==
  ASSUME NEW R \in Seq(Requests), NEW C, NEW D \in ConnType, NEW t \in TokenType, Sound(C, R), Sends(C, D, t),
         SendsInOrder(D, R), D.i >= C.i, C.here, C.open, D.waits => C.req < D.i
  PROVE  Sound(D, R)
<1>0. C \in ConnType /\ BytesInOrder(C) /\ InStep(C, R) /\ Replies(C, R) /\ C.i \in Nat /\ C.req \in Nat
      /\ C.out \in Seq(OutputType) /\ D.i \in Nat
  BY FieldTypes DEF Sound
<1>1. /\ BytesInOrder(D) /\ Len(C.sent) \in Nat /\ Len(D.sent) = Len(C.sent) + 1
      /\ \A k \in 1..Len(C.sent) : D.sent[k] = C.sent[k]
  BY <1>0, SendsMore
<1>2. /\ D.state = C.state /\ D.out = C.out /\ D.req = C.req /\ D.cl = C.cl /\ D.closeAfter = C.closeAfter
      /\ D.ecrEOF = C.ecrEOF /\ D.pc = C.pc /\ D.after = C.after /\ D.budget = C.budget /\ D.inRead = C.inRead
      /\ D.body = C.body /\ D.byte = C.byte /\ D.open = C.open /\ D.garbled = C.garbled /\ D.panicked = C.panicked
      /\ D.used = C.used
  BY DEF Sends, SameServer, SameReply, SameReader
<1>3. InStep(D, R)
  <2>1. D.req \in 0..D.i /\ (D.used = 0 <=> D.req = 0)
    BY <1>0, <1>2 DEF InStep
  <2>2. ASSUME C.req > 0 PROVE D.sent[D.used] = C.sent[C.used] /\ ~Dead(C)
    <3>1. C.used \in 1..Len(C.sent)
      BY <2>2, ServedRequest
    <3> QED BY <1>0, <1>1, <1>2, <3>1 DEF Dead, AtEOF, InStep
  <2> QED BY <1>0, <1>2, <2>1, <2>2 DEF InStep
<1>4. \A e \in ToSet(C.out) : e.i \in Nat
  <2>1. \A e \in ToSet(C.out) : e \in OutputType
    BY <1>0, ElementOfSeq, LenProperties DEF ToSet
  <2> QED BY <2>1 DEF OutputType
<1>5. Replies(D, R)
  <2>1. \A e \in ToSet(C.out) : D.waits => e.i # D.i
    BY <1>0, <1>4 DEF Replies
  <2> QED BY ZenonT(40), <1>0, <1>2, <2>1 DEF Replies, Replying, Serving, LengthOf, Responded
<1>6. OneReader(D)
  BY <1>2 DEF OneReader, Sound
<1>7. ServesInOrder(D)
  <2>1. ~(D.waits /\ D.req = D.i)
    BY <1>0, <1>2
  <2> QED BY <1>2, <2>1 DEF ServesInOrder, Replying, Serving, Sound
<1>8. KeptOpen(D, R)
  BY <1>2 DEF KeptOpen, HeadOf, Sound
<1> QED BY <1>1, <1>2, <1>3, <1>5, <1>6, <1>7, <1>8 DEF Sound

\* A token that follows the last one keeps what was sent in order.
LEMMA InOrderMore ==
  ASSUME NEW R \in Seq(Requests), NEW C \in ConnType, NEW D \in ConnType, NEW t \in TokenType,
         Sends(C, D, t), BytesInOrder(C), SendsInOrder(C, R),
         D.i >= C.i, t.i = D.i, t.i \in 1..Len(R), t.n \in 0..Size(R[t.i]), t = TokAt(R[t.i], t.i, t.n),
         Len(C.sent) = 0 => t = TokAt(R[1], 1, 0),
         Len(C.sent) # 0 => t = Following(R, C.sent[Len(C.sent)]) /\ Precedes(C.sent[Len(C.sent)], t),
         D.left <= Size(R[D.i]), t.n = Size(R[D.i]) - D.left,
         D.waits => D.left = Size(R[D.i]) /\ ContinueBody(R[D.i]) /\ t.n = 0
  PROVE  SendsInOrder(D, R)
<1> DEFINE n == Len(C.sent)
           last == C.sent[Len(C.sent)]
<1>1. n \in Nat /\ Len(D.sent) = n + 1 /\ D.sent[n + 1] = t /\ \A k \in 1..n : D.sent[k] = C.sent[k]
  BY SendsMore
<1>2. C.i \in Nat /\ D.i \in Nat /\ C.sent \in Seq(TokenType) /\ t.i \in Nat /\ t.n \in Nat /\ Len(R) \in Nat
      /\ D.sent \in Seq(TokenType)
  BY FieldTypes, LenProperties DEF TokenType
<1>3. \A k \in 1..n : C.sent[k] \in TokenType /\ C.sent[k].i \in 1..C.i /\ C.sent[k].n \in 0..Size(R[C.sent[k].i])
                      /\ C.sent[k] = TokAt(R[C.sent[k].i], C.sent[k].i, C.sent[k].n)
  BY SentTokens
<1>4. \A k \in 1..n : C.sent[k] = IF k = 1 THEN TokAt(R[1], 1, 0) ELSE Following(R, C.sent[k - 1])
  BY DEF SendsInOrder
<1>5. \A k, l \in 1..n : k < l => Precedes(C.sent[k], C.sent[l])
  BY DEF SendsInOrder
<1> HIDE DEF n
<1>6. \A k \in 1..(n + 1) : k \in 1..n \/ k = n + 1
  BY <1>1
<1>7. \A k \in 1..(n + 1) : LET u == D.sent[k] IN
        u.i \in 1..D.i /\ u.n \in 0..Size(R[u.i]) /\ u = TokAt(R[u.i], u.i, u.n)
  <2> SUFFICES ASSUME NEW k \in 1..(n + 1)
               PROVE  LET u == D.sent[k] IN u.i \in 1..D.i /\ u.n \in 0..Size(R[u.i]) /\ u = TokAt(R[u.i], u.i, u.n)
    OBVIOUS
  <2>1. CASE k \in 1..n
    <3>1. D.sent[k] = C.sent[k] /\ C.sent[k].i \in 1..C.i
      BY <1>1, <1>3, <2>1
    <3>2. C.sent[k].i \in 1..D.i
      BY <1>2, <3>1
    <3> QED BY <1>3, <2>1, <3>1, <3>2
  <2>2. CASE k = n + 1
    <3>1. D.sent[k] = t /\ t.i \in 1..D.i
      BY <1>1, <1>2, <2>2
    <3> QED BY <3>1
  <2> QED BY <1>6, <2>1, <2>2
<1>8. \A k \in 1..(n + 1) : D.sent[k] = IF k = 1 THEN TokAt(R[1], 1, 0) ELSE Following(R, D.sent[k - 1])
  <2> SUFFICES ASSUME NEW k \in 1..(n + 1)
               PROVE  D.sent[k] = IF k = 1 THEN TokAt(R[1], 1, 0) ELSE Following(R, D.sent[k - 1])
    OBVIOUS
  <2>1. CASE k \in 1..n
    <3>1. D.sent[k] = C.sent[k] /\ (k # 1 => D.sent[k - 1] = C.sent[k - 1])
      BY <1>1, <2>1
    <3> QED BY <1>4, <2>1, <3>1
  <2>2. CASE k = n + 1
    <3>1. D.sent[k] = t /\ (k = 1 <=> n = 0) /\ (n # 0 => k - 1 = n /\ D.sent[k - 1] = C.sent[n])
      BY <1>1, <2>2
    <3>2. CASE n = 0
      BY <3>1, <3>2 DEF n
    <3>3. CASE n # 0
      <4>1. t = Following(R, C.sent[n])
        BY <3>3 DEF n
      <4> QED BY <3>1, <3>3, <4>1
    <3> QED BY <3>2, <3>3
  <2> QED BY <1>6, <2>1, <2>2
<1>9. \A k, l \in 1..(n + 1) : k < l => Precedes(D.sent[k], D.sent[l])
  <2> SUFFICES ASSUME NEW k \in 1..(n + 1), NEW l \in 1..(n + 1), k < l
               PROVE  Precedes(D.sent[k], D.sent[l])
    OBVIOUS
  <2>1. k \in 1..n /\ D.sent[k] = C.sent[k]
    BY <1>1
  <2>2. CASE l \in 1..n
    BY <1>1, <1>5, <2>1, <2>2
  <2>3. CASE l = n + 1
    <3>1. D.sent[l] = t /\ n # 0 /\ n \in 1..n
      BY <1>1, <2>1, <2>3
    <3>2. Precedes(C.sent[n], t)
      BY <3>1 DEF n
    <3>3. CASE k = n
      BY <2>1, <3>1, <3>2, <3>3
    <3>4. CASE k # n
      <4>1. Precedes(C.sent[k], C.sent[n])
        BY <1>1, <1>5, <2>1, <3>1, <3>4
      <4>2. C.sent[k] \in TokenType /\ C.sent[n] \in TokenType
        BY <1>3, <2>1, <3>1
      <4>3. Precedes(C.sent[k], t)
        BY SMTT(40), <3>2, <4>1, <4>2 DEF Precedes, TokenType
      <4> QED BY <2>1, <3>1, <4>3
    <3> QED BY <3>3, <3>4
  <2> QED BY <1>6, <2>2, <2>3
<1>10. D.i \in 0..Len(R) /\ D.i > 0 /\ D.i # 0
  BY <1>2
<1>11. D.sent # <<>> /\ D.sent[Len(D.sent)] = t
  <2>1. Len(D.sent) # 0
    BY <1>1
  <2> QED BY <1>1, <1>2, <2>1, EmptySeq
<1>12. D.i > 0 => LET u == D.sent[Len(D.sent)] IN
         D.sent # <<>> /\ u.i = D.i /\ D.left <= Size(R[D.i]) /\ (u.n = Size(R[D.i]) - D.left \/ Skipped(D, R))
  BY <1>11
<1>13. D.waits => D.left = Size(R[D.i]) /\ ContinueBody(R[D.i]) /\ D.sent[Len(D.sent)].n = 0
  BY <1>11
<1>14. Len(D.sent) = n + 1
  BY <1>1
<1> QED BY <1>7, <1>8, <1>9, <1>10, <1>12, <1>13, <1>14 DEF SendsInOrder

LEMMA ClientType ==
  ASSUME NEW C \in ConnType, NEW wire \in Seq(TokenType), NEW sent \in Seq(TokenType), NEW i \in Nat, NEW left \in Nat,
         NEW waits \in BOOLEAN
  PROVE  [C EXCEPT !.wire = wire, !.sent = sent, !.i = i, !.left = left, !.waits = waits] \in ConnType
BY DEF ConnType

\* ClientHead
LEMMA ClientHeadSound ==
  ASSUME NEW R \in Seq(Requests), NEW C, NEW pipeline, Sound(C, R),
         C.here, C.left = 0, ~C.waits, C.i + 1 <= Len(R), ~SeesClose(C),
         C.i > 0 => (pipeline /\ ~ContinueBody(R[C.i])) \/ Ended(C, C.i)
  PROVE  LET i == C.i + 1 q == R[i] IN
         Sound([SendTo(C, TokAt(q, i, 0)) EXCEPT !.i = i, !.left = Size(q), !.waits = ContinueBody(q)], R)
<1> DEFINE i == C.i + 1
           q == R[i]
           t == TokAt(q, i, 0)
           sent == Append(C.sent, t)
           wire == Append(C.wire, t)
           left == Size(q)
           waits == ContinueBody(q)
           D == [C EXCEPT !.wire = wire, !.sent = sent, !.i = i, !.left = left, !.waits = waits]
<1>0. /\ C \in ConnType /\ SendsInOrder(C, R) /\ BytesInOrder(C) /\ C.i \in Nat /\ C.sent \in Seq(TokenType)
      /\ C.wire \in Seq(TokenType) /\ Len(R) \in Nat /\ C.req \in 0..C.i /\ C.open
  BY FieldTypes, LenProperties DEF Sound, InStep, SeesClose
<1>1. i \in 1..Len(R) /\ i \in Nat /\ i >= C.i /\ C.req < i
  BY <1>0
<1>2. q \in Requests
  BY <1>1, ElementOfSeq
<1>3. Size(q) \in Nat /\ 0 \in 0..Size(q)
  BY <1>2, RequestTypes
<1>4. t \in TokenType /\ t.i = i /\ t.n = 0 /\ t = TokAt(q, i, 0)
  BY <1>1 DEF TokAt, Tok, TokenType
<1> HIDE DEF i, q, t
<1>5. sent \in Seq(TokenType) /\ wire \in Seq(TokenType) /\ waits \in BOOLEAN
  BY <1>0, <1>4, AppendProperties DEF ContinueBody
<1>6. left \in Nat
  BY <1>3
<1> HIDE DEF sent, wire, left, waits
<1>7. D \in ConnType
  BY <1>0, <1>1, <1>5, <1>6, ClientType
<1>8. /\ D.wire = wire /\ D.sent = sent /\ D.i = i /\ D.left = left /\ D.waits = waits /\ D.here = C.here
      /\ D.inbuf = C.inbuf /\ D.byte = C.byte /\ D.used = C.used /\ SameServer(C, D) /\ SameReader(C, D)
  BY ZenonT(40), <1>0 DEF ConnType, SameServer, SameReply, SameReader
<1>9. D = [SendTo(C, t) EXCEPT !.i = i, !.left = Size(q), !.waits = ContinueBody(q)]
  BY <1>0 DEF SendTo, ConnType, sent, wire, left, waits
<1> HIDE DEF D
<1>10. Sends(C, D, t)
  BY <1>8 DEF Sends, sent, wire
<1>11. Len(C.sent) = 0 => t = TokAt(R[1], 1, 0)
  <2> SUFFICES ASSUME Len(C.sent) = 0 PROVE t = TokAt(R[1], 1, 0)
    OBVIOUS
  <2>1. C.sent = <<>>
    BY <1>0, EmptySeq
  <2>2. C.i = 0
    BY <1>0, <2>1 DEF SendsInOrder
  <2>3. i = 1
    BY <2>2 DEF i
  <2> QED BY <2>3 DEF t, q
<1>12. Len(C.sent) # 0 => t = Following(R, C.sent[Len(C.sent)]) /\ Precedes(C.sent[Len(C.sent)], t)
  <2> SUFFICES ASSUME Len(C.sent) # 0
               PROVE  t = Following(R, C.sent[Len(C.sent)]) /\ Precedes(C.sent[Len(C.sent)], t)
    OBVIOUS
  <2> DEFINE u == C.sent[Len(C.sent)]
  <2>1. C.i # 0 /\ C.i > 0
    <3>1. C.sent # <<>>
      BY EmptySeq
    <3> QED BY <1>0, <3>1 DEF SendsInOrder
  <2>2. u.i = C.i /\ (u.n = Size(R[C.i]) - C.left \/ Skipped(C, R))
    BY <1>0, <2>1 DEF SendsInOrder
  <2>3. ~Skipped(C, R)
    <3> SUFFICES ASSUME Skipped(C, R) PROVE FALSE
      OBVIOUS
    <3>1. Ended(C, C.i) /\ Responded(C, C.i)
      BY <2>1 DEF Skipped
    <3>2. HeadOf(C, C.i) \in ToSet(C.out) /\ HeadOf(C, C.i).k = "head" /\ HeadOf(C, C.i).i = C.i
      BY <3>1 DEF Responded, HeadOf
    <3>3. ~HeadOf(C, C.i).keep
      BY <3>2 DEF Skipped
    <3>4. C.i \in 1..C.i
      BY <1>0, <2>1
    <3> QED BY <3>1, <3>3, <3>4 DEF SeesClose
  <2>4. C.i \in 1..Len(R)
    BY <1>0, <2>1 DEF SendsInOrder
  <2>5. R[C.i] \in Requests
    BY <2>4, ElementOfSeq
  <2>6. Size(R[C.i]) \in Nat
    BY <2>5, RequestTypes
  <2>7. u.n = Size(R[C.i])
    BY <2>2, <2>3, <2>6
  <2>8. ~(u.n < Size(R[u.i]))
    <3>1. \A x \in Nat : ~(x < x)
      OBVIOUS
    <3> QED BY <2>2, <2>6, <2>7, <3>1
  <2>9. Following(R, u) = TokAt(R[C.i + 1], C.i + 1, 0)
    BY <2>2, <2>8 DEF Following
  <2>10. t = TokAt(R[C.i + 1], C.i + 1, 0)
    BY DEF t, q, i
  <2>11. u.i < t.i
    BY <1>0, <1>4, <2>2 DEF i
  <2> QED BY <2>9, <2>10, <2>11 DEF Precedes
<1>13. SendsInOrder(D, R)
  <2>1. R[D.i] = q /\ D.left = Size(q) /\ D.left <= Size(R[D.i]) /\ t.n = Size(R[D.i]) - D.left
    BY <1>3, <1>4, <1>8 DEF q, left
  <2>2. D.waits => D.left = Size(R[D.i]) /\ ContinueBody(R[D.i]) /\ t.n = 0
    BY <1>4, <1>8, <2>1 DEF waits
  <2>3. t.i = D.i /\ t.i \in 1..Len(R) /\ R[t.i] = q /\ D.i >= C.i
    BY <1>1, <1>4, <1>8 DEF q
  <2>4. t.n \in 0..Size(R[t.i]) /\ t = TokAt(R[t.i], t.i, t.n)
    BY <1>3, <1>4, <2>3
  <2> QED BY <1>0, <1>4, <1>7, <1>10, <1>11, <1>12, <2>1, <2>2, <2>3, <2>4, InOrderMore
<1>14. Sound(D, R)
  BY <1>0, <1>1, <1>4, <1>7, <1>8, <1>10, <1>13, SendingStep
<1> QED BY <1>9, <1>14 DEF t, q, i

\* ClientBody
LEMMA ClientBodySound ==
  ASSUME NEW R \in Seq(Requests), NEW C, Sound(C, R), C.here, C.left # 0, ~C.waits, C.open
  PROVE  LET q == R[C.i] IN
         Sound([SendTo(C, TokAt(q, C.i, Size(q) - C.left + 1)) EXCEPT !.left = @ - 1], R)
<1> DEFINE q == R[C.i]
           n == Size(q) - C.left + 1
           t == TokAt(q, C.i, n)
           sent == Append(C.sent, t)
           wire == Append(C.wire, t)
           left == C.left - 1
           u == C.sent[Len(C.sent)]
           D == [C EXCEPT !.wire = wire, !.sent = sent, !.left = left]
<1>0. /\ C \in ConnType /\ SendsInOrder(C, R) /\ BytesInOrder(C) /\ C.i \in Nat /\ C.sent \in Seq(TokenType)
      /\ C.wire \in Seq(TokenType) /\ Len(R) \in Nat /\ C.left \in Nat
  BY FieldTypes, LenProperties DEF Sound
<1>1. C.i # 0 /\ C.i > 0 /\ C.i \in 1..Len(R) /\ C.i >= C.i
  BY <1>0 DEF SendsInOrder
<1>2. q \in Requests
  BY <1>1, ElementOfSeq
<1>3. Size(q) \in Nat
  BY <1>2, RequestTypes
<1>4. u.i = C.i /\ C.left <= Size(q) /\ u.n = Size(q) - C.left
  BY <1>0, <1>1 DEF SendsInOrder, Skipped
<1>5. n \in Nat /\ n # 0 /\ n \in 0..Size(q) /\ left \in Nat /\ left <= Size(q) /\ n = Size(q) - left
      /\ u.n < Size(q) /\ n = u.n + 1 /\ u.n < n
  BY <1>0, <1>3, <1>4
<1> HIDE DEF n
<1>6. t \in TokenType /\ t.i = C.i /\ t.n = n /\ t = TokAt(q, C.i, n)
  BY <1>0, <1>5 DEF TokAt, Tok, TokenType
<1> HIDE DEF q, t
<1>7. sent \in Seq(TokenType) /\ wire \in Seq(TokenType)
  BY <1>0, <1>6, AppendProperties
<1>9. C.left - 1 = left
  OBVIOUS
<1> HIDE DEF sent, wire, left, u
<1>10. D \in ConnType
  BY <1>0, <1>5, <1>7 DEF ConnType
<1>11. /\ D.wire = wire /\ D.sent = sent /\ D.i = C.i /\ D.left = left /\ D.waits = C.waits /\ D.here = C.here
       /\ D.inbuf = C.inbuf /\ D.byte = C.byte /\ D.used = C.used /\ SameServer(C, D) /\ SameReader(C, D)
  BY <1>0 DEF ConnType, SameServer, SameReply, SameReader
<1>12. D = [SendTo(C, t) EXCEPT !.left = @ - 1]
  BY <1>0 DEF SendTo, ConnType, sent, wire, left
<1> HIDE DEF D
<1>13. Sends(C, D, t)
  BY <1>11 DEF Sends, sent, wire
<1>14. Following(R, u) = TokAt(q, C.i, n) /\ Precedes(u, t)
  BY <1>4, <1>5, <1>6 DEF Following, Precedes, q
<1>15. SendsInOrder(D, R)
  <2>1. Len(C.sent) # 0
    <3>1. C.sent # <<>>
      BY <1>0, <1>1 DEF SendsInOrder
    <3> QED BY <1>0, <3>1, EmptySeq
  <2>2. t = Following(R, C.sent[Len(C.sent)]) /\ Precedes(C.sent[Len(C.sent)], t)
    BY <1>6, <1>14 DEF u
  <2>3. R[D.i] = q /\ D.left <= Size(R[D.i]) /\ t.n = Size(R[D.i]) - D.left
    BY <1>5, <1>6, <1>11 DEF q
  <2>4. t.i = D.i /\ t.i \in 1..Len(R) /\ R[t.i] = q /\ D.i >= C.i /\ ~D.waits
    BY <1>1, <1>6, <1>11 DEF q
  <2>5. t.n \in 0..Size(R[t.i]) /\ t = TokAt(R[t.i], t.i, t.n)
    BY <1>5, <1>6, <2>4
  <2> QED BY <1>0, <1>6, <1>10, <1>13, <2>1, <2>2, <2>3, <2>4, <2>5, InOrderMore
<1>16. D.i >= C.i /\ ~D.waits
  BY <1>1, <1>11
<1>17. Sound(D, R)
  BY <1>6, <1>10, <1>13, <1>15, <1>16, SendingStep
<1> QED BY <1>12, <1>17 DEF t, q, n

-----------------------------------------------------------------------------
(* All connections *)

SrvType == [listening : BOOLEAN, shutdown : {"no", "waiting", "returned"}, keepAlive : BOOLEAN,
            active : SUBSET Conns, closed : BOOLEAN]

\* Tracked, of one connection.
TrackedIn(active, c, C) ==
  /\ c \in active <=> C.state \in {"new", "active", "idle"} /\ C.open
  /\ C.state = "none" <=> C.pc \in {"none", "accepted"}
  /\ C.state = "none" => C.open
  /\ C.state \in {"hijacked", "closed"} <=> C.pc = "end"

\* ConnectionsSound, connection by connection.
AllSound(m, s, k) ==
  /\ \A c \in Conns : m.reqs[c] \in Seq(Requests)
  /\ k \in [Conns -> ConnType] /\ s \in SrvType
  /\ \A c \in Conns : Sound(k[c], m.reqs[c]) /\ TrackedIn(s.active, c, k[c])

LEMMA SoundMeans == ConnectionsSound <=> AllSound(may, srv, conn)
<1>1. ASSUME ConnectionsSound PROVE AllSound(may, srv, conn)
  <2>1. /\ TypeOK /\ Tracked
        /\ \A c \in Conns : /\ ~conn[c].garbled /\ SendsInOrder(conn[c], may.reqs[c]) /\ InStep(conn[c], may.reqs[c])
                            /\ BytesInOrder(conn[c]) /\ ~conn[c].panicked /\ OneReader(conn[c])
                            /\ ServesInOrder(conn[c]) /\ Replies(conn[c], may.reqs[c]) /\ KeptOpen(conn[c], may.reqs[c])
    BY <1>1 DEF ConnectionsSound, Framing, NoByteLost, NoReadPanic, Delimited
  <2>2. \A c \in Conns : conn[c] \in ConnType
    BY <2>1 DEF TypeOK
  <2>3. \A c \in Conns : Sound(conn[c], may.reqs[c])
    BY <2>1, <2>2 DEF Sound
  <2>4. \A c \in Conns : TrackedIn(srv.active, c, conn[c])
    BY <2>1 DEF Tracked, TrackedIn
  <2> QED BY <2>1, <2>3, <2>4 DEF AllSound, TypeOK, SrvType
<1>2. ASSUME AllSound(may, srv, conn) PROVE ConnectionsSound
  <2>1. TypeOK
    BY <1>2 DEF AllSound, TypeOK, SrvType
  <2>2. Framing
    BY <1>2 DEF AllSound, Sound, Framing
  <2>3. NoByteLost
    BY <1>2 DEF AllSound, Sound, NoByteLost
  <2>4. NoReadPanic
    BY <1>2 DEF AllSound, Sound, NoReadPanic
  <2>5. Delimited
    BY <1>2 DEF AllSound, Sound, Delimited
  <2>6. Tracked
    BY <1>2 DEF AllSound, Tracked, TrackedIn
  <2> QED BY <2>1, <2>2, <2>3, <2>4, <2>5, <2>6 DEF ConnectionsSound
<1> QED BY <1>1, <1>2

\* A connection nobody has accepted yet.
LEMMA NewSound == NewConn \in ConnType /\ \A R : Len(R) \in Nat => Sound(NewConn, R)
<1>0. NoTok \in TokenType /\ NoBody \in BodyType /\ <<>> \in Seq(TokenType) /\ <<>> \in Seq(OutputType)
      /\ 0 \in 0..(MaxPost + 1) /\ "none" \in Pcs /\ "none" \in States
  BY NoTokType, HttpServerAssumption DEF NoBody, BodyType, Pcs, States
<1>1. NewConn \in ConnType
  BY <1>0 DEF NewConn, ConnType
<1>2. ASSUME NEW R, Len(R) \in Nat PROVE Sound(NewConn, R)
  <2> DEFINE D == NewConn
  <2>1. /\ D.pc = "none" /\ D.state = "none" /\ D.open = TRUE /\ D.wire = <<>> /\ D.inbuf = <<>> /\ D.byte = NoTok
        /\ D.used = 0 /\ D.inRead = FALSE /\ D.panicked = FALSE /\ D.garbled = FALSE /\ D.req = 0 /\ D.body = NoBody
        /\ D.ecrEOF = FALSE /\ D.out = <<>> /\ D.sent = <<>> /\ D.i = 0 /\ D.left = 0 /\ D.waits = FALSE
    BY DEF NewConn
  <2> HIDE DEF D
  <2>2. Len(<<>>) = 0 /\ <<>> \o <<>> = <<>> /\ ToSet(<<>>) = {} /\ SubSeq(<<>>, 0 + 1, 0) = <<>>
    BY <1>0, ConcatEmptySeq, EmptySeq, SubSeqEmpty DEF ToSet
  <2>3. SendsInOrder(D, R)
    BY <1>2, <2>1, <2>2 DEF SendsInOrder
  <2>4. BytesInOrder(D)
    BY <2>1, <2>2 DEF BytesInOrder, ByteKept
  <2>5. InStep(D, R)
    BY <2>1 DEF InStep, NoBody
  <2>6. OneReader(D)
    BY <2>1 DEF OneReader
  <2>7. ServesInOrder(D)
    BY <2>1 DEF ServesInOrder, Serving, Replying, NoBody
  <2>8. Replies(D, R) /\ KeptOpen(D, R)
    BY <2>1, <2>2 DEF Replies, Replying, Serving, KeptOpen
  <2>9. D \in ConnType
    BY <1>1 DEF D
  <2>10. Sound(D, R)
    BY <2>1, <2>3, <2>4, <2>5, <2>6, <2>7, <2>8, <2>9 DEF Sound
  <2> QED BY <2>10 DEF D
<1> QED BY <1>1, <1>2

LEMMA InitSound ==
  ASSUME Init
  PROVE  ConnectionsSound
<1>1. \A c \in Conns : may.reqs[c] \in Seq(Requests)
  BY HttpServerAssumption DEF Init
<1>2. \A c \in Conns : Len(may.reqs[c]) \in Nat
  BY <1>1, LenProperties
<1>3. conn \in [Conns -> ConnType] /\ \A c \in Conns : conn[c] = NewConn
  BY NewSound DEF Init
<1>4. \A c \in Conns : Sound(conn[c], may.reqs[c])
  BY <1>2, <1>3, NewSound
<1>5. srv \in SrvType /\ srv.active = {}
  BY DEF Init, SrvType
<1>6. \A c \in Conns : TrackedIn(srv.active, c, conn[c])
  BY <1>3, <1>5 DEF TrackedIn, NewConn
<1>7. AllSound(may, srv, conn)
  BY <1>1, <1>3, <1>4, <1>5, <1>6 DEF AllSound
<1> QED BY <1>7, SoundMeans

\* A step of one connection, which the server tracks as it should.
LEMMA OneConn ==
  ASSUME AllSound(may, srv, conn), NEW c \in Conns, NEW D, Update(c, D), may' = may, srv' \in SrvType,
         Sound(D, may.reqs[c]), TrackedIn(srv'.active, c, D),
         \A d \in Conns : d # c => (d \in srv'.active <=> d \in srv.active)
  PROVE  AllSound(may', srv', conn')
<1>1. conn \in [Conns -> ConnType] /\ conn' = [conn EXCEPT ![c] = D]
  BY DEF AllSound, Update
<1>2. conn' \in [Conns -> ConnType] /\ conn'[c] = D /\ \A d \in Conns : d # c => conn'[d] = conn[d]
  BY <1>1 DEF Sound
<1>3. \A d \in Conns : Sound(conn'[d], may.reqs[d])
  BY <1>2 DEF AllSound
<1>4. \A d \in Conns : TrackedIn(srv'.active, d, conn'[d])
  BY <1>2 DEF AllSound, TrackedIn
<1> QED BY <1>2, <1>3, <1>4 DEF AllSound

\* While the serve loop runs its connection is in one of three states; and a step that is not
\* of the serve loop leaves it there.
Live(C) == C.state \in {"new", "active", "idle"} /\ C.pc \notin {"none", "accepted", "end"}

LEMMA ServingLive ==
  ASSUME AllSound(may, srv, conn), NEW c \in Conns, conn[c].pc \notin {"none", "accepted", "end"}
  PROVE  Live(conn[c])
<1>1. conn[c].state \in States /\ TrackedIn(srv.active, c, conn[c])
  BY FieldTypes DEF AllSound
<1> QED BY <1>1 DEF Live, TrackedIn, States

LEMMA LiveStep ==
  ASSUME AllSound(may, srv, conn), NEW c \in Conns, NEW D, Update(c, D), UNCHANGED <<may, srv>>,
         Sound(D, may.reqs[c]), Live(conn[c]), Live(D), D.open = conn[c].open
  PROVE  AllSound(may', srv', conn')
<1>1. TrackedIn(srv.active, c, conn[c]) /\ srv \in SrvType
  BY DEF AllSound
<1>2. TrackedIn(srv.active, c, D)
  BY <1>1 DEF TrackedIn, Live
<1> QED BY <1>1, <1>2, OneConn

LEMMA SideStep ==
  ASSUME AllSound(may, srv, conn), NEW c \in Conns, NEW D, Update(c, D), UNCHANGED <<may, srv>>,
         Sound(D, may.reqs[c]), D.state = conn[c].state, D.pc = conn[c].pc, D.open = conn[c].open
  PROVE  AllSound(may', srv', conn')
<1>1. TrackedIn(srv.active, c, conn[c]) /\ srv \in SrvType
  BY DEF AllSound
<1>2. TrackedIn(srv.active, c, D)
  BY <1>1 DEF TrackedIn
<1> QED BY <1>1, <1>2, OneConn

-----------------------------------------------------------------------------
(* Every action *)

\* The connection before the serve loop.
LEMMA AcceptKeeps ==
  ASSUME AllSound(may, srv, conn), NEW c \in Conns, Accept(c)
  PROVE  AllSound(may', srv', conn')
<1> DEFINE C == conn[c]
           D == [C EXCEPT !.pc = "accepted"]
<1>1. C \in ConnType /\ Sound(C, may.reqs[c]) /\ C.pc = "none" /\ TrackedIn(srv.active, c, C) /\ srv \in SrvType
  BY DEF AllSound, Accept
<1>2. Update(c, D) /\ may' = may /\ srv' = srv
  BY DEF Accept
<1>3. Sound(D, may.reqs[c])
  BY <1>1, AcceptSound
<1>4. D.pc = "accepted" /\ D.state = C.state /\ D.open = C.open
  BY <1>1 DEF ConnType
<1> HIDE DEF D
<1>5. TrackedIn(srv.active, c, D)
  BY <1>1, <1>4 DEF TrackedIn
<1> QED BY <1>1, <1>2, <1>3, <1>5, OneConn

LEMMA StateNewKeeps ==
  ASSUME AllSound(may, srv, conn), NEW c \in Conns, StateNew(c)
  PROVE  AllSound(may', srv', conn')
<1> DEFINE C == conn[c]
           D == [C EXCEPT !.pc = "read", !.state = "new"]
<1>1. C \in ConnType /\ Sound(C, may.reqs[c]) /\ C.pc = "accepted" /\ srv \in SrvType /\ C.open
  BY DEF AllSound, StateNew, TrackedIn
<1>2. Update(c, D) /\ may' = may /\ srv' = [srv EXCEPT !.active = srv.active \cup {c}]
  BY DEF StateNew
<1>3. Sound(D, may.reqs[c])
  BY <1>1, StateNewSound
<1>4. D.pc = "read" /\ D.state = "new" /\ D.open = C.open
  BY <1>1 DEF ConnType
<1> HIDE DEF D
<1>5. srv' \in SrvType /\ srv'.active = srv.active \cup {c}
  BY <1>1, <1>2 DEF SrvType
<1>6. TrackedIn(srv'.active, c, D)
  BY <1>1, <1>4, <1>5 DEF TrackedIn
<1>7. \A d \in Conns : d # c => (d \in srv'.active <=> d \in srv.active)
  BY <1>5
<1> HIDE DEF C
<1> QED BY <1>2, <1>3, <1>5, <1>6, <1>7, OneConn

\* Steps of the serve loop that keep the connection.
LEMMA ReadRequestKeeps ==
  ASSUME AllSound(may, srv, conn), NEW c \in Conns, ReadRequest(c)
  PROVE  AllSound(may', srv', conn')
<1> DEFINE C == conn[c]
           R == may.reqs[c]
           t == NextTok(C)
           T == Take(C)
           D == IF t = NoTok THEN [C EXCEPT !.pc = "closing"]
                ELSE IF t.t # "head" THEN [C EXCEPT !.pc = "closing", !.garbled = TRUE]
                ELSE [T EXCEPT
                        !.pc = "got", !.req = t.i, !.reads = 0, !.done = FALSE, !.closeAfter = FALSE,
                        !.continued = FALSE, !.ecrEOF = FALSE, !.cl = -1,
                        !.garbled = @ \/ t.i # C.req + 1,
                        !.body = [NoBody EXCEPT !.left = ContentLength(R[t.i]), !.sawEOF = ContentLength(R[t.i]) = 0]]
<1>1. C \in ConnType /\ Sound(C, R) /\ R \in Seq(Requests) /\ C.pc = "read" /\ CanRead(C)
  BY DEF AllSound, ReadRequest
<1>2. Update(c, D) /\ UNCHANGED <<may, srv>>
  BY DEF ReadRequest
<1>3. Sound(D, R)
  BY <1>1, ReadRequestSound
<1>4. Live(C)
  BY <1>1, ServingLive
<1>5. t # NoTok => T \in ConnType /\ T.state = C.state /\ T.open = C.open
  BY <1>1, TakeReads DEF Sound, OneReader, SameServer, SameReply
<1> HIDE DEF t, T
<1>6. D.pc \in {"closing", "got"} /\ D.state = C.state /\ D.open = C.open
  BY <1>1, <1>5 DEF ConnType
<1> HIDE DEF D
<1>7. Live(D)
  BY <1>4, <1>6 DEF Live
<1> QED BY <1>2, <1>3, <1>4, <1>6, <1>7, LiveStep

LEMMA StartHandlerKeeps ==
  ASSUME AllSound(may, srv, conn), NEW c \in Conns, StartHandler(c)
  PROVE  AllSound(may', srv', conn')
<1> DEFINE S == conn[c]
           R == may.reqs[c]
           q == Req(c)
           C == [S EXCEPT !.state = "active"]
           P == [C EXCEPT !.pc = "handler"]
           out == C.out \o <<[Mark(C, "head") EXCEPT !.keep = FALSE, !.how = "length"], Mark(C, "end")>>
           D == IF q.expect = "other"
                THEN [C EXCEPT !.closeAfter = TRUE, !.done = TRUE, !.pc = "abort", !.werr = ~C.open,
                               !.out = @ \o <<[Mark(C, "head") EXCEPT !.keep = FALSE, !.how = "length"],
                                              Mark(C, "end")>>]
                ELSE IF C.body.sawEOF THEN StartBackgroundRead(P) ELSE P
<1>1. S \in ConnType /\ Sound(S, R) /\ S.pc = "got" /\ ~S.inRead
  BY DEF AllSound, StartHandler, Sound, OneReader, ConnType
<1>2. Update(c, D) /\ UNCHANGED <<may, srv>>
  BY DEF StartHandler
<1>3. Sound(D, R)
  BY <1>1, StartHandlerSound
<1>4. Live(S)
  BY <1>1, ServingLive
<1>5. C \in ConnType /\ C.state = "active" /\ C.open = S.open /\ C.inRead = S.inRead
  BY <1>1 DEF ConnType, States
<1> HIDE DEF C
<1>6. P \in ConnType /\ P.pc = "handler" /\ P.state = C.state /\ P.open = C.open /\ P.inRead = C.inRead
  BY <1>5 DEF ConnType, Pcs
<1> HIDE DEF P
<1>7. StartBackgroundRead(P).pc = "handler" /\ StartBackgroundRead(P).state = C.state /\ StartBackgroundRead(P).open = C.open
  BY <1>1, <1>5, <1>6, StartsBackgroundRead DEF SameServer, SameReply
<1>8. D.pc \in {"abort", "handler"} /\ D.state = "active" /\ D.open = S.open
  <2>1. CASE q.expect = "other"
    <3>1. D = [C EXCEPT !.closeAfter = TRUE, !.done = TRUE, !.pc = "abort", !.werr = ~C.open, !.out = out]
      BY <1>5, <2>1 DEF ConnType
    <3> HIDE DEF D, out
    <3> QED BY <1>5, <3>1 DEF ConnType
  <2>2. CASE q.expect # "other"
    <3>1. D \in {StartBackgroundRead(P), P}
      BY <2>2
    <3> HIDE DEF D
    <3> QED BY <1>5, <1>6, <1>7, <3>1
  <2> QED BY <2>1, <2>2
<1> HIDE DEF D
<1>9. Live(D)
  BY <1>8 DEF Live
<1> QED BY <1>2, <1>3, <1>4, <1>8, <1>9, LiveStep

LEMMA BackgroundReadKeeps ==
  ASSUME AllSound(may, srv, conn), NEW c \in Conns, BackgroundRead(c)
  PROVE  AllSound(may', srv', conn')
<1> DEFINE S == conn[c]
           R == may.reqs[c]
           C == [S EXCEPT !.inRead = FALSE, !.aborted = FALSE]
           B == [C EXCEPT !.byte = Head(C.wire), !.wire = Tail(@)]
<1>1. S \in ConnType /\ Sound(S, R) /\ S.inRead /\ (S.state = "hijacked" => S.pc = "end")
  BY DEF AllSound, BackgroundRead, TrackedIn
<1>2. Sound(C, R) /\ (C.open /\ C.wire # <<>> => Sound(B, R))
  BY <1>1, BackgroundReadSound
<1>3. UNCHANGED <<may, srv>> /\ (Update(c, C) \/ (C.open /\ C.wire # <<>> /\ Update(c, B)))
  BY DEF BackgroundRead
<1>4. C \in ConnType /\ C.state = S.state /\ C.pc = S.pc /\ C.open = S.open
  <2> HIDE DEF S
  <2>1. S \in ConnType
    BY <1>1
  <2>2. C \in ConnType
    BY <2>1 DEF ConnType
  <2> QED BY <2>1, <2>2 DEF ConnType
<1> HIDE DEF C
<1>5. B.state = S.state /\ B.pc = S.pc /\ B.open = S.open
  BY <1>4 DEF ConnType
<1> HIDE DEF B
<1> QED BY <1>2, <1>3, <1>4, <1>5, SideStep

LEMMA WriteContinueKeeps ==
  ASSUME AllSound(may, srv, conn), NEW c \in Conns, WriteContinue(c)
  PROVE  AllSound(may', srv', conn')
<1> DEFINE C == conn[c]
           R == may.reqs[c]
           D == [C EXCEPT !.continued = TRUE, !.out = Append(@, Mark(C, "continue"))]
<1>1. C \in ConnType /\ Sound(C, R) /\ C.pc = "handler"
  BY DEF AllSound, WriteContinue
<1>2. Update(c, D) /\ UNCHANGED <<may, srv>>
  BY DEF WriteContinue
<1>3. Sound(D, R)
  BY <1>1, WriteContinueSound
<1>4. D.state = C.state /\ D.pc = C.pc /\ D.open = C.open
  BY <1>1 DEF ConnType
<1> HIDE DEF D
<1> QED BY <1>2, <1>3, <1>4, SideStep

\* What a read of the body leaves alone.
LEMMA AdvancedStays ==
  ASSUME NEW R, NEW C, NEW B, Advanced(C, B, R)
  PROVE  B \in ConnType /\ B.state = C.state /\ B.pc = C.pc /\ B.open = C.open
BY DEF Advanced, SameServer, SameReply

LEMMA HandlerReadKeeps ==
  ASSUME AllSound(may, srv, conn), NEW c \in Conns, HandlerRead(c)
  PROVE  AllSound(may', srv', conn')
<1> DEFINE C == conn[c]
           R == may.reqs[c]
           q == Req(c)
           B == BodyRead(C)
           F == BodyFails(C)
           D == IF NextTok(C) = NoTok THEN [F EXCEPT !.reads = q.reads]
                ELSE [B EXCEPT !.reads = @ + 1, !.ecrEOF = B.body.sawEOF]
<1>1. C \in ConnType /\ Sound(C, R) /\ R \in Seq(Requests) /\ C.pc = "handler" /\ WantsMore(C, q) /\ CanRead(C)
  BY DEF AllSound, HandlerRead
<1>2. Update(c, D) /\ UNCHANGED <<may, srv>>
  BY DEF HandlerRead
<1>3. Serving(C) /\ ~C.body.sawEOF /\ C.req > 0
  BY <1>1 DEF Serving, WantsMore, Sound, ServesInOrder
<1>4. q \in Requests
  BY <1>1, <1>3, ServedRequest DEF Req
<1> HIDE DEF q
<1>5. Sound(D, R)
  BY <1>1, <1>4, HandlerReadSound
<1>6. /\ NextTok(C) = NoTok => F \in ConnType /\ F.state = C.state /\ F.pc = C.pc /\ F.open = C.open
      /\ NextTok(C) # NoTok => B \in ConnType /\ B.state = C.state /\ B.pc = C.pc /\ B.open = C.open
  BY <1>1, <1>3, BodyStep, AdvancedStays
<1> HIDE DEF F, B
<1>7. D.state = C.state /\ D.pc = C.pc /\ D.open = C.open
  BY <1>6 DEF ConnType
<1> HIDE DEF D
<1> QED BY <1>2, <1>5, <1>7, SideStep

LEMMA HandlerWritesKeeps ==
  ASSUME AllSound(may, srv, conn), NEW c \in Conns, HandlerWrites(c)
  PROVE  AllSound(may', srv', conn')
<1> DEFINE C == conn[c]
           R == may.reqs[c]
           q == Req(c)
           B == CloseBody(C, q, "write")
           W == [C EXCEPT !.pc = "write"]
           D == IF q.closes THEN B ELSE W
<1>1. C \in ConnType /\ Sound(C, R) /\ C.pc = "handler"
  BY DEF AllSound, HandlerWrites
<1>2. Update(c, D) /\ UNCHANGED <<may, srv>>
  BY DEF HandlerWrites
<1>3. Sound(D, R)
  BY <1>1, HandlerWritesSound
<1>4. Live(C)
  BY <1>1, ServingLive
<1>5. B.state = C.state /\ B.open = C.open /\ B.pc \in {"write", "drain"}
  BY <1>1, ClosingBody DEF SameReply
<1>6. W.state = C.state /\ W.open = C.open /\ W.pc = "write"
  BY <1>1 DEF ConnType
<1>7. D \in {B, W}
  OBVIOUS
<1> HIDE DEF B, W, D
<1>8. Live(D) /\ D.open = C.open
  BY <1>4, <1>5, <1>6, <1>7 DEF Live
<1> QED BY <1>2, <1>3, <1>4, <1>8, LiveStep

LEMMA DrainKeeps ==
  ASSUME AllSound(may, srv, conn), NEW c \in Conns, Drain(c)
  PROVE  AllSound(may', srv', conn')
<1> DEFINE C == conn[c]
           R == may.reqs[c]
           B == IF NextTok(C) = NoTok THEN BodyFails(C)
                ELSE [BodyRead(C) EXCEPT !.budget = IF NextTok(C).t # "end" THEN @ - 1 ELSE @]
           D == IF NextTok(C) = NoTok \/ B.body.sawEOF \/ B.budget = 0
                THEN [B EXCEPT !.body.closed = TRUE, !.body.early = B.budget = 0, !.pc = C.after]
                ELSE B
           F == BodyFails(C)
           A == BodyRead(C)
<1>1. C \in ConnType /\ Sound(C, R) /\ R \in Seq(Requests) /\ C.pc = "drain" /\ CanRead(C)
  BY DEF AllSound, Drain
<1>2. Update(c, D) /\ UNCHANGED <<may, srv>>
  BY DEF Drain
<1>3. Sound(D, R)
  BY <1>1, DrainSound
<1>4. Live(C) /\ Serving(C) /\ ~C.body.sawEOF /\ C.after \in {"write", "reuse"}
  BY <1>1, ServingLive, FieldTypes DEF Serving, Sound, ServesInOrder
<1>5. /\ NextTok(C) = NoTok => F \in ConnType /\ F.state = C.state /\ F.pc = C.pc /\ F.open = C.open
      /\ NextTok(C) # NoTok => A \in ConnType /\ A.state = C.state /\ A.pc = C.pc /\ A.open = C.open
  BY <1>1, <1>4, BodyStep, AdvancedStays
<1>6. B = IF NextTok(C) = NoTok THEN F ELSE [A EXCEPT !.budget = IF NextTok(C).t # "end" THEN @ - 1 ELSE @]
  OBVIOUS
<1>7. D = IF NextTok(C) = NoTok \/ B.body.sawEOF \/ B.budget = 0
          THEN [B EXCEPT !.body.closed = TRUE, !.body.early = B.budget = 0, !.pc = C.after] ELSE B
  OBVIOUS
<1> HIDE DEF F, A, B, D
<1>8. B.state = C.state /\ B.pc = C.pc /\ B.open = C.open /\ DOMAIN B = DOMAIN C /\ {"body", "pc", "state", "open"} \subseteq DOMAIN B
  BY <1>1, <1>5, <1>6 DEF ConnType
<1>9. D.pc \in {C.after, C.pc} /\ D.state = C.state /\ D.open = C.open
  BY <1>7, <1>8
<1>10. Live(D)
  BY <1>1, <1>4, <1>9 DEF Live
<1> QED BY <1>2, <1>3, <1>4, <1>9, <1>10, LiveStep

LEMMA HandlerEndsKeeps ==
  ASSUME AllSound(may, srv, conn), NEW c \in Conns, HandlerEnds(c)
  PROVE  AllSound(may', srv', conn')
<1> DEFINE C == conn[c]
           R == may.reqs[c]
           q == Req(c)
           D == IF q.does = "hijack" THEN [C EXCEPT !.pc = "hijack"]
                ELSE IF EarlyHeader(q) THEN [C EXCEPT !.pc = "header"]
                ELSE IF q.does = "panic" THEN [C EXCEPT !.pc = "closing"]
                ELSE [C EXCEPT !.pc = "header", !.done = TRUE]
<1>1. C \in ConnType /\ Sound(C, R) /\ C.pc = "write"
  BY DEF AllSound, HandlerEnds
<1>2. Update(c, D) /\ UNCHANGED <<may, srv>>
  BY DEF HandlerEnds
<1>3. Sound(D, R)
  <2>1. D = IF q.does = "hijack" THEN [C EXCEPT !.pc = "hijack"]
            ELSE IF EarlyHeader(q) THEN [C EXCEPT !.pc = "header"]
            ELSE IF q.does = "panic" THEN [C EXCEPT !.pc = "closing"]
            ELSE [C EXCEPT !.pc = "header", !.done = TRUE]
    OBVIOUS
  <2> HIDE DEF D, q, R, C
  <2> QED BY <1>1, <2>1, HandlerEndsSound, Zenon
<1>4. Live(C)
  BY <1>1, ServingLive
<1>5. D.pc \in {"hijack", "header", "closing"} /\ D.state = C.state /\ D.open = C.open
  BY <1>1 DEF ConnType
<1> HIDE DEF D
<1>6. Live(D)
  BY <1>4, <1>5 DEF Live
<1> QED BY <1>2, <1>3, <1>4, <1>5, <1>6, LiveStep

LEMMA WriteHeaderKeeps ==
  ASSUME AllSound(may, srv, conn), NEW c \in Conns, WriteHeader(c)
  PROVE  AllSound(may', srv', conn')
<1> DEFINE C == conn[c]
           R == may.reqs[c]
           q == R[C.req]
           cl == IF AutoLength(q, C.done, Buffered(q)) THEN Buffered(q) ELSE q.cl
           close == CloseBefore(q, cl # -1, DoKeepAlives, C.ecrEOF)
           unread == IF close THEN "nothing" ELSE Unread(C, q)
           ca == close \/ unread \in {"lost", "tooBig"}
           p == IF unread = "discard" THEN "discard" ELSE "emit"
           D == [C EXCEPT !.cl = cl, !.closeAfter = ca, !.budget = MaxPost + 1, !.pc = p]
<1>1. C \in ConnType /\ Sound(C, R) /\ R \in Seq(Requests) /\ C.pc = "header"
  BY DEF AllSound, WriteHeader
<1>2. Update(c, D) /\ UNCHANGED <<may, srv>>
  BY DEF WriteHeader, Req
<1>3. Sound(D, R)
  BY <1>1, WriteHeaderSound
<1>4. Live(C)
  BY <1>1, ServingLive
<1>5. p \in {"discard", "emit"}
  OBVIOUS
<1> HIDE DEF cl, ca, p
<1>6. D.pc \in {"discard", "emit"} /\ D.state = C.state /\ D.open = C.open
  BY <1>1, <1>5 DEF ConnType
<1> HIDE DEF D
<1>7. Live(D)
  BY <1>4, <1>6 DEF Live
<1> QED BY <1>2, <1>3, <1>4, <1>6, <1>7, LiveStep

LEMMA DiscardKeeps ==
  ASSUME AllSound(may, srv, conn), NEW c \in Conns, Discard(c)
  PROVE  AllSound(may', srv', conn')
<1> DEFINE C == conn[c]
           R == may.reqs[c]
           t == NextTok(C)
           F == BodyFails(C)
           A == BodyRead(C)
           B == IF t = NoTok THEN F ELSE [A EXCEPT !.budget = IF t.t = "end" THEN @ ELSE @ - 1]
           E == [C EXCEPT !.body.closed = TRUE, !.pc = "emit"]
           G == IF t = NoTok \/ B.budget = 0 THEN [B EXCEPT !.closeAfter = TRUE, !.pc = "emit"] ELSE B
           over == C.body.sawEOF \/ C.body.closed
<1>1. C \in ConnType /\ Sound(C, R) /\ R \in Seq(Requests) /\ C.pc = "discard"
  BY DEF AllSound, Discard
<1>2. UNCHANGED <<may, srv>> /\ (over => Update(c, E)) /\ (~over => CanRead(C) /\ Update(c, G))
  BY DEF Discard
<1>3. (over => Sound(E, R)) /\ (~over /\ CanRead(C) => Sound(G, R))
  BY <1>1, DiscardSound
<1>4. Live(C) /\ Serving(C)
  BY <1>1, ServingLive DEF Serving
<1>5. CASE over
  <2>1. E.pc = "emit" /\ E.state = C.state /\ E.open = C.open
    BY <1>1 DEF ConnType
  <2> HIDE DEF E
  <2>2. Live(E)
    BY <1>4, <2>1 DEF Live
  <2> QED BY <1>2, <1>3, <1>4, <1>5, <2>1, <2>2, LiveStep
<1>6. CASE ~over
  <2>1. /\ t = NoTok => F \in ConnType /\ F.state = C.state /\ F.pc = C.pc /\ F.open = C.open
        /\ t # NoTok => A \in ConnType /\ A.state = C.state /\ A.pc = C.pc /\ A.open = C.open
    BY <1>1, <1>2, <1>4, <1>6, BodyStep, AdvancedStays
  <2> HIDE DEF F, A
  <2>2. B.state = C.state /\ B.pc = C.pc /\ B.open = C.open /\ {"closeAfter", "pc", "state", "open"} \subseteq DOMAIN B
    BY <1>1, <2>1 DEF ConnType
  <2> HIDE DEF B
  <2>3. G.pc \in {"emit", "discard"} /\ G.state = C.state /\ G.open = C.open
    BY <1>1, <2>2
  <2> HIDE DEF G
  <2>4. Live(G)
    BY <1>4, <2>3 DEF Live
  <2> QED BY <1>2, <1>3, <1>4, <1>6, <2>3, <2>4, LiveStep
<1> QED BY <1>5, <1>6

LEMMA EmitKeeps ==
  ASSUME AllSound(may, srv, conn), NEW c \in Conns, Emit(c)
  PROVE  AllSound(may', srv', conn')
<1> DEFINE S == conn[c]
           R == may.reqs[c]
           q == R[S.req]
           C == [S EXCEPT !.closeAfter = @ \/ CloseToEnd(q, S.cl # -1), !.werr = ~S.open]
           p == IF ~C.done /\ q.does = "panic" THEN "closing" ELSE "flush"
           D == [C EXCEPT !.out = Append(@, Response(C, q, C.cl # -1)), !.pc = p]
<1>1. S \in ConnType /\ Sound(S, R) /\ R \in Seq(Requests) /\ S.pc = "emit"
  BY DEF AllSound, Emit
<1>2. Update(c, D) /\ UNCHANGED <<may, srv>>
  BY DEF Emit, Req
<1>3. Sound(D, R)
  BY <1>1, EmitSound
<1>4. Live(S)
  BY <1>1, ServingLive
<1>5. C.state = S.state /\ C.open = S.open /\ {"out", "pc", "state", "open"} \subseteq DOMAIN C
  BY <1>1 DEF ConnType
<1>6. p \in {"closing", "flush"}
  OBVIOUS
<1> HIDE DEF C, p
<1>7. D.pc \in {"closing", "flush"} /\ D.state = S.state /\ D.open = S.open
  BY <1>5, <1>6
<1> HIDE DEF D
<1>8. Live(D)
  BY <1>4, <1>7 DEF Live
<1> QED BY <1>2, <1>3, <1>4, <1>7, <1>8, LiveStep

LEMMA FinishRequestKeeps ==
  ASSUME AllSound(may, srv, conn), NEW c \in Conns, FinishRequest(c)
  PROVE  AllSound(may', srv', conn')
<1> DEFINE C == conn[c]
           R == may.reqs[c]
           D == [C EXCEPT !.done = TRUE, !.out = Append(@, Mark(C, "end")), !.pc = "abort"]
<1>1. C \in ConnType /\ Sound(C, R) /\ C.pc = "flush"
  BY DEF AllSound, FinishRequest
<1>2. Update(c, D) /\ UNCHANGED <<may, srv>>
  BY DEF FinishRequest
<1>3. Sound(D, R)
  BY <1>1, FinishRequestSound
<1>4. Live(C)
  BY <1>1, ServingLive
<1>5. D.pc = "abort" /\ D.state = C.state /\ D.open = C.open
  BY <1>1 DEF ConnType
<1> HIDE DEF D
<1>6. Live(D)
  BY <1>4, <1>5 DEF Live
<1> QED BY <1>2, <1>3, <1>4, <1>5, <1>6, LiveStep

LEMMA AbortPendingReadKeeps ==
  ASSUME AllSound(may, srv, conn), NEW c \in Conns, AbortPendingRead(c)
  PROVE  AllSound(may', srv', conn')
<1> DEFINE C == conn[c]
           R == may.reqs[c]
           A == [C EXCEPT !.aborted = TRUE]
           B == CloseBody(C, Req(c), "reuse")
           D == IF C.inRead THEN A ELSE B
<1>1. C \in ConnType /\ Sound(C, R) /\ C.pc = "abort"
  BY DEF AllSound, AbortPendingRead
<1>2. Update(c, D) /\ UNCHANGED <<may, srv>>
  BY DEF AbortPendingRead
<1>3. Sound(D, R)
  BY <1>1, AbortPendingReadSound
<1>4. Live(C)
  BY <1>1, ServingLive
<1>5. A.pc = "abort" /\ A.state = C.state /\ A.open = C.open
  BY <1>1 DEF ConnType
<1>6. B.pc \in {"reuse", "drain"} /\ B.state = C.state /\ B.open = C.open
  BY <1>1, ClosingBody DEF SameReply
<1>7. D \in {A, B}
  OBVIOUS
<1> HIDE DEF A, B, D
<1>8. Live(D) /\ D.open = C.open
  BY <1>4, <1>5, <1>6, <1>7 DEF Live
<1> QED BY <1>2, <1>3, <1>4, <1>8, LiveStep

LEMMA ReuseKeeps ==
  ASSUME AllSound(may, srv, conn), NEW c \in Conns, Reuse(c)
  PROVE  AllSound(may', srv', conn')
<1> DEFINE C == conn[c]
           R == may.reqs[c]
           q == R[C.req]
           D == IF ShouldReuseConnection(C, q) THEN [C EXCEPT !.pc = "idle", !.state = "idle"]
                ELSE [C EXCEPT !.pc = "closing"]
<1>1. C \in ConnType /\ Sound(C, R) /\ C.pc = "reuse"
  BY DEF AllSound, Reuse
<1>2. Update(c, D) /\ UNCHANGED <<may, srv>>
  BY DEF Reuse, Req
<1>3. Live(C)
  BY <1>1, ServingLive
<1>4. Sound(D, R)
  BY <1>1, <1>3, ReuseSound DEF Live
<1>5. D.pc \in {"idle", "closing"} /\ D.state \in {"idle", C.state} /\ D.open = C.open
  BY <1>1 DEF ConnType
<1> HIDE DEF D
<1>6. Live(D)
  BY <1>3, <1>5 DEF Live
<1> QED BY <1>2, <1>3, <1>4, <1>5, <1>6, LiveStep

LEMMA IdleCheckKeeps ==
  ASSUME AllSound(may, srv, conn), NEW c \in Conns, IdleCheck(c)
  PROVE  AllSound(may', srv', conn')
<1> DEFINE C == conn[c]
           R == may.reqs[c]
           p == IF DoKeepAlives THEN "read" ELSE "closing"
           D == [C EXCEPT !.pc = p]
<1>1. C \in ConnType /\ Sound(C, R) /\ C.pc = "idle"
  BY DEF AllSound, IdleCheck
<1>2. Update(c, D) /\ UNCHANGED <<may, srv>>
  BY DEF IdleCheck
<1>3. Live(C)
  BY <1>1, ServingLive
<1>4. p \in {"read", "closing"}
  OBVIOUS
<1> HIDE DEF p
<1>5. Sound(D, R)
  BY <1>1, <1>3, <1>4, IdleCheckSound DEF Live
<1>6. D.pc = p /\ D.state = C.state /\ D.open = C.open
  BY <1>1 DEF ConnType
<1> HIDE DEF D
<1>7. Live(D)
  BY <1>3, <1>4, <1>6 DEF Live
<1> QED BY <1>2, <1>3, <1>5, <1>6, <1>7, LiveStep

\* The end of the serve loop.
LEMMA ClosingKeeps ==
  ASSUME AllSound(may, srv, conn), NEW c \in Conns, Closing(c)
  PROVE  AllSound(may', srv', conn')
<1> DEFINE C == conn[c]
           D == [C EXCEPT !.open = FALSE, !.state = "closed", !.pc = "end"]
<1>1. C \in ConnType /\ Sound(C, may.reqs[c]) /\ srv \in SrvType
  BY DEF AllSound
<1>2. Update(c, D) /\ may' = may /\ srv' = [srv EXCEPT !.active = srv.active \ {c}]
  BY DEF Closing
<1>3. Sound(D, may.reqs[c])
  BY <1>1, ClosingSound
<1>4. D.pc = "end" /\ D.state = "closed" /\ D.open = FALSE
  BY <1>1 DEF ConnType
<1> HIDE DEF D
<1>5. srv' \in SrvType /\ srv'.active = srv.active \ {c}
  BY <1>1, <1>2 DEF SrvType
<1>6. TrackedIn(srv'.active, c, D)
  BY <1>4, <1>5 DEF TrackedIn
<1>7. \A d \in Conns : d # c => (d \in srv'.active <=> d \in srv.active)
  BY <1>5
<1> HIDE DEF C
<1> QED BY <1>2, <1>3, <1>5, <1>6, <1>7, OneConn

LEMMA HijackKeeps ==
  ASSUME AllSound(may, srv, conn), NEW c \in Conns, Hijack(c)
  PROVE  AllSound(may', srv', conn')
<1> DEFINE C == conn[c]
           A == [C EXCEPT !.aborted = TRUE]
           D == [C EXCEPT !.state = "hijacked", !.pc = "end", !.byte = NoTok,
                          !.inbuf = @ \o (IF C.byte = NoTok THEN <<>> ELSE <<C.byte>>)]
<1>1. C \in ConnType /\ Sound(C, may.reqs[c]) /\ srv \in SrvType /\ C.pc = "hijack" /\ may' = may
  BY DEF AllSound, Hijack
<1>2. CASE C.inRead
  <2>1. Update(c, A) /\ UNCHANGED <<may, srv>>
    BY <1>1, <1>2 DEF Hijack
  <2>2. Sound(A, may.reqs[c])
    BY <1>1, AbortedSound
  <2>3. A.pc = C.pc /\ A.state = C.state /\ A.open = C.open
    BY <1>1 DEF ConnType
  <2> HIDE DEF A
  <2> QED BY <2>1, <2>2, <2>3, SideStep
<1>3. CASE ~C.inRead
  <2>1. Update(c, D) /\ srv' = [srv EXCEPT !.active = srv.active \ {c}]
    BY <1>3 DEF Hijack
  <2>2. Sound(D, may.reqs[c])
    BY <1>1, <1>3, HijackSound
  <2>3. D.pc = "end" /\ D.state = "hijacked"
    BY <1>1 DEF ConnType
  <2> HIDE DEF D
  <2>4. srv' \in SrvType /\ srv'.active = srv.active \ {c}
    BY <1>1, <2>1 DEF SrvType
  <2>5. TrackedIn(srv'.active, c, D)
    BY <2>3, <2>4 DEF TrackedIn
  <2>6. \A d \in Conns : d # c => (d \in srv'.active <=> d \in srv.active)
    BY <2>4
  <2>7. may' = may
    BY <1>1
  <2> HIDE DEF C
  <2> QED BY <2>1, <2>2, <2>4, <2>5, <2>6, <2>7, OneConn
<1> QED BY <1>2, <1>3

\* The client.
LEMMA ClientHeadKeeps ==
  ASSUME AllSound(may, srv, conn), NEW c \in Conns, ClientHead(c)
  PROVE  AllSound(may', srv', conn')
<1> DEFINE C == conn[c]
           R == may.reqs[c]
           i == C.i + 1
           q == R[i]
           D == [SendTo(C, TokAt(q, i, 0)) EXCEPT !.i = i, !.left = Size(q), !.waits = ContinueBody(q)]
<1>1. C \in ConnType /\ Sound(C, R) /\ R \in Seq(Requests)
  BY DEF AllSound
<1>2. /\ C.here /\ C.left = 0 /\ ~C.waits /\ i <= Len(R) /\ ~SeesClose(C)
      /\ C.i > 0 => (may.pipeline /\ ~ContinueBody(R[C.i])) \/ Ended(C, C.i)
      /\ Update(c, D) /\ UNCHANGED <<may, srv>>
  BY DEF ClientHead
<1>3. Sound(D, R)
  BY <1>1, <1>2, ClientHeadSound
<1>4. D.pc = C.pc /\ D.state = C.state /\ D.open = C.open
  <2> DEFINE T == SendTo(C, TokAt(q, i, 0))
  <2>1. T.pc = C.pc /\ T.state = C.state /\ T.open = C.open /\ {"i", "left", "waits", "pc", "state", "open"} \subseteq DOMAIN T
    BY <1>1 DEF SendTo, ConnType
  <2> HIDE DEF T
  <2> QED BY <2>1 DEF T
<1>5. Update(c, D) /\ UNCHANGED <<may, srv>>
  BY <1>2
<1> HIDE DEF D
<1> QED BY <1>3, <1>4, <1>5, SideStep

LEMMA ClientBodyKeeps ==
  ASSUME AllSound(may, srv, conn), NEW c \in Conns, ClientBody(c)
  PROVE  AllSound(may', srv', conn')
<1> DEFINE C == conn[c]
           R == may.reqs[c]
           q == R[C.i]
           T == SendTo(C, TokAt(q, C.i, Size(q) - C.left + 1))
           D == [T EXCEPT !.left = @ - 1]
<1>1. C \in ConnType /\ Sound(C, R) /\ R \in Seq(Requests)
  BY DEF AllSound
<1>2. C.here /\ C.left # 0 /\ ~C.waits /\ C.open /\ Update(c, D) /\ UNCHANGED <<may, srv>>
  BY DEF ClientBody
<1>3. Sound(D, R)
  BY <1>1, <1>2, ClientBodySound
<1>4. T.pc = C.pc /\ T.state = C.state /\ T.open = C.open /\ {"left", "pc", "state", "open"} \subseteq DOMAIN T
  BY <1>1 DEF SendTo, ConnType
<1> HIDE DEF T
<1>5. D.pc = C.pc /\ D.state = C.state /\ D.open = C.open
  BY <1>4
<1>6. Update(c, D) /\ UNCHANGED <<may, srv>>
  BY <1>2
<1> HIDE DEF D
<1> QED BY <1>3, <1>5, <1>6, SideStep

LEMMA ClientWaitsKeeps ==
  ASSUME AllSound(may, srv, conn), NEW c \in Conns, ClientGoesOn(c) \/ ClientSkips(c) \/ ClientCloses(c)
  PROVE  AllSound(may', srv', conn')
<1> DEFINE C == conn[c]
           R == may.reqs[c]
           G == [C EXCEPT !.waits = FALSE]
           S == [C EXCEPT !.waits = FALSE, !.left = 0]
           L == [C EXCEPT !.here = FALSE]
<1>1. C \in ConnType /\ Sound(C, R) /\ R \in Seq(Requests)
  BY DEF AllSound
<1>2. CASE ClientGoesOn(c)
  <2>1. C.waits /\ Update(c, G) /\ UNCHANGED <<may, srv>>
    BY <1>2 DEF ClientGoesOn
  <2>2. Sound(G, R)
    BY <1>1, <2>1, ClientGoesOnSound
  <2>3. G.pc = C.pc /\ G.state = C.state /\ G.open = C.open
    BY <1>1 DEF ConnType
  <2> HIDE DEF G
  <2> QED BY <2>1, <2>2, <2>3, SideStep
<1>3. CASE ClientSkips(c)
  <2>1. C.waits /\ Responded(C, C.i) /\ Update(c, S) /\ UNCHANGED <<may, srv>>
    BY <1>3 DEF ClientSkips
  <2>2. Sound(S, R)
    BY <1>1, <2>1, ClientGoesOnSound
  <2>3. S.pc = C.pc /\ S.state = C.state /\ S.open = C.open
    BY <1>1 DEF ConnType
  <2> HIDE DEF S
  <2> QED BY <2>1, <2>2, <2>3, SideStep
<1>4. CASE ClientCloses(c)
  <2>1. Update(c, L) /\ UNCHANGED <<may, srv>>
    BY <1>4 DEF ClientCloses
  <2>2. Sound(L, R)
    BY <1>1, ClientClosesSound
  <2>3. L.pc = C.pc /\ L.state = C.state /\ L.open = C.open
    BY <1>1 DEF ConnType
  <2> HIDE DEF L
  <2> QED BY <2>1, <2>2, <2>3, SideStep
<1> QED BY <1>2, <1>3, <1>4

\* The owner closes some of the connections that are tracked.
LEMMA OwnerCloses ==
  ASSUME AllSound(may, srv, conn), may' = may, srv' \in SrvType, NEW K \in SUBSET srv.active,
         srv'.active = srv.active \ K,
         conn' = [c \in Conns |-> IF c \in K THEN [conn[c] EXCEPT !.open = FALSE] ELSE conn[c]]
  PROVE  AllSound(may', srv', conn')
<1>1. srv.active \in SUBSET Conns
  BY DEF AllSound, SrvType
<1>2. ASSUME NEW c \in Conns
      PROVE  conn'[c] \in ConnType /\ Sound(conn'[c], may.reqs[c]) /\ TrackedIn(srv'.active, c, conn'[c])
  <2> DEFINE C == conn[c]
             D == [C EXCEPT !.open = FALSE]
  <2>1. C \in ConnType /\ Sound(C, may.reqs[c]) /\ TrackedIn(srv.active, c, C)
    BY DEF AllSound
  <2>2. CASE c \in K
    <3>1. conn'[c] = D
      BY <2>2
    <3>2. Sound(D, may.reqs[c])
      BY <2>1, ClosedUnder
    <3>3. D.open = FALSE /\ D.pc = C.pc /\ D.state = C.state
      BY <2>1 DEF ConnType
    <3> HIDE DEF D
    <3>4. c \in srv.active /\ c \notin srv'.active
      BY <2>2
    <3>5. TrackedIn(srv'.active, c, D)
      BY <2>1, <3>3, <3>4 DEF TrackedIn
    <3>6. D \in ConnType
      BY <3>2 DEF Sound
    <3> QED BY <3>1, <3>2, <3>5, <3>6
  <2>3. CASE c \notin K
    <3>1. conn'[c] = C /\ (c \in srv'.active <=> c \in srv.active)
      BY <2>3
    <3> HIDE DEF C
    <3>2. TrackedIn(srv'.active, c, C)
      BY <2>1, <3>1 DEF TrackedIn
    <3> QED BY <2>1, <3>1, <3>2
  <2> QED BY <2>2, <2>3
<1>3. conn' \in [Conns -> ConnType]
  BY <1>2
<1> QED BY <1>2, <1>3 DEF AllSound

LEMMA OwnerKeeps ==
  ASSUME AllSound(may, srv, conn), Shutdown \/ CloseIdleConns \/ Close \/ DisableKeepAlives
  PROVE  AllSound(may', srv', conn')
<1>1. srv \in SrvType /\ Idle \in SUBSET srv.active
  BY DEF AllSound, Idle
<1>2. CASE Shutdown
  <2>1. srv' \in SrvType /\ srv'.active = srv.active /\ may' = may /\ conn' = conn
    BY <1>1, <1>2 DEF Shutdown, SrvType
  <2> QED BY <2>1 DEF AllSound
<1>3. CASE CloseIdleConns
  <2>1. srv' \in SrvType /\ srv'.active = srv.active \ Idle /\ may' = may
    BY <1>1, <1>3 DEF CloseIdleConns, SrvType
  <2>2. conn' = [c \in Conns |-> IF c \in Idle THEN [conn[c] EXCEPT !.open = FALSE] ELSE conn[c]]
    BY <1>3 DEF CloseIdleConns
  <2> QED BY <1>1, <2>1, <2>2, OwnerCloses
<1>4. CASE Close
  <2>1. srv' \in SrvType /\ srv'.active = srv.active \ srv.active /\ may' = may
    BY <1>1, <1>4 DEF Close, SrvType
  <2>2. conn' = [c \in Conns |-> IF c \in srv.active THEN [conn[c] EXCEPT !.open = FALSE] ELSE conn[c]]
    BY <1>4 DEF Close
  <2>3. srv.active \in SUBSET srv.active
    OBVIOUS
  <2> QED BY <2>1, <2>2, <2>3, OwnerCloses
<1>5. CASE DisableKeepAlives
  <2>1. srv' \in SrvType /\ srv'.active = srv.active \ Idle /\ may' = may
    BY <1>1, <1>5 DEF DisableKeepAlives, SrvType
  <2>2. conn' = [c \in Conns |-> IF c \in Idle THEN [conn[c] EXCEPT !.open = FALSE] ELSE conn[c]]
    BY <1>5 DEF DisableKeepAlives
  <2> QED BY <1>1, <2>1, <2>2, OwnerCloses
<1> QED BY <1>2, <1>3, <1>4, <1>5

-----------------------------------------------------------------------------
\* ConnectionsSound is inductive.
LEMMA NextSound ==
  ASSUME AllSound(may, srv, conn), [Next]_vars
  PROVE  AllSound(may', srv', conn')
<1>1. CASE UNCHANGED vars
  BY <1>1 DEF vars, AllSound
<1>2. ASSUME NEW c \in Conns, Serve(c) PROVE AllSound(may', srv', conn')
  BY <1>2, StateNewKeeps, ReadRequestKeeps, StartHandlerKeeps, BackgroundReadKeeps, WriteContinueKeeps,
     HandlerReadKeeps, HandlerWritesKeeps, DrainKeeps, HandlerEndsKeeps, WriteHeaderKeeps, DiscardKeeps, EmitKeeps,
     FinishRequestKeeps, AbortPendingReadKeeps, ReuseKeeps, IdleCheckKeeps, ClosingKeeps, HijackKeeps, Zenon
     DEF Serve
<1>3. ASSUME NEW c \in Conns, Client(c) PROVE AllSound(may', srv', conn')
  BY <1>3, ClientHeadKeeps, ClientBodyKeeps, ClientWaitsKeeps, Zenon DEF Client
<1>4. ASSUME NEW c \in Conns, Accept(c) PROVE AllSound(may', srv', conn')
  BY <1>4, AcceptKeeps
<1> QED BY <1>1, <1>2, <1>3, <1>4, OwnerKeeps, Zenon DEF Next

\* Whatever clients send, handlers do and the owner calls, the server finds every head and
\* every byte of a body where the client put it, loses none, never reads a connection from two
\* goroutines, keeps a connection only when the client can tell where its response ended, and
\* tracks exactly the connections that are open and its own (serve, connReader, body and
\* chunkWriter.writeHeader; Hijack, Shutdown and Close beside them).
THEOREM ConnectionsStaySound == Spec => []ConnectionsSound
<1>1. Init => ConnectionsSound
  BY InitSound
<1>2. ConnectionsSound /\ [Next]_vars => ConnectionsSound'
  <2>1. ConnectionsSound => AllSound(may, srv, conn)
    BY SoundMeans
  <2>2. AllSound(may, srv, conn) /\ [Next]_vars => AllSound(may', srv', conn')
    BY NextSound
  <2>3. AllSound(may', srv', conn') => ConnectionsSound'
    <3>1. AllSound(may, srv, conn) => ConnectionsSound
      BY SoundMeans
    <3>2. (AllSound(may, srv, conn) => ConnectionsSound)'
      BY <3>1, PTL
    <3>3. AllSound(may, srv, conn)' <=> AllSound(may', srv', conn')
      OBVIOUS
    <3> QED BY <3>2, <3>3
  <2> QED BY <2>1, <2>2, <2>3
<1> QED BY <1>1, <1>2, PTL DEF Spec
=============================================================================
