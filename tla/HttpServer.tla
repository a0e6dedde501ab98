----------------------------- MODULE HttpServer -----------------------------
(***************************************************************************)
(* The HTTP/1 server of the fork (http/server.go, and body of              *)
(* http/transfer.go): the accept loop, Shutdown, Close, and for every      *)
(* connection the serve loop, its connReader with the background read that *)
(* watches for the end of the client, the request body and the decisions   *)
(* of chunkWriter.writeHeader.                                             *)
(*                                                                         *)
(* What a client sends is a sequence of tokens: the head of a request, a   *)
(* byte of its body, the end of a chunked one, numbered within the         *)
(* request.  Writes to the connection succeed until it is closed.          *)
(* Timeouts, TLS and malformed heads are not here: each only leads to      *)
(* Closing.                                                                *)
(***************************************************************************)
EXTENDS Integers, Sequences, FiniteSets, SequencesExt

CONSTANTS
  Conns,      \* connections
  MaxPost,    \* maxPostHandlerReadBytes
  BufSize,    \* bufferBeforeChunkingSize
  Scripts     \* what the clients, the handlers and the owner do; see may

\* A request: m and v its method and minor version; body and chunked how much
\* it carries and how; expect and conn its Expect and Connection headers.  The
\* rest is its handler: how much of the body it reads and if it closes it; the
\* status, Content-Length, Transfer-Encoding and Connection: close it sets; how
\* much it writes, whether it flushes, and how it ends.
Requests == [m : {"GET", "HEAD"}, v : {0, 1}, body : Nat, chunked : BOOLEAN,
             expect : {"none", "continue", "other"}, conn : {"none", "close", "keep-alive"},
             reads : Nat, closes : BOOLEAN, status : {200, 204}, cl : Nat \cup {-1},
             te : {"none", "identity", "chunked"}, hclose : BOOLEAN,
             writes : Nat, flush : BOOLEAN, does : {"return", "panic", "hijack"}]
ASSUME HttpServerAssumption == /\ MaxPost \in Nat \ {0} /\ BufSize \in Nat
                               /\ \A m \in Scripts : \A c \in Conns : m.reqs[c] \in Seq(Requests)

VARIABLES
  may,     \* the script: reqs, whether clients pipeline, and the owner's calls
  srv,     \* the Server
  conn     \* each connection, the client's end included
vars == <<may, srv, conn>>

\* A token: what it is, the request it is of, and its number there, 0 for the head.
Tok(t, i, n) == [t |-> t, i |-> i, n |-> n]
NoTok == Tok("none", 0, 0)
NoBody == [left |-> 0, sawEOF |-> TRUE, closed |-> FALSE, early |-> FALSE]

\* conn, connReader and response; then the client: what it sent in all, the
\* request it is at, what of its body is left to send, and if it waits for 100.
NewConn ==
  [pc |-> "none", state |-> "none", open |-> TRUE,
   wire |-> <<>>, inbuf |-> <<>>, byte |-> NoTok, used |-> 0,
   inRead |-> FALSE, aborted |-> FALSE, panicked |-> FALSE, garbled |-> FALSE,
   req |-> 0, body |-> NoBody, after |-> "none", budget |-> 0, reads |-> 0,
   done |-> FALSE, closeAfter |-> FALSE, continued |-> FALSE, ecrEOF |-> FALSE,
   cl |-> -1, werr |-> FALSE, out |-> <<>>,
   sent |-> <<>>, i |-> 0, left |-> 0, waits |-> FALSE, here |-> TRUE]

Init ==
  /\ may \in Scripts
  /\ srv = [listening |-> TRUE, shutdown |-> "no", keepAlive |-> TRUE, active |-> {}, closed |-> FALSE]
  /\ conn = [c \in Conns |-> NewConn]

Update(c, C) == conn' = [conn EXCEPT ![c] = C]
Req(c) == may.reqs[c][conn[c].req]

\* doKeepAlives
DoKeepAlives == srv.keepAlive /\ srv.shutdown # "waiting"

ContentLength(q) == IF q.chunked THEN -1 ELSE q.body
Wants10KeepAlive(q) == q.v = 0 /\ q.conn = "keep-alive"
WantsClose(q) == q.conn = "close"
BodyAllowed(q) == q.status # 204
ContinueBody(q) == q.expect = "continue" /\ q.v = 1 /\ ContentLength(q) # 0

-----------------------------------------------------------------------------
(* connReader and body: pure functions on a connection *)

\* What Read of the connReader gives to the bufio.Reader above it: the byte of
\* the background read, or what there is.
Fill(C) == IF C.inbuf # <<>> THEN C
           ELSE IF C.inRead THEN [C EXCEPT !.panicked = TRUE]
           ELSE IF C.byte # NoTok THEN [C EXCEPT !.inbuf = <<C.byte>>, !.byte = NoTok]
           ELSE IF C.open THEN [C EXCEPT !.inbuf = C.wire, !.wire = <<>>]
           ELSE C
Take(C) == LET F == Fill(C) IN
           IF F.inbuf = <<>> THEN F ELSE [F EXCEPT !.inbuf = Tail(@), !.used = @ + 1]
NextTok(C) == LET F == Fill(C) IN IF F.inbuf = <<>> THEN NoTok ELSE Head(F.inbuf)

\* A read returns an error.
AtEOF(C) == ~C.here \/ ~C.open
CanRead(C) == NextTok(C) # NoTok \/ AtEOF(C)

\* startBackgroundRead
StartBackgroundRead(C) ==
  IF C.inRead THEN [C EXCEPT !.panicked = TRUE]
  ELSE IF C.byte # NoTok THEN C
  ELSE [C EXCEPT !.inRead = TRUE]

\* readLocked of the next token: EOF comes with the last byte of a declared
\* length, or with the end of the chunks, and starts the background read.
BodyRead(C) ==
  LET T == Take(C)
      eof == IF C.body.left = -1 THEN NextTok(C).t = "end" ELSE C.body.left = 1
      B == [T EXCEPT !.body.left = IF @ > 0 THEN @ - 1 ELSE @, !.body.sawEOF = eof,
                     !.garbled = @ \/ NextTok(C).i # C.req \/ NextTok(C).t = "head"] IN
  IF eof THEN StartBackgroundRead(B) ELSE B

\* The client is gone: ErrUnexpectedEOF, which for a declared length also
\* marks the body as read.  A connection that the server has closed itself gives
\* another error, which does not.
BodyFails(C) ==
  IF C.body.left > 0 /\ C.open THEN StartBackgroundRead([C EXCEPT !.body.sawEOF = TRUE]) ELSE C

\* shouldClose of the request: HTTP/1.0 closes unless it is asked not to.
ShouldClose(q) == IF q.v = 0 THEN q.conn # "keep-alive" ELSE q.conn = "close"

\* Close of the body: at most MaxPost bytes are read for its end.
CloseBody(C, q, after) ==
  IF C.body.closed \/ C.body.sawEOF \/ (ShouldClose(q) /\ ~q.chunked)
  THEN [C EXCEPT !.body.closed = TRUE, !.pc = after]
  ELSE IF C.body.left > MaxPost
  THEN [C EXCEPT !.body.closed = TRUE, !.body.early = TRUE, !.pc = after]
  ELSE [C EXCEPT !.pc = "drain", !.budget = MaxPost, !.after = after]

-----------------------------------------------------------------------------
(* The decisions of writeHeader *)

\* The Content-Length of a response that was all in the buffer when the
\* handler ended; n is its size.
AutoLength(q, done, n) ==
  done /\ q.te = "none" /\ BodyAllowed(q) /\ q.cl = -1 /\ (q.m # "HEAD" \/ n > 0)

MutCloseBefore(q, hasCL, keep, sawEOF) ==
  \/ IF Wants10KeepAlive(q) /\ (q.m = "HEAD" \/ hasCL \/ ~BodyAllowed(q)) THEN FALSE
     ELSE q.v = 0 \/ WantsClose(q)
  \/ q.hclose \/ ~keep

\* closeAfterReply, but for the body of the request.
CloseBefore(q, hasCL, keep, sawEOF) ==
  \/ IF Wants10KeepAlive(q) /\ (q.m = "HEAD" \/ hasCL \/ ~BodyAllowed(q)) THEN FALSE
     ELSE q.v = 0 \/ WantsClose(q)
  \/ q.hclose \/ ~keep
  \/ ContinueBody(q) /\ ~sawEOF

\* Whether the rest of the request's body is read before the response, was
\* lost to a handler that closed it, or is too big to read.
Unread(C, q) ==
  IF ContentLength(q) = 0 THEN "nothing"
  ELSE IF ContinueBody(q) THEN IF C.continued THEN "discard" ELSE "nothing"
  ELSE IF C.body.closed THEN IF C.body.sawEOF THEN "nothing" ELSE "lost"
  ELSE IF C.body.left >= MaxPost THEN "tooBig"
  ELSE "discard"

\* How the response ends, given hasCL: chunked, or with the connection.
HasBody(q) == q.m # "HEAD" /\ BodyAllowed(q)
Length(q, hasCL) == hasCL /\ (q.te = "none" \/ q.te = "identity")
Chunking(q, hasCL) == HasBody(q) /\ ~Length(q, hasCL) /\ q.v = 1 /\ q.te # "identity"

CloseToEnd(q, hasCL) == HasBody(q) /\ ~Length(q, hasCL) /\ ~Chunking(q, hasCL)

\* The Connection header of the response says it goes on.
SaysKeepAlive(C, q, hasCL) ==
  IF q.v = 1 THEN ~C.closeAfter
  ELSE Wants10KeepAlive(q) /\ (q.m = "HEAD" \/ hasCL \/ ~BodyAllowed(q)) /\ ~q.hclose

-----------------------------------------------------------------------------
(* The Server *)

\* Accept returned, and then StateNew with a goroutine of its own.
Accept(c) ==
  /\ conn[c].pc = "none" /\ srv.listening /\ may.reqs[c] # <<>>
  /\ Update(c, [conn[c] EXCEPT !.pc = "accepted"])
  /\ UNCHANGED <<may, srv>>
StateNew(c) ==
  /\ conn[c].pc = "accepted"
  /\ srv' = [srv EXCEPT !.active = @ \cup {c}]
  /\ Update(c, [conn[c] EXCEPT !.pc = "read", !.state = "new"])
  /\ UNCHANGED may

\* Shutdown: the listeners first.  Then closeIdleConns until it is quiescent,
\* and the count of shutdowns goes down again.
Shutdown ==
  /\ "shutdown" \in may.calls /\ srv.shutdown = "no"
  /\ srv' = [srv EXCEPT !.shutdown = "waiting", !.listening = FALSE]
  /\ UNCHANGED <<may, conn>>

Idle == {c \in srv.active : conn[c].state = "idle"}
CloseIdleConns ==
  /\ srv.shutdown = "waiting"
  /\ srv' = [srv EXCEPT !.active = @ \ Idle,
                        !.shutdown = IF srv.active = Idle THEN "returned" ELSE @]
  /\ conn' = [c \in Conns |-> IF c \in Idle THEN [conn[c] EXCEPT !.open = FALSE] ELSE conn[c]]
  /\ UNCHANGED may

\* Close
Close ==
  /\ "close" \in may.calls /\ ~srv.closed
  /\ srv' = [srv EXCEPT !.closed = TRUE, !.listening = FALSE, !.active = {}]
  /\ conn' = [c \in Conns |-> IF c \in srv.active THEN [conn[c] EXCEPT !.open = FALSE] ELSE conn[c]]
  /\ UNCHANGED may

\* SetKeepAlivesEnabled(false)
DisableKeepAlives ==
  /\ "noKeepAlive" \in may.calls /\ srv.keepAlive
  /\ srv' = [srv EXCEPT !.keepAlive = FALSE, !.active = @ \ Idle]
  /\ conn' = [c \in Conns |-> IF c \in Idle THEN [conn[c] EXCEPT !.open = FALSE] ELSE conn[c]]
  /\ UNCHANGED may

-----------------------------------------------------------------------------
(* serve: one connection *)

Response(C, q, hasCL) ==
  [k |-> "head", i |-> C.req, keep |-> SaysKeepAlive(C, q, hasCL),
   how |-> IF ~HasBody(q) THEN "none" ELSE IF Length(q, hasCL) THEN "length"
           ELSE IF Chunking(q, hasCL) THEN "chunked" ELSE "eof"]
Mark(C, k) == [k |-> k, i |-> C.req, keep |-> TRUE, how |-> "none"]

\* readRequest
ReadRequest(c) ==
  LET C == conn[c] t == NextTok(C) IN
  /\ C.pc = "read" /\ CanRead(C)
  /\ Update(c,
       IF t = NoTok THEN [C EXCEPT !.pc = "closing"]
       ELSE IF t.t # "head" THEN [C EXCEPT !.pc = "closing", !.garbled = TRUE]
       ELSE LET q == may.reqs[c][t.i] IN
            [Take(C) EXCEPT
               !.pc = "got", !.req = t.i, !.reads = 0, !.done = FALSE, !.closeAfter = FALSE,
               !.continued = FALSE, !.ecrEOF = FALSE, !.cl = -1,
               !.garbled = @ \/ t.i # C.req + 1,
               !.body = [NoBody EXCEPT !.left = ContentLength(q), !.sawEOF = ContentLength(q) = 0]])
  /\ UNCHANGED <<may, srv>>

\* From the state change to the call of the handler; an expectation other than
\* 100-continue fails with 417 and Connection: close.
StartHandler(c) ==
  LET C == [conn[c] EXCEPT !.state = "active"] q == Req(c) IN
  /\ C.pc = "got"
  /\ Update(c,
       IF q.expect = "other"
       THEN [C EXCEPT !.closeAfter = TRUE, !.done = TRUE, !.pc = "abort", !.werr = ~C.open,
                      !.out = @ \o <<[Mark(C, "head") EXCEPT !.keep = FALSE, !.how = "length"],
                                     Mark(C, "end")>>]
       ELSE IF C.body.sawEOF THEN StartBackgroundRead([C EXCEPT !.pc = "handler"])
       ELSE [C EXCEPT !.pc = "handler"])
  /\ UNCHANGED <<may, srv>>

\* backgroundRead returns: with a byte, with the end of the client, or because
\* abortPendingRead moved the deadline.
BackgroundRead(c) ==
  LET C == [conn[c] EXCEPT !.inRead = FALSE, !.aborted = FALSE] IN
  /\ conn[c].inRead
  /\ \/ C.open /\ C.wire # <<>> /\ Update(c, [C EXCEPT !.byte = Head(C.wire), !.wire = Tail(@)])
     \/ (~C.open \/ (~C.here /\ C.wire = <<>>) \/ conn[c].aborted) /\ Update(c, C)
  /\ UNCHANGED <<may, srv>>

WantsMore(C, q) == C.reads < q.reads /\ ~C.body.sawEOF /\ ~C.body.closed

\* The first Read of an expectContinueReader asks the client to go on.
WriteContinue(c) ==
  LET C == conn[c] IN
  /\ C.pc = "handler" /\ WantsMore(C, Req(c)) /\ ContinueBody(Req(c)) /\ ~C.continued
  /\ Update(c, [C EXCEPT !.continued = TRUE, !.out = Append(@, Mark(C, "continue"))])
  /\ UNCHANGED <<may, srv>>

\* The handler reads its body, closes it, and goes on to write.
HandlerRead(c) ==
  LET C == conn[c] B == BodyRead(C) IN
  /\ C.pc = "handler" /\ WantsMore(C, Req(c)) /\ (ContinueBody(Req(c)) => C.continued)
  /\ CanRead(C)
  /\ Update(c, IF NextTok(C) = NoTok THEN [BodyFails(C) EXCEPT !.reads = Req(c).reads]
               ELSE [B EXCEPT !.reads = @ + 1, !.ecrEOF = B.body.sawEOF])
  /\ UNCHANGED <<may, srv>>

HandlerWrites(c) ==
  LET C == conn[c] IN
  /\ C.pc = "handler" /\ ~WantsMore(C, Req(c))
  /\ Update(c, IF Req(c).closes THEN CloseBody(C, Req(c), "write") ELSE [C EXCEPT !.pc = "write"])
  /\ UNCHANGED <<may, srv>>

\* CopyN in Close, one token at a time.
Drain(c) ==
  LET C == conn[c]
      data == NextTok(C).t # "end"
      B == IF NextTok(C) = NoTok THEN BodyFails(C)
           ELSE [BodyRead(C) EXCEPT !.budget = IF data THEN @ - 1 ELSE @] IN
  /\ C.pc = "drain" /\ CanRead(C)
  /\ Update(c, IF NextTok(C) = NoTok \/ B.body.sawEOF \/ B.budget = 0
               THEN [B EXCEPT !.body.closed = TRUE, !.body.early = B.budget = 0, !.pc = C.after]
               ELSE B)
  /\ UNCHANGED <<may, srv>>

\* What write lets into the buffer, and w.written.
Written(q) == IF BodyAllowed(q) THEN q.writes ELSE 0
Buffered(q) == IF q.cl # -1 /\ Written(q) > q.cl THEN 0 ELSE Written(q)
EarlyHeader(q) == q.flush \/ Buffered(q) > BufSize

\* The handler writes; then it flushes, panics, takes the connection or returns.
HandlerEnds(c) ==
  LET C == conn[c] q == Req(c) IN
  /\ C.pc = "write"
  /\ Update(c, IF q.does = "hijack" THEN [C EXCEPT !.pc = "hijack"]
               ELSE IF EarlyHeader(q) THEN [C EXCEPT !.pc = "header"]
               ELSE IF q.does = "panic" THEN [C EXCEPT !.pc = "closing"]
               ELSE [C EXCEPT !.pc = "header", !.done = TRUE])
  /\ UNCHANGED <<may, srv>>

\* writeHeader, to the point where it may have to read the request's body.
WriteHeader(c) ==
  LET C == conn[c] q == Req(c)
      cl == IF AutoLength(q, C.done, Buffered(q)) THEN Buffered(q) ELSE q.cl
      close == CloseBefore(q, cl # -1, DoKeepAlives, C.ecrEOF)
      unread == IF close THEN "nothing" ELSE Unread(C, q) IN
  /\ C.pc = "header"
  /\ Update(c, [C EXCEPT !.cl = cl, !.closeAfter = close \/ unread \in {"lost", "tooBig"},
                         !.budget = MaxPost + 1,
                         !.pc = IF unread = "discard" THEN "discard" ELSE "emit"])
  /\ UNCHANGED <<may, srv>>

\* CopyN to ioutil.Discard.
Discard(c) ==
  LET C == conn[c]
      t == NextTok(C)
      B == IF t = NoTok THEN BodyFails(C)
           ELSE [BodyRead(C) EXCEPT !.budget = IF t.t = "end" THEN @ ELSE @ - 1] IN
  /\ C.pc = "discard"
  /\ IF C.body.sawEOF \/ C.body.closed
     THEN Update(c, [C EXCEPT !.body.closed = TRUE, !.pc = "emit"])
     ELSE /\ CanRead(C)
          /\ Update(c, IF t = NoTok \/ B.budget = 0 THEN [B EXCEPT !.closeAfter = TRUE, !.pc = "emit"]
                       ELSE B)
  /\ UNCHANGED <<may, srv>>

\* The rest of writeHeader; when the handler is done finishRequest flushes.
Emit(c) ==
  LET q == Req(c)
      C == [conn[c] EXCEPT !.closeAfter = @ \/ CloseToEnd(q, conn[c].cl # -1), !.werr = ~conn[c].open] IN
  /\ conn[c].pc = "emit"
  /\ Update(c, [C EXCEPT !.out = Append(@, Response(C, q, C.cl # -1)),
                         !.pc = IF ~C.done /\ q.does = "panic" THEN "closing" ELSE "flush"])
  /\ UNCHANGED <<may, srv>>
FinishRequest(c) ==
  LET C == conn[c] IN
  /\ C.pc = "flush"
  /\ Update(c, [C EXCEPT !.done = TRUE, !.out = Append(@, Mark(C, "end")), !.pc = "abort"])
  /\ UNCHANGED <<may, srv>>

\* abortPendingRead, which waits for the background read; then the Close of the body.
AbortPendingRead(c) ==
  LET C == conn[c] IN
  /\ C.pc = "abort" /\ (C.inRead => ~C.aborted)
  /\ Update(c, IF C.inRead THEN [C EXCEPT !.aborted = TRUE] ELSE CloseBody(C, Req(c), "reuse"))
  /\ UNCHANGED <<may, srv>>

\* shouldReuseConnection
ShouldReuseConnection(C, q) ==
  /\ ~C.closeAfter /\ ~C.werr
  /\ ~(q.m # "HEAD" /\ C.cl # -1 /\ BodyAllowed(q) /\ C.cl # Written(q))
  /\ ~(C.body.early /\ ~ContinueBody(q))

Reuse(c) ==
  LET C == conn[c] IN
  /\ C.pc = "reuse"
  /\ Update(c, IF ShouldReuseConnection(C, Req(c)) THEN [C EXCEPT !.pc = "idle", !.state = "idle"]
               ELSE [C EXCEPT !.pc = "closing"])
  /\ UNCHANGED <<may, srv>>
IdleCheck(c) ==
  /\ conn[c].pc = "idle"
  /\ Update(c, [conn[c] EXCEPT !.pc = IF DoKeepAlives THEN "read" ELSE "closing"])
  /\ UNCHANGED <<may, srv>>

MutClosing(c) ==
  /\ conn[c].pc = "closing"
  /\ Update(c, [conn[c] EXCEPT !.open = FALSE, !.state = "closed", !.pc = "end"])
  /\ UNCHANGED <<may, srv>>

\* The deferred function of serve.
Closing(c) ==
  /\ conn[c].pc = "closing"
  /\ srv' = [srv EXCEPT !.active = @ \ {c}]
  /\ Update(c, [conn[c] EXCEPT !.open = FALSE, !.state = "closed", !.pc = "end"])
  /\ UNCHANGED may

\* Hijack: the byte of the background read goes to the reader it returns.
Hijack(c) ==
  LET C == conn[c] IN
  /\ C.pc = "hijack" /\ (C.inRead => ~C.aborted)
  /\ IF C.inRead THEN Update(c, [C EXCEPT !.aborted = TRUE]) /\ UNCHANGED srv
     ELSE /\ srv' = [srv EXCEPT !.active = @ \ {c}]
          /\ Update(c, [C EXCEPT !.state = "hijacked", !.pc = "end", !.byte = NoTok,
                                 !.inbuf = @ \o (IF C.byte = NoTok THEN <<>> ELSE <<C.byte>>)])
  /\ UNCHANGED may

-----------------------------------------------------------------------------
(* The client *)

Responded(C, i) == \E e \in ToSet(C.out) : e.k = "head" /\ e.i = i
HeadOf(C, i) == CHOOSE e \in ToSet(C.out) : e.k = "head" /\ e.i = i
Ended(C, i) == /\ Responded(C, i)
               /\ IF HeadOf(C, i).how = "eof" THEN ~C.open
                  ELSE \E e \in ToSet(C.out) : e.k = "end" /\ e.i = i
SeesClose(C) == ~C.open \/ \E i \in 1..C.i : Ended(C, i) /\ ~HeadOf(C, i).keep

\* How many tokens the body of a request has, and token n of request i.
Size(q) == q.body + (IF q.chunked THEN 1 ELSE 0)
TokAt(q, i, n) == Tok(IF n = 0 THEN "head" ELSE IF n <= q.body THEN "data" ELSE "end", i, n)
SendTo(C, t) == [C EXCEPT !.wire = Append(@, t), !.sent = Append(@, t)]

\* The next head: a client that does not pipeline, or that asked whether to go on, waits
\* for its last response.
ClientHead(c) ==
  LET C == conn[c] i == C.i + 1 q == may.reqs[c][i] IN
  /\ C.here /\ C.pc # "none" /\ C.left = 0 /\ ~C.waits /\ i <= Len(may.reqs[c]) /\ ~SeesClose(C)
  /\ C.i > 0 => (may.pipeline /\ ~ContinueBody(may.reqs[c][C.i])) \/ Ended(C, C.i)
  /\ Update(c, [SendTo(C, TokAt(q, i, 0)) EXCEPT !.i = i, !.left = Size(q), !.waits = ContinueBody(q)])
  /\ UNCHANGED <<may, srv>>
ClientBody(c) ==
  LET C == conn[c] q == may.reqs[c][C.i] IN
  /\ C.here /\ C.left # 0 /\ ~C.waits /\ C.open
  /\ Update(c, [SendTo(C, TokAt(q, C.i, Size(q) - C.left + 1)) EXCEPT !.left = @ - 1])
  /\ UNCHANGED <<may, srv>>
\* It was told to go on or is tired of waiting; or the response came and the
\* body is not sent at all.
ClientGoesOn(c) ==
  /\ conn[c].here /\ conn[c].waits
  /\ Update(c, [conn[c] EXCEPT !.waits = FALSE])
  /\ UNCHANGED <<may, srv>>
ClientSkips(c) ==
  /\ conn[c].here /\ conn[c].waits /\ Responded(conn[c], conn[c].i)
  /\ Update(c, [conn[c] EXCEPT !.waits = FALSE, !.left = 0])
  /\ UNCHANGED <<may, srv>>
ClientCloses(c) ==
  LET C == conn[c] IN
  /\ C.here /\ C.pc # "none"
  /\ SeesClose(C) \/ "leave" \in may.calls \/ (C.i = Len(may.reqs[c]) /\ (C.i = 0 \/ Ended(C, C.i)))
  /\ Update(c, [C EXCEPT !.here = FALSE])
  /\ UNCHANGED <<may, srv>>

-----------------------------------------------------------------------------
Serve(c) ==
  \/ StateNew(c) \/ ReadRequest(c) \/ StartHandler(c) \/ BackgroundRead(c) \/ WriteContinue(c)
  \/ HandlerRead(c) \/ HandlerWrites(c) \/ Drain(c) \/ HandlerEnds(c) \/ WriteHeader(c) \/ Discard(c)
  \/ Emit(c) \/ FinishRequest(c) \/ AbortPendingRead(c) \/ Reuse(c) \/ IdleCheck(c) \/ Closing(c)
  \/ Hijack(c)
Client(c) ==
  ClientHead(c) \/ ClientBody(c) \/ ClientGoesOn(c) \/ ClientSkips(c) \/ ClientCloses(c)
Next ==
  \/ \E c \in Conns : Accept(c) \/ Serve(c) \/ Client(c)
  \/ Shutdown \/ CloseIdleConns \/ Close \/ DisableKeepAlives

Spec == Init /\ [][Next]_vars

\* Goroutines that can go on do, the poll of Shutdown is repeated, and clients
\* go on and, when there is nothing more to do, leave.
FairSpec ==
  /\ Spec
  /\ \A c \in Conns : WF_vars(Serve(c)) /\ WF_vars(Client(c))
  /\ WF_vars(CloseIdleConns)

-----------------------------------------------------------------------------
(* Properties *)

\* Types.
Pcs == {"none", "accepted", "read", "got", "handler", "write", "drain", "header", "discard", "emit",
        "flush", "abort", "reuse", "idle", "hijack", "closing", "end"}
States == {"none", "new", "active", "idle", "hijacked", "closed"}
TokenType == [t : {"none", "head", "data", "end"}, i : Nat, n : Nat]
BodyType == [left : Nat \cup {-1}, sawEOF : BOOLEAN, closed : BOOLEAN, early : BOOLEAN]
OutputType == [k : {"head", "continue", "end"}, i : Nat, keep : BOOLEAN, how : {"none", "length", "chunked", "eof"}]
ConnType ==
  [pc : Pcs, state : States, open : BOOLEAN,
   wire : Seq(TokenType), inbuf : Seq(TokenType), byte : TokenType, used : Nat,
   inRead : BOOLEAN, aborted : BOOLEAN, panicked : BOOLEAN, garbled : BOOLEAN,
   req : Nat, body : BodyType, after : {"none", "write", "reuse"}, budget : 0..(MaxPost + 1), reads : Nat,
   done : BOOLEAN, closeAfter : BOOLEAN, continued : BOOLEAN, ecrEOF : BOOLEAN,
   cl : Nat \cup {-1}, werr : BOOLEAN, out : Seq(OutputType),
   sent : Seq(TokenType), i : Nat, left : Nat, waits : BOOLEAN, here : BOOLEAN]
TypeOK ==
  /\ (\A c \in Conns : may.reqs[c] \in Seq(Requests)) /\ conn \in [Conns -> ConnType]
  /\ srv \in [listening : BOOLEAN, shutdown : {"no", "waiting", "returned"}, keepAlive : BOOLEAN,
              active : SUBSET Conns, closed : BOOLEAN]

\* The client sends its requests token by token: what follows a token, and which of two
\* comes first.  A client that skipped a body was told that the connection closes.
Following(R, t) == IF t.n < Size(R[t.i]) THEN TokAt(R[t.i], t.i, t.n + 1) ELSE TokAt(R[t.i + 1], t.i + 1, 0)
Precedes(t, u) == t.i < u.i \/ (t.i = u.i /\ t.n < u.n)
Skipped(C, R) == /\ C.left = 0 /\ ContinueBody(R[C.i]) /\ Responded(C, C.i)
                 /\ \A e \in ToSet(C.out) : e.k = "head" /\ e.i = C.i => ~e.keep
SendsInOrder(C, R) ==
  /\ C.i \in 0..Len(R)
  /\ \A k \in 1..Len(C.sent) : LET t == C.sent[k] IN
       t.i \in 1..C.i /\ t.n \in 0..Size(R[t.i]) /\ t = TokAt(R[t.i], t.i, t.n)
  /\ \A k \in 1..Len(C.sent) : C.sent[k] = IF k = 1 THEN TokAt(R[1], 1, 0) ELSE Following(R, C.sent[k - 1])
  /\ \A k, l \in 1..Len(C.sent) : k < l => Precedes(C.sent[k], C.sent[l])
  /\ C.i = 0 => C.sent = <<>> /\ C.left = 0 /\ ~C.waits
  /\ C.i > 0 => LET t == C.sent[Len(C.sent)] IN
       C.sent # <<>> /\ t.i = C.i /\ C.left <= Size(R[C.i]) /\ (t.n = Size(R[C.i]) - C.left \/ Skipped(C, R))
  /\ C.waits => C.left = Size(R[C.i]) /\ ContinueBody(R[C.i]) /\ C.sent[Len(C.sent)].n = 0

\* No byte of the client is lost or reordered between the socket, the byte of
\* the background read and the bufio.Reader, and a hijacked connection leaves
\* none behind in the connReader.
ByteKept(C) == IF C.byte = NoTok THEN <<>> ELSE <<C.byte>>
BytesInOrder(C) ==
  /\ C.used <= Len(C.sent)
  /\ C.inbuf \o ByteKept(C) \o C.wire = SubSeq(C.sent, C.used + 1, Len(C.sent))
  /\ C.state = "hijacked" => C.byte = NoTok
NoByteLost == \A c \in Conns : BytesInOrder(conn[c])

\* Nothing can be read any more.
Dead(C) == (~C.here /\ C.used = Len(C.sent)) \/ (~C.open /\ C.inbuf = <<>> /\ C.byte = NoTok)

\* The server is where the client's tokens say: within the body of the request it
\* answers, with so much of it left, or, when that is read, before the next head.
InStep(C, R) ==
  /\ C.req \in 0..C.i /\ (C.used = 0 <=> C.req = 0)
  /\ C.req = 0 => C.body.sawEOF
  /\ C.req > 0 => LET t == C.sent[C.used] q == R[C.req] IN
       /\ t.i = C.req
       /\ C.body.sawEOF => t.n = Size(q) \/ Dead(C)
       /\ ~C.body.sawEOF => t.n < Size(q) /\ C.body.left = IF q.chunked THEN -1 ELSE Size(q) - t.n

\* A request's head is parsed only where the client put one, in order, and
\* what a body returns or discards are the bytes of its own request: whatever
\* the handler left unread, the rest of a body is never taken for a request.
Framing == \A c \in Conns : /\ ~conn[c].garbled
                            /\ SendsInOrder(conn[c], may.reqs[c]) /\ InStep(conn[c], may.reqs[c])

\* The connection is never read by two at once ("invalid concurrent Body.Read
\* call" panics): the background read is over before the serve loop reads on.
OneReader(C) ==
  C.inRead => /\ C.byte = NoTok /\ C.body.sawEOF /\ (C.pc = "end" => C.state # "hijacked")
              /\ C.pc \notin {"none", "accepted", "read", "got", "idle"} /\ (C.pc = "reuse" => C.closeAfter)
NoReadPanic == \A c \in Conns : ~conn[c].panicked /\ OneReader(conn[c])

\* Where the serve loop is and what it has done: a connection whose body is not read to
\* its end closes after the reply.
Replying(C) == C.pc \in {"flush", "abort", "reuse", "idle"} \/ (C.pc = "drain" /\ C.after = "reuse")
Serving(C) == C.pc \notin {"none", "accepted", "read", "closing", "end"}
ServesInOrder(C) ==
  /\ Serving(C) => C.req > 0
  /\ C.pc \in {"none", "accepted", "read", "idle"} => C.body.sawEOF
  /\ C.ecrEOF => C.body.sawEOF /\ ~(C.waits /\ C.req = C.i)
  /\ C.pc = "drain" => C.budget > 0 /\ ~C.body.sawEOF /\ ~C.body.closed /\ C.after # "none"
  /\ C.pc = "discard" => C.budget > 0 /\ (C.body.closed => C.body.sawEOF)
  /\ C.pc = "emit" \/ Replying(C) => C.closeAfter \/ C.body.sawEOF
  /\ C.pc = "idle" => ~C.closeAfter

\* A connection that is kept ended its response in a way the client sees: all
\* of a declared length was written, or it was chunked or without a body; and
\* the header did not announce that it would close.
LengthOf(C, q) == C.cl = q.cl \/ (q.cl = -1 /\ C.cl = Buffered(q))
Replies(C, R) ==
  /\ \A e \in ToSet(C.out) : /\ e.i <= C.req
                             /\ e.k = "head" /\ e.i = C.req => Replying(C) \/ ~Serving(C)
                             /\ e.k = "head" /\ e.i = C.i /\ C.waits => ~e.keep
  /\ C.pc \in {"discard", "emit"} /\ ~C.closeAfter =>
       LengthOf(C, R[C.req]) /\ ~CloseBefore(R[C.req], C.cl # -1, TRUE, C.ecrEOF)
  /\ Replying(C) => Responded(C, C.req)
  /\ Replying(C) /\ ~C.closeAfter =>
       /\ LengthOf(C, R[C.req])
       /\ \A e \in ToSet(C.out) : e.k = "head" /\ e.i = C.req =>
            e.keep /\ e.how # "eof" /\ (e.how = "length" => HasBody(R[C.req]) /\ C.cl # -1)
KeptOpen(C, R) ==
  C.pc = "idle" => LET h == HeadOf(C, C.req) IN
    h.how # "eof" /\ h.keep /\ (h.how = "length" => C.cl = Buffered(R[C.req]))
Delimited == \A c \in Conns : LET R == may.reqs[c] IN
               ServesInOrder(conn[c]) /\ Replies(conn[c], R) /\ KeptOpen(conn[c], R)

\* A tracked connection has a goroutine that will remove it, so Shutdown can
\* become quiescent; and a connection nobody closed or took over is tracked.
Tracked ==
  \A c \in Conns : LET C == conn[c] IN
    /\ c \in srv.active <=> C.state \in {"new", "active", "idle"} /\ C.open
    /\ C.state = "none" <=> C.pc \in {"none", "accepted"}
    /\ C.state = "none" => C.open
    /\ C.state \in {"hijacked", "closed"} <=> C.pc = "end"

\* Shutdown returns once clients have what they asked for.
ShutdownReturns == srv.shutdown = "waiting" ~> srv.shutdown = "returned"

\* Every connection that was accepted is closed in the end, or taken over.
ConnectionsEnd == \A c \in Conns : conn[c].pc = "accepted" ~> conn[c].pc = "end"

\* Neither Shutdown nor SetKeepAlivesEnabled closes a connection that has a request: only
\* Close does, and the connection's own goroutine when it has answered.  The exception is a
\* request that has just been read on a kept connection: until setState the connection is
\* still idle, so it is closed and its handler runs after Shutdown may have returned.
Answering == Pcs \ {"none", "accepted", "read", "got", "idle", "closing", "end"}
RequestsSpared ==
  [][\A c \in Conns : conn[c].pc \in Answering /\ conn[c].open /\ ~conn'[c].open => srv'.closed /\ ~srv.closed]_vars

\* The serve loop, the handler, the background read and a hijack take the client's bytes in
\* turn: heads and bodies are found where the client put them, none is lost, and a kept
\* connection has ended its response; and every connection is tracked until someone ends it.
ConnectionsSound == TypeOK /\ Framing /\ NoByteLost /\ NoReadPanic /\ Delimited /\ Tracked

\* Every connection ends, and Shutdown returns, without closing one under its request.
ServerEnds == ShutdownReturns /\ ConnectionsEnd /\ RequestsSpared
=============================================================================
