--------------------------- MODULE HttpTransport ---------------------------
(***************************************************************************)
(* The HTTP/1 client of the fork (http/transport.go): Transport's pool of  *)
(* idle connections, getConn with its dial, persistConn with its readLoop, *)
(* writeLoop and roundTrip, cancelation, retries and the body of a         *)
(* response; and a server at the other end of every connection.            *)
(*                                                                         *)
(* A request and a response are the call they belong to.  Proxies, TLS,    *)
(* compression and Expect are not here; a response that cannot be parsed   *)
(* is one more error of the connection.                                    *)
(***************************************************************************)
EXTENDS Integers, Sequences, FiniteSets, SequencesExt

CONSTANTS
  Calls,            \* calls of RoundTrip
  Keys,             \* connectMethodKeys
  MaxConns,         \* connections a behaviour may dial
  MaxSrvCloses,     \* connections the server closes
  MaxIdle,          \* MaxIdleConns, 0 for no limit
  MaxIdlePerHost,   \* maxIdleConnsPerHost
  Scripts           \* what the callers and the server do; see may
ASSUME HttpTransportAssumption ==
  /\ MaxConns \in Nat \ {0} /\ MaxSrvCloses \in Nat /\ MaxIdle \in Nat /\ MaxIdlePerHost \in Nat \ {0}
  /\ \A m \in Scripts : \A c \in Calls : m.req[c].key \in Keys

VARIABLES
  may,     \* the script
  pool,    \* Transport: idleConn, idleLRU (the connections, and which of two is older), idleConnCh
  conns,   \* persistConn, in the order they were dialled
  calls    \* each RoundTrip, and the reader of its response's body
vars == <<may, pool, conns, calls>>

\* A script: the calls that come after others; the requests (a key; a body to send; if the method may be
\* replayed; if the response has a body and how the caller treats it); what
\* may happen: cancel (of which calls), timer (IdleConnTimeout), header (ResponseHeaderTimeout),
\* srvClose, dialFails, closeIdle; silent when the server need not answer.
Conns == 1..Len(conns)
NewCall == [pc |-> "idle", conn |-> 0, dial |-> 0, ch |-> 0, canceler |-> "none", cancelc |-> FALSE,
            ctx |-> FALSE, start |-> 0, wch |-> "none", wrote |-> FALSE, err |-> "none", res |-> "none"]
NewPConn(key) ==
  [key |-> key, dial |-> "dialing", pending |-> FALSE, read |-> "none", write |-> "none",
   closed |-> "no", canceled |-> FALSE, reused |-> FALSE, expected |-> 0, nwrite |-> 0,
   writech |-> {}, reqch |-> {}, rc |-> {}, werrch |-> "none", alive |-> TRUE,
   bodyRead |-> "none", timer |-> "none", resp |-> {}, closeErr |-> "other",
   got |-> <<>>, full |-> 0, answered |-> 0, out |-> <<>>, srvClosed |-> FALSE]

Init ==
  /\ may \in Scripts
  /\ pool = [idle |-> [k \in Keys |-> <<>>], lru |-> {}, older |-> {}, ch |-> [k \in Keys |-> 0],
             chans |-> 0, wantIdle |-> FALSE, skipped |-> {}]
  /\ conns = <<>>
  /\ calls = [c \in Calls |-> NewCall]

Req(c) == may.req[c]
\* The state an operation works on, so that they compose.
Now == [pool |-> pool, conns |-> conns, calls |-> calls]
Becomes(S) == pool' = S.pool /\ conns' = S.conns /\ calls' = S.calls /\ UNCHANGED may
WithConn(S, p, P) == [S EXCEPT !.conns[p] = P]

\* closeLocked: the first error stays.
Closed(P, err) == IF P.closed = "no" THEN [P EXCEPT !.closed = err] ELSE P
ClosePC(S, p, err) == [S EXCEPT !.conns[p] = Closed(@, err)]

-----------------------------------------------------------------------------
(* The pool *)

\* The later ones slide down.
Without(q, p) ==
  IF p \in ToSet(q) THEN RemoveAt(q, CHOOSE i \in DOMAIN q : q[i] = p) ELSE q

\* connLRU
LRUAdd(pl, p) == [pl EXCEPT !.lru = @ \cup {p}, !.older = @ \cup (pl.lru \X {p})]
LRURemove(pl, gone) == [pl EXCEPT !.lru = @ \ gone, !.older = {e \in @ : e[1] \notin gone /\ e[2] \notin gone}]
Oldest(pl) == CHOOSE p \in pl.lru : \A q \in pl.lru \ {p} : <<p, q>> \in pl.older

\* removeIdleConnLocked; it also stops the timer.
RemoveIdleConn(S, p) ==
  LET k == S.conns[p].key IN
  [S EXCEPT !.pool = [LRURemove(S.pool, {p}) EXCEPT !.idle[k] = Without(S.pool.idle[k], p)],
            !.conns[p].timer = IF @ = "armed" THEN "none" ELSE @]

\* handlePendingDial: the dial of c goes on without it.
HandlePendingDial(S, c) ==
  [S EXCEPT !.conns[S.calls[c].dial].pending = TRUE, !.calls[c].dial = 0]

Waiting(S, k) == {c \in Calls : S.calls[c].pc = "wait" /\ S.calls[c].ch = S.pool.ch[k] /\ S.pool.ch[k] # 0}

\* The end of tryPutIdleConn: p is idle; the one idle longest may be too many.
AddIdle(S, p) ==
  LET k == S.conns[p].key
      A == [S EXCEPT !.pool = [LRUAdd(S.pool, p) EXCEPT !.idle[k] = Append(S.pool.idle[k], p)],
                     !.conns[p].timer = IF may.timer THEN "armed" ELSE "none"]
      oldest == Oldest(A.pool) IN
  IF MaxIdle # 0 /\ Cardinality(A.pool.lru) > MaxIdle
  THEN RemoveIdleConn(ClosePC(A, oldest, "other"), oldest) ELSE A

\* tryPutIdleConn, as the set of its outcomes: a call that waits for its dial
\* takes p, p joins the idle ones, or it is refused.
TryPutIdleConn(S, p) ==
  LET k == S.conns[p].key
      R == [S EXCEPT !.conns[p].reused = TRUE]
      D == [R EXCEPT !.pool.ch[k] = 0] IN
  IF ~may.keep \/ S.conns[p].closed # "no" THEN {[s |-> S, ok |-> FALSE]}
  ELSE IF Waiting(S, k) # {}
  THEN {[s |-> [HandlePendingDial(R, c) EXCEPT !.calls[c] = [@ EXCEPT !.conn = p, !.pc = "enter"]], ok |-> TRUE] :
          c \in Waiting(S, k)}
  ELSE IF S.pool.wantIdle \/ Len(S.pool.idle[k]) >= MaxIdlePerHost THEN {[s |-> D, ok |-> FALSE]}
  ELSE {[s |-> AddIdle(D, p), ok |-> TRUE]}

MutPutOrCloseIdleConn(S, p) == {r.s : r \in TryPutIdleConn(S, p)}

PutOrCloseIdleConn(S, p) ==
  {IF r.ok THEN r.s ELSE ClosePC(r.s, p, "other") : r \in TryPutIdleConn(S, p)}

\* getIdleConn: the most recent one that is neither broken nor expiring; those
\* it passes over are no longer idle.
TakeIdle(q, at) == SubSeq(q, 1, at - 1)
Usable(P) == P.closed = "no" /\ P.timer # "fired"
GetIdleConn(S, k) ==
  LET q == S.pool.idle[k]
      good == {i \in DOMAIN q : Usable(S.conns[q[i]])}
      at == IF good = {} THEN 1 ELSE Max(good)
      gone == {q[i] : i \in at..Len(q)} IN
  [p |-> IF good = {} THEN 0 ELSE q[at],
   s |-> [S EXCEPT !.pool = [LRURemove(S.pool, gone) EXCEPT !.idle[k] = TakeIdle(q, at),
                               !.skipped = S.pool.skipped \cup {x \in gone : S.conns[x].timer = "fired" /\ S.conns[x].closed = "no"}],
                   !.conns = [x \in DOMAIN S.conns |->
                                IF x \in gone /\ S.conns[x].closed = "no" /\ S.conns[x].timer = "armed"
                                THEN [S.conns[x] EXCEPT !.timer = "none"] ELSE S.conns[x]]]]

\* getIdleConnCh
GetIdleConnCh(S, c, k) ==
  LET n == S.pool.chans + 1 IN
  IF ~may.keep THEN S
  ELSE IF S.pool.ch[k] # 0 THEN [S EXCEPT !.pool.wantIdle = FALSE, !.calls[c].ch = S.pool.ch[k]]
  ELSE [S EXCEPT !.pool.wantIdle = FALSE, !.pool.chans = n, !.pool.ch[k] = n, !.calls[c].ch = n]

\* CloseIdleConnections
CloseIdleConnections ==
  /\ may.closeIdle
  /\ LET idle == UNION {ToSet(pool.idle[k]) : k \in Keys} IN
     Becomes([Now EXCEPT
       !.pool = [pool EXCEPT !.idle = [k \in Keys |-> <<>>], !.lru = {}, !.older = {}, !.ch = [k \in Keys |-> 0],
                          !.wantIdle = TRUE],
       !.conns = [p \in DOMAIN conns |-> IF p \in idle THEN Closed(conns[p], "other") ELSE conns[p]]])

\* The idle timer expires, and later its goroutine has the lock:
\* closeConnIfStillIdle.
IdleTimerFires(p) ==
  /\ conns[p].timer = "armed"
  /\ Becomes([Now EXCEPT !.conns[p].timer = "fired"])
CloseConnIfStillIdle(p) ==
  /\ conns[p].timer = "fired"
  /\ LET S == [Now EXCEPT !.conns[p].timer = "none"] IN
     Becomes(IF p \in pool.lru THEN ClosePC(RemoveIdleConn(S, p), p, "other") ELSE S)

-----------------------------------------------------------------------------
(* getConn *)

\* getConn: an idle connection, or a dial that races the channel.
GetConn(c) ==
  LET k == Req(c).key
      g == GetIdleConn(Now, k)
      n == Len(conns) + 1 IN
  /\ calls[c].pc \in {"idle", "retry"} /\ \A d \in may.after[c] : calls[d].pc = "returned"
  /\ IF g.p # 0
     THEN Becomes([g.s EXCEPT !.calls[c] = [@ EXCEPT !.pc = "enter", !.conn = g.p, !.canceler = "noop"]])
     ELSE /\ n <= MaxConns
          /\ Becomes(GetIdleConnCh(
               [g.s EXCEPT !.calls[c] = [@ EXCEPT !.pc = "wait", !.dial = n, !.canceler = "cancelc", !.cancelc = FALSE],
                           !.conns = Append(@, NewPConn(k))], c, k))

\* dialConn returns; a connection has its two loops.
DialDone(p) ==
  /\ conns[p].dial = "dialing"
  /\ \/ Becomes([Now EXCEPT !.conns[p] = [@ EXCEPT !.dial = "ready", !.read = "peek", !.write = "idle"]])
     \/ may.dialFails /\ Becomes([Now EXCEPT !.conns[p] = [@ EXCEPT !.dial = "failed", !.closed = "other"]])

Fails(S, c, err) == [S EXCEPT !.calls[c] = [@ EXCEPT !.pc = "failed", !.err = err, !.canceler = "none"]]

\* The select of getConn: the dial, the end of the caller's context, a cancel.
GotDial(c) ==
  LET p == calls[c].dial IN
  /\ calls[c].pc = "wait" /\ conns[p].dial \in {"ready", "failed"}
  /\ LET S == [Now EXCEPT !.conns[p].dial = "done", !.calls[c].dial = 0] IN
     Becomes(IF conns[p].dial = "ready" THEN [S EXCEPT !.calls[c] = [@ EXCEPT !.pc = "enter", !.conn = p]]
             ELSE Fails(S, c, "dial"))
WaitCanceled(c) ==
  /\ calls[c].pc = "wait" /\ (calls[c].ctx \/ calls[c].cancelc)
  /\ Becomes(Fails(HandlePendingDial(Now, c), c, "canceled"))

\* The goroutine of handlePendingDial.
PendingDial(p) ==
  /\ conns[p].pending /\ conns[p].dial \in {"ready", "failed"}
  /\ LET S == [Now EXCEPT !.conns[p] = [@ EXCEPT !.pending = FALSE, !.dial = "done"]] IN
     IF conns[p].dial = "failed" THEN Becomes(S)
     ELSE \E T \in PutOrCloseIdleConn(S, p) : Becomes(T)

-----------------------------------------------------------------------------
(* roundTrip *)

\* A canceler that is gone says the request was canceled.
EnterRoundTrip(c) ==
  LET p == calls[c].conn IN
  /\ calls[c].pc = "enter"
  /\ IF calls[c].canceler = "none"
     THEN \E S \in PutOrCloseIdleConn(Fails(Now, c, "canceled"), p) : Becomes(S)
     ELSE Becomes([Now EXCEPT !.calls[c] = [@ EXCEPT !.canceler = "conn", !.pc = "send"],
                              !.conns[p].expected = @ + 1])
\* writech and reqch, each with room for one.
SendRequest(c) ==
  LET p == calls[c].conn IN
  /\ calls[c].pc = "send" /\ conns[p].writech = {} /\ conns[p].reqch = {}
  /\ Becomes([Now EXCEPT !.calls[c] = [@ EXCEPT !.pc = "sent", !.start = conns[p].nwrite, !.wrote = FALSE, !.wch = "none"],
                         !.conns[p] = [@ EXCEPT !.writech = {c}, !.reqch = {c}]])

OnWire(c) == calls[c].pc = "sent"
NothingWritten(c, p) == conns[p].nwrite = calls[c].start /\ ~Req(c).body

\* The select of roundTrip: the writer's answer,
SeesWrite(c) ==
  LET p == calls[c].conn err == calls[c].wch IN
  /\ OnWire(c) /\ err # "none" /\ ~calls[c].wrote
  /\ IF err = "nil" THEN Becomes([Now EXCEPT !.calls[c].wrote = TRUE])
     ELSE Becomes(ClosePC(Fails(Now, c, IF conns[p].canceled THEN "canceled" ELSE err), p, "other"))
\* the end of the connection (mapRoundTripErrorAfterClosed),
SeesClosed(c) ==
  LET P == conns[calls[c].conn] IN
  /\ OnWire(c) /\ P.closed # "no"
  /\ P.canceled \/ P.closed \in {"closedIdle", "readErr"} \/ P.write = "done"
  /\ Becomes(Fails(Now, c, IF P.canceled THEN "canceled"
                           ELSE IF P.closed \in {"closedIdle", "readErr"} THEN P.closed
                           ELSE IF NothingWritten(c, calls[c].conn) THEN "nothing" ELSE "broken"))
\* ResponseHeaderTimeout,
HeaderTimeout(c) ==
  /\ may.header /\ OnWire(c) /\ calls[c].wrote
  /\ Becomes(ClosePC(Fails(Now, c, "timeout"), calls[c].conn, "other"))

MutCancelRequest(S, c) == [S EXCEPT !.calls[c].canceler = "none"]

\* cancelRequest: the canceler is called at most once.
CancelRequest(S, c) ==
  LET C == S.calls[c]
      N == [S EXCEPT !.calls[c].canceler = "none"] IN
  IF C.canceler = "conn"
  THEN [N EXCEPT !.conns[C.conn] = Closed([@ EXCEPT !.canceled = TRUE], "other")]
  ELSE IF C.canceler = "cancelc" THEN [N EXCEPT !.calls[c].cancelc = TRUE]
  ELSE N
\* and the end of the caller's context, which only tells the canceler.
SeesCancel(c) ==
  /\ OnWire(c) /\ calls[c].ctx /\ calls[c].canceler # "none"
  /\ Becomes(CancelRequest(Now, c))

\* shouldRetryRequest
ShouldRetryRequest(c, P, err) ==
  P.reused /\ (err = "nothing" \/ (Req(c).replayable /\ err \in {"readErr", "closedIdle"}))

\* RoundTrip returns the error, or tries again.
Retry(c) ==
  /\ calls[c].pc = "failed"
  /\ calls' = [calls EXCEPT ![c].pc =
                 IF calls[c].conn # 0 /\ ShouldRetryRequest(c, conns[calls[c].conn], calls[c].err)
                 THEN "retry" ELSE "returned", ![c].conn = 0]
  /\ UNCHANGED <<may, pool, conns>>

\* The caller gives up: its context ends, or it calls CancelRequest.
ContextEnds(c) ==
  /\ c \in may.cancel /\ ~calls[c].ctx /\ calls[c].pc # "idle" /\ calls[c].pc # "returned"
  /\ calls' = [calls EXCEPT ![c].ctx = TRUE]
  /\ UNCHANGED <<may, pool, conns>>
CallerCancels(c) ==
  /\ c \in may.cancelCall /\ calls[c].canceler # "none" /\ calls[c].pc # "returned"
  /\ Becomes(CancelRequest(Now, c))

-----------------------------------------------------------------------------
(* writeLoop *)

\* The result goes to the reader and to roundTrip, if that still waits.
WriteEnds(S, p, err) ==
  [S EXCEPT !.conns[p] = [@ EXCEPT !.werrch = err, !.writech = {}, !.write = IF err = "nil" THEN "idle" ELSE "failed"],
            !.calls = [c \in Calls |-> IF c \in S.conns[p].writech /\ S.calls[c].conn = p
                                       THEN [S.calls[c] EXCEPT !.wch = err] ELSE S.calls[c]]]
Arrives(P) == ~P.srvClosed

\* The head, which is all of a request without a body; then the body.
WriteHead(p) ==
  LET P == conns[p] c == CHOOSE c \in P.writech : TRUE
      Q == [P EXCEPT !.nwrite = @ + 1, !.got = IF Arrives(P) THEN Append(@, c) ELSE @] IN
  /\ P.write = "idle" /\ P.writech # {} /\ P.closed = "no"
  /\ Becomes(IF Req(c).body THEN WithConn(Now, p, [Q EXCEPT !.write = "body"])
             ELSE WriteEnds(WithConn(Now, p, [Q EXCEPT !.full = @ + 1]), p, "nil"))
WriteBody(p) ==
  /\ conns[p].write = "body" /\ conns[p].closed = "no"
  /\ Becomes(WriteEnds([Now EXCEPT !.conns[p].full = @ + 1], p, "nil"))
WriteFails(p) ==
  LET P == conns[p] c == CHOOSE c \in P.writech : TRUE IN
  /\ (P.write = "idle" /\ P.writech # {}) \/ P.write = "body"
  /\ (P.closed # "no" \/ P.srvClosed)
  /\ Becomes(WriteEnds(Now, p, IF P.write = "idle" /\ ~Req(c).body THEN "nothing" ELSE "write"))
WriteLoopEnds(p) ==
  /\ \/ conns[p].write = "failed"
     \/ conns[p].write = "idle" /\ conns[p].closed # "no"
  /\ Becomes([ClosePC(Now, p, "other") EXCEPT !.conns[p].write = "done"])

-----------------------------------------------------------------------------
(* readLoop *)

HasData(P) == P.out # <<>>
\* Peek(1) returns: with nobody waiting for a response the connection is done.
PeekReturns(P) == HasData(P) \/ P.srvClosed \/ P.closed # "no"
PeekUnexpected(p) ==
  LET P == conns[p] IN
  /\ P.read = "peek" /\ PeekReturns(P) /\ P.expected = 0
  /\ Becomes([ClosePC(Now, p, IF ~HasData(P) /\ P.closed = "no" THEN "closedIdle" ELSE "other")
                EXCEPT !.conns[p].read = "exit"])

\* setReqCanceler(nil)
NoCanceler(S, c) == [S EXCEPT !.calls[c].canceler = "none"]

TakeResponse(P) ==
  [P EXCEPT !.out = Tail(@), !.expected = @ - 1, !.resp = {Head(P.out)}, !.alive = ~Head(P.out).close]

\* The response to the request in reqch, or the error of Peek.
ReadResponse(p) ==
  LET P == conns[p] c == CHOOSE c \in P.reqch : TRUE
      Q == [P EXCEPT !.reqch = {}, !.rc = {c}] IN
  /\ P.read = "peek" /\ PeekReturns(P) /\ P.expected > 0 /\ P.reqch # {}
  /\ \/ /\ HasData(P)
        /\ Becomes(WithConn(Now, p, [TakeResponse(Q) EXCEPT !.read = IF Req(c).resBody THEN "deliver" ELSE "recycle"]))
     \/ /\ ~HasData(P) \/ P.closed # "no"
        /\ LET T == WithConn(Now, p, [Q EXCEPT !.closeErr = "readErr", !.read = "error"]) IN
           Becomes(IF ShouldRetryRequest(c, P, "readErr") THEN T ELSE NoCanceler(T, c))

Answer(P) == LET r == CHOOSE r \in P.resp : TRUE IN IF r.k = "head" THEN r.call ELSE "garbage"
RC(p) == CHOOSE c \in conns[p].rc : TRUE
Gone(p, c) == ~(calls[c].pc = "sent" /\ calls[c].conn = p)

MutRecycles(P, seen) ==
  {P.alive /\ open /\ P.werrch = "nil" : open \in {TRUE, ~P.srvClosed}}

\* Whether it is kept: the response was all seen, without EOF, and the request
\* was all written (wroteRequest, which does not wait long).
Recycles(P, seen) ==
  {seen /\ P.alive /\ open /\ P.werrch = "nil" : open \in {TRUE, ~P.srvClosed}}

\* A response without a body: back to the pool first, then to the caller.
Recycle(p) ==
  LET P == conns[p]
      S == NoCanceler(WithConn(Now, p, [P EXCEPT !.read = "deliver", !.werrch = "none"]), RC(p)) IN
  /\ P.read = "recycle"
  /\ \E keep \in Recycles(P, TRUE) :
       IF keep THEN \E r \in TryPutIdleConn(S, p) : Becomes([r.s EXCEPT !.conns[p].alive = r.ok])
       ELSE Becomes([S EXCEPT !.conns[p].alive = FALSE])

\* The send on rc.ch, or callerGone.
Deliver(p) ==
  LET P == conns[p] c == RC(p) IN
  /\ P.read \in {"deliver", "error"}
  /\ IF Gone(p, c) THEN Becomes(WithConn(Now, p, [P EXCEPT !.read = "exit", !.rc = {}]))
     ELSE IF P.read = "error"
     THEN Becomes(WithConn(Fails(Now, c, IF P.canceled THEN "canceled" ELSE "readErr"), p,
                           [P EXCEPT !.read = "exit", !.rc = {}]))
     ELSE IF Req(c).resBody
     THEN Becomes([Now EXCEPT !.conns[p] = [@ EXCEPT !.read = "body", !.bodyRead = "none"],
                              !.calls[c] = [@ EXCEPT !.pc = "body", !.res = Answer(P)]])
     ELSE Becomes([Now EXCEPT !.conns[p] = [@ EXCEPT !.read = IF P.alive THEN "peek" ELSE "exit", !.rc = {}],
                              !.calls[c] = [@ EXCEPT !.pc = "returned", !.res = Answer(P)]])

\* The select that waits for the reader of the body: it saw EOF or closed it,
BodyDone(p) ==
  LET P == conns[p]
      S == NoCanceler(WithConn(Now, p, [P EXCEPT !.read = "eofc", !.werrch = "none"]), RC(p)) IN
  /\ P.read = "body" /\ P.bodyRead # "none"
  /\ \E keep \in Recycles(P, P.bodyRead = "eof") :
       IF keep THEN \E r \in TryPutIdleConn(S, p) : Becomes([r.s EXCEPT !.conns[p].alive = r.ok])
       ELSE Becomes([S EXCEPT !.conns[p].alive = FALSE])
\* its context ended, or the connection was closed.
BodyCanceled(p) ==
  LET c == RC(p) S == WithConn(Now, p, [conns[p] EXCEPT !.alive = FALSE, !.read = "exit", !.rc = {}]) IN
  /\ conns[p].read = "body"
  /\ \/ calls[c].ctx /\ Becomes(CancelRequest(S, c))
     \/ conns[p].closed # "no" /\ Becomes(S)

\* eofc lets the reader go on once the connection is in the pool.
Eofc(p) ==
  LET c == RC(p) IN
  /\ conns[p].read = "eofc"
  /\ Becomes([Now EXCEPT !.conns[p] = [@ EXCEPT !.read = IF conns[p].alive THEN "peek" ELSE "exit", !.rc = {}],
                         !.calls[c].pc = IF @ = "eofwait" THEN "returned" ELSE @])

\* The deferred close and removeIdleConn, and the close of eofc.
ReadLoopEnds(p) ==
  /\ conns[p].read = "exit"
  /\ Becomes([RemoveIdleConn(ClosePC(Now, p, conns[p].closeErr), p) EXCEPT
                !.conns[p] = [@ EXCEPT !.read = "done", !.rc = {}, !.resp = {}, !.out = <<>>, !.alive = FALSE,
                                       !.bodyRead = "none", !.werrch = "none"],
                !.calls = [c \in Calls |-> IF calls[c].pc = "eofwait" /\ calls[c].conn = p
                                           THEN [calls[c] EXCEPT !.pc = "returned"] ELSE calls[c]]])

-----------------------------------------------------------------------------
(* bodyEOFSignal: the reader of a response *)

ReadBody(c) ==
  LET p == calls[c].conn IN
  /\ calls[c].pc = "body"
  /\ IF conns[p].closed # "no"
     THEN Becomes([Now EXCEPT !.conns[p].bodyRead = "early", !.calls[c].pc = "returned"])
     ELSE IF Req(c).reads = "all"
     THEN /\ conns[p].out # <<>>
          /\ Becomes([Now EXCEPT !.conns[p] = [@ EXCEPT !.bodyRead = "eof", !.out = Tail(conns[p].out)], !.calls[c].pc = "eofwait"])
     ELSE Becomes([Now EXCEPT !.conns[p].bodyRead = "early", !.calls[c].pc = "returned"])

-----------------------------------------------------------------------------
(* The server *)

\* A response: its head, and its body.
Message(c, close) ==
  <<[call |-> c, close |-> close, k |-> "head"]>>
    \o (IF Req(c).resBody THEN <<[call |-> c, close |-> close, k |-> "body"]>> ELSE <<>>)
SrvMayClose == may.srvClose /\ Cardinality({p \in Conns : conns[p].srvClosed}) < MaxSrvCloses
SrvRespond(p) ==
  LET P == conns[p] IN
  /\ P.closed = "no" /\ ~P.srvClosed /\ P.answered < Len(P.got) /\ (P.answered < P.full \/ may.early)
  /\ \E close \in IF SrvMayClose THEN BOOLEAN ELSE {FALSE} :
       Becomes(WithConn(Now, p, [P EXCEPT !.answered = @ + 1, !.srvClosed = close,
                                          !.out = @ \o Message(P.got[P.answered + 1], close)]))
SrvClose(p) ==
  /\ SrvMayClose /\ conns[p].dial # "dialing" /\ conns[p].closed = "no" /\ ~conns[p].srvClosed
  /\ Becomes([Now EXCEPT !.conns[p].srvClosed = TRUE])

-----------------------------------------------------------------------------
Step(c) ==
  \/ GetConn(c) \/ GotDial(c) \/ WaitCanceled(c) \/ EnterRoundTrip(c) \/ SendRequest(c) \/ SeesWrite(c)
  \/ SeesClosed(c) \/ SeesCancel(c) \/ Retry(c) \/ ReadBody(c)
ReadLoop(p) ==
  \/ PeekUnexpected(p) \/ ReadResponse(p) \/ Recycle(p) \/ Deliver(p) \/ BodyDone(p) \/ BodyCanceled(p)
  \/ Eofc(p) \/ ReadLoopEnds(p)
WriteLoop(p) == WriteHead(p) \/ WriteBody(p) \/ WriteFails(p) \/ WriteLoopEnds(p)
Dialer(p) == DialDone(p) \/ PendingDial(p)
Server(p) == SrvRespond(p) \/ SrvClose(p)

Next ==
  \/ \E c \in Calls : Step(c) \/ HeaderTimeout(c) \/ ContextEnds(c) \/ CallerCancels(c)
  \/ \E p \in Conns : \/ ReadLoop(p) \/ WriteLoop(p) \/ Dialer(p) \/ Server(p)
                      \/ IdleTimerFires(p) \/ CloseConnIfStillIdle(p)
  \/ CloseIdleConnections

Spec == Init /\ [][Next]_vars

\* Goroutines that can go on do, callers read the bodies they get, and a
\* server that is not silent answers.
FairSpec ==
  /\ Spec
  /\ \A c \in Calls : WF_vars(Step(c))
  /\ \A p \in 1..MaxConns :
       /\ WF_vars(p \in Conns /\ ReadLoop(p)) /\ WF_vars(p \in Conns /\ WriteLoop(p))
       /\ WF_vars(p \in Conns /\ Dialer(p)) /\ WF_vars(p \in Conns /\ ~may.silent /\ SrvRespond(p))

-----------------------------------------------------------------------------
(* Properties *)

\* Types.
PCs == {"idle", "wait", "enter", "send", "sent", "failed", "retry", "body", "eofwait", "returned"}
Cancelers == {"none", "noop", "cancelc", "conn"}
WriteErrs == {"none", "nil", "nothing", "write"}
Errs == {"none", "dial", "canceled", "nothing", "write", "closedIdle", "readErr", "broken", "timeout"}
CallType ==
  [pc : PCs, conn : Nat, dial : Nat, ch : Nat, canceler : Cancelers, cancelc : BOOLEAN, ctx : BOOLEAN,
   start : Nat, wch : WriteErrs, wrote : BOOLEAN, err : Errs, res : Calls \cup {"none", "garbage"}]
TokenType == [call : Calls, close : BOOLEAN, k : {"head", "body"}]
Dials == {"dialing", "ready", "failed", "done"}
Reads == {"none", "peek", "recycle", "deliver", "error", "body", "eofc", "exit", "done"}
Writes == {"none", "idle", "body", "failed", "done"}
Closes == {"no", "other", "closedIdle", "readErr"}
Timers == {"none", "armed", "fired"}
BodyReads == {"none", "eof", "early"}
PConnType ==
  [key : Keys, dial : Dials, pending : BOOLEAN, read : Reads, write : Writes, closed : Closes,
   canceled : BOOLEAN, reused : BOOLEAN, expected : Nat, nwrite : Nat,
   writech : SUBSET Calls, reqch : SUBSET Calls, rc : SUBSET Calls, werrch : WriteErrs,
   alive : BOOLEAN, bodyRead : BodyReads, timer : Timers, resp : SUBSET TokenType,
   closeErr : {"other", "readErr"}, got : Seq(Calls), full : Nat, answered : Nat, out : Seq(TokenType),
   srvClosed : BOOLEAN]
PoolType ==
  [idle : [Keys -> Seq(1..MaxConns)], lru : SUBSET (1..MaxConns), older : SUBSET ((1..MaxConns) \X (1..MaxConns)),
   ch : [Keys -> Nat], chans : Nat, wantIdle : BOOLEAN, skipped : SUBSET (1..MaxConns)]
StateType == [pool : PoolType, conns : Seq(PConnType), calls : [Calls -> CallType]]
TypeOf(S) == S \in StateType /\ Len(S.conns) <= MaxConns
TypeOK == TypeOf(Now)

\* What a call refers to is there.
CallRefers(S, c) ==
  LET C == S.calls[c] IN
  /\ C.conn \in 0..Len(S.conns)
  /\ C.pc \in {"enter", "send", "sent", "body", "eofwait"} \/ C.canceler = "conn" => C.conn # 0
  /\ C.pc \in {"idle", "wait", "retry"} => C.conn = 0
  /\ C.pc = "wait" => C.dial \in 1..Len(S.conns)
  /\ C.pc = "failed" => C.canceler # "conn"

\* A response goes to the call whose request it answers, whatever was reused,
\* canceled or retried.
ResponseMatches == \A c \in Calls : calls[c].res \in {"none", c}

\* The calls that have connection p, but for the call that its read loop is about to give its
\* response to.
Has(S, c, p) ==
  /\ S.calls[c].conn = p /\ S.calls[c].pc \in {"enter", "send", "sent"}
  /\ ~(S.conns[p].read = "deliver" /\ c \in S.conns[p].rc)
Users(S, p) == {c \in Calls : Has(S, c, p)}

\* The read loop is about to hand over a response whose body the caller will read.
WithBody(P) == P.read = "deliver" /\ \E c \in P.rc : Req(c).resBody

\* A connection has one call at a time, and none while it is idle, being dialled, or read by
\* the call before.
OneCall(S, p) ==
  LET P == S.conns[p] IN
  /\ \A c, d \in Users(S, p) : c = d
  /\ p \in S.pool.lru \/ P.dial # "done" \/ P.read = "body" \/ WithBody(P) => Users(S, p) = {}
  /\ P.read = "recycle" => Users(S, p) \subseteq P.rc
OneCallPerConn == \A p \in Conns : OneCall(Now, p)

\* The requests that a connection holds are those of its call: in reqch of one whose response is
\* awaited, in rc of one whose response is read.
RequestsKept(S, p) ==
  LET P == S.conns[p] IN
  /\ \A c \in P.reqch :
       /\ Users(S, p) \subseteq {c} /\ c \notin P.rc
       /\ S.calls[c].conn = p => S.calls[c].pc \notin {"enter", "send"}
       /\ P.closed = "no" => S.calls[c].conn = p /\ S.calls[c].pc = "sent"
  /\ \A c, d \in P.rc : c = d
  /\ P.rc # {} <=> P.read \in {"recycle", "deliver", "error", "body", "eofc"}
  /\ P.read \in {"recycle", "deliver"} => P.resp # {}
  /\ P.read = "recycle" => \A c \in P.rc : ~Req(c).resBody
  /\ \A c \in P.rc :
       /\ S.calls[c].conn = p => S.calls[c].pc \notin {"enter", "send"}
       /\ P.closed = "no" /\ P.read \in {"recycle", "deliver", "error"} =>
            S.calls[c].conn = p /\ S.calls[c].pc = "sent"
       /\ P.read \in {"body", "eofc"} => S.calls[c].conn = p /\ S.calls[c].pc \in {"body", "eofwait", "returned"}
  /\ P.dial # "done" \/ p \in S.pool.lru => P.reqch = {}
  /\ P.dial # "done" => P.rc = {} /\ p \notin S.pool.lru /\ \A c \in Calls : S.calls[c].conn # p
  /\ p \in S.pool.lru => P.read \notin {"none", "recycle", "error", "body"} /\ ~WithBody(P)

\* A request that may not be replayed reaches servers at most once.
RetrySafe ==
  \A p, q \in Conns : \A i \in DOMAIN conns[p].got, j \in DOMAIN conns[q].got :
    conns[p].got[i] = conns[q].got[j] /\ ~Req(conns[p].got[i]).replayable => p = q /\ i = j

\* The free lists and the LRU list hold the same connections, each once and under its key, in
\* the order in which they became idle, and keep their limits.
InOrder(pl) ==
  /\ pl.older \subseteq pl.lru \X pl.lru
  /\ \A x \in pl.lru : <<x, x>> \notin pl.older
  /\ \A x, y \in pl.lru : x # y => <<x, y>> \in pl.older \/ <<y, x>> \in pl.older
  /\ \A x, y, z \in pl.lru : <<x, y>> \in pl.older /\ <<y, z>> \in pl.older => <<x, z>> \in pl.older
Filed(S) ==
  /\ S.pool.lru \subseteq DOMAIN S.conns
  /\ \A k \in Keys : LET q == S.pool.idle[k] IN
       /\ Len(q) <= MaxIdlePerHost
       /\ \A i \in DOMAIN q : q[i] \in S.pool.lru /\ S.conns[q[i]].key = k
       /\ \A i, j \in DOMAIN q : i < j => <<q[i], q[j]>> \in S.pool.older
  /\ \A p \in S.pool.lru : p \in ToSet(S.pool.idle[S.conns[p].key])
PoolConsistent ==
  /\ Filed(Now) /\ InOrder(pool)
  /\ MaxIdle # 0 => Cardinality(pool.lru) <= MaxIdle

\* A connection that its read loop leaves to others: it waits for the next response, or will
\* as soon as this one is handed over.
LeftToOthers(P) ==
  \/ P.read = "peek"
  \/ P.alive /\ (P.read = "eofc" \/ (P.read = "deliver" /\ ~WithBody(P)))

\* Someone will use or close every open connection: it is idle, a call or a loop has it, or a
\* dial that was given up will hand it on; but for one that its timer was about to close.
Owned(S, p) ==
  LET P == S.conns[p] IN
  P.closed = "no" =>
    /\ P.dial # "failed" /\ (P.read = "none" => P.dial = "dialing")
    /\ P.dial = "done" /\ LeftToOthers(P) =>
         p \in S.pool.lru \/ p \in S.pool.skipped \/ Users(S, p) # {}
NoLeak == \A p \in Conns : Owned(Now, p)

\* Every call returns, when the server answers or the caller gives up.
CallsReturn ==
  \A c \in Calls : (calls[c].pc # "idle" /\ (~may.silent \/ calls[c].ctx)) ~> calls[c].pc = "returned"

\* Calls and connections match: a response goes to the call it answers, and what may not be
\* repeated is not.
CallsKept == TypeOK /\ ResponseMatches /\ RetrySafe

\* A connection is lent to one call at a time.
Lent == (\A c \in Calls : CallRefers(Now, c)) /\ OneCallPerConn /\ (\A p \in Conns : RequestsKept(Now, p))

\* The lists of the pool agree and keep their limits, a connection has one call at a time, and
\* no connection is forgotten by all.
PoolSound == TypeOK /\ PoolConsistent /\ Lent /\ NoLeak
=============================================================================
