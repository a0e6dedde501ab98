--------------------------------- MODULE H2 ---------------------------------
(***************************************************************************)
(* An HTTP/2 connection (http/h2_bundle.go) between the Transport and the  *)
(* Server of this library.  srv is the state of the serve loop and of the  *)
(* handlers; cli that of the client connection, the RoundTrips, their body *)
(* writers and the readers of response bodies.  Frames travel in order.    *)
(*                                                                         *)
(* Streams are numbered 1, 2, ... for the ids 1, 3, ...  Bytes are         *)
(* counted.  Every frame of the server is written by writeFrameAsync: a    *)
(* frame that fits the buffer is the case where it returns at once.  Not   *)
(* here: pushes (the Transport refuses them), header lists and their       *)
(* checks, padding, Expect: 100-continue, declared content lengths, the    *)
(* trailers of responses, write errors before the read loop sees the end.  *)
(***************************************************************************)
EXTENDS Integers, Sequences, FiniteSets, SequencesExt

CONSTANTS
  InitialWindow,   \* initialWindowSize of both sides before SETTINGS (65535)
  ConnFlow,        \* transportDefaultConnFlow
  StreamFlow,      \* transportDefaultStreamFlow
  MinRefresh,      \* transportDefaultStreamMinRefresh
  MaxFrame,        \* the largest DATA frame
  DefaultStreams,  \* maxConcurrentStreams before SETTINGS (1000)
  MaxStreams,      \* a bound on the streams of a scenario
  Scenarios        \* what the users do; see may

\* excess and lost (of the client), ignored and twice (of the server) are histories for the
\* properties: data that the client gave credit for without having taken it, data it took that
\* nobody reads, data that the server dropped without taking it, and data that a handler read
\* when the stream was closed already.
\*
\* may: the streams the client opens, the size of each request and response
\* body, advMaxStreams, and which of the calls happen.
Calls == {"trailers", "lateEOF", "bodyError", "cancel", "closeResponse", "closeBody",
          "respondEarly", "errorStatus", "panic", "shutdown", "idle", "closeIdle", "ping"}
ASSUME H2Assumption == /\ {InitialWindow, ConnFlow, StreamFlow, MaxFrame} \subseteq Nat \ {0}
                       /\ MinRefresh \in Nat /\ DefaultStreams \in Nat /\ MaxStreams \in Nat
ASSUME H2ScenarioAssumption == \A m \in Scenarios :
  /\ m.body \in Seq(Nat) /\ m.resp \in Seq(Nat) /\ Len(m.body) = Len(m.resp) /\ Len(m.body) <= MaxStreams
  /\ m.maxStreams \in Nat /\ m.calls \subseteq Calls

VARIABLES may, srv, cli, toServer, toClient
vars == <<may, srv, cli, toServer, toClient>>

Min2(a, b) == IF a <= b THEN a ELSE b
Streams == 1..Len(may.body)
Frame(k, s, n, end) == [k |-> k, s |-> s, n |-> n, end |-> end]
NoFrame == Frame("none", 0, 0, FALSE)

\* newStream of the server, in state "idle" until there is one; handler is
\* where runHandler is, next what it will write, taken what it read from the
\* body and did not tell the serve loop yet, reply the done channel.
ServerStream(s) ==
  [state |-> "idle", flow |-> 0, inflow |-> InitialWindow,
   hasBody |-> FALSE, body |-> 0, bodyErr |-> "nil", broken |-> FALSE,
   resetQueued |-> FALSE, gotTrailers |-> FALSE, q |-> <<>>,
   handler |-> "none", next |-> "headers", taken |-> 0, reply |-> FALSE, seen |-> 0]

\* RoundTrip, and the response it returned.
ClientStream(s) ==
  [trip |-> "none", listed |-> FALSE, flow |-> 0, inflow |-> StreamFlow,
   resc |-> "none", peerReset |-> FALSE, done |-> FALSE,
   writer |-> "none", left |-> may.body[s], taken |-> 0, stop |-> "nil", started |-> FALSE,
   pastHeaders |-> FALSE, piped |-> FALSE, pipe |-> 0, pipeErr |-> "nil",
   active |-> FALSE, watch |-> "none", didReset |-> FALSE, user |-> "none", got |-> 0]

Init ==
  /\ may \in Scenarios
  /\ srv = [st |-> [s \in 1..Len(may.body) |-> ServerStream(s)],
            serving |-> TRUE, flow |-> InitialWindow, inflow |-> InitialWindow,
            initialWindow |-> InitialWindow, sawSettings |-> FALSE, unacked |-> 1,
            cur |-> 0, maxId |-> 0, writing |-> NoFrame, cq |-> <<>>,
            settingsAck |-> FALSE, inGoAway |-> FALSE, needGoAway |-> FALSE,
            goAwayCode |-> "no", timer |-> FALSE, conn |-> TRUE, asked |-> FALSE,
            crashed |-> FALSE, ignored |-> 0, twice |-> 0]
  /\ cli = [st |-> [s \in 1..Len(may.body) |-> ClientStream(s)],
            next |-> 1, flow |-> InitialWindow, inflow |-> ConnFlow + InitialWindow,
            initialWindow |-> InitialWindow, maxStreams |-> DefaultStreams,
            wantAck |-> TRUE, goAway |-> -1, closed |-> FALSE, conn |-> TRUE,
            reading |-> TRUE, err |-> "nil", hold |-> NoFrame, ping |-> "none", excess |-> 0, lost |-> 0]
  /\ toServer = <<Frame("settings", 0, StreamFlow, FALSE), Frame("window", 0, ConnFlow, FALSE)>>
  /\ toClient = <<Frame("settings", 0, may.maxStreams, FALSE)>>

Available(conn, stream) == Min2(conn.flow, stream.flow)

-----------------------------------------------------------------------------
(* The serve loop: pure functions on srv *)

\* serverConn.state
State(S, s) == IF S.st[s].state = "idle" /\ s <= S.maxId THEN "closed" ELSE S.st[s].state
Open(S, s) == S.st[s].state \in {"open", "halfRemote", "halfLocal"}

\* Push of the default scheduler.
Push(S, f) == IF f.s # 0 THEN [S EXCEPT !.st[f.s].q = Append(@, f)]
              ELSE [S EXCEPT !.cq = Append(@, f)]

\* writeFrame, but for the scheduling: nothing but a reset is written for a
\* closed stream.
WriteFrame(S, f) == IF f.s # 0 /\ State(S, f.s) = "closed" /\ f.k # "reset" THEN S ELSE Push(S, f)

\* sendWindowUpdate: of stream s, or of the connection when s is 0.
SendWindowUpdate(S, s, n) ==
  IF n = 0 THEN S
  ELSE LET W == WriteFrame(S, Frame("window", s, n, FALSE)) IN
       IF s = 0 THEN [W EXCEPT !.inflow = @ + n] ELSE [W EXCEPT !.st[s].inflow = @ + n]

\* goAwayIn
GoAway(S, code, force) ==
  IF S.inGoAway THEN S
  ELSE [S EXCEPT !.inGoAway = TRUE, !.needGoAway = TRUE, !.goAwayCode = code, !.timer = force]

\* resetStream
ResetStream(S, s) ==
  LET W == WriteFrame(S, Frame("reset", s, 0, FALSE)) IN
  IF Open(W, s) THEN [W EXCEPT !.st[s].resetQueued = TRUE] ELSE W

MutCloseStream(S, s, err) ==
  [S EXCEPT !.cur = @ - 1,
            !.st[s] = [@ EXCEPT !.state = "closed", !.q = <<>>,
                                !.bodyErr = IF S.st[s].hasBody /\ @ = "nil" THEN err ELSE @]]

\* closeStream: what nobody read goes back to the connection's window; what
\* was queued is dropped.
CloseStream(S, s, err) ==
  LET W == [S EXCEPT !.st[s].state = "closed", !.cur = @ - 1]
      B == IF S.st[s].hasBody
           THEN [SendWindowUpdate(W, 0, S.st[s].body) EXCEPT
                   !.st[s].bodyErr = IF @ = "nil" THEN err ELSE @]
           ELSE W IN
  [B EXCEPT !.st[s].q = <<>>]

\* FrameWriteRequest.Consume, of the head of a stream's queue: how much of it
\* may be written; 0 when it has to wait.
Consume(S, s) ==
  LET f == Head(S.st[s].q) IN
  IF f.k # "data" \/ f.n = 0 THEN 0
  ELSE Min2(f.n, Min2(MaxFrame, Available(S, S.st[s])))
Ready(S, s) == /\ S.st[s].q # <<>>
               /\ LET f == Head(S.st[s].q) IN f.k # "data" \/ f.n = 0 \/ Consume(S, s) > 0

\* The panics of startFrameWrite: a frame of a stream in whose state it may not be sent.  A
\* reset names its stream only by its id.
WrongState(S, f) ==
  \/ S.st[f.s].state = "halfLocal" /\ f.k \notin {"reset", "panic", "window"}
  \/ S.st[f.s].state = "closed" /\ f.k # "reset"

\* writeQueue.consume of stream s, and startFrameWrite of what it gives.
StartStream(S, s) ==
  LET f == Head(S.st[s].q)
      n == Consume(S, s)
      T == [S EXCEPT !.flow = @ - n, !.st[s].flow = @ - n, !.crashed = @ \/ WrongState(S, f)] IN
  IF f.k = "data" /\ n < f.n
  THEN [T EXCEPT !.writing = Frame("data", s, n, FALSE),
                 !.st[s].q = <<Frame("data", s, f.n - n, f.end)>> \o Tail(@)]
  ELSE [T EXCEPT !.writing = f, !.st[s].q = Tail(@)]

\* scheduleFrameWrite: GOAWAY, then the acknowledgement, then what is not of
\* a stream, then any stream that can write (the default scheduler takes them
\* in the order of a map).  Nothing but the first two after a failure.
Schedule(S) ==
  IF S.writing # NoFrame THEN {S}
  ELSE IF S.needGoAway
  THEN {[S EXCEPT !.needGoAway = FALSE,
                  !.writing = Frame("goaway", 0, S.maxId, S.goAwayCode # "no")]}
  ELSE IF S.settingsAck
  THEN {[S EXCEPT !.settingsAck = FALSE, !.writing = Frame("settingsAck", 0, 0, FALSE)]}
  ELSE IF S.inGoAway /\ S.goAwayCode # "no" THEN {S}
  ELSE IF S.cq # <<>> THEN {[S EXCEPT !.writing = Head(S.cq), !.cq = Tail(@)]}
  ELSE LET ready == {s \in Streams : Ready(S, s)} IN
       IF ready = {} THEN {S} ELSE {StartStream(S, s) : s \in ready}

\* serve returns after an event once it said GOAWAY and is done with it.
Finished(S) == S.inGoAway /\ S.cur = 0 /\ ~S.needGoAway /\ S.writing = NoFrame

\* The deferred calls of serve: the streams are closed and the connection.
Stop(S) ==
  LET C == [S EXCEPT !.st = [s \in Streams |->
              IF Open(S, s) THEN [S.st[s] EXCEPT !.state = "closed", !.q = <<>>,
                                    !.bodyErr = IF S.st[s].hasBody /\ @ = "nil" THEN "err" ELSE @]
              ELSE S.st[s]]] IN
  [C EXCEPT !.serving = FALSE, !.cur = 0, !.conn = FALSE]

\* One turn of the select in serve.
After(S) == {IF Finished(T) THEN Stop(T) ELSE T : T \in Schedule(S)}
Turn(S) == srv' \in After(S)

\* wroteFrame, on S, of a frame that went out.  Closing a closed stream is
\* the panic of closeStream.
WroteFrame(S, f) ==
  LET W == [S EXCEPT !.writing = NoFrame]
      ends == f.end /\ f.k \in {"headers", "data"}
      last == \/ f.k = "headers"
              \/ f.k = "data" /\ \A i \in DOMAIN S.st[f.s].q : S.st[f.s].q[i].k # "data"
      D == CASE ends /\ W.st[f.s].state = "open" ->
                  ResetStream([W EXCEPT !.st[f.s].state = "halfLocal"], f.s)
             [] ends /\ W.st[f.s].state = "halfRemote" -> CloseStream(W, f.s, "err")
             [] f.k = "reset" /\ Open(W, f.s) -> CloseStream(W, f.s, "err")
             [] f.k = "panic" /\ Open(W, f.s) -> CloseStream(W, f.s, "err")
             [] f.k = "panic" /\ ~Open(W, f.s) -> [W EXCEPT !.crashed = TRUE]
             [] OTHER -> W IN
  IF f.s # 0 /\ last THEN [D EXCEPT !.st[f.s].reply = TRUE] ELSE D

\* processFrame, on S: each gives what it becomes.

ProcessSettings(S, f) ==
  LET growth == f.n - S.initialWindow IN
  [S EXCEPT !.sawSettings = TRUE, !.settingsAck = TRUE, !.initialWindow = f.n,
            !.st = [s \in Streams |-> IF Open(S, s) THEN [S.st[s] EXCEPT !.flow = @ + growth]
                                      ELSE S.st[s]]]

ProcessSettingsAck(S) ==
  IF S.unacked = 0 THEN GoAway(S, "protocol", TRUE) ELSE [S EXCEPT !.unacked = @ - 1]

ProcessPing(S) ==
  IF S.inGoAway /\ S.goAwayCode # "no" THEN S ELSE WriteFrame(S, Frame("pingAck", 0, 0, FALSE))

ProcessWindowUpdate(S, f) ==
  IF f.s = 0 THEN [S EXCEPT !.flow = @ + f.n]
  ELSE IF State(S, f.s) = "idle" THEN GoAway(S, "protocol", TRUE)
  ELSE IF Open(S, f.s) THEN [S EXCEPT !.st[f.s].flow = @ + f.n]
  ELSE S

ProcessResetStream(S, f) ==
  IF State(S, f.s) = "idle" THEN GoAway(S, "protocol", TRUE)
  ELSE IF Open(S, f.s) THEN CloseStream(S, f.s, "err")
  ELSE S

\* endStream
EndStream(S, s) == [S EXCEPT !.st[s].bodyErr = IF @ = "nil" THEN "eof" ELSE @,
                             !.st[s].state = "halfRemote"]

\* processData: data for a stream that takes none is given back to the
\* connection's window, with a reset unless one is already queued.
ProcessData(S, f) ==
  LET st == S.st[f.s] IN
  IF S.inGoAway /\ S.goAwayCode # "no" THEN S
  ELSE IF State(S, f.s) = "idle" THEN [GoAway(S, "protocol", TRUE) EXCEPT !.ignored = @ + f.n]
  ELSE IF st.state # "open" \/ st.gotTrailers \/ st.resetQueued
  THEN IF S.inflow < f.n THEN ResetStream(S, f.s)
       ELSE LET T == SendWindowUpdate([S EXCEPT !.inflow = @ - f.n], 0, f.n) IN
            IF Open(S, f.s) /\ st.resetQueued THEN T ELSE ResetStream(T, f.s)
  ELSE IF f.n > 0 /\ Min2(S.inflow, st.inflow) < f.n THEN ResetStream(S, f.s)
  ELSE LET T == [S EXCEPT !.inflow = @ - f.n, !.st[f.s].inflow = @ - f.n]
           B == [T EXCEPT !.st[f.s].body = @ + f.n] IN
       IF f.n > 0 /\ st.bodyErr # "nil" THEN ResetStream(T, f.s)
       ELSE IF f.end THEN EndStream(B, f.s) ELSE B

\* processHeaders, and processTrailerHeaders for a stream that exists.  A
\* server that said GOAWAY ignores both.
ProcessHeaders(S, f) ==
  IF S.inGoAway THEN S
  ELSE IF Open(S, f.s)
  THEN IF S.st[f.s].resetQueued THEN S
       ELSE IF S.st[f.s].gotTrailers THEN GoAway(S, "protocol", TRUE)
       ELSE EndStream([S EXCEPT !.st[f.s].gotTrailers = TRUE], f.s)
  ELSE IF f.s <= S.maxId THEN GoAway(S, "protocol", TRUE)
  ELSE IF S.cur + 1 > may.maxStreams THEN ResetStream([S EXCEPT !.maxId = f.s], f.s)
  ELSE [S EXCEPT !.maxId = f.s, !.cur = @ + 1,
                 !.st[f.s].state = IF f.end THEN "halfRemote" ELSE "open",
                 !.st[f.s].flow = S.initialWindow,
                 !.st[f.s].hasBody = ~f.end,
                 !.st[f.s].bodyErr = IF f.end THEN "eof" ELSE "nil",
                 !.st[f.s].handler = "run"]

ProcessFrame(S, f) ==
  IF ~S.sawSettings /\ f.k # "settings" THEN GoAway(S, "protocol", TRUE)
  ELSE CASE f.k = "settings" -> ProcessSettings(S, f)
         [] f.k = "settingsAck" -> ProcessSettingsAck(S)
         [] f.k = "headers" -> ProcessHeaders(S, f)
         [] f.k = "window" -> ProcessWindowUpdate(S, f)
         [] f.k = "ping" -> ProcessPing(S)
         [] f.k = "data" -> ProcessData(S, f)
         [] f.k = "reset" -> ProcessResetStream(S, f)
         [] f.k = "goaway" -> GoAway(S, "no", FALSE)

-----------------------------------------------------------------------------
(* The server's actions *)

\* readFrames and processFrameFromReader
ServerRead ==
  /\ srv.serving /\ srv.conn /\ toServer # <<>>
  /\ toServer' = Tail(toServer)
  /\ Turn(ProcessFrame(srv, Head(toServer)))
  /\ UNCHANGED <<may, cli, toClient>>

\* The client is gone, or its connection failed.
ServerReadError ==
  /\ srv.serving /\ toServer = <<>> /\ ~cli.conn
  /\ srv' = Stop(srv)
  /\ UNCHANGED <<may, cli, toServer, toClient>>

\* writeFrameAsync, and wroteFrame when the loop hears of it.
ServerWrote ==
  /\ srv.serving /\ srv.writing # NoFrame
  /\ toClient' = IF cli.conn THEN Append(toClient, srv.writing) ELSE toClient
  /\ Turn(WroteFrame(srv, srv.writing))
  /\ UNCHANGED <<may, cli, toServer>>

MutNoteBodyRead(s) ==
  /\ srv.serving /\ srv.st[s].taken > 0
  /\ Turn(SendWindowUpdate([srv EXCEPT !.st[s].taken = 0], 0, srv.st[s].taken))
  /\ UNCHANGED <<may, cli, toServer, toClient>>

\* bodyReadCh
NoteBodyRead(s) ==
  LET st == srv.st[s]
      C == SendWindowUpdate([srv EXCEPT !.st[s].taken = 0], 0, st.taken) IN
  /\ srv.serving /\ st.taken > 0
  /\ Turn(IF st.state \in {"halfRemote", "closed"} THEN C ELSE SendWindowUpdate(C, s, st.taken))
  /\ UNCHANGED <<may, cli, toServer, toClient>>

\* The server's Shutdown, the idle timer, and the timer that goAway set.
GracefulShutdown ==
  /\ "shutdown" \in may.calls /\ srv.serving /\ ~srv.asked
  /\ Turn(GoAway([srv EXCEPT !.asked = TRUE], "no", FALSE))
  /\ UNCHANGED <<may, cli, toServer, toClient>>

IdleTimeout ==
  /\ "idle" \in may.calls /\ srv.serving /\ srv.cur = 0 /\ ~srv.inGoAway
  /\ Turn(GoAway(srv, "no", TRUE))
  /\ UNCHANGED <<may, cli, toServer, toClient>>

ShutdownTimer ==
  /\ srv.serving /\ srv.timer
  /\ srv' = Stop(srv)
  /\ UNCHANGED <<may, cli, toServer, toClient>>

\* The handler's goroutine.  requestBody.Read of all there is.
HandlerRead(s) ==
  LET st == srv.st[s] IN
  /\ st.handler = "run" /\ st.body > 0 /\ ~st.broken /\ st.taken = 0
  /\ srv' = [srv EXCEPT !.st[s].taken = IF srv.serving THEN st.body ELSE 0,
                        !.twice = IF srv.serving /\ st.state = "closed" THEN @ + st.body ELSE @,
                        !.st[s].body = 0, !.st[s].seen = @ + st.body]
  /\ UNCHANGED <<may, cli, toServer, toClient>>

HandlerCloseBody(s) ==
  /\ "closeBody" \in may.calls /\ srv.st[s].handler = "run" /\ srv.st[s].hasBody
  /\ ~srv.st[s].broken
  /\ srv' = [srv EXCEPT !.st[s].broken = TRUE]
  /\ UNCHANGED <<may, cli, toServer, toClient>>

\* writeChunk through writeHeaders and writeDataFromHandler: the headers,
\* then the data, then the end of the stream, each awaited.
HandlerWrite(s) ==
  LET st == srv.st[s]
      n == may.resp[s]
      f == CASE st.next = "headers" -> Frame("headers", s, 0, n = 0)
             [] st.next = "data" -> Frame("data", s, n, FALSE)
             [] st.next = "end" -> Frame("data", s, 0, TRUE) IN
  /\ st.handler = "run" /\ srv.serving
  /\ \/ "respondEarly" \in may.calls \/ st.broken
     \/ st.body = 0 /\ st.taken = 0 /\ st.bodyErr # "nil"
  /\ Turn(WriteFrame([srv EXCEPT !.st[s].handler = "wait", !.st[s].reply = FALSE], f))
  /\ UNCHANGED <<may, cli, toServer, toClient>>

\* The select after it: the frame was written, or the stream or the loop ended.
HandlerWritten(s) ==
  LET st == srv.st[s] IN
  /\ st.handler = "wait"
  /\ \/ /\ st.reply
        /\ srv' = [srv EXCEPT
             !.st[s].handler = IF st.next = "end" \/ (st.next = "headers" /\ may.resp[s] = 0)
                               THEN "done" ELSE "run",
             !.st[s].next = IF st.next = "headers" THEN "data" ELSE "end"]
     \/ /\ ~srv.serving \/ st.state = "closed"
        /\ srv' = [srv EXCEPT !.st[s].handler = "done"]
  /\ UNCHANGED <<may, cli, toServer, toClient>>

\* runHandler of a handler that panics, or whose connection is gone.
HandlerPanic(s) ==
  /\ srv.st[s].handler = "run"
  /\ \/ /\ "panic" \in may.calls /\ srv.serving
        /\ Turn(WriteFrame([srv EXCEPT !.st[s].handler = "done"], Frame("panic", s, 0, FALSE)))
     \/ /\ ~srv.serving
        /\ srv' = [srv EXCEPT !.st[s].handler = "done"]
  /\ UNCHANGED <<may, cli, toServer, toClient>>

-----------------------------------------------------------------------------
(* The client: pure functions on cli *)

\* What the client writes reaches the server while both ends are open.
Send(fs) == toServer' = IF srv.conn /\ cli.conn THEN toServer \o fs ELSE toServer

HasBody(s) == may.body[s] > 0
Trailers == "trailers" \in may.calls
Listed(C) == {s \in Streams : C.st[s].listed}

\* canTakeNewRequestLocked
CanTake(C) == C.goAway = -1 /\ ~C.closed /\ Cardinality(Listed(C)) + 1 < C.maxStreams

\* streamByID with andRemove: nothing is removed any more once the
\* connection is closed.
Forget(C, s) == IF C.st[s].listed /\ ~C.closed
                THEN [C EXCEPT !.st[s].listed = FALSE, !.st[s].done = TRUE] ELSE C

\* A send on resc that does not wait.  It has room for one.
Offer(C, s, v) == IF C.st[s].resc = "none" THEN [C EXCEPT !.st[s].resc = v] ELSE C

ClosePipe(C, s, err) == [C EXCEPT !.st[s].pipeErr = IF @ = "nil" THEN err ELSE @]

\* endStreamError
EndStreamError(C, s, err) ==
  Offer([ClosePipe(C, s, err) EXCEPT !.st[s].active = FALSE], s, "err")

\* cleanup: every response in progress and every RoundTrip that waits gets
\* the error.
Cleanup(C, err) ==
  [C EXCEPT !.closed = TRUE, !.conn = FALSE, !.reading = FALSE, !.err = err, !.hold = NoFrame,
     !.st = [s \in Streams |->
       LET c == C.st[s] IN
       [c EXCEPT !.pipeErr = IF c.active /\ @ = "nil" THEN "err" ELSE @,
                 !.resc = IF c.listed /\ @ = "none" THEN "err" ELSE @,
                 !.done = c.done \/ c.listed]]]

\* Each of these is the outcome of a frame: the state and what is written.
Outcome(C, out) == [c |-> C, out |-> out]

\* processHeaders and handleResponse: the response is for RoundTrip.
ReadHeaders(C, f) ==
  LET D == IF f.end THEN Forget(C, f.s) ELSE C IN
  Outcome(IF ~C.st[f.s].listed THEN C
          ELSE [D EXCEPT !.st[f.s].pastHeaders = TRUE, !.st[f.s].resc = "resp",
                         !.st[f.s].piped = ~f.end, !.st[f.s].active = ~f.end,
                         !.st[f.s].watch = IF f.end THEN "none" ELSE "wait"], <<>>)

\* processData, to the point where it let go of the lock.  What comes for a
\* stream that was forgotten is added to the window and never taken from it.
ReadData(C, f) ==
  LET D == IF f.end THEN Forget(C, f.s) ELSE C IN
  IF ~C.st[f.s].listed
  THEN IF f.s >= C.next THEN Outcome(Cleanup(C, "protocol"), <<>>)
       ELSE IF f.n = 0 THEN Outcome(C, <<>>)
       ELSE Outcome([C EXCEPT !.inflow = @ + f.n, !.excess = @ + f.n], <<Frame("window", 0, f.n, FALSE)>>)
  ELSE IF f.n = 0 THEN Outcome(IF f.end THEN EndStreamError(D, f.s, "eof") ELSE D, <<>>)
  ELSE IF ~C.st[f.s].piped THEN Outcome(Cleanup(C, "protocol"), <<>>)
  ELSE IF Min2(C.inflow, C.st[f.s].inflow) < f.n THEN Outcome(Cleanup(D, "flowControl"), <<>>)
  ELSE LET T == [D EXCEPT !.inflow = @ - f.n, !.st[f.s].inflow = @ - f.n] IN
       Outcome(IF C.st[f.s].didReset
               THEN LET R == [T EXCEPT !.lost = @ + f.n] IN IF f.end THEN EndStreamError(R, f.s, "eof") ELSE R
               ELSE [T EXCEPT !.hold = f], <<>>)

\* processResetStream
ReadReset(C, f) ==
  Outcome(IF ~C.st[f.s].listed THEN C
          ELSE [ClosePipe(Forget(C, f.s), f.s, "reset") EXCEPT
                  !.st[f.s].peerReset = TRUE, !.st[f.s].active = FALSE], <<>>)

MutReadGoAway(C, f) ==
  Outcome([C EXCEPT !.goAway = f.n,
             !.st = [s \in Streams |->
               IF C.st[s].listed /\ s >= f.n /\ C.st[s].resc = "none"
               THEN [C.st[s] EXCEPT !.resc = "goAway"] ELSE C.st[s]]], <<>>)

\* processGoAway and setGoAway
ReadGoAway(C, f) ==
  Outcome([C EXCEPT !.goAway = f.n,
             !.st = [s \in Streams |->
               IF C.st[s].listed /\ s > f.n /\ C.st[s].resc = "none"
               THEN [C.st[s] EXCEPT !.resc = "goAway"] ELSE C.st[s]]], <<>>)

\* processSettings.  The server's settings hold no initial window.
ReadSettings(C, f) ==
  Outcome([C EXCEPT !.maxStreams = f.n], <<Frame("settingsAck", 0, 0, FALSE)>>)
ReadSettingsAck(C) ==
  Outcome(IF C.wantAck THEN [C EXCEPT !.wantAck = FALSE] ELSE Cleanup(C, "protocol"), <<>>)

\* processWindowUpdate
ReadWindowUpdate(C, f) ==
  Outcome(IF f.s = 0 THEN [C EXCEPT !.flow = @ + f.n]
          ELSE IF C.st[f.s].listed THEN [C EXCEPT !.st[f.s].flow = @ + f.n] ELSE C, <<>>)

\* processPing
ReadPingAck(C) == Outcome([C EXCEPT !.ping = IF @ = "sent" THEN "answered" ELSE @], <<>>)

ReadFrame(C, f) ==
  CASE f.k = "headers" -> ReadHeaders(C, f)
    [] f.k = "data" -> ReadData(C, f)
    [] f.k \in {"reset", "panic"} -> ReadReset(C, f)
    [] f.k = "goaway" -> ReadGoAway(C, f)
    [] f.k = "settings" -> ReadSettings(C, f)
    [] f.k = "settingsAck" -> ReadSettingsAck(C)
    [] f.k = "window" -> ReadWindowUpdate(C, f)
    [] f.k = "pingAck" -> ReadPingAck(C)

-----------------------------------------------------------------------------
(* The client's actions *)

\* run, of clientConnReadLoop.  The send of a response on resc waits for room.
ClientRead ==
  /\ cli.reading /\ cli.hold = NoFrame /\ toClient # <<>>
  /\ LET f == Head(toClient)
         o == ReadFrame(cli, f) IN
     /\ f.k = "headers" /\ cli.st[f.s].listed => cli.st[f.s].resc = "none"
     /\ cli' = o.c
     /\ Send(o.out)
  /\ toClient' = Tail(toClient)
  /\ UNCHANGED <<may, srv>>

\* The rest of processData.  A pipe that was closed meanwhile is an error that
\* ends the connection.
ClientPipeWrite ==
  LET f == cli.hold
      C == [cli EXCEPT !.hold = NoFrame] IN
  /\ cli.hold # NoFrame
  /\ cli' = IF cli.st[f.s].pipeErr # "nil" THEN Cleanup(EndStreamError(C, f.s, "err"), "pipe")
            ELSE LET D == [C EXCEPT !.st[f.s].pipe = @ + f.n,
                                    !.lost = IF cli.st[f.s].user = "closed" THEN @ + f.n ELSE @] IN
                 IF f.end THEN EndStreamError(D, f.s, "eof") ELSE D
  /\ UNCHANGED <<may, srv, toServer, toClient>>

\* The read loop at the end of what the server sent, or of what it has of it once the
\* connection is closed under it.
ClientReadError ==
  /\ cli.reading /\ cli.hold = NoFrame /\ (~cli.conn \/ (toClient = <<>> /\ ~srv.conn))
  /\ cli' = Cleanup(cli, IF cli.conn THEN "eof" ELSE "idle")
  /\ UNCHANGED <<may, srv, toServer, toClient>>

\* closeIfIdle; the read loop finds out later.
ClientCloseIdle ==
  /\ "closeIdle" \in may.calls /\ ~cli.closed /\ Listed(cli) = {}
  /\ cli' = [cli EXCEPT !.closed = TRUE, !.conn = FALSE]
  /\ UNCHANGED <<may, srv, toServer, toClient>>

\* ping
ClientPing ==
  /\ "ping" \in may.calls /\ cli.ping = "none" /\ ~cli.closed
  /\ cli' = [cli EXCEPT !.ping = "sent"]
  /\ Send(<<Frame("ping", 0, 0, FALSE)>>)
  /\ UNCHANGED <<may, srv, toClient>>

\* RoundTrip to its select.  One that CanTake refuses leaves no trace.
RoundTrip ==
  LET s == cli.next IN
  /\ s \in Streams /\ CanTake(cli)
  /\ cli' = [cli EXCEPT !.next = s + 1,
               !.st[s].trip = "wait", !.st[s].listed = TRUE,
               !.st[s].flow = cli.initialWindow,
               !.st[s].writer = IF HasBody(s) THEN "start" ELSE "none"]
  /\ Send(<<Frame("headers", s, 0, ~HasBody(s))>>)
  /\ UNCHANGED <<may, srv, toClient>>

\* fn of bodyWriterState and writeRequestBody to its first awaitFlowControl.
WriterStart(s) ==
  /\ cli.st[s].writer = "start"
  /\ \/ cli' = [cli EXCEPT !.st[s].started = TRUE, !.st[s].writer = "await"]
     \/ /\ "bodyError" \in may.calls
        /\ cli' = [cli EXCEPT !.st[s].started = TRUE, !.st[s].writer = "failed"]
  /\ UNCHANGED <<may, srv, toServer, toClient>>

\* awaitFlowControl, and writeStreamReset when the request was cancelled.
WriterAwait(s) ==
  LET c == cli.st[s]
      n == Min2(c.left, Min2(MaxFrame, Available(cli, c))) IN
  /\ c.writer = "await" /\ c.left > 0
  /\ IF cli.closed \/ c.stop # "nil" \/ c.peerReset \/ c.done
     THEN /\ cli' = [cli EXCEPT !.st[s].writer = "failed"]
          /\ Send(IF ~cli.closed /\ c.stop = "andCancel" THEN <<Frame("reset", s, 0, FALSE)>> ELSE <<>>)
     ELSE /\ n > 0
          /\ cli' = [cli EXCEPT !.flow = @ - n, !.st[s].flow = @ - n, !.st[s].taken = n,
                                !.st[s].writer = "write"]
          /\ UNCHANGED toServer
  /\ UNCHANGED <<may, srv, toClient>>

\* The write of the DATA frame, under wmu only.
WriterWrite(s) ==
  LET c == cli.st[s]
      end == c.taken = c.left /\ ~Trailers /\ "lateEOF" \notin may.calls IN
  /\ c.writer = "write"
  /\ cli' = [cli EXCEPT !.st[s].left = @ - c.taken, !.st[s].taken = 0,
                        !.st[s].writer = IF end THEN "written" ELSE "await"]
  /\ Send(<<Frame("data", s, c.taken, end)>>)
  /\ UNCHANGED <<may, srv, toClient>>

\* The end of writeRequestBody: the trailers, or DATA with nothing but END_STREAM.
WriterFinish(s) ==
  /\ cli.st[s].writer = "await" /\ cli.st[s].left = 0
  /\ cli' = [cli EXCEPT !.st[s].writer = "written"]
  /\ Send(<<Frame(IF Trailers THEN "headers" ELSE "data", s, 0, TRUE)>>)
  /\ UNCHANGED <<may, srv, toClient>>

\* handleReadLoopResponse.  A response of status 300 or more stops the writer of the body.  A
\* request that the server never saw may go to another connection, as it is if its body was
\* not touched.
TripResponse(s) ==
  LET c == cli.st[s]
      F == Forget([cli EXCEPT !.st[s].stop = "write"], s) IN
  /\ c.trip = "wait" /\ c.resc # "none"
  /\ cli' = CASE c.resc = "resp" -> [cli EXCEPT !.st[s].trip = "resp",
                                        !.st[s].stop = IF "errorStatus" \in may.calls THEN "write" ELSE @,
                                        !.st[s].user = IF c.piped THEN "read" ELSE "done"]
              [] c.resc = "err" -> [F EXCEPT !.st[s].trip = "err"]
              [] c.resc = "goAway" -> [F EXCEPT !.st[s].trip = IF c.started THEN "goAwayAfterBody"
                                                               ELSE "goAway"]
  /\ UNCHANGED <<may, srv, toServer, toClient>>

\* A cancelled request, or one whose response headers took too long.
TripCancel(s) ==
  LET c == cli.st[s]
      F == [Forget(cli, s) EXCEPT !.st[s].trip = "err"] IN
  /\ "cancel" \in may.calls /\ c.trip = "wait"
  /\ IF ~HasBody(s) \/ c.writer = "told"
     THEN cli' = F /\ Send(<<Frame("reset", s, 0, FALSE)>>)
     ELSE cli' = [F EXCEPT !.st[s].stop = "andCancel"] /\ UNCHANGED toServer
  /\ UNCHANGED <<may, srv, toClient>>

TripReset(s) ==
  /\ cli.st[s].trip = "wait" /\ cli.st[s].peerReset
  /\ cli' = [cli EXCEPT !.st[s].trip = "err"]
  /\ UNCHANGED <<may, srv, toServer, toClient>>

\* The body writer's result, when no response came first.  RoundTrip returns
\* its error and leaves the stream in the map.
TripBodyWritten(s) ==
  LET c == cli.st[s] IN
  /\ c.trip = "wait" /\ c.writer \in {"written", "failed"} /\ c.resc = "none"
  /\ cli' = [cli EXCEPT !.st[s].writer = "told",
                        !.st[s].trip = IF c.writer = "failed" THEN "err" ELSE @]
  /\ UNCHANGED <<may, srv, toServer, toClient>>

\* awaitRequestCancel: cancelStream, and then the pipe is closed.
WatchCancel(s) ==
  LET c == cli.st[s] IN
  /\ "cancel" \in may.calls /\ c.watch = "wait"
  /\ cli' = [cli EXCEPT !.st[s].didReset = TRUE, !.st[s].watch = "close"]
  /\ Send(IF c.didReset THEN <<>> ELSE <<Frame("reset", s, 0, FALSE)>>)
  /\ UNCHANGED <<may, srv, toClient>>

WatchClose(s) ==
  /\ cli.st[s].watch = "close"
  /\ cli' = [ClosePipe(cli, s, "err") EXCEPT !.st[s].watch = "done"]
  /\ UNCHANGED <<may, srv, toServer, toClient>>

\* transportResponseBody.Read of all there is, and what it gives back: the
\* connection's window when less than half of it is left, the stream's when
\* at least MinRefresh is missing.
BodyRead(s) ==
  LET c == cli.st[s]
      connAdd == IF cli.inflow < ConnFlow \div 2 THEN ConnFlow - cli.inflow ELSE 0
      v == Min2(cli.inflow + connAdd, c.inflow)
      streamAdd == IF v < StreamFlow - MinRefresh THEN StreamFlow - v ELSE 0 IN
  /\ c.user = "read" /\ c.pipe > 0
  /\ cli' = [cli EXCEPT !.inflow = @ + connAdd, !.st[s].inflow = @ + streamAdd,
                        !.st[s].pipe = 0, !.st[s].got = @ + c.pipe]
  /\ Send((IF connAdd # 0 THEN <<Frame("window", 0, connAdd, FALSE)>> ELSE <<>>)
          \o (IF streamAdd # 0 THEN <<Frame("window", s, streamAdd, FALSE)>> ELSE <<>>))
  /\ UNCHANGED <<may, srv, toClient>>

BodyEnd(s) ==
  /\ cli.st[s].user = "read" /\ cli.st[s].pipe = 0 /\ cli.st[s].pipeErr # "nil"
  /\ cli' = [cli EXCEPT !.st[s].user = "done"]
  /\ UNCHANGED <<may, srv, toServer, toClient>>

\* transportResponseBody.Close
BodyClose(s) ==
  LET c == cli.st[s] IN
  /\ "closeResponse" \in may.calls /\ c.user = "read"
  /\ cli' = [cli EXCEPT !.st[s].user = "closed", !.inflow = @ + c.pipe]
  /\ Send((IF c.pipeErr # "eof" THEN <<Frame("reset", s, 0, FALSE)>> ELSE <<>>)
          \o (IF c.pipe > 0 THEN <<Frame("window", 0, c.pipe, FALSE)>> ELSE <<>>))
  /\ UNCHANGED <<may, srv, toClient>>

-----------------------------------------------------------------------------
ServerStep(s) == NoteBodyRead(s) \/ HandlerRead(s) \/ HandlerCloseBody(s) \/ HandlerWrite(s)
                 \/ HandlerWritten(s) \/ HandlerPanic(s)
ClientStep(s) == WriterStart(s) \/ WriterAwait(s) \/ WriterWrite(s) \/ WriterFinish(s)
                 \/ TripResponse(s) \/ TripCancel(s) \/ TripReset(s) \/ TripBodyWritten(s)
                 \/ WatchCancel(s) \/ WatchClose(s) \/ BodyRead(s) \/ BodyEnd(s) \/ BodyClose(s)
ServerLoop == ServerRead \/ ServerReadError \/ ServerWrote \/ ShutdownTimer
ClientLoop == ClientRead \/ ClientPipeWrite \/ ClientReadError

\* The events nobody has to cause.
Outside == GracefulShutdown \/ IdleTimeout \/ ClientCloseIdle \/ ClientPing \/ RoundTrip

Next == ServerLoop \/ ClientLoop \/ Outside \/ \E s \in Streams : ServerStep(s) \/ ClientStep(s)
Spec == Init /\ [][Next]_vars

\* Goroutines that can step do, a handler reads and writes, a caller reads its
\* response.  Nobody has to cancel, close, shut down or begin a request; of two
\* branches of a select that stay ready both are taken in time.
Handler(s) == s \in Streams /\ (NoteBodyRead(s) \/ HandlerRead(s) \/ HandlerWrite(s) \/ HandlerWritten(s)
                                \/ (~srv.serving /\ HandlerPanic(s)))
Writer(s) == s \in Streams /\ (WriterStart(s) \/ WriterAwait(s) \/ WriterWrite(s) \/ WriterFinish(s))
Caller(s) == s \in Streams /\ (TripResponse(s) \/ TripReset(s) \/ TripBodyWritten(s) \/ BodyRead(s) \/ BodyEnd(s))
Watcher(s) == s \in Streams /\ WatchClose(s)
FairSpec ==
  /\ Spec /\ WF_vars(ServerRead \/ ServerReadError) /\ WF_vars(ServerWrote) /\ WF_vars(ClientLoop)
  /\ \A s \in 1..MaxStreams : WF_vars(Handler(s)) /\ WF_vars(Writer(s)) /\ WF_vars(Caller(s)) /\ WF_vars(Watcher(s))

-----------------------------------------------------------------------------
(* Properties *)

SumOver(S, f(_)) == FoldSet(LAMBDA s, n : f(s) + n, 0, S)
SumFrames(q, k, s) ==
  FoldSeq(LAMBDA f, n : IF f.k = k /\ (s = 0 \/ f.s = s) /\ (k = "window" => f.s = s) THEN f.n + n ELSE n, 0, q)

TypeOK ==
  /\ may \in Scenarios
  /\ srv.flow \in Int /\ srv.inflow \in Nat /\ srv.cur \in Nat /\ srv.maxId \in 0..Len(may.body)
  /\ cli.inflow \in Nat /\ cli.flow \in Nat
  /\ \A s \in Streams :
       /\ srv.st[s].state \in {"idle", "open", "halfLocal", "halfRemote", "closed"}
       /\ srv.st[s].handler \in {"none", "run", "wait", "done"}
       /\ srv.st[s].inflow \in Nat /\ srv.st[s].body \in Nat
       /\ cli.st[s].trip \in {"none", "wait", "resp", "err", "goAway", "goAwayAfterBody"}
       /\ cli.st[s].inflow \in Nat /\ cli.st[s].flow \in Nat

\* Two ends of this library never find each other in error, whatever of their streams is
\* cancelled, reset, refused, closed early or shut down: no GOAWAY but NO_ERROR, no connection
\* error of the client, no panic of the serve loop.  One thing a client does to itself: a cancel
\* that closes the pipe of its response between processData's unlock and its write
\* (h2_bundle.go:7001-7007) makes the write fail, and the read loop returns that error and ends
\* the connection for every stream.  Nothing but such a cancel does.
NoConnError ==
  /\ srv.goAwayCode = "no" /\ ~srv.crashed
  /\ cli.err \in {"nil", "eof", "idle", "pipe"}
  /\ cli.err = "pipe" => \E s \in Streams : cli.st[s].didReset /\ cli.st[s].watch = "done" /\ cli.st[s].pipeErr = "err"

\* What is on its way to the client, and to the server.
Sent == IF srv.writing = NoFrame THEN toClient ELSE Append(toClient, srv.writing)
Queued(s) == Sent \o (IF s = 0 THEN srv.cq ELSE srv.st[s].q)
Connected == srv.serving /\ srv.conn /\ ~cli.closed

\* What the client takes is what the server may still send, with what is under way in both
\* directions: on every stream exactly, and on the connection but for the data of streams that
\* the client forgot, which its counter got without giving it (h2_bundle.go:6965-6973).  By
\* exactly that much the client believes in more than the server has.
ClientWindowAgrees ==
  Connected =>
    /\ cli.inflow = srv.flow + SumFrames(toServer, "window", 0) + SumFrames(Sent, "data", 0) + cli.excess
    /\ \A s \in Streams :
         Open(srv, s) /\ cli.st[s].listed =>
           cli.st[s].inflow = srv.st[s].flow + SumFrames(toServer, "window", s) + SumFrames(Sent, "data", s)

\* The same for what the client sends, on the streams that still take data and on the
\* connection, but for the data of requests that the server ignored because it had said
\* GOAWAY, which it takes from no window and never gives back.
ServerWindowAgrees ==
  Connected =>
    /\ srv.inflow = cli.flow + SumOver(Streams, LAMBDA s : cli.st[s].taken)
                    + SumFrames(toServer, "data", 0) + SumFrames(Queued(0), "window", 0) + srv.ignored
    /\ \A s \in Streams :
         srv.st[s].state = "open" /\ ~srv.st[s].resetQueued /\ ~srv.st[s].gotTrailers /\ cli.st[s].listed =>
           srv.st[s].inflow = cli.st[s].flow + cli.st[s].taken
                              + SumFrames(toServer, "data", s) + SumFrames(Queued(s), "window", s)

\* The connection's window of the server comes back: a byte it took is in a body nobody closed,
\* with a handler, or was given back, also when the stream was reset, refused or abandoned; and
\* it comes back once, but for what a handler reads of a stream that was closed under it:
\* closeStream gave that back (h2_bundle.go:4072-4075), and noteBodyRead does again.
ServerWindowReturns ==
  srv.serving =>
    srv.inflow + SumOver(Streams, LAMBDA s : srv.st[s].taken + (IF Open(srv, s) THEN srv.st[s].body ELSE 0))
      = InitialWindow + srv.twice

\* A body that ends with io.EOF is all of it, on both sides.
CompleteBodies ==
  \A s \in Streams :
    /\ srv.st[s].hasBody /\ srv.st[s].bodyErr = "eof" => srv.st[s].seen + srv.st[s].body = may.body[s]
    /\ cli.st[s].pipeErr = "eof" => cli.st[s].got + cli.st[s].pipe = may.resp[s] \/ cli.st[s].user = "closed" \/ cli.st[s].didReset

\* A request that failed with errClientConnGotGoAway, which RoundTripOpt sends
\* again on another connection, never ran on this one, and never will.
SafeRetry ==
  \A s \in Streams : cli.st[s].trip \in {"goAway", "goAwayAfterBody"} => srv.st[s].handler = "none"

\* curClientStreams, which MAX_CONCURRENT_STREAMS and the end of a graceful
\* shutdown rest on, is the number of streams that are open.
StreamsCounted == srv.cur = Cardinality({s \in Streams : Open(srv, s)})

\* The connection's window of one direction is gone for good.  The server never gives back what
\* it ignored.  The client gives back nothing of what comes for a response that was closed, or
\* cancelled, before it knows of the end of the stream (h2_bundle.go:6979-7007), but when
\* somebody reads another response and it believes in less than half of the window.
Abandoned == cli.lost + SumOver({s \in Streams : cli.st[s].trip \notin {"none", "wait", "resp"}}, LAMBDA s : cli.st[s].pipe)
Starved == srv.ignored >= InitialWindow \/ cli.excess + Abandoned >= ConnFlow \div 2

\* RoundTrip returns, the response it returned can be read to its end, and no handler is left
\* behind, unless the connection starved.  Not so the handler when the request's body failed,
\* after which the client resets nothing, and when it was cancelled.
Waits(s) == s \in Streams /\ cli.st[s].trip = "wait" /\ ~Starved
Reads(s) == s \in Streams /\ cli.st[s].user = "read" /\ ~Starved
Handles(s) == s \in Streams /\ may.calls \cap {"bodyError", "cancel"} = {} /\ srv.st[s].handler \in {"run", "wait"} /\ ~Starved
CallsReturn == \A s \in 1..MaxStreams : []<>~Waits(s) /\ []<>~Reads(s) /\ []<>~Handles(s)

\* A graceful shutdown ends once the requests that came before it are answered.
ShutdownEnds == srv.asked ~> ~srv.serving \/ Starved

\* Streams that are cancelled, reset, closed early or refused leave the connection sound: no
\* end finds an error in the other, bodies that end are whole, the count of streams is right,
\* and a request that is sent again never ran.
StreamsSound == TypeOK /\ NoConnError /\ CompleteBodies /\ StreamsCounted /\ SafeRetry

\* The flow-control windows of both directions agree between the ends, on the connection and
\* on every stream, and come back when data is thrown away.
WindowsAgree == ClientWindowAgrees /\ ServerWindowAgrees /\ ServerWindowReturns

\* Calls, bodies, handlers and graceful shutdowns end.
StreamsEnd == CallsReturn /\ ShutdownEnds
====
