----------------------------- MODULE SSHSession -----------------------------
(***************************************************************************)
(* A session of the SSH client (xssh/session.go): Start, the goroutines    *)
(* that copy stdin, stdout and stderr, the goroutine that waits for the    *)
(* exit status, and Wait, which joins them.  The channel under it is that  *)
(* of SSHMux, reduced to what a session sees: what the remote side sent,   *)
(* in order, is delivered into buffers and a bounded queue of requests.    *)
(* The remote program (external) writes, reports its exit and closes.      *)
(***************************************************************************)
EXTENDS Integers, Sequences, FiniteSets, SequencesExt

CONSTANTS
  SessionSetups, \* how stdin, stdout and stderr are connected, what the user and the program do
  SignalNumber,  \* the table signals, of the signals it knows
  ReqCap         \* capacity of the channel of requests

ASSUME SessionAssumption == ReqCap \in Nat \ {0}

Streams == {"stdout", "stderr"}

VARIABLES
  conf,     \* the setup
  remote,   \* what the remote side still sends, in order; replies to requests apart
  inbox,    \* sent and not yet seen by the client's multiplexer
  buf,      \* buf[s]: bytes in the channel's buffer of stream s, and whether it ended
  reqs,     \* the channel of requests, and whether it is closed
  waiter,   \* Session.wait: the status and signal it has seen, and whether it returned
  user,     \* the goroutine that calls Start and Wait
  copier,   \* copier[c]: the goroutine of a copy function: "off", "run" or "done"
  out,      \* out[s]: bytes that the user has of stream s
  input,    \* stdin: what the reader holds, and whether the pipe's writer is closed
  report,   \* history: everything the program said about its exit
  told      \* history: bytes that arrived on each stream

sessionVars == <<conf, remote, inbox, buf, reqs, waiter, user, copier, out, input, report, told>>

-----------------------------------------------------------------------------
(* The remote program, and the multiplexer as a session sees it (external) *)

\* The program sends its next item once the session runs.
RemoteSends ==
  /\ user.started /\ remote # <<>>
  /\ inbox' = Append(inbox, Head(remote))
  /\ remote' = Tail(remote)
  /\ report' = IF Head(remote).kind \in {"exit-status", "exit-signal"} THEN Append(report, Head(remote)) ELSE report
  /\ UNCHANGED <<conf, buf, reqs, waiter, user, copier, out, input, told>>

\* The multiplexer delivers it; a request waits for room.  The close ends the streams and
\* closes the channel of requests.
Deliver ==
  /\ inbox # <<>>
  /\ LET m == Head(inbox) IN
     CASE m.kind \in Streams ->
            /\ buf' = [buf EXCEPT ![m.kind].bytes = @ + 1]
            /\ told' = [told EXCEPT ![m.kind] = @ + 1]
            /\ UNCHANGED reqs
       [] m.kind = "close" ->
            /\ buf' = [s \in Streams |-> [buf[s] EXCEPT !.ended = TRUE]]
            /\ reqs' = [reqs EXCEPT !.closed = TRUE]
            /\ UNCHANGED told
       [] OTHER ->
            /\ Len(reqs.items) < ReqCap
            /\ reqs' = [reqs EXCEPT !.items = Append(@, m)]
            /\ UNCHANGED <<buf, told>>
  /\ inbox' = Tail(inbox)
  /\ UNCHANGED <<conf, remote, waiter, user, copier, out, input, report>>

Gone == buf["stdout"].ended

-----------------------------------------------------------------------------
(* session.go *)

\* Start: the exec request, then start() with its setup functions.
Copiers ==
  (IF conf.stdin # "pipe" THEN {"stdin"} ELSE {}) \cup {s \in Streams : conf[s] = "writer"}

Start ==
  /\ user.pc = "new" /\ conf.starts
  /\ IF conf.denied
       THEN user' = [user EXCEPT !.pc = "returned", !.result = "startFailed"] /\ UNCHANGED copier
       ELSE /\ user' = [user EXCEPT !.pc = "started", !.started = TRUE]
            /\ copier' = [c \in DOMAIN copier |-> IF c \in Copiers THEN "run" ELSE "off"]
  /\ UNCHANGED <<conf, remote, inbox, buf, reqs, waiter, out, input, report, told>>

\* One round of Session.wait: a request of the channel.  An exit status of fewer than four
\* bytes (n = -1) is an index out of range, and the process ends; a signal that does not
\* parse ends the loop; another request is refused when it wants an answer.
WaitRequest ==
  /\ ~waiter.done /\ reqs.items # <<>>
  /\ LET m == Head(reqs.items) IN
     /\ user' = IF m.kind = "exit-status" /\ m.n = -1 THEN [user EXCEPT !.pc = "crashed"] ELSE user
     /\ waiter' =
          CASE m.kind = "exit-status" -> [waiter EXCEPT !.status = m.n]
            [] m.kind = "exit-signal" /\ m.n # -1 -> [waiter EXCEPT !.signal = m.n]
            [] m.kind = "exit-signal" /\ m.n = -1 -> [waiter EXCEPT !.done = TRUE, !.result = "parseError"]
            [] OTHER -> [waiter EXCEPT !.refused = @ + 1]
  /\ reqs' = [reqs EXCEPT !.items = Tail(@)]
  /\ UNCHANGED <<conf, remote, inbox, buf, copier, out, input, report, told>>

\* What Session.wait makes of the status (-1: none came) and the signal (0: none came).
ExitResult(status, signal) ==
  CASE status = 0 -> "nil"
    [] status = -1 /\ signal = 0 -> "exitMissing"
    [] OTHER -> "exit"
ExitCode(status, signal) ==
  IF status # -1 THEN status
  ELSE 128 + (IF signal \in DOMAIN SignalNumber THEN SignalNumber[signal] ELSE 0)

WaitEnds ==
  /\ ~waiter.done /\ reqs.items = <<>> /\ reqs.closed
  /\ waiter' = [waiter EXCEPT !.done = TRUE, !.result = ExitResult(waiter.status, waiter.signal),
                              !.status = IF ExitResult(waiter.status, waiter.signal) = "exit"
                                           THEN ExitCode(waiter.status, waiter.signal) ELSE @]
  /\ UNCHANGED <<conf, remote, inbox, buf, reqs, user, copier, out, input, report, told>>

\* stdout() and stderr(): io.Copy until the end of the stream.
CopyOut(s) ==
  /\ copier[s] = "run"
  /\ \/ /\ buf[s].bytes > 0
        /\ buf' = [buf EXCEPT ![s].bytes = @ - 1]
        /\ out' = [out EXCEPT ![s] = @ + 1]
        /\ UNCHANGED copier
     \/ /\ buf[s].bytes = 0 /\ buf[s].ended
        /\ copier' = [copier EXCEPT ![s] = "done"]
        /\ UNCHANGED <<buf, out>>
  /\ UNCHANGED <<conf, remote, inbox, reqs, waiter, user, input, report, told>>

\* stdin(): io.Copy from the reader, through a pipe, to the channel, then CloseWrite.
\* A write to a channel that is closed fails, and so does CloseWrite; io.EOF from
\* CloseWrite is no error.
CopyIn ==
  /\ copier["stdin"] = "run"
  /\ \/ /\ input.bytes > 0
        /\ input' = [input EXCEPT !.bytes = @ - 1, !.failed = Gone]
        /\ copier' = IF Gone THEN [copier EXCEPT !["stdin"] = "done"] ELSE copier
     \/ /\ (input.bytes = 0 /\ input.ends) \/ input.closed
        /\ copier' = [copier EXCEPT !["stdin"] = "done"]
        /\ UNCHANGED input
  /\ UNCHANGED <<conf, remote, inbox, buf, reqs, waiter, user, out, report, told>>

\* The user reads a pipe itself.
ReadPipe(s) ==
  /\ conf[s] = "pipe" /\ buf[s].bytes > 0
  /\ buf' = [buf EXCEPT ![s].bytes = @ - 1]
  /\ out' = [out EXCEPT ![s] = @ + 1]
  /\ UNCHANGED <<conf, remote, inbox, reqs, waiter, user, copier, input, report, told>>

\* Wait closes the pipe that feeds stdin, if there is one.
ClosesStdin == conf.stdin = "reader"

\* Wait: first the exit status, ...
WaitStatus ==
  /\ user.pc = "started" /\ waiter.done
  /\ user' = [user EXCEPT !.pc = "join"]
  /\ input' = [input EXCEPT !.closed = @ \/ ClosesStdin]
  /\ UNCHANGED <<conf, remote, inbox, buf, reqs, waiter, copier, out, report, told>>

MutJoined == copier["stdin"] # "run"
\* One receive from s.errors for each copy function.
Joined == \A c \in DOMAIN copier : copier[c] # "run"

\* ... then the copy functions.
WaitJoin ==
  /\ user.pc = "join" /\ Joined
  /\ user' = [user EXCEPT !.pc = "returned",
                          !.result = IF waiter.result # "nil" THEN waiter.result
                                     ELSE IF input.failed THEN "copyError" ELSE "nil"]
  /\ UNCHANGED <<conf, remote, inbox, buf, reqs, waiter, copier, out, input, report, told>>

-----------------------------------------------------------------------------
SessionInit ==
  /\ conf \in SessionSetups
  /\ remote = conf.sends /\ inbox = <<>>
  /\ buf = [s \in Streams |-> [bytes |-> 0, ended |-> FALSE]]
  /\ reqs = [items |-> <<>>, closed |-> FALSE]
  /\ waiter = [status |-> -1, signal |-> 0, refused |-> 0, done |-> FALSE, result |-> "none"]
  /\ user = [pc |-> "new", started |-> FALSE, result |-> "none"]
  /\ copier = [c \in Streams \cup {"stdin"} |-> "off"]
  /\ out = [s \in Streams |-> 0]
  /\ input = [bytes |-> conf.input, ends |-> conf.inputEnds, closed |-> FALSE, failed |-> FALSE]
  /\ report = <<>> /\ told = [s \in Streams |-> 0]

SessionNext ==
  /\ user.pc # "crashed"
  /\ \/ RemoteSends \/ Deliver \/ Start \/ WaitRequest \/ WaitEnds \/ CopyIn \/ WaitStatus \/ WaitJoin
     \/ \E s \in Streams : CopyOut(s) \/ ReadPipe(s)

\* The program comes to its end, and as long as a goroutine can run, one does.
SessionFairness ==
  WF_sessionVars(/\ user.pc # "crashed"
                 /\ \/ RemoteSends \/ Deliver \/ Start \/ WaitRequest \/ WaitEnds \/ CopyIn
                    \/ WaitStatus \/ WaitJoin \/ \E s \in Streams : CopyOut(s))

-----------------------------------------------------------------------------
(* Properties *)

\* The state stays within its domains.
SessionTypeOK ==
  /\ Len(reqs.items) <= ReqCap
  /\ \A s \in Streams : buf[s].bytes \in Nat /\ out[s] \in Nat
  /\ waiter.status \in -1..255 /\ user.pc \in {"new", "started", "join", "returned", "crashed"}
  /\ \A c \in DOMAIN copier : copier[c] \in {"off", "run", "done"}

\* When Wait returns, the writers hold everything the program wrote: every byte that was
\* sent is in Stdout or Stderr, whatever the order in which the exit status, the end of
\* the streams and the close arrived (Wait joins the copy functions after the status).
OutputComplete ==
  user.pc = "returned" /\ user.started /\ ~(waiter.result = "parseError") =>
    \A s \in Streams : conf[s] = "writer" => out[s] = told[s] /\ \A i \in 1..Len(inbox) : inbox[i].kind # s

\* Wait tells how the program ended: nil only after a zero exit status and input that was
\* copied, an exit error only after a status or a signal, and the missing exit otherwise
\* (Session.Wait's comment; Session.wait).
WaitTellsExit ==
  user.pc = "returned" /\ user.started =>
    LET statuses == SelectSeq(report, LAMBDA m : m.kind = "exit-status")
        code == IF statuses = <<>> THEN -1 ELSE Last(statuses).n IN
    CASE user.result = "nil" -> code = 0 /\ ~input.failed
      [] user.result = "copyError" -> code = 0 /\ input.failed
      [] user.result = "exitMissing" -> report = <<>>
      [] user.result = "exit" -> IF code # -1 THEN code # 0 /\ waiter.status = code
                                 ELSE report # <<>> /\ waiter.status >= 128
      [] OTHER -> user.result = "parseError"

\* Wait returns once the program has closed the channel, also when Stdin never ends and
\* when the program stopped reading (the pipe that Wait closes; window.close).  Not so
\* after an exit-signal that does not parse, when more requests follow than the channel
\* holds: nobody takes them, and the multiplexer waits.
WaitReturns == (user.pc = "started" /\ \A m \in ToSet(conf.sends) : ~(m.kind = "exit-signal" /\ m.n = -1))
                 ~> user.pc \in {"returned", "crashed"}

\* The process survives the session, unless the remote side reported an exit status that is
\* shorter than its four bytes (session.go:406).
CrashesOnShortStatus ==
  user.pc = "crashed" => \E i \in 1..Len(report) : report[i].kind = "exit-status" /\ report[i].n = -1

\* Wait returns when the program is over, tells how it ended, and then all its output is
\* there, in whatever order the parts of the end arrive.
SessionSound == [](SessionTypeOK /\ OutputComplete /\ WaitTellsExit /\ CrashesOnShortStatus) /\ WaitReturns
=============================================================================
