------------------------------ MODULE Pipeline ------------------------------
(***************************************************************************)
(* The scan pipeline of ZGrab: processing.Process (ztools/processing/      *)
(* input.go), the GrabWorker that counts statuses (zlib/processing.go),    *)
(* the two target decoders (zlib/grabber.go) and the part of main() that   *)
(* reports the counts (main.go).                                           *)
(*                                                                         *)
(* Goroutines: main (decodes, joins, reports), one per worker, the output  *)
(* encoder and the status counter.  Channels: processQueue, outputQueue    *)
(* and statuses, all buffered and all closed by main.  What a connection   *)
(* does is one step here (module Grabber models it): GrabBanner returns a  *)
(* grab with or without an error, or panics.                               *)
(***************************************************************************)
EXTENDS Integers, Sequences, FiniteSets

CONSTANTS
  Workers,        \* the worker goroutines, config.Senders of them
  RunCount,       \* config.ConnectionsPerHost
  QueueFactor,    \* the 4 of "workers*4", the capacity of every channel
  Inputs,         \* the input files a run may be started on
  Crashes         \* which of CrashKinds can happen

CrashKinds == {"grabPanic", "writeError", "metricsServer"}

\* One line of input, by what the decoders tell apart: the number of CSV
\* fields, and whether the line is ill-quoted or its first field an address.
Lines == [fields : Nat \ {0}, form : {"address", "notAddress", "badQuote"}]

ASSUME WorkersAssumption == IsFiniteSet(Workers) /\ Workers # {}
ASSUME RunCountAssumption == RunCount \in 1..50
ASSUME QueueFactorAssumption == QueueFactor \in Nat \ {0}
ASSUME InputsAssumption ==
         \A f \in Inputs : f.lines \in Seq(Lines) /\ f.newline \in BOOLEAN /\ f.format \in {"csv", "domains"}
                         /\ f.faults \in Nat
ASSUME CrashesAssumption == Crashes \subseteq CrashKinds

Channels == {"processQueue", "outputQueue", "statuses"}

Senders == Cardinality(Workers)
QueueCap == QueueFactor * Senders

Status == {"success", "failure"}
Result == Status \cup {"null"}

\* What DecodeNext hands to a worker.  id numbers the calls (it tells objects
\* apart and is no part of the program); kind is "nil" for the nil object.
Objects == [id : Nat, kind : {"target", "nil"}]
NoObject == [id |-> 0, kind |-> "nil"]

\* One line of output: the object and run it reports, and what the handler said.
Records == [id : Nat, run : Nat, res : Result]
NoRecord == [id |-> 0, run |-> 0, res |-> "null"]

VARIABLES
  input,            \* the input file (chosen at the start)
  pos,              \* the line the decoder reads next
  fieldsPerRecord,  \* csv.Reader.FieldsPerRecord, 0 until the first record
  faults,           \* failed reads so far
  mainPC, mainObj,  \* main: where it is, the object it is enqueueing
  decoded,          \* DecodeNext calls that did not return EOF
  targets,          \* the ids of the objects that are targets
  processQueue, outputQueue, statuses,   \* the channels: what they buffer,
  closed,           \* and which of Channels have been closed
  wpc, wobj, wrun, wres,   \* the workers: obj, run, result of the loops
  workerDone,       \* the WaitGroup's counter
  opc, ohold,       \* the output encoder: where it is, its "result"
  outputDone,       \* the WaitGroup's counter
  file,             \* the records written to the output file
  newlines,         \* the line ends written to it
  dropped,          \* records whose marshalling failed
  shold,            \* the status counter: the status it has received
  counted,          \* GrabWorker.success and .failure
  sent,             \* the statuses workers have sent (history)
  reads,            \* main's unsynchronised reads of the two counters
  crashed           \* "no", or why the process died

decVars  == <<input, pos, fieldsPerRecord, faults, mainObj, decoded, targets>>
mainVars == <<decVars, mainPC>>
chanVars == <<processQueue, outputQueue, statuses, closed>>
workVars == <<wpc, wobj, wrun, wres, workerDone>>
encVars  == <<opc, ohold, outputDone, file, newlines>>
statVars == <<shold, counted, sent>>

vars == <<mainVars, chanVars, workVars, encVars, dropped, statVars, reads, crashed>>

\* -lookup-domain: one domain per line, else CSV.  The flag goes with the file.
LookupDomain == input.format = "domains"
\* BOUND: reads of the input that fail with other than EOF.
MaxFaults == input.faults

Exited == mainPC = "exited"
Halted == Exited \/ crashed # "no"
Running == ~Halted

-----------------------------------------------------------------------------
Init ==
  /\ input \in Inputs
  /\ pos = 1 /\ fieldsPerRecord = 0 /\ faults = 0
  /\ mainPC = "decode" /\ mainObj = NoObject
  /\ decoded = 0 /\ targets = {}
  /\ processQueue = <<>> /\ outputQueue = <<>> /\ statuses = <<>>
  /\ closed = {}
  /\ wpc = [w \in Workers |-> "idle"]
  /\ wobj = [w \in Workers |-> NoObject]
  /\ wrun = [w \in Workers |-> 1]
  /\ wres = [w \in Workers |-> "null"]
  /\ workerDone = Senders
  /\ opc = "recv" /\ ohold = NoRecord /\ outputDone = 1
  /\ file = <<>> /\ newlines = 0 /\ dropped = {}
  /\ shold = "none"
  /\ counted = [s \in Status |-> 0]
  /\ sent = [s \in Status |-> 0]
  /\ reads = <<>>
  /\ crashed = "no"

\* A send on a closed channel panics, and with it the whole process.
Guarded(c) == crashed' = IF c \in closed THEN "sendOnClosed" ELSE crashed

-----------------------------------------------------------------------------
(* main: decode, enqueue, close, join, report.                             *)

\* The end of the input.  ReadBytes('\n') returns io.EOF together with an
\* unterminated last line, and the decoder then drops the line.
AtEOF ==
  \/ pos > Len(input.lines)
  \/ LookupDomain /\ pos = Len(input.lines) /\ ~input.newline

\* grabTargetDecoder.DecodeNext: csv.Reader takes its width from the first
\* record it can parse, and refuses every later record of another width.
CsvKind(l) ==
  IF l.form = "address" /\ fieldsPerRecord \in {0, l.fields} THEN "target" ELSE "nil"
CsvWidth(l) ==
  IF l.form # "badQuote" /\ fieldsPerRecord = 0 THEN l.fields ELSE fieldsPerRecord

\* The loop logs an error and enqueues the nil object all the same.
Decoded(kind) ==
  /\ decoded' = decoded + 1
  /\ mainObj' = [id |-> decoded + 1, kind |-> kind]
  /\ targets' = IF kind = "target" THEN targets \cup {decoded + 1} ELSE targets
  /\ mainPC' = "enqueue"

DecodeCsv ==
  /\ Running /\ mainPC = "decode" /\ ~AtEOF /\ ~LookupDomain
  /\ LET l == input.lines[pos]
     IN  Decoded(CsvKind(l)) /\ fieldsPerRecord' = CsvWidth(l)
  /\ pos' = pos + 1
  /\ UNCHANGED <<chanVars, workVars, encVars, statVars, input, faults,
                 dropped, reads, crashed>>

\* grabDomainDecoder.DecodeNext: every terminated line is a target.
DecodeDomain ==
  /\ Running /\ mainPC = "decode" /\ ~AtEOF /\ LookupDomain
  /\ Decoded("target")
  /\ pos' = pos + 1
  /\ UNCHANGED <<chanVars, workVars, encVars, statVars, input,
                 fieldsPerRecord, faults, dropped, reads, crashed>>

\* The read of the input fails with an error that is not EOF.
DecodeFault ==
  /\ Running /\ mainPC = "decode" /\ faults < MaxFaults
  /\ Decoded("nil")
  /\ faults' = faults + 1
  /\ UNCHANGED <<chanVars, workVars, encVars, statVars, input, pos,
                 fieldsPerRecord, dropped, reads, crashed>>

\* processQueue <- obj
Enqueue ==
  /\ Running /\ mainPC = "enqueue" /\ Len(processQueue) < QueueCap
  /\ processQueue' = Append(processQueue, mainObj)
  /\ mainPC' = "decode"
  /\ Guarded("processQueue")
  /\ UNCHANGED <<decVars, workVars, encVars, statVars, outputQueue,
                 statuses, closed, dropped, reads>>

\* io.EOF: break, then close(processQueue)
CloseProcessQueue ==
  /\ Running /\ mainPC = "decode" /\ AtEOF
  /\ closed' = closed \cup {"processQueue"}
  /\ mainPC' = "joinWorkers"
  /\ UNCHANGED <<decVars, workVars, encVars, statVars, processQueue,
                 outputQueue, statuses, dropped, reads, crashed>>

\* Mutant of JoinWorkers: outputQueue is closed without waiting for the workers.
MutJoinWorkersEarly ==
  /\ Running /\ mainPC = "joinWorkers"
  /\ closed' = closed \cup {"outputQueue"}
  /\ mainPC' = "joinOutput"
  /\ UNCHANGED <<decVars, workVars, encVars, statVars, processQueue,
                 outputQueue, statuses, dropped, reads, crashed>>

\* workerDone.Wait() returns; close(outputQueue)
JoinWorkers ==
  /\ Running /\ mainPC = "joinWorkers" /\ workerDone = 0
  /\ closed' = closed \cup {"outputQueue"}
  /\ mainPC' = "joinOutput"
  /\ UNCHANGED <<decVars, workVars, encVars, statVars, processQueue,
                 outputQueue, statuses, dropped, reads, crashed>>

\* Mutant of JoinOutput: Process returns without waiting for the encoder.
MutJoinOutputEarly ==
  /\ Running /\ mainPC = "joinOutput"
  /\ closed' = closed \cup {"statuses"}
  /\ mainPC' = "report"
  /\ UNCHANGED <<decVars, workVars, encVars, statVars, processQueue,
                 outputQueue, statuses, dropped, reads, crashed>>

\* outputDone.Wait() returns; w.Done() closes statuses; Process returns
JoinOutput ==
  /\ Running /\ mainPC = "joinOutput" /\ outputDone = 0
  /\ closed' = closed \cup {"statuses"}
  /\ mainPC' = "report"
  /\ UNCHANGED <<decVars, workVars, encVars, statVars, processQueue,
                 outputQueue, statuses, dropped, reads, crashed>>

\* Success(), Failure() for the log line, Success(), Failure() and the two
\* loads of Total() for the summary: six reads of counters that another
\* goroutine may still be incrementing, each a step of its own.
ReportReads == 6
ReadOf(i) == IF i % 2 = 1 THEN "success" ELSE "failure"

ReadCounter ==
  /\ Running /\ mainPC = "report" /\ Len(reads) < ReportReads
  /\ reads' = Append(reads, counted[ReadOf(Len(reads) + 1)])
  /\ UNCHANGED <<mainVars, chanVars, workVars, encVars, statVars, dropped,
                 crashed>>

\* The summary is encoded and main returns, which ends every goroutine.
Exit ==
  /\ Running /\ mainPC = "report" /\ Len(reads) = ReportReads
  /\ mainPC' = "exited"
  /\ UNCHANGED <<decVars, chanVars, workVars, encVars, statVars, dropped,
                 reads, crashed>>

-----------------------------------------------------------------------------
(* A worker: for obj := range processQueue, for run < runCount.            *)

Receive(w) ==
  /\ Running /\ wpc[w] = "idle" /\ processQueue # <<>>
  /\ wobj' = [wobj EXCEPT ![w] = Head(processQueue)]
  /\ wrun' = [wrun EXCEPT ![w] = 1]
  /\ wpc' = [wpc EXCEPT ![w] = "handle"]
  /\ processQueue' = Tail(processQueue)
  /\ UNCHANGED <<mainVars, encVars, statVars, outputQueue, statuses, closed,
                 wres, workerDone, dropped, reads, crashed>>

\* The handler on a target: GrabBanner returns ...
Grab(w) ==
  /\ Running /\ wpc[w] = "handle" /\ wobj[w].kind = "target"
  /\ \E s \in Status : wres' = [wres EXCEPT ![w] = s]
  /\ wpc' = [wpc EXCEPT ![w] = "status"]
  /\ UNCHANGED <<mainVars, chanVars, encVars, statVars, wobj, wrun,
                 workerDone, dropped, reads, crashed>>

\* ... or panics: its deferred function logs and panics again.
GrabPanic(w) ==
  /\ Running /\ wpc[w] = "handle" /\ wobj[w].kind = "target" /\ "grabPanic" \in Crashes
  /\ crashed' = "grabPanic"
  /\ UNCHANGED <<mainVars, chanVars, workVars, encVars, statVars, dropped,
                 reads>>

\* The handler on the nil object returns nil, and sends no status.
HandleNil(w) ==
  /\ Running /\ wpc[w] = "handle" /\ wobj[w].kind = "nil"
  /\ wres' = [wres EXCEPT ![w] = "null"]
  /\ wpc' = [wpc EXCEPT ![w] = "marshal"]
  /\ UNCHANGED <<mainVars, chanVars, encVars, statVars, wobj, wrun,
                 workerDone, dropped, reads, crashed>>

\* g.statuses <- s
SendStatus(w) ==
  /\ Running /\ wpc[w] = "status" /\ Len(statuses) < QueueCap
  /\ statuses' = Append(statuses, wres[w])
  /\ sent' = [sent EXCEPT ![wres[w]] = @ + 1]
  /\ wpc' = [wpc EXCEPT ![w] = "marshal"]
  /\ Guarded("statuses")
  /\ UNCHANGED <<mainVars, encVars, processQueue, outputQueue, closed, wobj,
                 wrun, wres, workerDone, dropped, shold, counted, reads>>

MarshalOk(w) ==
  /\ Running /\ wpc[w] = "marshal"
  /\ wpc' = [wpc EXCEPT ![w] = "send"]
  /\ UNCHANGED <<mainVars, chanVars, encVars, statVars, wobj, wrun, wres,
                 workerDone, dropped, reads, crashed>>

RecordOf(w) == [id |-> wobj[w].id, run |-> wrun[w], res |-> wres[w]]

\* Mutant of NextRun: run <= runCount in the loop's test.
MutNextRunOffByOne(w) ==
  /\ wpc' = [wpc EXCEPT ![w] = IF wrun[w] <= RunCount THEN "handle" ELSE "idle"]
  /\ wrun' = [wrun EXCEPT ![w] = @ + 1]

\* run++ and the loop's test: the next run of this object, or the next object
NextRun(w) ==
  /\ wpc' = [wpc EXCEPT ![w] = IF wrun[w] < RunCount THEN "handle" ELSE "idle"]
  /\ wrun' = [wrun EXCEPT ![w] = @ + 1]

\* json.Marshal fails (it never does on nil): log and continue
MarshalError(w) ==
  /\ Running /\ wpc[w] = "marshal" /\ wres[w] # "null"
  /\ dropped' = dropped \cup {RecordOf(w)}
  /\ NextRun(w)
  /\ UNCHANGED <<mainVars, chanVars, encVars, statVars, wobj, wres,
                 workerDone, reads, crashed>>

\* outputQueue <- enc
SendOutput(w) ==
  /\ Running /\ wpc[w] = "send" /\ Len(outputQueue) < QueueCap
  /\ outputQueue' = Append(outputQueue, RecordOf(w))
  /\ NextRun(w)
  /\ Guarded("outputQueue")
  /\ UNCHANGED <<mainVars, encVars, statVars, processQueue, statuses,
                 closed, wobj, wres, workerDone, dropped, reads>>

\* processQueue is closed and drained: workerDone.Done()
WorkerFinish(w) ==
  /\ Running /\ wpc[w] = "idle" /\ processQueue = <<>> /\ "processQueue" \in closed
  /\ wpc' = [wpc EXCEPT ![w] = "done"]
  /\ workerDone' = workerDone - 1
  /\ UNCHANGED <<mainVars, chanVars, encVars, statVars, wobj, wrun, wres,
                 dropped, reads, crashed>>

-----------------------------------------------------------------------------
(* The output encoder: two writes for every result.                        *)

\* Mutant of ReceiveOutput: the encoder takes the newest result first.
MutReceiveOutputNewest ==
  /\ Running /\ opc = "recv" /\ outputQueue # <<>>
  /\ ohold' = outputQueue[Len(outputQueue)]
  /\ outputQueue' = SubSeq(outputQueue, 1, Len(outputQueue) - 1)
  /\ opc' = "write"
  /\ UNCHANGED <<mainVars, workVars, statVars, processQueue, statuses,
                 closed, outputDone, file, newlines, dropped, reads, crashed>>

ReceiveOutput ==
  /\ Running /\ opc = "recv" /\ outputQueue # <<>>
  /\ ohold' = Head(outputQueue)
  /\ outputQueue' = Tail(outputQueue)
  /\ opc' = "write"
  /\ UNCHANGED <<mainVars, workVars, statVars, processQueue, statuses,
                 closed, outputDone, file, newlines, dropped, reads, crashed>>

WriteRecord ==
  /\ Running /\ opc = "write"
  /\ file' = Append(file, ohold)
  /\ opc' = "newline"
  /\ UNCHANGED <<mainVars, chanVars, workVars, statVars, ohold, outputDone,
                 newlines, dropped, reads, crashed>>

WriteNewline ==
  /\ Running /\ opc = "newline"
  /\ newlines' = newlines + 1
  /\ opc' = "recv"
  /\ UNCHANGED <<mainVars, chanVars, workVars, statVars, ohold, outputDone,
                 file, dropped, reads, crashed>>

\* Either write fails: panic(err.Error())
WriteError ==
  /\ Running /\ opc \in {"write", "newline"} /\ "writeError" \in Crashes
  /\ crashed' = "writeError"
  /\ UNCHANGED <<mainVars, chanVars, workVars, encVars, statVars, dropped,
                 reads>>

\* Mutant of OutputFinish: the encoder returns without outputDone.Done().
MutOutputFinishForgets ==
  /\ Running /\ opc = "recv" /\ outputQueue = <<>> /\ "outputQueue" \in closed
  /\ opc' = "done"
  /\ outputDone' = outputDone
  /\ UNCHANGED <<mainVars, chanVars, workVars, statVars, ohold, file,
                 newlines, dropped, reads, crashed>>

OutputFinish ==
  /\ Running /\ opc = "recv" /\ outputQueue = <<>> /\ "outputQueue" \in closed
  /\ opc' = "done"
  /\ outputDone' = outputDone - 1
  /\ UNCHANGED <<mainVars, chanVars, workVars, statVars, ohold, file,
                 newlines, dropped, reads, crashed>>

-----------------------------------------------------------------------------
(* The status counter, which nobody waits for.                             *)

ReceiveStatus ==
  /\ Running /\ shold = "none" /\ statuses # <<>>
  /\ shold' = Head(statuses)
  /\ statuses' = Tail(statuses)
  /\ UNCHANGED <<mainVars, workVars, encVars, processQueue, outputQueue,
                 closed, dropped, counted, sent, reads, crashed>>

\* Mutant of CountStatus: a status is counted as a success and as a failure.
MutCountStatusBoth ==
  /\ Running /\ shold # "none"
  /\ counted' = [s \in Status |-> counted[s] + 1]
  /\ shold' = "none"
  /\ UNCHANGED <<mainVars, chanVars, workVars, encVars, dropped, sent,
                 reads, crashed>>

CountStatus ==
  /\ Running /\ shold # "none"
  /\ counted' = [counted EXCEPT ![shold] = @ + 1]
  /\ shold' = "none"
  /\ UNCHANGED <<mainVars, chanVars, workVars, encVars, dropped, sent,
                 reads, crashed>>

\* -prometheus: the metrics server cannot listen, and Fatalf ends the process.
MetricsServerError ==
  /\ Running /\ "metricsServer" \in Crashes
  /\ crashed' = "metricsServer"
  /\ UNCHANGED <<mainVars, chanVars, workVars, encVars, statVars, dropped,
                 reads>>

Terminated == Halted /\ UNCHANGED vars

-----------------------------------------------------------------------------
Main == \/ DecodeCsv \/ DecodeDomain \/ DecodeFault \/ Enqueue
        \/ CloseProcessQueue \/ JoinWorkers \/ JoinOutput \/ ReadCounter \/ Exit
Worker(w) == \/ Receive(w) \/ Grab(w) \/ GrabPanic(w) \/ HandleNil(w)
             \/ SendStatus(w) \/ MarshalOk(w) \/ MarshalError(w)
             \/ SendOutput(w) \/ WorkerFinish(w)
Encoder == ReceiveOutput \/ WriteRecord \/ WriteNewline \/ WriteError \/ OutputFinish
Counter == ReceiveStatus \/ CountStatus

Next == \/ Main
        \/ \E w \in Workers : Worker(w)
        \/ Encoder
        \/ Counter
        \/ MetricsServerError
        \/ Terminated

\* Go runs every goroutine that can run.  That a worker's step ends is the
\* doing of the deadlines a dialer sets on every connection.
Fairness == /\ WF_vars(Main)
            /\ \A w \in Workers : WF_vars(Worker(w))
            /\ WF_vars(Encoder)
            /\ WF_vars(Counter)

Spec == Init /\ [][Next]_vars
FairSpec == Spec /\ Fairness

-----------------------------------------------------------------------------
(* Properties.                                                             *)

TypeMain ==
  /\ input \in Inputs /\ pos \in Nat \ {0} /\ fieldsPerRecord \in Nat
  /\ faults \in 0..MaxFaults
  /\ mainPC \in {"decode", "enqueue", "joinWorkers", "joinOutput", "report", "exited"}
  /\ mainObj \in Objects /\ decoded \in Nat /\ targets \subseteq 1..decoded
TypeChannels ==
  /\ processQueue \in Seq(Objects) /\ Len(processQueue) <= QueueCap
  /\ outputQueue \in Seq(Records) /\ Len(outputQueue) <= QueueCap
  /\ statuses \in Seq(Status) /\ Len(statuses) <= QueueCap
  /\ closed \subseteq Channels
TypeWorkers ==
  /\ wpc \in [Workers -> {"idle", "handle", "status", "marshal", "send", "done"}]
  /\ wobj \in [Workers -> Objects]
  /\ wrun \in [Workers -> 1..RunCount + 1]
  /\ wres \in [Workers -> Result]
  /\ workerDone \in 0..Senders
TypeEncoder ==
  /\ opc \in {"recv", "write", "newline", "done"}
  /\ ohold \in Records /\ outputDone \in 0..1
  /\ file \in Seq(Records) /\ newlines \in Nat
  /\ dropped \subseteq Records
TypeCounter ==
  /\ shold \in Status \cup {"none"}
  /\ counted \in [Status -> Nat] /\ sent \in [Status -> Nat]
TypeReport ==
  /\ reads \in Seq(Nat) /\ Len(reads) <= ReportReads
  /\ crashed \in CrashKinds \cup {"no", "sendOnClosed"}

\* Every variable has its type, no channel holds more than the capacity that
\* its make() gave it (input.go:43-44, processing.go:74), and no WaitGroup is
\* counted below zero.
TypeOK == /\ TypeMain /\ TypeChannels /\ TypeWorkers
          /\ TypeEncoder /\ TypeCounter /\ TypeReport

\* Process has returned: main is past the last join.
Returned == mainPC \in {"report", "exited"}

\* The runs the input asks for, and what became of one.
Jobs == (1..decoded) \X (1..RunCount)
JobOf(r) == <<r.id, r.run>>
Written(j) == \E i \in 1..Len(file) : JobOf(file[i]) = j
Dropped(j) == \E r \in dropped : JobOf(r) = j

\* Who may still send on what: the WaitGroups count the goroutines that are
\* not done, each channel is closed exactly from main's point on, a worker
\* leaves only when its channel is closed and empty, and the channels the
\* workers send on are closed only when no worker is left (input.go:94-98).
Active == {"handle", "status", "marshal", "send"}
ChannelProtocol ==
  /\ workerDone = Cardinality({w \in Workers : wpc[w] # "done"})
  /\ outputDone = IF opc = "done" THEN 0 ELSE 1
  /\ "processQueue" \in closed <=> mainPC \notin {"decode", "enqueue"}
  /\ "outputQueue" \in closed <=> mainPC \in {"joinOutput", "report", "exited"}
  /\ "statuses" \in closed <=> Returned
  /\ \A w \in Workers :
       /\ wpc[w] \in Active => wrun[w] <= RunCount
       /\ wpc[w] = "status" => wres[w] # "null"
       /\ wpc[w] = "done" => processQueue = <<>> /\ "processQueue" \in closed
       /\ "outputQueue" \in closed => wpc[w] = "done"
  /\ opc = "done" => outputQueue = <<>> /\ "outputQueue" \in closed
  /\ Returned => opc = "done"

\* main closes the three channels in an order that no goroutine can still be
\* sending on the one it closes (input.go:94-98): no run of the program dies
\* of "send on closed channel".
NoSendOnClosed == crashed # "sendOnClosed"

\* Where a decoded run can be before it is written or dropped.
BeingEnqueued(id) == mainPC = "enqueue" /\ mainObj.id = id
InProcessQueue(id) == \E i \in 1..Len(processQueue) : processQueue[i].id = id
InHand(id, run) ==
  \E w \in Workers : wpc[w] \in Active /\ wobj[w].id = id /\ wrun[w] <= run
InOutputQueue(j) == \E i \in 1..Len(outputQueue) : JobOf(outputQueue[i]) = j
InEncoder(j) == opc = "write" /\ JobOf(ohold) = j

\* No step of any goroutine loses a run: from the moment its object is decoded
\* it is in main's hand, in processQueue, in a worker's loop, in outputQueue,
\* in the encoder's hand, in the file, or dropped (input.go:52-93).
Accounted ==
  /\ \A id \in 1..decoded, run \in 1..RunCount :
       \/ BeingEnqueued(id) \/ InProcessQueue(id) \/ InHand(id, run)
       \/ InOutputQueue(<<id, run>>) \/ InEncoder(<<id, run>>)
       \/ Written(<<id, run>>) \/ Dropped(<<id, run>>)
  /\ newlines = IF opc = "newline" THEN Len(file) - 1 ELSE Len(file)

\* When Process returns, every run of every object that was decoded, targets
\* and failed lines alike, has been written to the output with its line end,
\* unless it was dropped for a marshalling error (input.go:69-97).
NothingLost ==
  Returned => /\ \A j \in Jobs : Written(j) \/ Dropped(j)
              /\ newlines = Len(file)

\* At all times, a crash included, the output holds no run twice, none that
\* was not decoded, none that was dropped, and "null" exactly for what is no
\* target: what is in the file after the process died can be kept and the
\* rest scanned again.
OutputSound ==
  /\ \A i \in 1..Len(file) :
       /\ JobOf(file[i]) \in Jobs
       /\ ~Dropped(JobOf(file[i]))
       /\ file[i].res = "null" <=> file[i].id \notin targets
  /\ \A i, k \in 1..Len(file) : JobOf(file[i]) = JobOf(file[k]) => i = k
  /\ Len(file) - newlines \in 0..1

\* The -connections-per-host runs of one object are written in the order they
\* were made, although workers, queue and encoder interleave everything else.
RunsInOrder ==
  \A i, k \in 1..Len(file) :
    i < k /\ file[i].id = file[k].id => file[i].run < file[k].run

\* When Process returns, each status was sent once for each run that ended
\* with it, the runs whose record was dropped included, and none for the
\* "null" lines (processing.go:60-69).
StatusPerRun ==
  Returned =>
    \A s \in Status :
      sent[s] = Cardinality({i \in 1..Len(file) : file[i].res = s})
                + Cardinality({r \in dropped : r.res = s})

\* What main reports is never more than what happened, never goes down from
\* the log line to the summary's Success and Failure and on to its Total, and
\* misses at most the statuses still in the channel and the one in the
\* counter's hand, although nobody waits for the counter (main.go:370-376).
SummaryBounds ==
  /\ \A i \in 1..Len(reads) : reads[i] <= sent[ReadOf(i)]
  /\ \A i, k \in 1..Len(reads) : i < k /\ ReadOf(i) = ReadOf(k) => reads[i] <= reads[k]
  /\ \A i \in {2, 4, 6} : Len(reads) >= i =>
       sent["success"] + sent["failure"] - (reads[i - 1] + reads[i]) <= QueueCap + 1

\* How many elements of a channel or of the file are in a set, and the records of runs that
\* ended with status s.
Hits(q, S) == Cardinality({i \in 1..Len(q) : q[i] \in S})
Ended(s) == [id : Nat, run : Nat, res : {s}]

\* The workers between sending the status of a run and handing over its record.
Reporting(s) == {w \in Workers : wpc[w] \in {"marshal", "send"} /\ wres[w] = s}
One(b) == IF b THEN 1 ELSE 0

\* Where every status that was sent is: with the counter, counted, or on the way; and where
\* the run is that it stands for.
StatusesPlaced ==
  /\ \A s \in Status : sent[s] = counted[s] + Hits(statuses, {s}) + One(shold = s)
  /\ sent["success"] + sent["failure"]
       = counted["success"] + counted["failure"] + Len(statuses) + One(shold # "none")
RunsReported ==
  /\ IsFiniteSet(dropped)
  /\ \A s \in Status :
       sent[s] = Hits(file, Ended(s)) + Cardinality(dropped \cap Ended(s))
                 + Hits(outputQueue, Ended(s)) + One(opc = "write" /\ ohold.res = s)
                 + Cardinality(Reporting(s))

\* The counters only grow while main reads them, so that a read is behind by what was on the
\* way at the first read of the pair.
ReadsBehind ==
  /\ reads # <<>> => Returned
  /\ \A i \in 1..Len(reads) : reads[i] <= counted[ReadOf(i)]
  /\ Len(reads) % 2 = 1 =>
       sent["success"] + sent["failure"] - (reads[Len(reads)] + counted["failure"]) <= QueueCap + 1
Tally == StatusesPlaced /\ RunsReported /\ ReadsBehind

\* Every line of the input has been decoded when Process returns: one object
\* per line, plus one nil object for each failed read; only a list of domains
\* whose last line has no line end is a line short (grabber.go:80-83).
LinesRead ==
  IF LookupDomain /\ ~input.newline /\ input.lines # <<>>
    THEN Len(input.lines) - 1 ELSE Len(input.lines)
EveryLineDecoded == Returned => decoded = LinesRead + faults

\* The runs of one object, first r and then s.
Before(r, s) == r.id = s.id => r.run < s.run

\* An object that main has decoded: its kind says whether it is a target.
Genuine(o) == o.id \in 1..decoded /\ (o.kind = "target" <=> o.id \in targets)

\* A record that has left its worker belongs to a run that is behind: its object is neither
\* in main's hand nor in processQueue, and a worker that has it is at a later run.
LeftBehind(r) ==
  /\ JobOf(r) \in Jobs /\ (r.res = "null" <=> r.id \notin targets)
  /\ mainPC = "enqueue" => r.id < decoded
  /\ \A i \in 1..Len(processQueue) : r.id < processQueue[i].id
  /\ \A w \in Workers : wpc[w] \in Active /\ wobj[w].id = r.id => r.run < wrun[w]

\* Objects go from main to a worker in the order they were decoded and to one worker only.
MainHolds == mainPC = "enqueue" => Genuine(mainObj) /\ mainObj.id = decoded
QueueHolds ==
  \A i \in 1..Len(processQueue) :
    /\ Genuine(processQueue[i])
    /\ mainPC = "enqueue" => processQueue[i].id < decoded
    /\ \A k \in 1..Len(processQueue) : i < k => processQueue[i].id < processQueue[k].id
WorkerHolds(w) ==
  wpc[w] \in Active =>
    /\ Genuine(wobj[w])
    /\ mainPC = "enqueue" => wobj[w].id < decoded
    /\ \A i \in 1..Len(processQueue) : wobj[w].id < processQueue[i].id
    /\ \A v \in Workers : wpc[v] \in Active /\ wobj[v].id = wobj[w].id => v = w
    /\ wpc[w] \in {"status", "marshal", "send"} => (wres[w] = "null" <=> wobj[w].kind = "nil")
ObjectsInOrder == MainHolds /\ QueueHolds /\ \A w \in Workers : WorkerHolds(w)

\* Every record that left a worker is behind it, and no run of it was also dropped.
RecordsBehind ==
  /\ \A i \in 1..Len(file) : LeftBehind(file[i]) /\ ~Dropped(JobOf(file[i]))
  /\ opc = "write" => LeftBehind(ohold) /\ ~Dropped(JobOf(ohold))
  /\ \A i \in 1..Len(outputQueue) : LeftBehind(outputQueue[i]) /\ ~Dropped(JobOf(outputQueue[i]))
  /\ \A r \in dropped : LeftBehind(r)

\* The order of the runs, from the file over the encoder's hand to the end of outputQueue.
RecordsInOrder ==
  /\ \A i, k \in 1..Len(file) : i < k => Before(file[i], file[k])
  /\ \A i \in 1..Len(file), k \in 1..Len(outputQueue) : Before(file[i], outputQueue[k])
  /\ \A i, k \in 1..Len(outputQueue) : i < k => Before(outputQueue[i], outputQueue[k])
  /\ opc = "write" => /\ \A i \in 1..Len(file) : Before(file[i], ohold)
                      /\ \A k \in 1..Len(outputQueue) : Before(ohold, outputQueue[k])

\* The lines behind the decoder, and the end of the input where main stops reading.
LinesDecoded ==
  /\ decoded = pos - 1 + faults /\ pos - 1 <= LinesRead
  /\ "processQueue" \in closed => pos - 1 = LinesRead

\* No run is ever in two places, and the places are passed in order: what makes the file
\* right whoever is slow (input.go:46-93).
Lineage == ObjectsInOrder /\ RecordsBehind /\ RecordsInOrder /\ LinesDecoded

\* The counts of the log line "finished grab (%d success; %d failure)"
\* (main.go:370) are the counts of the grabs that were made.
LogCountsAllGrabs ==
  Exited => reads[1] = sent["success"] /\ reads[2] = sent["failure"]

\* Once Process has returned, nothing it reported on changes any more: no
\* goroutine it started is still writing, dropping or sending.
Settled == [][Returned => UNCHANGED <<file, newlines, dropped, sent>>]_vars

\* The program ends (every channel is drained and every join returns), or dies.
Termination == <>Halted

\* Process does what Scan promises: each job it takes on is emitted once, in
\* the order of its runs, or lost, and it returns when none is outstanding.
Contract == INSTANCE Scan WITH
              issued <- decoded,
              output <- [i \in 1..Len(file) |-> JobOf(file[i])],
              lost <- {JobOf(r) : r \in dropped},
              phase <- IF Returned THEN "returned" ELSE "scanning"
ImplementsScan == Contract!Spec

\* The channels and WaitGroups of Process and GrabWorker are used in an order in which no
\* goroutine can send on a closed one, whoever is slow (input.go:84-98).
ChannelsSafe == TypeOK /\ ChannelProtocol /\ NoSendOnClosed

\* No run of an object gets lost between the goroutines: at every moment each is in one of
\* the places that Accounted names, and when Process returns they are in the file or dropped
\* for a marshalling error (input.go:52-97).
RunsConserved == Accounted /\ NothingLost

\* The file is right at any time, after a crash too: every line of the input is decoded into
\* an object, no run is repeated, invented or reordered, because none is ever in two places
\* (input.go:46-97, the decoders).
FileSound == Lineage /\ OutputSound /\ RunsInOrder /\ EveryLineDecoded

\* The statuses are those of the runs, and the log line and the summary are never ahead of
\* them and behind only by what the channel holds (processing.go:60-87, main.go:370-376).
CountsSound == Tally /\ StatusPerRun /\ SummaryBounds

\* Process implements Scan, and nothing it reported on changes once it has returned.
KeepsContract == ImplementsScan /\ Settled
=============================================================================
