--------------------------- MODULE PipelineProofs ---------------------------
(***************************************************************************)
(* Proofs about Pipeline, for every number of workers, every input, every  *)
(* queue capacity and every number of connections per host: the types and  *)
(* the channel protocol, what is in the output file, that Process          *)
(* implements Scan, and what the counts say.                               *)
(*                                                                         *)
(* The inductive invariants of the second half are Lineage (no run is in   *)
(* two places, and the places are passed in order) and Tally (where each   *)
(* status and the run it stands for are), over the types and the channel   *)
(* protocol.                                                               *)
(***************************************************************************)
EXTENDS Pipeline, FiniteSetTheorems, SequenceTheorems, FunctionTheorems, TLAPS

LEMMA SendersNat == Senders \in Nat \ {0}
  BY WorkersAssumption, FS_CardinalityType, FS_EmptySet DEF Senders

LEMMA QueueCapNat == QueueCap \in Nat \ {0}
  BY SendersNat, QueueFactorAssumption DEF QueueCap

LEMMA TypeInit == Init => TypeOK
<1> SUFFICES ASSUME Init PROVE TypeOK
  OBVIOUS
<1> USE SendersNat, QueueCapNat DEF Init
<1>1. TypeMain
  BY InputsAssumption DEF TypeMain, Objects, NoObject, MaxFaults
<1>2. TypeChannels
  BY DEF TypeChannels
<1>3. TypeWorkers
  BY RunCountAssumption DEF TypeWorkers, Objects, NoObject, Result
<1>4. TypeEncoder
  BY DEF TypeEncoder, Records, NoRecord, Result
<1>5. TypeCounter
  BY DEF TypeCounter, Status
<1>6. TypeReport
  BY DEF TypeReport, ReportReads
<1> QED
  BY <1>1, <1>2, <1>3, <1>4, <1>5, <1>6 DEF TypeOK

LEMMA TypeMainNext == TypeOK /\ [Next]_vars => TypeMain'
<1> SUFFICES ASSUME TypeMain, [Next]_vars PROVE TypeMain'
  BY DEF TypeOK
<1>0. input.faults \in Nat
  BY InputsAssumption DEF TypeMain
<1> USE <1>0 DEF TypeMain, MaxFaults
<1>1. CASE DecodeCsv
  <2> DEFINE l == input.lines[pos]
  <2>1. input.lines \in Seq(Lines) /\ pos \in 1..Len(input.lines)
    BY <1>1, InputsAssumption DEF DecodeCsv, AtEOF
  <2>2. l \in Lines
    BY <2>1
  <2>3. CsvWidth(l) \in Nat /\ CsvKind(l) \in {"target", "nil"}
    BY <2>2 DEF CsvWidth, CsvKind, Lines
  <2>4. pos' = pos + 1 /\ faults' = faults /\ input' = input
    BY <1>1 DEF DecodeCsv
  <2>5. fieldsPerRecord' = CsvWidth(l) /\ Decoded(CsvKind(l))
    BY <1>1 DEF DecodeCsv
  <2> HIDE DEF l
  <2> QED
    BY <2>3, <2>4, <2>5 DEF Decoded, Objects
<1>2. CASE DecodeDomain
  BY <1>2 DEF DecodeDomain, Decoded, Objects
<1>3. CASE DecodeFault
  BY <1>3 DEF DecodeFault, Decoded, Objects
<1>4. CASE Enqueue \/ CloseProcessQueue \/ JoinWorkers \/ JoinOutput \/ Exit
  BY <1>4 DEF Enqueue, CloseProcessQueue, JoinWorkers, JoinOutput, Exit, decVars
<1>5. CASE UNCHANGED mainVars
  BY <1>5 DEF mainVars, decVars
<1> QED
  BY <1>1, <1>2, <1>3, <1>4, <1>5 DEF Next, vars, Main, Worker, Encoder, Counter,
   ReadCounter, Receive, Grab, GrabPanic, HandleNil, SendStatus, MarshalOk, MarshalError, SendOutput, WorkerFinish,
   ReceiveOutput, WriteRecord, WriteNewline, WriteError, OutputFinish, ReceiveStatus, CountStatus, MetricsServerError, Terminated

LEMMA TypeChannelsNext == TypeOK /\ ChannelProtocol /\ [Next]_vars => TypeChannels'
<1> SUFFICES ASSUME TypeOK, ChannelProtocol, [Next]_vars PROVE TypeChannels'
  OBVIOUS
<1> USE QueueCapNat DEF TypeOK, TypeChannels
<1>1. CASE Enqueue
  BY <1>1 DEF Enqueue, TypeMain
<1>2. CASE CloseProcessQueue \/ JoinWorkers \/ JoinOutput
  BY <1>2 DEF CloseProcessQueue, JoinWorkers, JoinOutput, Channels
<1>3. ASSUME NEW w \in Workers, Receive(w) PROVE TypeChannels'
  BY <1>3 DEF Receive
<1>4. ASSUME NEW w \in Workers, SendStatus(w) PROVE TypeChannels'
  BY <1>4 DEF SendStatus, ChannelProtocol, TypeWorkers, Result
<1>5. ASSUME NEW w \in Workers, SendOutput(w) PROVE TypeChannels'
  BY <1>5 DEF SendOutput, RecordOf, Records, Objects, TypeWorkers
<1>6. CASE ReceiveOutput
  BY <1>6 DEF ReceiveOutput
<1>7. CASE ReceiveStatus
  BY <1>7 DEF ReceiveStatus
<1>8. CASE UNCHANGED chanVars
  BY <1>8 DEF chanVars
<1> QED
  BY <1>1, <1>2, <1>3, <1>4, <1>5, <1>6, <1>7, <1>8 DEF Next, vars, Main, Worker, Encoder, Counter,
   DecodeCsv, DecodeDomain, DecodeFault, ReadCounter, Exit, Grab, GrabPanic, HandleNil, MarshalOk, MarshalError, WorkerFinish,
   WriteRecord, WriteNewline, WriteError, OutputFinish, CountStatus, MetricsServerError, Terminated

\* The workers that are still in their loops, whom workerDone counts.
Alive == {w \in Workers : wpc[w] # "done"}

LEMMA AliveFinite == IsFiniteSet(Alive) /\ Cardinality(Alive) \in 0..Senders
  BY WorkersAssumption, FS_Subset, FS_CardinalityType DEF Alive, Senders

LEMMA AliveCounts ==
  ASSUME NEW w \in Workers, wpc[w] # "done" PROVE Cardinality(Alive) >= 1
<1>1. w \in Alive
  BY DEF Alive
<1> QED
  BY <1>1, AliveFinite, FS_EmptySet, FS_CardinalityType

LEMMA TypeWorkersNext == TypeOK /\ ChannelProtocol /\ [Next]_vars => TypeWorkers'
<1> SUFFICES ASSUME TypeOK, ChannelProtocol, [Next]_vars PROVE TypeWorkers'
  OBVIOUS
<1> USE RunCountAssumption, SendersNat DEF TypeOK, TypeWorkers
<1>1. ASSUME NEW w \in Workers, Receive(w) PROVE TypeWorkers'
  BY <1>1 DEF Receive, TypeChannels
<1>2. ASSUME NEW w \in Workers, Grab(w) \/ HandleNil(w) PROVE TypeWorkers'
  BY <1>2 DEF Grab, HandleNil, Result
<1>3. ASSUME NEW w \in Workers, SendStatus(w) \/ MarshalOk(w) PROVE TypeWorkers'
  BY <1>3 DEF SendStatus, MarshalOk
<1>4. ASSUME NEW w \in Workers, MarshalError(w) \/ SendOutput(w) PROVE TypeWorkers'
  <2>1. wrun[w] \in 1..RunCount
    BY <1>4 DEF MarshalError, SendOutput, ChannelProtocol, Active
  <2>2. NextRun(w) /\ UNCHANGED <<wobj, wres, workerDone>>
    BY <1>4 DEF MarshalError, SendOutput
  <2> QED
    BY <2>1, <2>2 DEF NextRun
<1>5. ASSUME NEW w \in Workers, WorkerFinish(w) PROVE TypeWorkers'
  BY <1>5, AliveCounts DEF WorkerFinish, ChannelProtocol, Alive
<1>6. CASE UNCHANGED workVars
  BY <1>6 DEF workVars
<1> QED
  BY <1>1, <1>2, <1>3, <1>4, <1>5, <1>6
     DEF Next, vars, Main, Worker, Encoder, Counter, DecodeCsv, DecodeDomain,
         DecodeFault, Enqueue, CloseProcessQueue, JoinWorkers, JoinOutput,
         ReadCounter, Exit, GrabPanic, ReceiveOutput, WriteRecord,
         WriteNewline, WriteError, OutputFinish, ReceiveStatus, CountStatus,
         MetricsServerError, Terminated

LEMMA TypeEncoderNext == TypeOK /\ ChannelProtocol /\ [Next]_vars => TypeEncoder'
<1> SUFFICES ASSUME TypeOK, ChannelProtocol, [Next]_vars PROVE TypeEncoder'
  OBVIOUS
<1> USE DEF TypeOK, TypeEncoder
<1>1. ASSUME NEW w \in Workers, MarshalError(w) PROVE TypeEncoder'
  BY <1>1 DEF MarshalError, RecordOf, Records, Objects, TypeWorkers, encVars
<1>2. CASE ReceiveOutput
  BY <1>2 DEF ReceiveOutput, TypeChannels
<1>3. CASE WriteRecord \/ WriteNewline
  BY SMTT(40), <1>3 DEF WriteRecord, WriteNewline
<1>4. CASE OutputFinish
  BY <1>4 DEF OutputFinish, ChannelProtocol
<1>5. CASE UNCHANGED <<encVars, dropped>>
  BY <1>5 DEF encVars
<1> QED
  BY <1>1, <1>2, <1>3, <1>4, <1>5
     DEF Next, vars, Main, Worker, Encoder, Counter, DecodeCsv, DecodeDomain,
         DecodeFault, Enqueue, CloseProcessQueue, JoinWorkers, JoinOutput,
         ReadCounter, Exit, Receive, Grab, GrabPanic, HandleNil, SendStatus,
         MarshalOk, SendOutput, WorkerFinish, WriteError, ReceiveStatus,
         CountStatus, MetricsServerError, Terminated

LEMMA TypeCounterNext == TypeOK /\ ChannelProtocol /\ [Next]_vars => TypeCounter'
<1> SUFFICES ASSUME TypeOK, ChannelProtocol, [Next]_vars PROVE TypeCounter'
  OBVIOUS
<1> USE DEF TypeOK, TypeCounter
<1>1. ASSUME NEW w \in Workers, SendStatus(w) PROVE TypeCounter'
  <2>1. wres[w] \in Status
    BY <1>1 DEF SendStatus, ChannelProtocol, TypeWorkers, Result
  <2> QED
    BY <1>1, <2>1 DEF SendStatus
<1>2. CASE ReceiveStatus
  BY <1>2 DEF ReceiveStatus, TypeChannels
<1>3. CASE CountStatus
  BY <1>3 DEF CountStatus
<1>4. CASE UNCHANGED statVars
  BY <1>4 DEF statVars
<1> QED
  BY <1>1, <1>2, <1>3, <1>4
     DEF Next, vars, Main, Worker, Encoder, Counter, DecodeCsv, DecodeDomain,
         DecodeFault, Enqueue, CloseProcessQueue, JoinWorkers, JoinOutput,
         ReadCounter, Exit, Receive, Grab, GrabPanic, HandleNil, MarshalOk,
         MarshalError, SendOutput, WorkerFinish, ReceiveOutput, WriteRecord,
         WriteNewline, WriteError, OutputFinish, MetricsServerError, Terminated

LEMMA TypeReportNext == TypeOK /\ [Next]_vars => TypeReport'
<1> SUFFICES ASSUME TypeReport, TypeCounter, [Next]_vars PROVE TypeReport'
  BY DEF TypeOK
<1> USE DEF TypeReport
<1>1. CASE ReadCounter
  <2>1. PICK c \in Nat : reads' = Append(reads, c)
    BY <1>1 DEF ReadCounter, ReadOf, Status, TypeCounter
  <2> QED
    BY <1>1, <2>1 DEF ReadCounter, ReportReads
<1>2. CASE WriteError \/ MetricsServerError
  BY <1>2 DEF WriteError, MetricsServerError, CrashKinds
<1>3. CASE Enqueue
  BY <1>3 DEF Enqueue, Guarded
<1>4. ASSUME NEW w \in Workers, GrabPanic(w) \/ SendStatus(w) \/ SendOutput(w)
      PROVE  TypeReport'
  BY <1>4 DEF GrabPanic, SendStatus, SendOutput, Guarded, CrashKinds
<1>5. CASE UNCHANGED <<reads, crashed>>
  BY <1>5
<1> QED
  BY <1>1, <1>2, <1>3, <1>4, <1>5
     DEF Next, vars, Main, Worker, Encoder, Counter, DecodeCsv, DecodeDomain,
         DecodeFault, CloseProcessQueue, JoinWorkers, JoinOutput, Exit,
         Receive, Grab, HandleNil, MarshalOk, MarshalError, WorkerFinish,
         ReceiveOutput, WriteRecord, WriteNewline, OutputFinish, ReceiveStatus,
         CountStatus, Terminated
-----------------------------------------------------------------------------
\* The parts of ChannelProtocol, so that a step can be checked against one.
Joins == workerDone = Cardinality(Alive) /\ outputDone = IF opc = "done" THEN 0 ELSE 1
ClosedByMain ==
  /\ "processQueue" \in closed <=> mainPC \notin {"decode", "enqueue"}
  /\ "outputQueue" \in closed <=> mainPC \in {"joinOutput", "report", "exited"}
  /\ "statuses" \in closed <=> mainPC \in {"report", "exited"}
WorkerAt(w) ==
  /\ wpc[w] \in Active => wrun[w] <= RunCount
  /\ wpc[w] = "status" => wres[w] # "null"
  /\ wpc[w] = "done" => processQueue = <<>> /\ "processQueue" \in closed
  /\ "outputQueue" \in closed => wpc[w] = "done"
EncoderAt ==
  /\ opc = "done" => outputQueue = <<>> /\ "outputQueue" \in closed
  /\ mainPC \in {"report", "exited"} => opc = "done"

LEMMA ProtocolParts ==
  ChannelProtocol <=> Joins /\ ClosedByMain /\ (\A w \in Workers : WorkerAt(w)) /\ EncoderAt
  BY DEF ChannelProtocol, Joins, ClosedByMain, WorkerAt, EncoderAt, Alive, Returned

LEMMA ProtocolInit == Init => ChannelProtocol
<1> SUFFICES ASSUME Init PROVE ChannelProtocol
  OBVIOUS
<1>1. Alive = Workers
  BY DEF Init, Alive
<1> QED
  BY <1>1, ProtocolParts DEF Init, Joins, ClosedByMain, WorkerAt, EncoderAt, Senders, Active

LEMMA JoinsNext == TypeOK /\ ChannelProtocol /\ [Next]_vars => Joins'
<1> SUFFICES ASSUME TypeOK, ChannelProtocol, [Next]_vars PROVE Joins'
  OBVIOUS
<1>0. Joins
  BY ProtocolParts
<1>1. ASSUME NEW w \in Workers, WorkerFinish(w) PROVE Joins'
  <2>1. w \in Alive /\ Alive' = Alive \ {w}
    BY <1>1 DEF WorkerFinish, Alive, TypeOK, TypeWorkers
  <2>2. Cardinality(Alive') = Cardinality(Alive) - 1
    BY <2>1, AliveFinite, FS_RemoveElement
  <2> QED
    BY <1>0, <1>1, <2>2 DEF WorkerFinish, Joins, encVars
<1>2. CASE OutputFinish
  BY <1>0, <1>2 DEF OutputFinish, Joins, Alive, workVars
<1>3. ASSUME NEW w \in Workers,
             \/ Receive(w) \/ Grab(w) \/ HandleNil(w) \/ SendStatus(w)
             \/ MarshalOk(w) \/ MarshalError(w) \/ SendOutput(w)
      PROVE  Joins'
  <2>1. Alive' = Alive
    BY <1>3 DEF Receive, Grab, HandleNil, SendStatus, MarshalOk, MarshalError,
                SendOutput, NextRun, Alive, TypeOK, TypeWorkers
  <2>2. UNCHANGED <<workerDone, opc, outputDone>>
    BY <1>3 DEF Receive, Grab, HandleNil, SendStatus, MarshalOk, MarshalError,
                SendOutput, encVars
  <2> QED
    BY <1>0, <2>1, <2>2 DEF Joins
<1>4. CASE UNCHANGED workVars /\ (opc = "done" <=> opc' = "done") /\ outputDone' = outputDone
  BY <1>0, <1>4 DEF Joins, Alive, workVars
<1> QED
  BY <1>1, <1>2, <1>3, <1>4
     DEF Next, vars, encVars, Main, Worker, Encoder, Counter, DecodeCsv,
         DecodeDomain, DecodeFault, Enqueue, CloseProcessQueue, JoinWorkers,
         JoinOutput, ReadCounter, Exit, GrabPanic, ReceiveOutput, WriteRecord,
         WriteNewline, WriteError, ReceiveStatus, CountStatus,
         MetricsServerError, Terminated

LEMMA ClosedByMainNext == TypeOK /\ ChannelProtocol /\ [Next]_vars => ClosedByMain'
<1> SUFFICES ASSUME TypeOK, ClosedByMain, [Next]_vars PROVE ClosedByMain'
  BY ProtocolParts
<1> USE DEF ClosedByMain
<1>1. CASE DecodeCsv \/ DecodeDomain \/ DecodeFault \/ Enqueue
  BY <1>1 DEF DecodeCsv, DecodeDomain, DecodeFault, Decoded, Enqueue, chanVars
<1>2. CASE CloseProcessQueue \/ JoinWorkers \/ JoinOutput \/ Exit
  BY <1>2 DEF CloseProcessQueue, JoinWorkers, JoinOutput, Exit, chanVars
<1>3. CASE UNCHANGED <<mainPC, closed>>
  BY <1>3
<1> QED
  BY <1>1, <1>2, <1>3
     DEF Next, vars, mainVars, chanVars, Main, Worker, Encoder, Counter,
         ReadCounter, Receive, Grab, GrabPanic, HandleNil, SendStatus,
         MarshalOk, MarshalError, SendOutput, WorkerFinish, ReceiveOutput,
         WriteRecord, WriteNewline, WriteError, OutputFinish, ReceiveStatus,
         CountStatus, MetricsServerError, Terminated
\* workerDone.Wait() returns only when every worker has left its loop.
LEMMA WaitMeansDone ==
  ASSUME TypeOK, Joins, workerDone = 0, NEW w \in Workers PROVE wpc[w] = "done"
  BY AliveCounts DEF Joins, TypeOK, TypeWorkers

LEMMA WorkersNext ==
  ASSUME TypeOK, ChannelProtocol, [Next]_vars, NEW u \in Workers PROVE WorkerAt(u)'
<1>0. Joins /\ ClosedByMain /\ WorkerAt(u)
  BY ProtocolParts
<1> USE DEF WorkerAt, TypeOK, TypeWorkers
<1>1. CASE Enqueue
  BY <1>0, <1>1 DEF Enqueue, workVars, ClosedByMain
<1>2. CASE CloseProcessQueue \/ JoinOutput
  BY <1>0, <1>2 DEF CloseProcessQueue, JoinOutput, workVars, ClosedByMain
<1>3. CASE JoinWorkers
  BY <1>0, <1>3, WaitMeansDone DEF JoinWorkers, workVars, ClosedByMain
<1>4. ASSUME NEW w \in Workers, Receive(w) PROVE WorkerAt(u)'
  BY <1>0, <1>4, RunCountAssumption DEF Receive, Active, TypeChannels
<1>5. ASSUME NEW w \in Workers, Grab(w) \/ HandleNil(w) PROVE WorkerAt(u)'
  BY <1>0, <1>5 DEF Grab, HandleNil, Active, Status, chanVars
<1>6. ASSUME NEW w \in Workers, SendStatus(w) \/ MarshalOk(w) PROVE WorkerAt(u)'
  BY <1>0, <1>6 DEF SendStatus, MarshalOk, Active, chanVars
<1>7. ASSUME NEW w \in Workers, MarshalError(w) \/ SendOutput(w) PROVE WorkerAt(u)'
  <2>1. NextRun(w) /\ UNCHANGED <<wres, processQueue, closed>> /\ wpc[w] # "done"
    BY <1>7 DEF MarshalError, SendOutput, chanVars
  <2> QED
    BY <1>0, <2>1, RunCountAssumption DEF NextRun, Active
<1>8. ASSUME NEW w \in Workers, WorkerFinish(w) PROVE WorkerAt(u)'
  BY <1>0, <1>8 DEF WorkerFinish, Active, chanVars
<1>9. CASE UNCHANGED <<workVars, processQueue, closed>>
  BY <1>0, <1>9 DEF workVars
<1> QED
  BY <1>1, <1>2, <1>3, <1>4, <1>5, <1>6, <1>7, <1>8, <1>9
     DEF Next, vars, chanVars, Main, Worker, Encoder, Counter, DecodeCsv,
         DecodeDomain, DecodeFault, ReadCounter, Exit, GrabPanic,
         ReceiveOutput, WriteRecord, WriteNewline, WriteError, OutputFinish,
         ReceiveStatus, CountStatus, MetricsServerError, Terminated

LEMMA EncoderNext == TypeOK /\ ChannelProtocol /\ [Next]_vars => EncoderAt'
<1> SUFFICES ASSUME TypeOK, ChannelProtocol, [Next]_vars PROVE EncoderAt'
  OBVIOUS
<1>0. Joins /\ ClosedByMain /\ EncoderAt
  BY ProtocolParts
<1> USE DEF EncoderAt
<1>1. CASE DecodeCsv \/ DecodeDomain \/ DecodeFault \/ Enqueue
  BY <1>0, <1>1 DEF DecodeCsv, DecodeDomain, DecodeFault, Decoded, Enqueue, chanVars, encVars
<1>2. CASE CloseProcessQueue \/ JoinWorkers \/ JoinOutput \/ Exit
  BY <1>0, <1>2 DEF CloseProcessQueue, JoinWorkers, JoinOutput, Exit, Joins, chanVars, encVars
<1>3. ASSUME NEW w \in Workers, SendOutput(w) PROVE EncoderAt'
  <2>1. WorkerAt(w)
    BY ProtocolParts
  <2> QED
    BY <1>0, <1>3, <2>1 DEF SendOutput, WorkerAt, mainVars, encVars
<1>4. CASE ReceiveOutput \/ WriteRecord \/ WriteNewline \/ OutputFinish
  BY <1>0, <1>4 DEF ReceiveOutput, WriteRecord, WriteNewline, OutputFinish, mainVars, chanVars
<1>5. CASE UNCHANGED <<mainPC, opc, outputQueue, closed>>
  BY <1>0, <1>5
<1> QED
  BY <1>1, <1>2, <1>3, <1>4, <1>5
     DEF Next, vars, mainVars, encVars, chanVars, Main, Worker, Encoder,
         Counter, ReadCounter, Receive, Grab, GrabPanic, HandleNil, SendStatus,
         MarshalOk, MarshalError, WorkerFinish, WriteError, ReceiveStatus,
         CountStatus, MetricsServerError, Terminated

\* The inductive invariant: the types and the channel protocol need each other.
LEMMA ProtocolInductive ==
  TypeOK /\ ChannelProtocol /\ [Next]_vars => TypeOK' /\ ChannelProtocol'
<1> SUFFICES ASSUME TypeOK, ChannelProtocol, [Next]_vars PROVE TypeOK' /\ ChannelProtocol'
  OBVIOUS
<1>1. TypeOK'
  BY TypeMainNext, TypeChannelsNext, TypeWorkersNext, TypeEncoderNext,
     TypeCounterNext, TypeReportNext DEF TypeOK
<1>2. Joins' /\ ClosedByMain' /\ (\A w \in Workers : WorkerAt(w)') /\ EncoderAt'
  BY JoinsNext, ClosedByMainNext, WorkersNext, EncoderNext
<1>3. ChannelProtocol'
  BY <1>2 DEF ChannelProtocol, Joins, ClosedByMain, WorkerAt, EncoderAt, Alive, Returned
<1> QED
  BY <1>1, <1>3

\* In every reachable state of Process and its workers the variables have
\* their types and the channels respect their capacities.
THEOREM TypeCorrect == Spec => []TypeOK
<1>1. Init => TypeOK /\ ChannelProtocol
  BY TypeInit, ProtocolInit
<1> QED
  BY <1>1, ProtocolInductive, PTL DEF Spec

\* The WaitGroups and the closing of the channels keep their protocol in every
\* reachable state (input.go:42-99).
THEOREM ProtocolCorrect == Spec => []ChannelProtocol
<1>1. Init => TypeOK /\ ChannelProtocol
  BY TypeInit, ProtocolInit
<1> QED
  BY <1>1, ProtocolInductive, PTL DEF Spec

\* A send on a closed channel needs a sender that outlived the close.
LEMMA SafeSends ==
  TypeOK /\ ChannelProtocol /\ NoSendOnClosed /\ [Next]_vars => NoSendOnClosed'
<1> SUFFICES ASSUME TypeOK, ChannelProtocol, NoSendOnClosed, [Next]_vars
             PROVE  NoSendOnClosed'
  OBVIOUS
<1>0. ClosedByMain /\ \A w \in Workers : WorkerAt(w)
  BY ProtocolParts
<1> USE DEF NoSendOnClosed
<1>1. CASE Enqueue
  BY <1>0, <1>1 DEF Enqueue, Guarded, ClosedByMain
<1>2. ASSUME NEW w \in Workers, SendStatus(w) PROVE NoSendOnClosed'
  BY <1>0, <1>2 DEF SendStatus, Guarded, ClosedByMain, WorkerAt
<1>3. ASSUME NEW w \in Workers, SendOutput(w) PROVE NoSendOnClosed'
  BY <1>0, <1>3 DEF SendOutput, Guarded, WorkerAt
<1>4. ASSUME NEW w \in Workers, GrabPanic(w) PROVE NoSendOnClosed'
  BY <1>4 DEF GrabPanic
<1>5. CASE WriteError \/ MetricsServerError
  BY <1>5 DEF WriteError, MetricsServerError
<1>6. CASE UNCHANGED crashed
  BY <1>6
<1> QED
  BY <1>1, <1>2, <1>3, <1>4, <1>5, <1>6
     DEF Next, vars, Main, Worker, Encoder, Counter, DecodeCsv, DecodeDomain,
         DecodeFault, CloseProcessQueue, JoinWorkers, JoinOutput, ReadCounter,
         Exit, Receive, Grab, HandleNil, MarshalOk, MarshalError, WorkerFinish,
         ReceiveOutput, WriteRecord, WriteNewline, OutputFinish, ReceiveStatus,
         CountStatus, Terminated

\* No interleaving of main, the workers, the encoder and the counter sends on
\* a channel that main has closed.
THEOREM NoSendOnClosedChannel == Spec => []NoSendOnClosed
<1>1. Init => TypeOK /\ ChannelProtocol /\ NoSendOnClosed
  BY TypeInit, ProtocolInit DEF Init, NoSendOnClosed
<1> QED
  BY <1>1, ProtocolInductive, SafeSends, PTL DEF Spec
-----------------------------------------------------------------------------
(* Conservation: no run of a decoded object is lost.                       *)

\* The places of Accounted, as one predicate of the job.
Placed(id, run) ==
  \/ BeingEnqueued(id) \/ InProcessQueue(id) \/ InHand(id, run)
  \/ InOutputQueue(<<id, run>>) \/ InEncoder(<<id, run>>)
  \/ Written(<<id, run>>) \/ Dropped(<<id, run>>)

LEMMA AppendKeeps ==
  ASSUME NEW S, NEW q \in Seq(S), NEW x \in S
  PROVE  /\ Len(Append(q, x)) = Len(q) + 1
         /\ \A i \in 1..Len(q) : Append(q, x)[i] = q[i]
         /\ Append(q, x)[Len(q) + 1] = x
  OBVIOUS

LEMMA TailKeeps ==
  ASSUME NEW S, NEW q \in Seq(S), q # <<>>
  PROVE  /\ Len(Tail(q)) = Len(q) - 1
         /\ \A i \in 2..Len(q) : i - 1 \in 1..Len(Tail(q)) /\ Tail(q)[i - 1] = q[i]
         /\ Head(q) = q[1]
  OBVIOUS

\* A step that touches none of the places keeps the job where it is.
LEMMA FramePlaced ==
  ASSUME NEW id, NEW run, Placed(id, run),
         UNCHANGED <<mainPC, mainObj, processQueue, wpc, wobj, wrun,
                     outputQueue, opc, ohold, file, dropped>>
  PROVE  Placed(id, run)'
  BY DEF Placed, BeingEnqueued, InProcessQueue, InHand, InOutputQueue, InEncoder, Written, Dropped

\* When a worker is done with a run, it keeps the later runs in hand.
LEMMA RunMoves ==
  ASSUME TypeWorkers, NEW w \in Workers, wpc[w] \in Active, NextRun(w), wobj' = wobj,
         NEW id, NEW run \in 1..RunCount, InHand(id, run)
  PROVE  InHand(id, run)' \/ JobOf(RecordOf(w)) = <<id, run>>
<1> USE DEF TypeWorkers
<1>1. PICK v \in Workers : wpc[v] \in Active /\ wobj[v].id = id /\ wrun[v] <= run
  BY DEF InHand
<1>2. CASE v # w
  BY <1>1, <1>2 DEF InHand, NextRun
<1>3. CASE v = w /\ wrun[w] = run
  BY <1>1, <1>3 DEF JobOf, RecordOf
<1>4. CASE v = w /\ wrun[w] # run
  <2>1. wrun[w] < run /\ wrun[w] < RunCount
    BY <1>1, <1>4, RunCountAssumption
  <2>2. wpc'[w] = "handle" /\ wrun'[w] = wrun[w] + 1
    BY <2>1 DEF NextRun
  <2>3. wpc'[w] \in Active /\ wrun'[w] <= run /\ wobj'[w].id = id
    BY <1>1, <1>4, <2>1, <2>2 DEF Active
  <2> QED
    BY <2>3 DEF InHand, Active
<1> QED
  BY <1>2, <1>3, <1>4

LEMMA PlacedNext ==
  ASSUME TypeOK, ChannelProtocol, [Next]_vars,
         NEW id \in 1..decoded, NEW run \in 1..RunCount, Placed(id, run)
  PROVE  Placed(id, run)'
<1> USE DEF TypeOK, Placed
<1>1. CASE DecodeCsv \/ DecodeDomain \/ DecodeFault
  <2>1. mainPC = "decode" /\ UNCHANGED <<chanVars, workVars, encVars, dropped>>
    BY <1>1 DEF DecodeCsv, DecodeDomain, DecodeFault
  <2> QED
    BY <2>1 DEF BeingEnqueued, InProcessQueue, InHand, InOutputQueue, InEncoder,
                Written, Dropped, chanVars, workVars, encVars
<1>2. CASE Enqueue
  <2>1. /\ UNCHANGED <<outputQueue, workVars, encVars, dropped, mainObj>>
        /\ processQueue' = Append(processQueue, mainObj)
        /\ processQueue \in Seq(Objects) /\ mainObj \in Objects
    BY <1>2 DEF Enqueue, TypeChannels, TypeMain, decVars
  <2>2. BeingEnqueued(id) \/ InProcessQueue(id) => InProcessQueue(id)'
    BY <2>1, AppendKeeps DEF BeingEnqueued, InProcessQueue
  <2> QED
    BY <2>1, <2>2 DEF InHand, InOutputQueue, InEncoder, Written, Dropped, workVars, encVars
<1>3. CASE CloseProcessQueue \/ JoinWorkers \/ JoinOutput \/ Exit
  BY <1>3 DEF CloseProcessQueue, JoinWorkers, JoinOutput, Exit, BeingEnqueued,
              InProcessQueue, InHand, InOutputQueue, InEncoder, Written,
              Dropped, workVars, encVars, chanVars
<1>4. ASSUME NEW w \in Workers, Receive(w) PROVE Placed(id, run)'
  <2>1. /\ UNCHANGED <<mainVars, outputQueue, encVars, dropped>>
        /\ processQueue \in Seq(Objects) /\ processQueue # <<>>
        /\ processQueue' = Tail(processQueue)
        /\ wpc[w] = "idle"
        /\ wobj' = [wobj EXCEPT ![w] = Head(processQueue)]
        /\ wrun' = [wrun EXCEPT ![w] = 1]
        /\ wpc' = [wpc EXCEPT ![w] = "handle"]
    BY <1>4 DEF Receive, TypeChannels
  <2>2. InHand(id, run) => InHand(id, run)'
    BY <2>1 DEF InHand, Active, TypeWorkers
  <2>3. ASSUME InProcessQueue(id) PROVE InProcessQueue(id)' \/ InHand(id, run)'
    <3>1. PICK i \in 1..Len(processQueue) : processQueue[i].id = id
      BY <2>3 DEF InProcessQueue
    <3>2. CASE i = 1
      BY <2>1, <3>1, <3>2, TailKeeps DEF InHand, Active, TypeWorkers
    <3>3. CASE i # 1
      <4>1. i - 1 \in 1..Len(processQueue') /\ processQueue'[i - 1] = processQueue[i]
        BY <2>1, <3>3, TailKeeps
      <4> QED
        BY <3>1, <4>1 DEF InProcessQueue
    <3> QED
      BY <3>2, <3>3
  <2> QED
    BY <2>1, <2>2, <2>3 DEF BeingEnqueued, InOutputQueue, InEncoder, Written,
                            Dropped, mainVars, decVars, encVars
<1>5. ASSUME NEW w \in Workers,
             Grab(w) \/ HandleNil(w) \/ SendStatus(w) \/ MarshalOk(w)
      PROVE  Placed(id, run)'
  <2>1. /\ UNCHANGED <<mainVars, processQueue, outputQueue, wobj, wrun, encVars, dropped>>
        /\ wpc[w] \in Active
        /\ \E p \in Active : wpc' = [wpc EXCEPT ![w] = p]
    BY <1>5 DEF Grab, HandleNil, SendStatus, MarshalOk, Active, chanVars
  <2>2. InHand(id, run) => InHand(id, run)'
    BY <2>1 DEF InHand, TypeWorkers
  <2> QED
    BY <2>1, <2>2 DEF BeingEnqueued, InProcessQueue, InOutputQueue, InEncoder,
                      Written, Dropped, mainVars, decVars, encVars
<1>6. ASSUME NEW w \in Workers, MarshalError(w) PROVE Placed(id, run)'
  <2>1. /\ UNCHANGED <<mainVars, chanVars, wobj, encVars>>
        /\ wpc[w] \in Active /\ wrun[w] \in Nat
        /\ dropped' = dropped \cup {RecordOf(w)} /\ NextRun(w)
    BY <1>6 DEF MarshalError, Active, TypeWorkers
  <2>2. InHand(id, run) => InHand(id, run)' \/ JobOf(RecordOf(w)) = <<id, run>>
    BY <2>1, RunMoves
  <2>3. JobOf(RecordOf(w)) = <<id, run>> => Dropped(<<id, run>>)'
    BY <2>1 DEF Dropped
  <2> QED
    BY <2>1, <2>2, <2>3 DEF BeingEnqueued, InProcessQueue, InOutputQueue, InEncoder,
                            Written, Dropped, mainVars, decVars, chanVars, encVars
<1>7. ASSUME NEW w \in Workers, SendOutput(w) PROVE Placed(id, run)'
  <2>1. /\ UNCHANGED <<mainVars, processQueue, wobj, encVars, dropped>>
        /\ wpc[w] \in Active /\ wrun[w] \in Nat
        /\ outputQueue' = Append(outputQueue, RecordOf(w)) /\ NextRun(w)
        /\ outputQueue \in Seq(Records) /\ RecordOf(w) \in Records
    BY <1>7 DEF SendOutput, Active, TypeWorkers, TypeChannels, RecordOf, Records, Objects
  <2>2. InOutputQueue(<<id, run>>) => InOutputQueue(<<id, run>>)'
    BY SMTT(40), <2>1, AppendKeeps DEF InOutputQueue
  <2>3. JobOf(RecordOf(w)) = <<id, run>> => InOutputQueue(<<id, run>>)'
    BY <2>1, AppendKeeps DEF InOutputQueue
  <2>4. InHand(id, run) => InHand(id, run)' \/ JobOf(RecordOf(w)) = <<id, run>>
    BY <2>1, RunMoves
  <2> QED
    BY <2>1, <2>2, <2>3, <2>4 DEF BeingEnqueued, InProcessQueue, InEncoder,
                      Written, Dropped, mainVars, decVars, encVars
<1>8. ASSUME NEW w \in Workers, WorkerFinish(w) PROVE Placed(id, run)'
  <2>1. /\ UNCHANGED <<mainVars, chanVars, wobj, wrun, encVars, dropped>>
        /\ wpc[w] = "idle" /\ wpc' = [wpc EXCEPT ![w] = "done"]
    BY <1>8 DEF WorkerFinish
  <2>2. InHand(id, run) => InHand(id, run)'
    BY <2>1 DEF InHand, TypeWorkers, Active
  <2> QED
    BY <2>1, <2>2 DEF BeingEnqueued, InProcessQueue, InOutputQueue, InEncoder,
                      Written, Dropped, mainVars, decVars, chanVars, encVars
<1>9. CASE ReceiveOutput
  <2>1. /\ UNCHANGED <<mainVars, processQueue, workVars, file, dropped>>
        /\ outputQueue \in Seq(Records) /\ outputQueue # <<>>
        /\ ohold' = Head(outputQueue) /\ outputQueue' = Tail(outputQueue)
        /\ opc = "recv" /\ opc' = "write"
    BY <1>9 DEF ReceiveOutput, TypeChannels
  <2>2. ASSUME InOutputQueue(<<id, run>>)
        PROVE  InOutputQueue(<<id, run>>)' \/ InEncoder(<<id, run>>)'
    <3>1. PICK i \in 1..Len(outputQueue) : JobOf(outputQueue[i]) = <<id, run>>
      BY <2>2 DEF InOutputQueue
    <3>2. CASE i = 1
      BY <2>1, <3>1, <3>2, TailKeeps DEF InEncoder, JobOf
    <3>3. CASE i # 1
      <4>1. i - 1 \in 1..Len(outputQueue') /\ outputQueue'[i - 1] = outputQueue[i]
        BY <2>1, <3>3, TailKeeps
      <4> QED
        BY <3>1, <4>1 DEF InOutputQueue, JobOf
    <3> QED
      BY <3>2, <3>3
  <2> QED
    BY <2>1, <2>2 DEF BeingEnqueued, InProcessQueue, InHand, InEncoder, Written,
                      Dropped, mainVars, decVars, workVars
<1>10. CASE WriteRecord
  <2>1. /\ UNCHANGED <<mainVars, chanVars, workVars, ohold, dropped>>
        /\ file \in Seq(Records) /\ ohold \in Records /\ file' = Append(file, ohold)
    BY <1>10 DEF WriteRecord, TypeEncoder
  <2>2. InEncoder(<<id, run>>) \/ Written(<<id, run>>) => Written(<<id, run>>)'
    BY <2>1, <1>10, AppendKeeps DEF InEncoder, Written, JobOf
  <2> QED
    BY <2>1, <2>2 DEF BeingEnqueued, InProcessQueue, InHand, InOutputQueue,
                      Dropped, mainVars, decVars, chanVars, workVars
<1>11. CASE WriteNewline \/ OutputFinish
  <2>1. /\ UNCHANGED <<mainVars, chanVars, workVars, ohold, file, dropped>>
        /\ opc # "write"
    BY <1>11 DEF WriteNewline, OutputFinish
  <2> QED
    BY <2>1 DEF BeingEnqueued, InProcessQueue, InHand, InOutputQueue, InEncoder,
                Written, Dropped, mainVars, decVars, chanVars, workVars
<1>12. CASE UNCHANGED <<mainVars, processQueue, outputQueue, workVars, encVars, dropped>>
  BY <1>12, FramePlaced DEF mainVars, decVars, workVars, encVars
<1> QED
  BY <1>1, <1>2, <1>3, <1>4, <1>5, <1>6, <1>7, <1>8, <1>9, <1>10, <1>11, <1>12
     DEF Next, vars, chanVars, Main, Worker, Encoder, Counter, ReadCounter,
         GrabPanic, WriteError, ReceiveStatus, CountStatus,
         MetricsServerError, Terminated
LEMMA AccountedInit == Init => Accounted
  BY DEF Init, Accounted

LEMMA AccountedNext == TypeOK /\ ChannelProtocol /\ Accounted /\ [Next]_vars => Accounted'
<1> SUFFICES ASSUME TypeOK, ChannelProtocol, Accounted, [Next]_vars PROVE Accounted'
  OBVIOUS
<1>1. ASSUME NEW id \in 1..decoded', NEW run \in 1..RunCount PROVE Placed(id, run)'
  <2>1. CASE id \in 1..decoded
    BY <2>1, PlacedNext DEF Accounted, Placed
  <2>2. CASE id \notin 1..decoded
    <3>1. DecodeCsv \/ DecodeDomain \/ DecodeFault
      BY <2>2 DEF Next, vars, mainVars, decVars, Main, Worker, Encoder, Counter,
                  Enqueue, CloseProcessQueue, JoinWorkers, JoinOutput,
                  ReadCounter, Exit, Receive, Grab, GrabPanic, HandleNil,
                  SendStatus, MarshalOk, MarshalError, SendOutput,
                  WorkerFinish, ReceiveOutput, WriteRecord, WriteNewline,
                  WriteError, OutputFinish, ReceiveStatus, CountStatus,
                  MetricsServerError, Terminated
    <3>2. PICK kind : Decoded(kind)
      BY <3>1 DEF DecodeCsv, DecodeDomain, DecodeFault
    <3>3. mainPC' = "enqueue" /\ mainObj'.id = decoded + 1 /\ decoded' = decoded + 1
      BY <3>2 DEF Decoded
    <3> QED
      BY <2>2, <3>3 DEF Placed, BeingEnqueued, TypeOK, TypeMain
  <2> QED
    BY <2>1, <2>2
<1>2. (newlines = IF opc = "newline" THEN Len(file) - 1 ELSE Len(file))'
  <2> USE DEF Accounted
  <2>1. CASE ReceiveOutput \/ WriteNewline \/ OutputFinish
    BY <2>1 DEF ReceiveOutput, WriteNewline, OutputFinish, TypeOK, TypeEncoder
  <2>2. CASE WriteRecord
    BY <2>2 DEF WriteRecord, TypeOK, TypeEncoder
  <2>3. CASE UNCHANGED encVars
    BY <2>3 DEF encVars
  <2> QED
    BY <2>1, <2>2, <2>3
       DEF Next, vars, Main, Worker, Encoder, Counter, DecodeCsv, DecodeDomain,
           DecodeFault, Enqueue, CloseProcessQueue, JoinWorkers, JoinOutput,
           ReadCounter, Exit, Receive, Grab, GrabPanic, HandleNil, SendStatus,
           MarshalOk, MarshalError, SendOutput, WorkerFinish, WriteError,
           ReceiveStatus, CountStatus, MetricsServerError, Terminated
<1> QED
  BY <1>1, <1>2 DEF Accounted, Placed

\* At no time is a run of a decoded object nowhere: each step of main, a
\* worker or the encoder hands it on (input.go:52-93).
THEOREM NoRunForgotten == Spec => []Accounted
<1>1. Init => TypeOK /\ ChannelProtocol /\ Accounted
  BY TypeInit, ProtocolInit, AccountedInit
<1> QED
  BY <1>1, ProtocolInductive, AccountedNext, PTL DEF Spec

\* When main is past the joins the queues and the hands are empty, so what is
\* accounted for can only be written or dropped.
LEMMA ReturnedMeansDrained == TypeOK /\ ChannelProtocol /\ Accounted => NothingLost
<1> SUFFICES ASSUME TypeOK, ChannelProtocol, Accounted, Returned
             PROVE  /\ \A j \in Jobs : Written(j) \/ Dropped(j)
                    /\ newlines = Len(file)
  BY DEF NothingLost
<1>0. ClosedByMain /\ EncoderAt /\ \A w \in Workers : WorkerAt(w)
  BY ProtocolParts
<1>1. mainPC \in {"report", "exited"} /\ opc = "done" /\ outputQueue = <<>>
  BY <1>0 DEF Returned, EncoderAt
<1>2. \A w \in Workers : wpc[w] = "done" /\ processQueue = <<>>
  BY <1>0, <1>1 DEF ClosedByMain, WorkerAt
<1>3. processQueue = <<>>
  BY <1>2, WorkersAssumption
<1>4. ASSUME NEW j \in Jobs PROVE Written(j) \/ Dropped(j)
  <2>1. PICK id \in 1..decoded, run \in 1..RunCount : j = <<id, run>>
    BY <1>4 DEF Jobs
  <2>2. ~BeingEnqueued(id) /\ ~InProcessQueue(id)
    BY <1>1, <1>3 DEF BeingEnqueued, InProcessQueue
  <2>3. ~InHand(id, run) /\ ~InOutputQueue(j) /\ ~InEncoder(j)
    BY <1>1, <1>2 DEF InHand, Active, InOutputQueue, InEncoder
  <2> QED
    BY <2>1, <2>2, <2>3 DEF Accounted
<1> QED
  BY <1>1, <1>4 DEF Accounted

\* When Process returns, every connection that was to be made has its line in
\* the output, or was dropped for a marshalling error: for every number of
\* senders, connections per host, input and interleaving.
THEOREM ConservationOfRuns == Spec => []NothingLost
<1>1. Init => TypeOK /\ ChannelProtocol /\ Accounted
  BY TypeInit, ProtocolInit, AccountedInit
<1> QED
  BY <1>1, ProtocolInductive, AccountedNext, ReturnedMeansDrained, PTL DEF Spec

\* For every number of workers, input and queue size, no interleaving of the
\* reader, the workers, the encoder and the counter sends on a closed channel
\* or leaves a WaitGroup out of step with the goroutines it counts.
THEOREM ChannelsStaySafe == Spec => []ChannelsSafe
<1>1. TypeOK /\ ChannelProtocol /\ NoSendOnClosed => ChannelsSafe
  BY DEF ChannelsSafe
<1> QED
  BY <1>1, TypeCorrect, ProtocolCorrect, NoSendOnClosedChannel, PTL

\* For every number of workers, connections per host and input, no run is lost
\* on its way from the decoder to the file (Process, input.go:52-97).
THEOREM RunsStayConserved == Spec => []RunsConserved
<1>1. Accounted /\ NothingLost => RunsConserved
  BY DEF RunsConserved
<1> QED
  BY <1>1, NoRunForgotten, ConservationOfRuns, PTL

-----------------------------------------------------------------------------
(* The places of a run, the output file and the counts *)

\* What the places of a run, and the order of the runs, depend on.
placeVars == <<mainPC, mainObj, decoded, targets, processQueue, wpc, wobj, wrun, wres,
               outputQueue, opc, ohold, file, dropped>>

\* The steps that move a run; the others leave every place alone.
Moves ==
  \/ DecodeCsv \/ DecodeDomain \/ DecodeFault \/ Enqueue
  \/ CloseProcessQueue \/ JoinWorkers \/ JoinOutput \/ Exit
  \/ \E w \in Workers : \/ Receive(w) \/ Grab(w) \/ HandleNil(w) \/ SendStatus(w) \/ MarshalOk(w)
                        \/ MarshalError(w) \/ SendOutput(w) \/ WorkerFinish(w)
  \/ ReceiveOutput \/ WriteRecord \/ WriteNewline \/ OutputFinish

LEMMA MoveOrFrame == [Next]_vars => Moves \/ UNCHANGED placeVars
  BY DEF Next, vars, Moves, placeVars, mainVars, decVars, chanVars, workVars, encVars, Main, Worker, Encoder, Counter,
     ReadCounter, GrabPanic, WriteError, ReceiveStatus, CountStatus, MetricsServerError, Terminated

\* A decoder's step: one more object, in main's hand.
LEMMA DecodeStep ==
  ASSUME DecodeCsv \/ DecodeDomain \/ DecodeFault
  PROVE  /\ mainPC = "decode" /\ mainPC' = "enqueue" /\ decoded' = decoded + 1
         /\ \E k \in {"target", "nil"} :
              /\ mainObj' = [id |-> decoded + 1, kind |-> k]
              /\ targets' = IF k = "target" THEN targets \cup {decoded + 1} ELSE targets
         /\ UNCHANGED <<chanVars, workVars, encVars, dropped>>
<1>1. CASE DecodeCsv
  <2>1. PICK l : Decoded(CsvKind(l)) /\ mainPC = "decode" /\ UNCHANGED <<chanVars, workVars, encVars, dropped>>
    BY <1>1 DEF DecodeCsv
  <2>2. CsvKind(l) \in {"target", "nil"}
    BY DEF CsvKind
  <2> QED
    BY <2>1, <2>2 DEF Decoded
<1>2. CASE DecodeDomain
  BY <1>2 DEF DecodeDomain, Decoded
<1>3. CASE DecodeFault
  BY <1>3 DEF DecodeFault, Decoded
<1> QED
  BY <1>1, <1>2, <1>3

\* Decoding one more object makes no earlier one another kind.
LEMMA GenuineNext ==
  ASSUME TypeOK, [Next]_vars
  PROVE  \A o \in Objects : Genuine(o) => Genuine(o)'
<1>1. CASE DecodeCsv \/ DecodeDomain \/ DecodeFault
  BY <1>1, DecodeStep DEF Genuine, TypeOK, TypeMain, Objects
<1>2. CASE UNCHANGED <<decoded, targets>>
  BY <1>2 DEF Genuine
<1> QED
  BY <1>1, <1>2 DEF Next, vars, mainVars, decVars, Main, Worker, Encoder, Counter,
                  Enqueue, CloseProcessQueue, JoinWorkers, JoinOutput,
                  ReadCounter, Exit, Receive, Grab, GrabPanic, HandleNil,
                  SendStatus, MarshalOk, MarshalError, SendOutput,
                  WorkerFinish, ReceiveOutput, WriteRecord, WriteNewline,
                  WriteError, OutputFinish, ReceiveStatus, CountStatus,
                  MetricsServerError, Terminated

LEMMA MainHoldsNext ==
  ASSUME TypeOK, ObjectsInOrder, [Next]_vars PROVE MainHolds'
<1>1. CASE DecodeCsv \/ DecodeDomain \/ DecodeFault
  <2>1. PICK k \in {"target", "nil"} :
              /\ mainObj' = [id |-> decoded + 1, kind |-> k]
              /\ targets' = IF k = "target" THEN targets \cup {decoded + 1} ELSE targets
    BY <1>1, DecodeStep
  <2>2. decoded' = decoded + 1 /\ decoded \in Nat /\ targets \subseteq 1..decoded
    BY <1>1, DecodeStep DEF TypeOK, TypeMain
  <2> QED
    BY <2>1, <2>2 DEF MainHolds, Genuine
<1>2. CASE UNCHANGED <<mainPC, mainObj, decoded, targets>>
  BY <1>2 DEF MainHolds, Genuine, ObjectsInOrder
<1>3. CASE mainPC' # "enqueue"
  BY <1>3 DEF MainHolds
<1> QED
  BY <1>1, <1>2, <1>3 DEF Next, vars, mainVars, decVars, Main, Worker, Encoder, Counter,
                  Enqueue, CloseProcessQueue, JoinWorkers, JoinOutput,
                  ReadCounter, Exit, Receive, Grab, GrabPanic, HandleNil,
                  SendStatus, MarshalOk, MarshalError, SendOutput,
                  WorkerFinish, ReceiveOutput, WriteRecord, WriteNewline,
                  WriteError, OutputFinish, ReceiveStatus, CountStatus,
                  MetricsServerError, Terminated

\* A queue that lost its head or got one more at the end.
LEMMA TailIndex ==
  ASSUME NEW S, NEW q \in Seq(S), q # <<>>
  PROVE  /\ Tail(q) \in Seq(S)
         /\ \A i \in 1..Len(Tail(q)) : i + 1 \in 1..Len(q) /\ Tail(q)[i] = q[i + 1]
         /\ Head(q) = q[1] /\ 1 \in 1..Len(q)
  OBVIOUS

LEMMA AppendIndex ==
  ASSUME NEW S, NEW q \in Seq(S), NEW x \in S
  PROVE  /\ Append(q, x) \in Seq(S) /\ Len(Append(q, x)) = Len(q) + 1
         /\ \A i \in 1..Len(Append(q, x)) :
              (i \in 1..Len(q) /\ Append(q, x)[i] = q[i]) \/ (i = Len(q) + 1 /\ Append(q, x)[i] = x)
  OBVIOUS

LEMMA QueueHoldsNext ==
  ASSUME TypeOK, ChannelProtocol, ObjectsInOrder, [Next]_vars PROVE QueueHolds'
<1>0. MainHolds /\ QueueHolds /\ processQueue \in Seq(Objects) /\ mainObj \in Objects
  BY DEF ObjectsInOrder, TypeOK, TypeChannels, TypeMain
<1>1. CASE DecodeCsv \/ DecodeDomain \/ DecodeFault
  <2>1. decoded' = decoded + 1 /\ processQueue' = processQueue /\ decoded \in Nat
    BY <1>1, DecodeStep DEF TypeOK, TypeMain, chanVars
  <2>2. ASSUME NEW i \in 1..Len(processQueue)
        PROVE  Genuine(processQueue[i])' /\ processQueue[i].id < decoded'
    <3>1. processQueue[i] \in Objects /\ Genuine(processQueue[i])
      BY <1>0 DEF QueueHolds
    <3>2. Genuine(processQueue[i])'
      BY <2>1, <3>1, GenuineNext DEF Genuine
    <3> QED
      BY <2>1, <3>1, <3>2 DEF Genuine
  <2> QED
    BY <1>0, <2>1, <2>2 DEF QueueHolds, Genuine
<1>2. CASE Enqueue
  <2>1. /\ processQueue' = Append(processQueue, mainObj) /\ UNCHANGED <<decoded, targets, mainObj>>
        /\ mainPC' = "decode" /\ mainPC = "enqueue"
    BY <1>2 DEF Enqueue, decVars
  <2>2. ASSUME NEW i \in 1..Len(processQueue)
        PROVE  processQueue[i].id \in Nat /\ processQueue[i].id < mainObj.id
    <3>1. processQueue[i] \in Objects
      BY <1>0
    <3> QED
      BY <1>0, <2>1, <3>1 DEF QueueHolds, MainHolds, Objects
  <2>3. Genuine(mainObj)' /\ \A i \in 1..Len(processQueue) : processQueue[i] \in Objects /\ Genuine(processQueue[i])
    BY <1>0, <2>1 DEF QueueHolds, MainHolds, Genuine
  <2>4. ASSUME NEW i \in 1..Len(processQueue'), NEW k \in 1..Len(processQueue'), i < k
        PROVE  processQueue'[i].id < processQueue'[k].id
    <3>1. i \in 1..Len(processQueue) /\ processQueue'[i] = processQueue[i]
      BY <1>0, <2>1, <2>4, AppendIndex
    <3>2. (k \in 1..Len(processQueue) /\ processQueue'[k] = processQueue[k]) \/ processQueue'[k] = mainObj
      BY <1>0, <2>1, AppendIndex
    <3> QED
      BY <1>0, <2>2, <2>4, <3>1, <3>2 DEF QueueHolds
  <2>5. ASSUME NEW i \in 1..Len(processQueue') PROVE Genuine(processQueue[i])'
    <3>1. (i \in 1..Len(processQueue) /\ processQueue'[i] = processQueue[i]) \/ processQueue'[i] = mainObj
      BY <1>0, <2>1, AppendIndex
    <3> QED
      BY <2>1, <2>3, <3>1 DEF Genuine
  <2> QED
    BY <2>1, <2>4, <2>5 DEF QueueHolds, Genuine
<1>3. ASSUME NEW w \in Workers, Receive(w) PROVE QueueHolds'
  <2>1. processQueue # <<>> /\ processQueue' = Tail(processQueue) /\ UNCHANGED <<mainPC, decoded, targets>>
    BY <1>3 DEF Receive, mainVars, decVars
  <2> QED
    BY <1>0, <2>1, TailIndex DEF QueueHolds, Genuine
<1>4. CASE UNCHANGED <<processQueue, decoded, targets>> /\ (mainPC' = mainPC \/ mainPC' # "enqueue")
  BY <1>0, <1>4 DEF QueueHolds, Genuine
<1> QED
  BY <1>1, <1>2, <1>3, <1>4 DEF Next, vars, mainVars, decVars, chanVars, Main, Worker, Encoder, Counter,
                  CloseProcessQueue, JoinWorkers, JoinOutput,
                  ReadCounter, Exit, Grab, GrabPanic, HandleNil,
                  SendStatus, MarshalOk, MarshalError, SendOutput,
                  WorkerFinish, ReceiveOutput, WriteRecord, WriteNewline,
                  WriteError, OutputFinish, ReceiveStatus, CountStatus,
                  MetricsServerError, Terminated
\* A worker's step that keeps its object, at the same or at the next run.
LEMMA KeepsObject ==
  ASSUME TypeOK, ChannelProtocol, NEW w \in Workers,
         Grab(w) \/ HandleNil(w) \/ SendStatus(w) \/ MarshalOk(w) \/ MarshalError(w) \/ SendOutput(w)
  PROVE  /\ UNCHANGED <<mainPC, mainObj, decoded, targets, processQueue, wobj>>
         /\ wpc[w] \in Active
         /\ \A v \in Workers \ {w} : wpc'[v] = wpc[v] /\ wres'[v] = wres[v] /\ wrun'[v] = wrun[v]
         /\ wpc'[w] \in Active => wrun'[w] >= wrun[w]
<1> USE DEF TypeOK, TypeWorkers, Active
<1>1. CASE Grab(w) \/ HandleNil(w) \/ SendStatus(w) \/ MarshalOk(w)
  BY <1>1 DEF Grab, HandleNil, SendStatus, MarshalOk, mainVars, decVars, chanVars
<1>2. CASE MarshalError(w) \/ SendOutput(w)
  <2>1. NextRun(w) /\ wres' = wres /\ UNCHANGED <<mainPC, mainObj, decoded, targets, processQueue, wobj>>
        /\ wpc[w] \in {"marshal", "send"}
    BY <1>2 DEF MarshalError, SendOutput, mainVars, decVars, chanVars
  <2> QED
    BY <2>1 DEF NextRun
<1> QED
  BY <1>1, <1>2

\* What a worker's result says of its object, after a step that keeps it.
LEMMA ResultOfKind ==
  ASSUME TypeOK, ChannelProtocol, NEW w \in Workers, WorkerHolds(w),
         Grab(w) \/ HandleNil(w) \/ SendStatus(w) \/ MarshalOk(w) \/ MarshalError(w) \/ SendOutput(w),
         wpc'[w] \in {"status", "marshal", "send"}
  PROVE  wres'[w] = "null" <=> wobj[w].kind = "nil"
<1> USE DEF TypeOK, TypeWorkers
<1>1. CASE Grab(w)
  BY <1>1 DEF Grab, Status
<1>2. CASE HandleNil(w)
  BY <1>2 DEF HandleNil
<1>3. CASE SendStatus(w) \/ MarshalOk(w)
  BY <1>3 DEF SendStatus, MarshalOk, WorkerHolds, Active
<1>4. CASE MarshalError(w) \/ SendOutput(w)
  BY <1>4 DEF MarshalError, SendOutput, NextRun
<1> QED
  BY <1>1, <1>2, <1>3, <1>4

LEMMA WorkerHoldsNext ==
  ASSUME TypeOK, ChannelProtocol, ObjectsInOrder, [Next]_vars, NEW u \in Workers
  PROVE  WorkerHolds(u)'
<1>0. /\ MainHolds /\ QueueHolds /\ \A v \in Workers : WorkerHolds(v)
      /\ processQueue \in Seq(Objects) /\ mainObj \in Objects /\ decoded \in Nat
      /\ \A v \in Workers : wobj[v] \in Objects
      /\ wobj \in [Workers -> Objects]
      /\ DOMAIN wpc = Workers /\ DOMAIN wobj = Workers
  BY DEF ObjectsInOrder, TypeOK, TypeChannels, TypeMain, TypeWorkers
<1>a. \A o \in Objects : o.id \in Nat
  BY DEF Objects
<1>1. CASE DecodeCsv \/ DecodeDomain \/ DecodeFault
  <2>1. decoded' = decoded + 1 /\ UNCHANGED <<processQueue, wpc, wobj, wres>>
    BY <1>1, DecodeStep DEF chanVars, workVars
  <2>2. ASSUME wpc[u] \in Active PROVE Genuine(wobj[u])' /\ wobj[u].id < decoded'
    <3>1. Genuine(wobj[u]) /\ wobj[u] \in Objects
      BY <1>0, <2>2 DEF WorkerHolds
    <3>2. Genuine(wobj[u])'
      BY <2>1, <3>1, GenuineNext DEF Genuine
    <3> QED
      BY <1>0, <2>1, <3>1, <3>2 DEF Genuine
  <2> QED
    BY <1>0, <2>1, <2>2 DEF WorkerHolds, Genuine
<1>2. CASE Enqueue
  <2>1. /\ processQueue' = Append(processQueue, mainObj) /\ UNCHANGED <<decoded, targets, mainObj, wpc, wobj, wres>>
        /\ mainPC' = "decode" /\ mainPC = "enqueue"
    BY <1>2 DEF Enqueue, decVars, workVars
  <2>2. ASSUME wpc[u] \in Active, NEW i \in 1..Len(processQueue') PROVE wobj[u].id < processQueue'[i].id
    <3>1. (i \in 1..Len(processQueue) /\ processQueue'[i] = processQueue[i]) \/ processQueue'[i] = mainObj
      BY <1>0, <2>1, AppendIndex
    <3> QED
      BY <1>0, <2>1, <2>2, <3>1 DEF WorkerHolds, MainHolds
  <2> QED
    BY <1>0, <2>1, <2>2 DEF WorkerHolds, Genuine
<1>3. ASSUME NEW w \in Workers, Receive(w) PROVE WorkerHolds(u)'
  <2>1. /\ processQueue # <<>> /\ processQueue' = Tail(processQueue) /\ UNCHANGED <<mainPC, decoded, targets, wres>>
        /\ wpc[w] = "idle" /\ wpc'[w] = "handle" /\ wobj'[w] = processQueue[1]
        /\ \A v \in Workers \ {w} : wpc'[v] = wpc[v] /\ wobj'[v] = wobj[v]
    BY <1>0, <1>3, TailIndex DEF Receive, mainVars, decVars
  <2>2. \A i \in 1..Len(processQueue') : i + 1 \in 1..Len(processQueue) /\ processQueue'[i] = processQueue[i + 1]
    BY <1>0, <2>1, TailIndex
  <2>3. 1 \in 1..Len(processQueue) /\ processQueue[1] \in Objects /\ Genuine(processQueue[1])
    BY <1>0, <2>1, TailIndex DEF QueueHolds
  <2>4. \A v \in Workers : wpc[v] \in Active => v # w /\ wobj[v].id # processQueue[1].id
    BY <1>0, <1>a, <2>1, <2>3 DEF WorkerHolds, Active
  <2>5. CASE u = w
    <3>1. Genuine(wobj[u])' /\ (mainPC' = "enqueue" => wobj'[u].id < decoded')
      BY <1>0, <2>1, <2>3, <2>5 DEF Genuine, QueueHolds
    <3>2. \A i \in 1..Len(processQueue') : wobj'[u].id < processQueue'[i].id
      BY <1>0, <2>1, <2>2, <2>3, <2>5 DEF QueueHolds
    <3>3. \A v \in Workers : wpc'[v] \in Active /\ wobj'[v].id = wobj'[u].id => v = u
      BY <2>1, <2>4, <2>5
    <3> QED
      BY <2>1, <2>5, <3>1, <3>2, <3>3 DEF WorkerHolds
  <2>6. CASE u # w /\ wpc[u] \in Active
    <3>1. Genuine(wobj[u])' /\ (mainPC' = "enqueue" => wobj'[u].id < decoded')
      BY <1>0, <2>1, <2>6 DEF Genuine, WorkerHolds
    <3>2. \A i \in 1..Len(processQueue') : wobj'[u].id < processQueue'[i].id
      BY <1>0, <2>1, <2>2, <2>6 DEF WorkerHolds
    <3>3. \A v \in Workers : wpc'[v] \in Active /\ wobj'[v].id = wobj'[u].id => v = u
      BY <1>0, <2>1, <2>4, <2>6 DEF WorkerHolds
    <3>4. wpc'[u] \in {"status", "marshal", "send"} => (wres'[u] = "null" <=> wobj'[u].kind = "nil")
      BY <1>0, <2>1, <2>6 DEF WorkerHolds
    <3> QED
      BY <3>1, <3>2, <3>3, <3>4 DEF WorkerHolds
  <2>7. CASE u # w /\ wpc[u] \notin Active
    BY <2>1, <2>7 DEF WorkerHolds, Active
  <2> QED
    BY <2>5, <2>6, <2>7
<1>4. ASSUME NEW w \in Workers,
             Grab(w) \/ HandleNil(w) \/ SendStatus(w) \/ MarshalOk(w) \/ MarshalError(w) \/ SendOutput(w),
             wpc'[u] \in Active
      PROVE  WorkerHolds(u)'
  <2>1. /\ UNCHANGED <<mainPC, decoded, targets, processQueue, wobj>>
        /\ wpc[w] \in Active
        /\ \A v \in Workers \ {w} : wpc'[v] = wpc[v] /\ wres'[v] = wres[v]
    BY <1>4, KeepsObject
  <2>2. wpc[u] \in Active
    BY <1>4, <2>1
  <2>3. Genuine(wobj[u])'
    BY <1>0, <2>1, <2>2 DEF WorkerHolds, Genuine
  <2>4. wpc'[u] \in {"status", "marshal", "send"} => (wres'[u] = "null" <=> wobj'[u].kind = "nil")
    <3>1. CASE u = w
      BY <1>0, <1>4, <2>1, <3>1, ResultOfKind
    <3>2. CASE u # w
      BY <1>0, <2>1, <2>2, <3>2 DEF WorkerHolds
    <3> QED
      BY <3>1, <3>2
  <2>5. \A v \in Workers : wpc'[v] \in Active => wpc[v] \in Active
    BY <2>1
  <2> QED
    BY <1>0, <2>1, <2>2, <2>3, <2>4, <2>5 DEF WorkerHolds
<1>5. ASSUME NEW w \in Workers, WorkerFinish(w) PROVE WorkerHolds(u)'
  <2>1. /\ UNCHANGED <<mainPC, decoded, targets, processQueue, wobj, wres>>
        /\ \A v \in Workers : wpc'[v] = wpc[v] \/ wpc'[v] = "done"
    BY <1>0, <1>5 DEF WorkerFinish, mainVars, decVars, chanVars
  <2> QED
    BY <1>0, <2>1 DEF WorkerHolds, Genuine, Active
<1>6. CASE UNCHANGED <<decoded, targets, processQueue, wobj, wpc, wres>> /\ (mainPC' = mainPC \/ mainPC' # "enqueue")
  BY <1>0, <1>6 DEF WorkerHolds, Genuine
<1>7. CASE wpc'[u] \notin Active
  BY <1>7 DEF WorkerHolds
<1>8. \/ DecodeCsv \/ DecodeDomain \/ DecodeFault \/ Enqueue
      \/ \E w \in Workers : Receive(w) \/ Grab(w) \/ HandleNil(w) \/ SendStatus(w) \/ MarshalOk(w) \/ MarshalError(w)
                            \/ SendOutput(w) \/ WorkerFinish(w)
      \/ UNCHANGED <<decoded, targets, processQueue, wobj, wpc, wres>> /\ (mainPC' = mainPC \/ mainPC' # "enqueue")
  BY MoveOrFrame DEF Moves, placeVars, mainVars, decVars, chanVars, workVars,
     CloseProcessQueue, JoinWorkers, JoinOutput, Exit, ReceiveOutput, WriteRecord, WriteNewline, OutputFinish
<1> QED
  BY <1>1, <1>2, <1>3, <1>4, <1>5, <1>6, <1>7, <1>8

\* Once a record is behind, no step brings its run back.
LEMMA BehindNext ==
  ASSUME TypeOK, ChannelProtocol, ObjectsInOrder, [Next]_vars, NEW r \in Records, LeftBehind(r)
  PROVE  LeftBehind(r)'
<1>0. /\ MainHolds /\ QueueHolds /\ \A v \in Workers : WorkerHolds(v)
      /\ processQueue \in Seq(Objects) /\ mainObj \in Objects /\ decoded \in Nat
      /\ targets \subseteq 1..decoded
      /\ wobj \in [Workers -> Objects] /\ wrun \in [Workers -> 1..RunCount + 1]
      /\ DOMAIN wpc = Workers
  BY DEF ObjectsInOrder, TypeOK, TypeChannels, TypeMain, TypeWorkers
<1>a. r.id \in 1..decoded /\ r.run \in 1..RunCount /\ r.run \in Nat
  BY RunCountAssumption DEF LeftBehind, JobOf, Jobs
<1>1. CASE DecodeCsv \/ DecodeDomain \/ DecodeFault
  <2>1. /\ decoded' = decoded + 1 /\ UNCHANGED <<processQueue, wpc, wobj, wrun>>
        /\ r.id \in targets' <=> r.id \in targets
    BY <1>0, <1>1, <1>a, DecodeStep DEF chanVars, workVars
  <2> QED
    BY <1>0, <1>a, <2>1 DEF LeftBehind, JobOf, Jobs
<1>2. CASE Enqueue
  <2>1. /\ processQueue' = Append(processQueue, mainObj) /\ UNCHANGED <<decoded, targets, mainObj, wpc, wobj, wrun>>
        /\ mainPC' = "decode" /\ mainPC = "enqueue"
    BY <1>2 DEF Enqueue, decVars, workVars
  <2>2. ASSUME NEW i \in 1..Len(processQueue') PROVE r.id < processQueue'[i].id
    <3>1. (i \in 1..Len(processQueue) /\ processQueue'[i] = processQueue[i]) \/ processQueue'[i] = mainObj
      BY <1>0, <2>1, AppendIndex
    <3> QED
      BY <1>0, <2>1, <3>1 DEF LeftBehind, MainHolds
  <2> QED
    BY <2>1, <2>2 DEF LeftBehind, Jobs
<1>3. ASSUME NEW w \in Workers, Receive(w) PROVE LeftBehind(r)'
  <2>1. /\ processQueue # <<>> /\ processQueue' = Tail(processQueue) /\ UNCHANGED <<mainPC, decoded, targets>>
        /\ wobj'[w] = processQueue[1]
        /\ \A v \in Workers \ {w} : wpc'[v] = wpc[v] /\ wobj'[v] = wobj[v] /\ wrun'[v] = wrun[v]
    BY <1>0, <1>3, TailIndex DEF Receive, mainVars, decVars
  <2>2. \A i \in 1..Len(processQueue') : i + 1 \in 1..Len(processQueue) /\ processQueue'[i] = processQueue[i + 1]
    BY <1>0, <2>1, TailIndex
  <2>3. r.id < wobj'[w].id
    BY <1>0, <2>1, TailIndex DEF LeftBehind
  <2>4. \A v \in Workers : wpc'[v] \in Active /\ wobj'[v].id = r.id => r.run < wrun'[v]
    BY <1>a, <2>1, <2>3 DEF LeftBehind
  <2>5. \A i \in 1..Len(processQueue') : r.id < processQueue'[i].id
    BY <2>2 DEF LeftBehind
  <2> QED
    BY <2>1, <2>4, <2>5 DEF LeftBehind, Jobs
<1>4. ASSUME NEW w \in Workers,
             Grab(w) \/ HandleNil(w) \/ SendStatus(w) \/ MarshalOk(w) \/ MarshalError(w) \/ SendOutput(w)
      PROVE  LeftBehind(r)'
  <2>1. /\ UNCHANGED <<mainPC, decoded, targets, processQueue, wobj>>
        /\ wpc[w] \in Active
        /\ \A v \in Workers \ {w} : wpc'[v] = wpc[v] /\ wrun'[v] = wrun[v]
        /\ wpc'[w] \in Active => wrun'[w] >= wrun[w]
    BY <1>4, KeepsObject
  <2>2. wrun' \in [Workers -> 1..RunCount + 1]
    BY TypeWorkersNext DEF TypeWorkers
  <2>3. \A v \in Workers : wpc'[v] \in Active /\ wobj'[v].id = r.id => r.run < wrun'[v]
    BY SMTT(40), <1>0, <1>a, <2>1, <2>2, RunCountAssumption DEF LeftBehind
  <2> QED
    BY <2>1, <2>3 DEF LeftBehind, Jobs
<1>5. ASSUME NEW w \in Workers, WorkerFinish(w) PROVE LeftBehind(r)'
  <2>1. /\ UNCHANGED <<mainPC, decoded, targets, processQueue, wobj, wrun>>
        /\ \A v \in Workers : wpc'[v] = wpc[v] \/ wpc'[v] = "done"
    BY <1>0, <1>5 DEF WorkerFinish, mainVars, decVars, chanVars
  <2> QED
    BY <2>1 DEF LeftBehind, Jobs, Active
<1>6. CASE UNCHANGED <<decoded, targets, processQueue, wobj, wpc, wrun>> /\ (mainPC' = mainPC \/ mainPC' # "enqueue")
  BY <1>6 DEF LeftBehind, Jobs
<1>7. \/ DecodeCsv \/ DecodeDomain \/ DecodeFault \/ Enqueue
      \/ \E w \in Workers : Receive(w) \/ Grab(w) \/ HandleNil(w) \/ SendStatus(w) \/ MarshalOk(w) \/ MarshalError(w)
                            \/ SendOutput(w) \/ WorkerFinish(w)
      \/ UNCHANGED <<decoded, targets, processQueue, wobj, wpc, wrun>> /\ (mainPC' = mainPC \/ mainPC' # "enqueue")
  BY MoveOrFrame DEF Moves, placeVars, mainVars, decVars, chanVars, workVars,
     CloseProcessQueue, JoinWorkers, JoinOutput, Exit, ReceiveOutput, WriteRecord, WriteNewline, OutputFinish
<1> QED
  BY <1>1, <1>2, <1>3, <1>4, <1>5, <1>6, <1>7

\* The record that a worker hands over or drops is ahead of all that were left behind, and
\* with the step it is behind itself.
LEMMA NowBehind ==
  ASSUME TypeOK, ChannelProtocol, ObjectsInOrder, NEW w \in Workers, MarshalError(w) \/ SendOutput(w)
  PROVE  /\ RecordOf(w) \in Records
         /\ \A r \in Records : LeftBehind(r) => JobOf(r) # JobOf(RecordOf(w)) /\ Before(r, RecordOf(w))
         /\ \A r : r = RecordOf(w) => LeftBehind(r)'
<1>0. /\ \A v \in Workers : WorkerHolds(v)
      /\ wobj \in [Workers -> Objects] /\ wrun \in [Workers -> 1..RunCount + 1] /\ wres[w] \in Result
      /\ processQueue \in Seq(Objects) /\ decoded \in Nat
      /\ wpc \in [Workers -> {"idle", "handle", "status", "marshal", "send", "done"}]
  BY DEF ObjectsInOrder, TypeOK, TypeWorkers, TypeMain, TypeChannels
<1>1. wpc[w] \in {"marshal", "send"} /\ wpc[w] \in Active /\ wrun[w] \in 1..RunCount
  BY <1>0, RunCountAssumption DEF MarshalError, SendOutput, Active, ChannelProtocol
<1>2. wobj[w].id \in 1..decoded /\ (wobj[w].kind = "target" <=> wobj[w].id \in targets) /\ wobj[w] \in Objects
  BY <1>0, <1>1 DEF WorkerHolds, Genuine
<1>3. wres[w] = "null" <=> wobj[w].id \notin targets
  BY <1>0, <1>1, <1>2 DEF WorkerHolds, Objects
<1>4. RecordOf(w) \in Records
  BY <1>0, <1>1, <1>2 DEF RecordOf, Records
<1>5. \A r \in Records : LeftBehind(r) => JobOf(r) # JobOf(RecordOf(w)) /\ Before(r, RecordOf(w))
  BY <1>0, <1>1 DEF LeftBehind, JobOf, RecordOf, Before, Records
<1>6. UNCHANGED <<mainPC, decoded, targets, processQueue, wobj>>
  BY KeepsObject
<1>7. NextRun(w)
  BY DEF MarshalError, SendOutput
<1>8. ASSUME NEW r, r = RecordOf(w) PROVE LeftBehind(r)'
  <2>1. r.id = wobj[w].id /\ r.run = wrun[w] /\ r.res = wres[w]
    BY <1>8 DEF RecordOf
  <2>2. JobOf(r) \in Jobs' /\ (r.res = "null" <=> r.id \notin targets')
    BY <1>1, <1>2, <1>3, <1>6, <2>1 DEF JobOf, Jobs
  <2>3. \A v \in Workers : wpc'[v] \in Active /\ wobj'[v].id = r.id => r.run < wrun'[v]
    <3>1. ASSUME NEW v \in Workers, wpc'[v] \in Active, wobj'[v].id = r.id PROVE v = w
      BY <1>0, <1>1, <1>6, <1>7, <2>1, <3>1 DEF WorkerHolds, NextRun
    <3>2. r.run < wrun'[w]
      BY <1>0, <1>1, <1>7, <2>1, RunCountAssumption DEF NextRun
    <3> QED
      BY <3>1, <3>2
  <2>4. /\ mainPC' = "enqueue" => r.id < decoded'
        /\ \A i \in 1..Len(processQueue') : r.id < processQueue'[i].id
    BY <1>0, <1>1, <1>6, <2>1 DEF WorkerHolds
  <2> QED
    BY <2>2, <2>3, <2>4 DEF LeftBehind
<1> QED
  BY <1>4, <1>5, <1>8

\* A record that left its worker and was not dropped stays so.
Kept(r) == LeftBehind(r) /\ ~Dropped(JobOf(r))

LEMMA KeptNext ==
  ASSUME TypeOK, ChannelProtocol, ObjectsInOrder, [Next]_vars, NEW r \in Records, Kept(r)
  PROVE  Kept(r)'
<1>1. LeftBehind(r)'
  BY BehindNext DEF Kept
<1>2. ~Dropped(JobOf(r))'
  <2>1. ASSUME NEW w \in Workers, MarshalError(w) PROVE ~Dropped(JobOf(r))'
    <3>1. dropped' = dropped \cup {RecordOf(w)} /\ JobOf(r) # JobOf(RecordOf(w))
      BY <2>1, NowBehind DEF MarshalError, Kept
    <3> QED
      BY <3>1 DEF Kept, Dropped, JobOf
  <2>2. CASE dropped' = dropped
    BY <2>2 DEF Kept, Dropped, JobOf
  <2> QED
    BY <2>1, <2>2 DEF Next, vars, Main, Worker, Encoder, Counter, DecodeCsv, DecodeDomain,
         DecodeFault, Enqueue, CloseProcessQueue, JoinWorkers, JoinOutput,
         ReadCounter, Exit, Receive, Grab, GrabPanic, HandleNil, SendStatus,
         MarshalOk, SendOutput, WorkerFinish, ReceiveOutput, WriteRecord, WriteNewline,
         WriteError, OutputFinish, ReceiveStatus, CountStatus, MetricsServerError, Terminated
<1> QED
  BY <1>1, <1>2 DEF Kept

\* What a step does to the records on their way to the file.
LEMMA RecordSteps ==
  ASSUME TypeOK, [Next]_vars
  PROVE  \/ \E w \in Workers : SendOutput(w)
         \/ \E w \in Workers : MarshalError(w)
         \/ ReceiveOutput \/ WriteRecord
         \/ UNCHANGED <<file, outputQueue, dropped>> /\ opc' # "write"
         \/ UNCHANGED <<file, outputQueue, dropped, opc, ohold>>
  BY MoveOrFrame DEF Moves, placeVars, chanVars, encVars, DecodeCsv, DecodeDomain, DecodeFault, Enqueue,
     CloseProcessQueue, JoinWorkers, JoinOutput, Exit, Receive, Grab, HandleNil, SendStatus, MarshalOk,
     WorkerFinish, WriteNewline, OutputFinish

LEMMA RecordsBehindNext ==
  ASSUME TypeOK, ChannelProtocol, ObjectsInOrder, RecordsBehind, [Next]_vars
  PROVE  RecordsBehind'
<1>0. /\ file \in Seq(Records) /\ outputQueue \in Seq(Records) /\ ohold \in Records /\ dropped \subseteq Records
      /\ \A i \in 1..Len(file) : file[i] \in Records /\ Kept(file[i])
      /\ \A i \in 1..Len(outputQueue) : outputQueue[i] \in Records /\ Kept(outputQueue[i])
      /\ opc = "write" => Kept(ohold)
      /\ \A r \in dropped : LeftBehind(r)
  BY DEF TypeOK, TypeEncoder, TypeChannels, RecordsBehind, Kept
<1>1. /\ \A r \in Records : Kept(r) => Kept(r)'
      /\ \A r \in Records : LeftBehind(r) => LeftBehind(r)'
  BY KeptNext, BehindNext
<1> DEFINE Behind == /\ \A i \in 1..Len(file') : \E r \in Records : r = file'[i] /\ Kept(r)'
                     /\ opc' = "write" => \E r \in Records : r = ohold' /\ Kept(r)'
                     /\ \A i \in 1..Len(outputQueue') : \E r \in Records : r = outputQueue'[i] /\ Kept(r)'
                     /\ \A r \in dropped' : LeftBehind(r)'
<1>3. ASSUME NEW w \in Workers, SendOutput(w) PROVE Behind
  <2>1. /\ outputQueue' = Append(outputQueue, RecordOf(w)) /\ UNCHANGED <<file, opc, ohold, dropped>>
        /\ RecordOf(w) \in Records
    BY <1>3, NowBehind DEF SendOutput, encVars
  <2>2. PICK x \in Records : x = RecordOf(w)
    BY <2>1
  <2>3. LeftBehind(x)' /\ \A d \in dropped : JobOf(d) # JobOf(x)
    BY <1>0, <1>3, <2>2, NowBehind
  <2>4. Kept(x)'
    BY <2>1, <2>3 DEF Kept, Dropped, JobOf
  <2>5. ASSUME NEW i \in 1..Len(outputQueue') PROVE \E r \in Records : r = outputQueue'[i] /\ Kept(r)'
    <3>1. (i \in 1..Len(outputQueue) /\ outputQueue'[i] = outputQueue[i]) \/ outputQueue'[i] = x
      BY <1>0, <2>1, <2>2, AppendIndex
    <3> QED
      BY <1>0, <1>1, <2>4, <3>1
  <2> QED
    BY <1>0, <1>1, <2>1, <2>5
<1>4. ASSUME NEW w \in Workers, MarshalError(w) PROVE Behind
  <2>1. dropped' = dropped \cup {RecordOf(w)} /\ UNCHANGED <<file, opc, ohold, outputQueue>>
    BY <1>4 DEF MarshalError, encVars, chanVars
  <2>2. \A r \in dropped' : LeftBehind(r)'
    BY <1>0, <1>1, <1>4, <2>1, NowBehind
  <2> QED
    BY <1>0, <1>1, <2>1, <2>2
<1>5. ASSUME ReceiveOutput PROVE Behind
  <2>1. /\ outputQueue # <<>> /\ ohold' = outputQueue[1] /\ 1 \in 1..Len(outputQueue)
        /\ outputQueue' = Tail(outputQueue) /\ UNCHANGED <<file, dropped>>
    BY <1>0, <1>5, TailIndex DEF ReceiveOutput
  <2>2. \A i \in 1..Len(outputQueue') : i + 1 \in 1..Len(outputQueue) /\ outputQueue'[i] = outputQueue[i + 1]
    BY <1>0, <2>1, TailIndex
  <2> QED
    BY <1>0, <1>1, <2>1, <2>2
<1>6. ASSUME WriteRecord PROVE Behind
  <2>1. file' = Append(file, ohold) /\ UNCHANGED <<ohold, outputQueue, dropped>> /\ opc = "write" /\ opc' # "write"
    BY <1>6 DEF WriteRecord, chanVars
  <2>2. \A i \in 1..Len(file') : (i \in 1..Len(file) /\ file'[i] = file[i]) \/ file'[i] = ohold
    BY <1>0, <2>1, AppendIndex
  <2> QED
    BY <1>0, <1>1, <2>1, <2>2
<1>7. ASSUME UNCHANGED <<file, outputQueue, dropped>>, opc' # "write" PROVE Behind
  BY <1>0, <1>1, <1>7
<1>8. ASSUME UNCHANGED <<file, outputQueue, dropped, opc, ohold>> PROVE Behind
  BY <1>0, <1>1, <1>8
<1>9. Behind
  <2> HIDE DEF Behind
  <2> QED
    BY <1>3, <1>4, <1>5, <1>6, <1>7, <1>8, RecordSteps
<1> QED
  BY <1>9 DEF RecordsBehind, Kept

LEMMA RecordsInOrderNext ==
  ASSUME TypeOK, ChannelProtocol, ObjectsInOrder, RecordsBehind, RecordsInOrder, [Next]_vars
  PROVE  RecordsInOrder'
<1>0. /\ file \in Seq(Records) /\ outputQueue \in Seq(Records) /\ ohold \in Records
      /\ \A i \in 1..Len(file) : file[i] \in Records /\ LeftBehind(file[i])
      /\ \A i \in 1..Len(outputQueue) : outputQueue[i] \in Records /\ LeftBehind(outputQueue[i])
      /\ opc = "write" => LeftBehind(ohold)
  BY DEF TypeOK, TypeEncoder, TypeChannels, RecordsBehind
<1>1. ASSUME NEW w \in Workers, SendOutput(w) PROVE RecordsInOrder'
  <2>1. /\ outputQueue' = Append(outputQueue, RecordOf(w)) /\ UNCHANGED <<file, opc, ohold>>
        /\ RecordOf(w) \in Records
    BY <1>1, NowBehind DEF SendOutput, encVars
  <2>2. PICK x \in Records : x = RecordOf(w)
    BY <2>1
  <2>3. \A r \in Records : LeftBehind(r) => Before(r, x)
    BY <1>1, <2>2, NowBehind
  <2>4. \A i \in 1..Len(outputQueue') :
          (i \in 1..Len(outputQueue) /\ outputQueue'[i] = outputQueue[i]) \/ (i = Len(outputQueue) + 1 /\ outputQueue'[i] = x)
    BY <1>0, <2>1, <2>2, AppendIndex
  <2>5. Len(outputQueue) \in Nat
    BY <1>0
  <2>6. ASSUME NEW i \in 1..Len(outputQueue'), NEW k \in 1..Len(outputQueue'), i < k
        PROVE  Before(outputQueue'[i], outputQueue'[k])
    <3>1. i \in 1..Len(outputQueue) /\ outputQueue'[i] = outputQueue[i]
      BY <2>1, <2>4, <2>5, <2>6, <1>0, AppendIndex
    <3> QED
      BY <1>0, <2>3, <2>4, <2>6, <3>1 DEF RecordsInOrder
  <2>7. ASSUME NEW i \in 1..Len(file), NEW k \in 1..Len(outputQueue') PROVE Before(file[i], outputQueue'[k])
    BY <1>0, <2>3, <2>4 DEF RecordsInOrder
  <2>8. ASSUME opc = "write", NEW k \in 1..Len(outputQueue') PROVE Before(ohold, outputQueue'[k])
    BY <1>0, <2>3, <2>4, <2>8 DEF RecordsInOrder
  <2> QED
    BY <2>1, <2>6, <2>7, <2>8 DEF RecordsInOrder, Before
<1>2. ASSUME NEW w \in Workers, MarshalError(w) PROVE RecordsInOrder'
  BY <1>2 DEF MarshalError, encVars, chanVars, RecordsInOrder, Before
<1>3. CASE ReceiveOutput
  <2>1. /\ outputQueue # <<>> /\ ohold' = outputQueue[1] /\ 1 \in 1..Len(outputQueue)
        /\ outputQueue' = Tail(outputQueue) /\ file' = file
    BY <1>0, <1>3, TailIndex DEF ReceiveOutput
  <2>2. \A i \in 1..Len(outputQueue') : i + 1 \in 1..Len(outputQueue) /\ outputQueue'[i] = outputQueue[i + 1]
    BY <1>0, <2>1, TailIndex
  <2>3. \A i, k \in 1..Len(outputQueue') : i < k => Before(outputQueue'[i], outputQueue'[k])
    BY <2>2 DEF RecordsInOrder
  <2>4. \A k \in 1..Len(outputQueue') : Before(ohold', outputQueue'[k])
    BY <2>1, <2>2 DEF RecordsInOrder
  <2>5. \A i \in 1..Len(file) : Before(file[i], ohold') /\ \A k \in 1..Len(outputQueue') : Before(file[i], outputQueue'[k])
    BY <2>1, <2>2 DEF RecordsInOrder
  <2> QED
    BY <2>1, <2>3, <2>4, <2>5 DEF RecordsInOrder, Before
<1>4. CASE WriteRecord
  <2>1. /\ file' = Append(file, ohold) /\ outputQueue' = outputQueue /\ ohold' = ohold /\ opc = "write" /\ opc' # "write"
    BY <1>4 DEF WriteRecord, chanVars
  <2>2. \A i \in 1..Len(file') : (i \in 1..Len(file) /\ file'[i] = file[i]) \/ (i = Len(file) + 1 /\ file'[i] = ohold)
    BY <1>0, <2>1, AppendIndex
  <2>3. Len(file) \in Nat
    BY <1>0
  <2> QED
    BY <2>1, <2>2, <2>3 DEF RecordsInOrder, Before
<1>5. CASE UNCHANGED <<file, outputQueue>> /\ opc' # "write"
  BY <1>5 DEF RecordsInOrder, Before
<1>6. CASE UNCHANGED <<file, outputQueue, opc, ohold>>
  BY <1>6 DEF RecordsInOrder, Before
<1> QED
  BY <1>1, <1>2, <1>3, <1>4, <1>5, <1>6, RecordSteps

LEMMA LinesDecodedNext ==
  ASSUME TypeOK, ChannelProtocol, LinesDecoded, [Next]_vars PROVE LinesDecoded'
<1>0. /\ input.lines \in Seq(Lines) /\ Len(input.lines) \in Nat /\ (input.lines # <<>> => Len(input.lines) >= 1)
      /\ pos \in Nat \ {0} /\ decoded \in Nat /\ faults \in Nat
      /\ ("processQueue" \in closed <=> mainPC \notin {"decode", "enqueue"})
  BY InputsAssumption DEF TypeOK, TypeMain, ChannelProtocol, MaxFaults
<1>1. LinesRead \in Nat
  BY <1>0 DEF LinesRead
<1>2. CASE DecodeCsv \/ DecodeDomain
  <2>1. decoded' = decoded + 1 /\ pos' = pos + 1 /\ UNCHANGED <<faults, input, closed>>
        /\ mainPC = "decode" /\ ~AtEOF
    BY <1>2 DEF DecodeCsv, DecodeDomain, Decoded, chanVars
  <2>2. pos <= LinesRead
    BY <1>0, <2>1 DEF AtEOF, LinesRead
  <2>3. LinesRead' = LinesRead
    BY <2>1 DEF LinesRead, LookupDomain
  <2> QED
    BY <1>0, <1>1, <2>1, <2>2, <2>3 DEF LinesDecoded
<1>3. CASE DecodeFault
  <2>1. decoded' = decoded + 1 /\ faults' = faults + 1 /\ UNCHANGED <<pos, input, closed>>
    BY <1>3 DEF DecodeFault, Decoded, chanVars
  <2>2. LinesRead' = LinesRead
    BY <2>1 DEF LinesRead, LookupDomain
  <2> QED
    BY <1>0, <2>1, <2>2 DEF LinesDecoded
<1>4. CASE CloseProcessQueue
  <2>1. UNCHANGED <<decoded, pos, faults, input>> /\ AtEOF
    BY <1>4 DEF CloseProcessQueue, decVars
  <2>2. LinesRead' = LinesRead
    BY <2>1 DEF LinesRead, LookupDomain
  <2>3. pos - 1 = LinesRead
    BY <1>0, <2>1 DEF AtEOF, LinesRead, LinesDecoded
  <2> QED
    BY <2>1, <2>2, <2>3 DEF LinesDecoded
<1>5. CASE UNCHANGED decVars /\ ("processQueue" \in closed' => "processQueue" \in closed)
  BY <1>5 DEF LinesDecoded, LinesRead, LookupDomain, decVars
<1> QED
  BY <1>2, <1>3, <1>4, <1>5 DEF Next, vars, mainVars, chanVars, Main, Worker, Encoder, Counter,
                  Enqueue, JoinWorkers, JoinOutput,
                  ReadCounter, Exit, Receive, Grab, GrabPanic, HandleNil,
                  SendStatus, MarshalOk, MarshalError, SendOutput,
                  WorkerFinish, ReceiveOutput, WriteRecord, WriteNewline,
                  WriteError, OutputFinish, ReceiveStatus, CountStatus,
                  MetricsServerError, Terminated

LEMMA LineageInit == Init => Lineage
<1> SUFFICES ASSUME Init PROVE Lineage
  OBVIOUS
<1>1. ObjectsInOrder
  BY DEF Init, ObjectsInOrder, MainHolds, QueueHolds, WorkerHolds, Active
<1>2. RecordsBehind /\ RecordsInOrder
  BY DEF Init, RecordsBehind, RecordsInOrder
<1>3. LinesDecoded
  <2>1. input.lines \in Seq(Lines)
    BY InputsAssumption DEF Init
  <2> QED
    BY <2>1 DEF Init, LinesDecoded, LinesRead
<1> QED
  BY <1>1, <1>2, <1>3 DEF Lineage

LEMMA LineageNext == TypeOK /\ ChannelProtocol /\ Lineage /\ [Next]_vars => Lineage'
<1> SUFFICES ASSUME TypeOK, ChannelProtocol, Lineage, [Next]_vars PROVE Lineage'
  OBVIOUS
<1>1. ObjectsInOrder'
  BY MainHoldsNext, QueueHoldsNext, WorkerHoldsNext DEF Lineage, ObjectsInOrder
<1> QED
  BY <1>1, RecordsBehindNext, RecordsInOrderNext, LinesDecodedNext DEF Lineage

\* Lineage says of every place what the file needs.
LEMMA LineageKeepsFile ==
  TypeOK /\ ChannelProtocol /\ Accounted /\ Lineage => FileSound
<1> SUFFICES ASSUME TypeOK, ChannelProtocol, Accounted, Lineage PROVE FileSound
  OBVIOUS
<1>a. file \in Seq(Records) /\ Len(file) \in Nat /\ \A i \in 1..Len(file) : file[i] \in Records
  BY DEF TypeOK, TypeEncoder
<1>0. Len(file) \in Nat /\ \A i \in 1..Len(file) : file[i].run \in Nat
  BY <1>a DEF Records
<1>1. RunsInOrder
  BY DEF RunsInOrder, Lineage, RecordsInOrder, Before
<1>2. ASSUME NEW i \in 1..Len(file), NEW k \in 1..Len(file), JobOf(file[i]) = JobOf(file[k]) PROVE i = k
  <2>1. file[i].id = file[k].id /\ file[i].run = file[k].run
    BY <1>2 DEF JobOf
  <2>2. i < k \/ k < i \/ i = k
    BY <1>0
  <2> QED
    BY <1>0, <1>1, <2>1, <2>2 DEF RunsInOrder
<1>3. Len(file) - newlines \in 0..1
  BY <1>0 DEF Accounted
<1>4. OutputSound
  BY <1>2, <1>3 DEF OutputSound, Lineage, RecordsBehind, LeftBehind
<1>5. EveryLineDecoded
  <2>1. Returned => "processQueue" \in closed
    BY DEF ChannelProtocol, Returned
  <2> QED
    BY <2>1 DEF EveryLineDecoded, Lineage, LinesDecoded
<1> QED
  BY <1>1, <1>4, <1>5 DEF FileSound

\* At every moment of every run, a crash included, the output file holds only runs that were
\* asked for, each once, in the order they were made, and the whole input once Process has
\* returned: for every number of workers, queue size, connections per host and input file
\* (input.go:46-97).
THEOREM FileStaysSound == Spec => []FileSound
<1>1. Init => TypeOK /\ ChannelProtocol /\ Accounted /\ Lineage
  BY TypeInit, ProtocolInit, AccountedInit, LineageInit
<1> QED
  BY <1>1, ProtocolInductive, AccountedNext, LineageNext, LineageKeepsFile, PTL DEF Spec

-----------------------------------------------------------------------------
(* The refinement: Process does what Scan promises.                        *)

\* When main is past the joins, every worker and the encoder have left.
LEMMA AllDone ==
  ASSUME ChannelProtocol, Returned
  PROVE  opc = "done" /\ \A w \in Workers : wpc[w] = "done"
  BY DEF ChannelProtocol, Returned

LEMMA SettledStep ==
  ASSUME ChannelProtocol, [Next]_vars
  PROVE  [Returned => UNCHANGED <<file, newlines, dropped, sent>>]_vars
<1>1. ASSUME Returned, Next PROVE UNCHANGED <<file, newlines, dropped, sent>>
  BY <1>1, AllDone DEF Next, vars, encVars, statVars, Main, Worker, Encoder, Counter, DecodeCsv, DecodeDomain,
         DecodeFault, Enqueue, CloseProcessQueue, JoinWorkers, JoinOutput,
         ReadCounter, Exit, Receive, Grab, GrabPanic, HandleNil, SendStatus,
         MarshalOk, MarshalError, SendOutput, WorkerFinish, ReceiveOutput, WriteRecord, WriteNewline,
         WriteError, OutputFinish, ReceiveStatus, CountStatus, MetricsServerError, Terminated
<1> QED
  BY <1>1

\* What Scan sees of the pipeline.
LEMMA ContractSettled ==
  ASSUME TypeOK, NEW j
  PROVE  Contract!Settled(j) <=> Written(j) \/ Dropped(j)
<1>1. file \in Seq(Records) /\ Len(file) \in Nat
  BY DEF TypeOK, TypeEncoder
<1>2. Contract!Emitted(j) <=> Written(j)
  BY <1>1 DEF Contract!Emitted, Written
<1>3. j \in {JobOf(r) : r \in dropped} <=> Dropped(j)
  BY DEF Dropped
<1> QED
  BY <1>2, <1>3 DEF Contract!Settled

\* Nothing of an object before run k of it is still on its way when the encoder holds run k.
LEMMA EarlierRunsSettled ==
  ASSUME TypeOK, ChannelProtocol, Accounted, Lineage, opc = "write",
         NEW k \in 1..(ohold.run - 1)
  PROVE  Written(<<ohold.id, k>>) \/ Dropped(<<ohold.id, k>>)
<1>b. LeftBehind(ohold) /\ ohold.id \in 1..decoded /\ ohold.run \in 1..RunCount /\ decoded \in Nat
  BY DEF Lineage, RecordsBehind, LeftBehind, JobOf, Jobs, TypeOK, TypeMain
<1>c. k \in Nat /\ k < ohold.run /\ k \in 1..RunCount
  BY <1>b, RunCountAssumption
<1>0. /\ LeftBehind(ohold) /\ ohold.id \in 1..decoded /\ ohold.run \in 1..RunCount /\ decoded \in Nat
      /\ k \in Nat /\ k < ohold.run /\ k \in 1..RunCount
  BY <1>b, <1>c
<1>a. /\ processQueue \in Seq(Objects) /\ \A o \in Objects : o.id \in Nat
      /\ wrun \in [Workers -> 1..RunCount + 1]
      /\ outputQueue \in Seq(Records)
  BY DEF TypeOK, TypeChannels, TypeWorkers, Objects
<1>1. ~BeingEnqueued(ohold.id)
  BY <1>0 DEF BeingEnqueued, LeftBehind, Lineage, ObjectsInOrder, MainHolds
<1>2. ~InProcessQueue(ohold.id)
  <2>1. \A i \in 1..Len(processQueue) : processQueue[i].id \in Nat /\ ohold.id < processQueue[i].id
    BY <1>0, <1>a DEF LeftBehind
  <2> QED
    BY <1>0, <2>1 DEF InProcessQueue
<1>3. ~InHand(ohold.id, k)
  BY <1>0, <1>a, RunCountAssumption DEF InHand, LeftBehind
<1>4. ~InOutputQueue(<<ohold.id, k>>)
  BY <1>0 DEF InOutputQueue, JobOf, Lineage, RecordsInOrder, Before
<1>5. ~InEncoder(<<ohold.id, k>>)
  BY <1>0 DEF InEncoder, JobOf
<1> QED
  BY <1>0, <1>1, <1>2, <1>3, <1>4, <1>5 DEF Accounted

\* Writing a record is Scan's Emit: the run is new and the earlier ones are settled.
LEMMA WriteEmits ==
  ASSUME TypeOK, ChannelProtocol, Accounted, Lineage, WriteRecord
  PROVE  Contract!Next
<1> DEFINE id == ohold.id
           run == ohold.run
<1>0. /\ opc = "write" /\ file' = Append(file, ohold) /\ UNCHANGED <<decoded, dropped, mainPC>>
      /\ file \in Seq(Records) /\ Len(file) \in Nat /\ ohold \in Records
  BY DEF WriteRecord, mainVars, decVars, TypeOK, TypeEncoder
<1>1. id \in 1..decoded /\ run \in 1..RunCount /\ JobOf(ohold) = <<id, run>>
  BY <1>0 DEF Lineage, RecordsBehind, LeftBehind, JobOf, Jobs
<1>2. ~Returned
  BY <1>0, AllDone
<1>3. ~Written(<<id, run>>) /\ ~Dropped(<<id, run>>)
  <2>1. \A i \in 1..Len(file) : Before(file[i], ohold) /\ ~Dropped(JobOf(ohold))
    BY <1>0 DEF Lineage, RecordsInOrder, RecordsBehind
  <2>2. ~Dropped(<<id, run>>)
    BY <1>0, <1>1 DEF Lineage, RecordsBehind
  <2>3. \A i \in 1..Len(file) : JobOf(file[i]) # <<id, run>>
    BY <1>1, <2>1, RunCountAssumption DEF Before, JobOf
  <2> QED
    BY <2>2, <2>3 DEF Written
<1>4. \A k \in 1..(run - 1) : Written(<<id, k>>) \/ Dropped(<<id, k>>)
  BY <1>0, EarlierRunsSettled
<1>5. [i \in 1..Len(file') |-> JobOf(file'[i])] = Append([i \in 1..Len(file) |-> JobOf(file[i])], <<id, run>>)
  <2>1. Len(file') = Len(file) + 1 /\ \A i \in 1..Len(file) : file'[i] = file[i]
    BY <1>0, AppendKeeps
  <2>2. file'[Len(file) + 1] = ohold
    BY <1>0, AppendKeeps
  <2> DEFINE s == [i \in 1..Len(file) |-> JobOf(file[i])]
             t == [i \in 1..Len(file') |-> JobOf(file'[i])]
  <2>3. s \in Seq({JobOf(r) : r \in Records}) /\ Len(s) = Len(file)
    BY <1>0
  <2>4. <<id, run>> \in {JobOf(r) : r \in Records}
    BY <1>0, <1>1
  <2>5. t = Append(s, <<id, run>>)
    BY <1>0, <1>1, <2>1, <2>2, <2>3, <2>4 DEF JobOf
  <2> QED
    BY <2>5
<1>6. Returned' <=> Returned
  BY <1>0 DEF Returned
<1>7. Contract!Emit(id, run)
  BY <1>0, <1>2, <1>3, <1>4, <1>5, <1>6, ContractSettled DEF Contract!Emit, JobOf
<1> QED
  BY <1>1, <1>7 DEF Contract!Next

\* Dropping a record is Scan's Lose: the run is new.
LEMMA DropLoses ==
  ASSUME TypeOK, ChannelProtocol, Lineage, NEW w \in Workers, MarshalError(w)
  PROVE  Contract!Next
<1> DEFINE id == wobj[w].id
           run == wrun[w]
<1>0. /\ wpc[w] = "marshal" /\ dropped' = dropped \cup {RecordOf(w)} /\ UNCHANGED <<decoded, file, mainPC>>
      /\ file \in Seq(Records) /\ dropped \subseteq Records
  BY DEF MarshalError, mainVars, decVars, encVars, TypeOK, TypeEncoder
<1>1. JobOf(RecordOf(w)) = <<id, run>>
  BY DEF JobOf, RecordOf
<1>2. id \in 1..decoded /\ run \in 1..RunCount
  BY <1>0, RunCountAssumption DEF Lineage, ObjectsInOrder, WorkerHolds, Genuine, Active, ChannelProtocol, TypeOK, TypeWorkers
<1>3. ~Returned
  BY <1>0, AllDone
<1>4. \A r \in Records : LeftBehind(r) => JobOf(r) # <<id, run>>
  BY <1>1, NowBehind DEF Lineage
<1>5. ~Written(<<id, run>>) /\ ~Dropped(<<id, run>>)
  BY <1>0, <1>4 DEF Written, Dropped, Lineage, RecordsBehind
<1>6. {JobOf(r) : r \in dropped'} = {JobOf(r) : r \in dropped} \cup {<<id, run>>}
  BY <1>0, <1>1
<1>7. Contract!Lose(id, run)
  BY <1>0, <1>3, <1>5, <1>6, ContractSettled DEF Contract!Lose, Returned, JobOf
<1> QED
  BY <1>2, <1>7 DEF Contract!Next

\* Every step of the pipeline is a step of Scan or leaves what Scan sees alone.
LEMMA StepRefines ==
  ASSUME TypeOK, ChannelProtocol, Accounted, Lineage, [Next]_vars
  PROVE  [Contract!Next]_Contract!scanVars
<1>1. CASE DecodeCsv \/ DecodeDomain \/ DecodeFault
  <2>1. decoded' = decoded + 1 /\ UNCHANGED <<file, dropped>> /\ ~Returned /\ ~Returned'
    BY <1>1, DecodeStep DEF Returned, encVars
  <2> QED
    BY <2>1 DEF Contract!Next, Contract!Issue, JobOf
<1>2. CASE JoinOutput
  <2>1. UNCHANGED <<decoded, file, dropped>> /\ ~Returned /\ Returned'
    BY <1>2 DEF JoinOutput, Returned, decVars, encVars
  <2>2. NothingLost'
    <3>1. TypeOK' /\ ChannelProtocol' /\ Accounted'
      BY ProtocolInductive, AccountedNext
    <3> QED
      BY <3>1, ReturnedMeansDrained, PTL
  <2>3. ASSUME NEW id \in 1..decoded, NEW run \in 1..RunCount PROVE Contract!Settled(<<id, run>>)
    <3>1. Written(<<id, run>>)' \/ Dropped(<<id, run>>)'
      BY <2>1, <2>2 DEF NothingLost, Jobs
    <3>2. Written(<<id, run>>) \/ Dropped(<<id, run>>)
      BY <2>1, <3>1 DEF Written, Dropped, JobOf
    <3> QED
      BY <3>2, ContractSettled
  <2> QED
    BY <2>1, <2>3 DEF Contract!Next, Contract!Return, JobOf
<1>3. CASE WriteRecord
  BY <1>3, WriteEmits
<1>4. ASSUME NEW w \in Workers, MarshalError(w) PROVE Contract!Next
  BY <1>4, DropLoses
<1>5. CASE UNCHANGED <<decoded, file, dropped>> /\ (Returned' <=> Returned)
  BY <1>5 DEF Contract!scanVars, JobOf
<1>6. \/ DecodeCsv \/ DecodeDomain \/ DecodeFault \/ JoinOutput \/ WriteRecord
      \/ \E w \in Workers : MarshalError(w)
      \/ UNCHANGED <<decoded, file, dropped>> /\ (Returned' <=> Returned)
  BY MoveOrFrame DEF Moves, placeVars, mainVars, decVars, encVars, Returned, Enqueue, CloseProcessQueue,
     JoinWorkers, Exit, Receive, Grab, HandleNil, SendStatus, MarshalOk, SendOutput, WorkerFinish,
     ReceiveOutput, WriteNewline, OutputFinish
<1> QED
  BY <1>1, <1>2, <1>3, <1>4, <1>5, <1>6

\* Process implements the abstract scan: every run of every object it takes from the decoder
\* is emitted once and in order or lost once, it returns only when none is outstanding, and
\* then nothing it reported on changes any more (input.go:42-99).
THEOREM ProcessKeepsContract == Spec => KeepsContract
<1>1. Init => TypeOK /\ ChannelProtocol /\ Accounted /\ Lineage
  BY TypeInit, ProtocolInit, AccountedInit, LineageInit
<1>2. Init => Contract!Init
  BY DEF Init, Contract!Init, Returned
<1>3. TypeOK /\ ChannelProtocol /\ Accounted /\ Lineage /\ [Next]_vars => [Contract!Next]_Contract!scanVars
  BY StepRefines
<1>4. ChannelProtocol /\ [Next]_vars => [Returned => UNCHANGED <<file, newlines, dropped, sent>>]_vars
  BY SettledStep
<1>5. Spec => ImplementsScan
  BY <1>1, <1>2, <1>3, ProtocolInductive, AccountedNext, LineageNext, PTL DEF Spec, ImplementsScan, Contract!Spec
<1>6. Spec => Settled
  BY <1>1, <1>4, ProtocolInductive, PTL DEF Spec, Settled
<1> QED
  BY <1>5, <1>6 DEF KeepsContract

-----------------------------------------------------------------------------
(* Counting: the statuses are those of the runs, and the report is bounded. *)

LEMMA HitsFinite ==
  ASSUME NEW T, NEW q \in Seq(T), NEW S
  PROVE  IsFiniteSet({i \in 1..Len(q) : q[i] \in S}) /\ Hits(q, S) \in Nat
<1>1. IsFiniteSet(1..Len(q))
  BY FS_Interval
<1> QED
  BY <1>1, FS_Subset, FS_CardinalityType DEF Hits

LEMMA HitsEmpty == ASSUME NEW S PROVE Hits(<<>>, S) = 0
<1>1. {i \in 1..Len(<<>>) : <<>>[i] \in S} = {}
  OBVIOUS
<1> QED
  BY <1>1, FS_EmptySet DEF Hits

LEMMA HitsAppend ==
  ASSUME NEW T, NEW q \in Seq(T), NEW x \in T, NEW S
  PROVE  Hits(Append(q, x), S) = Hits(q, S) + One(x \in S)
<1> DEFINE a == Append(q, x)
           A == {i \in 1..Len(q) : q[i] \in S}
           B == {i \in 1..Len(a) : a[i] \in S}
<1>1. Len(a) = Len(q) + 1 /\ (\A i \in 1..Len(q) : a[i] = q[i]) /\ a[Len(q) + 1] = x
  BY AppendKeeps
<1>a. Len(q) \in Nat
  OBVIOUS
<1>b. IsFiniteSet(A) /\ Cardinality(A) \in Nat
  BY HitsFinite DEF Hits
<1>2. IsFiniteSet(A) /\ Cardinality(A) \in Nat /\ Len(q) \in Nat
  BY <1>a, <1>b
<1> HIDE DEF a
<1>c. Hits(a, S) = Cardinality(B) /\ Hits(q, S) = Cardinality(A)
  BY DEF Hits
<1> HIDE DEF A, B
<1>3. CASE x \in S
  <2>1. B = A \cup {Len(q) + 1} /\ Len(q) + 1 \notin A
    BY <1>1, <1>2, <1>3 DEF A, B
  <2>2. Cardinality(B) = Cardinality(A) + 1
    BY <1>2, <2>1, FS_AddElement
  <2> QED
    BY <1>c, <1>3, <2>2 DEF One, a
<1>4. CASE x \notin S
  <2>1. B = A
    BY <1>1, <1>2, <1>4 DEF A, B
  <2> QED
    BY <1>2, <1>c, <1>4, <2>1 DEF One, a
<1> QED
  BY <1>3, <1>4

LEMMA HitsTail ==
  ASSUME NEW T, NEW q \in Seq(T), q # <<>>, NEW S
  PROVE  Hits(q, S) = Hits(Tail(q), S) + One(Head(q) \in S)
<1> DEFINE t == Tail(q)
           A == {i \in 1..Len(q) : q[i] \in S}
           B == {i \in 1..Len(t) : t[i] \in S}
           f == [i \in B |-> i + 1]
<1>1. /\ t \in Seq(T) /\ Len(t) = Len(q) - 1 /\ Head(q) = q[1] /\ Len(q) \in Nat /\ 1 \in 1..Len(q)
      /\ \A i \in 1..Len(t) : i + 1 \in 1..Len(q) /\ t[i] = q[i + 1]
  BY TailIndex, TailKeeps
<1>2. IsFiniteSet(A) /\ Cardinality(A) \in Nat /\ IsFiniteSet(B) /\ Cardinality(B) \in Nat
  BY <1>1, HitsFinite DEF Hits
<1> HIDE DEF t
<1>c. Hits(t, S) = Cardinality(B) /\ Hits(q, S) = Cardinality(A)
  BY DEF Hits
<1>3. f \in [B -> A \ {1}]
  BY <1>1
<1>4. \A a, b \in B : f[a] = f[b] => a = b
  BY <1>1
<1>5. \A y \in A \ {1} : \E x \in B : f[x] = y
  <2>1. ASSUME NEW y \in A \ {1} PROVE y - 1 \in B /\ f[y - 1] = y
    BY <1>1
  <2> QED
    BY <2>1
<1>6. f \in Bijection(B, A \ {1})
  BY <1>3, <1>4, <1>5, Fun_IsBij
<1>7. Cardinality(A \ {1}) = Cardinality(B)
  BY <1>2, <1>6, FS_Bijection DEF ExistsBijection
<1>9. (q[1] \in S <=> 1 \in A)
  BY <1>1
<1> HIDE DEF A, B, f
<1>8. Cardinality(A) = Cardinality(B) + One(q[1] \in S)
  <2>1. CASE q[1] \in S
    <3>1. Cardinality(A \ {1}) = Cardinality(A) - 1
      BY <1>2, <1>9, <2>1, FS_RemoveElement
    <3> QED
      BY <1>2, <1>7, <2>1, <3>1 DEF One
  <2>2. CASE q[1] \notin S
    <3>1. A \ {1} = A
      BY <1>9, <2>2
    <3>2. Cardinality(A) = Cardinality(B)
      BY <1>7, <3>1
    <3> QED
      BY <1>2, <2>2, <3>2 DEF One
  <2> QED
    BY <2>1, <2>2
<1> QED
  BY <1>1, <1>c, <1>8 DEF t

LEMMA StatusesPlacedNext ==
  ASSUME TypeOK, ChannelProtocol, StatusesPlaced, [Next]_vars PROVE StatusesPlaced'
<1>0. /\ statuses \in Seq(Status) /\ shold \in Status \cup {"none"}
      /\ counted \in [Status -> Nat] /\ sent \in [Status -> Nat] /\ Status = {"success", "failure"}
      /\ \A s \in Status : counted[s] \in Nat /\ sent[s] \in Nat /\ Hits(statuses, {s}) \in Nat
  BY HitsFinite DEF TypeOK, TypeChannels, TypeCounter, Status
<1>1. ASSUME NEW w \in Workers, SendStatus(w) PROVE StatusesPlaced'
  <2> DEFINE x == wres[w]
  <2>1. x \in Status /\ statuses' = Append(statuses, x) /\ sent' = [sent EXCEPT ![x] = @ + 1] /\ UNCHANGED <<shold, counted>>
    BY <1>1 DEF SendStatus, ChannelProtocol, TypeOK, TypeWorkers, Result
  <2>2. Len(statuses') = Len(statuses) + 1 /\ Len(statuses) \in Nat
    BY <1>0, <2>1
  <2> HIDE DEF x
  <2>3. \A s \in Status : Hits(statuses', {s}) = Hits(statuses, {s}) + One(x = s)
    <3>1. ASSUME NEW s \in Status PROVE Hits(statuses', {s}) = Hits(statuses, {s}) + One(x \in {s})
      BY SMTT(40), <1>0, <2>1, HitsAppend
    <3> QED
      BY <3>1 DEF One
  <2>4. \A s \in Status : sent'[s] = sent[s] + One(x = s)
    BY <1>0, <2>1 DEF One
  <2>5. sent'["success"] + sent'["failure"] = sent["success"] + sent["failure"] + 1
    BY <1>0, <2>1, <2>4 DEF One
  <2>6. One(shold # "none") \in Nat /\ \A s \in Status : One(shold = s) \in Nat /\ One(x = s) \in Nat
    BY DEF One
  <2>7. ASSUME NEW s \in Status PROVE sent'[s] = counted[s] + Hits(statuses', {s}) + One(shold = s)
    <3>1. sent[s] = counted[s] + Hits(statuses, {s}) + One(shold = s)
      BY DEF StatusesPlaced
    <3>2. sent'[s] = sent[s] + One(x = s) /\ Hits(statuses', {s}) = Hits(statuses, {s}) + One(x = s)
      BY <2>3, <2>4
    <3>3. /\ counted[s] \in Nat /\ sent[s] \in Nat /\ Hits(statuses, {s}) \in Nat
          /\ One(x = s) \in Nat /\ One(shold = s) \in Nat
      BY <1>0 DEF One
    <3> QED
      BY <3>1, <3>2, <3>3
  <2>8. sent'["success"] + sent'["failure"]
          = counted["success"] + counted["failure"] + Len(statuses') + One(shold # "none")
    BY <1>0, <2>2, <2>5 DEF StatusesPlaced, One
  <2> QED
    BY <2>1, <2>7, <2>8 DEF StatusesPlaced, One
<1>2. CASE ReceiveStatus
  <2>1. shold = "none" /\ statuses # <<>> /\ shold' = Head(statuses) /\ statuses' = Tail(statuses) /\ UNCHANGED <<counted, sent>>
    BY <1>2 DEF ReceiveStatus
  <2>2. Len(statuses') = Len(statuses) - 1 /\ Len(statuses) \in Nat /\ shold' \in Status
    BY <1>0, <2>1
  <2>3. \A s \in Status : Hits(statuses, {s}) = Hits(statuses', {s}) + One(shold' = s) /\ Hits(statuses', {s}) \in Nat
    <3>1. ASSUME NEW s \in Status PROVE Hits(statuses, {s}) = Hits(statuses', {s}) + One(Head(statuses) \in {s})
      BY <1>0, <2>1, HitsTail
    <3>2. statuses' \in Seq(Status)
      BY <1>0, <2>1
    <3> QED
      BY <2>1, <3>1, <3>2, HitsFinite DEF One
  <2>4. One(shold # "none") = 0 /\ One(shold' # "none") = 1 /\ \A s \in Status : One(shold = s) = 0 /\ One(shold' = s) \in Nat
    BY <1>0, <2>1, <2>2 DEF One
  <2>5. ASSUME NEW s \in Status PROVE sent[s] = counted[s] + Hits(statuses', {s}) + One(shold' = s)
    <3>1. sent[s] = counted[s] + Hits(statuses, {s}) + One(shold = s)
      BY DEF StatusesPlaced
    <3>2. Hits(statuses, {s}) = Hits(statuses', {s}) + One(shold' = s) /\ Hits(statuses', {s}) \in Nat /\ shold # s
      BY <1>0, <2>1, <2>3
    <3> QED
      BY <1>0, <3>1, <3>2 DEF One
  <2>6. sent["success"] + sent["failure"] = counted["success"] + counted["failure"] + Len(statuses') + One(shold' # "none")
    BY <1>0, <2>2, <2>4 DEF StatusesPlaced
  <2> QED
    BY <2>1, <2>5, <2>6 DEF StatusesPlaced, One
<1>3. CASE CountStatus
  <2>1. shold # "none" /\ shold' = "none" /\ counted' = [counted EXCEPT ![shold] = @ + 1] /\ UNCHANGED <<statuses, sent>>
    BY <1>3 DEF CountStatus, chanVars
  <2>2. Len(statuses) \in Nat
    BY <1>0
  <2>3. \A s \in Status : counted'[s] = counted[s] + One(shold = s) /\ One(shold = s) \in Nat /\ One(shold' = s) = 0
    BY <1>0, <2>1 DEF One
  <2>4. counted'["success"] + counted'["failure"] = counted["success"] + counted["failure"] + 1
    BY <1>0, <2>1, <2>3 DEF One
  <2>5. One(shold # "none") = 1 /\ One(shold' # "none") = 0
    BY <2>1 DEF One
  <2>6. ASSUME NEW s \in Status PROVE sent[s] = counted'[s] + Hits(statuses, {s}) + One(shold' = s)
    <3>1. sent[s] = counted[s] + Hits(statuses, {s}) + One(shold = s)
      BY DEF StatusesPlaced
    <3>2. counted'[s] = counted[s] + One(shold = s) /\ shold' # s
      BY <1>0, <2>1, <2>3
    <3>3. /\ counted[s] \in Nat /\ Hits(statuses, {s}) \in Nat
          /\ One(shold = s) \in Nat /\ One(shold' = s) = 0
      BY <1>0, <3>2 DEF One
    <3> QED
      BY <3>1, <3>2, <3>3
  <2>7. sent["success"] + sent["failure"] = counted'["success"] + counted'["failure"] + Len(statuses) + One(shold' # "none")
    BY <1>0, <2>2, <2>4, <2>5 DEF StatusesPlaced
  <2> QED
    BY <2>1, <2>6, <2>7 DEF StatusesPlaced, One
<1>4. CASE UNCHANGED <<statVars, statuses>>
  BY <1>4 DEF StatusesPlaced, statVars
<1> QED
  BY <1>1, <1>2, <1>3, <1>4
     DEF Next, vars, chanVars, Main, Worker, Encoder, Counter, DecodeCsv, DecodeDomain,
         DecodeFault, Enqueue, CloseProcessQueue, JoinWorkers, JoinOutput,
         ReadCounter, Exit, Receive, Grab, GrabPanic, HandleNil, MarshalOk,
         MarshalError, SendOutput, WorkerFinish, ReceiveOutput, WriteRecord,
         WriteNewline, WriteError, OutputFinish, MetricsServerError, Terminated

LEMMA EndedRes == ASSUME NEW x \in Records, NEW s PROVE x \in Ended(s) <=> x.res = s
  BY DEF Records, Ended

LEMMA ReportingFinite == ASSUME NEW s PROVE IsFiniteSet(Reporting(s)) /\ Cardinality(Reporting(s)) \in Nat
  BY WorkersAssumption, FS_Subset, FS_CardinalityType DEF Reporting

\* The number of runs that ended with s, wherever their records are.
RunsEnded(s) ==
  Hits(file, Ended(s)) + Cardinality(dropped \cap Ended(s)) + Hits(outputQueue, Ended(s))
  + One(opc = "write" /\ ohold.res = s) + Cardinality(Reporting(s))

\* The workers that report a run which ended with s: one joins with its status ...
LEMMA ReportingJoins ==
  ASSUME TypeOK, ChannelProtocol, NEW s \in Status, NEW w \in Workers, SendStatus(w)
  PROVE  /\ wres[w] = s => w \notin Reporting(s) /\ Reporting(s)' = Reporting(s) \cup {w} /\ sent'[s] = sent[s] + 1
         /\ wres[w] # s => Reporting(s)' = Reporting(s) /\ sent'[s] = sent[s]
<1>1. /\ wpc[w] = "status" /\ wpc' = [wpc EXCEPT ![w] = "marshal"] /\ wres' = wres
      /\ wres[w] \in Status /\ sent' = [sent EXCEPT ![wres[w]] = @ + 1]
  BY DEF SendStatus, ChannelProtocol, TypeOK, TypeWorkers, Result
<1> QED
  BY <1>1 DEF Reporting, TypeOK, TypeWorkers, TypeCounter

\* ... and leaves with its record.
LEMMA ReportingLeaves ==
  ASSUME TypeOK, NEW s \in Status, NEW w \in Workers, MarshalError(w) \/ SendOutput(w)
  PROVE  /\ wres[w] = s => w \in Reporting(s) /\ Reporting(s)' = Reporting(s) \ {w}
         /\ wres[w] # s => Reporting(s)' = Reporting(s)
         /\ sent' = sent
<1>1. /\ wpc[w] \in {"marshal", "send"} /\ NextRun(w) /\ wres' = wres /\ sent' = sent
  BY DEF MarshalError, SendOutput, statVars
<1> QED
  BY <1>1 DEF Reporting, NextRun, TypeOK, TypeWorkers

LEMMA ReportingStays ==
  ASSUME TypeOK, NEW s \in Status, NEW w \in Workers,
         Receive(w) \/ Grab(w) \/ HandleNil(w) \/ MarshalOk(w) \/ WorkerFinish(w)
  PROVE  Reporting(s)' = Reporting(s) /\ sent' = sent
  BY DEF Receive, Grab, HandleNil, MarshalOk, WorkerFinish, Reporting, statVars, TypeOK, TypeWorkers, Status

LEMMA RunsReportedNext ==
  ASSUME TypeOK, ChannelProtocol, Lineage, RunsReported, [Next]_vars PROVE RunsReported'
<1>0. /\ file \in Seq(Records) /\ outputQueue \in Seq(Records) /\ ohold \in Records /\ dropped \subseteq Records
      /\ IsFiniteSet(dropped)
  BY DEF TypeOK, TypeEncoder, TypeChannels, RunsReported
<1>1. IsFiniteSet(dropped')
  <2>1. dropped' = dropped \/ \E x : dropped' = dropped \cup {x}
    BY RecordSteps DEF SendOutput, MarshalError, ReceiveOutput, WriteRecord
  <2> QED
    BY <1>0, <2>1, FS_AddElement
<1>2. ASSUME NEW s \in Status PROVE sent'[s] = RunsEnded(s)'
  <2> DEFINE F == Hits(file, Ended(s))
             D == Cardinality(dropped \cap Ended(s))
             Q == Hits(outputQueue, Ended(s))
             H == One(opc = "write" /\ ohold.res = s)
             W == Cardinality(Reporting(s))
  <2>0. sent[s] = F + D + Q + H + W
    BY DEF RunsReported
  <2>a. F \in Nat /\ Q \in Nat
    BY <1>0, HitsFinite
  <2>b. IsFiniteSet(dropped \cap Ended(s)) /\ D \in Nat
    BY <1>0, FS_Subset, FS_CardinalityType
  <2>c. H \in Nat /\ W \in Nat /\ IsFiniteSet(Reporting(s))
    BY ReportingFinite DEF One
  <2>d. Ended(s)' = Ended(s)
    BY DEF Ended
  <2>e. SUFFICES sent'[s] = F' + D' + Q' + H' + W'
    BY DEF RunsEnded
  <2> HIDE DEF F, D, Q, H, W
  <2>1. ASSUME NEW w \in Workers, SendStatus(w) PROVE sent'[s] = F' + D' + Q' + H' + W'
    <3>1. F' = F /\ D' = D /\ Q' = Q /\ H' = H
      BY <2>1, <2>d DEF F, D, Q, H, SendStatus, encVars
    <3>2. ASSUME wres[w] = s PROVE sent'[s] = sent[s] + 1 /\ W' = W + 1
      <4>1. w \notin Reporting(s) /\ Reporting(s)' = Reporting(s) \cup {w} /\ sent'[s] = sent[s] + 1
        BY <2>1, <3>2, ReportingJoins
      <4>2. Cardinality(Reporting(s) \cup {w}) = Cardinality(Reporting(s)) + 1
        BY <2>c, <4>1, FS_AddElement
      <4> QED
        BY <4>1, <4>2 DEF W
    <3>3. wres[w] # s => sent'[s] = sent[s] /\ W' = W
      BY <2>1, ReportingJoins DEF W
    <3> QED
      BY <2>0, <2>a, <2>b, <2>c, <3>1, <3>2, <3>3
  <2>2. ASSUME NEW w \in Workers, SendOutput(w) PROVE sent'[s] = F' + D' + Q' + H' + W'
    <3>1. F' = F /\ D' = D /\ H' = H /\ sent' = sent /\ outputQueue' = Append(outputQueue, RecordOf(w))
      BY <2>2, <2>d DEF F, D, H, SendOutput, encVars, statVars
    <3>2. RecordOf(w) \in Records /\ RecordOf(w).res = wres[w]
      BY <2>2, NowBehind DEF Lineage, RecordOf
    <3>3. Q' = Q + One(RecordOf(w) \in Ended(s))
      BY <1>0, <2>d, <3>1, <3>2, HitsAppend DEF Q
    <3>4. CASE wres[w] = s
      <4>1. W' = W - 1
        BY <2>2, <2>c, <3>4, ReportingLeaves, FS_RemoveElement DEF W
      <4>2. Q' = Q + 1
        BY <3>2, <3>3, <3>4, EndedRes DEF One
      <4> QED
        BY <2>0, <2>a, <2>b, <2>c, <3>1, <4>1, <4>2
    <3>5. CASE wres[w] # s
      <4>1. W' = W
        BY <2>2, <3>5, ReportingLeaves DEF W
      <4>2. Q' = Q
        BY <2>a, <3>2, <3>3, <3>5, EndedRes DEF One
      <4> QED
        BY <2>0, <3>1, <4>1, <4>2
    <3> QED
      BY <3>4, <3>5
  <2>3. ASSUME NEW w \in Workers, MarshalError(w) PROVE sent'[s] = F' + D' + Q' + H' + W'
    <3>1. F' = F /\ Q' = Q /\ H' = H /\ sent' = sent /\ dropped' = dropped \cup {RecordOf(w)}
      BY <2>3, <2>d DEF F, Q, H, MarshalError, encVars, statVars, chanVars
    <3>2. RecordOf(w) \in Records /\ RecordOf(w).res = wres[w] /\ RecordOf(w) \notin dropped
      BY <1>0, <2>3, NowBehind DEF Lineage, RecordsBehind, RecordOf
    <3>4. CASE wres[w] = s
      <4>1. W' = W - 1
        BY <2>3, <2>c, <3>4, ReportingLeaves, FS_RemoveElement DEF W
      <4>2. /\ dropped' \cap Ended(s) = (dropped \cap Ended(s)) \cup {RecordOf(w)}
            /\ RecordOf(w) \notin dropped \cap Ended(s)
        BY <3>1, <3>2, <3>4, EndedRes
      <4>3. D' = D + 1
        BY <2>b, <2>d, <4>2, FS_AddElement DEF D
      <4> QED
        BY <2>0, <2>a, <2>b, <2>c, <3>1, <4>1, <4>3
    <3>5. CASE wres[w] # s
      <4>1. W' = W
        BY <2>3, <3>5, ReportingLeaves DEF W
      <4>2. dropped' \cap Ended(s) = dropped \cap Ended(s)
        BY <3>1, <3>2, <3>5, EndedRes
      <4> QED
        BY <2>0, <2>d, <3>1, <4>1, <4>2 DEF D
    <3> QED
      BY <3>4, <3>5
  <2>4. CASE ReceiveOutput
    <3>1. /\ F' = F /\ D' = D /\ W' = W /\ sent' = sent /\ opc = "recv" /\ opc' = "write"
          /\ outputQueue # <<>> /\ ohold' = Head(outputQueue) /\ outputQueue' = Tail(outputQueue)
      BY <2>4, <2>d DEF F, D, W, ReceiveOutput, Reporting, workVars, statVars
    <3>2. Q = Q' + One(Head(outputQueue) \in Ended(s)) /\ Q' \in Nat
      <4>1. outputQueue' \in Seq(Records)
        BY <1>0, <3>1
      <4> QED
        BY <1>0, <2>d, <3>1, <4>1, HitsTail, HitsFinite DEF Q
    <3>3. H = 0 /\ H' = One(Head(outputQueue).res = s)
      BY <3>1 DEF H, One
    <3>4. Head(outputQueue) \in Records
      BY <1>0, <3>1
    <3>5. Q = Q' + H' /\ H' \in Nat
      BY <3>2, <3>3, <3>4, EndedRes DEF One
    <3> QED
      BY <2>0, <2>a, <2>b, <2>c, <3>1, <3>2, <3>3, <3>5
  <2>5. CASE WriteRecord
    <3>1. /\ Q' = Q /\ D' = D /\ W' = W /\ sent' = sent /\ opc = "write" /\ opc' = "newline"
          /\ file' = Append(file, ohold)
      BY <2>5, <2>d DEF Q, D, W, WriteRecord, Reporting, workVars, statVars, chanVars
    <3>2. F' = F + One(ohold \in Ended(s))
      BY <1>0, <2>d, <3>1, HitsAppend DEF F
    <3>3. F' = F + H /\ H' = 0
      BY <1>0, <3>1, <3>2, EndedRes DEF H, One
    <3> QED
      BY <2>0, <2>a, <2>b, <2>c, <3>1, <3>3
  <2>6. ASSUME NEW w \in Workers, Receive(w) \/ Grab(w) \/ HandleNil(w) \/ MarshalOk(w) \/ WorkerFinish(w)
        PROVE  sent'[s] = F' + D' + Q' + H' + W'
    <3>1. F' = F /\ D' = D /\ Q' = Q /\ H' = H
      BY <2>6, <2>d DEF F, D, Q, H, Receive, Grab, HandleNil, MarshalOk, WorkerFinish, encVars, chanVars
    <3>2. W' = W /\ sent' = sent
      BY <2>6, ReportingStays DEF W
    <3> QED
      BY <2>0, <3>1, <3>2
  <2>7. CASE UNCHANGED <<file, dropped, outputQueue, workVars, sent>> /\ opc # "write" /\ opc' # "write"
    <3>1. F' = F /\ D' = D /\ Q' = Q /\ W' = W /\ H' = H
      BY <2>7, <2>d DEF F, D, Q, W, H, One, Reporting, workVars
    <3> QED
      BY <2>0, <2>7, <3>1
  <2>8. CASE UNCHANGED <<file, dropped, outputQueue, workVars, sent, opc, ohold>>
    <3>1. F' = F /\ D' = D /\ Q' = Q /\ W' = W /\ H' = H
      BY <2>8, <2>d DEF F, D, Q, W, H, One, Reporting, workVars
    <3> QED
      BY <2>0, <2>8, <3>1
  <2> QED
    BY <2>1, <2>2, <2>3, <2>4, <2>5, <2>6, <2>7, <2>8
       DEF Next, vars, encVars, chanVars, statVars, Main, Worker, Encoder, Counter, DecodeCsv, DecodeDomain,
           DecodeFault, Enqueue, CloseProcessQueue, JoinWorkers, JoinOutput,
           ReadCounter, Exit, GrabPanic, WriteNewline, WriteError, OutputFinish,
           ReceiveStatus, CountStatus, MetricsServerError, Terminated
<1> QED
  BY <1>1, <1>2 DEF RunsReported, RunsEnded

LEMMA ReadsBehindNext ==
  ASSUME TypeOK, ChannelProtocol, StatusesPlaced, ReadsBehind, SummaryBounds, [Next]_vars
  PROVE  ReadsBehind' /\ SummaryBounds'
<1>0. /\ reads \in Seq(Nat) /\ Len(reads) \in Nat /\ Len(reads) <= 6 /\ counted \in [Status -> Nat] /\ sent \in [Status -> Nat]
      /\ statuses \in Seq(Status) /\ Len(statuses) \in Nat /\ Len(statuses) <= QueueCap /\ QueueCap \in Nat
      /\ Status = {"success", "failure"} /\ \A i : ReadOf(i) \in Status
  BY QueueCapNat DEF TypeOK, TypeReport, ReportReads, TypeCounter, TypeChannels, Status, ReadOf
<1>1. CASE ReadCounter
  <2> DEFINE n == Len(reads) + 1
             c == counted[ReadOf(n)]
  <2>1. /\ reads' = Append(reads, c) /\ UNCHANGED <<counted, sent, mainPC>> /\ mainPC = "report" /\ n <= 6
        /\ c \in Nat /\ n \in 1..6
    BY SMTT(40), <1>0, <1>1 DEF ReadCounter, statVars, mainVars, ReportReads
  <2>2. Len(reads') = n /\ reads'[n] = c /\ \A i \in 1..Len(reads) : reads'[i] = reads[i]
    BY <1>0, <2>1
  <2>3. \A i \in 1..n : i = n \/ i \in 1..Len(reads)
    BY <1>0
  <2>4. ASSUME NEW s \in Status PROVE counted[s] <= sent[s] /\ counted[s] \in Nat /\ sent[s] \in Nat
    <3>1. sent[s] = counted[s] + Hits(statuses, {s}) + One(shold = s)
      BY DEF StatusesPlaced
    <3>2. Hits(statuses, {s}) \in Nat /\ One(shold = s) \in Nat /\ counted[s] \in Nat
      BY <1>0, HitsFinite DEF One
    <3> QED
      BY <1>0, <3>1, <3>2
  <2>5. sent["success"] + sent["failure"] - (counted["success"] + counted["failure"]) <= QueueCap + 1
    BY <1>0, <2>4 DEF StatusesPlaced, One
  <2>6. reads' # <<>> => Returned'
    BY <2>1 DEF Returned
  <2>7. \A i \in 1..n : reads'[i] <= counted[ReadOf(i)]
    BY <1>0, <2>1, <2>2, <2>3 DEF ReadsBehind
  <2>8. \A i \in 1..n : reads'[i] \in Nat
    BY <1>0, <2>1, <2>2, <2>3
  <2>9. n % 2 = 1 => sent["success"] + sent["failure"] - (reads'[n] + counted["failure"]) <= QueueCap + 1
    BY <2>2, <2>5 DEF ReadOf
  <2>10. \A i \in 1..n : reads'[i] <= sent[ReadOf(i)]
    BY <1>0, <2>4, <2>7, <2>8
  <2>11. \A i, k \in 1..n : i < k /\ ReadOf(i) = ReadOf(k) => reads'[i] <= reads'[k]
    <3>1. ASSUME NEW i \in 1..n, NEW k \in 1..n, i < k, ReadOf(i) = ReadOf(k) PROVE reads'[i] <= reads'[k]
      <4>1. i \in 1..Len(reads)
        BY <1>0, <3>1
      <4>2. CASE k = n
        BY <2>2, <2>7, <3>1, <4>2
      <4>3. CASE k \in 1..Len(reads)
        BY <2>2, <3>1, <4>1, <4>3 DEF SummaryBounds
      <4> QED
        BY <2>3, <4>2, <4>3
    <3> QED
      BY <3>1
  <2>12. ASSUME NEW i \in {2, 4, 6}, n >= i
         PROVE  sent["success"] + sent["failure"] - (reads'[i - 1] + reads'[i]) <= QueueCap + 1
    <3>1. CASE n = i
      <4>1. Len(reads) = i - 1 /\ Len(reads) % 2 = 1 /\ ReadOf(i) = "failure" /\ i - 1 \in 1..Len(reads)
        <5>1. Len(reads) = i - 1 /\ i - 1 \in 1..Len(reads)
          BY <1>0, <3>1
        <5>2. (i - 1) % 2 = 1 /\ i % 2 # 1
          OBVIOUS
        <5> QED
          BY <5>1, <5>2 DEF ReadOf
      <4>2. reads'[i - 1] = reads[Len(reads)] /\ reads'[i] = counted["failure"]
        BY <2>2, <3>1, <4>1
      <4> QED
        BY <4>1, <4>2 DEF ReadsBehind
    <3>2. CASE n > i
      <4>1. Len(reads) >= i /\ i - 1 \in 1..Len(reads) /\ i \in 1..Len(reads)
        BY <1>0, <3>2
      <4> QED
        BY <2>2, <4>1 DEF SummaryBounds
    <3> QED
      BY <1>0, <2>12, <3>1, <3>2
  <2> HIDE DEF n, c
  <2>13. ReadsBehind'
    BY <2>1, <2>2, <2>6, <2>7, <2>9 DEF ReadsBehind
  <2>14. SummaryBounds'
    BY <2>1, <2>2, <2>10, <2>11, <2>12 DEF SummaryBounds
  <2> QED
    BY <2>13, <2>14
<1>2. CASE CountStatus
  <2>1. shold \in Status /\ counted' = [counted EXCEPT ![shold] = @ + 1] /\ UNCHANGED <<reads, sent, mainPC>>
    BY <1>2 DEF CountStatus, mainVars, TypeOK, TypeCounter
  <2>2. \A s \in Status : counted[s] \in Nat /\ counted'[s] \in Nat /\ counted[s] <= counted'[s] /\ sent[s] \in Nat
    BY <1>0, <2>1
  <2>3. \A i \in 1..Len(reads) : reads[i] \in Nat
    BY <1>0
  <2>4. Returned' <=> Returned
    BY <2>1 DEF Returned
  <2>5. ASSUME NEW i \in 1..Len(reads) PROVE reads[i] <= counted'[ReadOf(i)]
    <3>1. reads[i] <= counted[ReadOf(i)] /\ ReadOf(i) \in Status
      BY <1>0 DEF ReadsBehind
    <3> QED
      BY <2>2, <2>3, <3>1
  <2>6. Len(reads) % 2 = 1 => sent["success"] + sent["failure"] - (reads[Len(reads)] + counted'["failure"]) <= QueueCap + 1
    <3>1. 0 % 2 = 0
      OBVIOUS
    <3>2. ASSUME Len(reads) % 2 = 1 PROVE reads[Len(reads)] \in Nat
      <4>1. Len(reads) # 0
        BY <3>1, <3>2
      <4>2. Len(reads) \in 1..Len(reads)
        BY <1>0, <4>1
      <4> QED
        BY <2>3, <4>2
    <3>3. counted["failure"] \in Nat /\ counted'["failure"] \in Nat /\ counted["failure"] <= counted'["failure"]
          /\ sent["success"] \in Nat /\ sent["failure"] \in Nat
      BY <1>0, <2>2
    <3>4. Len(reads) % 2 = 1 =>
            sent["success"] + sent["failure"] - (reads[Len(reads)] + counted["failure"]) <= QueueCap + 1
      BY DEF ReadsBehind
    <3> QED
      BY SMTT(40), <1>0, <3>2, <3>3, <3>4
  <2> QED
    BY <2>1, <2>4, <2>5, <2>6 DEF ReadsBehind, SummaryBounds
<1>3. ASSUME NEW w \in Workers, SendStatus(w) PROVE ReadsBehind' /\ SummaryBounds'
  <2>1. reads = <<>> /\ reads' = reads
    BY <1>3, AllDone DEF SendStatus, ReadsBehind
  <2> QED
    BY <2>1 DEF ReadsBehind, SummaryBounds
<1>4. CASE UNCHANGED <<reads, counted, sent>> /\ (Returned => Returned')
  BY <1>4 DEF ReadsBehind, SummaryBounds
<1> QED
  BY <1>1, <1>2, <1>3, <1>4
     DEF Next, vars, statVars, mainVars, Returned, Main, Worker, Encoder, Counter, DecodeCsv, DecodeDomain,
         DecodeFault, Enqueue, CloseProcessQueue, JoinWorkers, JoinOutput,
         Exit, Receive, Grab, GrabPanic, HandleNil, MarshalOk,
         MarshalError, SendOutput, WorkerFinish, ReceiveOutput, WriteRecord,
         WriteNewline, WriteError, OutputFinish, ReceiveStatus, MetricsServerError, Terminated

LEMMA TallyInit == Init => Tally /\ SummaryBounds
<1> SUFFICES ASSUME Init PROVE Tally /\ SummaryBounds
  OBVIOUS
<1>1. StatusesPlaced
  BY HitsEmpty DEF Init, StatusesPlaced, One, Status
<1>2. RunsReported
  <2>1. \A s \in Status : Reporting(s) = {} /\ dropped \cap Ended(s) = {}
    BY DEF Init, Reporting
  <2> QED
    BY <2>1, HitsEmpty, FS_EmptySet DEF Init, RunsReported, One
<1>3. ReadsBehind /\ SummaryBounds
  BY DEF Init, ReadsBehind, SummaryBounds
<1> QED
  BY <1>1, <1>2, <1>3 DEF Tally

LEMMA TallyNext ==
  TypeOK /\ ChannelProtocol /\ Lineage /\ Tally /\ SummaryBounds /\ [Next]_vars => Tally' /\ SummaryBounds'
  BY StatusesPlacedNext, RunsReportedNext, ReadsBehindNext DEF Tally

\* When Process has returned no record is on its way, so the statuses are those of the file
\* and of what was dropped.
LEMMA TallyIsFinal == TypeOK /\ ChannelProtocol /\ Tally => StatusPerRun
<1> SUFFICES ASSUME TypeOK, ChannelProtocol, Tally, Returned, NEW s \in Status
             PROVE  sent[s] = Cardinality({i \in 1..Len(file) : file[i].res = s})
                              + Cardinality({r \in dropped : r.res = s})
  BY DEF StatusPerRun
<1>1. opc = "done" /\ outputQueue = <<>> /\ \A w \in Workers : wpc[w] = "done"
  BY AllDone DEF ChannelProtocol
<1>2. Reporting(s) = {} /\ Hits(outputQueue, Ended(s)) = 0
  BY <1>1, HitsEmpty DEF Reporting
<1>3. file \in Seq(Records) /\ dropped \subseteq Records /\ \A i \in 1..Len(file) : file[i] \in Records
  BY DEF TypeOK, TypeEncoder
<1>4. {i \in 1..Len(file) : file[i].res = s} = {i \in 1..Len(file) : file[i] \in Ended(s)}
  BY <1>3, EndedRes
<1>5. {r \in dropped : r.res = s} = dropped \cap Ended(s)
  BY <1>3, EndedRes
<1>6. sent[s] = Hits(file, Ended(s)) + Cardinality(dropped \cap Ended(s)) + 0 + One(opc = "write" /\ ohold.res = s) + Cardinality({})
  BY <1>2 DEF Tally, RunsReported
<1>7. Hits(file, Ended(s)) \in Nat /\ Cardinality(dropped \cap Ended(s)) \in Nat
  BY <1>3, HitsFinite, FS_Subset, FS_CardinalityType DEF Tally, RunsReported
<1>8. One(opc = "write" /\ ohold.res = s) = 0 /\ Cardinality({}) = 0
  BY <1>1, FS_EmptySet DEF One
<1>9. sent[s] = Hits(file, Ended(s)) + Cardinality(dropped \cap Ended(s))
  BY <1>6, <1>7, <1>8
<1> QED
  BY <1>4, <1>5, <1>9 DEF Hits

\* The statuses sent are those of the runs in the file and of those that were dropped, and
\* what main reports, reading counters that are still being incremented, is never ahead of
\* them, never goes down and is behind by no more than the channel holds and one: for every
\* number of workers and queue size (processing.go:60-87, main.go:370-376).
THEOREM CountsStaySound == Spec => []CountsSound
<1>1. Init => TypeOK /\ ChannelProtocol /\ Lineage /\ Tally /\ SummaryBounds
  BY TypeInit, ProtocolInit, LineageInit, TallyInit
<1>2. TypeOK /\ ChannelProtocol /\ Tally /\ SummaryBounds => CountsSound
  BY TallyIsFinal DEF CountsSound
<1> QED
  BY <1>1, <1>2, ProtocolInductive, LineageNext, TallyNext, PTL DEF Spec
=============================================================================
