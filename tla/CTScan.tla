------------------------------- MODULE CTScan -------------------------------
(***************************************************************************)
(* The scanner of a Certificate Transparency log (zct/scanner/scanner.go)  *)
(* and the client it fetches with (zct/client/logclient.go): the main      *)
(* goroutine cuts the log into ranges, fetchers ask for them and pass the  *)
(* entries to matchers, a ticker reports progress.  Beside it, one call of *)
(* the client that submits a chain and retries.                            *)
(*                                                                         *)
(* The log (external) answers a request with an error, with no entry, with *)
(* fewer entries than asked for, or with all of them.  Counters that the   *)
(* code increments without synchronisation are read and written in two     *)
(* steps.                                                                  *)
(***************************************************************************)
EXTENDS Integers, Sequences, FiniteSets, SequencesExt

CONSTANTS
  CTFetchers,    \* the fetchers (ParallelFetch of them)
  CTMatchers,    \* the matchers (a scenario says which run: NumWorkers)
  CTScenarios,   \* options, and what is in the log
  FetchesCap,    \* capacity of fetches (1000)
  JobsCap        \* capacity of jobs (100000)

ASSUME CTScanAssumption == FetchesCap \in Nat \ {0} /\ JobsCap \in Nat \ {0}

VARIABLES
  scan,      \* the scenario, with the faults that the log may still show
  mainpc,    \* the goroutine of Scan: where it is, the ranges not yet sent, its result
  fetches,   \* the channel of ranges: items, closed
  jobs,      \* the channel of entries: items, closed
  fetcher,   \* fetcher[f]: where it is, its range, the entries in hand
  matcher,   \* matcher[m]: where it is, its entry, the counters to increment, the value it has read
  count,     \* certsProcessed, precertsSeen, unparsableEntries, entriesWithNonFatalErrors
  ticker,    \* the progress goroutine: where it is, and the value it sends
  updates,   \* history: the values updater received
  seen,      \* history: how often each entry was processed
  found,     \* history: the entries handed to foundCert and foundPrecert
  add        \* addChainWithRetry: where it is, its backoff, what the log has stored

ctVars == <<scan, mainpc, fetches, jobs, fetcher, matcher, count, ticker, updates, seen, found, add>>

Smaller(a, b) == IF a < b THEN a ELSE b
Indices == 0..(scan.treeSize - 1)

-----------------------------------------------------------------------------
(* The client: logclient.go *)

\* fetchAndParse, for one request: the answers of a log that has faults left.
Replies(start, end) ==
  {SubSeq([i \in 1..(end - start + 1) |-> start + i - 1], 1, n) :
     n \in IF scan.faults > 0 THEN 0..(end - start + 1) ELSE {end - start + 1}}

\* GetEntries: an entry that does not decode fails the whole answer.
GetEntries(start, end) ==
  {e \in Replies(start, end) : \A i \in 1..Len(e) : scan.kind[e[i]] # "undecodable"}

-----------------------------------------------------------------------------
(* scanner.go: the main goroutine *)

stopIndex == IF scan.maximumIndex = 0 THEN scan.treeSize ELSE scan.maximumIndex

RangeEnd(start) == Smaller(start + scan.batchSize, stopIndex) - 1

\* GetSTH, and the start of the goroutines.
BeginScan ==
  /\ mainpc.pc = "start" /\ scan.runs
  /\ \/ /\ scan.faults > 0
        /\ scan' = [scan EXCEPT !.faults = @ - 1]
        /\ mainpc' = [mainpc EXCEPT !.pc = "failed"]
        /\ UNCHANGED <<fetcher, matcher, ticker>>
     \/ /\ mainpc' = [mainpc EXCEPT !.pc = "ranges", !.next = scan.startIndex]
        /\ fetcher' = [f \in CTFetchers |-> [fetcher[f] EXCEPT !.pc = "idle"]]
        /\ matcher' = [m \in CTMatchers |-> [matcher[m] EXCEPT !.pc = IF m \in scan.workers THEN "idle" ELSE "done"]]
        /\ ticker' = [ticker EXCEPT !.pc = "wait"]
        /\ UNCHANGED scan
  /\ UNCHANGED <<fetches, jobs, count, updates, seen, found, add>>

\* The ranges go to the fetchers, then fetches is closed.
SendRange ==
  /\ mainpc.pc = "ranges"
  /\ IF mainpc.next < stopIndex
       THEN /\ Len(fetches.items) < FetchesCap
            /\ fetches' = [fetches EXCEPT !.items = Append(@, [start |-> mainpc.next, end |-> RangeEnd(mainpc.next)])]
            /\ mainpc' = [mainpc EXCEPT !.next = RangeEnd(@) + 1]
       ELSE /\ fetches' = [fetches EXCEPT !.closed = TRUE]
            /\ mainpc' = [mainpc EXCEPT !.pc = "waitFetchers"]
  /\ UNCHANGED <<scan, jobs, fetcher, matcher, count, ticker, updates, seen, found, add>>

\* fetcherWG.Wait, and close(jobs).
FetchersDone == \A f \in CTFetchers : fetcher[f].pc = "done"

WaitFetchers ==
  /\ mainpc.pc = "waitFetchers" /\ FetchersDone
  /\ jobs' = [jobs EXCEPT !.closed = TRUE]
  /\ mainpc' = [mainpc EXCEPT !.pc = "waitMatchers"]
  /\ UNCHANGED <<scan, fetches, fetcher, matcher, count, ticker, updates, seen, found, add>>

\* matcherWG.Wait, ticker.Stop, and the result.
WaitMatchers ==
  /\ mainpc.pc = "waitMatchers" /\ \A m \in CTMatchers : matcher[m].pc = "done"
  /\ mainpc' = [mainpc EXCEPT !.pc = "returned", !.result = scan.startIndex + count.certs]
  /\ UNCHANGED <<scan, fetches, jobs, fetcher, matcher, count, ticker, updates, seen, found, add>>

-----------------------------------------------------------------------------
(* scanner.go: fetchers *)

TakeRange(f) ==
  /\ fetcher[f].pc = "idle"
  /\ \/ /\ fetches.items # <<>>
        /\ fetcher' = [fetcher EXCEPT ![f] = [pc |-> "fetch", r |-> Head(fetches.items), hand |-> <<>>]]
        /\ fetches' = [fetches EXCEPT !.items = Tail(@)]
     \/ /\ fetches.items = <<>> /\ fetches.closed
        /\ fetcher' = [fetcher EXCEPT ![f].pc = "done"]
        /\ UNCHANGED fetches
  /\ UNCHANGED <<scan, mainpc, jobs, matcher, count, ticker, updates, seen, found, add>>

\* A request.  An error, or an empty answer, is tried again, for ever if need be.
Fetch(f) ==
  /\ fetcher[f].pc = "fetch"
  /\ LET r == fetcher[f].r IN
     \/ /\ scan.faults > 0 /\ scan' = [scan EXCEPT !.faults = @ - 1]
        /\ UNCHANGED fetcher
     \/ \E e \in GetEntries(r.start, r.end) :
          /\ e # <<>>
          /\ fetcher' = [fetcher EXCEPT ![f].pc = "send", ![f].hand = e]
          /\ scan' = IF Len(e) = r.end - r.start + 1 THEN scan ELSE [scan EXCEPT !.faults = @ - 1]
  /\ UNCHANGED <<mainpc, fetches, jobs, matcher, count, ticker, updates, seen, found, add>>

\* The range is complete only when every entry of it came: "Logs MAY return fewer".
MutRangeDone(r) == r.start > 0
RangeDone(r) == r.start > r.end

SendJob(f) ==
  /\ fetcher[f].pc = "send" /\ Len(jobs.items) < JobsCap
  /\ jobs' = [jobs EXCEPT !.items = Append(@, Head(fetcher[f].hand))]
  /\ LET r == [fetcher[f].r EXCEPT !.start = @ + 1]
         rest == Tail(fetcher[f].hand) IN
     fetcher' = [fetcher EXCEPT ![f] = [pc |-> IF rest # <<>> THEN "send" ELSE IF RangeDone(r) THEN "idle" ELSE "fetch",
                                        r |-> r, hand |-> rest]]
  /\ UNCHANGED <<scan, mainpc, fetches, matcher, count, ticker, updates, seen, found, add>>

-----------------------------------------------------------------------------
(* scanner.go: matchers *)

TakeJob(m) ==
  /\ matcher[m].pc = "idle"
  /\ \/ /\ jobs.items # <<>>
        /\ matcher' = [matcher EXCEPT ![m].pc = "process", ![m].entry = Head(jobs.items)]
        /\ jobs' = [jobs EXCEPT !.items = Tail(@)]
     \/ /\ jobs.items = <<>> /\ jobs.closed
        /\ matcher' = [matcher EXCEPT ![m].pc = "done"]
        /\ UNCHANGED jobs
  /\ UNCHANGED <<scan, mainpc, fetches, fetcher, count, ticker, updates, seen, found, add>>

\* The counters that handleParseEntryError and processEntry increment for an entry, in their
\* order.  An odd certificate has errors that are not fatal.
Skipped(i) == scan.precertOnly /\ scan.kind[i] \in {"cert", "badCert", "oddCert"}
CountersOf(i) ==
  IF Skipped(i) THEN <<>>
  ELSE CASE scan.kind[i] \in {"badCert", "badPrecert"} -> <<"unparsable">>
         [] scan.kind[i] = "oddCert" -> <<"nonFatal">>
         [] scan.kind[i] = "precert" -> <<"precerts">>
         [] scan.kind[i] = "oddPrecert" -> <<"nonFatal", "precerts">>
         [] OTHER -> <<>>

\* The entries that are handed to foundCert or foundPrecert.
Wanted(i) ==
  /\ i \in scan.matches
  /\ ~Skipped(i) /\ scan.kind[i] \in {"precert", "oddPrecert", "cert", "oddCert"}

\* processEntry: certsProcessed is atomic; of the other counters one is read ...
NextPc(todo) == IF todo = <<>> THEN "idle" ELSE "read"
ProcessEntry(m) ==
  LET i == matcher[m].entry IN
  /\ matcher[m].pc = "process"
  /\ seen' = [seen EXCEPT ![i] = @ + 1]
  /\ found' = IF Wanted(i) THEN found \cup {i} ELSE found
  /\ count' = [count EXCEPT !.certs = @ + 1]
  /\ matcher' = [matcher EXCEPT ![m].pc = NextPc(CountersOf(i)), ![m].todo = CountersOf(i)]
  /\ UNCHANGED <<scan, mainpc, fetches, jobs, fetcher, ticker, updates, add>>
ReadCounter(m) ==
  /\ matcher[m].pc = "read"
  /\ matcher' = [matcher EXCEPT ![m].pc = "bump", ![m].value = count[Head(matcher[m].todo)]]
  /\ UNCHANGED <<scan, mainpc, fetches, jobs, fetcher, count, ticker, updates, seen, found, add>>

\* ... and written.
Bump(m) ==
  /\ matcher[m].pc = "bump"
  /\ count' = [count EXCEPT ![Head(matcher[m].todo)] = matcher[m].value + 1]
  /\ matcher' = [matcher EXCEPT ![m].pc = NextPc(Tail(matcher[m].todo)), ![m].todo = Tail(@), ![m].value = 0]
  /\ UNCHANGED <<scan, mainpc, fetches, jobs, fetcher, ticker, updates, seen, found, add>>

-----------------------------------------------------------------------------
(* scanner.go: progress *)

\* A tick; it sends the progress to updater, and ends when nothing is left.
TickerFires ==
  /\ ticker.pc = "wait" /\ ticker.left > 0 /\ mainpc.pc # "returned"
  /\ LET remaining == stopIndex - scan.startIndex - count.certs IN
     ticker' = [pc |-> "send", value |-> stopIndex - remaining, last |-> remaining = 0, left |-> ticker.left - 1]
  /\ UNCHANGED <<scan, mainpc, fetches, jobs, fetcher, matcher, count, updates, seen, found, add>>

\* The reader of updater (external) takes the value, unless it has stopped reading: then
\* the goroutine stays where it is for ever.
UpdaterReads ==
  /\ ticker.pc = "send" /\ scan.reads
  /\ updates' = Append(updates, ticker.value)
  /\ ticker' = [ticker EXCEPT !.pc = IF ticker.last THEN "gone" ELSE "wait"]
  /\ UNCHANGED <<scan, mainpc, fetches, jobs, fetcher, matcher, count, seen, found, add>>

-----------------------------------------------------------------------------
(* logclient.go: addChainWithRetry *)

\* backoffForRetry: the timer, or the context.
Backoff ==
  /\ add.pc = "backoff"
  /\ \/ add' = [add EXCEPT !.pc = "post", !.backoff = 0]
     \/ add.cancelled /\ add' = [add EXCEPT !.pc = "cancelled"]
  /\ UNCHANGED <<scan, mainpc, fetches, jobs, fetcher, matcher, count, ticker, updates, seen, found>>

CancelAdd ==
  /\ add.pc \in {"backoff", "post"} /\ add.context /\ ~add.cancelled
  /\ add' = [add EXCEPT !.cancelled = TRUE]
  /\ UNCHANGED <<scan, mainpc, fetches, jobs, fetcher, matcher, count, ticker, updates, seen, found>>

\* What an answer to the request leads to.  retryAfter is a number, or "none".
AfterPost(a, status, retryAfter) ==
  CASE status = "200" -> [a EXCEPT !.pc = "sct"]
    [] status = "error" -> [a EXCEPT !.pc = "backoff", !.backoff = 10]
    [] status = "408" -> [a EXCEPT !.pc = "backoff"]
    [] status = "503" -> [a EXCEPT !.pc = "backoff", !.backoff = IF retryAfter = "none" THEN 10 ELSE 1]
    [] OTHER -> [a EXCEPT !.pc = "failed"]

\* postAndParse: the log stores the chain when it answers 200, also with an identifier or
\* a signature that does not decode, and it may have stored it when the answer is lost.
Post(status, retryAfter) ==
  /\ add.pc = "post"
  /\ status # "200" => add.faults > 0
  /\ retryAfter # "none" => status = "503"
  /\ \E stored \in IF status \in {"200", "badAnswer"} THEN {TRUE} ELSE IF status = "error" THEN {TRUE, FALSE} ELSE {FALSE} :
       add' = [AfterPost(add, status, retryAfter) EXCEPT
                 !.stored = IF stored THEN @ + 1 ELSE @,
                 !.faults = IF status = "200" THEN @ ELSE @ - 1]
  /\ UNCHANGED <<scan, mainpc, fetches, jobs, fetcher, matcher, count, ticker, updates, seen, found>>

-----------------------------------------------------------------------------
CTInit ==
  /\ scan \in CTScenarios
  /\ mainpc = [pc |-> "start", next |-> 0, result |-> -1]
  /\ fetches = [items |-> <<>>, closed |-> FALSE] /\ jobs = [items |-> <<>>, closed |-> FALSE]
  /\ fetcher = [f \in CTFetchers |-> [pc |-> "off", r |-> [start |-> 0, end |-> 0], hand |-> <<>>]]
  /\ matcher = [m \in CTMatchers |-> [pc |-> "off", entry |-> 0, todo |-> <<>>, value |-> 0]]
  /\ count = [certs |-> 0, precerts |-> 0, unparsable |-> 0, nonFatal |-> 0]
  /\ ticker = [pc |-> "off", value |-> 0, last |-> FALSE, left |-> scan.ticks]
  /\ updates = <<>> /\ seen = [i \in Indices |-> 0] /\ found = {}
  /\ add = [pc |-> IF scan.adds THEN "backoff" ELSE "off", backoff |-> 0, stored |-> 0, faults |-> 2,
            context |-> scan.adds, cancelled |-> FALSE]

CTWorkers ==
  \/ \E f \in CTFetchers : TakeRange(f) \/ Fetch(f) \/ SendJob(f)
  \/ \E m \in CTMatchers : TakeJob(m) \/ ProcessEntry(m) \/ ReadCounter(m) \/ Bump(m)
CTMain == BeginScan \/ SendRange \/ WaitFetchers \/ WaitMatchers
CTAdd == Backoff \/ \E s \in {"200", "badAnswer", "408", "503", "400", "error"}, r \in {"none", "number"} : Post(s, r)

CTNext == CTMain \/ CTWorkers \/ TickerFires \/ UpdaterReads \/ CTAdd \/ CancelAdd

\* Some goroutine goes on while one can: every step brings the scan nearer to its end, but
\* for the fetches of an entry that cannot be decoded, which the property leaves out.
CTFairness == WF_ctVars(CTMain \/ CTWorkers \/ CTAdd)

-----------------------------------------------------------------------------
(* Properties *)

\* The state stays within its domains: a range never leaves the part of the log that is
\* scanned, the channels stay within their capacities.
CTTypeOK ==
  /\ Len(fetches.items) <= FetchesCap /\ Len(jobs.items) <= JobsCap
  /\ ToSet(jobs.items) \subseteq Indices
  /\ \A f \in CTFetchers : fetcher[f].pc # "off" => fetcher[f].r.end \in 0..(stopIndex - 1)
  /\ mainpc.pc \in {"start", "failed", "ranges", "waitFetchers", "waitMatchers", "returned"}

\* Whatever the log leaves out or fails, and however fetchers and matchers interleave, no
\* entry is processed twice, and when Scan returns every entry from StartIndex to the stop
\* index was processed, those that match were handed to the callbacks, and its result is
\* where the next scan has to begin.
EveryEntryOnce ==
  /\ \A i \in Indices : seen[i] <= 1
  /\ mainpc.pc = "returned" =>
       LET part == scan.startIndex..(stopIndex - 1) IN
       /\ \A i \in Indices : seen[i] = IF i \in part THEN 1 ELSE 0
       /\ found = {i \in part : Wanted(i)}
       /\ mainpc.result = IF part = {} THEN scan.startIndex ELSE stopIndex

\* Nobody sends on jobs after it is closed, which would panic: it is closed when the
\* fetchers are done.
NoSendOnClosedJobs == [][jobs.closed => Len(jobs'.items) <= Len(jobs.items)]_ctVars

\* The counters of the report never exceed what was processed, and are exact with one
\* matcher; with several, updates of precertsSeen, unparsableEntries and
\* entriesWithNonFatalErrors can be lost.
CountersBounded ==
  LET total(c) == Cardinality({i \in Indices : seen[i] = 1 /\ c \in ToSet(CountersOf(i))}) IN
  \A c \in {"precerts", "unparsable", "nonFatal"} :
    /\ count[c] <= total(c)
    /\ Cardinality(scan.workers) = 1 /\ mainpc.pc = "returned" => count[c] = total(c)

\* The progress that is reported never goes back and never passes the stop index.
ProgressHonest ==
  \A i \in 1..Len(updates) : updates[i] <= stopIndex /\ (i > 1 => updates[i - 1] <= updates[i])

\* A signed timestamp is returned only for a chain the log stored, however often the
\* submission was repeated before (addChainWithRetry keeps one response for all tries).
SubmissionTold == add.pc = "sct" => add.stored > 0

\* Scan returns when every entry of the log decodes; a submission ends.  (A behaviour has
\* one or the other.)
ScanReturns ==
  (\/ mainpc.pc = "ranges" /\ \A i \in Indices : scan.kind[i] # "undecodable"
   \/ add.pc = "post")
  ~> mainpc.pc = "returned" \/ add.pc \in {"sct", "failed", "cancelled"}
=============================================================================
