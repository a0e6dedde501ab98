----------------------------- MODULE HttpClient -----------------------------
(***************************************************************************)
(* http/client.go: Client.Do, its hops, and the goroutine that watches the *)
(* deadline of each (setRequestCancel).                                    *)
(*                                                                         *)
(* The RoundTripper is external: it returns a response or an error at any  *)
(* time, and must return once the request's Cancel channel is closed.  A   *)
(* URL is its host and scheme; of the headers the credentials, the cookies *)
(* that the caller set by hand and the referer are kept.                   *)
(***************************************************************************)
EXTENDS Integers, Sequences, FiniteSets, SequencesExt

CONSTANTS
  ClientCases,    \* what is asked for, and the responses that servers give
  Below,          \* pairs of hosts <<s, p>>: s is a subdomain of p
  MaxVia          \* defaultCheckRedirect's limit

ASSUME ClientAssumption == MaxVia \in Nat \ {0}

VARIABLES
  ccase,   \* the case of this behaviour
  hops,    \* the requests sent so far
  cdo,     \* Do: where it is, the response, its error, the state of the body
  icookies,\* the copier's cookies of the first request
  watch,   \* the watcher of each hop that has a deadline
  outside  \* what happened: the deadline passed, the user closed his Cancel channel

clientVars == <<ccase, hops, cdo, icookies, watch, outside>>

NoReply == [status |-> 0, location |-> "missing", url |-> [host |-> "none", https |-> FALSE], sets |-> {}]
Now == Len(hops)
Watcher0 == [pc |-> "select", timedOut |-> FALSE, cancel |-> FALSE, stop |-> FALSE, initial |-> "user"]

-----------------------------------------------------------------------------
(* Pure parts *)

isDomainOrSubdomain(sub, parent) == sub = parent \/ <<sub, parent>> \in Below

\* Of the headers that carry credentials; the others always are.
shouldCopyHeaderOnRedirect(previous, dest) == isDomainOrSubdomain(dest.host, previous.host)

\* refererForURL: whether the last URL is told to the next.
refererForURL(last, new) == ~(last.https /\ ~new.https)

\* redirectBehavior: the method, whether to follow and whether the body goes along.
\* (A body that can be had "once" has no GetBody.)
redirectBehavior(method, reply) ==
  [method |-> IF reply.status \in {301, 302, 303} /\ method \notin {"GET", "HEAD"} THEN "GET" ELSE method,
   follow |-> \/ reply.status \in {301, 302, 303}
              \/ reply.status \in {307, 308} /\ reply.location # "missing" /\ ccase.body # "once",
   body |-> reply.status \in {307, 308}]

\* What the copier of makeHeadersCopier forgets: a cookie that the server has set since.
Forgotten(reply) == IF ccase.jar THEN reply.sets ELSE {}

\* The next request, from the response to the last one.
NextHop(reply) ==
  LET last == hops[Now]
      b == redirectBehavior(last.method, reply)
      trusted == shouldCopyHeaderOnRedirect(last.url, reply.url) IN
  [method |-> b.method, url |-> reply.url, body |-> b.body /\ ccase.body = "replayable",
   cookies |-> IF trusted THEN icookies \ Forgotten(reply) ELSE {}, auth |-> trusted /\ ccase.auth,
   referer |-> refererForURL(last.url, reply.url), by |-> reply.status, sets |-> reply.sets]

-----------------------------------------------------------------------------
(* setRequestCancel: the watcher of a hop *)

\* send clones the request before its Cancel field is set, so that every hop gets the
\* channel of the caller.
MutInitialCancel == IF Now = 1 THEN "user" ELSE "first"
InitialCancel == "user"
InitialClosed(w) == IF w.initial = "user" THEN outside.cancelled ELSE watch[1].cancel
HopCancelled == IF ccase.timed THEN watch[Now].cancel ELSE outside.cancelled
Stopped(ws) == IF ccase.timed THEN [ws EXCEPT ![Now].stop = TRUE] ELSE ws
DidTimeout == ccase.timed /\ watch[Now].timedOut

WatchCancel(h) ==
  /\ watch[h].pc = "select" /\ InitialClosed(watch[h])
  /\ watch' = [watch EXCEPT ![h].cancel = TRUE, ![h].pc = "ended"]
  /\ UNCHANGED <<ccase, hops, cdo, icookies, outside>>
\* The timer: first the mark, then the channel.
WatchTimer(h) ==
  /\ watch[h].pc = "select" /\ outside.expired
  /\ watch' = [watch EXCEPT ![h].timedOut = TRUE, ![h].pc = "fired"]
  /\ UNCHANGED <<ccase, hops, cdo, icookies, outside>>
WatchDoCancel(h) ==
  /\ watch[h].pc = "fired"
  /\ watch' = [watch EXCEPT ![h].timedOut = TRUE, ![h].cancel = TRUE, ![h].pc = "ended"]
  /\ UNCHANGED <<ccase, hops, cdo, icookies, outside>>
WatchStop(h) ==
  /\ watch[h].pc = "select" /\ watch[h].stop
  /\ watch' = [watch EXCEPT ![h].pc = "ended"]
  /\ UNCHANGED <<ccase, hops, cdo, icookies, outside>>

-----------------------------------------------------------------------------
(* Do *)

SendHop ==
  /\ cdo.pc = "send"
  /\ cdo' = [cdo EXCEPT !.pc = "trip"]
  /\ watch' = IF ccase.timed THEN Append(watch, [Watcher0 EXCEPT !.initial = InitialCancel]) ELSE watch
  /\ UNCHANGED <<ccase, hops, icookies, outside>>

\* RoundTrip returns (external).
TripReplies(reply) ==
  /\ cdo.pc = "trip"
  /\ cdo' = [cdo EXCEPT !.pc = "judge", !.reply = reply, !.body = "open"]
  /\ UNCHANGED <<ccase, hops, icookies, watch, outside>>
TripFails(e) ==
  /\ cdo.pc = "trip" /\ (e = "canceled" => HopCancelled)
  /\ cdo' = [cdo EXCEPT !.pc = "classify", !.err = e]
  /\ watch' = Stopped(watch)
  /\ UNCHANGED <<ccase, hops, icookies, outside>>
Classify ==
  /\ cdo.pc = "classify"
  /\ cdo' = [cdo EXCEPT !.pc = "returned", !.timeout = DidTimeout]
  /\ UNCHANGED <<ccase, hops, icookies, watch, outside>>

Judge ==
  /\ cdo.pc = "judge"
  /\ cdo' = [cdo EXCEPT !.pc = IF redirectBehavior(hops[Now].method, cdo.reply).follow THEN "redirect" ELSE "returned"]
  /\ UNCHANGED <<ccase, hops, icookies, watch, outside>>

\* A redirect without a Location that can be used is an error, and its body stays open.
NoLocation ==
  /\ cdo.pc = "redirect" /\ cdo.reply.location # "url"
  /\ cdo' = [cdo EXCEPT !.pc = "returned", !.err = "location", !.body = "lost"]
  /\ UNCHANGED <<ccase, hops, icookies, watch, outside>>
\* GetBody, for a 307 or 308, may fail: the same.
NeedsBody == redirectBehavior(hops[Now].method, cdo.reply).body /\ ccase.body = "failing"
GetBodyFails ==
  /\ cdo.pc = "redirect" /\ cdo.reply.location = "url" /\ NeedsBody
  /\ cdo' = [cdo EXCEPT !.pc = "returned", !.err = "getBody", !.body = "lost"]
  /\ UNCHANGED <<ccase, hops, icookies, watch, outside>>
\* checkRedirect: the last response as it is, an error with the body closed, or go on.
UseLast ==
  /\ cdo.pc = "redirect" /\ cdo.reply.location = "url" /\ ~NeedsBody /\ ccase.useLast
  /\ cdo' = [cdo EXCEPT !.pc = "returned"]
  /\ icookies' = icookies \ Forgotten(cdo.reply)
  /\ UNCHANGED <<ccase, hops, watch, outside>>
checkRedirect ==
  /\ cdo.pc = "redirect" /\ cdo.reply.location = "url" /\ ~NeedsBody /\ ~ccase.useLast
  /\ cdo' = [cdo EXCEPT !.pc = "slurp"]
  /\ icookies' = icookies \ Forgotten(cdo.reply)
  /\ UNCHANGED <<ccase, hops, watch, outside>>
\* The old body is read to its end, if it is short, and may keep Do waiting; a cancel or the
\* deadline ends the read.
SlurpDone ==
  /\ cdo.pc = "slurp"
  /\ cdo' = [cdo EXCEPT !.pc = "next"]
  /\ UNCHANGED <<ccase, hops, icookies, watch, outside>>
SlurpCanceled == cdo.pc = "slurp" /\ HopCancelled /\ SlurpDone
TooMany == Now >= MaxVia
FollowHop ==
  /\ cdo.pc = "next"
  /\ watch' = Stopped(watch)
  /\ IF TooMany
     THEN cdo' = [cdo EXCEPT !.pc = "returned", !.err = "tooMany", !.body = "closed"] /\ UNCHANGED hops
     ELSE /\ cdo' = [cdo EXCEPT !.pc = "send", !.body = "none"]
          /\ hops' = Append(hops, NextHop(cdo.reply))
  /\ UNCHANGED <<ccase, icookies, outside>>

-----------------------------------------------------------------------------
(* cancelTimerBody, in the hands of the caller *)

Readable == cdo.pc = "returned" /\ cdo.body = "open"
BodyEnds ==
  /\ Readable
  /\ cdo' = [cdo EXCEPT !.body = "ended"] /\ watch' = Stopped(watch)
  /\ UNCHANGED <<ccase, hops, icookies, outside>>
BodyFails(e) ==
  /\ Readable /\ cdo.err = "nil" /\ (e = "canceled" => HopCancelled)
  /\ cdo' = [cdo EXCEPT !.err = e, !.timeout = DidTimeout, !.body = "failed"]
  /\ watch' = Stopped(watch)
  /\ UNCHANGED <<ccase, hops, icookies, outside>>
BodyClose ==
  /\ Readable
  /\ cdo' = [cdo EXCEPT !.body = "closed"] /\ watch' = Stopped(watch)
  /\ UNCHANGED <<ccase, hops, icookies, outside>>

-----------------------------------------------------------------------------
DeadlinePasses ==
  /\ ccase.timed /\ ~outside.expired
  /\ outside' = [outside EXCEPT !.expired = TRUE]
  /\ UNCHANGED <<ccase, hops, cdo, icookies, watch>>
UserCancels ==
  /\ ccase.cancels /\ ~outside.cancelled
  /\ outside' = [outside EXCEPT !.cancelled = TRUE]
  /\ UNCHANGED <<ccase, hops, cdo, icookies, watch>>

ClientInit ==
  /\ ccase \in ClientCases
  /\ hops = <<[method |-> ccase.method, url |-> ccase.url, body |-> ccase.body # "none", cookies |-> ccase.cookies,
               auth |-> ccase.auth, referer |-> FALSE, by |-> 0, sets |-> {}]>>
  /\ cdo = [pc |-> IF ccase.runs THEN "send" ELSE "rest", reply |-> NoReply, err |-> "nil", timeout |-> FALSE, body |-> "none"]
  /\ icookies = ccase.cookies
  /\ watch = <<>>
  /\ outside = [expired |-> FALSE, cancelled |-> FALSE]

ClientStep ==
  \/ SendHop \/ TripFails("canceled") \/ Classify \/ Judge \/ NoLocation \/ GetBodyFails
  \/ UseLast \/ checkRedirect \/ SlurpCanceled \/ FollowHop
  \/ \E h \in 1..Len(watch) : WatchCancel(h) \/ WatchTimer(h) \/ WatchDoCancel(h) \/ WatchStop(h)
ClientNext ==
  \/ ClientStep
  \/ (\E reply \in ccase.replies : TripReplies(reply)) \/ TripFails("network") \/ SlurpDone
  \/ BodyEnds \/ (\E e \in {"network", "canceled"} : BodyFails(e)) \/ BodyClose
  \/ DeadlinePasses \/ UserCancels

\* Do and its watchers go on; the server, the caller and the clock owe nothing.
ClientFairness == WF_clientVars(ClientStep)

-----------------------------------------------------------------------------
(* Properties *)

\* Shapes; one watcher for each hop that was sent, if there is a deadline.
ClientTypeOK ==
  /\ Len(hops) \in 1..MaxVia
  /\ Len(watch) \in (IF ccase.timed THEN {Now, Now - 1} ELSE {0})
  /\ cdo.body \in {"none", "open", "ended", "failed", "closed", "lost"}
  /\ icookies \subseteq ccase.cookies

\* An error that the deadline caused is reported as a timeout, by Do and by the body; and
\* an error is reported as one only after the deadline (setRequestCancel, didTimeout).
TimeoutTold ==
  /\ cdo.pc = "returned" /\ cdo.err = "canceled" /\ ~outside.cancelled => cdo.timeout
  /\ cdo.timeout => outside.expired

\* The deadline and the channel of the caller reach every hop: once one has happened Do
\* comes back, also from a later hop.
CancelReaches == outside.cancelled \/ outside.expired ~> cdo.pc \in {"returned", "rest"}

\* No watcher is left behind when the caller is done with the response: it ended, failed,
\* was closed or never came.  (A redirect without a Location that can be used,
\* or whose GetBody fails, leaves the body open and a watcher to its deadline.)
WatchersEnd ==
  (cdo.pc = "returned" /\ cdo.body \in {"none", "ended", "failed", "closed"}) ~>
    (\A h \in 1..Len(watch) : watch[h].pc = "ended")

\* A cookie set by hand is not sent again once a server has set it (with a Jar, which has
\* the new value): not on this hop and not on a later one (makeHeadersCopier).
ReplacedCookies ==
  ccase.jar => \A i, j \in 1..Now : i <= j => hops[j].cookies \cap hops[i].sets = {}

\* A 307 or 308 repeats the request: its method, and its body if it had one, whole.
RepeatsRequest ==
  \A i \in 2..Now : hops[i].by \in {307, 308} =>
    /\ hops[i].method = hops[i - 1].method
    /\ hops[1].body => hops[i].body
=============================================================================
