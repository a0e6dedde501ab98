--------------------------- MODULE MCHttpTransport ---------------------------
(* HttpTransport for TLC. *)
EXTENDS HttpTransport

CONSTANTS k1, k2

Get == [key |-> k1, body |-> FALSE, replayable |-> TRUE, resBody |-> FALSE, reads |-> "all"]
Post == [Get EXCEPT !.body = TRUE, !.replayable = FALSE, !.resBody = TRUE]
Command == [Get EXCEPT !.replayable = FALSE]
Page == [Get EXCEPT !.resBody = TRUE]
Quiet == [keep |-> TRUE, cancel |-> {}, cancelCall |-> {}, timer |-> FALSE, header |-> FALSE,
          srvClose |-> FALSE, dialFails |-> FALSE, closeIdle |-> FALSE, early |-> FALSE, silent |-> FALSE,
          after |-> [c \in Calls |-> {}]]
With(m, f) == [req |-> f] @@ m
Two(a, b) == ("a" :> a) @@ ("b" :> b)
InTurn(m) == [m EXCEPT !.after = "a" :> {} @@ "b" :> {"a"}]

MCScripts ==
  {InTurn(With([Quiet EXCEPT !.srvClose = TRUE, !.early = r.body], Two(q, r))) :
     q \in {Get, Page}, r \in {Command, Post, Page}}
    \cup {With([Quiet EXCEPT !.srvClose = TRUE], Two(Get, Command))}
    \cup {With([Quiet EXCEPT !.cancel = {"a"}, !.silent = x], Two(q, Page)) : x \in BOOLEAN, q \in {Get, Post}}
    \cup {With([Quiet EXCEPT !.cancelCall = {"a"}, !.dialFails = TRUE], Two(Get, Get))}
    \cup {With([Quiet EXCEPT !.early = TRUE, !.header = TRUE], Two(Post, Get))}
    \cup {With([Quiet EXCEPT !.timer = TRUE, !.closeIdle = TRUE], Two([Page EXCEPT !.reads = "some"], Get))}
    \cup {With([Quiet EXCEPT !.keep = FALSE], Two(Get, Page))}
    \cup {With([Quiet EXCEPT !.timer = TRUE], Two(Get, [Get EXCEPT !.key = k2]))}
=============================================================================
