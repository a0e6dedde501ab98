------------------------------ MODULE Persist ------------------------------
(***************************************************************************)
(* httputil/persist.go: a ClientConn and a ServerConn at the two ends of a *)
(* connection, used from several goroutines.  Client goroutine c sends     *)
(* request c with Do; a goroutine of the server reads requests, and each   *)
(* is answered by a goroutine of its own.                                  *)
(*                                                                         *)
(* textproto.Pipeline (external) gives out numbers and lets the calls      *)
(* through in their order, once for the requests and once for the          *)
(* responses.  A message is its head and, if it has one, its body.         *)
(***************************************************************************)
EXTENDS Integers, Sequences, FiniteSets, SequencesExt

CONSTANTS
  PClients,         \* the client's goroutines, 1..n; each has one request
  PersistScripts    \* per request: bodies, Connection: close; who closes when

ASSUME PersistAssumption == IsFiniteSet(PClients) /\ PClients # {} /\ PClients = 1..Cardinality(PClients)

VARIABLES
  pscript,   \* what this behaviour exercises
  link,      \* the connection: the bytes each way, whether it is up
  pconn,     \* pconn[side]: the fields of ClientConn and ServerConn
  pcall      \* pcall[p]: where a goroutine is, its pipeline number, its error, the last body, what it read

persistVars == <<pscript, link, pconn, pcall>>

NoMessage == [req |-> 0, part |-> "none"]
ReqReader == 0                                          \* the server's reading goroutine
Responder(r) == Cardinality(PClients) + r                 \* the goroutine that answers r
PProcs == {ReqReader} \cup PClients \cup {Responder(r) : r \in PClients}
Responders == PProcs \ (PClients \cup {ReqReader})
RequestOf(p) == IF p \in PClients THEN p ELSE p - Cardinality(PClients)
SideOf(p) == IF p \in PClients THEN "client" ELSE "server"
PAt(p, pc) == pcall[p].pc = pc
PGoto(p, pc) == pcall' = [pcall EXCEPT ![p].pc = pc]
PMessage(r, body) == <<[req |-> r, part |-> "head"]>> \o (IF body THEN <<[req |-> r, part |-> "body"]>> ELSE <<>>)

-----------------------------------------------------------------------------
(* textproto.Pipeline (external) *)

NextId(p) ==
  /\ PAt(p, "idle")
  /\ pcall' = [pcall EXCEPT ![p].id = pconn[SideOf(p)].next, ![p].pc = "startRequest"]
  /\ pconn' = [pconn EXCEPT ![SideOf(p)].next = @ + 1]
  /\ UNCHANGED <<pscript, link>>
PipeStartRequest(p) ==
  /\ PAt(p, "startRequest") /\ pconn[SideOf(p)].requests = pcall[p].id
  /\ PGoto(p, "check") /\ UNCHANGED <<pscript, link, pconn>>

\* Read of the client and Write of the server: the number of the request, which is forgotten.
Lookup(p) ==
  /\ PAt(p, "lookup")
  /\ IF RequestOf(p) \in pconn[SideOf(p)].pipereq
     THEN pconn' = [pconn EXCEPT ![SideOf(p)].pipereq = @ \ {RequestOf(p)}] /\ PGoto(p, "startResponse")
     ELSE pcall' = [pcall EXCEPT ![p].err = "errPipeline", ![p].pc = "done"] /\ UNCHANGED pconn
  /\ UNCHANGED <<pscript, link>>

MayRespond(p) == pconn[SideOf(p)].responses = pcall[p].id
PipeStartResponse(p) ==
  /\ PAt(p, "startResponse") /\ MayRespond(p)
  /\ PGoto(p, "checkAnswer") /\ UNCHANGED <<pscript, link, pconn>>
EndResponse(p) ==
  /\ PAt(p, "endResponse")
  /\ pconn' = [pconn EXCEPT ![SideOf(p)].responses = @ + 1]
  /\ PGoto(p, "done") /\ UNCHANGED <<pscript, link>>

\* A deferred StartResponse and EndResponse for a call that has no response.
PassTurn(p) ==
  /\ PAt(p, "passTurn") /\ MayRespond(p)
  /\ pconn' = [pconn EXCEPT ![SideOf(p)].responses = @ + 1]
  /\ PGoto(p, "done") /\ UNCHANGED <<pscript, link>>

Remembered(numbers, r) == numbers \cup {r}

-----------------------------------------------------------------------------
(* ClientConn.Write *)

\* Its early returns leave err nil, so that the deferred function keeps the number.
ClientCheck(p) ==
  LET C == pconn["client"]
      e == IF C.re # "nil" THEN C.re ELSE IF C.we # "nil" THEN C.we ELSE IF ~C.open THEN "errClosed" ELSE "nil" IN
  /\ p \in PClients /\ PAt(p, "check")
  /\ pcall' = [pcall EXCEPT ![p].err = e, ![p].pc = IF e = "nil" THEN "io" ELSE "endRefused"]
  /\ pconn' = IF e = "nil" /\ pscript.reqClose = p THEN [pconn EXCEPT !["client"].we = "persistEOF"] ELSE pconn
  /\ UNCHANGED <<pscript, link>>
ClientWrite(p) ==
  /\ p \in PClients /\ PAt(p, "io")
  /\ IF link.up
     THEN /\ link' = [link EXCEPT !.req = @ \o PMessage(p, p \in pscript.reqBody)]
          /\ PGoto(p, "count")
     ELSE /\ pcall' = [pcall EXCEPT ![p].err = "ioError", ![p].pc = "count"] /\ UNCHANGED link
  /\ UNCHANGED <<pscript, pconn>>
ClientCount(p) ==
  /\ p \in PClients /\ PAt(p, "count")
  /\ pconn' = IF pcall[p].err = "nil" THEN [pconn EXCEPT !["client"].nwritten = @ + 1]
              ELSE [pconn EXCEPT !["client"].we = pcall[p].err]
  /\ PGoto(p, "endRequest") /\ UNCHANGED <<pscript, link>>
\* Do returns the error of Write.
ClientEndRequest(p) ==
  LET failed == PAt(p, "endRequest") /\ pcall[p].err # "nil" IN
  /\ p \in PClients /\ (PAt(p, "endRequest") \/ PAt(p, "endRefused"))
  /\ pconn' = [pconn EXCEPT !["client"].requests = @ + 1,
                            !["client"].pipereq = IF failed THEN @ ELSE Remembered(@, p)]
  /\ PGoto(p, IF failed THEN "passTurn" ELSE IF pcall[p].err = "nil" THEN "lookup" ELSE "done")
  /\ UNCHANGED <<pscript, link>>

-----------------------------------------------------------------------------
(* Read of both sides: the rest of the last body, the next message *)

\* lastbody.Close, after the lock is given back: the body that nobody read is skipped.
Slurp(bytes, lastbody) ==
  IF bytes # <<>> /\ Head(bytes) = [req |-> lastbody, part |-> "body"] THEN Tail(bytes) ELSE bytes

ClientCheckAnswer(p) ==
  LET C == pconn["client"]
      e == IF C.re # "nil" THEN C.re ELSE IF ~C.open THEN "errClosed" ELSE "nil" IN
  /\ p \in PClients /\ PAt(p, "checkAnswer")
  /\ pcall' = [pcall EXCEPT ![p].err = e, ![p].last = C.lastbody,
                            ![p].pc = IF e = "nil" THEN "read" ELSE "endResponse"]
  /\ pconn' = IF e = "nil" THEN [pconn EXCEPT !["client"].lastbody = 0] ELSE pconn
  /\ UNCHANGED <<pscript, link>>
\* lastbody.Close and ReadResponse, and what follows under the lock.  On a connection that
\* is down, what is not buffered cannot be read.
ClientRead(p) ==
  LET bytes == Slurp(link.resp, pcall[p].last) IN
  /\ p \in PClients /\ PAt(p, "read")
  /\ \/ /\ bytes # <<>>
        /\ link' = [link EXCEPT !.resp = Tail(bytes)]
        /\ pcall' = [pcall EXCEPT ![p].got = Head(bytes), ![p].pc = "endResponse"]
        /\ LET r == Head(bytes).req IN
           pconn' = [pconn EXCEPT !["client"].lastbody = IF r \in pscript.respBody THEN r ELSE 0,
                                  !["client"].nread = @ + 1,
                                  !["client"].re = IF pscript.respClose = r THEN "persistEOF" ELSE @]
     \/ /\ ~link.up
        /\ pcall' = [pcall EXCEPT ![p].err = "ioError", ![p].pc = "endResponse"]
        /\ pconn' = [pconn EXCEPT !["client"].re = "ioError"]
        /\ UNCHANGED link
  /\ UNCHANGED pscript

-----------------------------------------------------------------------------
(* ServerConn.Read *)

ServerCheck ==
  LET S == pconn["server"]
      e == IF S.we # "nil" THEN S.we ELSE IF S.re # "nil" THEN S.re ELSE IF ~S.open THEN "errClosed" ELSE "nil" IN
  /\ PAt(ReqReader, "check")
  /\ pcall' = [pcall EXCEPT ![ReqReader].err = e, ![ReqReader].last = S.lastbody,
                            ![ReqReader].pc = IF e = "nil" THEN "read" ELSE "endRequest"]
  /\ pconn' = IF e = "nil" THEN [pconn EXCEPT !["server"].lastbody = 0] ELSE pconn
  /\ UNCHANGED <<pscript, link>>
\* A connection that ends within a request ends gracefully.
ServerRead ==
  LET bytes == Slurp(link.req, pcall[ReqReader].last) IN
  /\ PAt(ReqReader, "read")
  /\ \/ /\ bytes # <<>>
        /\ link' = [link EXCEPT !.req = Tail(bytes)]
        /\ pcall' = [pcall EXCEPT ![ReqReader].got = Head(bytes), ![ReqReader].pc = "endRequest"]
        /\ LET r == Head(bytes).req IN
           pconn' = [pconn EXCEPT !["server"].lastbody = IF r \in pscript.reqBody THEN r ELSE 0,
                                  !["server"].nread = @ + 1,
                                  !["server"].re = IF pscript.reqClose = r THEN "persistEOF" ELSE @]
     \/ /\ ~link.up
        /\ \E e \in {"ioError", "persistEOF"} :
             /\ pcall' = [pcall EXCEPT ![ReqReader].err = e, ![ReqReader].pc = "endRequest"]
             /\ pconn' = [pconn EXCEPT !["server"].re = e]
        /\ UNCHANGED link
  /\ UNCHANGED pscript
\* EndRequest; without a request the number's turn to respond is passed on, which waits
\* for the responses before it.  With one, its handler has the number, and the goroutine
\* reads on until it is told to stop.
ServerEndRequest ==
  LET r == pcall[ReqReader].got.req
      id == pcall[ReqReader].id
      last == pconn["server"].re # "nil" IN
  /\ PAt(ReqReader, "endRequest")
  /\ IF r = 0
     THEN /\ pconn' = [pconn EXCEPT !["server"].requests = @ + 1]
          /\ PGoto(ReqReader, "passTurn")
     ELSE /\ pconn' = [pconn EXCEPT !["server"].requests = @ + 1, !["server"].pipereq = Remembered(@, r)]
          /\ pcall' = [pcall EXCEPT ![ReqReader].pc = IF last THEN "done" ELSE "idle", ![ReqReader].got = NoMessage,
                                    ![Responder(r)].pc = "lookup", ![Responder(r)].id = id]
  /\ UNCHANGED <<pscript, link>>

-----------------------------------------------------------------------------
(* ServerConn.Write *)

ServerCheckAnswer(p) ==
  LET S == pconn["server"]
      e == IF S.we # "nil" THEN S.we ELSE IF ~S.open THEN "errClosed"
           ELSE IF S.nread <= S.nwritten THEN "pipeCount" ELSE "nil" IN
  /\ p \in Responders /\ PAt(p, "checkAnswer")
  /\ pcall' = [pcall EXCEPT ![p].err = e, ![p].pc = IF e = "nil" THEN "io" ELSE "endResponse"]
  /\ pconn' = IF e = "nil" /\ pscript.respClose = RequestOf(p) THEN [pconn EXCEPT !["server"].re = "persistEOF"]
              ELSE pconn
  /\ UNCHANGED <<pscript, link>>
ServerWrite(p) ==
  /\ p \in Responders /\ PAt(p, "io")
  /\ IF link.up
     THEN /\ link' = [link EXCEPT !.resp = @ \o PMessage(RequestOf(p), RequestOf(p) \in pscript.respBody)]
          /\ PGoto(p, "count")
     ELSE /\ pcall' = [pcall EXCEPT ![p].err = "ioError", ![p].pc = "count"] /\ UNCHANGED link
  /\ UNCHANGED <<pscript, pconn>>
ServerCount(p) ==
  /\ p \in Responders /\ PAt(p, "count")
  /\ pconn' = IF pcall[p].err = "nil" THEN [pconn EXCEPT !["server"].nwritten = @ + 1]
              ELSE [pconn EXCEPT !["server"].we = pcall[p].err]
  /\ PGoto(p, "endResponse") /\ UNCHANGED <<pscript, link>>

-----------------------------------------------------------------------------
(* The rest *)

\* Hijack and Close: the connection is taken away under calls that are in progress.
PersistClose(s) ==
  /\ s \in pscript.closes /\ pconn[s].open
  /\ pconn' = [pconn EXCEPT ![s].open = FALSE]
  /\ link' = [link EXCEPT !.up = FALSE]
  /\ UNCHANGED <<pscript, pcall>>

\* The user reads a body, if it is there and still his.
UserReadsBody(s) ==
  LET q == IF s = "client" THEN link.resp ELSE link.req IN
  /\ pscript.reads /\ pconn[s].lastbody # 0 /\ q # <<>>
  /\ Head(q) = [req |-> pconn[s].lastbody, part |-> "body"]
  /\ link' = IF s = "client" THEN [link EXCEPT !.resp = Tail(q)] ELSE [link EXCEPT !.req = Tail(q)]
  /\ UNCHANGED <<pscript, pconn, pcall>>

-----------------------------------------------------------------------------
PersistInit ==
  /\ pscript \in PersistScripts
  /\ link = [req |-> <<>>, resp |-> <<>>, up |-> TRUE]
  /\ pconn = [s \in {"client", "server"} |->
               [open |-> TRUE, re |-> "nil", we |-> "nil", lastbody |-> 0, nread |-> 0, nwritten |-> 0,
                next |-> 0, requests |-> 0, responses |-> 0, pipereq |-> {}]]
  /\ pcall = [p \in PProcs |-> [pc |-> IF p \in Responders \/ ~pscript.runs THEN "off" ELSE "idle",
                                id |-> 0, err |-> "nil", last |-> 0, got |-> NoMessage]]

PersistStep ==
  \/ \E p \in PProcs :
       \/ NextId(p) \/ PipeStartRequest(p) \/ Lookup(p) \/ PipeStartResponse(p) \/ EndResponse(p) \/ PassTurn(p)
       \/ ClientCheck(p) \/ ClientWrite(p) \/ ClientCount(p) \/ ClientEndRequest(p)
       \/ ClientCheckAnswer(p) \/ ClientRead(p)
       \/ ServerCheckAnswer(p) \/ ServerWrite(p) \/ ServerCount(p)
  \/ ServerCheck \/ ServerRead \/ ServerEndRequest
PersistNext == PersistStep \/ \E s \in {"client", "server"} : PersistClose(s) \/ UserReadsBody(s)

-----------------------------------------------------------------------------
(* Properties *)

PersistErrors == {"nil", "ioError", "persistEOF", "errClosed", "errPipeline", "pipeCount"}
Messages == {NoMessage} \cup [req : PClients, part : {"head", "body"}]

\* Shapes; a call finds its request's number, and the server never counts a response too
\* many (the errors ErrPipeline and "persist server pipe count" do not happen to it).
PersistTypeOK ==
  /\ link.req \in Seq(Messages) /\ link.resp \in Seq(Messages)
  /\ \A p \in PProcs : pcall[p].err \in PersistErrors \ {"errPipeline", "pipeCount"} /\ pcall[p].got \in Messages
  /\ \A s \in {"client", "server"} :
       pconn[s].responses <= pconn[s].next /\ pconn[s].requests <= pconn[s].next /\ pconn[s].pipereq \subseteq PClients

\* What Do returns is the response to its own request, although several goroutines share
\* the connection and the server answers from several (ClientConn.Read, ServerConn.Write).
ResponsesPair == \A c \in PClients : pcall[c].got.req \in {0, c}

\* What Read parses is the head of a message: the rest of a body that its user left
\* unread is not taken for one.
MessagesFound == \A p \in PProcs : pcall[p].got.part # "body"

\* The server's Pending is the number of requests that it has read and not answered.
PendingCounts ==
  LET writes == {p \in Responders : pcall[p].pc \in {"endResponse", "done"} /\ pcall[p].err = "nil"}
      taken == {p \in Responders : pcall[p].pc # "off"} IN
  pconn["server"].nread - pconn["server"].nwritten =
    Cardinality(taken) + (IF pcall[ReqReader].got = NoMessage THEN 0 ELSE 1) - Cardinality(writes)

\* Nobody waits for ever: when no goroutine can go on, every one that sent a request or had
\* one to answer has returned, also when the connection went down under it or the other
\* side asked for its end.  (Every step brings a call nearer to its end.)
PersistCallsReturn ==
  pscript.runs /\ ~ENABLED PersistStep => \A p \in PClients \cup Responders : pcall[p].pc \in {"done", "off"}
=============================================================================
