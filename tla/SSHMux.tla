------------------------------- MODULE SSHMux -------------------------------
(***************************************************************************)
(* The SSH connection protocol (xssh/mux.go, channel.go, buffer.go and the *)
(* window of common.go) between two ends that both run it: each has the    *)
(* loop of its multiplexer and, on every channel, one goroutine that       *)
(* writes, one that reads, one that sends requests and one that serves     *)
(* the peer's.  They meet in the channel's windows, buffers and queues.    *)
(*                                                                         *)
(* Packets arrive in order or the connection fails (PacketConn).  A byte   *)
(* is counted, not named.  Not here: packets that do not parse or whose    *)
(* sizes the peer may not announce, which neither end sends.               *)
(***************************************************************************)
EXTENDS Naturals, Sequences, FiniteSets, SequencesExt

CONSTANTS
  WindowSize,   \* channelWindowSize
  MaxPacket,    \* channelMaxPacket
  QueueCap,     \* capacity of the incoming queues and of ch.msg (16)
  Scenarios     \* what the users of the two ends may do; see may

Ends == {"client", "server"}
Peer(e) == IF e = "client" THEN "server" ELSE "client"

ASSUME WindowAssumption == WindowSize \in Nat \ {0} /\ MaxPacket \in Nat \ {0}
ASSUME QueueAssumption == QueueCap \in Nat \ {0}
ASSUME ScenarioAssumption == Scenarios \subseteq
  [opens : [Ends -> Nat], bytes : [Ends -> Nat], requests : [Ends -> Nat],
   globals : [Ends -> Nat], codes : SUBSET Nat,
   calls : SUBSET (Ends \X {"CloseWrite", "Close", "CloseConn", "Reject"})]

VARIABLES
  may,        \* the bounds: channels each end opens, bytes it writes and requests it
              \* sends on a channel, global requests; the streams; the other calls
  net,        \* net[e]: the packets on their way to e
  connOpen,   \* connOpen[e]: e has not closed the connection
  chan,       \* chan[e]: every channel that e made, in order
  list,       \* list[e]: chanList, of indices in chan[e]; 0 is nil
  loop,       \* mux.loop: "run", "push", "failed", "dropped" or "done"
  held,       \* the packet it cannot put into a full queue
  err,        \* why the loop ended
  fresh,      \* incomingChannels
  globalReqs, \* incomingRequests
  globalResp, \* globalResponses
  asking,     \* whether a goroutine waits for an answer to a global request
  globals     \* how many global requests e sent

wireVars == <<net, connOpen>>
loopVars == <<loop, held, err>>
globalVars == <<globalReqs, globalResp, asking, globals>>
state == <<wireVars, chan, list, loopVars, fresh, globalVars>>
vars == <<may, state>>

Min2(a, b) == IF a <= b THEN a ELSE b

\* A packet: its kind, the receiver's channel id, two numbers that depend on
\* the kind, and the sender's channel (history).
Packet(k, id, n, aux, from) == [kind |-> k, id |-> id, n |-> n, aux |-> aux, from |-> from]
NoPacket == Packet("none", 0, 0, 0, 0)

\* newChannel, before chanList.add.  user is where the goroutine that asked
\* for the channel is.  todo and reserved are the writer's, taken and owed
\* the reader's, waits the requester's.  peer, sent and got are history.
NewChannel(dir, user) ==
  [dir |-> dir, user |-> user, localId |-> 0, remoteId |-> 0, decided |-> FALSE,
   sentEOF |-> FALSE, sentClose |-> FALSE,
   win |-> 0, winClosed |-> FALSE, myWindow |-> WindowSize,
   pending |-> [x \in {0, 1} |-> 0], eof |-> FALSE,
   msg |-> <<>>, reqs |-> <<>>, closed |-> FALSE,
   todo |-> 0, code |-> 0, reserved |-> 0, taken |-> 0, owed |-> 0, waits |-> FALSE,
   asked |-> 0, peer |-> 0, sent |-> 0, got |-> 0, lost |-> 0]

Init ==
  /\ may \in Scenarios
  /\ net = [e \in Ends |-> <<>>] /\ connOpen = [e \in Ends |-> TRUE]
  /\ chan = [e \in Ends |-> <<>>] /\ list = [e \in Ends |-> <<>>]
  /\ loop = [e \in Ends |-> "run"] /\ held = [e \in Ends |-> NoPacket]
  /\ err = [e \in Ends |-> "nil"]
  /\ fresh = [e \in Ends |-> <<>>]
  /\ globalReqs = [e \in Ends |-> <<>>] /\ globalResp = [e \in Ends |-> <<>>]
  /\ asking = [e \in Ends |-> FALSE] /\ globals = [e \in Ends |-> 0]

-----------------------------------------------------------------------------
(* chanList *)

\* add: the first free slot.
Add(l, c) == LET free == {i \in 1..Len(l) : l[i] = 0} IN
  IF free = {} THEN Append(l, c)
  ELSE [l EXCEPT ![CHOOSE i \in free : \A j \in free : i <= j] = c]

\* getChan: 0 when there is none.
GetChan(l, id) == IF id \in 1..Len(l) THEN l[id] ELSE 0

\* remove
Forget(l, id) == IF id \in 1..Len(l) THEN [l EXCEPT ![id] = 0] ELSE l

-----------------------------------------------------------------------------
(* Sending *)

\* conn.writePacket fails once this end closed and may once the peer has;
\* what is sent to a peer that closed is lost.
Sent(e, p) == [net EXCEPT ![Peer(e)] = IF connOpen[Peer(e)] THEN Append(@, p) ELSE @]
WriteFails(e) == ~connOpen[e] \/ ~connOpen[Peer(e)]

\* channel.sendMessage through channel.writePacket: nothing follows a close.
\* ok and failed are the channel after what its caller does in either case.
SendMessage(e, c, k, n, aux, ok, failed) ==
  LET ch == chan[e][c] IN
  \/ /\ ~ch.sentClose /\ connOpen[e]
     /\ net' = Sent(e, Packet(k, ch.remoteId, n, aux, c))
     /\ chan' = [chan EXCEPT ![e][c] = [ok EXCEPT !.sentClose = (k = "close")]]
  \/ /\ ch.sentClose \/ WriteFails(e)
     /\ chan' = [chan EXCEPT ![e][c] =
                   [failed EXCEPT !.sentClose = ch.sentClose \/ (k = "close")]]
     /\ UNCHANGED net

\* The goroutines that have the channel: Accept or openChannel returned it.
Usable(e, c) == chan[e][c].user = "open"

-----------------------------------------------------------------------------
(* Opening a channel *)

\* openChannel up to the wait for the answer; the id is not given back when
\* the packet cannot be sent.
OpenChannel(e) ==
  /\ Cardinality({c \in DOMAIN chan[e] : chan[e][c].dir = "out"}) < may.opens[e]
  /\ LET c == Len(chan[e]) + 1
         l == Add(list[e], c)
         id == CHOOSE i \in DOMAIN l : l[i] = c
         ch == [NewChannel("out", "opening") EXCEPT !.localId = id] IN
     /\ list' = [list EXCEPT ![e] = l]
     /\ \/ /\ connOpen[e]
           /\ net' = Sent(e, Packet("open", id, WindowSize, 0, c))
           /\ chan' = [chan EXCEPT ![e] = Append(@, ch)]
        \/ /\ WriteFails(e)
           /\ chan' = [chan EXCEPT ![e] = Append(@, [ch EXCEPT !.user = "none"])]
           /\ UNCHANGED net
  /\ UNCHANGED <<connOpen, loopVars, fresh, globalVars>>

\* openChannel, when ch.msg has the answer or was closed.
Opened(e, c) ==
  LET ch == chan[e][c] IN
  /\ ch.user = "opening" /\ (ch.msg # <<>> \/ ch.closed)
  /\ chan' = [chan EXCEPT ![e][c] =
       IF ch.msg = <<>> THEN [ch EXCEPT !.user = "none"]
       ELSE [ch EXCEPT !.msg = Tail(@),
                       !.user = IF Head(ch.msg) = "confirm" THEN "open" ELSE "none"]]
  /\ UNCHANGED <<wireVars, list, loopVars, fresh, globalVars>>

\* The goroutine that takes incomingChannels: Accept or Reject.  A rejected
\* channel stays in the list.
Answer(e, accept) ==
  /\ fresh[e] # <<>> /\ (accept \/ <<e, "Reject">> \in may.calls)
  /\ LET c == Head(fresh[e])
         ch == [chan[e][c] EXCEPT !.decided = TRUE] IN
     SendMessage(e, c, IF accept THEN "confirm" ELSE "failure", ch.myWindow, ch.localId,
                 [ch EXCEPT !.user = IF accept THEN "open" ELSE "none"],
                 [ch EXCEPT !.user = "none"])
  /\ fresh' = [fresh EXCEPT ![e] = Tail(@)]
  /\ UNCHANGED <<connOpen, list, loopVars, globalVars>>

-----------------------------------------------------------------------------
(* Writing: WriteExtended and window.reserve *)

Write(e, c, n, code) ==
  LET ch == chan[e][c] IN
  /\ Usable(e, c) /\ ch.todo = 0 /\ ~ch.sentEOF
  /\ ch.sent + n <= may.bytes[e]
  /\ chan' = [chan EXCEPT ![e][c].todo = n, ![e][c].code = code]
  /\ UNCHANGED <<wireVars, list, loopVars, fresh, globalVars>>

\* window.reserve waits until there is some window, or the window was closed.
Reserve(e, c) ==
  LET ch == chan[e][c]
      space == Min2(Min2(MaxPacket, ch.todo), ch.win) IN
  /\ ch.todo > 0 /\ ch.reserved = 0
  /\ ch.win > 0 \/ ch.winClosed
  /\ chan' = [chan EXCEPT ![e][c] =
       IF ch.winClosed THEN [ch EXCEPT !.win = @ - space, !.todo = 0]
       ELSE [ch EXCEPT !.win = @ - space, !.reserved = space]]
  /\ UNCHANGED <<wireVars, list, loopVars, fresh, globalVars>>

WriteData(e, c) ==
  LET ch == chan[e][c] IN
  /\ ch.reserved > 0
  /\ SendMessage(e, c, "data", ch.reserved, ch.code,
       [ch EXCEPT !.todo = @ - ch.reserved, !.reserved = 0, !.sent = @ + ch.reserved],
       [ch EXCEPT !.todo = 0, !.reserved = 0])
  /\ UNCHANGED <<connOpen, list, loopVars, fresh, globalVars>>

CloseWrite(e, c) ==
  /\ <<e, "CloseWrite">> \in may.calls /\ Usable(e, c) /\ ~chan[e][c].sentEOF
  /\ LET ended == [chan[e][c] EXCEPT !.sentEOF = TRUE] IN
     SendMessage(e, c, "eof", 0, 0, ended, ended)
  /\ UNCHANGED <<connOpen, list, loopVars, fresh, globalVars>>

MutClose(e, c) ==
  /\ <<e, "Close">> \in may.calls /\ Usable(e, c) /\ ~chan[e][c].sentClose
  /\ SendMessage(e, c, "close", 0, 0, chan[e][c], chan[e][c])
  /\ list' = [list EXCEPT ![e] = Forget(@, chan[e][c].localId)]
  /\ UNCHANGED <<connOpen, loopVars, fresh, globalVars>>

Close(e, c) ==
  /\ <<e, "Close">> \in may.calls /\ Usable(e, c) /\ ~chan[e][c].sentClose
  /\ SendMessage(e, c, "close", 0, 0, chan[e][c], chan[e][c])
  /\ UNCHANGED <<connOpen, list, loopVars, fresh, globalVars>>

-----------------------------------------------------------------------------
(* Reading: buffer.Read, then adjustWindow in two steps *)

Read(e, c, x, n) ==
  LET ch == chan[e][c] IN
  /\ Usable(e, c) /\ ch.taken = 0 /\ ch.owed = 0
  /\ n \in 1..ch.pending[x]
  /\ chan' = [chan EXCEPT ![e][c].pending[x] = @ - n, ![e][c].taken = n,
                          ![e][c].got = @ + n]
  /\ UNCHANGED <<wireVars, list, loopVars, fresh, globalVars>>

AddWindow(e, c) ==
  LET ch == chan[e][c] IN
  /\ ch.taken > 0
  /\ chan' = [chan EXCEPT ![e][c].myWindow = @ + ch.taken,
                          ![e][c].taken = 0, ![e][c].owed = ch.taken]
  /\ UNCHANGED <<wireVars, list, loopVars, fresh, globalVars>>

MutSendAdjust(e, c) ==
  LET ch == chan[e][c] IN
  /\ ch.owed > 0
  /\ chan' = [chan EXCEPT ![e][c].myWindow = @ + ch.owed, ![e][c].owed = 0]
  /\ UNCHANGED <<wireVars, list, loopVars, fresh, globalVars>>

SendAdjust(e, c) ==
  LET ch == chan[e][c]
      paid == [ch EXCEPT !.owed = 0] IN
  /\ ch.owed > 0
  /\ SendMessage(e, c, "adjust", ch.owed, 0, paid, paid)
  /\ UNCHANGED <<connOpen, list, loopVars, fresh, globalVars>>

-----------------------------------------------------------------------------
(* Requests on a channel and on the connection *)

\* SendRequest; sentRequestMu is held while the answer is awaited.
SendRequest(e, c, wantReply) ==
  LET ch == chan[e][c]
      asked == [ch EXCEPT !.asked = @ + 1] IN
  /\ Usable(e, c) /\ ch.asked < may.requests[e]
  /\ wantReply => ~ch.waits
  /\ SendMessage(e, c, "request", IF wantReply THEN 1 ELSE 0, 0,
                 [asked EXCEPT !.waits = @ \/ wantReply], asked)
  /\ UNCHANGED <<connOpen, list, loopVars, fresh, globalVars>>

Replied(e, c) ==
  LET ch == chan[e][c] IN
  /\ ch.waits /\ (ch.msg # <<>> \/ ch.closed)
  /\ chan' = [chan EXCEPT ![e][c].waits = FALSE,
                          ![e][c].msg = IF @ = <<>> THEN @ ELSE Tail(@)]
  /\ UNCHANGED <<wireVars, list, loopVars, fresh, globalVars>>

\* The goroutine that serves the channel's requests calls Reply, a no-op
\* unless the peer wants one.
Reply(e, c) ==
  LET ch == chan[e][c]
      rest == [ch EXCEPT !.reqs = Tail(@)] IN
  /\ ch.user = "open" /\ ch.reqs # <<>>
  /\ IF Head(ch.reqs) = 1 THEN SendMessage(e, c, "ack", 0, 0, rest, rest)
     ELSE chan' = [chan EXCEPT ![e][c] = rest] /\ UNCHANGED net
  /\ UNCHANGED <<connOpen, list, loopVars, fresh, globalVars>>

\* mux.SendRequest, with globalSentMu held while the answer is awaited.
GlobalRequest(e, wantReply) ==
  /\ globals[e] < may.globals[e] /\ (wantReply => ~asking[e])
  /\ globals' = [globals EXCEPT ![e] = @ + 1]
  /\ \/ /\ connOpen[e]
        /\ net' = Sent(e, Packet("global", 0, IF wantReply THEN 1 ELSE 0, 0, 0))
        /\ asking' = [asking EXCEPT ![e] = @ \/ wantReply]
     \/ WriteFails(e) /\ UNCHANGED <<net, asking>>
  /\ UNCHANGED <<connOpen, chan, list, loopVars, fresh, globalReqs, globalResp>>

GlobalReplied(e) ==
  /\ asking[e] /\ (globalResp[e] # <<>> \/ loop[e] = "done")
  /\ asking' = [asking EXCEPT ![e] = FALSE]
  /\ globalResp' = [globalResp EXCEPT ![e] = IF @ = <<>> THEN @ ELSE Tail(@)]
  /\ UNCHANGED <<wireVars, chan, list, loopVars, fresh, globalReqs, globals>>

\* The goroutine that serves the connection's requests: mux.ackRequest.
GlobalReply(e) ==
  /\ globalReqs[e] # <<>>
  /\ \/ /\ Head(globalReqs[e]) = 1 /\ connOpen[e]
        /\ net' = Sent(e, Packet("globalAck", 0, 0, 0, 0))
     \/ (Head(globalReqs[e]) = 0 \/ WriteFails(e)) /\ UNCHANGED net
  /\ globalReqs' = [globalReqs EXCEPT ![e] = Tail(@)]
  /\ UNCHANGED <<connOpen, chan, list, loopVars, fresh, globalResp, asking, globals>>

-----------------------------------------------------------------------------
(* The loop of the multiplexer *)

MutShut(ch) == [ch EXCEPT !.eof = TRUE, !.closed = TRUE, !.sentClose = TRUE]

\* channel.close: readers, requesters and writers are let go.
Shut(ch) == [ch EXCEPT !.eof = TRUE, !.closed = TRUE, !.sentClose = TRUE,
                       !.winClosed = TRUE]

Stop(e, why) == /\ loop' = [loop EXCEPT ![e] = "failed"]
                /\ err' = [err EXCEPT ![e] = why]

Set(e, c, ch) == /\ chan' = [chan EXCEPT ![e][c] = ch]
                 /\ UNCHANGED <<net, list, err>>
                 /\ loop' = [loop EXCEPT ![e] = "run"]
Refuse(e, why) == Stop(e, why) /\ UNCHANGED <<net, chan, list>>

\* handleData: extended data of a code other than 1 is discarded.
HandleData(e, c, p) ==
  LET ch == chan[e][c] IN
  IF p.n > MaxPacket THEN Refuse(e, "packet too large")
  ELSE IF ch.myWindow < p.n THEN Refuse(e, "wrote too much")
  ELSE Set(e, c, IF p.aux \in {0, 1}
                 THEN [ch EXCEPT !.myWindow = @ - p.n, !.pending[p.aux] = @ + p.n]
                 ELSE [ch EXCEPT !.myWindow = @ - p.n, !.lost = @ + p.n])

\* handlePacket of a close: answer it, forget the id, let everyone go.
HandleClose(e, c) ==
  /\ SendMessage(e, c, "close", 0, 0, Shut(chan[e][c]), Shut(chan[e][c]))
  /\ list' = [list EXCEPT ![e] = Forget(@, chan[e][c].localId)]
  /\ loop' = [loop EXCEPT ![e] = "run"]
  /\ UNCHANGED err

\* handlePacket of the answer to an open, after responseMessageReceived.
HandleOpenResponse(e, c, p) ==
  LET ch == chan[e][c]
      told == [ch EXCEPT !.decided = TRUE, !.msg = Append(@, p.kind)] IN
  CASE ch.dir = "in" -> Refuse(e, "response on inbound channel")
    [] ch.dir = "out" /\ ch.decided -> Refuse(e, "duplicate response")
    [] ch.dir = "out" /\ ~ch.decided /\ p.kind = "failure" ->
         /\ chan' = [chan EXCEPT ![e][c] = told]
         /\ list' = [list EXCEPT ![e] = Forget(@, p.id)]
         /\ loop' = [loop EXCEPT ![e] = "run"]
         /\ UNCHANGED <<net, err>>
    [] OTHER -> Set(e, c, [told EXCEPT !.remoteId = p.aux, !.peer = p.from,
                                       !.win = @ + p.n])

\* handlePacket; an adjust that would wrap the 32-bit window is not reachable
\* with windows this small.
HandlePacket(e, c, p) ==
  LET ch == chan[e][c] IN
  CASE p.kind = "data" -> HandleData(e, c, p)
    [] p.kind = "close" -> HandleClose(e, c)
    [] p.kind = "eof" -> Set(e, c, [ch EXCEPT !.eof = TRUE])
    [] p.kind \in {"confirm", "failure"} -> HandleOpenResponse(e, c, p)
    [] p.kind = "adjust" -> Set(e, c, [ch EXCEPT !.win = @ + p.n])
    [] p.kind = "request" -> Set(e, c, [ch EXCEPT !.reqs = Append(@, p.n)])
    [] p.kind = "ack" -> Set(e, c, [ch EXCEPT !.msg = Append(@, "ack")])

\* handleChannelOpen
HandleChannelOpen(e, p) ==
  LET c == Len(chan[e]) + 1
      l == Add(list[e], c)
      id == CHOOSE i \in DOMAIN l : l[i] = c IN
  /\ list' = [list EXCEPT ![e] = l]
  /\ chan' = [chan EXCEPT ![e] = Append(@, [NewChannel("in", "waiting") EXCEPT
                 !.localId = id, !.remoteId = p.id, !.win = p.n, !.peer = p.from])]
  /\ fresh' = [fresh EXCEPT ![e] = Append(@, c)]
  /\ loop' = [loop EXCEPT ![e] = "run"]
  /\ UNCHANGED <<net, err, globalReqs, globalResp>>

\* handleGlobalPacket
HandleGlobalPacket(e, p) ==
  /\ IF p.kind = "global"
     THEN /\ globalReqs' = [globalReqs EXCEPT ![e] = Append(@, p.n)]
          /\ UNCHANGED globalResp
     ELSE /\ globalResp' = [globalResp EXCEPT ![e] = Append(@, "ack")]
          /\ UNCHANGED globalReqs
  /\ loop' = [loop EXCEPT ![e] = "run"]
  /\ UNCHANGED <<net, chan, list, fresh, err>>

\* Whether the queue that a packet goes into has room: a Go channel.
Fits(e, p) ==
  LET c == GetChan(list[e], p.id) IN
  CASE p.kind = "open" -> Len(fresh[e]) < QueueCap
    [] p.kind = "global" -> Len(globalReqs[e]) < QueueCap
    [] p.kind = "globalAck" -> Len(globalResp[e]) < 1
    [] p.kind = "request" /\ c # 0 -> Len(chan[e][c].reqs) < QueueCap
    [] p.kind \in {"ack", "confirm", "failure"} /\ c # 0 -> Len(chan[e][c].msg) < QueueCap
    [] OTHER -> TRUE

\* onePacket, of a packet that was read and whose queue has room.
Deliver(e, p) ==
  LET c == GetChan(list[e], p.id) IN
  CASE p.kind = "open" -> HandleChannelOpen(e, p)
    [] p.kind \in {"global", "globalAck"} -> HandleGlobalPacket(e, p)
    [] p.kind \notin {"open", "global", "globalAck"} /\ c = 0 ->
         Refuse(e, "invalid channel") /\ UNCHANGED <<fresh, globalReqs, globalResp>>
    [] OTHER -> HandlePacket(e, c, p) /\ UNCHANGED <<fresh, globalReqs, globalResp>>

\* onePacket, up to the read.
OnePacket(e) ==
  /\ loop[e] = "run" /\ held[e] = NoPacket /\ connOpen[e] /\ net[e] # <<>>
  /\ held' = [held EXCEPT ![e] = Head(net[e])]
  /\ net' = [net EXCEPT ![e] = Tail(@)]
  /\ loop' = [loop EXCEPT ![e] = "push"]
  /\ UNCHANGED <<connOpen, chan, list, err, fresh, globalVars>>

Dispatch(e) ==
  /\ loop[e] = "push" /\ Fits(e, held[e])
  /\ Deliver(e, held[e])
  /\ held' = [held EXCEPT ![e] = NoPacket]
  /\ UNCHANGED <<connOpen, asking, globals>>

\* readPacket fails when the connection was closed here, or when the peer
\* closed it and everything was read.
ReadError(e) ==
  /\ loop[e] = "run" /\ (~connOpen[e] \/ (~connOpen[Peer(e)] /\ net[e] = <<>>))
  /\ Stop(e, "read")
  /\ UNCHANGED <<wireVars, chan, list, held, fresh, globalVars>>

\* loop, after the last packet: dropAll, and the channels are closed ...
DropAll(e) ==
  /\ loop[e] = "failed"
  /\ chan' = [chan EXCEPT ![e] = [c \in DOMAIN @ |->
                IF c \in Range(list[e]) THEN Shut(@[c]) ELSE @[c]]]
  /\ list' = [list EXCEPT ![e] = <<>>]
  /\ loop' = [loop EXCEPT ![e] = "dropped"]
  /\ UNCHANGED <<wireVars, held, err, fresh, globalVars>>

\* ... then the queues and the connection.
LoopExit(e) ==
  /\ loop[e] = "dropped"
  /\ loop' = [loop EXCEPT ![e] = "done"]
  /\ connOpen' = [connOpen EXCEPT ![e] = FALSE]
  /\ net' = [net EXCEPT ![e] = <<>>]
  /\ UNCHANGED <<chan, list, held, err, fresh, globalVars>>

\* mux.Close
CloseConn(e) ==
  /\ <<e, "CloseConn">> \in may.calls /\ connOpen[e]
  /\ connOpen' = [connOpen EXCEPT ![e] = FALSE]
  /\ net' = [net EXCEPT ![e] = <<>>]
  /\ UNCHANGED <<chan, list, loopVars, fresh, globalVars>>

-----------------------------------------------------------------------------
\* What a user decides to do, and what a goroutine then does by itself.
UserStep(e) ==
  \/ OpenChannel(e) \/ CloseConn(e)
  \/ \E wantReply \in BOOLEAN : GlobalRequest(e, wantReply)
  \/ \E c \in DOMAIN chan[e] :
       \/ \E n \in 1..may.bytes[e], code \in may.codes : Write(e, c, n, code)
       \/ CloseWrite(e, c) \/ Close(e, c)
       \/ \E wantReply \in BOOLEAN : SendRequest(e, c, wantReply)

LoopStep(e) == OnePacket(e) \/ Dispatch(e) \/ ReadError(e) \/ DropAll(e) \/ LoopExit(e)

WriterStep(e, c) == Reserve(e, c) \/ WriteData(e, c)
ReaderStep(e, c) == \/ \E x \in {0, 1}, n \in 1..WindowSize : Read(e, c, x, n)
                    \/ AddWindow(e, c) \/ SendAdjust(e, c)
RequestStep(e, c) == Opened(e, c) \/ Replied(e, c) \/ Reply(e, c)
GlobalStep(e) == GlobalReplied(e) \/ GlobalReply(e)
AnswerStep(e) == \E accept \in BOOLEAN : Answer(e, accept)

Next == \E e \in Ends :
  /\ UNCHANGED may
  /\ \/ UserStep(e) \/ LoopStep(e) \/ GlobalStep(e) \/ AnswerStep(e)
     \/ \E c \in DOMAIN chan[e] : WriterStep(e, c) \/ ReaderStep(e, c) \/ RequestStep(e, c)

Spec == Init /\ [][Next]_vars

-----------------------------------------------------------------------------
(* Properties *)

TypeOK ==
  /\ \A e \in Ends : \A i \in DOMAIN net[e] : net[e][i].kind \in
        {"open", "confirm", "failure", "data", "adjust", "eof", "close", "request", "ack",
         "global", "globalAck"}
  /\ connOpen \in [Ends -> BOOLEAN]
  /\ loop \in [Ends -> {"run", "push", "failed", "dropped", "done"}]
  /\ \A e \in Ends : Range(list[e]) \subseteq 0..Len(chan[e])
  /\ \A e \in Ends : \A c \in DOMAIN chan[e] :
       /\ chan[e][c].win \in 0..WindowSize /\ chan[e][c].myWindow \in 0..WindowSize
       /\ chan[e][c].reserved \in 0..MaxPacket

\* What is on its way to e: what is in the network and what the loop holds.
Coming(e) == IF held[e] = NoPacket THEN net[e] ELSE <<held[e]>> \o net[e]
\* What the packets of kind k from a channel add up to.
Total(w) == LET sum[i \in 0..Len(w)] == IF i = 0 THEN 0 ELSE sum[i - 1] + w[i] IN sum[Len(w)]
Weight(p, k, from) == IF p.kind = k /\ p.from = from THEN p.n ELSE 0
Amount(s, k, from) == Total([i \in DOMAIN s |-> Weight(s[i], k, from)])

\* Two ends that both run this code never end the connection over each
\* other's packets: no packet for an unknown channel, no overrun window, no
\* second response, whatever the order of the goroutines (mux.onePacket,
\* channel.handlePacket).
NoProtocolError == \A e \in Ends : err[e] \in {"nil", "read"}

\* As long as the loop runs, a packet on its way names an id that belongs to
\* the channel it was meant for, although ids are used again.
PacketFindsChannel == \A e \in Ends :
  loop[e] \in {"run", "push"} =>
    \A i \in DOMAIN Coming(e) : LET p == Coming(e)[i] IN
      p.kind \notin {"open", "global", "globalAck"} =>
        /\ GetChan(list[e], p.id) # 0
        /\ chan[Peer(e)][p.from].peer = GetChan(list[e], p.id)

\* The two windows of a channel agree: what the receiver still allows is what
\* the sender has left, holds or sent, and what is on its way back to it; and
\* the receiver accounts for its whole window (window.reserve, handleData,
\* adjustWindow).
WindowConserved == \A e \in Ends : \A c \in DOMAIN chan[e] :
  LET ch == chan[e][c]
      f == Peer(e)
      d == ch.peer IN
  /\ ch.myWindow + ch.taken + ch.pending[0] + ch.pending[1] + ch.lost = WindowSize
  /\ d # 0 /\ ~ch.closed /\ ~ch.sentClose /\ connOpen[e] /\ connOpen[f]
       /\ chan[f][d].peer = c /\ ~chan[f][d].sentClose /\ ~chan[f][d].winClosed =>
       ch.myWindow = chan[f][d].win + chan[f][d].reserved + ch.owed
                     + Amount(Coming(e), "data", d) + Amount(Coming(f), "adjust", c)

\* A channel whose peer closed and that answered is closed on both sides, and
\* a close is sent once: no packet of a channel follows its close.
NothingAfterClose == \A e \in Ends :
  \A i, j \in DOMAIN Coming(e) :
    i < j /\ Coming(e)[i].kind = "close" => Coming(e)[j].from # Coming(e)[i].from
                                            \/ Coming(e)[j].kind \in {"open", "global", "globalAck"}

\* Nobody is answered out of turn: at most one answer waits in ch.msg or in
\* globalResponses, and only for a goroutine that waits for it.
AnswersAreAwaited == \A e \in Ends :
  /\ Len(globalResp[e]) <= 1 /\ (globalResp[e] # <<>> => asking[e])
  /\ \A c \in DOMAIN chan[e] : LET ch == chan[e][c] IN
       /\ Len(ch.msg) <= 1
       /\ ch.msg # <<>> => ch.user = "opening" \/ ch.waits

MaxChannels == 2  \* bound: channels of an end, in any scenario

\* Goroutines that can take a step take it, and the users read their
\* channels, answer the opens and serve the requests, as NewChannel.Accept
\* asks of them.
Fairness == \A e \in Ends :
  /\ WF_state(LoopStep(e)) /\ WF_state(GlobalStep(e)) /\ WF_state(AnswerStep(e))
  /\ \A c \in 1..MaxChannels :
       /\ WF_state(c \in DOMAIN chan[e] /\ WriterStep(e, c))
       /\ WF_state(c \in DOMAIN chan[e] /\ ReaderStep(e, c))
       /\ WF_state(c \in DOMAIN chan[e] /\ RequestStep(e, c))
FairSpec == Spec /\ Fairness

Writing(e, c) == c \in DOMAIN chan[e] /\ chan[e][c].todo > 0
Waiting(e, c) == c \in DOMAIN chan[e] /\ chan[e][c].waits

\* A Write and a SendRequest return, whatever is closed meanwhile and
\* whenever: nobody stays in window.reserve or waits for ch.msg for ever.
CallsReturn == \A e \in Ends : \A c \in 1..MaxChannels :
  /\ Writing(e, c) ~> ~Writing(e, c)
  /\ Waiting(e, c) ~> ~Waiting(e, c)

\* Two ends of this code understand each other: ids find their channels although they are
\* used again, nothing follows a close, answers reach who waits for them, and no packet is an
\* error to the other end (mux.go, channel.go).
ChannelsOrderly ==
  TypeOK /\ NoProtocolError /\ PacketFindsChannel /\ NothingAfterClose /\ AnswersAreAwaited
=============================================================================
