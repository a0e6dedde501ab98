----------------------------- MODULE SSHForward -----------------------------
(***************************************************************************)
(* Forwarded TCP connections of the SSH client (xssh/tcpip.go and the      *)
(* goroutines that NewClient starts in client.go).  The multiplexer hands  *)
(* channels that the server opens to handleChannelOpens, which sorts them  *)
(* by type; handleChannels finds the listener; Accept takes them.  One     *)
(* goroutine asks for each listener, accepts from it and closes it.        *)
(* The server (external) listens where it was asked to and opens a channel *)
(* for each connection it gets.                                            *)
(***************************************************************************)
EXTENDS Naturals, Sequences, FiniteSets, SequencesExt

CONSTANTS
  Listeners,    \* the listeners that users ask for
  Addresses,    \* addresses and ports on the server's side
  FwdScenarios, \* what the users and the server may do
  HandlerCap,   \* capacity of a channel of channelHandlers (16)
  ListenerCap   \* capacity of the channel of a forwardEntry (1)

ASSUME ForwardAssumption == HandlerCap \in Nat \ {0} /\ ListenerCap \in Nat \ {0}

VARIABLES
  plan,      \* who listens, and where; how many channels the server opens
  bound,     \* the addresses the server listens on, for this client
  opens,     \* mux.incomingChannels: channels the server opened, in order
  handler,   \* channelHandlers["forwarded-tcpip"]: a queue, and whether it is closed
  hold,      \* the channel handleChannelOpens or handleChannels has in hand
  entries,   \* forwardList.entries
  fwdChan,   \* fwdChan[l]: the channel of l's entry, and whether it is closed
  lock,      \* the holder of forwardList's mutex, or "free"
  lis,       \* lis[l]: where the goroutine of listener l is
  connUp,    \* the connection works
  sweep,     \* the goroutine that calls closeAll: "wait", "done"
  fate       \* history: what became of each channel

fwdVars == <<plan, bound, opens, handler, hold, entries, fwdChan, lock, lis, connUp, sweep, fate>>

Conn(i, type, addr) == [id |-> i, type |-> type, addr |-> addr]
NoConn == Conn(0, "none", "none")
Pending(i) == fate[i].is = "pending"
Settle(i, what, who) == fate' = [fate EXCEPT ![i] = [is |-> what, by |-> who, addr |-> @.addr]]

-----------------------------------------------------------------------------
(* The server (external) and the connection *)

\* It agrees to listen on an address that is free.
ServerBinds(l) ==
  /\ connUp /\ lis[l].pc = "asked"
  /\ IF plan.addr[l] \in bound
       THEN lis' = [lis EXCEPT ![l].pc = "denied"] /\ UNCHANGED bound
       ELSE lis' = [lis EXCEPT ![l].pc = "granted"] /\ bound' = bound \cup {plan.addr[l]}
  /\ UNCHANGED <<plan, opens, handler, hold, entries, fwdChan, lock, connUp, sweep, fate>>

\* A channel for a connection to an address it listens on, or one the client never
\* asked for.
ServerOpens(type, addr) ==
  /\ connUp /\ Len(fate) < plan.opens
  /\ type = "forwarded-tcpip" => addr \in bound
  /\ type = "other" => plan.strange
  /\ opens' = Append(opens, Conn(Len(fate) + 1, type, addr))
  /\ fate' = Append(fate, [is |-> "pending", by |-> "none", addr |-> addr])
  /\ UNCHANGED <<plan, bound, handler, hold, entries, fwdChan, lock, lis, connUp, sweep>>

ServerUnbinds(l) ==
  /\ connUp /\ lis[l].pc = "cancelling"
  /\ bound' = bound \ {plan.addr[l]}
  /\ lis' = [lis EXCEPT ![l].pc = "closed"]
  /\ UNCHANGED <<plan, opens, handler, hold, entries, fwdChan, lock, connUp, sweep, fate>>

\* The connection ends: the multiplexer closes its channels.
ConnEnds ==
  /\ connUp /\ plan.ends
  /\ connUp' = FALSE
  /\ UNCHANGED <<plan, bound, opens, handler, hold, entries, fwdChan, lock, lis, sweep, fate>>

-----------------------------------------------------------------------------
(* client.go *)

\* handleChannelOpens takes a channel and looks its handler up; a type nobody handles
\* is rejected.
SortOpen ==
  /\ hold.opens = NoConn /\ opens # <<>>
  /\ opens' = Tail(opens)
  /\ IF Head(opens).type = "forwarded-tcpip"
       THEN hold' = [hold EXCEPT !.opens = Head(opens)] /\ UNCHANGED fate
       ELSE Settle(Head(opens).id, "rejected", "unknownType") /\ UNCHANGED hold
  /\ UNCHANGED <<plan, bound, handler, entries, fwdChan, lock, lis, connUp, sweep>>

\* ... and sends it to the handler, when there is room.
PassOpen ==
  /\ hold.opens # NoConn /\ Len(handler.items) < HandlerCap
  /\ handler' = [handler EXCEPT !.items = Append(@, hold.opens)]
  /\ hold' = [hold EXCEPT !.opens = NoConn]
  /\ UNCHANGED <<plan, bound, opens, entries, fwdChan, lock, lis, connUp, sweep, fate>>

\* handleChannelOpens ends with the connection: the handlers' channels are closed.
CloseHandlers ==
  /\ ~connUp /\ opens = <<>> /\ hold.opens = NoConn /\ ~handler.closed
  /\ handler' = [handler EXCEPT !.closed = TRUE]
  /\ UNCHANGED <<plan, bound, opens, hold, entries, fwdChan, lock, lis, connUp, sweep, fate>>

-----------------------------------------------------------------------------
(* tcpip.go: forwardList *)

\* The first entry with the address of the channel.
EntryFor(addr) == SelectInSeq(entries, LAMBDA l : plan.addr[l] = addr)

\* handleChannels takes a channel; forward takes the lock and looks for the entry.
HandleChannel ==
  /\ hold.forward = NoConn /\ handler.items # <<>> /\ lock = "free"
  /\ LET c == Head(handler.items)
         at == EntryFor(c.addr) IN
     IF at = 0
       THEN Settle(c.id, "rejected", "noForward") /\ UNCHANGED <<hold, lock>>
       ELSE /\ hold' = [hold EXCEPT !.forward = c, !.to = entries[at]]
            /\ lock' = "forward" /\ UNCHANGED fate
  /\ handler' = [handler EXCEPT !.items = Tail(@)]
  /\ UNCHANGED <<plan, bound, opens, entries, fwdChan, lis, connUp, sweep>>

\* The send to the entry's channel, with the lock held; it waits while that is full.
ForwardChannel ==
  /\ hold.forward # NoConn /\ Len(fwdChan[hold.to].items) < ListenerCap
  /\ fwdChan' = [fwdChan EXCEPT ![hold.to].items = Append(@, hold.forward)]
  /\ hold' = [hold EXCEPT !.forward = NoConn, !.to = "none"]
  /\ lock' = "free"
  /\ UNCHANGED <<plan, bound, opens, handler, entries, lis, connUp, sweep, fate>>

\* add
AddForward(l) ==
  /\ lis[l].pc = "granted" /\ lock = "free"
  /\ entries' = Append(entries, l)
  /\ lis' = [lis EXCEPT ![l].pc = "listening", ![l].returned = TRUE, ![l].late = (sweep = "done")]
  /\ UNCHANGED <<plan, bound, opens, handler, hold, fwdChan, lock, connUp, sweep, fate>>

\* (The lock that remove waits for.)
Unlocked == lock = "free"

\* remove, for tcpListener.Close: the entry goes and its channel is closed.
Close(l) ==
  /\ lis[l].pc = "listening" /\ plan.closes[l] /\ Unlocked
  /\ LET at == EntryFor(plan.addr[l]) IN
     IF at = 0 THEN UNCHANGED <<entries, fwdChan>>
     ELSE /\ entries' = RemoveAt(entries, at)
          /\ fwdChan' = [fwdChan EXCEPT ![entries[at]].closed = TRUE]
  /\ lis' = [lis EXCEPT ![l].pc = IF connUp THEN "cancelling" ELSE "closed"]
  /\ UNCHANGED <<plan, bound, opens, handler, hold, lock, connUp, sweep, fate>>

\* closeAll, once the connection is over.
MutCloseAll(es) == IF es = <<>> THEN {} ELSE {Head(es)}
CloseAll(es) == ToSet(es)

Sweep ==
  /\ sweep = "wait" /\ ~connUp /\ lock = "free"
  /\ fwdChan' = [l \in Listeners |-> [fwdChan[l] EXCEPT !.closed = @ \/ l \in CloseAll(entries)]]
  /\ entries' = <<>>
  /\ sweep' = "done"
  /\ UNCHANGED <<plan, bound, opens, handler, hold, lock, lis, connUp, fate>>

-----------------------------------------------------------------------------
(* tcpip.go: the user's calls *)

\* ListenTCP sends tcpip-forward.
Listen(l) ==
  /\ lis[l].pc = "start" /\ l \in plan.listens
  /\ lis' = [lis EXCEPT ![l].pc = IF connUp THEN "asked" ELSE "failed"]
  /\ UNCHANGED <<plan, bound, opens, handler, hold, entries, fwdChan, lock, connUp, sweep, fate>>

\* Its request, or that of Close, fails with the connection.
RequestFails(l) ==
  /\ ~connUp /\ lis[l].pc \in {"asked", "cancelling"}
  /\ lis' = [lis EXCEPT ![l].pc = IF @ = "asked" THEN "failed" ELSE "closed"]
  /\ UNCHANGED <<plan, bound, opens, handler, hold, entries, fwdChan, lock, connUp, sweep, fate>>

\* Accept, called in a loop until it fails: the next forward, or io.EOF.  Accepting a
\* channel of a connection that is over is an error too.
Accept(l) ==
  /\ lis[l].returned /\ ~lis[l].eof
  /\ \/ /\ fwdChan[l].items # <<>>
        /\ fwdChan' = [fwdChan EXCEPT ![l].items = Tail(@)]
        /\ Settle(Head(fwdChan[l].items).id, IF connUp THEN "accepted" ELSE "lost", l)
        /\ UNCHANGED lis
     \/ /\ fwdChan[l].items = <<>> /\ fwdChan[l].closed
        /\ lis' = [lis EXCEPT ![l].eof = TRUE]
        /\ UNCHANGED <<fwdChan, fate>>
  /\ UNCHANGED <<plan, bound, opens, handler, hold, entries, lock, connUp, sweep>>

-----------------------------------------------------------------------------
FwdInit ==
  /\ plan \in FwdScenarios
  /\ bound = {} /\ opens = <<>> /\ handler = [items |-> <<>>, closed |-> FALSE]
  /\ hold = [opens |-> NoConn, forward |-> NoConn, to |-> "none"]
  /\ entries = <<>> /\ fwdChan = [l \in Listeners |-> [items |-> <<>>, closed |-> FALSE]]
  /\ lock = "free" /\ lis = [l \in Listeners |-> [pc |-> "start", returned |-> FALSE, late |-> FALSE, eof |-> FALSE]]
  /\ connUp = TRUE /\ sweep = "wait" /\ fate = <<>>

FwdClientNext ==
  \/ SortOpen \/ PassOpen \/ CloseHandlers \/ HandleChannel \/ ForwardChannel \/ Sweep
  \/ \E l \in Listeners : Listen(l) \/ AddForward(l) \/ Close(l) \/ RequestFails(l)

FwdNext ==
  \/ FwdClientNext
  \/ \E l \in Listeners : Accept(l) \/ ServerBinds(l) \/ ServerUnbinds(l)
  \/ \E a \in Addresses, t \in {"forwarded-tcpip", "other"} : ServerOpens(t, a)
  \/ ConnEnds

\* As long as a goroutine of the client can run, the server has a request to answer, or
\* the user of a listener that is serviced can call Accept, one of them goes on.
FwdFairness ==
  WF_fwdVars(FwdClientNext \/ \E l \in Listeners : Accept(l) \/ ServerBinds(l) \/ ServerUnbinds(l))

-----------------------------------------------------------------------------
(* Properties *)

\* The state stays within its domains; the queues stay within their capacities.
FwdTypeOK ==
  /\ bound \subseteq Addresses
  /\ lock \in {"free", "forward"} /\ sweep \in {"wait", "done"}
  /\ Len(handler.items) <= HandlerCap
  /\ \A l \in Listeners : Len(fwdChan[l].items) <= ListenerCap
  /\ ToSet(entries) \subseteq Listeners
  /\ \A i \in 1..Len(fate) : fate[i].is \in {"pending", "accepted", "rejected", "lost"}

\* No goroutine sends on a channel that was closed, which would panic: the entry leaves
\* the list before its channel is closed, and forward sends only while it holds the lock
\* (forwardList.forward, remove, closeAll).
NoSendOnClosedEntry ==
  /\ [](\A i \in 1..Len(entries) : ~fwdChan[entries[i]].closed)
  /\ [][\A l \in Listeners : Len(fwdChan'[l].items) > Len(fwdChan[l].items) => ~fwdChan[l].closed]_fwdVars

\* A connection is accepted by a listener that asked for its address, and one whose
\* listener is open is never rejected for want of one (handleChannels, RFC 4254 7.2).
ForwardsFindListener ==
  /\ [](\A i \in 1..Len(fate) : fate[i].is = "accepted" => plan.addr[fate[i].by] = fate[i].addr)
  /\ [][\A i \in 1..Len(fate) : Pending(i) /\ fate'[i].is = "rejected" /\ fate'[i].by = "noForward" =>
          ~\E l \in Listeners : lis[l].pc = "listening" /\ plan.addr[l] = fate[i].addr /\ sweep = "wait"]_fwdVars

\* When every listener is serviced, each connection that the server forwards is accepted
\* or rejected, every Close returns and, once the connection is over, every Accept returns
\* io.EOF: no goroutine is left waiting on the list's lock.  Not so for an entry that is
\* added after closeAll, because the connection ended between the server's answer and
\* forwards.add: nobody ever closes its channel (lis[l].late).
ForwardsSettle ==
  []<>(/\ \A l \in Listeners : plan.closes[l] /\ lis[l].returned => lis[l].pc = "closed" /\ lis[l].eof
       /\ ~connUp => /\ \A i \in 1..Len(fate) : ~Pending(i)
                     /\ \A l \in Listeners : lis[l].returned => lis[l].eof \/ lis[l].late)

\* Forwarded connections reach the listener that asked for them or are rejected, whatever is
\* closed meanwhile, and nobody is left waiting.
ForwardSound == []FwdTypeOK /\ NoSendOnClosedEntry /\ ForwardsFindListener /\ ForwardsSettle
=============================================================================
