------------------------------ MODULE Connector ------------------------------
(***************************************************************************)
(* The client side of the network layer: Dial and the connection's loops   *)
(* (internal/network/connector), and the goroutine that keeps a discovered *)
(* service connected (examples/network/etcd-services/discovery).  That one *)
(* sends nothing, so the send queue stays empty.  One service; each ADD    *)
(* event starts a manager for it.  (What a loop meets on a channel that    *)
(* close has closed is in module WsSession, whose loops are the same.)     *)
(***************************************************************************)
EXTENDS Naturals

CONSTANTS
  MaxManagers, \* bound on the managers started
  MaxConns     \* bound on the connections

VARIABLES
  connections, \* the manager in the table, 0 for none
  started,     \* managers started so far: 1..started
  stopped,     \* managers whose svcCtx is cancelled
  manager,     \* "none", "top", "dialing", "sleeps", "up" or "ended"
  dial,        \* of the goroutine in Dial: "none", "goes", and what it put into resCh: "ok", "failed"
  made,        \* connections made so far: 1..made
  conns        \* each: the manager, its context, the socket, the loops, the closeOnce

connVars == <<connections, started, stopped, manager, dial, made, conns>>

Managers == 1..MaxManagers

Init ==
  /\ connections = 0 /\ started = 0 /\ stopped = {} /\ made = 0
  /\ manager = [m \in Managers |-> "none"] /\ dial = [m \in Managers |-> "none"]
  /\ conns = [c \in 1..MaxConns |-> [of |-> 0, cancelled |-> FALSE, socket |-> "none",
                                     recv |-> "ended", send |-> "ended", once |-> "no"]]

\* Mutant: the manager in the table is replaced and goes on.
StartForgets ==
  /\ started < MaxManagers /\ started' = started + 1
  /\ connections' = started' /\ manager' = [manager EXCEPT ![started'] = "top"]
  /\ UNCHANGED <<stopped, dial, made, conns>>

\* startManageConnection
Start ==
  /\ started < MaxManagers /\ started' = started + 1
  /\ stopped' = stopped \cup ({connections} \ {0})
  /\ connections' = started' /\ manager' = [manager EXCEPT ![started'] = "top"]
  /\ UNCHANGED <<dial, made, conns>>

\* stopManageConnection
Stop ==
  /\ connections # 0 /\ connections' = 0 /\ stopped' = stopped \cup {connections}
  /\ UNCHANGED <<started, manager, dial, made, conns>>

Goto(m, label) == manager' = [manager EXCEPT ![m] = label]

\* The top of the loop: end, or call Dial, which leaves the dialling to a goroutine.
DialBegins(m) ==
  /\ manager[m] = "top"
  /\ \/ m \in stopped /\ Goto(m, "ended") /\ UNCHANGED dial
     \/ m \notin stopped /\ Goto(m, "dialing") /\ dial' = [dial EXCEPT ![m] = "goes"]
  /\ UNCHANGED <<connections, started, stopped, made, conns>>

\* The server accepts, or does not.
DialAnswered(m) ==
  /\ dial[m] = "goes" /\ \E result \in {"ok", "failed"} : dial' = [dial EXCEPT ![m] = result]
  /\ UNCHANGED <<connections, started, stopped, manager, made, conns>>

\* The select of Dial.  The context ends: a connection that the goroutine has made, or
\* makes later, stays in resCh, and nobody closes it.
DialCancelled(m) ==
  /\ manager[m] = "dialing" /\ m \in stopped /\ Goto(m, "sleeps")
  /\ UNCHANGED <<connections, started, stopped, dial, made, conns>>

DialReturns(m) ==
  /\ manager[m] = "dialing" /\ dial' = [dial EXCEPT ![m] = "none"]
  /\ \/ dial[m] = "failed" /\ Goto(m, "sleeps") /\ UNCHANGED <<made, conns>>
     \/ /\ dial[m] = "ok" /\ Goto(m, "up") /\ made < MaxConns /\ made' = made + 1
        /\ conns' = [conns EXCEPT ![made'] = [of |-> m, cancelled |-> FALSE, socket |-> "open",
                                              recv |-> "top", send |-> "runs", once |-> "no"]]
  /\ UNCHANGED <<connections, started, stopped>>

SleepEnds(m) ==
  /\ manager[m] = "sleeps" /\ Goto(m, "top")
  /\ UNCHANGED <<connections, started, stopped, dial, made, conns>>

\* The context of a connection derives from its manager's.
CtxDone(c) == conns[c].cancelled \/ conns[c].of \in stopped

\* The manager sees its connection's context end: over, or once more after a pause.
Disconnected(m) ==
  /\ manager[m] = "up" /\ \E c \in 1..made : conns[c].of = m /\ CtxDone(c)
  /\ \A c \in 1..made : conns[c].of = m => CtxDone(c)
  /\ Goto(m, IF m \in stopped THEN "ended" ELSE "sleeps")
  /\ UNCHANGED <<connections, started, stopped, dial, made, conns>>

Set(c, record) == conns' = [conns EXCEPT ![c] = record]
  /\ UNCHANGED <<connections, started, stopped, manager, dial, made>>

\* The peer, or the network, breaks the connection.
Breaks(c) == conns[c].socket = "open" /\ Set(c, [conns[c] EXCEPT !.socket = "broken"])

\* A loop calls close: the first one cancels the context and goes on to close the socket.
Close(conn, loop) ==
  IF conn.once = "no" THEN [conn EXCEPT ![loop] = "closes", !.once = "runs", !.cancelled = TRUE]
  ELSE [conn EXCEPT ![loop] = "ended"]

\* Looks at the context, then reads until there is a message or the socket fails.
RecvLoop(c) ==
  /\ conns[c].once # "runs" \* closeOnce blocks the second caller
  /\ \/ conns[c].recv = "top"
        /\ Set(c, IF CtxDone(c) THEN Close(conns[c], "recv") ELSE [conns[c] EXCEPT !.recv = "reads"])
     \/ conns[c].recv = "reads" /\ conns[c].socket # "open" /\ Set(c, Close(conns[c], "recv"))

OnMessage(c) ==
  /\ conns[c].recv = "reads" /\ conns[c].socket = "open" /\ Set(c, [conns[c] EXCEPT !.recv = "top"])

\* The send loop wakes up when the context ends (or its channel is closed, which is later).
SendLoop(c) ==
  /\ conns[c].send = "runs" /\ conns[c].once # "runs" /\ CtxDone(c)
  /\ Set(c, Close(conns[c], "send"))

\* The rest of close: socket, channels, OnClosed.
CloseEnds(c) ==
  /\ conns[c].once = "runs"
  /\ Set(c, [conns[c] EXCEPT !.socket = "closed", !.once = "done",
               !.recv = IF @ = "closes" THEN "ended" ELSE @,
               !.send = IF @ = "closes" THEN "ended" ELSE @])

ManagerStep(m) ==
  DialBegins(m) \/ DialCancelled(m) \/ DialReturns(m) \/ SleepEnds(m) \/ Disconnected(m)

Next ==
  \/ Start \/ Stop
  \/ \E m \in Managers : ManagerStep(m) \/ DialAnswered(m)
  \/ \E c \in 1..made : RecvLoop(c) \/ SendLoop(c) \/ CloseEnds(c) \/ Breaks(c) \/ OnMessage(c)

\* The goroutines are scheduled.  The server need not answer, and nothing need arrive.
Fairness ==
  /\ \A m \in Managers : WF_connVars(ManagerStep(m))
  /\ \A c \in 1..MaxConns : /\ WF_connVars(c <= made /\ RecvLoop(c))
                            /\ WF_connVars(c <= made /\ SendLoop(c))
                            /\ WF_connVars(c <= made /\ CloseEnds(c))

Spec == Init /\ [][Next]_connVars /\ Fairness

-----------------------------------------------------------------------------
\* A manager that is no longer in the table comes to an end, and so does every connection
\* it has been given, with both loops; also when it is replaced or stopped while it dials.
ReplacedDisconnects ==
  \A m \in Managers :
    m <= started /\ connections # m
      ~> /\ manager[m] = "ended"
         /\ \A c \in 1..made : conns[c].of = m =>
              conns[c].socket = "closed" /\ conns[c].recv = "ended" /\ conns[c].send = "ended"
=============================================================================
