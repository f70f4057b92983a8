--------------------------- MODULE ServiceDiscovery ---------------------------
(***************************************************************************)
(* Service discovery and active-standby over etcd (internal/util/          *)
(* sessionutil), two users of one revision log.  A watcher takes a         *)
(* snapshot (GetSessions) and follows the log (WatchServices); standby     *)
(* processes of an exclusive service compete for one key and wait for its  *)
(* deletion (ProcessActiveStandBy).  The goroutine that reads the          *)
(* watcher's channel is the one of examples/network/etcd-services.         *)
(*                                                                         *)
(* A node is one process that registers as ServiceRegistry describes; its  *)
(* keys are bound to its lease.  Some only serve, the others compete.      *)
(***************************************************************************)
EXTENDS Naturals, Sequences, FiniteSets

CONSTANTS
  Nodes, NoNode, \* processes of one service; the value of an absent key
  ActiveKey,     \* the key they compete for
  InRange,       \* the nodes whose version a version range accepts
  ChanCap,       \* capacity of the event channel (100)
  MaxRev         \* bound on the revisions of etcd

ASSUME DiscoveryAssumption ==
  /\ NoNode \notin Nodes /\ ActiveKey \notin Nodes \cup {NoNode} /\ InRange \subseteq Nodes
  /\ ChanCap \in Nat \ {0} /\ MaxRev \in Nat \ {0}

VARIABLES
  log, store, \* etcd: the events of each revision by key; the current records
  compacted,  \* etcd: the compaction revision
  leases,     \* etcd: the nodes whose lease is alive
  at,         \* where ProcessActiveStandBy of each node is
  from,       \* the revision a standby watches from
  isStandby, stopping, \* Session.isStandby, Session.Stopping
  going,      \* the key GoingStop is about to put, ActiveKey, the node, or NoNode
  troubled,   \* history: nodes whose transaction failed although it was applied
  w,          \* where the watcher's goroutine is
  next, snap, \* the next revision rch delivers; the revision of the last GetSessions
  todo,       \* events of the response in hand that are not sent yet
  eventCh, closed,    \* the event channel; whether it is closed
  competes,           \* the nodes that call ProcessActiveStandBy
  ranged, hasRewatch, \* WatchServicesWithVersionRange; a Rewatch is given
  cancelled,  \* Stop has been called
  reader,     \* "reads", or "left": it has called Stop or seen the channel closed
  view,       \* the nodes the reader is connected to
  overtaken, resnapped \* history: a snapshot passed buffered events; a second one was taken

etcd    == <<log, store, compacted, leases>>
standby == <<at, from, isStandby, stopping, going, troubled>>
watcher == <<w, next, snap, todo, eventCh, closed>>
user    == <<cancelled, reader, view, overtaken, resnapped>>
mode    == <<competes, ranged, hasRewatch>>
vars == <<etcd, standby, watcher, user, mode>>

Keys == Nodes \cup {ActiveKey}
Absent == [node |-> NoNode, stop |-> FALSE]
Records == [node : Nodes, stop : BOOLEAN]
Rev == Len(log)

\* One revision writes record r under the keys ks.
Put(ks, r) ==
  /\ Rev < MaxRev
  /\ log' = Append(log, [k \in ks |-> [type |-> IF r.stop THEN "update" ELSE "add", node |-> r.node]])
  /\ store' = [k \in Keys |-> IF k \in ks THEN r ELSE store[k]]

\* One revision deletes the keys ks; the events carry the previous records.
Delete(ks) ==
  /\ Rev < MaxRev
  /\ log' = Append(log, [k \in ks |-> [type |-> "del", node |-> store[k].node]])
  /\ store' = [k \in Keys |-> IF k \in ks THEN Absent ELSE store[k]]

\* What GetSessions would have returned at revision r.
PresentAt(r) ==
  {n \in Nodes : \E i \in 1..r : \E k \in DOMAIN log[i] :
      /\ log[i][k].node = n /\ log[i][k].type # "del"
      /\ \A j \in (i + 1)..r : k \notin DOMAIN log[j]}

\* The nodes that compete have registered by the first revision, with enableActiveStandBy
\* and so as standbys.  There may be no watcher.
Init ==
  /\ competes \in SUBSET Nodes /\ ranged \in BOOLEAN /\ hasRewatch \in BOOLEAN
  /\ log = <<[k \in competes |-> [type |-> "add", node |-> k]]>>
  /\ store = [k \in Keys |-> IF k \in competes THEN [node |-> k, stop |-> FALSE] ELSE Absent]
  /\ compacted \in {0, 1} /\ leases = competes
  /\ at = [n \in Nodes |-> IF n \in competes THEN "try" ELSE "new"] /\ from = [n \in Nodes |-> 0]
  /\ isStandby = [n \in Nodes |-> TRUE] /\ stopping = [n \in Nodes |-> FALSE]
  /\ going = [n \in Nodes |-> NoNode] /\ troubled = {}
  /\ w \in {"new", "done"} /\ next = 0 /\ snap = 0 /\ todo = {} /\ eventCh = <<>> /\ closed = FALSE
  /\ cancelled = FALSE /\ reader = "reads" /\ view = {}
  /\ overtaken = FALSE /\ resnapped = FALSE

Goto(n, label) == at' = [at EXCEPT ![n] = label]

-----------------------------------------------------------------------------
(* ProcessActiveStandBy, GoingStop, and the ends of a process.             *)

\* Register puts the session under its own key.
Join(n) ==
  /\ at[n] = "new" /\ Put({n}, [node |-> n, stop |-> FALSE])
  /\ leases' = leases \cup {n} /\ Goto(n, "serves")
  /\ UNCHANGED <<compacted, from, isStandby, stopping, going, troubled, watcher, user, mode>>

\* Mutant: a plain Put in the place of the transaction.
RegisterActiveBlind(n) ==
  /\ at[n] = "try" /\ n \in leases /\ Put({ActiveKey}, [node |-> n, stop |-> stopping[n]])
  /\ Goto(n, "won") /\ UNCHANGED troubled
  /\ UNCHANGED <<compacted, leases, from, isStandby, stopping, going, watcher, user, mode>>

\* registerActiveFn: the transaction puts the key if it is absent.  The client may see
\* an error of a transaction that was applied.
RegisterActive(n) ==
  /\ at[n] = "try" /\ store[ActiveKey] = Absent /\ n \in leases
  /\ Put({ActiveKey}, [node |-> n, stop |-> stopping[n]])
  /\ \/ Goto(n, "won") /\ UNCHANGED troubled
     \/ Goto(n, "failed") /\ troubled' = troubled \cup {n}
  /\ UNCHANGED <<compacted, leases, from, isStandby, stopping, going, watcher, user, mode>>

\* Mutant: the standby watches from behind the next revision.
ActiveExistsLate(n) ==
  /\ at[n] = "try" /\ store[ActiveKey] # Absent
  /\ from' = [from EXCEPT ![n] = Rev + 2] /\ Goto(n, "wait")
  /\ UNCHANGED <<etcd, isStandby, stopping, going, troubled, watcher, user, mode>>

\* The key is taken: watch it from the revision of the answer.
ActiveExists(n) ==
  /\ at[n] = "try" /\ store[ActiveKey] # Absent
  /\ from' = [from EXCEPT ![n] = Rev] /\ Goto(n, "wait")
  /\ UNCHANGED <<etcd, isStandby, stopping, going, troubled, watcher, user, mode>>

\* The call fails, for example because the lease is gone: the error is returned ...
RegisterActiveFails(n) ==
  /\ at[n] = "try" /\ Goto(n, "failed")
  /\ UNCHANGED <<etcd, from, isStandby, stopping, going, troubled, watcher, user, mode>>

\* ... and the caller may call again.
CallAgain(n) ==
  /\ at[n] = "failed" /\ Goto(n, "try") /\ isStandby' = [isStandby EXCEPT ![n] = TRUE]
  /\ UNCHANGED <<etcd, from, stopping, going, troubled, watcher, user, mode>>

\* Any response to the watch, a PUT too, and any error of it lead to another try.
Notified(n) == \E i \in 1..Rev : i >= from[n] /\ ActiveKey \in DOMAIN log[i]
WatchEnds(n) ==
  /\ at[n] = "wait" /\ Goto(n, "try") /\ from' = [from EXCEPT ![n] = 0]
  /\ UNCHANGED <<etcd, isStandby, stopping, going, troubled, watcher, user, mode>>

Activate(n) ==
  /\ at[n] = "won" /\ Goto(n, "active") /\ isStandby' = [isStandby EXCEPT ![n] = FALSE]
  /\ UNCHANGED <<etcd, from, stopping, going, troubled, watcher, user, mode>>

CompleteKey(n) == IF isStandby[n] THEN n ELSE ActiveKey

\* GoingStop counts the key; only then is the session marked and put.
GoingStop(n) ==
  /\ at[n] \notin {"new", "dead"} /\ ~stopping[n] /\ store[CompleteKey(n)] # Absent
  /\ stopping' = [stopping EXCEPT ![n] = TRUE] /\ going' = [going EXCEPT ![n] = CompleteKey(n)]
  /\ UNCHANGED <<etcd, at, from, isStandby, troubled, watcher, user, mode>>

\* The put fails without a lease.
GoingStopPut(n) ==
  /\ going[n] # NoNode /\ going' = [going EXCEPT ![n] = NoNode]
  /\ \/ n \in leases /\ Put({going[n]}, [node |-> n, stop |-> TRUE])
     \/ UNCHANGED <<log, store>>
  /\ UNCHANGED <<compacted, leases, at, from, isStandby, stopping, troubled, watcher, user, mode>>

\* A lease expires: its keys go in one revision.
Expire(n) ==
  /\ n \in leases /\ leases' = leases \ {n} /\ Delete({k \in Keys : store[k].node = n})
  /\ UNCHANGED <<compacted, standby, watcher, user, mode>>

\* A competing process ends: a crash, or the keep-alive goroutine has seen that the lease is lost.
Exit(n) ==
  /\ at[n] \notin {"new", "serves", "dead"} /\ Goto(n, "dead") /\ going' = [going EXCEPT ![n] = NoNode]
  /\ UNCHANGED <<etcd, from, isStandby, stopping, troubled, watcher, user, mode>>

\* One compaction, of any revisions.
Compact ==
  /\ compacted = 0 /\ compacted' \in (compacted + 1) .. Rev
  /\ UNCHANGED <<log, store, leases, standby, watcher, user, mode>>

-----------------------------------------------------------------------------
(* The watcher's goroutine.                                                *)

Valid(n) == ranged => n \in InRange

\* GetSessions, or GetSessionsWithVersionRange, and its use by the caller ...
GetSessions ==
  /\ w = "new" /\ w' = "snapshot" /\ snap' = Rev
  /\ view' = {n \in Nodes : Valid(n) /\ \E k \in Keys : store[k].node = n}
  /\ UNCHANGED <<etcd, standby, next, todo, eventCh, closed, cancelled, reader, overtaken, resnapped, mode>>

\* ... and then WatchServices from the same revision.
WatchServices ==
  /\ w = "snapshot" /\ w' = "loop" /\ next' = snap
  /\ UNCHANGED <<etcd, standby, snap, todo, eventCh, closed, user, mode>>

\* A response with the events of one revision; it may have been buffered since before
\* a compaction.
Receive ==
  /\ w = "loop" /\ next <= Rev /\ w' = "send" /\ next' = next + 1
  /\ todo' = {log[next][k] : k \in {k2 \in DOMAIN log[next] : Valid(log[next][k2].node)}}
  /\ UNCHANGED <<etcd, standby, snap, eventCh, closed, user, mode>>

\* Mutant: an unbounded channel.
SendUnbounded ==
  /\ w = "send"
  /\ \/ todo = {} /\ w' = "loop" /\ UNCHANGED <<todo, eventCh>>
     \/ \E e \in todo : eventCh' = Append(eventCh, e) /\ todo' = todo \ {e} /\ UNCHANGED w
  /\ UNCHANGED <<etcd, standby, next, snap, closed, user, mode>>

\* The send blocks while the channel is full, whatever the context says.
Send ==
  /\ w = "send"
  /\ \/ todo = {} /\ w' = "loop" /\ UNCHANGED <<todo, eventCh>>
     \/ \E e \in todo :
          /\ Len(eventCh) < ChanCap /\ eventCh' = Append(eventCh, e)
          /\ todo' = todo \ {e} /\ UNCHANGED w
  /\ UNCHANGED <<etcd, standby, next, snap, closed, user, mode>>

\* handleWatchErr: the revision to go on from was compacted; GetSessions ...
ErrCompacted ==
  /\ w = "loop" /\ next < compacted /\ w' = "rewatch" /\ snap' = Rev
  /\ UNCHANGED <<etcd, standby, next, todo, eventCh, closed, user, mode>>

\* Mutant: the new watch starts behind whatever the revision is by then.
RewatchFromNow ==
  /\ w = "rewatch" /\ w' = "loop" /\ next' = Rev + 1 /\ resnapped' = TRUE
  /\ view' = IF hasRewatch THEN PresentAt(snap) ELSE view
  /\ overtaken' = (overtaken \/ (hasRewatch /\ eventCh # <<>>))
  /\ UNCHANGED <<etcd, standby, snap, todo, eventCh, closed, cancelled, reader, mode>>

\* ... the Rewatch, if there is one, gets every session, whatever its version; the new
\* watch starts at the revision of the snapshot.
Rewatch ==
  /\ w = "rewatch" /\ w' = "loop" /\ next' = snap /\ resnapped' = TRUE
  /\ view' = IF hasRewatch THEN PresentAt(snap) ELSE view
  /\ overtaken' = (overtaken \/ (hasRewatch /\ eventCh # <<>>))
  /\ UNCHANGED <<etcd, standby, snap, todo, eventCh, closed, cancelled, reader, mode>>

\* Another error of the watch, or one of GetSessions or of the Rewatch: panic; the process
\* and its channel are gone.
WatchError ==
  /\ w = "loop" \/ (w = "rewatch" /\ hasRewatch)
  /\ w' = "panic" /\ closed' = TRUE /\ eventCh' = <<>>
  /\ UNCHANGED <<etcd, standby, next, snap, todo, user, mode>>

\* A DELETE whose previous revision was compacted carries no PrevKv: a nil dereference.
NoPrevKv ==
  /\ w = "loop" /\ next <= Rev /\ next <= compacted
  /\ \E k \in DOMAIN log[next] : log[next][k].type = "del"
  /\ w' = "panic" /\ eventCh' = <<>>
  /\ UNCHANGED <<etcd, standby, next, snap, todo, closed, user, mode>>

\* rch is closed: the session's context has ended.
RchClosed ==
  /\ w = "loop" /\ w' = "done" /\ closed' = TRUE
  /\ UNCHANGED <<etcd, standby, next, snap, todo, eventCh, user, mode>>

\* Mutant: the loop looks at its context only when a response comes.
CtxDoneLate ==
  /\ w = "loop" /\ cancelled /\ next <= Rev /\ w' = "done"
  /\ UNCHANGED <<etcd, standby, next, snap, todo, eventCh, closed, user, mode>>

CtxDone ==
  /\ w = "loop" /\ cancelled /\ w' = "done"
  /\ UNCHANGED <<etcd, standby, next, snap, todo, eventCh, closed, user, mode>>

Watcher ==
  \/ GetSessions \/ WatchServices \/ Receive \/ Send \/ ErrCompacted \/ Rewatch
  \/ WatchError \/ NoPrevKv \/ RchClosed \/ CtxDone

-----------------------------------------------------------------------------
(* The reader of the channel, and Stop.                                    *)

Read ==
  /\ reader = "reads" /\ w # "panic" /\ eventCh # <<>> /\ eventCh' = Tail(eventCh)
  /\ view' = CASE Head(eventCh).type = "add" -> view \cup {Head(eventCh).node}
               [] Head(eventCh).type = "del" -> view \ {Head(eventCh).node}
               [] OTHER -> view
  /\ UNCHANGED <<etcd, standby, w, next, snap, todo, closed, cancelled, reader, overtaken, resnapped, mode>>

ReadClosed ==
  /\ reader = "reads" /\ w # "panic" /\ eventCh = <<>> /\ closed /\ reader' = "left"
  /\ UNCHANGED <<etcd, standby, watcher, cancelled, view, overtaken, resnapped, mode>>

\* Stop cancels and waits: called by the reader itself, or by another goroutine.
Stop ==
  /\ w \notin {"new", "snapshot", "panic"} /\ ~cancelled /\ cancelled' = TRUE
  /\ reader' \in {reader, "left"}
  /\ UNCHANGED <<etcd, standby, watcher, view, overtaken, resnapped, mode>>

Active(n) ==
  \/ Join(n) \/ RegisterActive(n) \/ ActiveExists(n) \/ RegisterActiveFails(n)
  \/ CallAgain(n) \/ WatchEnds(n) \/ Activate(n) \/ GoingStop(n) \/ GoingStopPut(n)
  \/ Expire(n) \/ Exit(n)

Next == (\E n \in Nodes : Active(n)) \/ Compact \/ Watcher \/ Read \/ ReadClosed \/ Stop

Spec == Init /\ [][Next]_vars

\* Goroutines run on, etcd answers and delivers what it has, and a lease that nobody
\* keeps alive expires.  Errors, compaction and Stop may never come.
Fairness ==
  /\ \A n \in Nodes :
       /\ WF_vars(\/ RegisterActive(n) \/ ActiveExists(n) \/ RegisterActiveFails(n)
                  \/ (Notified(n) /\ WatchEnds(n)) \/ Activate(n))
       /\ WF_vars(at[n] = "dead" /\ Expire(n))
  /\ WF_vars(GetSessions \/ WatchServices \/ Receive \/ Send \/ Rewatch \/ CtxDone)
  /\ WF_vars(Read \/ ReadClosed)

FairSpec == Spec /\ Fairness

-----------------------------------------------------------------------------
(* Properties.                                                             *)

Events == [type : {"add", "update", "del"}, node : Nodes]

\* Shapes: records are of their node, the channel is bounded, the log holds events.
TypeOK ==
  /\ log \in Seq(UNION {[ks -> Events] : ks \in SUBSET Keys}) /\ Rev \in 1..MaxRev
  /\ store \in [Keys -> Records \cup {Absent}] /\ compacted \in 0..Rev /\ leases \subseteq Nodes
  /\ at \in [Nodes -> {"new", "serves", "try", "wait", "failed", "won", "active", "dead"}]
  /\ from \in [Nodes -> 0..MaxRev] /\ going \in [Nodes -> Keys \cup {NoNode}]
  /\ isStandby \in [Nodes -> BOOLEAN] /\ stopping \in [Nodes -> BOOLEAN] /\ troubled \subseteq Nodes
  /\ w \in {"new", "snapshot", "loop", "send", "rewatch", "panic", "done"}
  /\ next \in 0..(MaxRev + 1) /\ snap \in 0..MaxRev /\ todo \subseteq Events
  /\ eventCh \in Seq(Events) /\ Len(eventCh) <= ChanCap /\ closed \in BOOLEAN
  /\ competes \subseteq Nodes /\ ranged \in BOOLEAN /\ hasRewatch \in BOOLEAN /\ cancelled \in BOOLEAN
  /\ reader \in {"reads", "left"} /\ view \subseteq Nodes
  /\ overtaken \in BOOLEAN /\ resnapped \in BOOLEAN

\* When the reader has taken every event of the revisions received, its connections are
\* the sessions of that revision: GetSessions' revision "avoids missing events"
\* (session_util.go:598).  A compaction in between needs a Rewatch, no version range, and
\* no event in the channel when the Rewatch runs.
CaughtUpIsCurrent ==
  (/\ w = "loop" /\ eventCh = <<>> /\ ~overtaken
   /\ resnapped => hasRewatch /\ ~ranged)
     => LET r == IF next <= snap THEN snap ELSE next - 1
        IN  view = {n \in PresentAt(r) : Valid(n)}

\* A process that is ACTIVE, or about to be, holds the active key as long as its lease
\* lives: no two processes with leases are ACTIVE (ProcessActiveStandBy, step 3).
OneActive == \A n \in Nodes : at[n] \in {"won", "active"} /\ n \in leases => store[ActiveKey].node = n

\* A standby notices that the key is free: it or another becomes ACTIVE, or its own call
\* returns an error.  An applied transaction that looked failed is the exception.
StandbyTakesOver ==
  \A n \in Nodes :
    (at[n] = "wait" /\ store[ActiveKey] = Absent) ~>
      \/ \E m \in Nodes : at[m] = "active" /\ store[ActiveKey].node = m
      \/ at[n] \in {"failed", "dead"} \/ n \notin leases \/ troubled # {} \/ Rev = MaxRev

\* Stop returns when somebody reads on; when the reader itself calls Stop, it returns
\* unless the goroutine is blocked on the full channel.
StopReturns ==
  cancelled ~> (w \in {"done", "panic"} \/ (w = "send" /\ Len(eventCh) = ChanCap /\ reader = "left"))
=============================================================================
