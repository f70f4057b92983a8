------------------------ MODULE ServiceDiscoveryProofs ------------------------
(***************************************************************************)
(* Proofs about ServiceDiscovery.  First, at most one process with a live  *)
(* lease is ACTIVE: the inductive invariant says, beyond the property,     *)
(* where a process that is no standby can be and which key its GoingStop   *)
(* may put.  Then the types, and that a reader who has caught up knows the *)
(* sessions of the revision the watcher is at: one invariant relates the   *)
(* log of revisions to the store, another the view, the channel and the    *)
(* response in hand to the log.                                            *)
(***************************************************************************)
EXTENDS ServiceDiscovery, SeqLemmas

Labels == {"new", "serves", "try", "wait", "failed", "won", "active", "dead"}

\* The types the argument needs.
ActiveTypes ==
  /\ store \in [Keys -> Records \cup {Absent}] /\ leases \subseteq Nodes
  /\ at \in [Nodes -> Labels] /\ going \in [Nodes -> Keys \cup {NoNode}]
  /\ isStandby \in [Nodes -> BOOLEAN] /\ stopping \in [Nodes -> BOOLEAN]

\* A process that is no standby has been activated; only such a process puts the active
\* key in GoingStop, and no process puts the key of another.
NoStandbyIsActive == \A n \in Nodes : isStandby[n] \/ at[n] \in {"active", "dead"}
GoingIsOwn ==
  \A n \in Nodes : going[n] \in {n, NoNode} \/ (going[n] = ActiveKey /\ at[n] = "active")

ActiveInv == ActiveTypes /\ NoStandbyIsActive /\ GoingIsOwn /\ OneActive

LEMMA InitActive == Init => ActiveInv
<1> SUFFICES ASSUME Init PROVE ActiveInv
  OBVIOUS
<1> USE DiscoveryAssumption DEF Init
<1>1. ActiveTypes
  <2>1. store \in [Keys -> Records \cup {Absent}]
    BY DEF Keys, Records, Absent
  <2>2. going \in [Nodes -> Keys \cup {NoNode}]
    OBVIOUS
  <2>3. at \in [Nodes -> Labels]
    BY DEF Labels
  <2>4. leases \subseteq Nodes /\ isStandby \in [Nodes -> BOOLEAN] /\ stopping \in [Nodes -> BOOLEAN]
    OBVIOUS
  <2> QED BY <2>1, <2>2, <2>3, <2>4 DEF ActiveTypes
<1>2. NoStandbyIsActive /\ GoingIsOwn
  BY DEF NoStandbyIsActive, GoingIsOwn
<1>3. OneActive
  BY DEF OneActive
<1> QED BY <1>1, <1>2, <1>3 DEF ActiveInv

\* A step that leaves all of these variables alone.
LEMMA ActiveStutter ==
  ASSUME ActiveInv, UNCHANGED <<store, leases, at, going, isStandby, stopping>>
  PROVE  ActiveInv'
BY DEF ActiveInv, ActiveTypes, NoStandbyIsActive, GoingIsOwn, OneActive

LEMMA StepActive == ActiveInv /\ [Next]_vars => ActiveInv'
<1> SUFFICES ASSUME ActiveInv, [Next]_vars PROVE ActiveInv'
  OBVIOUS
<1> USE DiscoveryAssumption
<1>1. ASSUME NEW n \in Nodes, Join(n) PROVE ActiveInv'
  <2>1. [node |-> n, stop |-> FALSE] \in Records
    BY DEF Records
  <2> QED BY <1>1, <2>1 DEF Join, Put, Goto, Keys, Labels, ActiveInv, ActiveTypes, NoStandbyIsActive, GoingIsOwn, OneActive
<1>2. ASSUME NEW n \in Nodes, RegisterActive(n) PROVE ActiveInv'
  <2>1. [node |-> n, stop |-> stopping[n]] \in Records
    BY DEF Records, ActiveInv, ActiveTypes
  <2>2. \A m \in Nodes : m \in leases => at[m] \notin {"won", "active"}
    BY <1>2 DEF RegisterActive, Absent, ActiveInv, OneActive
  <2>3. store'[ActiveKey].node = n
    BY <1>2 DEF RegisterActive, Put, Keys
  <2>4. ActiveTypes'
    BY <1>2, <2>1 DEF RegisterActive, Put, Goto, Keys, Labels, ActiveInv, ActiveTypes, standby
  <2>5. \A m \in Nodes \ {n} : at'[m] = at[m]
    BY <1>2 DEF RegisterActive, Goto, ActiveInv, ActiveTypes
  <2>6. OneActive'
    BY <1>2, <2>2, <2>3, <2>5 DEF RegisterActive, OneActive
  <2>7. (NoStandbyIsActive /\ GoingIsOwn)'
    BY <1>2, <2>5 DEF RegisterActive, ActiveInv, ActiveTypes, NoStandbyIsActive, GoingIsOwn
  <2> QED BY <2>4, <2>6, <2>7 DEF ActiveInv
<1>3. ASSUME NEW n \in Nodes, ActiveExists(n) \/ RegisterActiveFails(n) \/ WatchEnds(n) PROVE ActiveInv'
  BY <1>3 DEF ActiveExists, RegisterActiveFails, WatchEnds, Goto, etcd, Labels, ActiveInv, ActiveTypes,
     NoStandbyIsActive, GoingIsOwn, OneActive
<1>4. ASSUME NEW n \in Nodes, CallAgain(n) \/ Activate(n) PROVE ActiveInv'
  <2>1. ActiveTypes'
    BY <1>4 DEF CallAgain, Activate, Goto, etcd, Labels, ActiveInv, ActiveTypes
  <2>2. \A m \in Nodes \ {n} : at'[m] = at[m] /\ isStandby'[m] = isStandby[m]
    BY <1>4 DEF CallAgain, Activate, Goto, ActiveInv, ActiveTypes
  <2>3. isStandby'[n] \/ at'[n] = "active"
    BY <1>4 DEF CallAgain, Activate, Goto, ActiveInv, ActiveTypes
  <2>4. going' = going /\ store' = store /\ leases' = leases
    BY <1>4 DEF CallAgain, Activate, etcd
  <2>5. at[n] # "active"
    BY <1>4 DEF CallAgain, Activate
  <2>6. at'[n] = "active" => at[n] = "won"
    BY <1>4 DEF CallAgain, Activate, Goto, ActiveInv, ActiveTypes
  <2>7. at'[n] # "won"
    BY <1>4 DEF CallAgain, Activate, Goto, ActiveInv, ActiveTypes
  <2>8. NoStandbyIsActive'
    BY <2>2, <2>3 DEF ActiveInv, NoStandbyIsActive
  <2>9. GoingIsOwn'
    BY <2>2, <2>4, <2>5 DEF ActiveInv, GoingIsOwn
  <2>10. OneActive'
    BY <2>2, <2>4, <2>6, <2>7 DEF ActiveInv, OneActive
  <2> QED BY <2>1, <2>8, <2>9, <2>10 DEF ActiveInv
<1>5. ASSUME NEW n \in Nodes, GoingStop(n) PROVE ActiveInv'
  BY <1>5 DEF GoingStop, CompleteKey, Keys, etcd, ActiveInv, ActiveTypes, NoStandbyIsActive, GoingIsOwn, OneActive
<1>6. ASSUME NEW n \in Nodes, GoingStopPut(n) PROVE ActiveInv'
  <2>1. [node |-> n, stop |-> TRUE] \in Records
    BY DEF Records
  <2>2. ActiveTypes'
    <3>1. store' \in [Keys -> Records \cup {Absent}]
      <4>1. CASE UNCHANGED store
        BY <4>1 DEF ActiveInv, ActiveTypes
      <4>2. CASE Put({going[n]}, [node |-> n, stop |-> TRUE])
        BY <4>2, <2>1 DEF Put, ActiveInv, ActiveTypes
      <4> QED BY <1>6, <4>1, <4>2 DEF GoingStopPut
    <3>2. going' \in [Nodes -> Keys \cup {NoNode}]
      BY <1>6 DEF GoingStopPut, ActiveInv, ActiveTypes
    <3>3. UNCHANGED <<leases, at, isStandby, stopping>>
      BY <1>6 DEF GoingStopPut
    <3> QED BY <3>1, <3>2, <3>3 DEF ActiveInv, ActiveTypes
  <2>3. (NoStandbyIsActive /\ GoingIsOwn)'
    BY <1>6 DEF GoingStopPut, ActiveInv, ActiveTypes, NoStandbyIsActive, GoingIsOwn
  <2>4. n \in leases /\ going[n] = ActiveKey => store[ActiveKey].node = n
    BY DEF ActiveInv, GoingIsOwn, OneActive
  <2>5. store'[ActiveKey].node = store[ActiveKey].node
    BY <1>6, <2>4 DEF GoingStopPut, Put, Keys, ActiveInv, GoingIsOwn
  <2>6. OneActive'
    BY <1>6, <2>5 DEF GoingStopPut, ActiveInv, OneActive
  <2> QED BY <2>2, <2>3, <2>6 DEF ActiveInv
<1>7. ASSUME NEW n \in Nodes, Expire(n) PROVE ActiveInv'
  <2>1. \A m \in Nodes \ {n} : store[ActiveKey].node = m => store'[ActiveKey] = store[ActiveKey]
    BY <1>7 DEF Expire, Delete, Keys
  <2>2. ActiveTypes'
    BY <1>7 DEF Expire, Delete, standby, Keys, ActiveInv, ActiveTypes
  <2>3. (NoStandbyIsActive /\ GoingIsOwn)'
    BY <1>7 DEF Expire, standby, ActiveInv, NoStandbyIsActive, GoingIsOwn
  <2>4. OneActive'
    BY <1>7, <2>1 DEF Expire, standby, ActiveInv, OneActive
  <2> QED BY <2>2, <2>3, <2>4 DEF ActiveInv
<1>8. ASSUME NEW n \in Nodes, Exit(n) PROVE ActiveInv'
  BY <1>8 DEF Exit, Goto, etcd, Labels, ActiveInv, ActiveTypes, NoStandbyIsActive, GoingIsOwn, OneActive
<1>9. CASE Compact
  BY <1>9, ActiveStutter DEF Compact, standby
<1>10. CASE Watcher
  BY <1>10, ActiveStutter DEF Watcher, GetSessions, WatchServices, Receive, Send, ErrCompacted, Rewatch,
     WatchError, NoPrevKv, RchClosed, CtxDone, etcd, standby
<1>11. CASE Read \/ ReadClosed \/ Stop
  BY <1>11, ActiveStutter DEF Read, ReadClosed, Stop, etcd, standby
<1>12. CASE UNCHANGED vars
  BY <1>12, ActiveStutter DEF vars, etcd, standby
<1> QED
  BY <1>1, <1>2, <1>3, <1>4, <1>5, <1>6, <1>7, <1>8, <1>9, <1>10, <1>11, <1>12 DEF Next, Active

\* ProcessActiveStandBy never makes a second process ACTIVE while the lease of the first
\* one lives, whatever calls fail, are repeated or race with GoingStop and lease expiry.
THEOREM AtMostOneActive == Spec => []OneActive
<1>1. ActiveInv => OneActive
  BY DEF ActiveInv
<1> QED BY InitActive, StepActive, <1>1, PTL DEF Spec

USE DiscoveryAssumption

-----------------------------------------------------------------------------
(* Type correctness.                                                       *)

Revisions == UNION {[ks -> Events] : ks \in SUBSET Keys}

EtcdOK ==
  /\ log \in Seq(Revisions) /\ Rev \in 1..MaxRev
  /\ store \in [Keys -> Records \cup {Absent}] /\ compacted \in 0..Rev /\ leases \subseteq Nodes
StandbyOK ==
  /\ at \in [Nodes -> Labels] /\ from \in [Nodes -> 0..MaxRev] /\ going \in [Nodes -> Keys \cup {NoNode}]
  /\ isStandby \in [Nodes -> BOOLEAN] /\ stopping \in [Nodes -> BOOLEAN] /\ troubled \subseteq Nodes
WatcherOK ==
  /\ w \in {"new", "snapshot", "loop", "send", "rewatch", "panic", "done"}
  /\ next \in 0..(MaxRev + 1) /\ snap \in 0..MaxRev /\ todo \subseteq Events
  /\ eventCh \in Seq(Events) /\ Len(eventCh) <= ChanCap /\ closed \in BOOLEAN
UserOK ==
  /\ cancelled \in BOOLEAN /\ reader \in {"reads", "left"} /\ view \subseteq Nodes
  /\ overtaken \in BOOLEAN /\ resnapped \in BOOLEAN
ModeOK == competes \subseteq Nodes /\ ranged \in BOOLEAN /\ hasRewatch \in BOOLEAN

\* The invariant in parts, one per group of variables.
LEMMA TypeParts == TypeOK <=> EtcdOK /\ StandbyOK /\ WatcherOK /\ UserOK /\ ModeOK
BY DEF TypeOK, EtcdOK, StandbyOK, WatcherOK, UserOK, ModeOK, Revisions, Labels

\* A revision is a function from some keys to events.
LEMMA RevisionType ==
  ASSUME NEW ks \in SUBSET Keys, NEW e \in [ks -> Events]
  PROVE  e \in Revisions
BY DEF Revisions

\* ... and holds one event per key.
LEMMA EventsOf ==
  ASSUME NEW e \in Revisions
  PROVE  DOMAIN e \subseteq Keys /\ \A k \in DOMAIN e : e[k] \in Events
BY DEF Revisions

\* The revision that Put and Delete write.
PutEvents(ks, r) == [k \in ks |-> [type |-> IF r.stop THEN "update" ELSE "add", node |-> r.node]]
DelEvents(ks) == [k \in ks |-> [type |-> "del", node |-> store[k].node]]

\* A put and a deletion keep the shape of the log and of the store.
LEMMA PutType ==
  ASSUME EtcdOK, NEW ks \in SUBSET Keys, NEW r \in Records, Put(ks, r)
  PROVE  /\ log' \in Seq(Revisions) /\ Rev' = Rev + 1 /\ Rev' \in 1..MaxRev
         /\ store' \in [Keys -> Records \cup {Absent}]
         /\ PutEvents(ks, r) \in Revisions /\ log' = Append(log, PutEvents(ks, r))
<1>1. PutEvents(ks, r) \in [ks -> Events]
  BY DEF PutEvents, Events, Records
<1>2. PutEvents(ks, r) \in Revisions
  BY <1>1, RevisionType
<1>3. log' = Append(log, PutEvents(ks, r)) /\ Rev < MaxRev
  BY DEF Put, PutEvents
<1>4. log \in Seq(Revisions) /\ Rev \in Nat
  BY DEF EtcdOK, Rev
<1>5. log' \in Seq(Revisions) /\ Len(log') = Len(log) + 1
  BY <1>2, <1>3, <1>4, Push
<1>6. store' \in [Keys -> Records \cup {Absent}]
  BY DEF Put, EtcdOK
<1> QED BY <1>2, <1>3, <1>4, <1>5, <1>6 DEF Rev, EtcdOK

LEMMA DeleteType ==
  ASSUME EtcdOK, NEW n \in Nodes, NEW ks \in SUBSET Keys, \A k \in ks : store[k].node = n, Delete(ks)
  PROVE  /\ log' \in Seq(Revisions) /\ Rev' = Rev + 1 /\ Rev' \in 1..MaxRev
         /\ store' \in [Keys -> Records \cup {Absent}]
         /\ DelEvents(ks) \in Revisions /\ log' = Append(log, DelEvents(ks))
<1>1. DelEvents(ks) \in [ks -> Events]
  BY DEF DelEvents, Events
<1>2. DelEvents(ks) \in Revisions
  BY <1>1, RevisionType
<1>3. log' = Append(log, DelEvents(ks)) /\ Rev < MaxRev
  BY DEF Delete, DelEvents
<1>4. log \in Seq(Revisions) /\ Rev \in Nat
  BY DEF EtcdOK, Rev
<1>5. log' \in Seq(Revisions) /\ Len(log') = Len(log) + 1
  BY <1>2, <1>3, <1>4, Push
<1>6. store' \in [Keys -> Records \cup {Absent}]
  BY DEF Delete, EtcdOK
<1> QED BY <1>2, <1>3, <1>4, <1>5, <1>6 DEF Rev, EtcdOK

\* The first state has these shapes.
LEMMA InitTypes == Init => TypeOK
<1> SUFFICES ASSUME Init PROVE EtcdOK /\ StandbyOK /\ WatcherOK /\ UserOK /\ ModeOK
  BY TypeParts
<1> USE DEF Init
<1>1. EtcdOK
  <2>1. [k \in competes |-> [type |-> "add", node |-> k]] \in [competes -> Events]
    BY DEF Events
  <2>2. [k \in competes |-> [type |-> "add", node |-> k]] \in Revisions
    BY <2>1, RevisionType DEF Keys
  <2>3. log \in Seq(Revisions) /\ Rev = 1
    BY <2>2 DEF Rev
  <2>4. store \in [Keys -> Records \cup {Absent}]
    BY DEF Keys, Records, Absent
  <2> QED BY <2>3, <2>4 DEF EtcdOK
<1>2. StandbyOK
  BY DEF StandbyOK, Labels, Keys
<1>3. WatcherOK
  <2>1. eventCh \in Seq(Events) /\ Len(eventCh) = 0
    OBVIOUS
  <2>2. Len(eventCh) <= ChanCap /\ 0 \in 0..(MaxRev + 1) /\ 0 \in 0..MaxRev
    BY <2>1
  <2>3. next = 0 /\ snap = 0 /\ todo = {} /\ closed = FALSE /\ w \in {"new", "done"}
    OBVIOUS
  <2> QED BY <2>1, <2>2, <2>3 DEF WatcherOK
<1>4. UserOK /\ ModeOK
  BY DEF UserOK, ModeOK
<1> QED BY <1>1, <1>2, <1>3, <1>4

\* The etcd part only changes in these ways.
LEMMA EtcdStep == TypeOK /\ Next => EtcdOK'
<1> SUFFICES ASSUME EtcdOK, StandbyOK, Next PROVE EtcdOK'
  BY TypeParts
<1>0. UNCHANGED etcd => EtcdOK'
  BY DEF etcd, EtcdOK, Rev
<1>p. ASSUME NEW ks \in SUBSET Keys, NEW r \in Records, Put(ks, r), compacted' = compacted,
             leases' \subseteq Nodes
      PROVE  EtcdOK'
  <2>1. log' \in Seq(Revisions) /\ Rev' = Rev + 1 /\ Rev' \in 1..MaxRev
        /\ store' \in [Keys -> Records \cup {Absent}]
    BY <1>p, PutType
  <2>2. compacted' \in 0..Rev'
    BY <1>p, <2>1 DEF EtcdOK
  <2> QED BY <1>p, <2>1, <2>2 DEF EtcdOK
<1>1. ASSUME NEW n \in Nodes, Join(n) PROVE EtcdOK'
  <2>1. [node |-> n, stop |-> FALSE] \in Records /\ {n} \in SUBSET Keys
    BY DEF Records, Keys
  <2> QED BY <1>1, <1>p, <2>1 DEF Join, EtcdOK
<1>2. ASSUME NEW n \in Nodes, RegisterActive(n) PROVE EtcdOK'
  <2>1. [node |-> n, stop |-> stopping[n]] \in Records /\ {ActiveKey} \in SUBSET Keys
    BY DEF Records, Keys, StandbyOK
  <2> QED BY <1>2, <1>p, <2>1 DEF RegisterActive, EtcdOK
<1>3. ASSUME NEW n \in Nodes, GoingStopPut(n) PROVE EtcdOK'
  <2>1. [node |-> n, stop |-> TRUE] \in Records /\ {going[n]} \in SUBSET Keys
    BY <1>3 DEF Records, StandbyOK, GoingStopPut
  <2>2. CASE Put({going[n]}, [node |-> n, stop |-> TRUE])
    BY <1>3, <1>p, <2>1, <2>2 DEF GoingStopPut, EtcdOK
  <2>3. CASE UNCHANGED <<log, store>>
    BY <1>0, <1>3, <2>3 DEF GoingStopPut, etcd
  <2> QED BY <1>3, <2>2, <2>3 DEF GoingStopPut
<1>4. ASSUME NEW n \in Nodes, Expire(n) PROVE EtcdOK'
  BY <1>4, DeleteType DEF Expire, EtcdOK
<1>5. ASSUME NEW n \in Nodes,
             \/ ActiveExists(n) \/ RegisterActiveFails(n) \/ CallAgain(n) \/ WatchEnds(n) \/ Activate(n)
             \/ GoingStop(n) \/ Exit(n)
      PROVE  EtcdOK'
  BY <1>0, <1>5 DEF ActiveExists, RegisterActiveFails, CallAgain, WatchEnds, Activate, GoingStop, Exit
<1>6. CASE Compact
  BY <1>6 DEF Compact, EtcdOK, Rev
<1>7. CASE Watcher \/ Read \/ ReadClosed \/ Stop
  BY <1>0, <1>7 DEF Watcher, GetSessions, WatchServices, Receive, Send, ErrCompacted, Rewatch,
     WatchError, NoPrevKv, RchClosed, CtxDone, Read, ReadClosed, Stop
<1> QED BY <1>1, <1>2, <1>3, <1>4, <1>5, <1>6, <1>7 DEF Next, Active

\* The labels, flags and revisions of the processes keep their values.
LEMMA StandbyStep == TypeOK /\ Next => StandbyOK'
<1> SUFFICES ASSUME EtcdOK, StandbyOK, Next PROVE StandbyOK'
  BY TypeParts
<1> USE DEF StandbyOK, Goto, Labels
<1>0. UNCHANGED standby => StandbyOK'
  BY DEF standby
<1>1. ASSUME NEW n \in Nodes, Join(n) \/ RegisterActive(n) PROVE StandbyOK'
  BY <1>1 DEF Join, RegisterActive
<1>2. ASSUME NEW n \in Nodes, ActiveExists(n) \/ WatchEnds(n) PROVE StandbyOK'
  <2>1. Rev \in 0..MaxRev /\ 0 \in 0..MaxRev
    BY DEF EtcdOK
  <2> QED BY <1>2, <2>1 DEF ActiveExists, WatchEnds
<1>3. ASSUME NEW n \in Nodes, RegisterActiveFails(n) \/ CallAgain(n) \/ Activate(n) PROVE StandbyOK'
  BY <1>3 DEF RegisterActiveFails, CallAgain, Activate
<1>4. ASSUME NEW n \in Nodes, GoingStop(n) \/ GoingStopPut(n) \/ Exit(n) PROVE StandbyOK'
  <2>1. \/ going' = [going EXCEPT ![n] = NoNode] \/ going' = [going EXCEPT ![n] = CompleteKey(n)]
    BY <1>4 DEF GoingStop, GoingStopPut, Exit
  <2>2. CompleteKey(n) \in Keys
    BY DEF CompleteKey, Keys
  <2>3. going' \in [Nodes -> Keys \cup {NoNode}]
    BY <2>1, <2>2
  <2>4. at' \in [Nodes -> Labels] /\ stopping' \in [Nodes -> BOOLEAN]
    <3>1. at' = at \/ at' = [at EXCEPT ![n] = "dead"]
      BY <1>4 DEF GoingStop, GoingStopPut, Exit
    <3>2. stopping' = stopping \/ stopping' = [stopping EXCEPT ![n] = TRUE]
      BY <1>4 DEF GoingStop, GoingStopPut, Exit
    <3> QED BY <3>1, <3>2
  <2>5. UNCHANGED <<from, isStandby, troubled>>
    BY <1>4 DEF GoingStop, GoingStopPut, Exit
  <2> QED BY <2>3, <2>4, <2>5
<1>5. ASSUME NEW n \in Nodes, Expire(n) PROVE StandbyOK'
  BY <1>0, <1>5 DEF Expire
<1>6. CASE Compact \/ Watcher \/ Read \/ ReadClosed \/ Stop
  BY <1>0, <1>6 DEF Compact, Watcher, GetSessions, WatchServices, Receive, Send, ErrCompacted, Rewatch,
     WatchError, NoPrevKv, RchClosed, CtxDone, Read, ReadClosed, Stop
<1> QED BY <1>1, <1>2, <1>3, <1>4, <1>5, <1>6 DEF Next, Active

\* A step that changes nothing.
LEMMA TypesStutter == TypeOK /\ UNCHANGED vars => TypeOK'
BY DEF TypeOK, Rev, vars, etcd, standby, watcher, user, mode

\* A watch starts at a revision of the log.
WatchPos ==
  /\ w \in {"snapshot", "rewatch"} => snap \in 1..Rev
  /\ w \in {"loop", "send"} => next \in 1..(Rev + 1) /\ snap \in 1..Rev /\ snap <= next

\* No step moves a watch behind what etcd has written.
LEMMA WatchPosStep == TypeOK /\ WatchPos /\ [Next]_vars => WatchPos'
<1> SUFFICES ASSUME EtcdOK, EtcdOK', StandbyOK, WatchPos, WatcherOK, [Next]_vars PROVE WatchPos'
  <2>1. UNCHANGED vars /\ EtcdOK => EtcdOK'
    BY DEF vars, etcd, EtcdOK, Rev
  <2> QED BY <2>1, EtcdStep, TypeParts
<1> USE DEF WatchPos
<1>0. Rev \in Nat /\ Rev \in 1..MaxRev
  BY DEF EtcdOK
<1>1. ASSUME UNCHANGED <<w, next, snap>>, Rev' = Rev \/ Rev' = Rev + 1 PROVE WatchPos'
  BY <1>0, <1>1
<1>2. ASSUME NEW n \in Nodes, Active(n) PROVE WatchPos'
  <2>1. UNCHANGED <<w, next, snap>>
    BY <1>2 DEF Active, Join, RegisterActive, ActiveExists, RegisterActiveFails, CallAgain, WatchEnds,
       Activate, GoingStop, GoingStopPut, Expire, Exit, watcher
  <2>2. UNCHANGED log \/ \E e : log' = Append(log, e)
    BY <1>2 DEF Active, Join, RegisterActive, ActiveExists, RegisterActiveFails, CallAgain, WatchEnds,
       Activate, GoingStop, GoingStopPut, Expire, Exit, etcd, Put, Delete
  <2>3. Rev' = Rev \/ Rev' = Rev + 1
    BY <2>2 DEF Rev, EtcdOK
  <2> QED BY <1>1, <2>1, <2>3
<1>3. CASE Watcher \/ Read \/ ReadClosed \/ Stop \/ Compact
  <2>1. Rev' = Rev
    BY <1>3 DEF Watcher, GetSessions, WatchServices, Receive, Send, ErrCompacted, Rewatch,
       WatchError, NoPrevKv, RchClosed, CtxDone, Read, ReadClosed, Stop, Compact, etcd, Rev
  <2>2. CASE Watcher
    BY <1>0, <2>1, <2>2 DEF Watcher, GetSessions, WatchServices, Receive, Send, ErrCompacted, Rewatch,
       WatchError, NoPrevKv, RchClosed, CtxDone, WatcherOK
  <2>3. CASE Read \/ ReadClosed \/ Stop \/ Compact
    BY <1>1, <2>1, <2>3 DEF Read, ReadClosed, Stop, Compact, watcher
  <2> QED BY <1>3, <2>2, <2>3
<1>4. CASE UNCHANGED vars
  BY <1>1, <1>4 DEF vars, watcher, etcd, Rev
<1> QED BY <1>2, <1>3, <1>4 DEF Next

\* The watcher takes events of the log and respects the capacity of the channel.
LEMMA WatcherStep == TypeOK /\ WatchPos /\ Next => WatcherOK'
<1> SUFFICES ASSUME EtcdOK, WatcherOK, WatchPos, Next PROVE WatcherOK'
  BY TypeParts
<1>0. UNCHANGED watcher => WatcherOK'
  BY DEF watcher, WatcherOK
<1>r. Rev \in 1..MaxRev /\ Rev \in Nat /\ MaxRev \in Nat
  BY DEF EtcdOK
<1>1. ASSUME NEW n \in Nodes, Active(n) PROVE WatcherOK'
  BY <1>0, <1>1 DEF Active, Join, RegisterActive, ActiveExists, RegisterActiveFails, CallAgain, WatchEnds,
     Activate, GoingStop, GoingStopPut, Expire, Exit
<1>2. CASE Compact \/ ReadClosed \/ Stop
  BY <1>0, <1>2 DEF Compact, ReadClosed, Stop
<1>3. CASE GetSessions \/ WatchServices \/ ErrCompacted \/ Rewatch
  BY <1>r, <1>3 DEF GetSessions, WatchServices, ErrCompacted, Rewatch, WatcherOK
<1>4. CASE Receive
  <2>1. log[next] \in Revisions
    <3>1. next \in 1..Len(log)
      BY <1>r, <1>4 DEF Receive, WatcherOK, WatchPos, Rev
    <3> QED BY <3>1 DEF EtcdOK
  <2>2. todo' \subseteq Events
    BY <1>4, <2>1, EventsOf DEF Receive
  <2>3. next' \in 0..(MaxRev + 1)
    BY <1>r, <1>4 DEF Receive, WatcherOK
  <2> QED BY <1>4, <2>2, <2>3 DEF Receive, WatcherOK
<1>5. CASE Send
  <2>1. CASE UNCHANGED <<todo, eventCh>> /\ w' = "loop"
    BY <1>5, <2>1 DEF Send, WatcherOK
  <2>2. ASSUME NEW e \in todo, Len(eventCh) < ChanCap, eventCh' = Append(eventCh, e), todo' = todo \ {e},
               UNCHANGED w
        PROVE  WatcherOK'
    <3>1. e \in Events /\ eventCh \in Seq(Events) /\ Len(eventCh) \in Nat
      BY DEF WatcherOK
    <3>2. eventCh' \in Seq(Events) /\ Len(eventCh') = Len(eventCh) + 1
      BY <2>2, <3>1, Push
    <3>3. Len(eventCh') <= ChanCap
      BY <2>2, <3>1, <3>2
    <3> QED BY <1>5, <2>2, <3>2, <3>3 DEF Send, WatcherOK
  <2> QED BY <1>5, <2>1, <2>2 DEF Send
<1>6. CASE WatchError \/ NoPrevKv
  <2>1. eventCh' = <<>>
    BY <1>6 DEF WatchError, NoPrevKv
  <2>2. eventCh' \in Seq(Events) /\ Len(eventCh') = 0
    BY <2>1
  <2>3. Len(eventCh') <= ChanCap
    BY <2>2
  <2> QED BY <1>6, <2>2, <2>3 DEF WatchError, NoPrevKv, WatcherOK
<1>7. CASE RchClosed \/ CtxDone
  BY <1>7 DEF RchClosed, CtxDone, WatcherOK
<1>8. CASE Read
  <2>1. eventCh \in Seq(Events) /\ eventCh # <<>> /\ eventCh' = Tail(eventCh)
    BY <1>8 DEF Read, WatcherOK
  <2>2. eventCh' \in Seq(Events) /\ Len(eventCh') = Len(eventCh) - 1 /\ Len(eventCh) \in Nat
    BY <2>1, Pop
  <2>3. Len(eventCh') <= ChanCap
    BY <2>2 DEF WatcherOK
  <2> QED BY <1>8, <2>2, <2>3 DEF Read, WatcherOK
<1> QED BY <1>1, <1>2, <1>3, <1>4, <1>5, <1>6, <1>7, <1>8 DEF Next, Watcher

\* The connections of the reader are nodes, and the modes never change.
LEMMA UserStep == TypeOK /\ Next => UserOK' /\ ModeOK'
<1> SUFFICES ASSUME WatcherOK, UserOK, ModeOK, Next PROVE UserOK' /\ ModeOK'
  BY TypeParts
<1>0. UNCHANGED <<user, mode>> => UserOK' /\ ModeOK'
  BY DEF user, mode, UserOK, ModeOK
<1>1. ASSUME NEW n \in Nodes, Active(n) PROVE UserOK' /\ ModeOK'
  BY <1>0, <1>1 DEF Active, Join, RegisterActive, ActiveExists, RegisterActiveFails, CallAgain, WatchEnds,
     Activate, GoingStop, GoingStopPut, Expire, Exit
<1>2. CASE Compact \/ WatchServices \/ Receive \/ Send \/ ErrCompacted \/ WatchError \/ NoPrevKv \/ RchClosed \/ CtxDone
  BY <1>0, <1>2 DEF Compact, WatchServices, Receive, Send, ErrCompacted, WatchError, NoPrevKv, RchClosed, CtxDone
<1>3. CASE GetSessions \/ Rewatch
  BY <1>3 DEF GetSessions, Rewatch, PresentAt, UserOK, ModeOK, mode
<1>4. CASE Read
  <2>1. Head(eventCh).node \in Nodes
    <3>1. eventCh \in Seq(Events) /\ eventCh # <<>>
      BY <1>4 DEF Read, WatcherOK
    <3>2. Head(eventCh) \in Events
      BY <3>1, Pop
    <3> QED BY <3>2 DEF Events
  <2>2. view' \subseteq Nodes
    BY <1>4, <2>1 DEF Read, UserOK
  <2> QED BY <1>4, <2>2 DEF Read, UserOK, ModeOK, mode
<1>5. CASE ReadClosed \/ Stop
  BY <1>5 DEF ReadClosed, Stop, UserOK, ModeOK, mode
<1> QED BY <1>1, <1>2, <1>3, <1>4, <1>5 DEF Next, Watcher

\* All parts together.
LEMMA TypesStep == TypeOK /\ WatchPos /\ [Next]_vars => TypeOK'
BY EtcdStep, StandbyStep, WatcherStep, UserStep, TypesStutter
   DEF TypeOK, EtcdOK, StandbyOK, WatcherOK, UserOK, ModeOK, Revisions, Labels

\* Every variable holds values of its kind, the event channel never exceeds its capacity,
\* and the log holds one event per key and revision.
THEOREM TypeCorrect == Spec => []TypeOK
<1>1. Init => WatchPos
  BY DEF Init, WatchPos
<1> QED BY InitTypes, <1>1, TypesStep, WatchPosStep, PTL DEF Spec

-----------------------------------------------------------------------------
(* The log and the store.  What GetSessions returns at a revision follows    *)
(* from the events of the revisions before it.                             *)

\* At revision r the key k holds a record of node n.
HeldAt(k, n, r) ==
  \E i \in 1..r :
    /\ k \in DOMAIN log[i] /\ log[i][k].node = n /\ log[i][k].type # "del"
    /\ \A j \in (i + 1)..r : k \notin DOMAIN log[j]

StoreInv == \A k \in Keys, n \in Nodes : store[k].node = n <=> HeldAt(k, n, Rev)

\* Nobody writes the key of another process; a process with a lease has its own key.
OwnKeyInv ==
  /\ \A n, m \in Nodes : store[n].node = m => m = n
  /\ \A n \in leases : store[n].node = n

\* What the events of one revision say of a process.
RevisionInv ==
  \A r \in 1..Rev : \A n \in Nodes :
    /\ \A k \in DOMAIN log[r] : log[r][k].node = n =>
         /\ log[r][k].type = "del" <=> n \notin PresentAt(r)
         /\ log[r][k].type = "update" => n \in PresentAt(r - 1)
    /\ (\A k \in DOMAIN log[r] : log[r][k].node # n) => (n \in PresentAt(r) <=> n \in PresentAt(r - 1))

LogInv == StoreInv /\ OwnKeyInv /\ RevisionInv

-----------------------------------------------------------------------------
(* The watcher and its reader.                                             *)

Tells(e, n) == e.node = n /\ e.type # "update"

\* Whether n is in the view v once the events q are read.
Member(n, v, q) ==
  \/ n \in v /\ \A i \in 1..Len(q) : ~Tells(q[i], n)
  \/ \E i \in 1..Len(q) : /\ Tells(q[i], n) /\ q[i].type = "add"
                         /\ \A j \in (i + 1)..Len(q) : ~Tells(q[j], n)

\* ... and the rest of the response in hand, too.
After(n) ==
  \/ \E e \in todo : e.node = n /\ e.type = "add"
  \/ Member(n, view, eventCh) /\ \A e \in todo : ~(e.node = n /\ e.type = "del")

\* The revision up to which the watcher has told the reader.
Base == IF next <= snap THEN snap ELSE next - 1
Faithful == ~overtaken /\ (resnapped => hasRewatch /\ ~ranged)

HandInv ==
  /\ w \in {"new", "snapshot"} => eventCh = <<>>
  /\ w \in {"new", "snapshot", "loop", "rewatch"} => todo = {}
  /\ w = "send" =>
       /\ snap < next
       /\ \A e \in todo : e.node \in Nodes /\ Valid(e.node) /\ (e.type = "del" <=> e.node \notin PresentAt(next - 1))

FollowInv ==
  /\ w = "snapshot" => view = {n \in PresentAt(snap) : Valid(n)}
  /\ w \in {"loop", "send"} /\ Faithful => \A n \in Nodes : After(n) <=> n \in PresentAt(Base) /\ Valid(n)

-----------------------------------------------------------------------------
(* Lemmas about the operators.                                             *)

\* What is read from an empty channel, and after one more event ...
LEMMA MemberEmpty ==
  ASSUME NEW n, NEW v PROVE Member(n, v, <<>>) <=> n \in v
BY DEF Member

LEMMA MemberAppend ==
  ASSUME NEW n, NEW v, NEW q \in Seq(Events), NEW e \in Events
  PROVE  Member(n, v, Append(q, e)) <=> IF Tells(e, n) THEN e.type = "add" ELSE Member(n, v, q)
<1> DEFINE p == Append(q, e)
<1>1. /\ Len(q) \in Nat /\ Len(p) = Len(q) + 1
      /\ \A i \in 1..Len(q) : p[i] = q[i]
      /\ p[Len(q) + 1] = e
  BY Push
<1> HIDE DEF p
<1>2. /\ \A i \in 1..Len(p) : i \in 1..Len(q) \/ i = Len(q) + 1
      /\ \A i \in 1..Len(q) : i \in 1..Len(p) /\ Len(q) + 1 \in (i + 1)..Len(p)
      /\ Len(q) + 1 \in 1..Len(p) /\ (Len(q) + 2)..Len(p) = {}
      /\ \A i \in 1..Len(q) : \A j \in (i + 1)..Len(p) : j \in (i + 1)..Len(q) \/ j = Len(q) + 1
      /\ \A i \in 1..Len(q) : \A j \in (i + 1)..Len(q) : j \in 1..Len(q) /\ j \in (i + 1)..Len(p)
  BY <1>1
<1>3. CASE Tells(e, n)
  <2>1. Member(n, v, p) => e.type = "add"
    <3>1. ~\A i \in 1..Len(p) : ~Tells(p[i], n)
      BY <1>1, <1>2, <1>3
    <3>2. ASSUME NEW i \in 1..Len(p), Tells(p[i], n), p[i].type = "add",
                 \A j \in (i + 1)..Len(p) : ~Tells(p[j], n)
          PROVE  e.type = "add"
      BY <1>1, <1>2, <1>3, <3>2
    <3> QED BY <3>1, <3>2 DEF Member
  <2>2. e.type = "add" => Member(n, v, p)
    <3>1. (Len(q) + 1 + 1)..Len(p) = {}
      BY <1>1
    <3> QED BY <1>1, <1>2, <1>3, <3>1 DEF Member
  <2> QED BY <1>3, <2>1, <2>2 DEF p
<1>4. CASE ~Tells(e, n)
  <2>1. (\A i \in 1..Len(p) : ~Tells(p[i], n)) <=> (\A i \in 1..Len(q) : ~Tells(q[i], n))
    BY <1>1, <1>2, <1>4
  <2>2. ASSUME NEW i \in 1..Len(q), \A j \in (i + 1)..Len(q) : ~Tells(q[j], n)
        PROVE  \A j \in (i + 1)..Len(p) : ~Tells(p[j], n)
    BY <1>1, <1>2, <1>4, <2>2
  <2>3. ASSUME NEW i \in 1..Len(q), \A j \in (i + 1)..Len(p) : ~Tells(p[j], n)
        PROVE  \A j \in (i + 1)..Len(q) : ~Tells(q[j], n)
    BY <1>1, <1>2, <2>3
  <2>4. Member(n, v, p) <=> Member(n, v, q)
    BY <1>1, <1>2, <1>4, <2>1, <2>2, <2>3 DEF Member
  <2> QED BY <1>4, <2>4 DEF p
<1> QED BY <1>3, <1>4

\* ... and of the rest of a channel, when the view takes its first event.
LEMMA MemberTail ==
  ASSUME NEW n, NEW v, NEW q \in Seq(Events), q # <<>>, NEW u,
         n \in u <=> IF Tells(Head(q), n) THEN Head(q).type = "add" ELSE n \in v
  PROVE  Member(n, u, Tail(q)) <=> Member(n, v, q)
<1> DEFINE p == Tail(q)
<1>1. /\ Head(q) = q[1] /\ Len(q) \in Nat \ {0} /\ Len(p) = Len(q) - 1
      /\ \A i \in 1..Len(p) : p[i] = q[i + 1]
  BY Pop
<1> HIDE DEF p
<1>2. /\ 1 \in 1..Len(q)
      /\ \A i \in 1..Len(p) : i + 1 \in 1..Len(q) /\ i + 1 \in 2..Len(q)
      /\ \A i \in 1..Len(q) : i = 1 \/ (i - 1 \in 1..Len(p) /\ (i - 1) + 1 = i)
      /\ \A i \in 2..Len(q) : i - 1 \in 1..Len(p) /\ (i - 1) + 1 = i
  BY <1>1
<1>3. (\A i \in 1..Len(p) : ~Tells(p[i], n)) <=> (\A i \in 2..Len(q) : ~Tells(q[i], n))
  BY <1>1, <1>2
<1>4. ASSUME NEW i \in 1..Len(p)
      PROVE  (\A j \in (i + 1)..Len(p) : ~Tells(p[j], n)) <=> (\A j \in (i + 2)..Len(q) : ~Tells(q[j], n))
  <2>1. \A j \in (i + 1)..Len(p) : j \in 1..Len(p) /\ j + 1 \in (i + 2)..Len(q)
    BY <1>1
  <2>2. \A j \in (i + 2)..Len(q) : j - 1 \in 1..Len(p) /\ j - 1 \in (i + 1)..Len(p) /\ (j - 1) + 1 = j
    BY <1>1
  <2> QED BY <1>1, <2>1, <2>2
<1> DEFINE Last(s, i) == /\ Tells(s[i], n) /\ s[i].type = "add"
                         /\ \A j \in (i + 1)..Len(s) : ~Tells(s[j], n)
<1>5. \A i \in 1..Len(p) : Last(p, i) <=> Last(q, i + 1)
  <2>1. \A i \in 1..Len(p) : (i + 1) + 1 = i + 2
    BY <1>1
  <2> QED BY <1>1, <1>4, <2>1
<1>6. Member(n, u, p) <=> \/ n \in u /\ \A i \in 2..Len(q) : ~Tells(q[i], n)
                          \/ \E i \in 2..Len(q) : Last(q, i)
  <2>1. (\E i \in 1..Len(p) : Last(p, i)) <=> (\E i \in 2..Len(q) : Last(q, i))
    <3> HIDE DEF Last
    <3>1. ASSUME NEW i \in 1..Len(p), Last(p, i) PROVE \E k \in 2..Len(q) : Last(q, k)
      BY <1>2, <1>5, <3>1
    <3>2. ASSUME NEW i \in 2..Len(q), Last(q, i) PROVE \E k \in 1..Len(p) : Last(p, k)
      <4>1. i - 1 \in 1..Len(p) /\ (i - 1) + 1 = i
        BY <1>2
      <4>2. Last(p, i - 1) <=> Last(q, (i - 1) + 1)
        BY <1>5, <4>1
      <4> QED BY <3>2, <4>1, <4>2
    <3> QED BY <3>1, <3>2
  <2> QED BY <1>3, <2>1 DEF Member
<1>7. Member(n, v, q) <=> \/ n \in v /\ ~Tells(q[1], n) /\ \A i \in 2..Len(q) : ~Tells(q[i], n)
                          \/ Last(q, 1) \/ \E i \in 2..Len(q) : Last(q, i)
  <2>1. \A i \in 1..Len(q) : i = 1 \/ i \in 2..Len(q)
    BY <1>1
  <2>2. \A i \in 2..Len(q) : i \in 1..Len(q)
    BY <1>1
  <2>3. (\A i \in 1..Len(q) : ~Tells(q[i], n)) <=> (~Tells(q[1], n) /\ \A i \in 2..Len(q) : ~Tells(q[i], n))
    BY <1>2, <2>1, <2>2
  <2>4. (\E i \in 1..Len(q) : Last(q, i)) <=> (Last(q, 1) \/ \E i \in 2..Len(q) : Last(q, i))
    <3> HIDE DEF Last
    <3> QED BY <1>2, <2>1, <2>2
  <2> QED BY <2>3, <2>4 DEF Member
<1>8. Last(q, 1) <=> Tells(q[1], n) /\ q[1].type = "add" /\ \A i \in 2..Len(q) : ~Tells(q[i], n)
  <2>1. 1 + 1 = 2
    OBVIOUS
  <2> QED BY <2>1
<1> HIDE DEF Last
<1>9. Member(n, u, p) <=> Member(n, v, q)
  BY <1>1, <1>6, <1>7, <1>8
<1> QED BY <1>9 DEF p

-----------------------------------------------------------------------------
(* The log invariant.                                                      *)

\* A process is present when one of its keys is held.
LEMMA PresentHeld ==
  ASSUME TypeOK, NEW r \in 0..Rev, NEW n \in Nodes
  PROVE  n \in PresentAt(r) <=> \E k \in Keys : HeldAt(k, n, r)
<1>1. \A i \in 1..r : log[i] \in Revisions
  <2>1. Rev \in Nat /\ Rev = Len(log) /\ log \in Seq(Revisions)
    BY TypeParts DEF EtcdOK, Rev
  <2> QED BY <2>1
<1>2. \A i \in 1..r : DOMAIN log[i] \subseteq Keys
  BY <1>1, EventsOf
<1> QED BY <1>2 DEF PresentAt, HeldAt

\* The same in the next state.
LEMMA PresentHeldNext ==
  ASSUME TypeOK', NEW r \in 0..Rev', NEW n \in Nodes
  PROVE  n \in PresentAt(r)' <=> \E k \in Keys : HeldAt(k, n, r)'
<1>1. \A i \in 1..r : log'[i] \in Revisions
  <2>1. Rev' \in Nat /\ Rev' = Len(log') /\ log' \in Seq(Revisions)
    BY DEF TypeOK, Rev, Revisions
  <2> QED BY <2>1
<1>2. \A i \in 1..r : DOMAIN log'[i] \subseteq Keys
  BY <1>1, EventsOf
<1> QED BY <1>2 DEF PresentAt, HeldAt

\* A revision that is added does not change what was there before ...
LEMMA PastStays ==
  ASSUME TypeOK, NEW e \in Revisions, log' = Append(log, e), NEW r \in 0..Rev
  PROVE  /\ \A n \in Nodes : n \in PresentAt(r)' <=> n \in PresentAt(r)
         /\ \A k \in Keys, n \in Nodes : HeldAt(k, n, r)' <=> HeldAt(k, n, r)
<1>1. Rev \in Nat /\ Rev = Len(log) /\ log \in Seq(Revisions)
  BY TypeParts DEF EtcdOK, Rev
<1>2. \A i \in 1..Len(log) : log'[i] = log[i]
  BY <1>1, Push
<1>3. \A i \in 1..r : log'[i] = log[i]
  BY <1>1, <1>2
<1>4. \A i \in 1..r : \A j \in (i + 1)..r : log'[j] = log[j]
  BY <1>1, <1>2
<1> DEFINE Last(l, n, i, k) == /\ k \in DOMAIN l[i] /\ l[i][k].node = n /\ l[i][k].type # "del"
                               /\ \A j \in (i + 1)..r : k \notin DOMAIN l[j]
<1>5. ASSUME NEW n \in Nodes PROVE n \in PresentAt(r)' <=> n \in PresentAt(r)
  <2>1. \A i \in 1..r : DOMAIN log'[i] = DOMAIN log[i]
    BY <1>3
  <2>2. \A i \in 1..r : \A k : Last(log', n, i, k) <=> Last(log, n, i, k)
    BY <1>3, <1>4
  <2>3. n \in PresentAt(r) <=> \E i \in 1..r : \E k \in DOMAIN log[i] : Last(log, n, i, k)
    BY DEF PresentAt
  <2>4. n \in PresentAt(r)' <=> \E i \in 1..r : \E k \in DOMAIN log'[i] : Last(log', n, i, k)
    BY DEF PresentAt
  <2> HIDE DEF Last
  <2> QED BY <2>1, <2>2, <2>3, <2>4
<1>6. ASSUME NEW k \in Keys, NEW n \in Nodes PROVE HeldAt(k, n, r)' <=> HeldAt(k, n, r)
  BY <1>3, <1>4 DEF HeldAt
<1> QED BY <1>5, <1>6

\* ... and its own keys are held as its events say, the others as before.
LEMMA LastRevision ==
  ASSUME TypeOK, NEW e \in Revisions, log' = Append(log, e), NEW k \in Keys, NEW n \in Nodes,
         NEW r, r = Rev + 1
  PROVE  HeldAt(k, n, r)' <=>
           IF k \in DOMAIN e THEN e[k].node = n /\ e[k].type # "del" ELSE HeldAt(k, n, Rev)
<1>1. Rev \in Nat /\ Rev = Len(log) /\ log \in Seq(Revisions)
  BY TypeParts DEF EtcdOK, Rev
<1>2. (\A i \in 1..Rev : log'[i] = log[i]) /\ log'[r] = e
  BY <1>1, Push
<1>3. /\ r \in 1..r /\ (r + 1)..r = {}
      /\ \A i \in 1..r : i = r \/ (i \in 1..Rev /\ r \in (i + 1)..r)
      /\ \A i \in 1..Rev : i \in 1..r /\ r \in (i + 1)..r
      /\ \A i \in 1..Rev : \A j \in (i + 1)..r : j = r \/ (j \in (i + 1)..Rev /\ j \in 1..Rev)
      /\ \A i \in 1..Rev : \A j \in (i + 1)..Rev : j \in (i + 1)..r /\ j \in 1..Rev
  BY <1>1
<1>4. CASE k \in DOMAIN e
  <2>1. HeldAt(k, n, r)' => e[k].node = n /\ e[k].type # "del"
    BY <1>2, <1>3, <1>4 DEF HeldAt
  <2>2. e[k].node = n /\ e[k].type # "del" => HeldAt(k, n, r)'
    BY <1>2, <1>3, <1>4 DEF HeldAt
  <2> QED BY <1>4, <2>1, <2>2
<1>5. CASE k \notin DOMAIN e
  <2>1. ASSUME HeldAt(k, n, r)' PROVE HeldAt(k, n, Rev)
    <3>1. PICK i \in 1..r : /\ k \in DOMAIN log'[i] /\ log'[i][k].node = n /\ log'[i][k].type # "del"
                           /\ \A j \in (i + 1)..r : k \notin DOMAIN log'[j]
      BY <2>1 DEF HeldAt
    <3>2. i \in 1..Rev /\ log'[i] = log[i]
      BY <1>2, <1>3, <1>5, <3>1
    <3>3. \A j \in (i + 1)..Rev : k \notin DOMAIN log[j]
      BY <1>2, <1>3, <3>1, <3>2
    <3> QED BY <3>1, <3>2, <3>3 DEF HeldAt
  <2>2. ASSUME HeldAt(k, n, Rev) PROVE HeldAt(k, n, r)'
    <3>1. PICK i \in 1..Rev : /\ k \in DOMAIN log[i] /\ log[i][k].node = n /\ log[i][k].type # "del"
                             /\ \A j \in (i + 1)..Rev : k \notin DOMAIN log[j]
      BY <2>2 DEF HeldAt
    <3>2. i \in 1..r /\ log'[i] = log[i]
      BY <1>2, <1>3
    <3>3. \A j \in (i + 1)..r : k \notin DOMAIN log'[j]
      BY <1>2, <1>3, <1>5, <3>1
    <3> QED BY <3>1, <3>2, <3>3 DEF HeldAt
  <2> QED BY <1>5, <2>1, <2>2
<1> QED BY <1>4, <1>5

\* The invariant after a revision e, from what the revision does to the store.
LEMMA LogExtend ==
  ASSUME TypeOK, TypeOK', LogInv, NEW e \in Revisions, log' = Append(log, e),
         \A k \in Keys : store'[k].node =
            IF k \notin DOMAIN e THEN store[k].node
            ELSE IF e[k].type = "del" THEN NoNode ELSE e[k].node,
         \A k \in DOMAIN e : \A n \in Nodes : e[k].node = n =>
            /\ e[k].type = "del" => \A j \in Keys : store'[j].node # n
            /\ e[k].type = "update" => \E j \in Keys : store[j].node = n,
         \A k \in DOMAIN e : store[k].node \in {NoNode, e[k].node}
  PROVE  StoreInv' /\ RevisionInv'
<1>1. /\ Rev \in Nat /\ Rev = Len(log) /\ log \in Seq(Revisions) /\ Rev' = Rev + 1
      /\ (\A i \in 1..Rev : log'[i] = log[i]) /\ log'[Rev + 1] = e
  BY TypeParts, Push DEF EtcdOK, Rev
<1>2. PICK r : r = Rev + 1
  OBVIOUS
<1>3. ASSUME NEW k \in Keys, NEW n \in Nodes PROVE store'[k].node = n <=> HeldAt(k, n, r)'
  BY <1>2, LastRevision DEF LogInv, StoreInv
<1>4. StoreInv'
  BY <1>1, <1>2, <1>3 DEF StoreInv
<1>5. r \in 0..Rev' /\ r \in Nat /\ r - 1 = Rev /\ Rev \in 0..Rev /\ \A i \in 1..Rev' : i = r \/ (i \in 1..Rev /\ i - 1 \in 0..Rev /\ i \in 0..Rev)
  BY <1>1, <1>2
<1>6. ASSUME NEW n \in Nodes PROVE n \in PresentAt(r)' <=> \E k \in Keys : store'[k].node = n
  BY <1>3, <1>5, PresentHeldNext
<1>7. ASSUME NEW n \in Nodes PROVE n \in PresentAt(r - 1)' <=> \E k \in Keys : store[k].node = n
  <2>1. n \in PresentAt(Rev) <=> \E k \in Keys : HeldAt(k, n, Rev)
    BY <1>5, PresentHeld
  <2>2. \A i \in 0..Rev : n \in PresentAt(i)' <=> n \in PresentAt(i)
    BY PastStays
  <2>3. PICK p : p = Rev
    OBVIOUS
  <2>4. n \in PresentAt(p)' <=> n \in PresentAt(p)
    BY <1>5, <2>2, <2>3
  <2>5. r - 1 = p
    BY <1>5, <2>3
  <2> QED BY <2>1, <2>3, <2>4, <2>5 DEF LogInv, StoreInv
<1>8. \A k \in DOMAIN e : k \in Keys /\ e[k] \in Events
  BY EventsOf
<1>9. ASSUME NEW n \in Nodes
      PROVE  /\ \A k \in DOMAIN e : e[k].node = n =>
                  /\ e[k].type = "del" <=> n \notin PresentAt(r)'
                  /\ e[k].type = "update" => n \in PresentAt(r - 1)'
             /\ (\A k \in DOMAIN e : e[k].node # n) => (n \in PresentAt(r)' <=> n \in PresentAt(r - 1)')
  <2>1. ASSUME NEW k \in DOMAIN e, e[k].node = n
        PROVE  /\ e[k].type = "del" <=> n \notin PresentAt(r)'
               /\ e[k].type = "update" => n \in PresentAt(r - 1)'
    BY <1>6, <1>7, <1>8, <2>1
  <2>2. ASSUME \A k \in DOMAIN e : e[k].node # n
        PROVE  n \in PresentAt(r)' <=> n \in PresentAt(r - 1)'
    <3>1. \A k \in Keys : store'[k].node = n <=> store[k].node = n
      BY <1>8, <2>2
    <3> QED BY <1>6, <1>7, <3>1
  <2> QED BY <2>1, <2>2
<1>10. ASSUME NEW i \in 1..Rev', NEW n \in Nodes
       PROVE  /\ \A k \in DOMAIN log'[i] : log'[i][k].node = n =>
                   /\ log'[i][k].type = "del" <=> n \notin PresentAt(i)'
                   /\ log'[i][k].type = "update" => n \in PresentAt(i - 1)'
              /\ (\A k \in DOMAIN log'[i] : log'[i][k].node # n) => (n \in PresentAt(i)' <=> n \in PresentAt(i - 1)')
  <2>1. CASE i = r
    <3>1. log'[i] = e
      BY <1>1, <1>2, <2>1
    <3> QED BY <1>9, <2>1, <3>1
  <2>2. CASE i \in 1..Rev
    <3>1. PICK p : p = i - 1
      OBVIOUS
    <3>2. i \in 0..Rev /\ p \in 0..Rev
      BY <1>1, <2>2, <3>1
    <3>3. /\ n \in PresentAt(i)' <=> n \in PresentAt(i)
          /\ n \in PresentAt(p)' <=> n \in PresentAt(p)
      BY <3>2, PastStays
    <3>4. log'[i] = log[i]
      BY <1>1, <2>2
    <3> QED BY <2>2, <3>1, <3>3, <3>4 DEF LogInv, RevisionInv
  <2> QED BY <1>5, <2>1, <2>2
<1>11. RevisionInv'
  BY <1>10 DEF RevisionInv
<1> QED BY <1>4, <1>11

\* The first revision registers the nodes that compete.
LEMMA InitLog == Init => LogInv
<1> SUFFICES ASSUME Init PROVE LogInv
  OBVIOUS
<1>1. /\ Rev = 1 /\ DOMAIN log[1] = competes /\ competes \subseteq Nodes
      /\ \A k \in competes : log[1][k].node = k /\ log[1][k].type = "add"
      /\ \A k \in Keys : store[k].node = IF k \in competes THEN k ELSE NoNode
      /\ leases = competes /\ Nodes \subseteq Keys /\ 1..1 = {1} /\ 1..0 = {} /\ (1 + 1)..1 = {}
  BY DEF Init, Rev, Keys, Absent
<1>2. ASSUME NEW k \in Keys, NEW n \in Nodes PROVE HeldAt(k, n, 1) <=> k \in competes /\ k = n
  BY <1>1 DEF HeldAt
<1>3. StoreInv
  <2>1. ASSUME NEW k \in Keys, NEW n \in Nodes PROVE store[k].node = n <=> HeldAt(k, n, Rev)
    BY <1>1, <1>2
  <2> QED BY <2>1 DEF StoreInv
<1>4. OwnKeyInv
  BY <1>1 DEF OwnKeyInv
<1>5. ASSUME NEW n \in Nodes PROVE (n \in PresentAt(1) <=> n \in competes) /\ n \notin PresentAt(0)
  BY <1>1 DEF PresentAt
<1>6. RevisionInv
  <2>1. 1 - 1 = 0
    OBVIOUS
  <2> QED BY <1>1, <1>5, <2>1 DEF RevisionInv
<1> QED BY <1>3, <1>4, <1>6 DEF LogInv

\* A step that leaves the log and the store alone.
LEMMA LogStutter ==
  ASSUME LogInv, UNCHANGED <<log, store>>, leases' \subseteq leases
  PROVE  LogInv'
<1>1. StoreInv'
  BY DEF LogInv, StoreInv, HeldAt, Rev
<1>2. OwnKeyInv'
  BY DEF LogInv, OwnKeyInv
<1>3. RevisionInv'
  BY DEF LogInv, RevisionInv, PresentAt, Rev
<1> QED BY <1>1, <1>2, <1>3 DEF LogInv

\* Each write is of a record of its node, under its own key or the free active key.
LEMMA LogStep == TypeOK /\ TypeOK' /\ ActiveInv /\ LogInv /\ [Next]_vars => LogInv'
<1> SUFFICES ASSUME TypeOK, TypeOK', ActiveInv, LogInv, [Next]_vars PROVE LogInv'
  OBVIOUS
<1>0. /\ EtcdOK /\ StandbyOK /\ OwnKeyInv /\ Nodes \subseteq Keys /\ ActiveKey \in Keys
      /\ \A k \in Keys : store[k].node \in Nodes \cup {NoNode} /\ store[k] \in Records \cup {Absent}
  BY TypeParts DEF LogInv, Keys, EtcdOK, Records, Absent
\* Writing the record of n under one key, which was its own or free.
<1>p. ASSUME NEW n \in Nodes, NEW k \in Keys, NEW s \in BOOLEAN, Put({k}, [node |-> n, stop |-> s]),
             store[k].node \in {NoNode, n}, k \in {n, ActiveKey},
             s => \E j \in Keys : store[j].node = n,
             leases' \subseteq leases \cup {n}, n \in leases' => n \in leases \/ k = n
      PROVE  LogInv'
  <2> DEFINE r == [node |-> n, stop |-> s]
             e == PutEvents({k}, r)
  <2>1. r \in Records /\ {k} \in SUBSET Keys
    BY DEF Records
  <2>2. e \in Revisions /\ log' = Append(log, e)
    BY <1>0, <1>p, <2>1, PutType
  <2>3. DOMAIN e = {k} /\ e[k].node = n /\ e[k].type = IF s THEN "update" ELSE "add"
    BY DEF PutEvents
  <2>4. \A j \in Keys : store'[j] = IF j = k THEN r ELSE store[j]
    BY <1>p DEF Put
  <2>5. store'[k].node = n /\ \A j \in Keys \ {k} : store'[j] = store[j]
    BY <2>4
  <2> HIDE DEF e, r
  <2>6. \A j \in Keys : store'[j].node =
            IF j \notin DOMAIN e THEN store[j].node
            ELSE IF e[j].type = "del" THEN NoNode ELSE e[j].node
    BY <2>3, <2>5
  <2>7. \A j \in DOMAIN e : \A m \in Nodes : e[j].node = m =>
            /\ e[j].type = "del" => \A i \in Keys : store'[i].node # m
            /\ e[j].type = "update" => \E i \in Keys : store[i].node = m
    BY <1>p, <2>3
  <2>8. \A j \in DOMAIN e : store[j].node \in {NoNode, e[j].node}
    BY <1>p, <2>3
  <2>9. StoreInv' /\ RevisionInv'
    BY <2>2, <2>6, <2>7, <2>8, LogExtend
  <2>10. OwnKeyInv'
    <3>1. \A m, l \in Nodes : store'[m].node = l => l = m
      BY <1>0, <1>p, <2>5 DEF OwnKeyInv
    <3>2. \A m \in leases' : store'[m].node = m
      BY <1>0, <1>p, <2>5 DEF OwnKeyInv, EtcdOK
    <3> QED BY <3>1, <3>2 DEF OwnKeyInv
  <2> QED BY <2>9, <2>10 DEF LogInv
<1>1. ASSUME NEW n \in Nodes, Join(n) PROVE LogInv'
  <2>1. Put({n}, [node |-> n, stop |-> FALSE]) /\ leases' = leases \cup {n}
    BY <1>1 DEF Join
  <2>2. store[n].node \in {NoNode, n} /\ n \in Keys /\ FALSE \in BOOLEAN
    BY <1>0 DEF OwnKeyInv
  <2> QED BY <1>p, <2>1, <2>2
<1>2. ASSUME NEW n \in Nodes, RegisterActive(n) PROVE LogInv'
  <2>1. store[ActiveKey].node = NoNode /\ stopping[n] \in BOOLEAN /\ store[n].node = n
    BY <1>0, <1>2 DEF RegisterActive, Absent, StandbyOK, OwnKeyInv
  <2> QED BY <1>0, <1>2, <1>p, <2>1 DEF RegisterActive
<1>3. ASSUME NEW n \in Nodes, GoingStopPut(n) PROVE LogInv'
  <2>1. CASE n \in leases /\ Put({going[n]}, [node |-> n, stop |-> TRUE])
    <3>1. going[n] \in {n, ActiveKey} /\ store[n].node = n
      BY <1>0, <1>3, <2>1 DEF GoingStopPut, ActiveInv, GoingIsOwn, OwnKeyInv
    <3>2. store[going[n]].node \in {NoNode, n}
      BY <1>0, <1>3, <2>1, <3>1 DEF GoingStopPut, ActiveInv, GoingIsOwn, OneActive
    <3> QED BY <1>0, <1>3, <1>p, <2>1, <3>1, <3>2 DEF GoingStopPut
  <2>2. CASE UNCHANGED <<log, store>>
    BY <1>3, <2>2, LogStutter DEF GoingStopPut
  <2> QED BY <1>3, <2>1, <2>2 DEF GoingStopPut
<1>4. ASSUME NEW n \in Nodes, Expire(n) PROVE LogInv'
  <2> DEFINE ks == {k \in Keys : store[k].node = n}
             e == DelEvents(ks)
  <2>1. e \in Revisions /\ log' = Append(log, e)
    BY <1>0, <1>4, DeleteType DEF Expire
  <2>2. DOMAIN e = ks /\ \A k \in ks : e[k].node = n /\ e[k].type = "del"
    BY DEF DelEvents
  <2>3. \A j \in Keys : store'[j] = IF j \in ks THEN Absent ELSE store[j]
    BY <1>4 DEF Expire, Delete
  <2>4. (\A j \in ks : store'[j].node = NoNode) /\ \A j \in Keys \ ks : store'[j] = store[j] /\ store[j].node # n
    BY <2>3 DEF Absent
  <2> HIDE DEF e
  <2>6. \A j \in Keys : store'[j].node =
            IF j \notin DOMAIN e THEN store[j].node
            ELSE IF e[j].type = "del" THEN NoNode ELSE e[j].node
    BY <2>2, <2>4
  <2>7. \A j \in DOMAIN e : \A m \in Nodes : e[j].node = m =>
            /\ e[j].type = "del" => \A i \in Keys : store'[i].node # m
            /\ e[j].type = "update" => \E i \in Keys : store[i].node = m
    BY <2>2, <2>4
  <2>8. \A j \in DOMAIN e : store[j].node \in {NoNode, e[j].node}
    BY <2>2
  <2>9. StoreInv' /\ RevisionInv'
    BY <2>1, <2>6, <2>7, <2>8, LogExtend
  <2>10. OwnKeyInv'
    BY <1>0, <1>4, <2>4 DEF Expire, OwnKeyInv, EtcdOK
  <2> QED BY <2>9, <2>10 DEF LogInv
<1>5. ASSUME NEW n \in Nodes,
             \/ ActiveExists(n) \/ RegisterActiveFails(n) \/ CallAgain(n) \/ WatchEnds(n) \/ Activate(n)
             \/ GoingStop(n) \/ Exit(n)
      PROVE  LogInv'
  BY <1>5, LogStutter DEF ActiveExists, RegisterActiveFails, CallAgain, WatchEnds, Activate, GoingStop, Exit, etcd
<1>6. CASE Compact \/ Watcher \/ Read \/ ReadClosed \/ Stop
  BY <1>6, LogStutter DEF Compact, Watcher, GetSessions, WatchServices, Receive, Send, ErrCompacted, Rewatch,
     WatchError, NoPrevKv, RchClosed, CtxDone, Read, ReadClosed, Stop, etcd
<1>7. CASE UNCHANGED vars
  BY <1>7, LogStutter DEF vars, etcd
<1> QED BY <1>1, <1>2, <1>3, <1>4, <1>5, <1>6, <1>7 DEF Next, Active

\* No step of etcd or of another process changes what was present at a past revision,
\* nor anything of the watcher.
LEMMA OthersKeep ==
  ASSUME TypeOK, Compact \/ \E n \in Nodes : Active(n)
  PROVE  /\ UNCHANGED <<watcher, user, mode>>
         /\ \A r \in 0..Rev : \A m \in Nodes : m \in PresentAt(r)' <=> m \in PresentAt(r)
<1>0. EtcdOK /\ StandbyOK
  BY TypeParts
<1>1. CASE Compact
  BY <1>1 DEF Compact, PresentAt
<1>2. ASSUME NEW n \in Nodes, Active(n)
      PROVE  /\ UNCHANGED <<watcher, user, mode>>
             /\ \A r \in 0..Rev : \A m \in Nodes : m \in PresentAt(r)' <=> m \in PresentAt(r)
  <2>1. UNCHANGED <<watcher, user, mode>>
    BY <1>2 DEF Active, Join, RegisterActive, ActiveExists, RegisterActiveFails, CallAgain, WatchEnds,
       Activate, GoingStop, GoingStopPut, Expire, Exit
  <2>2. UNCHANGED log \/ \E e \in Revisions : log' = Append(log, e)
    <3>1. ASSUME NEW k \in Keys, NEW s \in BOOLEAN, Put({k}, [node |-> n, stop |-> s])
          PROVE  \E e \in Revisions : log' = Append(log, e)
      <4>1. [node |-> n, stop |-> s] \in Records /\ {k} \in SUBSET Keys
        BY DEF Records
      <4> QED BY <1>0, <3>1, <4>1, PutType
    <3>2. CASE Join(n) \/ RegisterActive(n)
      <4>1. n \in Keys /\ ActiveKey \in Keys /\ stopping[n] \in BOOLEAN
        BY <1>0 DEF Keys, StandbyOK
      <4> QED BY <3>1, <3>2, <4>1 DEF Join, RegisterActive
    <3>3. CASE GoingStopPut(n)
      BY <1>0, <3>1, <3>3 DEF GoingStopPut, StandbyOK
    <3>4. CASE Expire(n)
      BY <1>0, <3>4, DeleteType DEF Expire
    <3>5. CASE \/ ActiveExists(n) \/ RegisterActiveFails(n) \/ CallAgain(n) \/ WatchEnds(n) \/ Activate(n)
               \/ GoingStop(n) \/ Exit(n)
      BY <3>5 DEF ActiveExists, RegisterActiveFails, CallAgain, WatchEnds, Activate, GoingStop, Exit, etcd
    <3> QED BY <1>2, <3>2, <3>3, <3>4, <3>5 DEF Active
  <2>3. CASE UNCHANGED log
    BY <2>1, <2>3 DEF PresentAt
  <2>4. CASE \E e \in Revisions : log' = Append(log, e)
    BY <2>1, <2>4, PastStays
  <2> QED BY <2>2, <2>3, <2>4
<1> QED BY <1>1, <1>2

\* ... and so nothing of the invariant.
LEMMA FollowKeeps ==
  ASSUME TypeOK, WatchPos, HandInv, FollowInv,
         UNCHANGED <<w, next, snap, todo, eventCh, view, overtaken, resnapped, mode>>,
         \A r \in 0..Rev : \A m \in Nodes : m \in PresentAt(r)' <=> m \in PresentAt(r)
  PROVE  HandInv' /\ FollowInv'
<1>0. Rev \in Nat /\ next \in Nat /\ snap \in Nat /\ todo \subseteq Events
  BY TypeParts DEF EtcdOK, WatcherOK
<1>v. \A n : (Valid(n)' <=> Valid(n)) /\ (After(n)' <=> After(n))
  BY DEF Valid, After, mode
<1>1. HandInv'
  <2>1. CASE w = "send"
    <3>1. PICK p : p = next - 1
      OBVIOUS
    <3>2. p \in 0..Rev /\ p = next' - 1
      BY <1>0, <2>1, <3>1 DEF WatchPos
    <3>3. \A m \in Nodes : m \in PresentAt(p)' <=> m \in PresentAt(p)
      BY <3>2
    <3> QED BY <1>0, <1>v, <2>1, <3>1, <3>2, <3>3 DEF HandInv, Events
  <2>2. CASE w # "send"
    BY <2>2 DEF HandInv
  <2> QED BY <2>1, <2>2
<1>2. FollowInv'
  <2>1. CASE w = "snapshot"
    <3>1. PICK p : p = snap
      OBVIOUS
    <3>2. p \in 0..Rev /\ p = snap'
      BY <1>0, <2>1, <3>1 DEF WatchPos
    <3>3. PresentAt(p)' = PresentAt(p)
      <4>1. PresentAt(p)' \subseteq Nodes /\ PresentAt(p) \subseteq Nodes
        BY DEF PresentAt
      <4> QED BY <3>2, <4>1
    <3> QED BY <1>v, <2>1, <3>1, <3>2, <3>3 DEF FollowInv
  <2>2. CASE w \in {"loop", "send"}
    <3>1. PICK p : p = Base
      OBVIOUS
    <3>2. p \in 0..Rev /\ p = Base'
      BY <1>0, <2>2, <3>1 DEF WatchPos, Base
    <3>3. \A m \in Nodes : m \in PresentAt(p)' <=> m \in PresentAt(p)
      BY <3>2
    <3>4. Faithful' <=> Faithful
      BY DEF Faithful, mode
    <3> QED BY <1>v, <2>2, <3>1, <3>2, <3>3, <3>4 DEF FollowInv
  <2>3. CASE w \notin {"snapshot", "loop", "send"}
    BY <2>3 DEF FollowInv
  <2> QED BY <2>1, <2>2, <2>3
<1> QED BY <1>1, <1>2

-----------------------------------------------------------------------------
(* The steps of the watcher.                                               *)

\* The events of the next revision bring the view from one revision to the next.
LEMMA ReceiveFollows ==
  ASSUME TypeOK, WatchPos, LogInv, HandInv, FollowInv, Receive
  PROVE  HandInv' /\ FollowInv'
<1>0. /\ Rev \in Nat /\ next \in 1..Rev /\ snap \in 1..Rev /\ snap <= next /\ w = "loop" /\ w' = "send"
      /\ next' = next + 1 /\ Rev = Len(log) /\ log \in Seq(Revisions) /\ todo = {}
      /\ UNCHANGED <<log, snap, eventCh, view, overtaken, resnapped, ranged, hasRewatch>>
      /\ todo' = {log[next][k] : k \in {j \in DOMAIN log[next] : Valid(log[next][j].node)}}
  BY TypeParts DEF Receive, EtcdOK, WatcherOK, WatchPos, HandInv, etcd, user, mode, Rev
<1>1. PICK r : r = next
  OBVIOUS
<1>2. /\ r \in 1..Rev /\ next' - 1 = r /\ snap' < next' /\ Base' = r
      /\ Base = r \/ Base = r - 1
  BY <1>0, <1>1 DEF Base
<1>3. \A p : PresentAt(p)' = PresentAt(p)
  BY <1>0 DEF PresentAt
<1>4. \A n : (Valid(n)' <=> Valid(n)) /\ (Member(n, view, eventCh)' <=> Member(n, view, eventCh))
  BY <1>0 DEF Valid
<1> DEFINE E == log[r]
<1>5. \A k \in DOMAIN E : E[k] \in Events /\ E[k].node \in Nodes
  <2>1. E \in Revisions
    BY <1>0, <1>2
  <2> HIDE DEF E
  <2> QED BY <2>1, EventsOf DEF Events
<1>6. ASSUME NEW n \in Nodes
      PROVE  /\ \A k \in DOMAIN E : E[k].node = n =>
                  /\ E[k].type = "del" <=> n \notin PresentAt(r)
                  /\ E[k].type = "update" => n \in PresentAt(r - 1)
             /\ (\A k \in DOMAIN E : E[k].node # n) => (n \in PresentAt(r) <=> n \in PresentAt(r - 1))
  BY <1>2 DEF LogInv, RevisionInv
<1>7. /\ \A e \in todo' : \E k \in DOMAIN E : e = E[k] /\ Valid(E[k].node)
      /\ \A k \in DOMAIN E : Valid(E[k].node) => E[k] \in todo'
  BY <1>0, <1>1
<1> HIDE DEF E
<1>8. HandInv'
  <2>1. \A e \in todo' : e.node \in Nodes /\ Valid(e.node) /\ (e.type = "del" <=> e.node \notin PresentAt(r))
    BY <1>5, <1>6, <1>7
  <2> QED BY <1>0, <1>2, <1>3, <1>4, <2>1 DEF HandInv
<1>9. ASSUME Faithful, NEW n \in Nodes PROVE After(n)' <=> n \in PresentAt(r) /\ Valid(n)
  <2>1. Member(n, view, eventCh) <=> n \in PresentAt(Base) /\ Valid(n)
    BY <1>0, <1>9 DEF FollowInv, After
  <2>2. After(n)' <=> \/ \E e \in todo' : e.node = n /\ e.type = "add"
                      \/ Member(n, view, eventCh) /\ \A e \in todo' : ~(e.node = n /\ e.type = "del")
    BY <1>4 DEF After
  <2>3. CASE ~Valid(n)
    BY <1>7, <2>1, <2>2, <2>3
  <2>4. ASSUME Valid(n), \A k \in DOMAIN E : E[k].node # n PROVE After(n)' <=> n \in PresentAt(r)
    <3>1. \A e \in todo' : e.node # n
      BY <1>7, <2>4
    <3>2. n \in PresentAt(Base) <=> n \in PresentAt(r)
      BY <1>2, <1>6, <2>4
    <3> QED BY <2>1, <2>2, <2>4, <3>1, <3>2
  <2>5. ASSUME Valid(n), NEW k \in DOMAIN E, E[k].node = n PROVE After(n)' <=> n \in PresentAt(r)
    <3>1. \A e \in todo' : e.node = n => (e.type = "del" <=> n \notin PresentAt(r))
      BY <1>6, <1>7
    <3>2. E[k] \in todo' /\ E[k].node = n /\ E[k].type \in {"add", "update", "del"}
      BY <1>5, <1>7, <2>5 DEF Events
    <3>3. CASE E[k].type = "add"
      BY <2>2, <3>1, <3>2, <3>3
    <3>4. CASE E[k].type = "del"
      BY <2>2, <3>1, <3>2, <3>4
    <3>5. CASE E[k].type = "update"
      <4>1. n \in PresentAt(r - 1) /\ n \in PresentAt(r)
        BY <1>6, <2>5, <3>5
      <4>2. Member(n, view, eventCh)
        BY <1>2, <2>1, <2>5, <4>1
      <4> QED BY <2>2, <3>1, <4>1, <4>2
    <3> QED BY <3>2, <3>3, <3>4, <3>5
  <2> QED BY <2>3, <2>4, <2>5
<1>10. FollowInv'
  <2>1. Faithful' <=> Faithful
    BY <1>0 DEF Faithful
  <2> QED BY <1>0, <1>2, <1>3, <1>4, <1>9, <2>1 DEF FollowInv
<1> QED BY <1>8, <1>10

\* Moving an event into the channel changes nothing for the reader ...
LEMMA SendFollows ==
  ASSUME TypeOK, HandInv, FollowInv, Send
  PROVE  HandInv' /\ FollowInv'
<1>0. /\ w = "send" /\ next' = next /\ snap' = snap /\ snap < next /\ todo \subseteq Events /\ eventCh \in Seq(Events)
      /\ UNCHANGED <<log, view, overtaken, resnapped, ranged, hasRewatch>>
      /\ \A e \in todo : e.node \in Nodes /\ Valid(e.node) /\ (e.type = "del" <=> e.node \notin PresentAt(next - 1))
  BY TypeParts DEF Send, WatcherOK, HandInv, etcd, user, mode
<1>1. \A p : PresentAt(p)' = PresentAt(p)
  BY <1>0 DEF PresentAt
<1>2. (\A n : Valid(n)' <=> Valid(n)) /\ Base' = Base /\ (Faithful' <=> Faithful)
  BY <1>0 DEF Valid, Base, Faithful
<1>3. w' \in {"loop", "send"} /\ todo' \subseteq todo /\ (w' = "loop" => todo' = {})
  BY <1>0 DEF Send
<1>4. HandInv'
  <2>1. w' = "send" =>
       /\ snap' < next'
       /\ \A e \in todo' : e.node \in Nodes /\ Valid(e.node)' /\ (e.type = "del" <=> e.node \notin PresentAt(next - 1)')
    <3>1. PICK p : p = next - 1
      OBVIOUS
    <3>2. next' - 1 = p
      BY <1>0, <3>1
    <3> QED BY <1>0, <1>1, <1>2, <1>3, <3>1, <3>2
  <2> QED BY <1>3, <2>1 DEF HandInv
<1>5. ASSUME NEW n \in Nodes PROVE After(n)' <=> After(n)
  <2>1. CASE todo = {} /\ UNCHANGED <<todo, eventCh>>
    BY <1>0, <2>1 DEF After
  <2>2. ASSUME NEW e \in todo, eventCh' = Append(eventCh, e), todo' = todo \ {e}
        PROVE  After(n)' <=> After(n)
    <3>1. Member(n, view, eventCh)' <=> IF Tells(e, n) THEN e.type = "add" ELSE Member(n, view, eventCh)
      BY <1>0, <2>2, MemberAppend
    <3>2. e \in Events /\ e.type \in {"add", "update", "del"}
      BY <1>0 DEF Events
    <3>3. CASE ~Tells(e, n)
      BY <2>2, <3>1, <3>2, <3>3 DEF After, Tells
    <3>4. CASE e.node = n /\ e.type = "add"
      BY <1>0, <2>2, <3>1, <3>4 DEF After, Tells
    <3>5. CASE e.node = n /\ e.type = "del"
      BY <1>0, <2>2, <3>1, <3>5 DEF After, Tells
    <3> QED BY <3>2, <3>3, <3>4, <3>5 DEF Tells
  <2> QED BY <2>1, <2>2 DEF Send
<1>6. FollowInv'
  <2>1. PICK p : p = Base
    OBVIOUS
  <2>2. Base' = p
    BY <1>2, <2>1
  <2> QED BY <1>0, <1>1, <1>2, <1>3, <1>5, <2>1, <2>2 DEF FollowInv
<1> QED BY <1>4, <1>6

\* ... nor does reading it.
LEMMA ReadFollows ==
  ASSUME TypeOK, WatchPos, HandInv, FollowInv, Read
  PROVE  HandInv' /\ FollowInv'
<1>0. /\ eventCh \in Seq(Events) /\ eventCh # <<>> /\ eventCh' = Tail(eventCh) /\ w \notin {"new", "snapshot"}
      /\ UNCHANGED <<log, w, next, snap, todo, overtaken, resnapped, ranged, hasRewatch>>
  BY TypeParts DEF Read, WatcherOK, HandInv, etcd, mode
<1>1. \A p : PresentAt(p)' = PresentAt(p)
  BY <1>0 DEF PresentAt
<1>2. (\A n : Valid(n)' <=> Valid(n)) /\ Base' = Base /\ (Faithful' <=> Faithful)
  BY <1>0 DEF Valid, Base, Faithful
<1>3. HandInv'
  <2>1. PICK p : p = next - 1
    OBVIOUS
  <2>2. next' - 1 = p
    BY <1>0, <2>1
  <2> QED BY <1>0, <1>1, <1>2, <2>1, <2>2 DEF HandInv
<1>4. ASSUME NEW n \in Nodes PROVE After(n)' <=> After(n)
  <2>1. n \in view' <=> IF Tells(Head(eventCh), n) THEN Head(eventCh).type = "add" ELSE n \in view
    <3>1. Head(eventCh) \in Events
      BY <1>0, Pop
    <3>2. Head(eventCh).type \in {"add", "update", "del"}
      BY <3>1 DEF Events
    <3>3. /\ Head(eventCh).type = "add" => view' = view \cup {Head(eventCh).node}
          /\ Head(eventCh).type = "del" => view' = view \ {Head(eventCh).node}
          /\ Head(eventCh).type = "update" => view' = view
      BY DEF Read
    <3> QED BY <3>2, <3>3 DEF Tells
  <2>2. PICK u : u = view'
    OBVIOUS
  <2>3. Member(n, u, Tail(eventCh)) <=> Member(n, view, eventCh)
    BY ONLY <1>0, <2>1, <2>2, MemberTail
  <2>4. Member(n, view, eventCh)' <=> Member(n, view, eventCh)
    BY <1>0, <2>2, <2>3
  <2> QED BY <1>0, <2>4 DEF After
<1>5. FollowInv'
  <2>1. PICK p : p = Base
    OBVIOUS
  <2>2. Base' = p
    BY <1>2, <2>1
  <2> QED BY <1>0, <1>1, <1>2, <1>4, <2>1, <2>2 DEF FollowInv
<1> QED BY <1>3, <1>5

\* A snapshot, the first one or the one of a Rewatch, is what was present at its revision.
LEMMA SnapshotFollows ==
  ASSUME TypeOK, LogInv, HandInv, FollowInv, GetSessions \/ WatchServices \/ Rewatch
  PROVE  HandInv' /\ FollowInv'
<1>0. /\ UNCHANGED <<log, store, todo, eventCh, ranged, hasRewatch>> /\ todo = {}
      /\ Rev \in Nat /\ snap \in Nat
  BY TypeParts DEF GetSessions, WatchServices, Rewatch, HandInv, etcd, mode, EtcdOK, WatcherOK
<1>1. \A p : PresentAt(p)' = PresentAt(p)
  BY <1>0 DEF PresentAt
<1>2. \A n : Valid(n)' <=> Valid(n)
  BY <1>0 DEF Valid
<1>3. CASE GetSessions
  <2>1. eventCh = <<>> /\ w' = "snapshot" /\ snap' = Rev
    BY <1>3 DEF GetSessions, HandInv
  <2>2. PICK r : r = Rev
    OBVIOUS
  <2>3. \A n \in Nodes : n \in PresentAt(r) <=> \E k \in Keys : store[k].node = n
    <3>1. \A n \in Nodes : n \in PresentAt(r) <=> \E k \in Keys : HeldAt(k, n, r)
      BY <1>0, <2>2, PresentHeld
    <3> QED BY <2>2, <3>1 DEF LogInv, StoreInv
  <2>4. view' = {n \in PresentAt(r) : Valid(n)}
    <3>1. PresentAt(r) \subseteq Nodes
      BY DEF PresentAt
    <3> QED BY <1>3, <2>3, <3>1 DEF GetSessions
  <2> QED BY <1>0, <1>1, <1>2, <2>1, <2>2, <2>4 DEF HandInv, FollowInv
<1>4. CASE WatchServices
  <2>1. eventCh = <<>> /\ w = "snapshot" /\ w' = "loop" /\ next' = snap /\ snap' = snap /\ view' = view
    BY <1>4 DEF WatchServices, HandInv, user
  <2>2. PICK r : r = snap
    OBVIOUS
  <2>3. Base' = r
    BY <1>0, <2>1, <2>2 DEF Base
  <2>4. ASSUME NEW n \in Nodes PROVE After(n)' <=> n \in PresentAt(r) /\ Valid(n)
    <3>1. Member(n, view, eventCh)' <=> n \in view
      BY <1>0, <2>1, MemberEmpty
    <3>2. view = {m \in PresentAt(r) : Valid(m)}
      BY <2>1, <2>2 DEF FollowInv
    <3> QED BY <1>0, <3>1, <3>2 DEF After
  <2> QED BY <1>0, <1>1, <1>2, <2>1, <2>3, <2>4 DEF HandInv, FollowInv
<1>5. CASE Rewatch
  <2>1. w' = "loop" /\ next' = snap /\ snap' = snap
    BY <1>5 DEF Rewatch
  <2>2. PICK r : r = snap
    OBVIOUS
  <2>3. Base' = r
    BY <1>0, <2>1, <2>2 DEF Base
  <2>4. ASSUME Faithful', NEW n \in Nodes PROVE After(n)' <=> n \in PresentAt(r) /\ Valid(n)
    <3>1. eventCh = <<>> /\ view' = PresentAt(r) /\ ~ranged
      BY <1>0, <1>5, <2>2, <2>4 DEF Rewatch, Faithful
    <3>2. PICK u : u = view'
      OBVIOUS
    <3>3. Member(n, view, eventCh)' <=> n \in u
      BY <1>0, <3>1, <3>2, MemberEmpty
    <3> QED BY <1>0, <3>1, <3>2, <3>3 DEF After, Valid
  <2> QED BY <1>0, <1>1, <1>2, <2>1, <2>3, <2>4 DEF HandInv, FollowInv
<1> QED BY <1>3, <1>4, <1>5

\* All steps.
LEMMA FollowStep ==
  TypeOK /\ WatchPos /\ LogInv /\ HandInv /\ FollowInv /\ [Next]_vars => HandInv' /\ FollowInv'
<1> SUFFICES ASSUME TypeOK, WatchPos, LogInv, HandInv, FollowInv, [Next]_vars PROVE HandInv' /\ FollowInv'
  OBVIOUS
<1>1. CASE Compact \/ \E n \in Nodes : Active(n)
  <2>1. UNCHANGED <<w, next, snap, todo, eventCh, view, overtaken, resnapped, mode>>
    BY <1>1, OthersKeep DEF watcher, user
  <2> QED BY <1>1, <2>1, OthersKeep, FollowKeeps
<1>2. CASE ReadClosed \/ Stop \/ UNCHANGED vars
  <2>1. UNCHANGED <<log, w, next, snap, todo, eventCh, view, overtaken, resnapped, mode>>
    BY <1>2 DEF ReadClosed, Stop, vars, watcher, user, etcd
  <2>2. \A r \in 0..Rev : \A m \in Nodes : m \in PresentAt(r)' <=> m \in PresentAt(r)
    BY <2>1 DEF PresentAt
  <2> QED BY <2>1, <2>2, FollowKeeps
<1>3. CASE ErrCompacted \/ WatchError \/ NoPrevKv \/ RchClosed \/ CtxDone
  BY <1>3 DEF ErrCompacted, WatchError, NoPrevKv, RchClosed, CtxDone, HandInv, FollowInv
<1> QED BY <1>1, <1>2, <1>3, ReceiveFollows, SendFollows, ReadFollows, SnapshotFollows DEF Next, Watcher

\* When the reader has taken every event of the revisions the watcher received, its
\* connections are the sessions of that revision: no registration and no deletion is lost
\* between the snapshot and the watch, nor by the version filter or by a Rewatch that ran
\* with an empty channel.
THEOREM CaughtUp == Spec => []CaughtUpIsCurrent
<1>1. Init => WatchPos /\ HandInv /\ FollowInv
  BY DEF Init, WatchPos, HandInv, FollowInv
<1>2. TypeOK /\ HandInv /\ FollowInv => CaughtUpIsCurrent
  <2> SUFFICES ASSUME TypeOK, HandInv, FollowInv, w = "loop", eventCh = <<>>, Faithful
               PROVE  view = {n \in PresentAt(Base) : Valid(n)}
    BY DEF CaughtUpIsCurrent, Faithful, Base
  <2>1. view \subseteq Nodes /\ PresentAt(Base) \subseteq Nodes /\ todo = {}
    BY TypeParts DEF UserOK, PresentAt, HandInv
  <2>2. \A n \in Nodes : n \in view <=> n \in PresentAt(Base) /\ Valid(n)
    BY <2>1, MemberEmpty DEF FollowInv, After
  <2> QED BY <2>1, <2>2
<1>3. TypeOK' /\ WatchPos' <=> (TypeOK /\ WatchPos)'
  OBVIOUS
<1> QED BY InitTypes, InitActive, InitLog, <1>1, <1>2, TypesStep, WatchPosStep, StepActive, LogStep, FollowStep, PTL DEF Spec
=============================================================================
