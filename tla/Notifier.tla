------------------------------- MODULE Notifier -------------------------------
(***************************************************************************)
(* VersionedNotifier over ContextCond (pkg/util/syncutil).  The mutex makes*)
(* every critical section one step; a waiter blocks outside of it, on the  *)
(* channel that was current when it looked at the version.  Channels are   *)
(* numbered in the order they are made.                                    *)
(***************************************************************************)
EXTENDS Integers

CONSTANTS
  Listeners,
  MaxVersion \* bound on the notifications

VARIABLES
  version,     \* versionedSignal.version
  ch, chans,   \* ContextCond.ch, 0 for nil; the number of channels made
  closedChans, \* those that are closed
  last,        \* lastNotifiedVersion of each listener
  waitsOn      \* the channel a listener waits on (in Wait, or got from WaitChan), 0 if none

notifierVars == <<version, ch, chans, closedChans, last, waitsOn>>

Init ==
  /\ version = 0 /\ ch = 0 /\ chans = 0 /\ closedChans = {}
  /\ last \in [Listeners -> {-1, 0}] \* Listen at the earliest, or at the latest, version
  /\ waitsOn = [l \in Listeners |-> 0]

\* Mutant: the broadcast and the new version in two critical sections.
NotifyAllSplit ==
  /\ version < MaxVersion
  /\ \/ /\ version' = version + 1 /\ UNCHANGED <<ch, closedChans>>
     \/ /\ ch # 0 /\ closedChans' = closedChans \cup {ch} /\ ch' = 0 /\ UNCHANGED version
  /\ UNCHANGED <<chans, last, waitsOn>>

\* LockAndBroadcast and the new version, under one lock.
NotifyAll ==
  /\ version < MaxVersion /\ version' = version + 1
  /\ closedChans' = IF ch = 0 THEN closedChans ELSE closedChans \cup {ch}
  /\ ch' = 0 /\ UNCHANGED <<chans, last, waitsOn>>

\* One look at the version under the lock: take it, or wait on the current channel, which
\* the first waiter makes.
Look(l) ==
  IF last[l] < version
  THEN /\ last' = [last EXCEPT ![l] = version] /\ waitsOn' = [waitsOn EXCEPT ![l] = 0]
       /\ UNCHANGED <<ch, chans>>
  ELSE /\ ch' = IF ch = 0 THEN chans + 1 ELSE ch
       /\ chans' = IF ch = 0 THEN chans + 1 ELSE chans
       /\ waitsOn' = [waitsOn EXCEPT ![l] = ch'] /\ UNCHANGED last

\* Wait and WaitChan begin.
WaitBegins(l) == waitsOn[l] = 0 /\ Look(l) /\ UNCHANGED <<version, closedChans>>

\* The channel is closed: Wait takes the lock and looks again.
Wakes(l) == waitsOn[l] \in closedChans /\ Look(l) /\ UNCHANGED <<version, closedChans>>

\* The context ends, or the caller of WaitChan turns to something else.
GivesUp(l) ==
  /\ waitsOn[l] # 0 /\ waitsOn' = [waitsOn EXCEPT ![l] = 0]
  /\ UNCHANGED <<version, ch, chans, closedChans, last>>

Sync(l) ==
  /\ waitsOn[l] = 0 /\ last' = [last EXCEPT ![l] = version]
  /\ UNCHANGED <<version, ch, chans, closedChans, waitsOn>>

Next ==
  \/ NotifyAll
  \/ \E l \in Listeners : WaitBegins(l) \/ Wakes(l) \/ GivesUp(l) \/ Sync(l)

Spec == Init /\ [][Next]_notifierVars

-----------------------------------------------------------------------------
\* A listener that waits on an open channel has seen every notification: none falls
\* between its look at the version and its wait.
NoLostNotification ==
  \A l \in Listeners : waitsOn[l] # 0 /\ waitsOn[l] \notin closedChans => last[l] >= version
=============================================================================
