------------------------------- MODULE AsyncLog -------------------------------
(***************************************************************************)
(* The asynchronous log core (pkg/log/zap_async_buffered_write_core.go):   *)
(* writers queue entries, one goroutine writes them into zap's buffered    *)
(* syncer, Stop cancels that goroutine and waits for a last flush, which   *)
(* gives up after stopTimeout.  The disk may be stuck for as long as it    *)
(* likes; its errors, which only count a metric, are left out.             *)
(***************************************************************************)
EXTENDS Naturals, Sequences

CONSTANTS
  Writers,
  PendingLength, \* capacity of the queue
  MaxWrites      \* bound on the entries

VARIABLES
  writing,     \* the entry each writer is queueing, NoEntry outside Write
  writes,      \* entries so far
  queue,       \* pending
  buffer, disk, \* the BufferedWriteSyncer, and what it has flushed
  background,  \* "loop", "flush" (flushPendingWriteWithTimeout) or "finished"
  flusher,     \* flushAllPendingWrites: "none", "drain" or "done"
  cancelled,   \* Stop has cancelled the context
  accepted, before, dropped, \* history: entries queued, those queued before Stop, given up
  gaveUp       \* history: the last flush timed out

logVars == <<writing, writes, queue, buffer, disk, background, flusher, cancelled,
             accepted, before, dropped, gaveUp>>

\* Levels relative to nonDroppableLevel of the configuration; the core made by With has
\* lost that field, whose zero value is the info level.
Levels == {"info", "error", "fatal"}
NonDroppable(core) == IF core = "with" THEN Levels ELSE {"error", "fatal"}
NoEntry == [id |-> 0, level |-> "info", blocks |-> FALSE]

Init ==
  /\ writing = [p \in Writers |-> NoEntry] /\ writes = 0 /\ queue = <<>>
  /\ buffer = <<>> /\ disk = <<>> /\ background = "loop" /\ flusher = "none"
  /\ cancelled = FALSE /\ accepted = {} /\ before = {} /\ dropped = {} /\ gaveUp = FALSE

Write(p) ==
  /\ writing[p] = NoEntry /\ writes < MaxWrites /\ writes' = writes + 1
  /\ \E level \in Levels, core \in {"root", "with"} :
       writing' = [writing EXCEPT ![p] = [id |-> writes + 1, level |-> level,
                                          blocks |-> level \in NonDroppable(core)]]
  /\ UNCHANGED <<queue, buffer, disk, background, flusher, cancelled, accepted, before, dropped, gaveUp>>

\* The select of Write: the queue has room ...
Enqueue(p) ==
  /\ writing[p] # NoEntry /\ Len(queue) < PendingLength
  /\ queue' = Append(queue, writing[p]) /\ accepted' = accepted \cup {writing[p]}
  /\ writing' = [writing EXCEPT ![p] = NoEntry]
  /\ UNCHANGED <<writes, buffer, disk, background, flusher, cancelled, before, dropped, gaveUp>>

\* ... or writeDroppedTimeout has passed; there is no such timer at a non-droppable level.
DropTimeout(p) ==
  /\ writing[p] # NoEntry /\ ~writing[p].blocks
  /\ dropped' = dropped \cup {writing[p]} /\ writing' = [writing EXCEPT ![p] = NoEntry]
  /\ UNCHANGED <<writes, queue, buffer, disk, background, flusher, cancelled, accepted, before, gaveUp>>

\* consumeEntry: into the buffer, which may flush, and does above the error level.
consumeEntry ==
  /\ queue # <<>> /\ queue' = Tail(queue)
  /\ \/ Head(queue).level # "fatal" /\ buffer' = Append(buffer, Head(queue)) /\ UNCHANGED disk
     \/ disk' = Append(disk \o buffer, Head(queue)) /\ buffer' = <<>>

Consume ==
  /\ background = "loop" /\ consumeEntry
  /\ UNCHANGED <<writing, writes, background, flusher, cancelled, accepted, before, dropped, gaveUp>>

\* The syncer's own ticker.
FlushTick ==
  /\ buffer # <<>> /\ flusher # "done" /\ disk' = disk \o buffer /\ buffer' = <<>>
  /\ UNCHANGED <<writing, writes, queue, background, flusher, cancelled, accepted, before, dropped, gaveUp>>

\* Mutant: the deferred function finishes without the flush.
CtxDoneNoFlush ==
  /\ background = "loop" /\ cancelled /\ background' = "finished" /\ flusher' = "done"
  /\ UNCHANGED <<writing, writes, queue, buffer, disk, cancelled, accepted, before, dropped, gaveUp>>

CtxDone ==
  /\ background = "loop" /\ cancelled /\ background' = "flush" /\ flusher' = "drain"
  /\ UNCHANGED <<writing, writes, queue, buffer, disk, cancelled, accepted, before, dropped, gaveUp>>

\* flushAllPendingWrites, on a goroutine of its own: until the queue is found empty, then
\* bws.Stop flushes the rest.
Drain ==
  /\ flusher = "drain"
  /\ \/ consumeEntry /\ UNCHANGED flusher
     \/ queue = <<>> /\ disk' = disk \o buffer /\ buffer' = <<>> /\ flusher' = "done" /\ UNCHANGED queue
  /\ UNCHANGED <<writing, writes, background, cancelled, accepted, before, dropped, gaveUp>>

\* flushPendingWriteWithTimeout returns, and Finish lets Stop return.
FlushEnds ==
  /\ background = "flush" /\ background' = "finished"
  /\ \/ flusher = "done" /\ UNCHANGED gaveUp
     \/ gaveUp' = TRUE
  /\ UNCHANGED <<writing, writes, queue, buffer, disk, flusher, cancelled, accepted, before, dropped>>

Stop ==
  /\ ~cancelled /\ cancelled' = TRUE /\ before' = accepted
  /\ UNCHANGED <<writing, writes, queue, buffer, disk, background, flusher, accepted, dropped, gaveUp>>

Next ==
  \/ \E p \in Writers : Write(p) \/ Enqueue(p) \/ DropTimeout(p)
  \/ Consume \/ FlushTick \/ CtxDone \/ Drain \/ FlushEnds \/ Stop

Spec == Init /\ [][Next]_logVars

-----------------------------------------------------------------------------
\* Stop has returned.
Stopped == cancelled /\ background = "finished"
Written == {disk[i] : i \in DOMAIN disk}

\* Whatever was queued before Stop is on disk when Stop returns, unless the flush timed
\* out; no entry is on disk twice; and an entry at a non-droppable level is never dropped.
StopFlushes ==
  /\ Stopped /\ ~gaveUp => before \subseteq Written
  /\ \A i, j \in DOMAIN disk : i # j => disk[i] # disk[j]
  /\ \A e \in dropped : e.level = "info" /\ e \notin accepted
=============================================================================
