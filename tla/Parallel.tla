------------------------------- MODULE Parallel -------------------------------
(***************************************************************************)
(* ProcessFuncParallel (pkg/util/funcutil/parallel.go): batches of indices *)
(* on goroutines of their own, which report over unbuffered channels to    *)
(* the caller; the first error makes the caller close quit and wait.       *)
(* ProcessTaskParallel is the same function over a list of tasks.          *)
(***************************************************************************)
EXTENDS Naturals, Integers, FiniteSets, FiniteSetsExt

CONSTANTS
  MaxTotal, \* bound on total
  MaxPar    \* bound on maxParallel

VARIABLES
  total, perBatch, \* the indices, and how many each goroutine gets
  worker,    \* by its first index: "start", "runs", "reports", "reportsError" or "ended"
  idx,       \* the index it is at
  processed, errored, \* history: how often f was called on an index; where it failed
  count, quit, result \* of the caller: reports taken, quit closed, "none", "waitNil", "waitError", "nil", "error"

parVars == <<total, perBatch, worker, idx, processed, errored, count, quit, result>>

Begins == {b \in 0..(total - 1) : b % perBatch = 0}

\* Any maxParallel, also one that is not positive, for any total.  No goroutine: nil.
Init ==
  /\ total \in 0..MaxTotal
  /\ \E maxParallel \in -1..MaxPar :
       LET par == IF maxParallel <= 0 THEN 1 ELSE maxParallel
       IN  perBatch = (total + par - 1) \div par
  /\ worker = [b \in 0..(MaxTotal - 1) |-> "start"] /\ idx = [b \in 0..(MaxTotal - 1) |-> b]
  /\ processed = [i \in 0..(MaxTotal - 1) |-> 0] /\ errored = {}
  /\ count = 0 /\ quit = FALSE /\ result = IF total = 0 THEN "nil" ELSE "none"

Goto(b, label) == worker' = [worker EXCEPT ![b] = label]

\* A goroutine looks at quit before it begins.
WorkerStarts(b) ==
  /\ worker[b] = "start" /\ Goto(b, IF quit THEN "ended" ELSE "runs")
  /\ UNCHANGED <<total, perBatch, idx, processed, errored, count, quit, result>>

\* f is called on one index, and may fail.
Process(b) ==
  /\ worker[b] = "runs" /\ idx[b] < Min({total, b + perBatch})
  /\ processed' = [processed EXCEPT ![idx[b]] = @ + 1]
  /\ \/ idx' = [idx EXCEPT ![b] = @ + 1] /\ UNCHANGED <<worker, errored>>
     \/ errored' = errored \cup {idx[b]} /\ Goto(b, "reportsError") /\ UNCHANGED idx
  /\ UNCHANGED <<total, perBatch, count, quit, result>>

BatchDone(b) ==
  /\ worker[b] = "runs" /\ idx[b] >= Min({total, b + perBatch}) /\ Goto(b, "reports")
  /\ UNCHANGED <<total, perBatch, idx, processed, errored, count, quit, result>>

\* Rendezvous on done, or on errc, while the caller is in its select.
TakeDone(b) ==
  /\ worker[b] = "reports" /\ result = "none" /\ Goto(b, "ended") /\ count' = count + 1
  /\ result' = IF count + 1 = Cardinality(Begins) THEN "waitNil" ELSE "none"
  /\ UNCHANGED <<total, perBatch, idx, processed, errored, quit>>

TakeError(b) ==
  /\ worker[b] = "reportsError" /\ result = "none" /\ Goto(b, "ended")
  /\ quit' = TRUE /\ result' = "waitError"
  /\ UNCHANGED <<total, perBatch, idx, processed, errored, count>>

\* Mutant: an error is reported without a look at quit.
QuitsOnlyWhenDone(b) ==
  /\ worker[b] = "reports" /\ quit /\ Goto(b, "ended")
  /\ UNCHANGED <<total, perBatch, idx, processed, errored, count, quit, result>>

Quits(b) ==
  /\ worker[b] \in {"reports", "reportsError"} /\ quit /\ Goto(b, "ended")
  /\ UNCHANGED <<total, perBatch, idx, processed, errored, count, quit, result>>

\* wg.Wait, and the return.
Returns ==
  /\ result \in {"waitNil", "waitError"} /\ \A b \in Begins : worker[b] = "ended"
  /\ result' = IF result = "waitNil" THEN "nil" ELSE "error"
  /\ UNCHANGED <<total, perBatch, worker, idx, processed, errored, count, quit>>

Next ==
  \/ \E b \in Begins : \/ WorkerStarts(b) \/ Process(b) \/ BatchDone(b)
                       \/ TakeDone(b) \/ TakeError(b) \/ Quits(b)
  \/ Returns

\* The goroutines are scheduled, a rendezvous that can take place does, and f returns.
Fairness ==
  /\ \A b \in 0..(MaxTotal - 1) :
       WF_parVars(b \in Begins /\ (\/ WorkerStarts(b) \/ Process(b) \/ BatchDone(b)
                                   \/ TakeDone(b) \/ TakeError(b) \/ Quits(b)))
  /\ WF_parVars(Returns)

Spec == Init /\ [][Next]_parVars /\ Fairness

-----------------------------------------------------------------------------
\* What the result promises once the call has returned.
Faithful ==
  /\ result = "nil" => errored = {} /\ \A i \in 0..(total - 1) : processed[i] = 1
  /\ result = "error" => errored # {} /\ \A i \in 0..(total - 1) : processed[i] <= 1

\* The call returns, with every goroutine ended, and its result is right.
ReturnsFaithfully == <>(result \in {"nil", "error"} /\ Faithful)
=============================================================================
