------------------------------ MODULE DouyinApi ------------------------------
(***************************************************************************)
(* The control that all calls of the Douyin SDK share (internal/sdk/       *)
(* douyin): check the arguments, get a token, then try up to MaxAttempts   *)
(* times with growing pauses until a response decides.  Goroutines call    *)
(* concurrently; a request may be lost, or arrive after the client has     *)
(* given it up.  The platform is external: it applies a write when it      *)
(* handles a request and answers 200 with error number 0; with a 5xx or an *)
(* undecodable 200 it may or may not have applied it; otherwise it has not.*)
(*                                                                         *)
(* An instance looks at one resource of the platform, and at the value the *)
(* last applied write left there: the number of its call.                  *)
(***************************************************************************)
EXTENDS Naturals, Integers, FiniteSets, DouyinEndpoints

CONSTANTS
  Goroutines,  \* users of one Client
  MaxAttempts, \* Config.MaxAttempts; not positive: the default
  MaxCalls     \* bound on the calls made

ASSUME DouyinAssumption == MaxAttempts \in Int /\ MaxCalls \in Nat

VARIABLES
  resource,  \* the resource looked at
  at,        \* "idle", "ready" (to send, or pausing before) or "waits"
  call, tries, \* the goroutine's call [id, ep]; the attempts it has sent
  calls,     \* the calls begun
  wire,      \* requests under way: [id, ep, try]
  reply,     \* what the platform has answered to the goroutine's attempt
  value,     \* of the resource
  applied,   \* history: the calls the platform has applied
  ended,     \* history: the result of each call that has returned
  quiet      \* history: the last strict write, if no other could come in between

vars == <<resource, at, call, tries, calls, wire, reply, value, applied, ended, quiet>>

defaultMaxAttempts == 3
Attempts == IF MaxAttempts <= 0 THEN defaultMaxAttempts ELSE MaxAttempts

NoCall == [id |-> 0, ep |-> LiveQuizGet]

Init ==
  /\ resource \in Resources /\ value = 0 /\ applied = {}
  /\ at = [g \in Goroutines |-> "idle"] /\ call = [g \in Goroutines |-> NoCall]
  /\ tries = [g \in Goroutines |-> 0] /\ reply = [g \in Goroutines |-> "none"]
  /\ calls = 0 /\ wire = {} /\ ended = [i \in 1..MaxCalls |-> "open"] /\ quiet = {}

\* Writes that may still be applied, now or later.
Pending == {r \in wire : r.ep.writes} \cup {g \in Goroutines : at[g] # "idle" /\ call[g].ep.writes}

\* A call begins.  Bad arguments, no token or a bad URL: it returns and sends nothing.
Begin(g) ==
  /\ at[g] = "idle" /\ calls < MaxCalls /\ calls' = calls + 1
  /\ \E e \in {e \in Endpoints : e.on = resource} :
     \E met \in {e.checks} \cup {e.checks \ {x} : x \in e.checks} :
       \/ /\ met = e.checks
          /\ at' = [at EXCEPT ![g] = "ready"] /\ call' = [call EXCEPT ![g] = [id |-> calls + 1, ep |-> e]]
          /\ quiet' = IF ~e.writes THEN quiet ELSE {c \in {calls + 1} : Pending = {} /\ e.strict}
          /\ UNCHANGED ended
       \/ ended' = [ended EXCEPT ![calls + 1] = "error"] /\ UNCHANGED <<at, call, quiet>>
  /\ UNCHANGED <<resource, tries, wire, reply, value, applied>>

Return(g, result) ==
  /\ at' = [at EXCEPT ![g] = "idle"] /\ tries' = [tries EXCEPT ![g] = 0]
  /\ call' = [call EXCEPT ![g] = NoCall] /\ reply' = [reply EXCEPT ![g] = "none"]
  /\ ended' = [ended EXCEPT ![call[g].id] = result]

\* One attempt; the token, fetched once, and the payload are the same in each.
Send(g) ==
  /\ at[g] = "ready" /\ at' = [at EXCEPT ![g] = "waits"] /\ tries' = [tries EXCEPT ![g] = @ + 1]
  /\ wire' = wire \cup {[id |-> call[g].id, ep |-> call[g].ep, try |-> tries[g] + 1]}
  /\ UNCHANGED <<resource, call, calls, reply, value, applied, ended, quiet>>

\* The context ends in the pause before a further attempt.
CtxDone(g) ==
  /\ at[g] = "ready" /\ tries[g] > 0 /\ Return(g, "error")
  /\ UNCHANGED <<resource, calls, wire, value, applied, quiet>>

\* continue: the next round of the loop, or lastErr behind the last one.
Continue(g) ==
  IF tries[g] < Attempts
  THEN at' = [at EXCEPT ![g] = "ready"] /\ reply' = [reply EXCEPT ![g] = "none"]
       /\ UNCHANGED <<call, tries, ended>>
  ELSE Return(g, "error")

\* Do, or reading the body, fails: a timeout, a broken connection, the context.
NoResponse(g) ==
  /\ at[g] = "waits" /\ Continue(g)
  /\ UNCHANGED <<resource, calls, wire, value, applied, quiet>>

\* Mutant: nobody looks at the error number.
VerdictIgnoresErrNo(kind, ep) ==
  CASE kind \in {"ok", "err_no"} -> "ok" [] kind = "partial" -> "partial"
    [] kind = "5xx" -> "retry"
    [] kind = "junk" -> IF ep.strict THEN "error" ELSE "ok"
    [] OTHER -> "refused"

\* What the call makes of a response.
Verdict(kind, ep) ==
  CASE kind = "ok" -> "ok" [] kind = "partial" -> "partial"
    [] kind = "5xx" -> "retry"
    [] kind = "junk" -> IF ep.strict THEN "error" ELSE "ok"
    [] OTHER -> "refused"

Response(g) ==
  /\ at[g] = "waits" /\ reply[g] # "none"
  /\ LET v == Verdict(reply[g], call[g].ep)
     IN  IF v = "retry" THEN Continue(g)
         ELSE Return(g, IF v = "refused" /\ tries[g] > 1 THEN "error" ELSE v)
  /\ UNCHANGED <<resource, calls, wire, value, applied, quiet>>

\* The platform handles a request that has arrived.  Only the attempt that the
\* goroutine still waits for gets a response.
Handle(r) ==
  /\ r \in wire /\ wire' = wire \ {r}
  /\ \E kind \in {"ok", "err_no", "4xx", "5xx", "junk"} \cup (IF r.ep.partial THEN {"partial"} ELSE {}) :
       /\ \/ /\ kind \in {"ok", "5xx", "junk"} /\ r.ep.writes
             /\ value' = r.id /\ applied' = applied \cup {r.id}
          \/ (kind # "ok" \/ ~r.ep.writes) /\ UNCHANGED <<value, applied>>
       /\ reply' = [g \in Goroutines |->
            IF at[g] = "waits" /\ call[g].id = r.id /\ tries[g] = r.try THEN kind ELSE reply[g]]
  /\ UNCHANGED <<resource, at, call, tries, calls, ended, quiet>>

\* A request is lost.
Lose(r) ==
  /\ r \in wire /\ wire' = wire \ {r}
  /\ UNCHANGED <<resource, at, call, tries, calls, reply, value, applied, ended, quiet>>

Next ==
  \/ \E g \in Goroutines :
       Begin(g) \/ Send(g) \/ CtxDone(g) \/ NoResponse(g) \/ Response(g)
  \/ \E r \in wire : Handle(r) \/ Lose(r)

Spec == Init /\ [][Next]_vars

-----------------------------------------------------------------------------
\* A call that returned success is in effect, as long as no other write to the resource
\* began after it and none was under way, or given up by its caller and still on the
\* wire, when it began.  (Repeated reports overwrite: live_match.go:379.)  MiniAppPostJSON
\* without a respBody takes an undecodable 200 for a success and is left out.
QuietCallTakesEffect == \A i \in quiet : ended[i] = "ok" => value = i

\* A call that was refused at its first attempt has changed nothing, now and later.  (From
\* a later attempt a refusal does not say that: the first one may have been applied.)
RefusedIsNotApplied ==
  \A i \in 1..MaxCalls : ended[i] = "refused" => i \notin applied /\ \A r \in wire : r.id # i

\* What a call returns is true of the platform.
AnswersAreTrue == QuietCallTakesEffect /\ RefusedIsNotApplied
=============================================================================
