---------------------------- MODULE ToolkitProofs ----------------------------
(***************************************************************************)
(* Proofs about the parts that MCToolkit puts together, each for any size  *)
(* of its own constants, and of the composition.  A call of the Douyin SDK *)
(* tells the truth about the platform; Stop of the log core returns with   *)
(* everything on disk; the versioned notifier loses no notification; and   *)
(* Decode returns what was encoded (from FramePipelineProofs).             *)
(***************************************************************************)
EXTENDS MCToolkit, SeqLemmas

-----------------------------------------------------------------------------
(* The calls of the Douyin SDK.                                            *)

Kinds == {"ok", "err_no", "4xx", "5xx", "junk", "partial"}
Results == {"open", "ok", "partial", "refused", "error"}

ApiTypes ==
  /\ at \in [Goroutines -> {"idle", "ready", "waits"}]
  /\ call \in [Goroutines -> [id : Nat, ep : Endpoints]]
  /\ tries \in [Goroutines -> Nat] /\ calls \in 0..MaxCalls
  /\ wire \subseteq [id : 1..calls, ep : Endpoints, try : Nat]
  /\ reply \in [Goroutines -> Kinds \cup {"none"}]
  /\ applied \subseteq 1..calls /\ ended \in [1..MaxCalls -> Results] /\ quiet \subseteq 1..calls

\* A call under way has a number of its own and has not ended; nor has one yet to begin.
OpenCalls ==
  /\ \A g \in Goroutines : at[g] # "idle" =>
       /\ call[g].id \in 1..calls /\ ended[call[g].id] = "open"
       /\ \A h \in Goroutines : h # g /\ at[h] # "idle" => call[h].id # call[g].id
  /\ \A i \in 1..MaxCalls : i > calls => ended[i] = "open"

\* Its requests are those of its attempts so far.
OwnRequests ==
  \A g \in Goroutines : at[g] # "idle" =>
    \A r \in wire : r.id = call[g].id => r.ep = call[g].ep /\ r.try \in 1..tries[g]

\* Before the first attempt nothing is on its way, and while that is the only one, its
\* answer, once there is one, tells whether it was applied.
FirstAttempt ==
  \A g \in Goroutines :
    /\ at[g] = "waits" => tries[g] >= 1
    /\ at[g] # "waits" => reply[g] = "none"
    /\ at[g] # "idle" /\ tries[g] = 0 =>
         call[g].id \notin applied /\ \A r \in wire : r.id # call[g].id
    /\ at[g] = "waits" /\ tries[g] = 1 =>
         /\ reply[g] # "none" => \A r \in wire : r.id # call[g].id
         /\ reply[g] \in {"none", "err_no", "4xx"} => call[g].id \notin applied

AnsweredOk ==
  \A g \in Goroutines :
    at[g] = "waits" /\ reply[g] = "ok" /\ call[g].ep.writes => call[g].id \in applied

\* While the last write is quiet, no other can be applied.
QuietAlone ==
  \A i \in quiet :
    /\ \A r \in wire : r.ep.writes => r.id = i
    /\ \A g \in Goroutines : at[g] # "idle" /\ call[g].ep.writes => call[g].id = i
    /\ \A g \in Goroutines : at[g] # "idle" /\ call[g].id = i => call[g].ep.writes /\ call[g].ep.strict
    /\ i \in applied => value = i
    /\ ended[i] = "ok" => i \in applied

ApiInv ==
  /\ ApiTypes /\ OpenCalls /\ OwnRequests /\ FirstAttempt /\ AnsweredOk /\ QuietAlone
  /\ RefusedIsNotApplied

\* It holds before any call.
LEMMA InitApiInv == Init => ApiInv
<1> SUFFICES ASSUME Init PROVE ApiInv OBVIOUS
<1>1. LiveQuizGet \in Endpoints
  BY DEF Endpoints
<1>2. ApiTypes
  BY <1>1, DouyinAssumption DEF Init, ApiTypes, NoCall, Kinds, Results
<1> QED BY <1>2, DouyinAssumption DEF Init, ApiInv, OpenCalls, OwnRequests, FirstAttempt, AnsweredOk, QuietAlone, RefusedIsNotApplied

\* A call ends: a refusal must be a true one, and so must the success of a quiet write.
LEMMA ReturnApiInv ==
  ASSUME ApiInv, NEW g \in Goroutines, NEW outcome \in Results, at[g] # "idle", Return(g, outcome),
         outcome # "open",
         outcome = "refused" => call[g].id \notin applied /\ \A r \in wire : r.id # call[g].id,
         outcome = "ok" /\ call[g].id \in quiet => call[g].id \in applied,
         UNCHANGED <<resource, calls, wire, value, applied, quiet>>
  PROVE  ApiInv'
<1> DEFINE n == call[g].id
<1>1. /\ ApiTypes /\ OpenCalls /\ OwnRequests /\ FirstAttempt /\ AnsweredOk /\ QuietAlone
      /\ RefusedIsNotApplied
  BY DEF ApiInv
<1>2. n \in 1..calls /\ calls \in 0..MaxCalls /\ n \in 1..MaxCalls
  BY <1>1, DouyinAssumption DEF OpenCalls, ApiTypes
<1>3. /\ at' = [at EXCEPT ![g] = "idle"] /\ tries' = [tries EXCEPT ![g] = 0]
      /\ call' = [call EXCEPT ![g] = NoCall] /\ reply' = [reply EXCEPT ![g] = "none"]
      /\ ended' = [ended EXCEPT ![n] = outcome]
      /\ UNCHANGED <<resource, calls, wire, value, applied, quiet>>
  BY DEF Return
<1>4. NoCall \in [id : Nat, ep : Endpoints]
  BY DEF NoCall, Endpoints
<1>5. ApiTypes'
  BY <1>1, <1>2, <1>3, <1>4 DEF ApiTypes
<1>6. /\ at'[g] = "idle" /\ reply'[g] = "none"
      /\ \A h \in Goroutines : h # g => at'[h] = at[h] /\ call'[h] = call[h] /\ tries'[h] = tries[h] /\ reply'[h] = reply[h]
      /\ ended'[n] = outcome /\ \A i \in 1..MaxCalls : i # n => ended'[i] = ended[i]
  BY <1>1, <1>2, <1>3 DEF ApiTypes
<1> HIDE DEF n
<1>7. OpenCalls'
  <2>1. ASSUME NEW h \in Goroutines, at'[h] # "idle"
        PROVE  /\ call'[h].id \in 1..calls' /\ ended'[call'[h].id] = "open"
               /\ \A k \in Goroutines : k # h /\ at'[k] # "idle" => call'[k].id # call'[h].id
    <3>1. h # g /\ at[h] # "idle" /\ call[h].id # n
      BY <1>1, <1>6, <2>1 DEF OpenCalls, n
    <3>2. call[h].id \in 1..calls /\ ended[call[h].id] = "open"
          /\ \A k \in Goroutines : k # h /\ at[k] # "idle" => call[k].id # call[h].id
      BY <1>1, <3>1 DEF OpenCalls
    <3>3. call[h].id \in 1..MaxCalls
      BY <1>2, <3>2, DouyinAssumption
    <3> QED BY <1>3, <1>6, <3>1, <3>2, <3>3
  <2>2. ASSUME NEW i \in 1..MaxCalls, i > calls PROVE ended'[i] = "open"
    <3>1. i # n BY <1>2, <2>2
    <3> QED BY <1>1, <1>6, <2>2, <3>1 DEF OpenCalls
  <2> QED BY <1>3, <2>1, <2>2 DEF OpenCalls
<1>8. OwnRequests'
  BY <1>1, <1>3, <1>6 DEF OwnRequests
<1>9. FirstAttempt' /\ AnsweredOk'
  BY <1>1, <1>3, <1>6 DEF FirstAttempt, AnsweredOk
<1>10. QuietAlone'
  <2>1. ASSUME NEW i \in quiet
        PROVE  /\ \A r \in wire : r.ep.writes => r.id = i
               /\ \A h \in Goroutines : at'[h] # "idle" /\ call'[h].ep.writes => call'[h].id = i
               /\ \A h \in Goroutines : at'[h] # "idle" /\ call'[h].id = i => call'[h].ep.writes /\ call'[h].ep.strict
               /\ i \in applied => value = i
    BY <1>1, <1>6 DEF QuietAlone
  <2>2. ASSUME NEW i \in quiet, ended'[i] = "ok" PROVE i \in applied
    <3>1. CASE i = n
      BY <1>6, <2>2, <3>1 DEF n
    <3>2. CASE i # n
      <4>1. i \in 1..MaxCalls
        BY <1>1, <1>2, DouyinAssumption DEF ApiTypes
      <4> QED BY <1>1, <1>6, <2>2, <3>2, <4>1 DEF QuietAlone
    <3> QED BY <3>1, <3>2
  <2> QED BY <1>3, <2>1, <2>2 DEF QuietAlone
<1>11. RefusedIsNotApplied'
  <2>1. ASSUME NEW i \in 1..MaxCalls, ended'[i] = "refused"
        PROVE  i \notin applied /\ \A r \in wire : r.id # i
    <3>1. CASE i = n
      BY <1>6, <2>1, <3>1 DEF n
    <3>2. CASE i # n
      BY <1>1, <1>6, <2>1, <3>2 DEF RefusedIsNotApplied
    <3> QED BY <3>1, <3>2
  <2> QED BY <1>3, <2>1 DEF RefusedIsNotApplied
<1> QED BY <1>5, <1>7, <1>8, <1>9, <1>10, <1>11 DEF ApiInv

\* Another attempt, or the error behind the last one.
LEMMA ContinueApiInv ==
  ASSUME ApiInv, NEW g \in Goroutines, at[g] = "waits", Continue(g),
         UNCHANGED <<resource, calls, wire, value, applied, quiet>>
  PROVE  ApiInv'
<1>1. CASE tries[g] < Attempts
  <2>1. /\ at' = [at EXCEPT ![g] = "ready"] /\ reply' = [reply EXCEPT ![g] = "none"]
        /\ UNCHANGED <<call, tries, ended, calls, wire, value, applied, quiet>>
    BY <1>1 DEF Continue
  <2>2. ApiTypes'
    BY <2>1 DEF ApiInv, ApiTypes
  <2>3. /\ at'[g] = "ready" /\ reply'[g] = "none" /\ tries[g] >= 1
        /\ \A h \in Goroutines : h # g => at'[h] = at[h] /\ reply'[h] = reply[h]
    BY <2>1 DEF ApiInv, ApiTypes, FirstAttempt
  <2>4. \A h \in Goroutines : at'[h] # "idle" <=> at[h] # "idle"
    BY <2>3
  <2>5. OpenCalls' /\ OwnRequests'
    BY <2>1, <2>4 DEF ApiInv, OpenCalls, OwnRequests
  <2>6. FirstAttempt' /\ AnsweredOk'
    BY <2>1, <2>3 DEF ApiInv, FirstAttempt, AnsweredOk
  <2>7. QuietAlone' /\ RefusedIsNotApplied'
    BY <2>1, <2>4 DEF ApiInv, QuietAlone, RefusedIsNotApplied
  <2> QED BY <2>2, <2>5, <2>6, <2>7 DEF ApiInv
<1>2. CASE ~(tries[g] < Attempts)
  <2>1. Return(g, "error")
    BY <1>2 DEF Continue
  <2>2. "error" \in Results
    BY DEF Results
  <2> QED BY <2>1, <2>2, ReturnApiInv
<1> QED BY <1>1, <1>2

\* A new call: nothing of its number exists yet, and no quiet write stays behind it
\* unless it only reads.
LEMMA BeginApiInv == ASSUME ApiInv, NEW g \in Goroutines, Begin(g) PROVE ApiInv'
<1> DEFINE n == calls + 1
<1>1. /\ ApiTypes /\ OpenCalls /\ OwnRequests /\ FirstAttempt /\ AnsweredOk /\ QuietAlone
      /\ RefusedIsNotApplied
  BY DEF ApiInv
<1>2. /\ at[g] = "idle" /\ calls' = n /\ n \in 1..MaxCalls /\ n \notin 1..calls
      /\ calls \in 0..MaxCalls /\ 1..calls \subseteq 1..n
      /\ UNCHANGED <<resource, tries, wire, reply, value, applied>>
  BY <1>1, DouyinAssumption DEF Begin, ApiTypes
<1>3. /\ n \notin applied /\ n \notin quiet /\ \A r \in wire : r.id # n
      /\ \A h \in Goroutines : at[h] # "idle" => call[h].id # n
      /\ ended[n] = "open"
  BY <1>1, <1>2 DEF ApiTypes, OpenCalls
<1>4. CASE ended' = [ended EXCEPT ![n] = "error"] /\ UNCHANGED <<at, call, quiet>>
  <2>1. /\ ended' \in [1..MaxCalls -> Results] /\ ended'[n] = "error"
        /\ \A i \in 1..MaxCalls : i # n => ended'[i] = ended[i]
    BY <1>1, <1>2, <1>4 DEF ApiTypes, Results
  <2>2. ApiTypes'
    BY <1>1, <1>2, <1>4, <2>1 DEF ApiTypes
  <2> HIDE DEF n
  <2>3. ASSUME NEW h \in Goroutines, at[h] # "idle"
        PROVE  call[h].id \in 1..n /\ ended'[call[h].id] = "open"
    <3>1. call[h].id \in 1..calls /\ ended[call[h].id] = "open" /\ call[h].id # n
      BY <1>1, <1>3, <2>3 DEF OpenCalls
    <3> QED BY <1>2, <2>1, <3>1, DouyinAssumption
  <2>4. ASSUME NEW i \in 1..MaxCalls, i > n PROVE ended'[i] = "open"
    BY <1>1, <1>2, <2>1, <2>4 DEF OpenCalls, n
  <2>5. OpenCalls'
    BY <1>1, <1>2, <1>4, <2>3, <2>4 DEF OpenCalls
  <2>6. OwnRequests' /\ FirstAttempt' /\ AnsweredOk'
    BY <1>1, <1>2, <1>4 DEF OwnRequests, FirstAttempt, AnsweredOk
  <2>7. \A i \in quiet : i \in 1..MaxCalls /\ i # n
    BY <1>1, <1>2, <1>3, DouyinAssumption DEF ApiTypes
  <2>8. QuietAlone'
    BY <1>1, <1>2, <1>4, <2>1, <2>7 DEF QuietAlone
  <2>9. RefusedIsNotApplied'
    BY <1>1, <1>2, <1>4, <2>1 DEF RefusedIsNotApplied
  <2> QED BY <2>2, <2>5, <2>6, <2>8, <2>9 DEF ApiInv
<1>5. ASSUME NEW e \in Endpoints,
             at' = [at EXCEPT ![g] = "ready"], call' = [call EXCEPT ![g] = [id |-> n, ep |-> e]],
             quiet' = IF ~e.writes THEN quiet ELSE {c \in {n} : Pending = {} /\ e.strict},
             ended' = ended
      PROVE  ApiInv'
  <2>1. /\ at'[g] = "ready" /\ call'[g].id = n /\ call'[g].ep = e
        /\ \A h \in Goroutines : h # g => at'[h] = at[h] /\ call'[h] = call[h]
    BY <1>1, <1>5 DEF ApiTypes
  <2>2. \/ quiet' = quiet /\ ~e.writes
        \/ quiet' = {}
        \/ quiet' = {n} /\ Pending = {} /\ e.strict /\ e.writes
    BY <1>5
  <2>3. quiet' \subseteq 1..n
    <3>1. quiet \subseteq 1..n /\ n \in 1..n
      BY <1>1, <1>2 DEF ApiTypes
    <3> QED BY <2>2, <3>1
  <2>4. [id |-> n, ep |-> e] \in [id : Nat, ep : Endpoints]
    BY <1>2
  <2>5. ApiTypes'
    <3>1. at' \in [Goroutines -> {"idle", "ready", "waits"}] /\ call' \in [Goroutines -> [id : Nat, ep : Endpoints]]
      BY <1>1, <1>5, <2>4 DEF ApiTypes
    <3> QED BY <1>1, <1>2, <1>5, <2>3, <3>1 DEF ApiTypes
  <2> HIDE DEF n
  <2>6. OpenCalls'
    <3>1. ASSUME NEW h \in Goroutines, at'[h] # "idle"
          PROVE  /\ call'[h].id \in 1..n /\ ended[call'[h].id] = "open"
                 /\ \A k \in Goroutines : k # h /\ at'[k] # "idle" => call'[k].id # call'[h].id
      <4>1. CASE h = g
        BY <1>2, <1>3, <2>1, <4>1
      <4>2. CASE h # g
        BY <1>1, <1>2, <1>3, <2>1, <3>1, <4>2 DEF OpenCalls
      <4> QED BY <4>1, <4>2
    <3>2. \A i \in 1..MaxCalls : i > n => ended[i] = "open"
      BY <1>1, <1>2 DEF OpenCalls, n
    <3> QED BY <1>2, <1>5, <3>1, <3>2 DEF OpenCalls
  <2>7. OwnRequests'
    BY <1>1, <1>2, <1>3, <2>1 DEF OwnRequests
  <2>8. FirstAttempt' /\ AnsweredOk'
    BY <1>1, <1>2, <1>3, <2>1 DEF FirstAttempt, AnsweredOk
  <2>9. QuietAlone'
    <3>1. CASE quiet' = {}
      BY <3>1 DEF QuietAlone
    <3>2. CASE quiet' = quiet /\ ~e.writes
      BY <1>1, <1>2, <1>3, <1>5, <2>1, <3>2 DEF QuietAlone
    <3>3. CASE quiet' = {n} /\ Pending = {} /\ e.strict /\ e.writes
      <4>1. /\ \A r \in wire : ~r.ep.writes
            /\ \A h \in Goroutines : ~(at[h] # "idle" /\ call[h].ep.writes)
        BY <3>3 DEF Pending
      <4> QED BY <1>2, <1>3, <1>5, <2>1, <3>3, <4>1 DEF QuietAlone
    <3> QED BY <2>2, <3>1, <3>2, <3>3
  <2>10. RefusedIsNotApplied'
    BY <1>1, <1>2, <1>5 DEF RefusedIsNotApplied
  <2> QED BY <2>5, <2>6, <2>7, <2>8, <2>9, <2>10 DEF ApiInv
<1>6. \/ ended' = [ended EXCEPT ![n] = "error"] /\ UNCHANGED <<at, call, quiet>>
      \/ \E e \in Endpoints :
           /\ at' = [at EXCEPT ![g] = "ready"] /\ call' = [call EXCEPT ![g] = [id |-> n, ep |-> e]]
           /\ quiet' = IF ~e.writes THEN quiet ELSE {c \in {n} : Pending = {} /\ e.strict}
           /\ ended' = ended
  BY DEF Begin
<1> QED BY <1>4, <1>5, <1>6

\* One more request of a call under way.
LEMMA SendApiInv == ASSUME ApiInv, NEW g \in Goroutines, Send(g) PROVE ApiInv'
<1> DEFINE r == [id |-> call[g].id, ep |-> call[g].ep, try |-> tries[g] + 1]
<1>1. /\ ApiTypes /\ OpenCalls /\ OwnRequests /\ FirstAttempt /\ AnsweredOk /\ QuietAlone
      /\ RefusedIsNotApplied
  BY DEF ApiInv
<1>2. /\ at[g] = "ready" /\ at' = [at EXCEPT ![g] = "waits"]
      /\ tries' = [tries EXCEPT ![g] = tries[g] + 1] /\ wire' = wire \cup {r}
      /\ UNCHANGED <<resource, call, calls, reply, value, applied, ended, quiet>>
  BY DEF Send
<1>3. /\ r.id = call[g].id /\ r.ep = call[g].ep /\ r.try = tries[g] + 1
      /\ tries[g] \in Nat /\ r.id \in 1..calls /\ r.ep \in Endpoints /\ r.try \in Nat
      /\ r \in [id : 1..calls, ep : Endpoints, try : Nat] /\ ended[r.id] = "open"
      /\ reply[g] = "none"
  BY <1>1, <1>2 DEF ApiTypes, OpenCalls, FirstAttempt
<1> HIDE DEF r
<1>4. ApiTypes'
  BY <1>1, <1>2, <1>3 DEF ApiTypes
<1>5. /\ at'[g] = "waits" /\ tries'[g] = tries[g] + 1
      /\ \A h \in Goroutines : h # g => at'[h] = at[h] /\ tries'[h] = tries[h]
      /\ \A h \in Goroutines : at'[h] # "idle" <=> at[h] # "idle"
      /\ \A h \in Goroutines : h # g /\ at[h] # "idle" => call[h].id # r.id
  BY <1>1, <1>2, <1>3 DEF ApiTypes, OpenCalls
<1>6. OpenCalls'
  BY <1>1, <1>2, <1>5 DEF OpenCalls
<1>7. OwnRequests'
  <2>1. ASSUME NEW h \in Goroutines, at'[h] # "idle", NEW q \in wire', q.id = call[h].id
        PROVE  q.ep = call[h].ep /\ q.try \in 1..tries'[h]
    <3>1. CASE q = r
      BY <1>3, <1>5, <2>1, <3>1
    <3>2. CASE q \in wire
      <4>1. q.ep = call[h].ep /\ q.try \in 1..tries[h] /\ tries[h] \in Nat
        BY <1>1, <1>5, <2>1, <3>2 DEF OwnRequests, ApiTypes
      <4> QED BY <1>5, <4>1
    <3> QED BY <1>2, <2>1, <3>1, <3>2
  <2> QED BY <1>2, <2>1 DEF OwnRequests
<1>8. FirstAttempt'
  <2>1. ASSUME NEW h \in Goroutines
        PROVE  /\ at'[h] = "waits" => tries'[h] >= 1
               /\ at'[h] # "waits" => reply[h] = "none"
               /\ at'[h] # "idle" /\ tries'[h] = 0 =>
                    call[h].id \notin applied /\ \A q \in wire' : q.id # call[h].id
               /\ at'[h] = "waits" /\ tries'[h] = 1 =>
                    /\ reply[h] # "none" => \A q \in wire' : q.id # call[h].id
                    /\ reply[h] \in {"none", "err_no", "4xx"} => call[h].id \notin applied
    <3>1. CASE h = g
      BY <1>1, <1>2, <1>3, <1>5, <3>1 DEF FirstAttempt
    <3>2. CASE h # g
      BY <1>1, <1>2, <1>5, <3>2 DEF FirstAttempt
    <3> QED BY <3>1, <3>2
  <2> QED BY <1>2, <2>1 DEF FirstAttempt
<1>9. AnsweredOk'
  BY <1>1, <1>2, <1>3, <1>5 DEF AnsweredOk
<1>10. QuietAlone'
  <2>1. \A i \in quiet : r.ep.writes => r.id = i
    BY <1>1, <1>2, <1>3 DEF QuietAlone
  <2> QED BY <1>1, <1>2, <1>5, <2>1 DEF QuietAlone
<1>11. RefusedIsNotApplied'
  BY <1>1, <1>2, <1>3 DEF RefusedIsNotApplied
<1> QED BY <1>4, <1>6, <1>7, <1>8, <1>9, <1>10, <1>11 DEF ApiInv

\* The answer to the one request of the call decides: what was refused is not applied.
LEMMA ResponseApiInv == ASSUME ApiInv, NEW g \in Goroutines, Response(g) PROVE ApiInv'
<1> DEFINE v == Verdict(reply[g], call[g].ep)
<1>1. /\ ApiTypes /\ OpenCalls /\ OwnRequests /\ FirstAttempt /\ AnsweredOk /\ QuietAlone
  BY DEF ApiInv
<1>2. /\ at[g] = "waits" /\ reply[g] # "none" /\ reply[g] \in Kinds
      /\ UNCHANGED <<resource, calls, wire, value, applied, quiet>>
  BY <1>1 DEF Response, ApiTypes
<1>3. CASE v = "retry"
  <2>1. Continue(g) BY <1>3 DEF Response
  <2> QED BY <1>2, <2>1, ContinueApiInv
<1>4. CASE v # "retry"
  <2> DEFINE outcome == IF v = "refused" /\ tries[g] > 1 THEN "error" ELSE v
  <2>1. Return(g, outcome)
    BY <1>4 DEF Response
  <2>2. v \in {"ok", "partial", "refused", "error", "retry"}
    BY <1>2 DEF Verdict, Kinds
  <2>3. v = "refused" => reply[g] \in {"err_no", "4xx"}
    BY <1>2 DEF Verdict, Kinds
  <2>4. v = "ok" => reply[g] = "ok" \/ ~call[g].ep.strict
    BY <1>2 DEF Verdict, Kinds
  <2> HIDE DEF v
  <2>5. outcome \in Results /\ outcome # "open"
    BY <1>4, <2>2 DEF Results
  <2>6. outcome = "refused" => call[g].id \notin applied /\ \A r \in wire : r.id # call[g].id
    <3>1. ASSUME outcome = "refused" PROVE tries[g] = 1 /\ reply[g] \in {"err_no", "4xx"}
      BY <1>1, <1>2, <2>3, <3>1 DEF FirstAttempt, ApiTypes
    <3> QED BY <1>1, <1>2, <3>1 DEF FirstAttempt
  <2>7. outcome = "ok" /\ call[g].id \in quiet => call[g].id \in applied
    BY <1>1, <1>2, <2>4 DEF QuietAlone, AnsweredOk
  <2> HIDE DEF outcome
  <2> QED BY <1>2, <2>1, <2>5, <2>6, <2>7, ReturnApiInv
<1> QED BY <1>3, <1>4

\* The platform takes a request from the wire, perhaps applies it, and answers the
\* goroutine that still waits for it.
LEMMA HandleApiInv == ASSUME ApiInv, NEW r \in wire, Handle(r) PROVE ApiInv'
<1>1. /\ ApiTypes /\ OpenCalls /\ OwnRequests /\ FirstAttempt /\ AnsweredOk /\ QuietAlone
      /\ RefusedIsNotApplied
  BY DEF ApiInv
<1>2. PICK kind \in {"ok", "err_no", "4xx", "5xx", "junk"} \cup (IF r.ep.partial THEN {"partial"} ELSE {}) :
        /\ \/ /\ kind \in {"ok", "5xx", "junk"} /\ r.ep.writes
              /\ value' = r.id /\ applied' = applied \cup {r.id}
           \/ (kind # "ok" \/ ~r.ep.writes) /\ UNCHANGED <<value, applied>>
        /\ reply' = [g \in Goroutines |->
             IF at[g] = "waits" /\ call[g].id = r.id /\ tries[g] = r.try THEN kind ELSE reply[g]]
  BY DEF Handle
<1>3. /\ wire' = wire \ {r}
      /\ UNCHANGED <<resource, at, call, tries, calls, ended, quiet>>
  BY DEF Handle
<1>4. kind \in Kinds /\ kind # "none"
  BY DEF Kinds
<1>5. r.id \in 1..calls
  BY <1>1 DEF ApiTypes
<1>6. /\ reply' \in [Goroutines -> Kinds \cup {"none"}]
      /\ \A g \in Goroutines : reply'[g] =
           IF at[g] = "waits" /\ call[g].id = r.id /\ tries[g] = r.try THEN kind ELSE reply[g]
  BY <1>1, <1>2, <1>4 DEF ApiTypes
<1>7. applied \subseteq applied' /\ applied' \subseteq applied \cup {r.id}
  BY <1>2
<1>8. ApiTypes'
  BY <1>1, <1>3, <1>5, <1>6, <1>7 DEF ApiTypes
<1>9. OpenCalls' /\ OwnRequests'
  BY <1>1, <1>3 DEF OpenCalls, OwnRequests
<1>10. FirstAttempt'
  <2>1. ASSUME NEW g \in Goroutines
        PROVE  /\ at[g] # "waits" => reply'[g] = "none"
               /\ at[g] # "idle" /\ tries[g] = 0 =>
                    call[g].id \notin applied' /\ \A q \in wire' : q.id # call[g].id
               /\ at[g] = "waits" /\ tries[g] = 1 =>
                    /\ reply'[g] # "none" => \A q \in wire' : q.id # call[g].id
                    /\ reply'[g] \in {"none", "err_no", "4xx"} => call[g].id \notin applied'
    <3>1. CASE call[g].id # r.id
      BY <1>1, <1>3, <1>6, <1>7, <3>1 DEF FirstAttempt
    <3>2. CASE call[g].id = r.id
      <4>1. at[g] # "waits" => reply'[g] = "none"
        BY <1>1, <1>6 DEF FirstAttempt
      <4>2. ~(at[g] # "idle" /\ tries[g] = 0)
        BY <1>1, <3>2 DEF FirstAttempt
      <4>3. ASSUME at[g] = "waits", tries[g] = 1
            PROVE  /\ reply'[g] = kind /\ \A q \in wire' : q.id # call[g].id
                   /\ kind \in {"err_no", "4xx"} => call[g].id \notin applied'
        <5>1. \A q \in wire : q.id = r.id => q.ep = call[g].ep /\ q.try \in 1..1
          BY <1>1, <3>2, <4>3 DEF OwnRequests
        <5>2. \A q \in wire : q \in [id : 1..calls, ep : Endpoints, try : Nat]
          BY <1>1 DEF ApiTypes
        <5>3. \A q \in wire : q.id = r.id => q = r
          BY <5>1, <5>2
        <5>4. reply'[g] = kind
          BY <1>6, <3>2, <4>3, <5>1
        <5>5. reply[g] = "none" /\ call[g].id \notin applied
          BY <1>1, <3>2, <4>3 DEF FirstAttempt
        <5> QED BY <1>2, <1>3, <3>2, <5>3, <5>4, <5>5
      <4> QED BY <1>4, <4>1, <4>2, <4>3
    <3> QED BY <3>1, <3>2
  <2> QED BY <1>1, <1>3, <2>1 DEF FirstAttempt
<1>11. AnsweredOk'
  <2>1. ASSUME NEW g \in Goroutines, at[g] = "waits", reply'[g] = "ok", call[g].ep.writes
        PROVE  call[g].id \in applied'
    <3>1. CASE call[g].id = r.id /\ tries[g] = r.try
      <4>1. kind = "ok" /\ r.ep = call[g].ep
        BY <1>1, <1>6, <2>1, <3>1 DEF OwnRequests
      <4> QED BY <1>2, <2>1, <3>1, <4>1
    <3>2. CASE ~(call[g].id = r.id /\ tries[g] = r.try)
      <4>1. reply[g] = "ok"
        BY <1>6, <2>1, <3>2
      <4> QED BY <1>1, <1>7, <2>1, <4>1 DEF AnsweredOk
    <3> QED BY <3>1, <3>2
  <2> QED BY <1>3, <2>1 DEF AnsweredOk
<1>12. QuietAlone'
  <2>1. ASSUME NEW i \in quiet, i \in applied' PROVE value' = i
    <3>1. CASE value' = r.id /\ r.ep.writes
      BY <1>1, <3>1 DEF QuietAlone
    <3>2. CASE UNCHANGED <<value, applied>>
      BY <1>1, <2>1, <3>2 DEF QuietAlone
    <3> QED BY <1>2, <3>1, <3>2
  <2> QED BY <1>1, <1>3, <1>7, <2>1 DEF QuietAlone
<1>13. RefusedIsNotApplied'
  <2>1. ASSUME NEW i \in 1..MaxCalls, ended[i] = "refused" PROVE i # r.id
    BY <1>1, <2>1 DEF RefusedIsNotApplied
  <2> QED BY <1>1, <1>3, <1>7, <2>1 DEF RefusedIsNotApplied
<1> QED BY <1>8, <1>9, <1>10, <1>11, <1>12, <1>13 DEF ApiInv

\* Every step keeps the invariant.
LEMMA NextApiInv == ApiInv /\ [Next]_vars => ApiInv'
<1> SUFFICES ASSUME ApiInv, [Next]_vars PROVE ApiInv' OBVIOUS
<1>1. ASSUME NEW g \in Goroutines, CtxDone(g) PROVE ApiInv'
  <2>1. "error" \in Results /\ at[g] # "idle"
    BY <1>1 DEF Results, CtxDone
  <2> QED BY <1>1, <2>1, ReturnApiInv DEF CtxDone
<1>2. ASSUME NEW g \in Goroutines, NoResponse(g) PROVE ApiInv'
  BY <1>2, ContinueApiInv DEF NoResponse
<1>3. ASSUME NEW r \in wire, Lose(r) PROVE ApiInv'
  <2>1. /\ wire' \subseteq wire
        /\ UNCHANGED <<resource, at, call, tries, calls, reply, value, applied, ended, quiet>>
    BY <1>3 DEF Lose
  <2>2. ApiTypes' /\ OpenCalls' /\ OwnRequests'
    BY <2>1 DEF ApiInv, ApiTypes, OpenCalls, OwnRequests
  <2>3. FirstAttempt' /\ AnsweredOk' /\ QuietAlone' /\ RefusedIsNotApplied'
    BY <2>1 DEF ApiInv, FirstAttempt, AnsweredOk, QuietAlone, RefusedIsNotApplied
  <2> QED BY <2>2, <2>3 DEF ApiInv
<1>4. CASE UNCHANGED vars
  BY <1>4 DEF vars, ApiInv, ApiTypes, OpenCalls, OwnRequests, FirstAttempt, AnsweredOk, QuietAlone,
       RefusedIsNotApplied
<1> QED BY <1>1, <1>2, <1>3, <1>4, BeginApiInv, SendApiInv, ResponseApiInv, HandleApiInv DEF Next

\* Where it holds, answers are true.
LEMMA ApiInvImplies == ApiInv => AnswersAreTrue
BY DEF ApiInv, QuietAlone, AnswersAreTrue, QuietCallTakesEffect

\* The calls of the SDK: a success that nothing disturbed is in effect, and what was
\* refused at the first attempt is not applied, then or later.
THEOREM AnswersTrue == Spec => []AnswersAreTrue
BY InitApiInv, NextApiInv, ApiInvImplies, PTL DEF Spec

-----------------------------------------------------------------------------
(* The log core.                                                           *)

Entries == [id : Nat, level : Log!Levels, blocks : BOOLEAN]

LogTypes ==
  /\ writing \in [Writers -> Entries] /\ writes \in Nat
  /\ queue \in Seq(Entries) /\ buffer \in Seq(Entries) /\ disk \in Seq(Entries)
  /\ accepted \subseteq Entries /\ dropped \subseteq Entries

\* What has been queued, in this order: on disk, in the buffer, in the queue.
Entered == (disk \o buffer) \o queue
EnteredInv ==
  /\ \A i, j \in 1..Len(Entered) : i # j => Entered[i] # Entered[j]
  /\ \A e : e \in accepted <=> \E i \in 1..Len(Entered) : Entered[i] = e

\* An entry is with one writer, or accepted, or dropped; ids are given out once.
Writes(p) == writing[p] # Log!NoEntry
PlaceInv ==
  /\ \A p \in Writers : Writes(p) =>
       /\ writing[p] \notin accepted \cup dropped /\ writing[p].id <= writes
       /\ \A q \in Writers : q # p /\ Writes(q) => writing[q].id # writing[p].id
       /\ writing[p].level # "info" => writing[p].blocks
  /\ \A e \in accepted \cup dropped : e.id <= writes
  /\ \A e \in dropped : e.level = "info" /\ e \notin accepted

\* Stop, the background goroutine and the last flush go on in this order; once the flush
\* is done, what was queued before Stop is on disk.
FlushInv ==
  /\ before \subseteq accepted
  /\ background \in {"loop", "flush", "finished"} /\ flusher \in {"none", "drain", "done"}
  /\ background = "loop" <=> flusher = "none"
  /\ flusher # "none" => cancelled
  /\ background = "finished" /\ ~gaveUp => flusher = "done"
  /\ flusher = "done" => before \subseteq Log!Written

LogInv == LogTypes /\ EnteredInv /\ PlaceInv /\ FlushInv

\* The log starts in order, with nothing entered ...
LEMMA InitLogInv == Log!Init => LogInv
<1> SUFFICES ASSUME Log!Init PROVE LogInv
  OBVIOUS
<1> USE DEF Log!Init
<1>1. LogTypes
  BY DEF LogTypes, Entries, Log!NoEntry, Log!Levels
<1>2. Entered = <<>> /\ Len(Entered) = 0
  BY DEF Entered
<1>3. EnteredInv
  BY <1>2 DEF EnteredInv
<1>4. PlaceInv
  BY DEF PlaceInv, Writes
<1>5. FlushInv
  BY DEF FlushInv
<1> QED BY <1>1, <1>3, <1>4, <1>5 DEF LogInv

\* Moving an entry on, and flushing the buffer, leave what has been queued as it is; and
\* nothing that is on disk ever goes.
LEMMA EnteredType == LogTypes => Entered \in Seq(Entries)
BY ConcatProperties DEF LogTypes, Entered

LEMMA ConsumeKeeps ==
  ASSUME LogTypes, Log!consumeEntry
  PROVE  /\ Entered' = Entered
         /\ queue' \in Seq(Entries) /\ buffer' \in Seq(Entries) /\ disk' \in Seq(Entries)
         /\ Log!Written \subseteq Log!Written'
<1>1. queue \in Seq(Entries) /\ buffer \in Seq(Entries) /\ disk \in Seq(Entries) /\ disk \o buffer \in Seq(Entries)
  BY ConcatProperties DEF LogTypes
<1>2. queue # <<>> /\ queue' = Tail(queue) /\ queue' \in Seq(Entries) /\ Head(queue) \in Entries
  BY <1>1, Pop DEF Log!consumeEntry
<1>3. Append(disk \o buffer, Head(queue)) \o Tail(queue) = (disk \o buffer) \o queue
  BY <1>1, <1>2, MoveFront
<1>4. CASE buffer' = Append(buffer, Head(queue)) /\ disk' = disk
  <2>1. disk \o Append(buffer, Head(queue)) = Append(disk \o buffer, Head(queue))
    BY <1>1, <1>2, AppendToStream
  <2>2. buffer' \in Seq(Entries)
    BY <1>1, <1>2, <1>4, Push
  <2> QED BY <1>1, <1>2, <1>3, <1>4, <2>1, <2>2 DEF Entered, Log!Written
<1>5. CASE disk' = Append(disk \o buffer, Head(queue)) /\ buffer' = <<>>
  <2>1. disk' \in Seq(Entries) /\ buffer' \in Seq(Entries)
    BY <1>1, <1>2, <1>5, Push
  <2>2. disk' \o <<>> = disk'
    BY <2>1, ConcatEmptySeq
  <2>3. Log!Written \subseteq Log!Written'
    <3>1. ASSUME NEW i \in 1..Len(disk) PROVE i \in 1..Len(disk') /\ disk'[i] = disk[i]
      BY <1>1, <1>2, <1>5, Push, ConcatProperties
    <3> QED BY <1>1, <2>1, <3>1 DEF Log!Written
  <2> QED BY <1>2, <1>3, <1>5, <2>1, <2>2, <2>3 DEF Entered
<1> QED BY <1>4, <1>5 DEF Log!consumeEntry

LEMMA FlushKeeps ==
  ASSUME LogTypes, disk' = disk \o buffer, buffer' = <<>>, queue' = queue
  PROVE  /\ Entered' = Entered
         /\ buffer' \in Seq(Entries) /\ disk' \in Seq(Entries)
         /\ Log!Written \subseteq Log!Written'
<1>1. buffer \in Seq(Entries) /\ disk \in Seq(Entries)
  BY DEF LogTypes
<1>2. disk' \in Seq(Entries) /\ disk' \o <<>> = disk' /\ buffer' \in Seq(Entries)
  BY <1>1, ConcatProperties, ConcatEmptySeq
<1>3. ASSUME NEW i \in 1..Len(disk) PROVE i \in 1..Len(disk') /\ disk'[i] = disk[i]
  BY <1>1, ConcatProperties
<1> QED BY <1>1, <1>2, <1>3 DEF Entered, Log!Written

\* A step that moves no entry in or out, and no goroutine, keeps the invariant.
LEMMA LogMoves ==
  ASSUME LogInv, Entered' = Entered, LogTypes', UNCHANGED <<writing, writes, accepted, dropped>>
  PROVE  EnteredInv' /\ PlaceInv'
BY DEF LogInv, EnteredInv, PlaceInv, Writes

\* ... and no step breaks the order.
LEMMA NextLogInv == LogInv /\ [Log!Next]_logVars => LogInv'
<1> SUFFICES ASSUME LogInv, [Log!Next]_logVars PROVE LogInv'
  OBVIOUS
<1>0. LogTypes /\ EnteredInv /\ PlaceInv /\ FlushInv
  BY DEF LogInv
<1>s. UNCHANGED <<disk, buffer, queue>> => Entered' = Entered /\ Log!Written' = Log!Written
  BY DEF Entered, Log!Written
<1>1. ASSUME NEW p \in Writers, Log!Write(p) PROVE LogInv'
  <2>1. PICK e \in Entries : /\ writing' = [writing EXCEPT ![p] = e] /\ e.id = writes + 1
                             /\ (e.level # "info" => e.blocks)
    <3>1. PICK level \in Log!Levels, core \in {"root", "with"} :
             writing' = [writing EXCEPT ![p] = [id |-> writes + 1, level |-> level,
                                                blocks |-> level \in Log!NonDroppable(core)]]
      BY <1>1 DEF Log!Write
    <3>2. writes + 1 \in Nat
      BY <1>0 DEF LogTypes
    <3> DEFINE r == [id |-> writes + 1, level |-> level, blocks |-> level \in Log!NonDroppable(core)]
    <3>3. level # "info" => level \in Log!NonDroppable(core)
      BY DEF Log!NonDroppable, Log!Levels
    <3>4. (level \in Log!NonDroppable(core)) \in BOOLEAN
      OBVIOUS
    <3>5. r \in Entries /\ r.id = writes + 1 /\ (r.level # "info" => r.blocks)
      BY <3>2, <3>3, <3>4 DEF Entries
    <3>6. writing' = [writing EXCEPT ![p] = r]
      BY <3>1
    <3> HIDE DEF r
    <3> QED BY <3>5, <3>6
  <2>2. /\ writes' = writes + 1 /\ writes \in Nat
        /\ UNCHANGED <<queue, buffer, disk, background, flusher, cancelled, accepted, before, dropped, gaveUp>>
    BY <1>0, <1>1 DEF Log!Write, LogTypes
  <2>3. writing'[p] = e /\ \A q \in Writers : q # p => writing'[q] = writing[q]
    BY <1>0, <2>1 DEF LogTypes
  <2>4. LogTypes'
    BY <1>0, <2>1, <2>2 DEF LogTypes
  <2>5. EnteredInv' /\ FlushInv'
    BY <1>0, <1>s, <2>2 DEF EnteredInv, FlushInv
  <2>6. \A x \in accepted \cup dropped : x.id <= writes /\ x \in Entries /\ x.id \in Nat /\ x # e
    BY <1>0, <2>1, <2>2 DEF PlaceInv, LogTypes, Entries
  <2>7. \A q \in Writers : writing[q].id \in Nat
    BY <1>0 DEF LogTypes, Entries
  <2>8. PlaceInv'
    <3>1. ASSUME NEW q \in Writers, Writes(q)'
          PROVE  /\ writing'[q] \notin accepted \cup dropped /\ writing'[q].id <= writes'
                 /\ \A r \in Writers : r # q /\ Writes(r)' => writing'[r].id # writing'[q].id
                 /\ writing'[q].level # "info" => writing'[q].blocks
      <4>1. CASE q = p
        <5>1. \A r \in Writers : r # p /\ Writes(r)' => writing[r].id <= writes
          BY <1>0, <2>3 DEF PlaceInv, Writes
        <5> QED BY <2>1, <2>2, <2>3, <2>6, <2>7, <4>1, <5>1
      <4>2. CASE q # p
        <5>1. Writes(q) /\ writing'[q] = writing[q]
          BY <2>3, <3>1, <4>2 DEF Writes
        <5>2. writing[q].id <= writes /\ writing[q].id \in Nat
          BY <1>0, <2>7, <5>1 DEF PlaceInv
        <5>3. writing[q].id # e.id /\ writing[q].id <= writes'
          BY <2>1, <2>2, <5>2
        <5>4. \A r \in Writers : r # q /\ Writes(r)' => writing'[r].id # writing'[q].id
          <6>1. ASSUME NEW r \in Writers, r # q, Writes(r)' PROVE writing'[r].id # writing'[q].id
            <7>1. CASE r = p
              BY <2>3, <5>1, <5>3, <7>1
            <7>2. CASE r # p
              BY <1>0, <2>3, <5>1, <6>1, <7>2 DEF PlaceInv, Writes
            <7> QED BY <7>1, <7>2
          <6> QED BY <6>1
        <5> QED BY <1>0, <5>1, <5>3, <5>4 DEF PlaceInv
      <4> QED BY <4>1, <4>2
    <3>2. \A x \in accepted \cup dropped : x.id <= writes'
      BY <2>2, <2>6
    <3> QED BY <1>0, <2>2, <3>1, <3>2 DEF PlaceInv
  <2> QED BY <2>4, <2>5, <2>8 DEF LogInv
<1>2. ASSUME NEW p \in Writers, Log!Enqueue(p) \/ Log!DropTimeout(p) PROVE LogInv'
  <2> DEFINE e == writing[p]
  <2>1. /\ Writes(p) /\ writing' = [writing EXCEPT ![p] = Log!NoEntry]
        /\ UNCHANGED <<writes, buffer, disk, background, flusher, cancelled, before, gaveUp>>
    BY <1>2 DEF Log!Enqueue, Log!DropTimeout, Writes
  <2>2. e \in Entries /\ Log!NoEntry \in Entries
    BY <1>0 DEF LogTypes, Entries, Log!NoEntry, Log!Levels
  <2>3. \A q \in Writers : Writes(q)' <=> Writes(q) /\ q # p
    BY <1>0, <2>1 DEF LogTypes, Writes
  <2>4. \A q \in Writers : q # p => writing'[q] = writing[q]
    BY <1>0, <2>1 DEF LogTypes
  <2>5. e \notin accepted \cup dropped /\ e.id <= writes /\ (e.level # "info" => e.blocks)
        /\ \A q \in Writers : q # p /\ Writes(q) => writing[q].id # e.id
    BY <1>0, <2>1 DEF PlaceInv
  <2>6. CASE Log!Enqueue(p)
    <3>1. queue' = Append(queue, e) /\ accepted' = accepted \cup {e} /\ dropped' = dropped
      BY <2>6 DEF Log!Enqueue
    <3> HIDE DEF e
    <3>2. queue \in Seq(Entries) /\ disk \o buffer \in Seq(Entries) /\ Entered \in Seq(Entries)
      BY <1>0, ConcatProperties DEF LogTypes, Entered
    <3>3. queue' \in Seq(Entries) /\ Entered' = Append(Entered, e)
      BY <2>1, <2>2, <3>1, <3>2, Push, AppendToStream DEF Entered
    <3>4. LogTypes'
      BY <1>0, <2>1, <2>2, <3>1, <3>3 DEF LogTypes
    <3>5. EnteredInv'
      <4>1. /\ Len(Entered) \in Nat /\ Len(Entered') = Len(Entered) + 1
            /\ \A i \in 1..Len(Entered) : Entered'[i] = Entered[i]
            /\ Entered'[Len(Entered) + 1] = e
        BY <2>2, <3>2, <3>3, Push
      <4>2. \A i \in 1..Len(Entered) : Entered[i] # e
        BY <1>0, <2>5 DEF EnteredInv
      <4>3. ASSUME NEW i \in 1..Len(Entered'), NEW j \in 1..Len(Entered'), i # j
            PROVE  Entered'[i] # Entered'[j]
        <5>1. CASE i \in 1..Len(Entered) /\ j \in 1..Len(Entered)
          BY <1>0, <4>1, <4>3, <5>1 DEF EnteredInv
        <5>2. CASE i = Len(Entered) + 1
          <6>1. j \in 1..Len(Entered)
            BY <4>1, <4>3, <5>2
          <6> QED BY <4>1, <4>2, <5>2, <6>1
        <5>3. CASE j = Len(Entered) + 1
          <6>1. i \in 1..Len(Entered)
            BY <4>1, <4>3, <5>3
          <6> QED BY <4>1, <4>2, <5>3, <6>1
        <5> QED BY <4>1, <5>1, <5>2, <5>3
      <4>4. ASSUME NEW x PROVE x \in accepted' <=> \E i \in 1..Len(Entered') : Entered'[i] = x
        <5>1. x \in accepted' <=> x \in accepted \/ x = e
          BY <3>1
        <5>2. (\E i \in 1..Len(Entered') : Entered'[i] = x) <=> ((\E i \in 1..Len(Entered) : Entered[i] = x) \/ x = e)
          BY <4>1
        <5> QED BY <1>0, <5>1, <5>2 DEF EnteredInv
      <4> QED BY <4>3, <4>4 DEF EnteredInv
    <3>6. PlaceInv'
      <4>1. \A q \in Writers : q # p /\ Writes(q) => writing[q] # e
        BY <2>5
      <4>2. e \notin dropped
        BY <2>5
      <4>3. ASSUME NEW q \in Writers, Writes(q)'
            PROVE  /\ writing'[q] \notin accepted' \cup dropped' /\ writing'[q].id <= writes'
                   /\ \A r \in Writers : r # q /\ Writes(r)' => writing'[r].id # writing'[q].id
                   /\ writing'[q].level # "info" => writing'[q].blocks
        BY <1>0, <2>1, <2>3, <2>4, <3>1, <4>1, <4>3 DEF PlaceInv
      <4>4. \A x \in accepted' \cup dropped' : x.id <= writes'
        BY <1>0, <2>1, <2>5, <3>1 DEF PlaceInv
      <4>5. \A x \in dropped' : x.level = "info" /\ x \notin accepted'
        BY <1>0, <3>1, <4>2 DEF PlaceInv
      <4> QED BY <4>3, <4>4, <4>5 DEF PlaceInv
    <3>7. FlushInv'
      BY <1>0, <2>1, <3>1 DEF FlushInv, Log!Written
    <3> QED BY <3>4, <3>5, <3>6, <3>7 DEF LogInv
  <2>7. CASE Log!DropTimeout(p)
    <3>1. dropped' = dropped \cup {e} /\ e.level = "info" /\ UNCHANGED <<accepted, queue>>
      BY <2>5, <2>7 DEF Log!DropTimeout
    <3> HIDE DEF e
    <3>2. LogTypes'
      BY <1>0, <2>1, <2>2, <3>1 DEF LogTypes
    <3>3. EnteredInv' /\ FlushInv'
      BY <1>0, <1>s, <2>1, <3>1 DEF EnteredInv, FlushInv
    <3>4. \A q \in Writers : q # p /\ Writes(q) => writing[q] # e
      BY <2>5
    <3>5. PlaceInv'
      <4>3. ASSUME NEW q \in Writers, Writes(q)'
            PROVE  /\ writing'[q] \notin accepted' \cup dropped' /\ writing'[q].id <= writes'
                   /\ \A r \in Writers : r # q /\ Writes(r)' => writing'[r].id # writing'[q].id
                   /\ writing'[q].level # "info" => writing'[q].blocks
        BY <1>0, <2>1, <2>3, <2>4, <3>1, <3>4, <4>3 DEF PlaceInv
      <4>4. \A x \in accepted' \cup dropped' : x.id <= writes'
        BY <1>0, <2>1, <2>5, <3>1 DEF PlaceInv
      <4>5. \A x \in dropped' : x.level = "info" /\ x \notin accepted'
        BY <1>0, <2>5, <3>1 DEF PlaceInv
      <4> QED BY <4>3, <4>4, <4>5 DEF PlaceInv
    <3> QED BY <3>2, <3>3, <3>5 DEF LogInv
  <2> QED BY <1>2, <2>6, <2>7
<1>3. CASE Log!Consume
  <2>1. /\ Log!consumeEntry /\ background = "loop"
        /\ UNCHANGED <<writing, writes, background, flusher, cancelled, accepted, before, dropped, gaveUp>>
    BY <1>3 DEF Log!Consume
  <2>2. LogTypes' /\ Entered' = Entered
    BY <1>0, <2>1, ConsumeKeeps DEF LogTypes
  <2>3. FlushInv'
    BY <1>0, <2>1 DEF FlushInv
  <2> QED BY <2>1, <2>2, <2>3, LogMoves DEF LogInv
<1>4. CASE Log!FlushTick
  <2>1. /\ disk' = disk \o buffer /\ buffer' = <<>> /\ flusher # "done"
        /\ UNCHANGED <<writing, writes, queue, background, flusher, cancelled, accepted, before, dropped, gaveUp>>
    BY <1>4 DEF Log!FlushTick
  <2>2. LogTypes' /\ Entered' = Entered
    BY <1>0, <2>1, FlushKeeps DEF LogTypes
  <2>3. FlushInv'
    BY <1>0, <2>1 DEF FlushInv
  <2> QED BY <2>1, <2>2, <2>3, LogMoves DEF LogInv
<1>5. CASE Log!Drain
  <2>1. /\ flusher = "drain"
        /\ UNCHANGED <<writing, writes, background, cancelled, accepted, before, dropped, gaveUp>>
    BY <1>5 DEF Log!Drain
  <2>2. CASE Log!consumeEntry /\ flusher' = flusher
    <3>1. LogTypes' /\ Entered' = Entered
      BY <1>0, <2>1, <2>2, ConsumeKeeps DEF LogTypes
    <3>2. FlushInv'
      BY <1>0, <2>1, <2>2 DEF FlushInv
    <3> QED BY <2>1, <3>1, <3>2, LogMoves DEF LogInv
  <2>3. CASE queue = <<>> /\ disk' = disk \o buffer /\ buffer' = <<>> /\ flusher' = "done" /\ queue' = queue
    <3>1. LogTypes' /\ Entered' = Entered
      BY <1>0, <2>1, <2>3, FlushKeeps DEF LogTypes
    <3>2. accepted \subseteq Log!Written'
      <4>1. disk' \in Seq(Entries) /\ Entered = disk'
        BY <1>0, <2>3, <3>1, ConcatEmptySeq DEF Entered, LogTypes
      <4> QED BY <1>0, <4>1 DEF EnteredInv, Log!Written
    <3>3. FlushInv'
      BY <1>0, <2>1, <2>3, <3>2 DEF FlushInv
    <3> QED BY <2>1, <3>1, <3>3, LogMoves DEF LogInv
  <2> QED BY <1>5, <2>2, <2>3 DEF Log!Drain
<1>6. CASE Log!CtxDone \/ Log!FlushEnds \/ Log!Stop \/ UNCHANGED logVars
  <2>1. UNCHANGED <<writing, writes, queue, buffer, disk, accepted, dropped>>
    BY <1>6 DEF Log!CtxDone, Log!FlushEnds, Log!Stop, logVars
  <2>2. LogTypes' /\ Entered' = Entered /\ Log!Written' = Log!Written
    BY <1>0, <1>s, <2>1 DEF LogTypes
  <2>3. FlushInv'
    BY <1>0, <1>6, <2>1, <2>2 DEF FlushInv, Log!CtxDone, Log!FlushEnds, Log!Stop, logVars
  <2> QED BY <2>1, <2>2, <2>3, LogMoves DEF LogInv
<1> QED BY <1>1, <1>2, <1>3, <1>4, <1>5, <1>6 DEF Log!Next

\* A log in that order has been flushed where Stop has returned.
LEMMA LogInvImplies == LogInv => StopFlushes
<1> SUFFICES ASSUME LogInv PROVE StopFlushes
  OBVIOUS
<1>1. LogTypes /\ EnteredInv /\ PlaceInv /\ FlushInv
  BY DEF LogInv
<1>2. ASSUME NEW i \in DOMAIN disk, NEW j \in DOMAIN disk, i # j PROVE disk[i] # disk[j]
  <2>1. disk \in Seq(Entries) /\ buffer \in Seq(Entries) /\ queue \in Seq(Entries) /\ disk \o buffer \in Seq(Entries)
    BY <1>1, ConcatProperties DEF LogTypes
  <2>2. \A k \in 1..Len(disk) : k \in 1..Len(Entered) /\ Entered[k] = disk[k]
    BY <2>1, ConcatProperties DEF Entered
  <2>3. DOMAIN disk = 1..Len(disk)
    BY <2>1
  <2> QED BY <1>1, <1>2, <2>2, <2>3 DEF EnteredInv
<1>3. Log!Stopped /\ ~gaveUp => before \subseteq Log!Written
  BY <1>1 DEF Log!Stopped, FlushInv
<1> QED BY <1>1, <1>2, <1>3 DEF StopFlushes, Log!StopFlushes, PlaceInv

\* Stop of the log core returns only when whatever was queued before it is on disk, unless
\* the last flush has timed out; nothing is written twice; and no entry at a non-droppable
\* level is ever dropped.
THEOREM StopFlushesAll == Log!Spec => []StopFlushes
BY InitLogInv, NextLogInv, LogInvImplies, PTL DEF Log!Spec, logVars, Log!logVars

-----------------------------------------------------------------------------
(* The versioned notifier.                                                 *)

NotifierTypes ==
  /\ version \in Nat /\ chans \in Nat /\ ch \in 0..chans
  /\ closedChans \subseteq 1..chans
  /\ last \in [Listeners -> Int] /\ waitsOn \in [Listeners -> 0..chans]

\* The current channel is open, and the only open one that anybody waits on.
OneOpenChannel ==
  /\ ch \notin closedChans
  /\ \A l \in Listeners : waitsOn[l] # 0 /\ waitsOn[l] \notin closedChans => waitsOn[l] = ch

NotifierInv == NotifierTypes /\ OneOpenChannel /\ NoLostNotification

\* The invariant holds at the start.
LEMMA InitNotifierInv == Notifying!Init => NotifierInv
  BY DEF Notifying!Init, NotifierInv, NotifierTypes, OneOpenChannel, NoLostNotification,
     Notifying!NoLostNotification

\* One look at the version keeps it, from wherever the listener comes.
LEMMA LookNotifierInv ==
  ASSUME NotifierInv, NEW l \in Listeners, Notifying!Look(l), UNCHANGED <<version, closedChans>>
  PROVE  NotifierInv'
<1> USE DEF NotifierInv, NoLostNotification, Notifying!NoLostNotification
<1>1. CASE last[l] < version
  BY <1>1 DEF Notifying!Look, NotifierTypes, OneOpenChannel
<1>2. CASE ~(last[l] < version)
  <2>1. /\ ch' = IF ch = 0 THEN chans + 1 ELSE ch
        /\ chans' = IF ch = 0 THEN chans + 1 ELSE chans
        /\ waitsOn' = [waitsOn EXCEPT ![l] = ch'] /\ last' = last
        /\ version' = version /\ closedChans' = closedChans
    BY <1>2 DEF Notifying!Look
  <2>2. NotifierTypes'
    BY <2>1 DEF NotifierTypes
  <2>3. ch' # 0 /\ ch' \notin closedChans'
    BY <2>1 DEF NotifierTypes, OneOpenChannel
  <2>4. ASSUME NEW k \in Listeners, waitsOn'[k] # 0, waitsOn'[k] \notin closedChans'
        PROVE  waitsOn'[k] = ch' /\ last'[k] >= version'
    <3>1. CASE k = l
      BY <1>2, <2>1, <3>1 DEF NotifierTypes
    <3>2. CASE k # l
      BY <2>1, <2>4, <3>2 DEF NotifierTypes, OneOpenChannel
    <3> QED BY <3>1, <3>2
  <2> QED BY <2>2, <2>3, <2>4 DEF OneOpenChannel
<1> QED BY <1>1, <1>2

\* Every step keeps it.
LEMMA NextNotifierInv == NotifierInv /\ [Notifying!Next]_notifierVars => NotifierInv'
<1> SUFFICES ASSUME NotifierInv, [Notifying!Next]_notifierVars PROVE NotifierInv'
  OBVIOUS
<1> USE DEF NoLostNotification, Notifying!NoLostNotification
<1>1. CASE Notifying!NotifyAll
  <2>1. NotifierTypes'
    BY <1>1 DEF Notifying!NotifyAll, NotifierInv, NotifierTypes
  <2>2. ASSUME NEW l \in Listeners PROVE ~(waitsOn'[l] # 0 /\ waitsOn'[l] \notin closedChans')
    BY <1>1 DEF Notifying!NotifyAll, NotifierInv, NotifierTypes, OneOpenChannel
  <2>3. ch' \notin closedChans'
    BY <2>1, <1>1 DEF Notifying!NotifyAll, NotifierInv, NotifierTypes
  <2> QED BY <2>1, <2>2, <2>3 DEF NotifierInv, OneOpenChannel
<1>2. ASSUME NEW l \in Listeners, Notifying!WaitBegins(l) PROVE NotifierInv'
  BY <1>2, LookNotifierInv DEF Notifying!WaitBegins
<1>3. ASSUME NEW l \in Listeners, Notifying!Wakes(l) PROVE NotifierInv'
  BY <1>3, LookNotifierInv DEF Notifying!Wakes
<1>4. ASSUME NEW l \in Listeners, Notifying!GivesUp(l) PROVE NotifierInv'
  BY <1>4 DEF Notifying!GivesUp, NotifierInv, NotifierTypes, OneOpenChannel
<1>5. ASSUME NEW l \in Listeners, Notifying!Sync(l) PROVE NotifierInv'
  BY <1>5 DEF Notifying!Sync, NotifierInv, NotifierTypes, OneOpenChannel
<1>6. CASE UNCHANGED notifierVars
  BY <1>6 DEF notifierVars, NotifierInv, NotifierTypes, OneOpenChannel
<1> QED BY <1>1, <1>2, <1>3, <1>4, <1>5, <1>6 DEF Notifying!Next

\* VersionedListener.Wait and WaitChan: whoever waits on a channel that is still open has
\* seen every notification there has been.
THEOREM NothingLost == Notifying!Spec => []NoLostNotification
<1>1. NotifierInv => NoLostNotification
  BY DEF NotifierInv
<1> QED BY InitNotifierInv, NextNotifierInv, <1>1, PTL DEF Notifying!Spec, notifierVars, Notifying!notifierVars

-----------------------------------------------------------------------------
(* The frame pipeline.                                                     *)
Exact == INSTANCE FramePipelineProofs


\* The two names of one module.
LEMMA FramesSame ==
  /\ Frames!Init <=> Exact!Init
  /\ Frames!Next <=> Exact!Next
  /\ DecodeInvertsEncode <=> Exact!DecodeInvertsEncode
<1>1. Frames!Init <=> Exact!Init
  BY DEF Frames!Init, Exact!Init, Frames!Settings, Exact!Settings
<1>2. ASSUME NEW op \in Ops, NEW len \in 0..2 PROVE Frames!Encode(op, len) <=> Exact!Encode(op, len)
  BY DEF Frames!Encode, Exact!Encode, Frames!Marshal, Exact!Marshal, Frames!Compress, Exact!Compress,
     Frames!Encrypt, Exact!Encrypt, Frames!ClearFlags, Exact!ClearFlags, Frames!WriteFrame, Exact!WriteFrame
<1>3. ASSUME NEW op \in Ops, NEW handler \in Handlers
      PROVE  Frames!Register(op, handler) <=> Exact!Register(op, handler)
  BY DEF Frames!Register, Exact!Register
<1>4. Frames!Decode <=> Exact!Decode
  BY DEF Frames!Decode, Exact!Decode, Frames!ReadFrame, Exact!ReadFrame, Frames!Handle, Exact!Handle,
     Frames!decodeFrame, Exact!decodeFrame, Frames!Decompressed, Exact!Decompressed,
     Frames!Decrypted, Exact!Decrypted
<1>5. Frames!Next <=> Exact!Next
  BY <1>2, <1>3, <1>4 DEF Frames!Next, Exact!Next, Frames!Lengths, Exact!Lengths
<1>6. DecodeInvertsEncode <=> Exact!DecodeInvertsEncode
  BY DEF DecodeInvertsEncode, Frames!DecodeInvertsEncode, Exact!DecodeInvertsEncode, Frames!SettingsFit, Exact!SettingsFit
<1> QED BY <1>1, <1>5, <1>6

\* The invariant of FramePipelineProofs.
LEMMA InitFrames == Frames!Init => Exact!IInv
BY FramesSame, Exact!InitIInv

\* No step of the frames breaks the invariant of FramePipelineProofs.
LEMMA NextFrames == Exact!IInv /\ [Frames!Next]_frameVars => Exact!IInv'
BY FramesSame, Exact!NextIInv DEF frameVars, Exact!frameVars

\* Where it holds, decoding gives the encoded message back.
LEMMA FramesInvImplies == Exact!IInv => DecodeInvertsEncode
BY FramesSame DEF Exact!IInv

\* The same of the pipeline as MCToolkit composes it: what Decode returns is the message
\* that was encoded, or an error.
THEOREM DecodeIsExact == Frames!Spec => []DecodeInvertsEncode
BY InitFrames, NextFrames, FramesInvImplies, PTL DEF Frames!Spec, frameVars, Frames!frameVars

-----------------------------------------------------------------------------
(* The composition.                                                        *)

\* One unit steps at a time; the others stutter.
LEMMA UnitSteps ==
  [MCNext]_allVars =>
    [Next]_vars /\ [Log!Next]_logVars /\ [Notifying!Next]_notifierVars /\ [Frames!Next]_frameVars
BY DEF MCNext, allVars, apiIdle, logIdle, notifierIdle, batchesIdle, framesIdle, connIdle

\* Each unit starts in its own initial state.
LEMMA InitUnits == MCInit => Init /\ Log!Init /\ Notifying!Init /\ Frames!Init
BY DEF MCInit

\* The invariants of all the runs of MCToolkit hold together, whichever unit runs.
THEOREM ToolkitSafe ==
  MCSpec => [](AnswersAreTrue /\ StopFlushes /\ NoLostNotification /\ DecodeInvertsEncode)
<1> DEFINE All == ApiInv /\ LogInv /\ NotifierInv /\ Exact!IInv
<1>1. MCInit => All
  BY InitUnits, InitApiInv, InitLogInv, InitNotifierInv, InitFrames
<1>2. All /\ [MCNext]_allVars => All'
  BY UnitSteps, NextApiInv, NextLogInv, NextNotifierInv, NextFrames
<1>3. All => AnswersAreTrue /\ StopFlushes /\ NoLostNotification /\ DecodeInvertsEncode
  BY LogInvImplies, FramesInvImplies, ApiInvImplies DEF NotifierInv
<1> HIDE DEF All
<1> QED BY <1>1, <1>2, <1>3, PTL DEF MCSpec
=============================================================================
