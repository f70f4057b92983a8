---------------------------- MODULE AcceptorProofs ----------------------------
(***************************************************************************)
(* Theorems about Acceptor, for any sets of connections and of goroutines  *)
(* that call Close.                                                        *)
(***************************************************************************)
EXTENDS Acceptor, TLAPS

USE AcceptorAssumption

-----------------------------------------------------------------------------
(* The session map.  A session exists from newWSSession on and has an ID   *)
(* of its own, under which it is registered.                               *)

InService == {"registered", "connected"}
Created == InService \cup {"created"}

MapInv ==
  /\ \A c \in Conns : stage[c] # "none" <=> http[c] \in Created
  /\ \A c, d \in Conns :
       (c # d /\ stage[c] # "none" /\ stage[d] # "none") => id[c] # id[d]
  /\ \A i \in DOMAIN sessions : http[sessions[i]] \in InService /\ id[sessions[i]] = i

LEMMA InitType == Init => TypeOK /\ MapInv
<1> SUFFICES ASSUME Init PROVE TypeOK /\ MapInv
  OBVIOUS
<1>1. DOMAIN sessions = {} /\ Range(sessions) = {}
  BY DEF Init, Range
<1>2. TypeOK
  <2>1. lastId = 0 /\ id \in [Conns -> 0..lastId]
    BY SMT DEF Init
  <2>2. \A c \in Conns : stage[c] = "none"
    BY DEF Init
  <2>3. /\ http \in [Conns -> HttpStates]
        /\ stage \in [Conns -> {"none", "open", "closing", "closed"}]
        /\ closer \in [Conns -> Conns \cup Closers \cup {"none"}]
        /\ at \in [Closers -> {"idle", "lock", "loop"}]
    BY DEF Init, HttpStates
  <2>4. /\ ctxDone \in BOOLEAN /\ listening \in BOOLEAN
        /\ serve \in {"serving", "shutdown", "closing", "returned"}
        /\ how \in {"none", "ctx", "err"} /\ lastId \in Nat
        /\ mu \in Closers \cup {"none"} /\ todo \subseteq Conns
    BY DEF Init
  <2> QED BY <1>1, <2>1, <2>2, <2>3, <2>4 DEF TypeOK
<1>3. MapInv
  BY <1>1 DEF Init, MapInv, Created, InService
<1> QED BY <1>2, <1>3

\* One connection's HTTP goroutine moves on.
LEMMA Moves ==
  ASSUME TypeOK, NEW c \in Conns, NEW from, NEW to, Http(c, from, to)
  PROVE  http[c] = from /\ http'[c] = to /\ \A d \in Conns \ {c} : http'[d] = http[d]
BY DEF TypeOK, Http

\* Steps that leave the sessions, their IDs and the map alone.
LEMMA MapStays ==
  ASSUME TypeOK, MapInv, UNCHANGED <<ids, sessions>>,
         \A c \in Conns : stage'[c] # "none" <=> stage[c] # "none",
         \A c \in Conns : http'[c] \in Created <=> http[c] \in Created,
         \A c \in Conns : http[c] \in InService => http'[c] \in InService
  PROVE  MapInv'
<1>1. \A i \in DOMAIN sessions : sessions[i] \in Conns
  BY DEF TypeOK, Range
<1> QED BY <1>1 DEF MapInv, ids

LEMMA HttpStep ==
  ASSUME TypeOK, MapInv, NEW c \in Conns,
         Accept(c) \/ Request(c) \/ Upgrade(c) \/ OnConnected(c) \/ ShutdownIdle(c)
  PROVE  (TypeOK /\ MapInv)'
<1>1. UNCHANGED <<ctxDone, serve, how, listening, stage, closer, id, lastId, sessions, closing>>
  BY DEF Accept, Request, Upgrade, OnConnected, ShutdownIdle, life, ids
<1>2. PICK from \in HttpStates, to \in HttpStates :
        /\ Http(c, from, to) /\ (to \in Created <=> from \in Created)
        /\ from \in InService => to \in InService
  BY DEF Accept, Request, Upgrade, OnConnected, ShutdownIdle, HttpStates, Created, InService
<1>3. http[c] = from /\ http'[c] = to /\ \A d \in Conns \ {c} : http'[d] = http[d]
  BY <1>2, Moves
<1>4. TypeOK'
  <2>1. http' \in [Conns -> HttpStates]
    BY <1>2 DEF TypeOK, Http
  <2> QED BY <1>1, <2>1 DEF TypeOK, closing
<1>5. MapInv'
  <2>1. \A d \in Conns : http'[d] \in Created <=> http[d] \in Created
    BY <1>2, <1>3
  <2>2. \A d \in Conns : http[d] \in InService => http'[d] \in InService
    BY <1>2, <1>3
  <2> QED BY <1>1, <2>1, <2>2, MapStays DEF ids
<1> QED BY <1>4, <1>5

LEMMA CreateStep ==
  ASSUME TypeOK, MapInv, NEW c \in Conns, CreateSession(c)
  PROVE  (TypeOK /\ MapInv)'
<1>1. http[c] = "upgraded" /\ http'[c] = "created" /\ \A d \in Conns \ {c} : http'[d] = http[d]
  BY Moves DEF CreateSession
<1>2. /\ id'[c] = lastId + 1 /\ \A d \in Conns \ {c} : id'[d] = id[d]
      /\ stage'[c] = "open" /\ \A d \in Conns \ {c} : stage'[d] = stage[d]
  BY DEF TypeOK, CreateSession
<1>3. stage[c] = "none"
  BY <1>1 DEF MapInv, Created, InService
<1>4. \A d \in Conns : id[d] \in 0..lastId
  BY DEF TypeOK
<1>5. lastId' \in Nat /\ 0..lastId \subseteq 0..lastId' /\ 1..lastId \subseteq 1..lastId'
  BY SMT DEF TypeOK, CreateSession
<1>6. TypeOK'
  <2>1. http' \in [Conns -> HttpStates]
    BY DEF TypeOK, CreateSession, Http, HttpStates
  <2>2. lastId + 1 \in 0..lastId' /\ lastId + 1 > 0
    BY <1>5, SMT DEF TypeOK, CreateSession
  <2>3. id' \in [Conns -> 0..lastId']
    BY <1>5, <2>2 DEF TypeOK, CreateSession
  <2>4. \A d \in Conns : stage'[d] # "none" => id'[d] > 0
    BY <1>2, <2>2 DEF TypeOK
  <2>5. stage' \in [Conns -> {"none", "open", "closing", "closed"}]
    BY DEF TypeOK, CreateSession
  <2>6. DOMAIN sessions' \subseteq 1..lastId' /\ Range(sessions') \subseteq Conns
    BY <1>5 DEF TypeOK, CreateSession
  <2> QED BY <1>5, <2>1, <2>3, <2>4, <2>5, <2>6 DEF TypeOK, CreateSession, closing
<1>7. MapInv'
  <2>1. \A d \in Conns : stage'[d] # "none" <=> http'[d] \in Created
    BY <1>1, <1>2 DEF MapInv, Created, InService
  <2>2. \A d \in Conns : id[d] # lastId + 1
    BY <1>4, SMT DEF TypeOK
  <2>3. \A d, e \in Conns :
          (d # e /\ stage'[d] # "none" /\ stage'[e] # "none") => id'[d] # id'[e]
    BY <1>2, <2>2 DEF MapInv
  <2>4. ASSUME NEW i \in DOMAIN sessions'
        PROVE  http'[sessions'[i]] \in InService /\ id'[sessions'[i]] = i
    <3>1. /\ i \in DOMAIN sessions /\ sessions'[i] = sessions[i]
          /\ sessions[i] \in Conns
      BY DEF TypeOK, Range, CreateSession
    <3>2. http[sessions[i]] \in InService /\ id[sessions[i]] = i /\ sessions[i] # c
      BY <1>1, <3>1 DEF MapInv, InService
    <3> QED BY <1>1, <1>2, <3>1, <3>2 DEF InService
  <2> QED BY <2>1, <2>3, <2>4 DEF MapInv
<1> QED BY <1>6, <1>7

LEMMA RegisterAdds ==
  ASSUME NEW c \in Conns, Register(c)
  PROVE  /\ DOMAIN sessions' = DOMAIN sessions \cup {id[c]}
         /\ sessions'[id[c]] = c
         /\ \A i \in DOMAIN sessions : i # id[c] => sessions'[i] = sessions[i]
BY DEF Register

LEMMA RegisterStep ==
  ASSUME TypeOK, MapInv, NEW c \in Conns, Register(c)
  PROVE  (TypeOK /\ MapInv)'
<1>0. /\ DOMAIN sessions' = DOMAIN sessions \cup {id[c]}
      /\ sessions'[id[c]] = c
      /\ \A i \in DOMAIN sessions : i # id[c] => sessions'[i] = sessions[i]
  BY RegisterAdds
<1>1. /\ http[c] = "created" /\ http'[c] = "registered"
      /\ \A d \in Conns \ {c} : http'[d] = http[d]
  BY Moves DEF Register
<1>2. UNCHANGED <<ctxDone, serve, how, listening, stage, closer, id, lastId, closing>>
  BY DEF Register, life, ids
<1>3. stage[c] # "none" /\ id[c] > 0 /\ id[c] \in 0..lastId
  BY <1>1 DEF TypeOK, MapInv, Created, InService
<1>4. TypeOK'
  <2>1. http' \in [Conns -> HttpStates]
    BY DEF TypeOK, Register, Http, HttpStates
  <2>2. id[c] \in 1..lastId
    BY <1>3, SMT DEF TypeOK
  <2>3. DOMAIN sessions' \subseteq 1..lastId'
    BY <1>2, <2>2, <1>0 DEF TypeOK
  <2>4. Range(sessions') \subseteq Conns
    <3>1. \A i \in DOMAIN sessions : sessions[i] \in Conns
      BY DEF TypeOK, Range
    <3> QED BY <3>1, <1>0 DEF Range
  <2> QED BY <1>2, <2>1, <2>3, <2>4 DEF TypeOK, closing
<1>5. MapInv'
  <2>1. \A d \in Conns : stage'[d] # "none" <=> http'[d] \in Created
    BY <1>1, <1>2 DEF MapInv, Created, InService
  <2>2. ASSUME NEW i \in DOMAIN sessions'
        PROVE  http'[sessions'[i]] \in InService /\ id'[sessions'[i]] = i
    <3>1. CASE i = id[c]
      BY <1>1, <1>2, <3>1, <1>0 DEF InService
    <3>2. CASE i # id[c]
      <4>1. /\ i \in DOMAIN sessions /\ sessions'[i] = sessions[i]
            /\ sessions[i] \in Conns
        BY <3>2, <1>0 DEF TypeOK, Range
      <4>2. http[sessions[i]] \in InService /\ id[sessions[i]] = i
        BY <4>1 DEF MapInv
      <4> QED BY <1>1, <1>2, <4>1, <4>2 DEF InService
    <3> QED BY <3>1, <3>2
  <2> QED BY <1>2, <2>1, <2>2 DEF MapInv
<1> QED BY <1>4, <1>5

\* A session is closed by itself or by Close.
LEMMA StageStep ==
  ASSUME TypeOK, MapInv, NEW c \in Conns,
         SessionEnds(c) \/ SessionClosed(c) \/ (\E t \in Closers : CloseSession(t, c))
  PROVE  (TypeOK /\ MapInv)'
<1>1. /\ UNCHANGED <<ctxDone, serve, how, listening, http, id, lastId, sessions, closing>>
      /\ stage[c] # "none" /\ \E s \in {"closing", "closed"} : stage' = [stage EXCEPT ![c] = s]
      /\ closer' = closer \/ \E t \in Conns \cup Closers : closer' = [closer EXCEPT ![c] = t]
  BY DEF SessionEnds, SessionClosed, CloseSession, ids
<1>2. TypeOK'
  <2>1. /\ stage' \in [Conns -> {"none", "open", "closing", "closed"}]
        /\ closer' \in [Conns -> Conns \cup Closers \cup {"none"}]
    BY <1>1 DEF TypeOK
  <2>2. \A d \in Conns : stage'[d] # "none" => stage[d] # "none"
    BY <1>1 DEF TypeOK
  <2> QED BY <1>1, <2>1, <2>2 DEF TypeOK, closing
<1>3. MapInv'
  <2>1. \A d \in Conns : stage'[d] # "none" <=> stage[d] # "none"
    BY <1>1 DEF TypeOK
  <2> QED BY <1>1, <2>1, MapStays DEF ids
<1> QED BY <1>2, <1>3

\* The steps of Close, of Serve and of the environment that touch no session.
LEMMA ControlStep ==
  ASSUME TypeOK, MapInv,
         \/ CtxCancelled \/ ServeSeesCtx \/ ShutdownReturns \/ ServeFails
         \/ \E u \in Users : CallClose(u)
         \/ \E t \in Closers : CloseLocks(t) \/ \E c \in Conns : CloseSessionReturns(t, c)
  PROVE  (TypeOK /\ MapInv)'
<1>1. UNCHANGED <<http, life, ids, sessions>>
  BY DEF CtxCancelled, ServeSeesCtx, ShutdownReturns, ServeFails, CallClose, CloseLocks,
         CloseSessionReturns
<1>2. MapInv'
  BY <1>1, MapStays DEF life
<1>3. TypeOK'
  <2>1. ctxDone' \in BOOLEAN /\ listening' \in BOOLEAN
        /\ serve' \in {"serving", "shutdown", "closing", "returned"}
        /\ how' \in {"none", "ctx", "err"}
    BY DEF TypeOK, CtxCancelled, ServeSeesCtx, ShutdownReturns, ServeFails, CallClose,
           CloseLocks, CloseSessionReturns
  <2>2. at' \in [Closers -> {"idle", "lock", "loop"}]
    BY DEF TypeOK, CtxCancelled, ServeSeesCtx, ShutdownReturns, ServeFails, CallClose,
           CloseLocks, CloseSessionReturns, closing
  <2>3. mu' \in Closers \cup {"none"} /\ todo' \subseteq Conns
    BY DEF TypeOK, CtxCancelled, ServeSeesCtx, ShutdownReturns, ServeFails, CallClose,
           CloseLocks, CloseSessionReturns, closing
  <2> QED BY <1>1, <2>1, <2>2, <2>3 DEF TypeOK, life, ids
<1> QED BY <1>2, <1>3

LEMMA UnlockStep ==
  ASSUME TypeOK, MapInv, NEW t \in Closers, CloseUnlocks(t)
  PROVE  (TypeOK /\ MapInv)'
<1>1. DOMAIN sessions' = {} /\ Range(sessions') = {}
  BY DEF CloseUnlocks, Range
<1>2. UNCHANGED <<ctxDone, how, listening, http, stage, closer, id, lastId, todo>>
  BY DEF CloseUnlocks, life, ids
<1>3. mu' = "none" /\ at' \in [Closers -> {"idle", "lock", "loop"}]
      /\ serve' \in {"serving", "shutdown", "closing", "returned"}
  BY DEF TypeOK, CloseUnlocks
<1>4. TypeOK'
  BY <1>1, <1>2, <1>3 DEF TypeOK
<1>5. MapInv'
  BY <1>1, <1>2 DEF MapInv
<1> QED BY <1>4, <1>5

LEMMA TypeStep == TypeOK /\ MapInv /\ [Next]_vars => (TypeOK /\ MapInv)'
<1> SUFFICES ASSUME TypeOK, MapInv, [Next]_vars PROVE (TypeOK /\ MapInv)'
  OBVIOUS
<1>1. CASE UNCHANGED vars
  <2>1. TypeOK'
    BY <1>1 DEF TypeOK, vars, life, ids, closing
  <2>2. MapInv'
    BY <1>1, MapStays DEF vars, life
  <2> QED BY <2>1, <2>2
<1> QED BY <1>1, HttpStep, CreateStep, RegisterStep, StageStep, ControlStep, UnlockStep
        DEF Next, CloseLoop

\* Every variable holds values of its kind, and a session has an ID the generator has
\* given out, so that none is registered under 0.
THEOREM TypeCorrect == Spec => []TypeOK
<1>1. Init => TypeOK /\ MapInv
  BY InitType
<1>2. (TypeOK /\ MapInv) /\ [Next]_vars => (TypeOK /\ MapInv)'
  BY TypeStep
<1> QED BY <1>1, <1>2, PTL DEF Spec

-----------------------------------------------------------------------------
(* Who is in the map.  While a goroutine is in the loop of Close it holds  *)
(* a.mu, so nothing is added, and the sessions it has finished with are    *)
(* closed for good.                                                        *)

LoopInv ==
  \A t \in Closers : at[t] = "loop" =>
    /\ mu = t
    /\ \A c \in Conns : InMap(c) => c \in todo \/ stage[c] = "closed"

Inv == TypeOK /\ MapInv /\ LoopInv /\ RemovedIsClosed

LEMMA NobodyIsNone == "none" \notin Closers
BY DEF Closers

\* Steps after which no more is registered, no less is in the map, and what was closed is
\* closed; and no goroutine has entered the loop of Close.
LEMMA LoopStays ==
  ASSUME Inv, UNCHANGED <<sessions, closing>>,
         \A c \in Conns : Registered(c)' => Registered(c),
         \A c \in Conns : stage[c] = "closed" => stage'[c] = "closed"
  PROVE  (LoopInv /\ RemovedIsClosed)'
BY DEF Inv, LoopInv, RemovedIsClosed, InMap, closing

LEMMA RegisterLoop ==
  ASSUME Inv, NEW c \in Conns, Register(c)
  PROVE  (LoopInv /\ RemovedIsClosed)'
<1> USE DEF Inv
<1>1. /\ DOMAIN sessions' = DOMAIN sessions \cup {id[c]}
      /\ sessions'[id[c]] = c
      /\ \A i \in DOMAIN sessions : i # id[c] => sessions'[i] = sessions[i]
  BY RegisterAdds
<1>2. /\ http[c] = "created" /\ http'[c] = "registered"
      /\ \A d \in Conns \ {c} : http'[d] = http[d]
  BY Moves DEF Register
<1>3. UNCHANGED <<stage, at, mu, todo>> /\ mu = "none"
  BY DEF Register, life, closing
<1>4. id[c] \notin DOMAIN sessions
  <2> SUFFICES ASSUME id[c] \in DOMAIN sessions PROVE FALSE
    OBVIOUS
  <2>1. PICK d \in Conns : d = sessions[id[c]]
    BY DEF TypeOK, Range
  <2>2. http[d] \in InService /\ id[d] = id[c]
    BY <2>1 DEF MapInv
  <2>3. d # c /\ stage[d] # "none" /\ stage[c] # "none"
    BY <1>2, <2>2 DEF MapInv, Created, InService
  <2> QED BY <2>2, <2>3 DEF MapInv
<1>5. \A d \in Conns : InMap(d) => InMap(d)'
  <2> SUFFICES ASSUME NEW d \in Conns, NEW i \in DOMAIN sessions, sessions[i] = d
               PROVE  \E j \in DOMAIN sessions' : sessions'[j] = d
    BY DEF InMap, Range
  <2> QED BY <1>1, <1>4
<1>6. InMap(c)'
  BY <1>1 DEF InMap, Range
<1>7. RemovedIsClosed'
  <2> SUFFICES ASSUME NEW d \in Conns, Registered(d)', ~InMap(d)' PROVE stage'[d] = "closed"
    BY DEF RemovedIsClosed
  <2>1. d # c
    BY <1>6
  <2>2. Registered(d) /\ ~InMap(d)
    BY <1>2, <1>5, <2>1 DEF Registered
  <2> QED BY <1>3, <2>2 DEF RemovedIsClosed
<1>8. \A t \in Closers : at[t] # "loop"
  BY <1>3, NobodyIsNone DEF LoopInv
<1>9. LoopInv'
  BY <1>3, <1>8 DEF LoopInv
<1> QED BY <1>7, <1>9

LEMMA CloseLoopStep ==
  ASSUME Inv, NEW t \in Closers,
         \/ CloseLocks(t) \/ CloseUnlocks(t)
         \/ \E c \in Conns : CloseSession(t, c) \/ CloseSessionReturns(t, c)
  PROVE  (LoopInv /\ RemovedIsClosed)'
<1> USE DEF Inv
<1>1. CASE CloseLocks(t)
  <2>1. /\ mu = "none" /\ mu' = t /\ todo' = Range(sessions)
        /\ UNCHANGED <<http, stage, sessions>>
        /\ \A u \in Closers \ {t} : at'[u] = at[u]
    BY <1>1 DEF TypeOK, CloseLocks, life
  <2>2. \A u \in Closers \ {t} : at[u] # "loop"
    BY <2>1, NobodyIsNone DEF LoopInv
  <2>3. LoopInv'
    BY <2>1, <2>2 DEF LoopInv, InMap
  <2>4. RemovedIsClosed'
    BY <2>1 DEF RemovedIsClosed, Registered, InMap
  <2> QED BY <2>3, <2>4
<1>2. CASE CloseUnlocks(t)
  <2>1. /\ at[t] = "loop" /\ todo = {} /\ mu' = "none"
        /\ UNCHANGED <<http, stage>> /\ at' = [at EXCEPT ![t] = "idle"]
    BY <1>2 DEF CloseUnlocks, life
  <2>2. \A u \in Closers : at'[u] # "loop"
    BY <2>1 DEF TypeOK, LoopInv
  <2>3. \A c \in Conns : InMap(c) => stage[c] = "closed"
    BY <2>1 DEF LoopInv
  <2>4. RemovedIsClosed'
    BY <2>1, <2>3 DEF RemovedIsClosed, Registered
  <2> QED BY <2>2, <2>4 DEF LoopInv
<1>3. ASSUME NEW c \in Conns, CloseSession(t, c) PROVE (LoopInv /\ RemovedIsClosed)'
  <2>1. \A d \in Conns : stage[d] = "closed" => stage'[d] = "closed"
    BY <1>3 DEF TypeOK, CloseSession
  <2> QED BY <1>3, <2>1, LoopStays DEF CloseSession, Registered
<1>4. ASSUME NEW c \in Conns, CloseSessionReturns(t, c) PROVE (LoopInv /\ RemovedIsClosed)'
  <2>1. /\ stage[c] = "closed" /\ todo' = todo \ {c}
        /\ UNCHANGED <<http, stage, sessions, mu, at>>
    BY <1>4 DEF CloseSessionReturns, life
  <2> QED BY <2>1 DEF LoopInv, RemovedIsClosed, Registered, InMap
<1> QED BY <1>1, <1>2, <1>3, <1>4

LEMMA LoopStep == Inv /\ [Next]_vars => (LoopInv /\ RemovedIsClosed)'
<1> SUFFICES ASSUME Inv, [Next]_vars PROVE (LoopInv /\ RemovedIsClosed)'
  OBVIOUS
<1> USE DEF Inv
<1>1. ASSUME NEW c \in Conns,
             \/ Accept(c) \/ Request(c) \/ Upgrade(c) \/ CreateSession(c) \/ OnConnected(c)
             \/ ShutdownIdle(c)
      PROVE  (LoopInv /\ RemovedIsClosed)'
  <2>1. UNCHANGED <<sessions, closing>>
    BY <1>1 DEF Accept, Request, Upgrade, CreateSession, OnConnected, ShutdownIdle
  <2>2. \A d \in Conns : Registered(d)' => Registered(d)
    BY <1>1 DEF TypeOK, Accept, Request, Upgrade, CreateSession, OnConnected, ShutdownIdle,
                Http, Registered
  <2>3. \A d \in Conns : stage[d] = "closed" => stage'[d] = "closed"
    <3>1. CASE CreateSession(c)
      <4>1. stage[c] = "none"
        BY <3>1, Moves DEF CreateSession, MapInv, Created, InService
      <4> QED BY <3>1, <4>1 DEF TypeOK, CreateSession
    <3>2. CASE ~CreateSession(c)
      BY <1>1, <3>2 DEF Accept, Request, Upgrade, OnConnected, ShutdownIdle, life
    <3> QED BY <3>1, <3>2
  <2> QED BY <2>1, <2>2, <2>3, LoopStays
<1>2. ASSUME NEW c \in Conns, SessionEnds(c) \/ SessionClosed(c)
      PROVE  (LoopInv /\ RemovedIsClosed)'
  <2>1. \A d \in Conns : stage[d] = "closed" => stage'[d] = "closed"
    BY <1>2 DEF TypeOK, SessionEnds, SessionClosed
  <2> QED BY <1>2, <2>1, LoopStays DEF SessionEnds, SessionClosed, Registered
<1>3. ASSUME NEW c \in Conns, Register(c) PROVE (LoopInv /\ RemovedIsClosed)'
  BY <1>3, RegisterLoop
<1>4. ASSUME NEW t \in Closers,
             \/ CloseLocks(t) \/ CloseUnlocks(t)
             \/ \E c \in Conns : CloseSession(t, c) \/ CloseSessionReturns(t, c)
      PROVE  (LoopInv /\ RemovedIsClosed)'
  BY <1>4, CloseLoopStep
<1>5. CASE \/ CtxCancelled \/ ServeSeesCtx \/ ShutdownReturns \/ ServeFails
           \/ \E u \in Users : CallClose(u)
  <2>1. UNCHANGED <<http, stage, sessions, mu, todo>>
    BY <1>5 DEF CtxCancelled, ServeSeesCtx, ShutdownReturns, ServeFails, CallClose, life,
                closing
  <2>2. \A t \in Closers : at'[t] = "loop" => at[t] = "loop"
    BY <1>5 DEF TypeOK, CtxCancelled, ServeSeesCtx, ShutdownReturns, ServeFails, CallClose,
                closing
  <2> QED BY <2>1, <2>2 DEF LoopInv, RemovedIsClosed, Registered, InMap
<1>6. CASE UNCHANGED vars
  BY <1>6, LoopStays DEF vars, life, Registered
<1> QED BY <1>1, <1>2, <1>3, <1>4, <1>5, <1>6 DEF Next, CloseLoop

LEMMA InitInv == Init => Inv
<1> SUFFICES ASSUME Init PROVE Inv
  OBVIOUS
<1>1. LoopInv
  BY DEF Init, LoopInv
<1>2. RemovedIsClosed
  BY DEF Init, RemovedIsClosed, Registered
<1> QED BY <1>1, <1>2, InitType DEF Inv

LEMMA InvStep == Inv /\ [Next]_vars => Inv'
BY TypeStep, LoopStep DEF Inv

\* A registered session that is no longer in the map is closed, whatever registers, ends
\* or calls Close at the same time.
THEOREM RemovedAreClosed == Spec => []RemovedIsClosed
<1>1. Inv => RemovedIsClosed
  BY DEF Inv
<1> QED BY <1>1, InitInv, InvStep, PTL DEF Spec

-----------------------------------------------------------------------------
(* The graceful end of Serve.  Shutdown has waited for every connection    *)
(* that was not hijacked, and the listener accepts no new one.             *)

Unhijacked == {"accepted", "request"}

ServeInv ==
  /\ listening => serve = "serving"
  /\ serve = "serving" => how = "none"
  /\ at["Serve"] # "idle" => serve = "closing"
  /\ (how = "ctx" /\ serve \in {"closing", "returned"}) =>
       \A c \in Conns : http[c] \notin Unhijacked

LEMMA ServeStays ==
  ASSUME ServeInv, UNCHANGED <<listening, serve, how>>,
         at'["Serve"] # "idle" => at["Serve"] # "idle",
         \A c \in Conns : http'[c] \in Unhijacked => listening \/ http[c] \in Unhijacked
  PROVE  ServeInv'
BY DEF ServeInv

LEMMA ServeStep == TypeOK /\ ServeInv /\ [Next]_vars => ServeInv'
<1> SUFFICES ASSUME TypeOK, ServeInv, [Next]_vars PROVE ServeInv'
  OBVIOUS
<1>1. ASSUME NEW c \in Conns,
             \/ Accept(c) \/ Request(c) \/ Upgrade(c) \/ CreateSession(c) \/ Register(c)
             \/ OnConnected(c) \/ ShutdownIdle(c)
      PROVE  ServeInv'
  <2>1. UNCHANGED <<listening, serve, how, at>>
    BY <1>1 DEF Accept, Request, Upgrade, CreateSession, Register, OnConnected, ShutdownIdle,
                closing
  <2>2. \A d \in Conns : http'[d] \in Unhijacked => listening \/ http[d] \in Unhijacked
    BY <1>1 DEF TypeOK, Accept, Request, Upgrade, CreateSession, Register, OnConnected,
                ShutdownIdle, Http, Unhijacked
  <2> QED BY <2>1, <2>2, ServeStays
<1>2. ASSUME NEW c \in Conns, SessionEnds(c) \/ SessionClosed(c) PROVE ServeInv'
  BY <1>2, ServeStays DEF SessionEnds, SessionClosed, closing
<1>3. ASSUME NEW t \in Closers, NEW c \in Conns,
             CloseSession(t, c) \/ CloseSessionReturns(t, c)
      PROVE  ServeInv'
  BY <1>3, ServeStays DEF CloseSession, CloseSessionReturns, closing
<1>4. ASSUME NEW t \in Closers, CloseLocks(t) PROVE ServeInv'
  <2>1. /\ UNCHANGED <<listening, serve, how, http>>
        /\ at'["Serve"] # "idle" => at["Serve"] # "idle"
    BY <1>4 DEF TypeOK, CloseLocks
  <2> QED BY <2>1, ServeStays
<1>5. ASSUME NEW u \in Users, CallClose(u) PROVE ServeInv'
  <2>1. UNCHANGED <<listening, serve, how, http>> /\ at'["Serve"] = at["Serve"]
    BY <1>5 DEF TypeOK, CallClose
  <2> QED BY <2>1, ServeStays
<1>6. ASSUME NEW t \in Closers, CloseUnlocks(t) PROVE ServeInv'
  <2>1. /\ UNCHANGED <<listening, how, http>> /\ at' = [at EXCEPT ![t] = "idle"]
        /\ at[t] = "loop" /\ serve' = IF t = "Serve" THEN "returned" ELSE serve
    BY <1>6 DEF CloseUnlocks
  <2>2. CASE t = "Serve"
    <3>1. at'["Serve"] = "idle" /\ serve = "closing"
      BY <2>1, <2>2 DEF TypeOK, ServeInv
    <3> QED BY <2>1, <2>2, <3>1 DEF ServeInv
  <2>3. CASE t # "Serve"
    <3>1. at'["Serve"] = at["Serve"]
      BY <2>1, <2>3 DEF TypeOK
    <3> QED BY <2>1, <2>3, <3>1, ServeStays
  <2> QED BY <2>2, <2>3
<1>7. CASE CtxCancelled
  BY <1>7, ServeStays DEF CtxCancelled, closing
<1>8. CASE ServeSeesCtx
  <2>1. serve = "serving" /\ serve' = "shutdown" /\ ~listening' /\ at' = at
    BY <1>8 DEF ServeSeesCtx, closing
  <2> QED BY <2>1 DEF ServeInv
<1>9. CASE ShutdownReturns
  <2>1. /\ serve' = "closing" /\ UNCHANGED <<listening, how, http>> /\ serve = "shutdown"
        /\ \A c \in Conns : http[c] \notin Unhijacked
    BY <1>9 DEF ShutdownReturns, Unhijacked
  <2> QED BY <2>1 DEF ServeInv
<1>10. CASE ServeFails
  <2>1. serve' = "closing" /\ how' = "err" /\ ~listening'
    BY <1>10 DEF ServeFails
  <2> QED BY <2>1 DEF ServeInv
<1>11. CASE UNCHANGED vars
  BY <1>11, ServeStays DEF vars, closing
<1> QED BY <1>1, <1>2, <1>3, <1>4, <1>5, <1>6, <1>7, <1>8, <1>9, <1>10, <1>11
        DEF Next, CloseLoop

GracefulStep ==
  (how = "ctx" /\ serve # "returned" /\ serve' = "returned") =>
    \A c \in Conns : \/ http[c] \in {"none", "gone", "upgraded", "created"}
                     \/ stage[c] = "closed"

\* Only the last step of Close, made by Serve itself, lets Serve return.
LEMMA ReturnStep == Inv /\ ServeInv /\ [Next]_vars => GracefulStep
<1> SUFFICES ASSUME Inv, ServeInv, [Next]_vars, how = "ctx", serve # "returned",
                    serve' = "returned", NEW c \in Conns,
                    http[c] \notin {"none", "gone", "upgraded", "created"}
             PROVE  stage[c] = "closed"
  BY DEF GracefulStep
<1> USE DEF Inv
<1>1. CloseUnlocks("Serve")
  BY DEF Next, CloseLoop, CloseUnlocks, CloseLocks, CloseSession, CloseSessionReturns,
         Accept, Request, Upgrade, CreateSession, Register, OnConnected, SessionEnds,
         SessionClosed, ShutdownIdle, CallClose, CtxCancelled, ServeSeesCtx, ShutdownReturns,
         ServeFails, vars
<1>2. "Serve" \in Closers /\ at["Serve"] = "loop" /\ todo = {}
  BY <1>1 DEF Closers, CloseUnlocks
<1>3. http[c] \notin Unhijacked
  BY <1>2 DEF ServeInv
<1>4. Registered(c)
  BY <1>3 DEF TypeOK, HttpStates, Unhijacked, Registered
<1>5. CASE InMap(c)
  BY <1>2, <1>5 DEF LoopInv
<1>6. CASE ~InMap(c)
  BY <1>4, <1>6 DEF RemovedIsClosed
<1> QED BY <1>5, <1>6

\* A Serve that ends because its context was cancelled leaves no session open, except
\* those whose handler had hijacked its connection and not yet taken the lock.
THEOREM GracefulEnd == Spec => GracefulReturn
<1>1. Init => ServeInv
  BY DEF Init, ServeInv, Closers
<1>2. (Inv /\ ServeInv) /\ [Next]_vars => (Inv /\ ServeInv)'
  BY InvStep, ServeStep DEF Inv
<1>3. (Inv /\ ServeInv) /\ [Next]_vars => [GracefulStep]_vars
  BY ReturnStep
<1> QED BY <1>1, <1>2, <1>3, InitInv, PTL DEF Spec, GracefulReturn, GracefulStep
=============================================================================
