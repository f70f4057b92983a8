------------------------------- MODULE Acceptor -------------------------------
(***************************************************************************)
(* The acceptor (internal/network/acceptor, type wsAcceptor): Serve with   *)
(* its two ways to end, the HTTP handler that upgrades a connection and    *)
(* registers its session, and Close, which Serve and users call.           *)
(*                                                                         *)
(* A session is seen from outside, as WsSession describes it: it is open   *)
(* until the first goroutine enters its closeOnce, closing while that      *)
(* goroutine runs the body, OnClosed included, and closed afterwards;      *)
(* every other caller of its Close waits until it is closed.               *)
(***************************************************************************)
EXTENDS Naturals, Functions

CONSTANTS
  Conns,  \* TCP connections of clients
  Users   \* goroutines that call Acceptor.Close

Closers == Users \cup {"Serve"}

ASSUME AcceptorAssumption == "Serve" \notin Users /\ "none" \notin Conns \cup Users

VARIABLES
  ctxDone,    \* the context of Serve is cancelled
  serve,      \* where Serve is
  how,        \* the case its select has taken
  listening,  \* the listener accepts connections
  http,       \* the progress of each connection's HTTP goroutine
  stage,      \* the session of each connection
  closer,     \* the goroutine running its closeOnce body; the connection itself
              \* stands for the session's own goroutines
  id,         \* its session ID
  lastId,     \* the counter of Uint64IDGenerator
  sessions,   \* a.sessions: from IDs to connections
  mu,         \* the holder of a.mu
  at,         \* where each caller of Close is
  todo        \* the sessions the range loop of Close has not finished with

life     == <<stage, closer>>
ids      == <<id, lastId>>
closing  == <<mu, at, todo>>
vars == <<ctxDone, serve, how, listening, http, life, ids, sessions, closing>>

HttpStates == {"none", "accepted", "request", "upgraded", "created", "registered",
               "connected", "gone"}
Registered(c) == http[c] \in {"registered", "connected"}
InMap(c) == c \in Range(sessions)

Init ==
  /\ ctxDone = FALSE /\ serve = "serving" /\ how = "none" /\ listening = TRUE
  /\ http = [c \in Conns |-> "none"]
  /\ stage = [c \in Conns |-> "none"] /\ closer = [c \in Conns |-> "none"]
  /\ id = [c \in Conns |-> 0] /\ lastId = 0
  /\ sessions = <<>>
  /\ mu = "none" /\ at = [t \in Closers |-> "idle"] /\ todo = {}

Http(c, from, to) == http[c] = from /\ http' = [http EXCEPT ![c] = to]

-----------------------------------------------------------------------------
(* The HTTP goroutine of a connection.  Serve's return does not stop it.   *)

Accept(c) ==
  /\ listening /\ Http(c, "none", "accepted")
  /\ UNCHANGED <<ctxDone, serve, how, listening, life, ids, sessions, closing>>

Request(c) ==
  /\ Http(c, "accepted", "request")
  /\ UNCHANGED <<ctxDone, serve, how, listening, life, ids, sessions, closing>>

\* Upgrade hijacks the connection, or answers with an error and the handler returns.
Upgrade(c) ==
  /\ Http(c, "request", "upgraded") \/ Http(c, "request", "gone")
  /\ UNCHANGED <<ctxDone, serve, how, listening, life, ids, sessions, closing>>

\* Mutant: the generator returns the counter before it increments it.
CreateSessionFromZero(c) ==
  /\ Http(c, "upgraded", "created")
  /\ lastId' = lastId + 1 /\ id' = [id EXCEPT ![c] = lastId]
  /\ stage' = [stage EXCEPT ![c] = "open"]
  /\ UNCHANGED <<ctxDone, serve, how, listening, closer, sessions, closing>>

\* Mutant: two goroutines can load the same counter.
CreateSessionSameId(c) ==
  /\ Http(c, "upgraded", "created")
  /\ lastId' \in {lastId, lastId + 1} /\ id' = [id EXCEPT ![c] = lastId + 1]
  /\ stage' = [stage EXCEPT ![c] = "open"]
  /\ UNCHANGED <<ctxDone, serve, how, listening, closer, sessions, closing>>

\* idGen.Next and newWSSession, which starts the session's goroutines at once.
CreateSession(c) ==
  /\ Http(c, "upgraded", "created")
  /\ lastId' = lastId + 1 /\ id' = [id EXCEPT ![c] = lastId']
  /\ stage' = [stage EXCEPT ![c] = "open"]
  /\ UNCHANGED <<ctxDone, serve, how, listening, closer, sessions, closing>>

Register(c) ==
  /\ Http(c, "created", "registered")
  /\ mu = "none"
  /\ sessions' = [i \in DOMAIN sessions \cup {id[c]} |-> IF i = id[c] THEN c ELSE sessions[i]]
  /\ UNCHANGED <<ctxDone, serve, how, listening, life, ids, closing>>

OnConnected(c) ==
  /\ Http(c, "registered", "connected")
  /\ UNCHANGED <<ctxDone, serve, how, listening, life, ids, sessions, closing>>

-----------------------------------------------------------------------------
(* The end of a session: for reasons of its own, or by Close.              *)

SessionEnds(c) ==
  /\ stage[c] = "open" /\ stage' = [stage EXCEPT ![c] = "closing"]
  /\ closer' = [closer EXCEPT ![c] = c]
  /\ UNCHANGED <<ctxDone, serve, how, listening, http, ids, sessions, closing>>

\* Mutant: the last step of a session's close takes it out of the map.
SessionClosedLeavesMap(c) ==
  /\ stage[c] = "closing" /\ stage' = [stage EXCEPT ![c] = "closed"]
  /\ mu = "none"
  /\ sessions' = Restrict(sessions, {i \in DOMAIN sessions : sessions[i] # c})
  /\ UNCHANGED <<ctxDone, serve, how, listening, http, closer, ids, closing>>

\* The last step of closeOnce, OnClosed, returns.
SessionClosed(c) ==
  /\ stage[c] = "closing" /\ stage' = [stage EXCEPT ![c] = "closed"]
  /\ UNCHANGED <<ctxDone, serve, how, listening, http, closer, ids, sessions, closing>>

CallClose(u) ==
  /\ at[u] = "idle" /\ at' = [at EXCEPT ![u] = "lock"]
  /\ UNCHANGED <<ctxDone, serve, how, listening, http, life, ids, sessions, mu, todo>>

CloseLocks(t) ==
  /\ at[t] = "lock" /\ mu = "none"
  /\ mu' = t /\ at' = [at EXCEPT ![t] = "loop"] /\ todo' = Range(sessions)
  /\ UNCHANGED <<ctxDone, serve, how, listening, http, life, ids, sessions>>

\* s.Close() of the next session enters its closeOnce ...
CloseSession(t, c) ==
  /\ at[t] = "loop" /\ c \in todo
  /\ \A d \in todo : ~(stage[d] = "closing" /\ closer[d] = t)
  /\ stage[c] = "open" /\ stage' = [stage EXCEPT ![c] = "closing"]
  /\ closer' = [closer EXCEPT ![c] = t]
  /\ UNCHANGED <<ctxDone, serve, how, listening, http, ids, sessions, closing>>

\* Mutant: s.Close() does not wait for a closeOnce that is being run by another.
CloseSessionNoWait(t, c) ==
  /\ at[t] = "loop" /\ c \in todo
  /\ stage[c] = "closed" \/ (stage[c] = "closing" /\ closer[c] # t)
  /\ todo' = todo \ {c}
  /\ UNCHANGED <<ctxDone, serve, how, listening, http, life, ids, sessions, mu, at>>

\* ... and returns when the session is closed, whoever closed it.
CloseSessionReturns(t, c) ==
  /\ at[t] = "loop" /\ c \in todo /\ stage[c] = "closed"
  /\ todo' = todo \ {c}
  /\ UNCHANGED <<ctxDone, serve, how, listening, http, life, ids, sessions, mu, at>>

CloseUnlocks(t) ==
  /\ at[t] = "loop" /\ todo = {}
  /\ sessions' = <<>> /\ mu' = "none" /\ at' = [at EXCEPT ![t] = "idle"]
  /\ serve' = IF t = "Serve" THEN "returned" ELSE serve
  /\ UNCHANGED <<ctxDone, how, listening, http, life, ids, todo>>

CloseLoop(t) == CloseUnlocks(t) \/ \E c \in Conns : CloseSession(t, c) \/ CloseSessionReturns(t, c)

-----------------------------------------------------------------------------
(* Serve.                                                                  *)

CtxCancelled ==
  /\ ~ctxDone /\ ctxDone' = TRUE
  /\ UNCHANGED <<serve, how, listening, http, life, ids, sessions, closing>>

\* srv.Shutdown closes the listener first.
ServeSeesCtx ==
  /\ serve = "serving" /\ ctxDone
  /\ serve' = "shutdown" /\ how' = "ctx" /\ listening' = FALSE
  /\ UNCHANGED <<ctxDone, http, life, ids, sessions, closing>>

\* It closes the connections that are idle ...
ShutdownIdle(c) ==
  /\ serve = "shutdown" /\ Http(c, "accepted", "gone")
  /\ UNCHANGED <<ctxDone, serve, how, listening, life, ids, sessions, closing>>

\* Mutant: Shutdown does not wait for handlers that are running.
ShutdownReturnsAtOnce ==
  /\ serve = "shutdown"
  /\ serve' = "closing" /\ at' = [at EXCEPT !["Serve"] = "lock"]
  /\ UNCHANGED <<ctxDone, how, listening, http, life, ids, sessions, mu, todo>>

\* ... and waits for the others, except for those that have been hijacked.
ShutdownReturns ==
  /\ serve = "shutdown" /\ \A c \in Conns : http[c] \notin {"accepted", "request"}
  /\ serve' = "closing" /\ at' = [at EXCEPT !["Serve"] = "lock"]
  /\ UNCHANGED <<ctxDone, how, listening, http, life, ids, sessions, mu, todo>>

\* srv.Serve fails: the connections it has accepted go on.
ServeFails ==
  /\ serve = "serving"
  /\ serve' = "closing" /\ how' = "err" /\ listening' = FALSE
  /\ at' = [at EXCEPT !["Serve"] = "lock"]
  /\ UNCHANGED <<ctxDone, http, life, ids, sessions, mu, todo>>

Next ==
  \/ \E c \in Conns :
       \/ Accept(c) \/ Request(c) \/ Upgrade(c) \/ CreateSession(c) \/ Register(c)
       \/ OnConnected(c) \/ SessionEnds(c) \/ SessionClosed(c) \/ ShutdownIdle(c)
  \/ \E u \in Users : CallClose(u)
  \/ \E t \in Closers : CloseLocks(t) \/ CloseLoop(t)
  \/ CtxCancelled \/ ServeSeesCtx \/ ShutdownReturns \/ ServeFails

\* The scheduler runs what can run, a mutex is not withheld from a waiter for ever
\* (sync.Mutex has a starvation mode), and OnClosed and OnConnected return.
Fairness ==
  /\ \A c \in Conns : /\ WF_vars(Upgrade(c)) /\ WF_vars(CreateSession(c))
                      /\ WF_vars(OnConnected(c)) /\ WF_vars(SessionClosed(c))
                      /\ WF_vars(ShutdownIdle(c)) /\ SF_vars(Register(c))
  /\ \A t \in Closers : SF_vars(CloseLocks(t)) /\ WF_vars(CloseLoop(t))
  /\ WF_vars(ServeSeesCtx) /\ WF_vars(ShutdownReturns)

Spec == Init /\ [][Next]_vars
FairSpec == Spec /\ Fairness

-----------------------------------------------------------------------------
(* Properties.                                                             *)

\* Kinds of values; a session has an ID that the generator has given out, starting at 1.
TypeOK ==
  /\ ctxDone \in BOOLEAN /\ listening \in BOOLEAN
  /\ serve \in {"serving", "shutdown", "closing", "returned"}
  /\ how \in {"none", "ctx", "err"}
  /\ http \in [Conns -> HttpStates]
  /\ stage \in [Conns -> {"none", "open", "closing", "closed"}]
  /\ closer \in [Conns -> Conns \cup Closers \cup {"none"}]
  /\ lastId \in Nat /\ id \in [Conns -> 0..lastId]
  /\ \A c \in Conns : stage[c] # "none" => id[c] > 0
  /\ DOMAIN sessions \subseteq 1..lastId /\ Range(sessions) \subseteq Conns
  /\ mu \in Closers \cup {"none"} /\ todo \subseteq Conns
  /\ at \in [Closers -> {"idle", "lock", "loop"}]

\* A registered session that is not in the map is closed: Close drops the map only when
\* every session in it is closed, and no registration overwrites or slips past another.
RemovedIsClosed == \A c \in Conns : Registered(c) /\ ~InMap(c) => stage[c] = "closed"

\* When Serve returns because its context was cancelled, every session is closed, except
\* those whose handler is between the hijack and a.mu.Lock at that moment.
GracefulReturn ==
  [][ (how = "ctx" /\ serve # "returned" /\ serve' = "returned") =>
        \A c \in Conns : \/ http[c] \in {"none", "gone", "upgraded", "created"}
                         \/ stage[c] = "closed" ]_vars

\* "Serve blocks until ctx is cancelled ..." (acceptor.go:83): it does return then, though
\* Close waits under a.mu for sessions that others are closing.
ServeReturns == ctxDone ~> serve = "returned"

\* Every call of Close returns.
CloseReturns == \A u \in Users : at[u] = "lock" ~> at[u] = "idle"
=============================================================================
