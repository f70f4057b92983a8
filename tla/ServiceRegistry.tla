---------------------------- MODULE ServiceRegistry ----------------------------
(***************************************************************************)
(* Registration of service processes in etcd (internal/util/sessionutil):  *)
(* Init takes a server ID, Register writes the session's key under a       *)
(* lease, the keep-alive goroutine guards the lease and ends the process   *)
(* when it is lost, GoingStop marks the key, Stop revokes the lease.       *)
(*                                                                         *)
(* A node is one process: a restart is another node with the same address. *)
(* Every step that calls etcd may fail, and a failed write may have been   *)
(* applied; it is applied before its caller sees the error, or never.      *)
(***************************************************************************)
EXTENDS Naturals, Functions

CONSTANTS
  Nodes,     \* processes that serve one ServerName
  Addresses, \* the addresses they are started with
  Attempts   \* sessionRetryTimes (0, "for ever", is not modelled)

ASSUME RegistryAssumption == Attempts \in Nat \ {0}

VARIABLES
  exclusive, \* Session.Exclusive, the same for all nodes
  address,   \* Session.Address of each node
  idKey,     \* etcd: the counter at DefaultIDKey, 0 while the key is absent
  store,     \* etcd: the session keys, and the records under them
  leases,    \* etcd: the leases that are alive
  granted,   \* etcd: the number of leases granted so far
  main,      \* where the goroutine that uses the Session is
  ka,        \* where the keep-alive goroutine is
  read,      \* the counter value read by getServerIDWithKey, 0 outside it
  id,        \* ServerID
  leaseId,   \* LeaseID, 0 before the first grant and when the process has ended
  attempt,   \* failed attempts of registerFn, 0 outside retry.Do
  troubled   \* history: nodes whose Register has met a failing etcd call

params  == <<exclusive, address>>
etcd    == <<idKey, store, leases, granted>>
ident   == <<read, id>>
trying  == <<leaseId, attempt, troubled>>
vars == <<params, etcd, main, ka, ident, trying>>

KeyOf(n) == IF exclusive THEN 0 ELSE id[n]
Record(n, l, stop) == [node |-> n, lease |-> l, stopping |-> stop]
PutKey(n, l, stop) ==
  store' = [k \in DOMAIN store \cup {KeyOf(n)} |->
              IF k = KeyOf(n) THEN Record(n, l, stop) ELSE store[k]]
Delete(keys) == store' = Restrict(store, DOMAIN store \ keys)
Bound(l) == {k \in DOMAIN store : store[k].lease = l}

Goto(n, label) == main' = [main EXCEPT ![n] = label]

\* The process ends: by a panic, os.Exit or a crash.
Die(n) ==
  /\ Goto(n, "dead") /\ ka' = [ka EXCEPT ![n] = "none"]
  /\ read' = [read EXCEPT ![n] = 0] /\ leaseId' = [leaseId EXCEPT ![n] = 0]
  /\ attempt' = [attempt EXCEPT ![n] = 0] /\ troubled' = troubled \ {n}
  /\ UNCHANGED id

Gone == {"dead", "gaveUp", "stopped"}
Serving == {"running", "goingPut"}

Init ==
  /\ exclusive \in BOOLEAN /\ address \in [Nodes -> Addresses]
  /\ idKey = 0 /\ store = <<>> /\ leases = {} /\ granted = 0
  /\ main = [n \in Nodes |-> "new"]
  /\ ka = [n \in Nodes |-> "none"]
  /\ read = [n \in Nodes |-> 0] /\ id = [n \in Nodes |-> 0]
  /\ leaseId = [n \in Nodes |-> 0] /\ attempt = [n \in Nodes |-> 0] /\ troubled = {}

-----------------------------------------------------------------------------
(* Init: checkIDExist and getServerIDWithKey.  An error is a panic.        *)

\* Two processes that are alive cannot listen on one address.
AddressFree(n) ==
  \A m \in Nodes \ {n} : address[m] = address[n] => main[m] \in Gone \cup {"new"}

\* The error of this transaction is ignored: the key may still be absent.
CheckIDExist(n) ==
  /\ main[n] = "new" /\ AddressFree(n)
  /\ idKey' \in {idKey, IF idKey = 0 THEN 1 ELSE idKey}
  /\ Goto(n, "getId")
  /\ UNCHANGED <<params, store, leases, granted, ka, ident, trying>>

\* While there is no counter the loop only reads again.
GetID(n) ==
  /\ main[n] = "getId"
  /\ \/ /\ idKey > 0 /\ read' = [read EXCEPT ![n] = idKey] /\ Goto(n, "casId")
        /\ UNCHANGED <<ka, id, trying>>
     \/ Die(n)
  /\ UNCHANGED <<params, etcd>>

TakeID(n) ==
  /\ id' = [id EXCEPT ![n] = read[n]] /\ read' = [read EXCEPT ![n] = 0]
  /\ Goto(n, "register") /\ UNCHANGED <<ka, trying>>

\* Mutant: the counter is put back without comparing it with what was read.
CasIDBlind(n) ==
  /\ main[n] = "casId"
  /\ idKey' = read[n] + 1 /\ TakeID(n)
  /\ UNCHANGED <<params, store, leases, granted>>

CasID(n) ==
  /\ main[n] = "casId"
  /\ \/ idKey = read[n] /\ idKey' = idKey + 1 /\ TakeID(n)
     \/ /\ idKey # read[n] /\ Goto(n, "getId") /\ read' = [read EXCEPT ![n] = 0]
        /\ UNCHANGED <<idKey, ka, id, trying>>
     \/ idKey' \in {idKey, IF idKey = read[n] THEN idKey + 1 ELSE idKey} /\ Die(n)
  /\ UNCHANGED <<params, store, leases, granted>>

-----------------------------------------------------------------------------
(* Register: retry.Do(registerFn), a panic when all attempts have failed.  *)

\* Mutant: the loop of retry.Do makes one attempt too many.
RetryOnceMore(n) ==
  IF attempt[n] = Attempts
  THEN Goto(n, "gaveUp") /\ attempt' = [attempt EXCEPT ![n] = 0]
                         /\ leaseId' = [leaseId EXCEPT ![n] = 0]
  ELSE Goto(n, "register") /\ attempt' = [attempt EXCEPT ![n] = @ + 1] /\ UNCHANGED leaseId

\* An attempt has failed; after the last one Register panics.
Retry(n) ==
  IF attempt[n] + 1 = Attempts
  THEN Goto(n, "gaveUp") /\ attempt' = [attempt EXCEPT ![n] = 0]
                         /\ leaseId' = [leaseId EXCEPT ![n] = 0]
  ELSE Goto(n, "register") /\ attempt' = [attempt EXCEPT ![n] = @ + 1] /\ UNCHANGED leaseId

\* Each attempt grants a lease of its own and drops the last one unrevoked.
Grant(n) ==
  /\ main[n] = "register"
  /\ \/ /\ granted' = granted + 1 /\ leases' = leases \cup {granted'}
        /\ leaseId' = [leaseId EXCEPT ![n] = granted']
        /\ Goto(n, "txn") /\ UNCHANGED <<attempt, troubled>>
     \/ Retry(n) /\ troubled' = troubled \cup {n} /\ UNCHANGED <<leases, granted>>
  /\ UNCHANGED <<params, idKey, store, ka, ident>>

KeyAbsent(n) == KeyOf(n) \notin DOMAIN store

\* Register returns; the keep-alive goroutine starts without a channel.
BeginServing(n) ==
  /\ Goto(n, "running") /\ ka' = [ka EXCEPT ![n] = "check"]
  /\ attempt' = [attempt EXCEPT ![n] = 0] /\ troubled' = troubled \ {n} /\ UNCHANGED leaseId

\* Mutant: the session is put without its lease.
RegisterUnleased(n) ==
  /\ main[n] = "txn" /\ KeyAbsent(n)
  /\ PutKey(n, 0, FALSE) /\ BeginServing(n)
  /\ UNCHANGED <<params, idKey, leases, granted, ident>>

Registered(n) ==
  /\ main[n] = "txn" /\ KeyAbsent(n) /\ leaseId[n] \in leases
  /\ PutKey(n, leaseId[n], FALSE) /\ BeginServing(n)
  /\ UNCHANGED <<params, idKey, leases, granted, ident>>

RegisterRefused(n) ==
  /\ main[n] = "txn" /\ ~KeyAbsent(n) /\ Goto(n, "restart")
  /\ UNCHANGED <<params, etcd, ka, ident, trying>>

\* The lease has expired meanwhile, or the call fails.
RegisterFails(n) ==
  /\ main[n] = "txn"
  /\ \/ KeyAbsent(n) /\ leaseId[n] \in leases /\ PutKey(n, leaseId[n], FALSE)
     \/ UNCHANGED store
  /\ Retry(n) /\ troubled' = troubled \cup {n}
  /\ UNCHANGED <<params, idKey, leases, granted, ka, ident>>

\* Mutant: the record of a predecessor is expected to have the larger ID.
RestartGetNewer(n) ==
  /\ main[n] = "restart"
  /\ LET old == {k \in {KeyOf(n)} \cap DOMAIN store :
                   /\ address[store[k].node] = address[n]
                   /\ id[store[k].node] > id[n]}
     IN  IF old # {} THEN Goto(n, "purge") /\ UNCHANGED <<leaseId, attempt>> ELSE Retry(n)
  /\ UNCHANGED <<params, etcd, ka, ident, troubled>>

\* handleRestart reads the record in the way ...
RestartGet(n) ==
  /\ main[n] = "restart"
  /\ \/ /\ LET old == {k \in {KeyOf(n)} \cap DOMAIN store :
                         /\ address[store[k].node] = address[n]
                         /\ id[store[k].node] < id[n]}
           IN  IF old # {} THEN Goto(n, "purge") /\ UNCHANGED <<leaseId, attempt>> ELSE Retry(n)
        /\ UNCHANGED troubled
     \/ Retry(n) /\ troubled' = troubled \cup {n}
  /\ UNCHANGED <<params, etcd, ka, ident>>

\* ... and deletes the key, whatever it holds by then; registerFn fails all the same.
RestartPurge(n) ==
  /\ main[n] = "purge"
  /\ \/ Delete({KeyOf(n)}) /\ UNCHANGED troubled
     \/ (UNCHANGED store \/ Delete({KeyOf(n)})) /\ troubled' = troubled \cup {n}
  /\ Retry(n)
  /\ UNCHANGED <<params, idKey, leases, granted, ka, ident>>

Register(n) == Grant(n) \/ Registered(n) \/ RegisterRefused(n) \/ RegisterFails(n)
                 \/ RestartGet(n) \/ RestartPurge(n)

-----------------------------------------------------------------------------
(* processKeepAliveResponse and checkKeepaliveTTL.                         *)

\* TimeToLive answers and KeepAlive returns a channel.  (After any other error of the
\* two the loop backs off and checks again, which changes nothing.)
TtlOk(n) ==
  /\ ka[n] = "check" /\ leaseId[n] \in leases /\ ka' = [ka EXCEPT ![n] = "keep"]
  /\ UNCHANGED <<params, etcd, main, ident, trying>>

\* Mutant: a lost lease is an error like any other.
TtlRetries(n) == ka[n] = "check" /\ leaseId[n] \notin leases /\ UNCHANGED vars

\* os.Exit: the lease is gone, or the check was not answered before its deadline.
TtlExit(n) == ka[n] = "check" /\ Die(n) /\ UNCHANGED <<params, etcd>>

\* The client closes the channel when a refresh fails, or when the lease expires.
ChannelClosed(n) ==
  /\ ka[n] = "keep" /\ ka' = [ka EXCEPT ![n] = "check"]
  /\ UNCHANGED <<params, etcd, main, ident, trying>>

CtxSeen(n) ==
  /\ ka[n] \in {"check", "keep"} /\ main[n] = "stopping"
  /\ ka' = [ka EXCEPT ![n] = "revoke"]
  /\ UNCHANGED <<params, etcd, main, ident, trying>>

\* The deferred Revoke; its error is only logged.
Revoke(n) ==
  /\ ka[n] = "revoke" /\ ka' = [ka EXCEPT ![n] = "done"]
  /\ \/ leases' = leases \ {leaseId[n]} /\ Delete(Bound(leaseId[n]))
     \/ UNCHANGED <<leases, store>>
  /\ UNCHANGED <<params, idKey, granted, main, ident, trying>>

KeepAlive(n) == TtlOk(n) \/ TtlExit(n) \/ CtxSeen(n) \/ Revoke(n)

-----------------------------------------------------------------------------
(* GoingStop and Stop.                                                     *)

GoingStop(n) ==
  /\ main[n] = "running" /\ ~KeyAbsent(n) /\ Goto(n, "goingPut")
  /\ UNCHANGED <<params, etcd, ka, ident, trying>>

\* The Put is refused when the lease is gone.
GoingStopPut(n) ==
  /\ main[n] = "goingPut" /\ Goto(n, "running")
  /\ \/ leaseId[n] \in leases /\ PutKey(n, leaseId[n], TRUE)
     \/ UNCHANGED store
  /\ UNCHANGED <<params, idKey, leases, granted, ka, ident, trying>>

Stop(n) ==
  /\ main[n] = "running" /\ Goto(n, "stopping")
  /\ UNCHANGED <<params, etcd, ka, ident, trying>>

StopReturns(n) ==
  /\ main[n] = "stopping" /\ ka[n] = "done" /\ Goto(n, "stopped")
  /\ UNCHANGED <<params, etcd, ka, ident, trying>>

-----------------------------------------------------------------------------
(* etcd and the environment.                                               *)

Crash(n) ==
  /\ main[n] \notin Gone \cup {"new"} /\ Die(n)
  /\ UNCHANGED <<params, etcd>>

\* A lease expires when nobody refreshes it, or when the refreshes do not get through.
Expire(l) ==
  /\ l \in leases /\ leases' = leases \ {l} /\ Delete(Bound(l))
  /\ UNCHANGED <<params, idKey, granted, main, ka, ident, trying>>

Kept(l) == \E n \in Nodes : ka[n] = "keep" /\ leaseId[n] = l

Next ==
  \/ \E n \in Nodes :
       \/ CheckIDExist(n) \/ GetID(n) \/ CasID(n) \/ Register(n)
       \/ ChannelClosed(n) \/ KeepAlive(n)
       \/ GoingStop(n) \/ GoingStopPut(n) \/ Stop(n) \/ StopReturns(n) \/ Crash(n)
  \/ \E l \in leases : Expire(l)

\* etcd expires the leases that nobody refreshes, the client closes the
\* channel of an expired lease, and a goroutine that can run does.
Fairness ==
  /\ \A n \in Nodes : /\ WF_vars(KeepAlive(n))
                      /\ WF_vars(leaseId[n] \notin leases /\ ChannelClosed(n))
                      /\ WF_vars(StopReturns(n))
  /\ WF_vars(\E l \in leases : ~Kept(l) /\ Expire(l))

Spec == Init /\ [][Next]_vars
FairSpec == Spec /\ Fairness

-----------------------------------------------------------------------------
(* Properties.                                                             *)

MainLabels == {"new", "getId", "casId", "register", "txn", "restart", "purge", "stopping"}
                \cup Gone \cup Serving

\* Kinds of values; Register makes at most Attempts attempts (attempt counts the failed
\* ones), and only a process that has registered runs the keep-alive goroutine.
TypeOK ==
  /\ exclusive \in BOOLEAN /\ address \in [Nodes -> Addresses]
  /\ idKey \in Nat /\ granted \in Nat /\ leases \subseteq 1..granted
  /\ DOMAIN store \subseteq Nat
  /\ \A k \in DOMAIN store :
       store[k] \in [node : Nodes, lease : 0..granted, stopping : BOOLEAN]
  /\ main \in [Nodes -> MainLabels]
  /\ ka \in [Nodes -> {"none", "check", "keep", "revoke", "done"}]
  /\ read \in [Nodes -> Nat] /\ id \in [Nodes -> Nat]
  /\ leaseId \in [Nodes -> 0..granted] /\ attempt \in [Nodes -> 0 .. (Attempts - 1)]
  /\ troubled \subseteq Nodes
  /\ \A n \in Nodes : ka[n] # "none" => main[n] \in Serving \cup {"stopping", "stopped"}

\* No two processes ever get the same server ID, dead ones included, though the counter
\* is read in one call and moved on in another.
UniqueServerID ==
  \A m, n \in Nodes : (m # n /\ id[m] # 0) => id[m] # id[n]

Leased(n) == main[n] \in Serving /\ leaseId[n] \in leases

Visible(n) ==
  /\ KeyOf(n) \in DOMAIN store
  /\ \E stop \in BOOLEAN : store[KeyOf(n)] = Record(n, leaseId[n], stop)

\* Register makes the service discoverable: as long as the lease of a serving process is
\* alive, its key is in etcd, holds its record and is bound to that very lease.  (The one
\* key of an exclusive service can be lost, see ExclusiveIsSingle.)
RegisteredIsVisible == ~exclusive => \A n \in Nodes : Leased(n) => Visible(n)

\* handleRestart gives a restarted process the key of its predecessor without waiting for
\* the old lease: Register gives up only after a failed etcd call, or when a process
\* with another address is in the way.
RestartTakesOver ==
  (Attempts > 1) =>
    \A n \in Nodes : (main[n] = "gaveUp" /\ n \notin troubled) =>
      exclusive /\ \E m \in Nodes : address[m] # address[n] /\ id[m] # 0

\* "Exclusive: only a single instance of the service may run" (session_util.go:145).
ExclusiveIsSingle ==
  exclusive => \A m, n \in Nodes :
    ({main[m], main[n]} \subseteq Serving /\ {leaseId[m], leaseId[n]} \subseteq leases)
      => m = n

\* A process that has lost its lease does not go on serving.
ZombieExits ==
  \A n \in Nodes : (main[n] \in Serving /\ leaseId[n] \notin leases) ~> main[n] \notin Serving

\* A process that has died or stopped, also in the middle of Register, leaves etcd.
GoneIsForgotten ==
  \A n \in Nodes : main[n] \in Gone ~> (\A k \in DOMAIN store : store[k].node # n)
=============================================================================
