------------------------ MODULE ServiceRegistryProofs ------------------------
(***************************************************************************)
(* Theorems about ServiceRegistry, for any set of processes and addresses  *)
(* and any number of attempts.                                             *)
(***************************************************************************)
EXTENDS ServiceRegistry, TLAPS

USE RegistryAssumption

-----------------------------------------------------------------------------
(* Type correctness: what talks of processes, and what talks of etcd.      *)

KaLabels == {"none", "check", "keep", "revoke", "done"}

ProcessOK ==
  /\ main \in [Nodes -> MainLabels] /\ ka \in [Nodes -> KaLabels]
  /\ read \in [Nodes -> Nat] /\ id \in [Nodes -> Nat]
  /\ leaseId \in [Nodes -> 0..granted] /\ attempt \in [Nodes -> 0 .. (Attempts - 1)]
  /\ troubled \subseteq Nodes
  /\ \A n \in Nodes : ka[n] # "none" => main[n] \in Serving \cup {"stopping", "stopped"}

StoreOK ==
  /\ DOMAIN store \subseteq Nat
  /\ \A k \in DOMAIN store :
       store[k] \in [node : Nodes, lease : 0..granted, stopping : BOOLEAN]

CountersOK ==
  /\ exclusive \in BOOLEAN /\ address \in [Nodes -> Addresses]
  /\ idKey \in Nat /\ granted \in Nat /\ leases \subseteq 1..granted

LEMMA TypeParts == TypeOK <=> (ProcessOK /\ StoreOK /\ CountersOK)
BY DEF TypeOK, ProcessOK, StoreOK, CountersOK, KaLabels

LEMMA TypePartsNext == TypeOK' <=> (ProcessOK' /\ StoreOK' /\ CountersOK')
BY DEF TypeOK, ProcessOK, StoreOK, CountersOK, KaLabels

LEMMA InitType == Init => TypeOK
<1> SUFFICES ASSUME Init PROVE TypeOK
  OBVIOUS
<1>1. ProcessOK
  <2>1. 0 \in 0..granted /\ 0 \in 0 .. (Attempts - 1)
    BY SMT DEF Init
  <2> QED BY <2>1 DEF Init, ProcessOK, MainLabels, KaLabels
<1>2. StoreOK
  <2>1. DOMAIN store = {}
    BY DEF Init
  <2> QED BY <2>1 DEF StoreOK
<1>3. CountersOK
  BY DEF Init, CountersOK
<1> QED BY <1>1, <1>2, <1>3, TypeParts

LEMMA Zeros == TypeOK => 0 \in 0..granted /\ 0 \in 0 .. (Attempts - 1)
BY SMT DEF TypeOK

LEMMA DieType ==
  ASSUME TypeOK, NEW n \in Nodes, Die(n), granted' = granted
  PROVE  ProcessOK'
<1>1. main' \in [Nodes -> MainLabels] /\ ka' \in [Nodes -> KaLabels]
  BY DEF TypeOK, Die, Goto, MainLabels, KaLabels, Gone
<1>2. read' \in [Nodes -> Nat] /\ id' \in [Nodes -> Nat]
  BY DEF TypeOK, Die
<1>3. leaseId' \in [Nodes -> 0..granted'] /\ attempt' \in [Nodes -> 0 .. (Attempts - 1)]
  BY Zeros DEF TypeOK, Die
<1>4. troubled' \subseteq Nodes
  BY DEF TypeOK, Die
<1>5. \A m \in Nodes : ka'[m] # "none" => main'[m] \in Serving \cup {"stopping", "stopped"}
  BY DEF TypeOK, Die, Goto
<1> QED BY <1>1, <1>2, <1>3, <1>4, <1>5 DEF ProcessOK

Registering == {"register", "txn", "restart", "purge"}

\* A process that is registering has no keep-alive goroutine yet.
LEMMA RetryType ==
  ASSUME TypeOK, NEW n \in Nodes, Retry(n), main[n] \in Registering, granted' = granted,
         troubled' \subseteq troubled \cup {n}, UNCHANGED <<ka, ident>>
  PROVE  ProcessOK'
<1>1. main' \in [Nodes -> MainLabels]
  BY DEF TypeOK, Retry, Goto, MainLabels, Gone
<1>2. read' \in [Nodes -> Nat] /\ id' \in [Nodes -> Nat] /\ ka' \in [Nodes -> KaLabels]
  BY DEF TypeOK, ident, KaLabels
<1>3. leaseId' \in [Nodes -> 0..granted']
  BY Zeros DEF TypeOK, Retry
<1>4. attempt' \in [Nodes -> 0 .. (Attempts - 1)]
  <2>1. attempt[n] \in 0 .. (Attempts - 1)
    BY DEF TypeOK
  <2>2. attempt[n] + 1 # Attempts => attempt[n] + 1 \in 0 .. (Attempts - 1)
    BY <2>1, SMT
  <2> QED BY <2>2, Zeros DEF TypeOK, Retry
<1>5. troubled' \subseteq Nodes
  BY DEF TypeOK
<1>6. ka[n] = "none"
  BY DEF TypeOK, Registering, Serving
<1>7. \A m \in Nodes : ka'[m] # "none" => main'[m] \in Serving \cup {"stopping", "stopped"}
  BY <1>6 DEF TypeOK, Retry, Goto
<1> QED BY <1>1, <1>2, <1>3, <1>4, <1>5, <1>7 DEF ProcessOK

LEMMA KeyIsNat == ASSUME TypeOK, NEW n \in Nodes PROVE KeyOf(n) \in Nat
BY DEF TypeOK, KeyOf

LEMMA PutType ==
  ASSUME TypeOK, NEW n \in Nodes, NEW stop \in BOOLEAN, PutKey(n, leaseId[n], stop),
         granted' = granted
  PROVE  StoreOK'
<1>1. Record(n, leaseId[n], stop) \in [node : Nodes, lease : 0..granted, stopping : BOOLEAN]
  BY DEF TypeOK, Record
<1>2. DOMAIN store' = DOMAIN store \cup {KeyOf(n)}
  BY DEF PutKey
<1>3. \A k \in DOMAIN store' :
        store'[k] = IF k = KeyOf(n) THEN Record(n, leaseId[n], stop) ELSE store[k]
  BY <1>2 DEF PutKey
<1> QED BY <1>1, <1>2, <1>3, KeyIsNat DEF TypeOK, StoreOK

\* Delete takes keys away and touches no other.
LEMMA Deletes ==
  ASSUME NEW keys, Delete(keys)
  PROVE  /\ DOMAIN store' = DOMAIN store \ keys
         /\ \A k \in DOMAIN store \ keys : store'[k] = store[k]
BY DEF Delete, Restrict

LEMMA DeleteType ==
  ASSUME TypeOK, NEW keys, Delete(keys), granted' = granted
  PROVE  StoreOK'
BY Deletes DEF TypeOK, StoreOK

LEMMA StoreStays ==
  ASSUME TypeOK, store' = store, granted' \in Nat, granted <= granted'
  PROVE  StoreOK'
<1>1. 0..granted \subseteq 0..granted'
  BY SMT DEF TypeOK
<1> QED BY <1>1 DEF TypeOK, StoreOK

LEMMA CountersStay ==
  ASSUME TypeOK, UNCHANGED params, idKey' \in Nat, UNCHANGED <<leases, granted>>
  PROVE  CountersOK'
BY DEF TypeOK, CountersOK, params

LEMMA LeaseEnds ==
  ASSUME TypeOK, UNCHANGED params, UNCHANGED <<idKey, granted>>, leases' \subseteq leases
  PROVE  CountersOK'
BY DEF TypeOK, CountersOK, params

LEMMA InitStep ==
  ASSUME TypeOK, NEW n \in Nodes, CheckIDExist(n) \/ GetID(n) \/ CasID(n)
  PROVE  TypeOK'
<1>1. StoreOK'
  BY StoreStays DEF TypeOK, CheckIDExist, GetID, CasID, etcd
<1>2. idKey' \in Nat
  BY SMT DEF TypeOK, CheckIDExist, GetID, CasID, etcd
<1>3. CountersOK'
  BY <1>2, CountersStay DEF CheckIDExist, GetID, CasID, etcd
<1>4. ProcessOK'
  <2>1. ASSUME CheckIDExist(n) PROVE ProcessOK'
    <3>1. main[n] = "new" /\ ka[n] = "none"
      BY <2>1 DEF TypeOK, CheckIDExist, Serving
    <3> QED BY <2>1, <3>1 DEF TypeOK, ProcessOK, CheckIDExist, Goto, MainLabels, KaLabels,
                              ident, trying
  <2>2. ASSUME Die(n), UNCHANGED granted PROVE ProcessOK'
    BY <2>2, DieType
  <2>3. ASSUME GetID(n), ~Die(n) PROVE ProcessOK'
    <3>1. main[n] = "getId" /\ ka[n] = "none"
      BY <2>3 DEF TypeOK, GetID, Serving
    <3>2. read' \in [Nodes -> Nat] /\ UNCHANGED <<ka, id, trying, granted>>
      BY <2>3 DEF TypeOK, GetID, etcd
    <3>3. main' = [main EXCEPT ![n] = "casId"]
      BY <2>3 DEF GetID, Goto
    <3> QED BY <3>1, <3>2, <3>3 DEF TypeOK, ProcessOK, MainLabels, KaLabels, trying
  <2>4. ASSUME CasID(n), ~Die(n) PROVE ProcessOK'
    <3>1. main[n] = "casId" /\ ka[n] = "none"
      BY <2>4 DEF TypeOK, CasID, Serving
    <3>2. /\ read' \in [Nodes -> Nat] /\ id' \in [Nodes -> Nat]
          /\ UNCHANGED <<ka, trying, granted>>
      BY <2>4 DEF TypeOK, CasID, TakeID
    <3>3. main' \in {[main EXCEPT ![n] = "register"], [main EXCEPT ![n] = "getId"]}
      BY <2>4 DEF CasID, TakeID, Goto
    <3> QED BY <3>1, <3>2, <3>3 DEF TypeOK, ProcessOK, MainLabels, KaLabels, trying
  <2> QED BY <2>1, <2>2, <2>3, <2>4 DEF GetID, CasID, etcd
<1> QED BY <1>1, <1>3, <1>4, TypePartsNext

LEMMA GrantStep ==
  ASSUME TypeOK, NEW n \in Nodes, Grant(n)
  PROVE  TypeOK'
<1>1. CASE granted' = granted + 1 /\ leases' = leases \cup {granted'}
           /\ leaseId' = [leaseId EXCEPT ![n] = granted']
           /\ Goto(n, "txn") /\ UNCHANGED <<attempt, troubled>>
  <2>1. /\ granted' \in Nat /\ granted <= granted' /\ granted' \in 1..granted'
        /\ 1..granted \subseteq 1..granted' /\ 0..granted \subseteq 0..granted'
        /\ granted' \in 0..granted'
    BY <1>1, SMT DEF TypeOK
  <2>2. StoreOK'
    BY <2>1, StoreStays DEF Grant
  <2>3. CountersOK'
    BY <1>1, <2>1 DEF TypeOK, CountersOK, Grant, params
  <2>4. main[n] = "register" /\ ka[n] = "none"
    BY DEF TypeOK, Grant, Serving
  <2>5. leaseId' \in [Nodes -> 0..granted']
    BY <1>1, <2>1 DEF TypeOK
  <2>6. ProcessOK'
    BY <1>1, <2>4, <2>5 DEF TypeOK, ProcessOK, Grant, Goto, MainLabels, KaLabels, ident
  <2> QED BY <2>2, <2>3, <2>6, TypePartsNext
<1>2. CASE Retry(n) /\ troubled' = troubled \cup {n} /\ UNCHANGED <<leases, granted>>
  <2>1. ProcessOK'
    BY <1>2, RetryType DEF Grant, Registering
  <2>2. StoreOK'
    BY <1>2, StoreStays DEF TypeOK, Grant
  <2>3. CountersOK'
    BY <1>2, CountersStay DEF TypeOK, Grant
  <2> QED BY <2>1, <2>2, <2>3, TypePartsNext
<1> QED BY <1>1, <1>2 DEF Grant

LEMMA RegisteredStep ==
  ASSUME TypeOK, NEW n \in Nodes, Registered(n)
  PROVE  TypeOK'
<1>1. StoreOK'
  BY PutType DEF Registered
<1>2. CountersOK'
  BY CountersStay DEF TypeOK, Registered
<1>3. attempt' \in [Nodes -> 0 .. (Attempts - 1)]
  BY Zeros DEF TypeOK, Registered, BeginServing
<1>4. ProcessOK'
  BY <1>3 DEF TypeOK, ProcessOK, Registered, BeginServing, Goto, MainLabels, KaLabels,
              Serving, ident
<1> QED BY <1>1, <1>2, <1>4, TypePartsNext

LEMMA RegisterFailsStep ==
  ASSUME TypeOK, NEW n \in Nodes,
         RegisterFails(n) \/ RestartGet(n) \/ RestartPurge(n)
  PROVE  TypeOK'
<1>1. StoreOK'
  <2>1. \/ PutKey(n, leaseId[n], FALSE) \/ UNCHANGED store \/ Delete({KeyOf(n)})
    BY DEF RegisterFails, RestartGet, RestartPurge, etcd
  <2>2. UNCHANGED granted
    BY DEF RegisterFails, RestartGet, RestartPurge, etcd
  <2>3. CASE PutKey(n, leaseId[n], FALSE)
    BY <2>2, <2>3, PutType
  <2>4. CASE UNCHANGED store
    BY <2>2, <2>4, StoreStays DEF TypeOK
  <2>5. CASE Delete({KeyOf(n)})
    BY <2>2, <2>5, DeleteType
  <2> QED BY <2>1, <2>3, <2>4, <2>5
<1>2. CountersOK'
  BY CountersStay DEF TypeOK, RegisterFails, RestartGet, RestartPurge, etcd
<1>3. CASE Retry(n)
  <2>1. main[n] \in Registering
    BY DEF RegisterFails, RestartGet, RestartPurge, Registering
  <2>2. /\ troubled' \subseteq troubled \cup {n} /\ UNCHANGED <<ka, ident>>
        /\ granted' = granted
    BY DEF RegisterFails, RestartGet, RestartPurge, etcd
  <2> QED BY <1>1, <1>2, <1>3, <2>1, <2>2, RetryType, TypePartsNext
<1>4. CASE RestartGet(n) /\ ~Retry(n)
  <2>1. main[n] = "restart" /\ ka[n] = "none"
    BY <1>4 DEF TypeOK, RestartGet, Serving
  <2>2. /\ main' = [main EXCEPT ![n] = "purge"]
        /\ UNCHANGED <<leaseId, attempt, troubled, ka, ident, granted>>
    BY <1>4 DEF RestartGet, Goto, etcd
  <2>3. ProcessOK'
    BY <2>1, <2>2 DEF TypeOK, ProcessOK, MainLabels, KaLabels, ident
  <2> QED BY <1>1, <1>2, <2>3, TypePartsNext
<1> QED BY <1>3, <1>4 DEF RegisterFails, RestartPurge

LEMMA KeepAliveStep ==
  ASSUME TypeOK, NEW n \in Nodes, KeepAlive(n) \/ ChannelClosed(n)
  PROVE  TypeOK'
<1>1. CASE TtlExit(n)
  <2>1. ProcessOK'
    BY <1>1, DieType DEF TtlExit, etcd
  <2>2. StoreOK' /\ CountersOK'
    BY <1>1, StoreStays, CountersStay DEF TypeOK, TtlExit, etcd
  <2> QED BY <2>1, <2>2, TypePartsNext
<1>2. CASE TtlOk(n) \/ CtxSeen(n) \/ Revoke(n) \/ ChannelClosed(n)
  <2>1. /\ ka[n] # "none" /\ UNCHANGED <<granted, main, ident, trying>>
        /\ ka' \in {[ka EXCEPT ![n] = l] : l \in KaLabels}
    BY <1>2 DEF TtlOk, CtxSeen, Revoke, ChannelClosed, KaLabels, etcd
  <2>2. ProcessOK'
    BY <2>1 DEF TypeOK, ProcessOK, KaLabels, ident, trying
  <2>3. /\ UNCHANGED params /\ UNCHANGED <<idKey, granted>> /\ leases' \subseteq leases
        /\ UNCHANGED store \/ Delete(Bound(leaseId[n]))
    BY <1>2 DEF TtlOk, CtxSeen, Revoke, ChannelClosed, etcd
  <2>4. StoreOK' /\ CountersOK'
    BY <2>3, StoreStays, DeleteType, LeaseEnds DEF TypeOK
  <2> QED BY <2>2, <2>4, TypePartsNext
<1> QED BY <1>1, <1>2 DEF KeepAlive

LEMMA RefusedStep ==
  ASSUME TypeOK, NEW n \in Nodes, RegisterRefused(n)
  PROVE  TypeOK'
<1>1. main[n] = "txn" /\ ka[n] = "none"
  BY DEF TypeOK, RegisterRefused, Serving
<1>2. ProcessOK'
  BY <1>1 DEF TypeOK, ProcessOK, RegisterRefused, Goto, MainLabels, KaLabels, ident, trying,
              etcd
<1>3. StoreOK' /\ CountersOK'
  BY StoreStays, CountersStay DEF TypeOK, RegisterRefused, etcd
<1> QED BY <1>2, <1>3, TypePartsNext

LEMMA StopStep ==
  ASSUME TypeOK, NEW n \in Nodes,
         GoingStop(n) \/ GoingStopPut(n) \/ Stop(n) \/ StopReturns(n)
  PROVE  TypeOK'
<1>1. StoreOK'
  <2>1. UNCHANGED store \/ PutKey(n, leaseId[n], TRUE)
    BY DEF GoingStop, GoingStopPut, Stop, StopReturns, etcd
  <2>2. UNCHANGED granted
    BY DEF GoingStop, GoingStopPut, Stop, StopReturns, etcd
  <2>3. CASE UNCHANGED store
    BY <2>2, <2>3, StoreStays DEF TypeOK
  <2>4. CASE PutKey(n, leaseId[n], TRUE)
    BY <2>2, <2>4, PutType
  <2> QED BY <2>1, <2>3, <2>4
<1>2. CountersOK'
  BY CountersStay DEF TypeOK, GoingStop, GoingStopPut, Stop, StopReturns, etcd
<1>3. \E to \in Serving \cup {"stopping", "stopped"} : main' = [main EXCEPT ![n] = to]
  BY DEF GoingStop, GoingStopPut, Stop, StopReturns, Goto, Serving
<1>4. UNCHANGED <<ka, ident, trying, granted>>
  BY DEF GoingStop, GoingStopPut, Stop, StopReturns, etcd
<1>5. ProcessOK'
  BY <1>3, <1>4 DEF TypeOK, ProcessOK, MainLabels, KaLabels, Serving, Gone, ident, trying
<1> QED BY <1>1, <1>2, <1>5, TypePartsNext

LEMMA FaultStep ==
  ASSUME TypeOK, (\E n \in Nodes : Crash(n)) \/ (\E l \in leases : Expire(l))
  PROVE  TypeOK'
<1>1. ASSUME NEW n \in Nodes, Crash(n) PROVE TypeOK'
  <2>1. ProcessOK'
    BY <1>1, DieType DEF Crash, etcd
  <2>2. StoreOK' /\ CountersOK'
    BY <1>1, StoreStays, CountersStay DEF TypeOK, Crash, etcd
  <2> QED BY <2>1, <2>2, TypePartsNext
<1>2. ASSUME NEW l \in leases, Expire(l) PROVE TypeOK'
  <2>1. StoreOK' /\ CountersOK'
    BY <1>2, DeleteType, LeaseEnds DEF Expire
  <2>2. ProcessOK'
    BY <1>2 DEF TypeOK, ProcessOK, Expire, KaLabels, ident, trying
  <2> QED BY <2>1, <2>2, TypePartsNext
<1> QED BY <1>1, <1>2

LEMMA TypeStep == TypeOK /\ [Next]_vars => TypeOK'
<1> SUFFICES ASSUME TypeOK, [Next]_vars PROVE TypeOK'
  OBVIOUS
<1>1. ASSUME NEW n \in Nodes, CheckIDExist(n) \/ GetID(n) \/ CasID(n) PROVE TypeOK'
  BY <1>1, InitStep
<1>2. ASSUME NEW n \in Nodes, Register(n) PROVE TypeOK'
  BY <1>2, GrantStep, RegisteredStep, RefusedStep, RegisterFailsStep DEF Register
<1>3. ASSUME NEW n \in Nodes, ChannelClosed(n) \/ KeepAlive(n) PROVE TypeOK'
  BY <1>3, KeepAliveStep
<1>4. ASSUME NEW n \in Nodes, GoingStop(n) \/ GoingStopPut(n) \/ Stop(n) \/ StopReturns(n)
      PROVE  TypeOK'
  BY <1>4, StopStep
<1>5. ASSUME (\E n \in Nodes : Crash(n)) \/ (\E l \in leases : Expire(l)) PROVE TypeOK'
  BY <1>5, FaultStep
<1>6. CASE UNCHANGED vars
  BY <1>6 DEF TypeOK, vars, params, etcd, ident, trying
<1> QED BY <1>1, <1>2, <1>3, <1>4, <1>5, <1>6 DEF Next

\* Every variable holds values of its kind, no process makes more than Attempts attempts
\* to register, and only a registered process runs the keep-alive goroutine.
THEOREM TypeCorrect == Spec => []TypeOK
BY InitType, TypeStep, PTL DEF Spec

-----------------------------------------------------------------------------
(* Server IDs.  The counter is beyond every ID it has given out; a counter *)
(* that was read can only be stale, and a stale one is refused.            *)

HasID == Registering \cup {"stopping"} \cup Serving

IdInv ==
  /\ UniqueServerID
  /\ \A n \in Nodes : id[n] # 0 => id[n] < idKey
  /\ \A n \in Nodes : main[n] = "casId" => read[n] # 0
  /\ \A n \in Nodes : main[n] \in HasID => id[n] # 0

LEMMA InitID == Init => IdInv
BY DEF Init, IdInv, UniqueServerID, HasID, Registering, Serving

\* A step that gives out no ID keeps the invariant.
LEMMA IdFrame ==
  ASSUME TypeOK, IdInv, UNCHANGED id, idKey' \in Nat, idKey <= idKey',
         \A n \in Nodes : main'[n] = "casId" => read'[n] # 0,
         \A n \in Nodes : main'[n] \in HasID => main[n] \in HasID
  PROVE  IdInv'
<1>1. \A n \in Nodes : id'[n] # 0 => id'[n] < idKey'
  <2> SUFFICES ASSUME NEW n \in Nodes, id[n] # 0 PROVE id[n] < idKey'
    OBVIOUS
  <2>1. id[n] \in Nat /\ idKey \in Nat /\ id[n] < idKey
    BY DEF TypeOK, IdInv
  <2> QED BY <2>1, SMT
<1> QED BY <1>1 DEF IdInv, UniqueServerID

\* A step that leaves read, ident and idKey alone.
LEMMA IdStays ==
  ASSUME TypeOK, IdInv, UNCHANGED <<idKey, ident>>,
         \A n \in Nodes : main'[n] = main[n] \/ main'[n] # "casId",
         \A n \in Nodes : main'[n] \in HasID => main[n] \in HasID
  PROVE  IdInv'
<1>1. idKey' \in Nat /\ idKey <= idKey'
  BY SMT DEF TypeOK, ident
<1>2. \A n \in Nodes : main'[n] = "casId" => read'[n] # 0
  BY DEF IdInv, ident
<1> QED BY <1>1, <1>2, IdFrame DEF ident

LEMMA DieID ==
  ASSUME TypeOK, IdInv, NEW n \in Nodes, Die(n), idKey' \in Nat, idKey <= idKey'
  PROVE  IdInv'
<1>1. main'[n] = "dead" /\ \A m \in Nodes \ {n} : main'[m] = main[m]
  BY DEF TypeOK, Die, Goto
<1>2. \A m \in Nodes \ {n} : read'[m] = read[m]
  BY DEF TypeOK, Die
<1>3. \A m \in Nodes : main'[m] = "casId" => read'[m] # 0
  BY <1>1, <1>2 DEF IdInv
<1>4. \A m \in Nodes : main'[m] \in HasID => main[m] \in HasID
  BY <1>1 DEF HasID, Registering, Serving
<1> QED BY <1>3, <1>4, IdFrame DEF Die

LEMMA TakeIDStep ==
  ASSUME TypeOK, IdInv, NEW n \in Nodes, main[n] = "casId",
         idKey = read[n], idKey' = idKey + 1, TakeID(n)
  PROVE  IdInv'
<1>1. /\ id'[n] = idKey /\ \A m \in Nodes \ {n} : id'[m] = id[m]
      /\ main'[n] = "register" /\ \A m \in Nodes \ {n} : main'[m] = main[m]
      /\ \A m \in Nodes \ {n} : read'[m] = read[m]
  BY DEF TypeOK, TakeID, Goto
<1>2. \A m \in Nodes : id[m] \in Nat /\ (id[m] # 0 => id[m] < idKey)
  BY DEF TypeOK, IdInv
<1>3. idKey \in Nat /\ idKey # 0
  BY DEF TypeOK, IdInv
<1>4. \A m \in Nodes : id'[m] # 0 => id'[m] < idKey'
  BY <1>1, <1>2, <1>3, SMT
<1>5. \A m \in Nodes \ {n} : id'[m] # 0 => id'[m] # id'[n]
  BY <1>1, <1>2, <1>3, SMT
<1>6. UniqueServerID'
  BY <1>1, <1>5 DEF UniqueServerID, IdInv
<1>7. \A m \in Nodes : main'[m] = "casId" => read'[m] # 0
  BY <1>1 DEF IdInv
<1>8. \A m \in Nodes : main'[m] \in HasID => id'[m] # 0
  BY <1>1, <1>3 DEF IdInv
<1> QED BY <1>4, <1>6, <1>7, <1>8 DEF IdInv

LEMMA InitKeepsID ==
  ASSUME TypeOK, IdInv, NEW n \in Nodes, CheckIDExist(n) \/ GetID(n) \/ CasID(n)
  PROVE  IdInv'
<1>1. idKey' \in Nat /\ idKey <= idKey'
  BY SMT DEF TypeOK, CheckIDExist, GetID, CasID, etcd
<1>2. CASE Die(n)
  BY <1>1, <1>2, DieID
<1>3. CASE CheckIDExist(n)
  <2>1. main'[n] = "getId" /\ \A m \in Nodes \ {n} : main'[m] = main[m]
    BY <1>3 DEF TypeOK, CheckIDExist, Goto
  <2>2. \A m \in Nodes : main'[m] = "casId" => read'[m] # 0
    BY <1>3, <2>1 DEF IdInv, CheckIDExist, ident
  <2>3. \A m \in Nodes : main'[m] \in HasID => main[m] \in HasID
    BY <2>1 DEF HasID, Registering, Serving
  <2> QED BY <1>1, <1>3, <2>2, <2>3, IdFrame DEF CheckIDExist, ident
<1>4. CASE GetID(n) /\ ~Die(n)
  <2>1. main'[n] = "casId" /\ \A m \in Nodes \ {n} : main'[m] = main[m]
    BY <1>4 DEF TypeOK, GetID, Goto
  <2>2. read'[n] # 0 /\ \A m \in Nodes \ {n} : read'[m] = read[m]
    BY <1>4 DEF TypeOK, GetID
  <2>3. \A m \in Nodes : main'[m] = "casId" => read'[m] # 0
    BY <2>1, <2>2 DEF IdInv
  <2>4. \A m \in Nodes : main'[m] \in HasID => main[m] \in HasID
    BY <2>1 DEF HasID, Registering, Serving
  <2> QED BY <1>1, <1>4, <2>3, <2>4, IdFrame DEF GetID
<1>5. CASE CasID(n) /\ ~Die(n)
  <2>1. CASE idKey = read[n] /\ idKey' = idKey + 1 /\ TakeID(n)
    BY <1>5, <2>1, TakeIDStep DEF CasID
  <2>2. CASE /\ idKey # read[n] /\ Goto(n, "getId") /\ read' = [read EXCEPT ![n] = 0]
             /\ UNCHANGED <<idKey, ka, id, trying>>
    <3>1. main'[n] = "getId" /\ \A m \in Nodes \ {n} : main'[m] = main[m] /\ read'[m] = read[m]
      BY <2>2 DEF TypeOK, Goto
    <3>2. \A m \in Nodes : main'[m] = "casId" => read'[m] # 0
      BY <3>1 DEF IdInv
    <3>3. \A m \in Nodes : main'[m] \in HasID => main[m] \in HasID
      BY <3>1 DEF HasID, Registering, Serving
    <3> QED BY <1>1, <2>2, <3>2, <3>3, IdFrame
  <2> QED BY <1>5, <2>1, <2>2 DEF CasID
<1> QED BY <1>2, <1>3, <1>4, <1>5 DEF GetID, CasID

LEMMA LaterKeepsID ==
  ASSUME TypeOK, IdInv, NEW n \in Nodes,
         \/ Register(n) \/ ChannelClosed(n) \/ TtlOk(n) \/ CtxSeen(n) \/ Revoke(n)
         \/ GoingStop(n) \/ GoingStopPut(n) \/ Stop(n) \/ StopReturns(n)
  PROVE  IdInv'
<1>1. UNCHANGED <<idKey, ident>>
  BY DEF Register, Grant, Registered, RegisterRefused, RegisterFails, RestartGet, RestartPurge,
         ChannelClosed, TtlOk, CtxSeen, Revoke, GoingStop, GoingStopPut, Stop, StopReturns, etcd
<1>2. \/ main' = main
      \/ /\ main[n] \in HasID
         /\ \E to \in HasID \cup Gone : main' = [main EXCEPT ![n] = to]
  BY DEF Register, Grant, Registered, RegisterRefused, RegisterFails, RestartGet, RestartPurge,
         Retry, BeginServing, ChannelClosed, TtlOk, CtxSeen, Revoke, GoingStop, GoingStopPut,
         Stop, StopReturns, Goto, HasID, Registering, Serving, Gone
<1>3. \A m \in Nodes : main'[m] = main[m] \/ main'[m] # "casId"
  BY <1>2 DEF TypeOK, HasID, Registering, Serving, Gone
<1>4. \A m \in Nodes : main'[m] \in HasID => main[m] \in HasID
  BY <1>2 DEF TypeOK
<1> QED BY <1>1, <1>3, <1>4, IdStays

LEMMA IdStep == TypeOK /\ IdInv /\ [Next]_vars => IdInv'
<1> SUFFICES ASSUME TypeOK, IdInv, [Next]_vars PROVE IdInv'
  OBVIOUS
<1>1. ASSUME NEW n \in Nodes, CheckIDExist(n) \/ GetID(n) \/ CasID(n) PROVE IdInv'
  BY <1>1, InitKeepsID
<1>2. ASSUME NEW n \in Nodes, TtlExit(n) \/ Crash(n) PROVE IdInv'
  <2>1. Die(n) /\ idKey' \in Nat /\ idKey <= idKey'
    BY <1>2, SMT DEF TypeOK, TtlExit, Crash, etcd
  <2> QED BY <2>1, DieID
<1>3. ASSUME NEW n \in Nodes,
             \/ Register(n) \/ ChannelClosed(n) \/ TtlOk(n) \/ CtxSeen(n) \/ Revoke(n)
             \/ GoingStop(n) \/ GoingStopPut(n) \/ Stop(n) \/ StopReturns(n)
      PROVE  IdInv'
  BY <1>3, LaterKeepsID
<1>4. ASSUME NEW l \in leases, Expire(l) PROVE IdInv'
  BY <1>4, IdStays DEF Expire
<1>5. CASE UNCHANGED vars
  BY <1>5, IdStays DEF vars, etcd
<1> QED BY <1>1, <1>2, <1>3, <1>4, <1>5 DEF Next, KeepAlive

\* No two processes ever get the same server ID, although the counter is read and moved
\* on by separate calls, either of which may fail after it was applied.
THEOREM UniqueIDs == Spec => []UniqueServerID
<1>1. Init => TypeOK /\ IdInv
  BY InitType, InitID
<1>2. (TypeOK /\ IdInv) /\ [Next]_vars => (TypeOK /\ IdInv)'
  BY TypeStep, IdStep
<1>3. (TypeOK /\ IdInv) => UniqueServerID
  BY DEF IdInv
<1> QED BY <1>1, <1>2, <1>3, PTL DEF Spec

-----------------------------------------------------------------------------
(* Visibility.  Without Exclusive every process has a key of its own, so   *)
(* nobody else writes it, handleRestart of another process cannot delete   *)
(* it, and etcd deletes it only together with the lease it is bound to.    *)

Inv == TypeOK /\ IdInv /\ RegisteredIsVisible

\* Two processes have different keys once one of them has its server ID.
LEMMA KeysDiffer ==
  ASSUME TypeOK, IdInv, ~exclusive, NEW m \in Nodes, NEW n \in Nodes, m # n,
         main[m] \in HasID
  PROVE  KeyOf(m) # KeyOf(n)
<1>1. id[m] # 0 /\ (id[m] # 0 => id[m] # id[n])
  BY DEF IdInv, UniqueServerID
<1> QED BY <1>1 DEF KeyOf

\* What is needed of a step for one process that is leased after it.
Undisturbed(m) ==
  /\ main[m] \in Serving /\ leaseId[m] \in leases
  /\ UNCHANGED <<exclusive, id[m], leaseId[m]>>
  /\ Visible(m) => /\ KeyOf(m) \in DOMAIN store'
                   /\ store'[KeyOf(m)] = store[KeyOf(m)]

LEMMA StaysVisible ==
  ASSUME Inv, ~exclusive, NEW m \in Nodes, Undisturbed(m)
  PROVE  Visible(m)'
<1>1. Visible(m)
  BY DEF Inv, RegisteredIsVisible, Leased, Undisturbed
<1>2. KeyOf(m)' = KeyOf(m)
  BY DEF Undisturbed, KeyOf
<1>3. PICK stop \in BOOLEAN : store[KeyOf(m)] = Record(m, leaseId[m], stop)
  BY <1>1 DEF Visible
<1>4. store'[KeyOf(m)'] = Record(m, leaseId'[m], stop)
  BY <1>1, <1>2, <1>3 DEF Undisturbed, Record
<1>5. KeyOf(m)' \in DOMAIN store'
  BY <1>1, <1>2 DEF Undisturbed
<1> QED BY <1>4, <1>5 DEF Visible, Record

\* Steps that leave the store alone and put no process into service.
LEMMA QuietVisible ==
  ASSUME Inv, UNCHANGED <<params, store>>,
         \A m \in Nodes : main'[m] \in Serving =>
           main[m] \in Serving /\ id'[m] = id[m] /\ leaseId'[m] = leaseId[m],
         \A l \in 0..granted : l \in leases' => l \in leases
  PROVE  RegisteredIsVisible'
<1> SUFFICES ASSUME ~exclusive, NEW m \in Nodes, Leased(m)' PROVE Visible(m)'
  BY DEF RegisteredIsVisible, params
<1>1. main[m] \in Serving /\ id'[m] = id[m] /\ leaseId'[m] = leaseId[m]
  BY DEF Leased
<1>2. leaseId[m] \in leases
  BY <1>1 DEF Leased, Inv, TypeOK
<1>3. Undisturbed(m)
  BY <1>1, <1>2 DEF Undisturbed, params, Visible
<1> QED BY <1>3, StaysVisible

\* A process that writes its key disturbs nobody else, and is itself visible under
\* the lease it has written.
LEMMA PutVisible ==
  ASSUME Inv, UNCHANGED <<params, leases, id>>,
         NEW n \in Nodes, NEW stop \in BOOLEAN, PutKey(n, leaseId[n], stop),
         main[n] \in HasID, main'[n] \in Serving => leaseId'[n] = leaseId[n],
         \A m \in Nodes \ {n} : main'[m] = main[m] /\ leaseId'[m] = leaseId[m]
  PROVE  RegisteredIsVisible'
<1> SUFFICES ASSUME ~exclusive, NEW m \in Nodes, Leased(m)' PROVE Visible(m)'
  BY DEF RegisteredIsVisible, params
<1>1. /\ DOMAIN store' = DOMAIN store \cup {KeyOf(n)}
      /\ store'[KeyOf(n)] = Record(n, leaseId[n], stop)
      /\ \A k \in DOMAIN store : k # KeyOf(n) => store'[k] = store[k]
  BY DEF PutKey
<1>2. CASE m = n
  <2>1. leaseId'[n] = leaseId[n] /\ KeyOf(n)' = KeyOf(n)
    BY <1>2 DEF Leased, KeyOf, params
  <2> QED BY <1>1, <1>2, <2>1 DEF Visible, Record
<1>3. CASE m # n
  <2>1. KeyOf(m) # KeyOf(n)
    BY <1>3, KeysDiffer DEF Inv
  <2>2. main[m] \in Serving /\ leaseId[m] \in leases
    BY <1>3 DEF Leased
  <2>3. Undisturbed(m)
    BY <1>1, <2>1, <2>2 DEF Undisturbed, params, Visible
  <2> QED BY <2>3, StaysVisible
<1> QED BY <1>2, <1>3

\* etcd deletes the keys of a lease that has ended.
LEMMA LeaseEndsVisible ==
  ASSUME Inv, UNCHANGED <<params, main, id, leaseId>>, NEW l,
         leases' = leases \ {l}, Delete(Bound(l))
  PROVE  RegisteredIsVisible'
<1> SUFFICES ASSUME ~exclusive, NEW m \in Nodes, Leased(m)' PROVE Visible(m)'
  BY DEF RegisteredIsVisible, params
<1>1. main[m] \in Serving /\ leaseId[m] \in leases /\ leaseId[m] # l
  BY DEF Leased
<1>2. Visible(m) => KeyOf(m) \in DOMAIN store \ Bound(l)
  BY <1>1 DEF Visible, Bound, Record
<1>3. Undisturbed(m)
  BY <1>1, <1>2, Deletes DEF Undisturbed, params
<1> QED BY <1>3, StaysVisible

\* handleRestart deletes the key of the process that runs it.
LEMMA PurgeVisible ==
  ASSUME Inv, UNCHANGED <<params, leases, id>>, NEW n \in Nodes, Delete({KeyOf(n)}),
         main[n] \in HasID, main'[n] \notin Serving,
         \A m \in Nodes \ {n} : main'[m] = main[m] /\ leaseId'[m] = leaseId[m]
  PROVE  RegisteredIsVisible'
<1> SUFFICES ASSUME ~exclusive, NEW m \in Nodes, Leased(m)' PROVE Visible(m)'
  BY DEF RegisteredIsVisible, params
<1>1. m # n /\ main[m] \in Serving /\ leaseId[m] \in leases
  BY DEF Leased
<1>2. KeyOf(m) # KeyOf(n)
  BY <1>1, KeysDiffer DEF Inv
<1>3. Visible(m) => KeyOf(m) \in DOMAIN store \ {KeyOf(n)}
  BY <1>2 DEF Visible
<1>4. /\ DOMAIN store' = DOMAIN store \ {KeyOf(n)}
      /\ \A k \in DOMAIN store \ {KeyOf(n)} : store'[k] = store[k]
  BY Deletes
<1>5. leaseId'[m] = leaseId[m]
  BY <1>1
<1>6. Undisturbed(m)
  BY <1>1, <1>3, <1>4, <1>5 DEF Undisturbed, params
<1> QED BY <1>6, StaysVisible

LEMMA RegisterVisible ==
  ASSUME Inv, NEW n \in Nodes, Register(n)
  PROVE  RegisteredIsVisible'
<1> USE DEF Inv
<1>1. UNCHANGED params /\ UNCHANGED id
  BY DEF Register, Grant, Registered, RegisterRefused, RegisterFails, RestartGet,
         RestartPurge, ident
<1>2. main[n] \in HasID /\ main[n] \notin Serving
  BY DEF Register, Grant, Registered, RegisterRefused, RegisterFails, RestartGet,
         RestartPurge, HasID, Registering, Serving
<1>3. \A m \in Nodes \ {n} : main'[m] = main[m] /\ leaseId'[m] = leaseId[m]
  BY DEF TypeOK, Register, Grant, Registered, RegisterRefused, RegisterFails, RestartGet,
         RestartPurge, Retry, BeginServing, Goto, trying
<1>4. CASE Registered(n)
  <2>1. UNCHANGED leaseId /\ UNCHANGED leases /\ PutKey(n, leaseId[n], FALSE)
    BY <1>4 DEF Registered, BeginServing
  <2> QED BY <1>1, <1>2, <1>3, <2>1, PutVisible
<1>5. CASE ~Registered(n)
  <2>1. main'[n] \notin Serving
    BY <1>5 DEF TypeOK, Register, Grant, RegisterRefused, RegisterFails, RestartGet,
                RestartPurge, Retry, Goto, Serving
  <2>2. CASE UNCHANGED store
    <3>1. \A l \in 0..granted : l \in leases' => l \in leases
      <4>1. granted + 1 \notin 0..granted
        BY SMT DEF TypeOK
      <4> QED BY <1>5, <4>1 DEF Register, Grant, RegisterRefused, RegisterFails, RestartGet,
                                RestartPurge, etcd
    <3> QED BY <1>1, <1>3, <2>1, <2>2, <3>1, QuietVisible
  <2>3. CASE RestartPurge(n) /\ Delete({KeyOf(n)})
    BY <1>1, <1>2, <1>3, <2>1, <2>3, PurgeVisible DEF RestartPurge
  <2>4. CASE RegisterFails(n) /\ PutKey(n, leaseId[n], FALSE)
    BY <1>1, <1>2, <1>3, <2>1, <2>4, PutVisible DEF RegisterFails
  <2> QED BY <1>5, <2>2, <2>3, <2>4 DEF Register, Grant, RegisterRefused, RegisterFails,
                                        RestartGet, RestartPurge, etcd
<1> QED BY <1>4, <1>5

LEMMA ServingVisible ==
  ASSUME Inv, NEW n \in Nodes,
         GoingStop(n) \/ GoingStopPut(n) \/ Stop(n) \/ StopReturns(n)
  PROVE  RegisteredIsVisible'
<1> USE DEF Inv
<1>1. /\ UNCHANGED params /\ UNCHANGED <<leases, id, leaseId>>
      /\ \A m \in Nodes \ {n} : main'[m] = main[m]
      /\ main'[n] \in Serving => main[n] \in Serving
  BY DEF TypeOK, GoingStop, GoingStopPut, Stop, StopReturns, Goto, Serving, etcd, ident, trying
<1>2. CASE UNCHANGED store
  BY <1>1, <1>2, QuietVisible
<1>3. CASE GoingStopPut(n) /\ PutKey(n, leaseId[n], TRUE)
  <2>1. main[n] \in HasID
    BY <1>3 DEF GoingStopPut, HasID, Serving
  <2> QED BY <1>1, <1>3, <2>1, PutVisible
<1> QED BY <1>2, <1>3 DEF GoingStop, GoingStopPut, Stop, StopReturns, etcd

LEMMA VisibleStep == Inv /\ [Next]_vars => RegisteredIsVisible'
<1> SUFFICES ASSUME Inv, [Next]_vars PROVE RegisteredIsVisible'
  OBVIOUS
<1> USE DEF Inv
<1>1. ASSUME NEW n \in Nodes,
             CheckIDExist(n) \/ GetID(n) \/ CasID(n) \/ TtlExit(n) \/ Crash(n)
      PROVE  RegisteredIsVisible'
  <2>1. UNCHANGED <<params, store>> /\ UNCHANGED leases
    BY <1>1 DEF CheckIDExist, GetID, CasID, TtlExit, Crash, etcd
  <2>2. /\ \A m \in Nodes \ {n} : /\ main'[m] = main[m] /\ id'[m] = id[m]
                                  /\ leaseId'[m] = leaseId[m]
        /\ main'[n] \notin Serving
    BY <1>1 DEF TypeOK, CheckIDExist, GetID, CasID, TakeID, TtlExit, Crash, Die, Goto,
                Serving, ident, trying
  <2> QED BY <2>1, <2>2, QuietVisible
<1>2. ASSUME NEW n \in Nodes, Register(n) PROVE RegisteredIsVisible'
  BY <1>2, RegisterVisible
<1>3. ASSUME NEW n \in Nodes, TtlOk(n) \/ CtxSeen(n) \/ ChannelClosed(n) \/ Revoke(n)
      PROVE  RegisteredIsVisible'
  <2>1. UNCHANGED <<params, main, id, leaseId>>
    BY <1>3 DEF TtlOk, CtxSeen, ChannelClosed, Revoke, ident, trying
  <2>2. CASE UNCHANGED <<store, leases>>
    BY <2>1, <2>2, QuietVisible
  <2>3. CASE leases' = leases \ {leaseId[n]} /\ Delete(Bound(leaseId[n]))
    BY <2>1, <2>3, LeaseEndsVisible
  <2> QED BY <1>3, <2>2, <2>3 DEF TtlOk, CtxSeen, ChannelClosed, Revoke, etcd
<1>4. ASSUME NEW n \in Nodes, GoingStop(n) \/ GoingStopPut(n) \/ Stop(n) \/ StopReturns(n)
      PROVE  RegisteredIsVisible'
  BY <1>4, ServingVisible
<1>5. ASSUME NEW l \in leases, Expire(l) PROVE RegisteredIsVisible'
  BY <1>5, LeaseEndsVisible DEF Expire, ident, trying
<1>6. CASE UNCHANGED vars
  BY <1>6, QuietVisible DEF vars, etcd, ident, trying
<1> QED BY <1>1, <1>2, <1>3, <1>4, <1>5, <1>6 DEF Next, KeepAlive

\* A process of a service that is not exclusive is discoverable from the moment Register
\* returns until its lease ends: its key holds its record, bound to its current lease.
THEOREM ServingIsVisible == Spec => []RegisteredIsVisible
<1>1. Init => Inv
  <2>1. Init => RegisteredIsVisible
    BY DEF Init, RegisteredIsVisible, Leased, Serving
  <2> QED BY <2>1, InitType, InitID DEF Inv
<1>2. Inv /\ [Next]_vars => Inv'
  BY TypeStep, IdStep, VisibleStep DEF Inv
<1>3. Inv => RegisteredIsVisible
  BY DEF Inv
<1> QED BY <1>1, <1>2, <1>3, PTL DEF Spec

-----------------------------------------------------------------------------
(* Restarts.  A restarted process meets the record of its predecessor, which *)
(* is dead: nobody with that address can write it again, the predecessor has *)
(* the smaller ID, so the first attempt purges the key and the second one    *)
(* finds it absent, unless a call fails or another address comes between.    *)

Alive(n) == main[n] \notin Gone \cup {"new"}

OneAlive ==
  \A m, n \in Nodes : (m # n /\ address[m] = address[n]) => ~(Alive(m) /\ Alive(n))

Beginning == {"new", "getId", "casId"}

Unnumbered == \A n \in Nodes : main[n] \in Beginning => id[n] = 0

NoAttempt == \A n \in Nodes : main[n] \notin Registering => attempt[n] = 0

\* A record lies under the key of its writer, which has its server ID.
Owned == \A k \in DOMAIN store : k = KeyOf(store[k].node) /\ id[store[k].node] # 0

Unwritten ==
  \A n \in Nodes \ troubled :
    main[n] \in Registering => \A k \in DOMAIN store : store[k].node # n

Newest ==
  \A m, n \in Nodes :
    (m # n /\ address[m] = address[n] /\ main[n] \in Registering) => id[m] < id[n]

\* A process with another address has registered, or may have, under the one key.
Rivalled(n) == exclusive /\ \E m \in Nodes : address[m] # address[n] /\ id[m] # 0

StraightAt(n) ==
  (Attempts > 1 /\ n \notin troubled /\ ~Rivalled(n)) =>
    /\ main[n] \in {"restart", "purge"} => exclusive /\ attempt[n] = 0
    /\ (main[n] \in {"register", "txn"} /\ attempt[n] # 0) => KeyAbsent(n)
    /\ main[n] # "gaveUp"

Straight == \A n \in Nodes : StraightAt(n)

RecordsInv == Owned /\ Unwritten /\ Newest /\ OneAlive /\ Unnumbered

TakeOverInv == TypeOK /\ IdInv /\ RecordsInv /\ NoAttempt /\ Straight

\* Keys and records may only disappear.
StoreShrinks == \A k \in DOMAIN store' : k \in DOMAIN store /\ store'[k] = store[k]

\* What most steps of a process do to the labels.
LabelsAdvance ==
  \A m \in Nodes : /\ Alive(m)' => Alive(m)
                   /\ main'[m] \in Registering => main[m] \in Registering
                   /\ main'[m] \in Beginning => main[m] \in Beginning

\* A step that gives out no ID and writes no key.
LEMMA RecordsStay ==
  ASSUME TypeOK, RecordsInv, UNCHANGED params, UNCHANGED id, StoreShrinks, LabelsAdvance,
         \A m \in Nodes \ troubled' : main'[m] \in Registering => m \notin troubled
  PROVE  RecordsInv'
<1> USE DEF RecordsInv, params
<1>1. \A k \in DOMAIN store : store[k].node \in Nodes
  BY DEF TypeOK
<1>2. Owned'
  BY <1>1 DEF Owned, StoreShrinks, KeyOf
<1>3. Unwritten'
  BY DEF Unwritten, StoreShrinks, LabelsAdvance
<1>4. Newest'
  BY DEF Newest, LabelsAdvance
<1>5. OneAlive'
  BY DEF OneAlive, LabelsAdvance
<1>6. Unnumbered'
  BY DEF Unnumbered, LabelsAdvance
<1> QED BY <1>2, <1>3, <1>4, <1>5, <1>6

\* A process with its server ID writes its own key.
LEMMA RecordsPut ==
  ASSUME TypeOK, IdInv, RecordsInv, UNCHANGED params, UNCHANGED id, LabelsAdvance,
         NEW n \in Nodes, NEW stop \in BOOLEAN, PutKey(n, leaseId[n], stop), main[n] \in HasID,
         main'[n] \in Registering => n \in troubled',
         \A m \in Nodes \ {n} : m \in troubled => m \in troubled'
  PROVE  RecordsInv'
<1> USE DEF RecordsInv, params
<1>1. /\ DOMAIN store' = DOMAIN store \cup {KeyOf(n)}
      /\ store'[KeyOf(n)].node = n
      /\ \A k \in DOMAIN store : k # KeyOf(n) => store'[k] = store[k]
  BY DEF PutKey, Record
<1>2. \A k \in DOMAIN store : store[k].node \in Nodes
  BY DEF TypeOK
<1>3. Owned'
  <2>1. id[n] # 0
    BY DEF IdInv
  <2> QED BY <1>1, <1>2, <2>1 DEF Owned, KeyOf
<1>4. Unwritten'
  BY <1>1 DEF Unwritten, LabelsAdvance
<1>5. Newest'
  BY DEF Newest, LabelsAdvance
<1>6. OneAlive'
  BY DEF OneAlive, LabelsAdvance
<1>7. Unnumbered'
  BY DEF Unnumbered, LabelsAdvance
<1> QED BY <1>3, <1>4, <1>5, <1>6, <1>7

\* What another process, or etcd, does to a process that does not move.
LEMMA Bystander ==
  ASSUME TypeOK, UNCHANGED params, NEW m \in Nodes, StraightAt(m),
         \A p \in Nodes : id[p] # 0 => id'[p] # 0,
         id'[m] = id[m], main'[m] = main[m], attempt'[m] = attempt[m],
         m \in troubled => m \in troubled',
         \/ Rivalled(m) \/ main[m] \notin Registering
         \/ DOMAIN store' \cap {KeyOf(m)} \subseteq DOMAIN store
  PROVE  StraightAt(m)'
<1>1. Rivalled(m) => Rivalled(m)'
  BY DEF Rivalled, params
<1>2. KeyOf(m)' = KeyOf(m)
  BY DEF KeyOf, params
<1> QED BY <1>1, <1>2 DEF StraightAt, KeyAbsent, Registering, params

\* A process that writes its key while another is registering is its rival.
LEMMA WriterIsRival ==
  ASSUME TypeOK, IdInv, RecordsInv, NEW m \in Nodes, NEW n \in Nodes, m # n,
         main[n] \in HasID, main[m] \in Registering, exclusive
  PROVE  Rivalled(m)
<1>1. Alive(m) /\ Alive(n)
  BY DEF Alive, HasID, Registering, Serving, Gone
<1>2. address[n] # address[m]
  BY <1>1 DEF RecordsInv, OneAlive
<1>3. id[n] # 0
  BY DEF IdInv
<1> QED BY <1>2, <1>3 DEF Rivalled

\* A step of n writes no key, or only its own: the others keep to the straight path.
LEMMA OthersStraight ==
  ASSUME TypeOK, IdInv, RecordsInv, Straight, UNCHANGED params, UNCHANGED id, NEW n \in Nodes,
         \A m \in Nodes \ {n} : /\ main'[m] = main[m] /\ attempt'[m] = attempt[m]
                                /\ m \in troubled => m \in troubled',
         \/ DOMAIN store' \subseteq DOMAIN store
         \/ main[n] \in HasID /\ DOMAIN store' = DOMAIN store \cup {KeyOf(n)}
  PROVE  \A m \in Nodes \ {n} : StraightAt(m)'
<1> SUFFICES ASSUME NEW m \in Nodes, m # n PROVE StraightAt(m)'
  OBVIOUS
<1>1. \/ Rivalled(m) \/ main[m] \notin Registering
      \/ DOMAIN store' \cap {KeyOf(m)} \subseteq DOMAIN store
  <2>1. CASE DOMAIN store' \subseteq DOMAIN store
    BY <2>1
  <2>2. CASE /\ main[n] \in HasID /\ DOMAIN store' = DOMAIN store \cup {KeyOf(n)}
             /\ main[m] \in Registering
    <3>1. CASE exclusive
      BY <2>2, <3>1, WriterIsRival
    <3>2. CASE ~exclusive
      <4>1. KeyOf(n) # KeyOf(m)
        BY <2>2, <3>2, KeysDiffer
      <4> QED BY <2>2, <4>1
    <3> QED BY <3>1, <3>2
  <2> QED BY <2>1, <2>2
<1> QED BY <1>1, Bystander DEF Straight

\* Where a record is in the way of a process that has met no failure, its writer is
\* another process, of an exclusive service; without a rival it is an older one with
\* the same address.
LEMMA InTheWay ==
  ASSUME TypeOK, IdInv, RecordsInv, NEW n \in Nodes, n \notin troubled,
         main[n] \in Registering, ~KeyAbsent(n)
  PROVE  /\ exclusive /\ KeyOf(n) \in DOMAIN store
         /\ ~Rivalled(n) => /\ address[store[KeyOf(n)].node] = address[n]
                            /\ id[store[KeyOf(n)].node] < id[n]
<1> DEFINE m == store[KeyOf(n)].node
<1>1. KeyOf(n) \in DOMAIN store
  BY DEF KeyAbsent
<1>2. m \in Nodes /\ m # n /\ KeyOf(m) = KeyOf(n) /\ id[m] # 0
  BY <1>1 DEF TypeOK, RecordsInv, Owned, Unwritten
<1>3. exclusive
  <2>1. main[n] \in HasID
    BY DEF HasID
  <2> QED BY <1>2, <2>1, KeysDiffer
<1>4. ~Rivalled(n) => address[m] = address[n]
  BY <1>2, <1>3 DEF Rivalled
<1>5. address[m] = address[n] => id[m] < id[n]
  BY <1>2 DEF RecordsInv, Newest
<1> QED BY <1>1, <1>3, <1>4, <1>5

LEMMA InitTakeOver == Init => RecordsInv /\ NoAttempt /\ Straight
BY DEF Init, RecordsInv, Owned, Unwritten, Newest, OneAlive, Unnumbered, NoAttempt, Straight,
       StraightAt, Alive, Registering, Gone

\* What is left to show of a step of n once the records are known to be in order.
LEMMA OwnStep ==
  ASSUME TakeOverInv, UNCHANGED params, UNCHANGED id, NEW n \in Nodes, RecordsInv',
         \A m \in Nodes \ {n} : /\ main'[m] = main[m] /\ attempt'[m] = attempt[m]
                                /\ m \in troubled => m \in troubled',
         \/ DOMAIN store' \subseteq DOMAIN store
         \/ main[n] \in HasID /\ DOMAIN store' = DOMAIN store \cup {KeyOf(n)},
         main'[n] \notin Registering => attempt'[n] = 0,
         StraightAt(n)'
  PROVE  RecordsInv' /\ NoAttempt' /\ Straight'
<1> USE DEF TakeOverInv
<1>1. \A m \in Nodes \ {n} : StraightAt(m)'
  BY OthersStraight
<1>2. Straight'
  BY <1>1 DEF Straight
<1>3. NoAttempt'
  BY DEF NoAttempt
<1> QED BY <1>2, <1>3

\* Where no attempt is being made a process is on the straight path, unless Register
\* has just given up.
LEMMA StraightOutside ==
  ASSUME NEW n \in Nodes, main'[n] \notin Registering \cup {"gaveUp"}
  PROVE  StraightAt(n)'
BY DEF StraightAt, Registering

LEMMA DieTakesOver ==
  ASSUME TakeOverInv, UNCHANGED params, UNCHANGED store, NEW n \in Nodes, Die(n)
  PROVE  RecordsInv' /\ NoAttempt' /\ Straight'
<1> USE DEF TakeOverInv
<1>1. main'[n] = "dead" /\ attempt'[n] = 0 /\ UNCHANGED id /\ troubled' = troubled \ {n}
  BY DEF TypeOK, Die, Goto
<1>2. \A m \in Nodes \ {n} : main'[m] = main[m] /\ attempt'[m] = attempt[m]
  BY DEF TypeOK, Die, Goto
<1>3. LabelsAdvance
  BY <1>1, <1>2 DEF LabelsAdvance, Alive, Gone, Registering, Beginning
<1>4. main'[n] \notin Registering \cup {"gaveUp"}
  BY <1>1 DEF Registering
<1>5. RecordsInv'
  BY <1>1, <1>3, <1>4, RecordsStay DEF StoreShrinks
<1>6. StraightAt(n)'
  BY <1>4, StraightOutside
<1> QED BY <1>1, <1>2, <1>4, <1>5, <1>6, OwnStep

\* checkIDExist: AddressFree is what keeps two processes from one address.
LEMMA CheckTakesOver ==
  ASSUME TakeOverInv, NEW n \in Nodes, CheckIDExist(n)
  PROVE  RecordsInv' /\ NoAttempt' /\ Straight'
<1> USE DEF TakeOverInv
<1>1. /\ UNCHANGED params /\ UNCHANGED id /\ UNCHANGED store /\ UNCHANGED attempt
      /\ UNCHANGED troubled /\ main[n] = "new" /\ main'[n] = "getId"
      /\ \A m \in Nodes \ {n} : main'[m] = main[m]
  BY DEF TypeOK, CheckIDExist, Goto, ident, trying
<1>2. main'[n] \notin Registering \cup {"gaveUp"} /\ main[n] \notin Registering
  BY <1>1 DEF Registering
<1>3. Owned' /\ Unwritten' /\ Newest'
  BY <1>1, <1>2 DEF RecordsInv, Owned, Unwritten, Newest, KeyOf, params
<1>4. Unnumbered'
  BY <1>1 DEF RecordsInv, Unnumbered, Beginning
<1>5. OneAlive'
  BY <1>1 DEF RecordsInv, OneAlive, Alive, CheckIDExist, AddressFree, params
<1>6. RecordsInv'
  BY <1>3, <1>4, <1>5 DEF RecordsInv
<1>7. StraightAt(n)'
  BY <1>2, StraightOutside
<1>8. attempt'[n] = 0
  BY <1>1, <1>2 DEF NoAttempt
<1> QED BY <1>1, <1>6, <1>7, <1>8, OwnStep

\* getServerIDWithKey: the new ID is beyond every other.
LEMMA TakeIDTakesOver ==
  ASSUME TakeOverInv, NEW n \in Nodes, main[n] = "casId", idKey = read[n], TakeID(n),
         UNCHANGED params, UNCHANGED store
  PROVE  RecordsInv' /\ NoAttempt' /\ Straight'
<1> USE DEF TakeOverInv
<1>1. /\ UNCHANGED attempt /\ UNCHANGED troubled /\ main'[n] = "register"
      /\ id'[n] = idKey /\ \A m \in Nodes \ {n} : main'[m] = main[m] /\ id'[m] = id[m]
  BY DEF TypeOK, TakeID, Goto, trying
<1>2. id[n] = 0 /\ idKey # 0 /\ attempt[n] = 0
  BY DEF RecordsInv, Unnumbered, Beginning, IdInv, NoAttempt, Registering
<1>3. \A k \in DOMAIN store : store[k].node # n /\ store[k].node \in Nodes
  BY <1>2 DEF TypeOK, RecordsInv, Owned
<1>4. Owned'
  BY <1>1, <1>3 DEF RecordsInv, Owned, KeyOf, params
<1>5. Unwritten'
  BY <1>1, <1>3 DEF RecordsInv, Unwritten
<1>6. \A m \in Nodes \ {n} : address[m] = address[n] => ~Alive(m)
  BY DEF RecordsInv, OneAlive, Alive, Gone
<1>7. Newest'
  <2> SUFFICES ASSUME NEW l \in Nodes, NEW m \in Nodes, l # m, address[l] = address[m],
                      main'[m] \in Registering
               PROVE  id'[l] < id'[m]
    BY DEF Newest, params
  <2>1. CASE m = n
    <3>1. id'[l] = id[l] /\ id'[m] = idKey /\ id[l] \in Nat /\ idKey \in Nat
      BY <1>1, <2>1 DEF TypeOK
    <3>2. id[l] # 0 => id[l] < idKey
      BY DEF IdInv
    <3> QED BY <1>2, <3>1, <3>2, SMT
  <2>2. CASE m # n
    <3>1. main[m] \in Registering
      BY <1>1, <2>2
    <3>2. Alive(m)
      BY <3>1 DEF Alive, Registering, Gone
    <3>3. l # n
      BY <1>6, <2>2, <3>2
    <3> QED BY <1>1, <2>2, <3>1, <3>3 DEF RecordsInv, Newest
  <2> QED BY <2>1, <2>2
<1>8. OneAlive'
  BY <1>1 DEF RecordsInv, OneAlive, Alive, Gone, params
<1>9. Unnumbered'
  BY <1>1 DEF RecordsInv, Unnumbered, Beginning
<1>10. RecordsInv'
  BY <1>4, <1>5, <1>7, <1>8, <1>9 DEF RecordsInv
<1>11. NoAttempt'
  BY <1>1 DEF NoAttempt, Registering
<1>12. StraightAt(n)'
  BY <1>1, <1>2 DEF StraightAt
<1>13. \A m \in Nodes \ {n} : StraightAt(m)'
  <2>1. \A p \in Nodes : id[p] # 0 => id'[p] # 0
    BY <1>1, <1>2
  <2> QED BY <1>1, <2>1, Bystander DEF Straight
<1> QED BY <1>10, <1>11, <1>12, <1>13 DEF Straight

\* An attempt that has failed although no call did: nobody was in the way any more, or
\* the key has just been purged.
LEMMA RetryTakesOver ==
  ASSUME TakeOverInv, NEW n \in Nodes, Retry(n), main[n] \in Registering,
         UNCHANGED params, UNCHANGED id, RecordsInv',
         troubled' \in {troubled, troubled \cup {n}},
         \/ DOMAIN store' \subseteq DOMAIN store
         \/ main[n] \in HasID /\ DOMAIN store' = DOMAIN store \cup {KeyOf(n)},
         n \in troubled' \/ Rivalled(n) \/ (main[n] \in {"restart", "purge"} /\ KeyAbsent(n)')
  PROVE  RecordsInv' /\ NoAttempt' /\ Straight'
<1> USE DEF TakeOverInv
<1>1. \A m \in Nodes \ {n} : main'[m] = main[m] /\ attempt'[m] = attempt[m]
  BY DEF TypeOK, Retry, Goto
<1>2. \/ main'[n] = "gaveUp" /\ attempt'[n] = 0 /\ attempt[n] + 1 = Attempts
      \/ main'[n] = "register"
  BY DEF TypeOK, Retry, Goto
<1>3. StraightAt(n)'
  <2> SUFFICES ASSUME Attempts > 1, n \notin troubled', ~Rivalled(n)'
               PROVE  main'[n] = "register" /\ KeyAbsent(n)'
    BY DEF StraightAt
  <2>1. ~Rivalled(n) /\ n \notin troubled
    BY DEF Rivalled, params
  <2>2. attempt[n] = 0
    BY <2>1 DEF Straight, StraightAt
  <2>3. attempt[n] + 1 # Attempts
    BY <2>2, SMT
  <2> QED BY <1>2, <2>1, <2>3
<1>4. main'[n] \notin Registering => attempt'[n] = 0
  BY <1>2 DEF Registering
<1> QED BY <1>1, <1>3, <1>4, OwnStep

\* Steps that leave etcd's records and the attempts alone.
LEMMA MoveTakesOver ==
  ASSUME TakeOverInv, NEW n \in Nodes,
         UNCHANGED params, UNCHANGED <<store, id, attempt, troubled>>,
         \A m \in Nodes \ {n} : main'[m] = main[m], LabelsAdvance,
         \/ main'[n] = main[n]
         \/ main[n] \notin Registering /\ main'[n] \notin Registering \cup {"gaveUp"}
         \/ main[n] = "register" /\ main'[n] = "txn"
  PROVE  RecordsInv' /\ NoAttempt' /\ Straight'
<1> USE DEF TakeOverInv
<1>1. RecordsInv'
  BY RecordsStay DEF StoreShrinks, LabelsAdvance
<1>2. StraightAt(n)'
  <2>1. CASE main'[n] \notin Registering \cup {"gaveUp"}
    BY <2>1, StraightOutside
  <2>2. CASE main'[n] = main[n] \/ (main[n] = "register" /\ main'[n] = "txn")
    BY <2>2 DEF Straight, StraightAt, Rivalled, KeyAbsent, KeyOf, params
  <2> QED BY <2>1, <2>2
<1>3. main'[n] \notin Registering => attempt'[n] = 0
  BY DEF NoAttempt, Registering
<1> QED BY <1>1, <1>2, <1>3, OwnStep

LEMMA InitStepTakesOver ==
  ASSUME TakeOverInv, NEW n \in Nodes, CheckIDExist(n) \/ GetID(n) \/ CasID(n)
  PROVE  RecordsInv' /\ NoAttempt' /\ Straight'
<1>1. CASE CheckIDExist(n)
  BY <1>1, CheckTakesOver
<1>2. CASE (GetID(n) \/ CasID(n)) /\ Die(n)
  BY <1>2, DieTakesOver DEF GetID, CasID, etcd
<1>3. CASE CasID(n) /\ idKey = read[n] /\ TakeID(n)
  BY <1>3, TakeIDTakesOver DEF CasID
<1>4. CASE /\ ~Die(n) /\ \/ GetID(n)
                         \/ CasID(n) /\ idKey # read[n]
  <2>1. /\ UNCHANGED params /\ UNCHANGED <<store, id, attempt, troubled>>
        /\ \/ main[n] = "getId" /\ main' = [main EXCEPT ![n] = "casId"]
           \/ main[n] = "casId" /\ main' = [main EXCEPT ![n] = "getId"]
    BY <1>4 DEF GetID, CasID, Goto, etcd, trying
  <2>2. /\ \A m \in Nodes \ {n} : main'[m] = main[m]
        /\ main'[n] \in {"casId", "getId"} /\ main[n] \in {"casId", "getId"}
    BY <2>1 DEF TakeOverInv, TypeOK
  <2>3. LabelsAdvance
    BY <2>2 DEF LabelsAdvance, Alive, Gone, Registering, Beginning
  <2>4. main[n] \notin Registering /\ main'[n] \notin Registering \cup {"gaveUp"}
    BY <2>2 DEF Registering
  <2> QED BY <2>1, <2>2, <2>3, <2>4, MoveTakesOver
<1> QED BY <1>1, <1>2, <1>3, <1>4 DEF GetID, CasID

\* The labels after a step of Register.
LEMMA RegisterLabels ==
  ASSUME TypeOK, NEW n \in Nodes, main[n] \in Registering,
         \A m \in Nodes \ {n} : main'[m] = main[m],
         main'[n] \in Registering \cup {"gaveUp", "running"}
  PROVE  LabelsAdvance
BY DEF LabelsAdvance, Alive, Gone, Registering, Beginning

LEMMA RetryLabels ==
  ASSUME TypeOK, NEW n \in Nodes, main[n] \in Registering, Retry(n)
  PROVE  LabelsAdvance
<1>1. \A m \in Nodes \ {n} : main'[m] = main[m]
  BY DEF TypeOK, Retry, Goto
<1>2. main'[n] \in Registering \cup {"gaveUp", "running"}
  BY DEF TypeOK, Retry, Goto, Registering
<1> QED BY <1>1, <1>2, RegisterLabels

LEMMA GrantTakesOver ==
  ASSUME TakeOverInv, NEW n \in Nodes, Grant(n)
  PROVE  RecordsInv' /\ NoAttempt' /\ Straight'
<1> USE DEF TakeOverInv
<1>1. /\ UNCHANGED params /\ UNCHANGED id /\ UNCHANGED store
      /\ main[n] = "register" /\ main[n] \in Registering
  BY DEF Grant, ident, Registering
<1>2. CASE Goto(n, "txn") /\ UNCHANGED <<attempt, troubled>>
  <2>1. main'[n] = "txn" /\ \A m \in Nodes \ {n} : main'[m] = main[m]
    BY <1>2 DEF TypeOK, Goto
  <2>2. LabelsAdvance
    BY <1>1, <2>1, RegisterLabels DEF Registering
  <2> QED BY <1>1, <1>2, <2>1, <2>2, MoveTakesOver
<1>3. CASE Retry(n) /\ troubled' = troubled \cup {n}
  <2>1. RecordsInv'
    BY <1>1, <1>3, RetryLabels, RecordsStay DEF StoreShrinks, LabelsAdvance
  <2> QED BY <1>1, <1>3, <2>1, RetryTakesOver
<1> QED BY <1>2, <1>3 DEF Grant

LEMMA RegisteredTakesOver ==
  ASSUME TakeOverInv, NEW n \in Nodes, Registered(n)
  PROVE  RecordsInv' /\ NoAttempt' /\ Straight'
<1> USE DEF TakeOverInv
<1>1. /\ UNCHANGED params /\ UNCHANGED id /\ PutKey(n, leaseId[n], FALSE)
      /\ main[n] \in Registering /\ main[n] \in HasID
      /\ main'[n] = "running" /\ attempt'[n] = 0 /\ troubled' = troubled \ {n}
      /\ \A m \in Nodes \ {n} : main'[m] = main[m] /\ attempt'[m] = attempt[m]
  BY DEF TypeOK, Registered, BeginServing, Goto, ident, Registering, HasID
<1>2. LabelsAdvance
  BY <1>1, RegisterLabels
<1>3. main'[n] \notin Registering \cup {"gaveUp"}
  BY <1>1 DEF Registering
<1>4. RecordsInv'
  BY <1>1, <1>2, <1>3, RecordsPut
<1>5. StraightAt(n)'
  BY <1>3, StraightOutside
<1>6. DOMAIN store' = DOMAIN store \cup {KeyOf(n)}
  BY <1>1 DEF PutKey
<1> QED BY <1>1, <1>4, <1>5, <1>6, OwnStep

\* A refused attempt of a process without rival is its first one.
LEMMA RefusedTakesOver ==
  ASSUME TakeOverInv, NEW n \in Nodes, RegisterRefused(n)
  PROVE  RecordsInv' /\ NoAttempt' /\ Straight'
<1> USE DEF TakeOverInv
<1>1. /\ UNCHANGED params /\ UNCHANGED id /\ UNCHANGED store /\ UNCHANGED attempt
      /\ UNCHANGED troubled /\ main[n] = "txn" /\ ~KeyAbsent(n) /\ main'[n] = "restart"
      /\ \A m \in Nodes \ {n} : main'[m] = main[m]
  BY DEF TypeOK, RegisterRefused, Goto, etcd, ident, trying
<1>2. main[n] \in Registering /\ main'[n] \in Registering
  BY <1>1 DEF Registering
<1>3. LabelsAdvance
  BY <1>1, <1>2, RegisterLabels
<1>4. RecordsInv'
  BY <1>1, <1>3, RecordsStay DEF StoreShrinks, LabelsAdvance
<1>5. StraightAt(n)'
  <2> SUFFICES ASSUME Attempts > 1, n \notin troubled, ~Rivalled(n)
               PROVE  exclusive /\ attempt[n] = 0
    BY <1>1 DEF StraightAt, Rivalled, params
  <2>1. exclusive
    BY <1>1, <1>2, InTheWay
  <2>2. attempt[n] = 0
    BY <1>1 DEF Straight, StraightAt
  <2> QED BY <2>1, <2>2
<1> QED BY <1>1, <1>2, <1>4, <1>5, OwnStep

LEMMA RegisterFailsTakesOver ==
  ASSUME TakeOverInv, NEW n \in Nodes, RegisterFails(n)
  PROVE  RecordsInv' /\ NoAttempt' /\ Straight'
<1> USE DEF TakeOverInv
<1>1. /\ UNCHANGED params /\ UNCHANGED id /\ Retry(n) /\ troubled' = troubled \cup {n}
      /\ main[n] \in Registering /\ main[n] \in HasID
  BY DEF RegisterFails, ident, Registering, HasID
<1>2. LabelsAdvance
  BY <1>1, RetryLabels
<1>3. CASE PutKey(n, leaseId[n], FALSE)
  <2>1. RecordsInv'
    BY <1>1, <1>2, <1>3, RecordsPut
  <2>2. DOMAIN store' = DOMAIN store \cup {KeyOf(n)}
    BY <1>3 DEF PutKey
  <2> QED BY <1>1, <2>1, <2>2, RetryTakesOver
<1>4. CASE UNCHANGED store
  <2>1. RecordsInv'
    BY <1>1, <1>2, <1>4, RecordsStay DEF StoreShrinks, LabelsAdvance
  <2> QED BY <1>1, <1>4, <2>1, RetryTakesOver
<1> QED BY <1>3, <1>4 DEF RegisterFails

\* handleRestart finds the record of an older process with the same address, unless the
\* record has gone meanwhile.
LEMMA RestartGetTakesOver ==
  ASSUME TakeOverInv, NEW n \in Nodes, RestartGet(n)
  PROVE  RecordsInv' /\ NoAttempt' /\ Straight'
<1> USE DEF TakeOverInv
<1> DEFINE old == {k \in {KeyOf(n)} \cap DOMAIN store :
                     /\ address[store[k].node] = address[n] /\ id[store[k].node] < id[n]}
<1>1. /\ UNCHANGED params /\ UNCHANGED id /\ UNCHANGED store
      /\ main[n] = "restart" /\ main[n] \in Registering
      /\ troubled' \in {troubled, troubled \cup {n}}
  BY DEF RestartGet, ident, etcd, Registering
<1>2. CASE /\ old # {} /\ Goto(n, "purge") /\ UNCHANGED <<leaseId, attempt>>
           /\ UNCHANGED troubled
  <2>1. main'[n] = "purge" /\ \A m \in Nodes \ {n} : main'[m] = main[m]
    BY <1>2 DEF TypeOK, Goto
  <2>2. LabelsAdvance
    BY <1>1, <2>1, RegisterLabels DEF Registering
  <2>3. RecordsInv'
    BY <1>1, <1>2, <2>2, RecordsStay DEF StoreShrinks, LabelsAdvance
  <2>4. StraightAt(n)'
    BY <1>1, <1>2, <2>1 DEF Straight, StraightAt, Rivalled, params
  <2>5. main'[n] \in Registering
    BY <2>1 DEF Registering
  <2> QED BY <1>1, <1>2, <2>1, <2>3, <2>4, <2>5, OwnStep
<1>3. CASE Retry(n) /\ (troubled' = troubled \cup {n} \/ old = {})
  <2>1. RecordsInv'
    BY <1>1, <1>3, RetryLabels, RecordsStay DEF StoreShrinks, LabelsAdvance
  <2>2. n \in troubled' \/ Rivalled(n) \/ KeyAbsent(n)
    <3> SUFFICES ASSUME n \notin troubled, ~Rivalled(n), old = {}, ~KeyAbsent(n) PROVE FALSE
      BY <1>1, <1>3
    <3> QED BY <1>1, InTheWay
  <2>3. KeyAbsent(n) => KeyAbsent(n)'
    BY <1>1 DEF KeyAbsent, KeyOf, params
  <2> QED BY <1>1, <1>3, <2>1, <2>2, <2>3, RetryTakesOver
<1> QED BY <1>2, <1>3 DEF RestartGet

LEMMA RestartPurgeTakesOver ==
  ASSUME TakeOverInv, NEW n \in Nodes, RestartPurge(n)
  PROVE  RecordsInv' /\ NoAttempt' /\ Straight'
<1> USE DEF TakeOverInv
<1>1. /\ UNCHANGED params /\ UNCHANGED id /\ Retry(n) /\ main[n] = "purge"
      /\ main[n] \in Registering /\ troubled' \in {troubled, troubled \cup {n}}
      /\ Delete({KeyOf(n)}) \/ UNCHANGED store
  BY DEF RestartPurge, ident, Registering
<1>2. StoreShrinks /\ DOMAIN store' \subseteq DOMAIN store
  BY <1>1, Deletes DEF StoreShrinks
<1>3. RecordsInv'
  BY <1>1, <1>2, RetryLabels, RecordsStay DEF LabelsAdvance
<1>4. n \in troubled' \/ KeyAbsent(n)'
  <2>1. CASE Delete({KeyOf(n)})
    <3>1. DOMAIN store' = DOMAIN store \ {KeyOf(n)}
      BY <2>1, Deletes
    <3> QED BY <1>1, <3>1 DEF KeyAbsent, KeyOf, params
  <2>2. CASE ~Delete({KeyOf(n)})
    BY <2>2 DEF RestartPurge
  <2> QED BY <2>1, <2>2
<1> QED BY <1>1, <1>2, <1>3, <1>4, RetryTakesOver

LEMMA StopTakesOver ==
  ASSUME TakeOverInv, NEW n \in Nodes,
         GoingStop(n) \/ GoingStopPut(n) \/ Stop(n) \/ StopReturns(n)
  PROVE  RecordsInv' /\ NoAttempt' /\ Straight'
<1> USE DEF TakeOverInv
<1>1. /\ UNCHANGED params /\ UNCHANGED id /\ UNCHANGED attempt /\ UNCHANGED troubled
      /\ main[n] \in {"running", "goingPut", "stopping"}
      /\ main'[n] \in {"running", "goingPut", "stopping", "stopped"}
      /\ \A m \in Nodes \ {n} : main'[m] = main[m]
  BY DEF TypeOK, GoingStop, GoingStopPut, Stop, StopReturns, Goto, ident, trying
<1>2. main[n] \notin Registering /\ main'[n] \notin Registering \cup {"gaveUp"}
  BY <1>1 DEF Registering
<1>3. LabelsAdvance
  BY <1>1, <1>2 DEF LabelsAdvance, Alive, Gone, Beginning
<1>4. CASE UNCHANGED store
  BY <1>1, <1>2, <1>3, <1>4, MoveTakesOver
<1>5. CASE PutKey(n, leaseId[n], TRUE)
  <2>1. main[n] \in HasID
    BY <1>1 DEF HasID, Serving
  <2>2. RecordsInv'
    BY <1>1, <1>2, <1>3, <1>5, <2>1, RecordsPut
  <2>3. StraightAt(n)'
    BY <1>2, StraightOutside
  <2>4. attempt'[n] = 0
    BY <1>1, <1>2 DEF NoAttempt
  <2>5. DOMAIN store' = DOMAIN store \cup {KeyOf(n)}
    BY <1>5 DEF PutKey
  <2> QED BY <1>1, <2>1, <2>2, <2>3, <2>4, <2>5, OwnStep
<1> QED BY <1>4, <1>5 DEF GoingStop, GoingStopPut, Stop, StopReturns, etcd

\* Steps of the keep-alive goroutine and of etcd: no process moves.
LEMMA StillTakesOver ==
  ASSUME TakeOverInv, UNCHANGED params, UNCHANGED <<main, id, attempt, troubled>>, StoreShrinks
  PROVE  RecordsInv' /\ NoAttempt' /\ Straight'
<1> USE DEF TakeOverInv
<1>1. RecordsInv'
  BY RecordsStay DEF LabelsAdvance, Alive
<1>2. NoAttempt'
  BY DEF NoAttempt
<1>3. Straight'
  BY Bystander DEF Straight, StoreShrinks
<1> QED BY <1>1, <1>2, <1>3

LEMMA TakeOverStep == TakeOverInv /\ [Next]_vars => TakeOverInv'
<1> SUFFICES ASSUME TakeOverInv, [Next]_vars PROVE RecordsInv' /\ NoAttempt' /\ Straight'
  BY TypeStep, IdStep DEF TakeOverInv
<1>1. ASSUME NEW n \in Nodes, CheckIDExist(n) \/ GetID(n) \/ CasID(n)
      PROVE  RecordsInv' /\ NoAttempt' /\ Straight'
  BY <1>1, InitStepTakesOver
<1>2. ASSUME NEW n \in Nodes, Register(n) PROVE RecordsInv' /\ NoAttempt' /\ Straight'
  BY <1>2, GrantTakesOver, RegisteredTakesOver, RefusedTakesOver, RegisterFailsTakesOver,
     RestartGetTakesOver, RestartPurgeTakesOver DEF Register
<1>3. ASSUME NEW n \in Nodes, TtlExit(n) \/ Crash(n)
      PROVE  RecordsInv' /\ NoAttempt' /\ Straight'
  BY <1>3, DieTakesOver DEF TtlExit, Crash, etcd
<1>4. ASSUME NEW n \in Nodes, ChannelClosed(n) \/ TtlOk(n) \/ CtxSeen(n) \/ Revoke(n)
      PROVE  RecordsInv' /\ NoAttempt' /\ Straight'
  <2>1. StoreShrinks
    BY <1>4, Deletes DEF ChannelClosed, TtlOk, CtxSeen, Revoke, StoreShrinks, etcd
  <2> QED BY <1>4, <2>1, StillTakesOver DEF ChannelClosed, TtlOk, CtxSeen, Revoke, ident, trying
<1>5. ASSUME NEW n \in Nodes, GoingStop(n) \/ GoingStopPut(n) \/ Stop(n) \/ StopReturns(n)
      PROVE  RecordsInv' /\ NoAttempt' /\ Straight'
  BY <1>5, StopTakesOver
<1>6. ASSUME NEW l \in leases, Expire(l) PROVE RecordsInv' /\ NoAttempt' /\ Straight'
  <2>1. StoreShrinks
    BY <1>6, Deletes DEF Expire, StoreShrinks
  <2> QED BY <1>6, <2>1, StillTakesOver DEF Expire, ident, trying
<1>7. CASE UNCHANGED vars
  BY <1>7, StillTakesOver DEF vars, etcd, ident, trying, StoreShrinks
<1> QED BY <1>1, <1>2, <1>3, <1>4, <1>5, <1>6, <1>7 DEF Next, KeepAlive

\* A process whose Register met no failing call gives up only for a process of another
\* address that has a server ID, and only when the service is exclusive: the record of its
\* predecessor is purged by the first attempt and nobody puts it back.
THEOREM RestartsTakeOver == Spec => []RestartTakesOver
<1>1. Init => TakeOverInv
  BY InitType, InitID, InitTakeOver DEF TakeOverInv
<1>2. TakeOverInv /\ [Next]_vars => TakeOverInv'
  BY TakeOverStep
<1>3. TakeOverInv => RestartTakesOver
  BY DEF TakeOverInv, Straight, StraightAt, Rivalled, RestartTakesOver
<1> QED BY <1>1, <1>2, <1>3, PTL DEF Spec
=============================================================================
