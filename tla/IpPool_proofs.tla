--------------------------- MODULE IpPool_proofs ---------------------------
(***************************************************************************)
(* Proofs about the pool manager, for every number of callers, Services,   *)
(* zones and addresses, with and without a lagging informer cache.         *)
(*                                                                         *)
(* The invariants of IpPool are not inductive: that an operation's read    *)
(* agrees with what is stored at the same resource version needs that no   *)
(* read, and no cached pool, is from the future, and that version 0 is     *)
(* only ever the absent pool.  IInv adds this.                             *)
(***************************************************************************)
EXTENDS IpPool, TLAPS

(* A copy p of a pool taken at some earlier time, against what is stored now
   and the server's latest version r: not newer than r, absent if it has no
   version, and equal to what is stored when the versions are equal. *)
CopyOf(p, stored, r) == /\ p.rv <= r
                        /\ p.rv = 0 => p = Absent
                        /\ p.rv = stored.rv => p = stored

PoolsVersioned == \A z \in Zones : CopyOf(pools[z], pools[z], rev)
CacheIsCopy == \A z \in Zones : CopyOf(poolCache[z], pools[z], rev)
ReadsAreCopies ==
  \A c \in Callers : ~Free(c) => CopyOf(call[c].read, pools[call[c].zone], rev)
AddsSomething == \A c \in Callers : call[c].pc = "adding" => call[c].addrs # {}

IInv == /\ PoolTypeOK
        /\ PoolsVersioned
        /\ CacheIsCopy
        /\ ReadsAreCopies
        /\ AddsSomething
        /\ PoolNeverEmpty

(* What a write may do to the API server's state: each pool is left alone,
   deleted, or stored non-empty under the next resource version. *)
ServerMoves ==
  /\ rev' \in Nat /\ rev <= rev'
  /\ pools' \in [Zones -> Pool]
  /\ \A z \in Zones : \/ pools'[z] = pools[z]
                      \/ pools'[z] = Absent
                      \/ /\ rev < rev'
                         /\ pools'[z].rv = rev'
                         /\ pools'[z].addrs # {}

Results == {"ok", "error"}
Answered(c) == \E result \in Results : Answer(c, result)
----------------------------------------------------------------------------
(* Storing a non-empty pool is one of the moves above. *)
LEMMA StoreMoves ==
  ASSUME PoolTypeOK, NEW z \in Zones, NEW A \in SUBSET Addrs, A # {}, Store(z, A)
  PROVE  ServerMoves
  BY DEF PoolTypeOK, Store, ServerMoves, Pool

LEMMA UpdateMoves ==
  ASSUME PoolTypeOK, NEW c \in Callers, NEW z \in Zones, NEW read \in Pool,
         NEW A \in SUBSET Addrs, A # {}, NEW answer \in Results, UpdatePool(c, z, read, A, answer)
  PROVE  ServerMoves /\ Answered(c)
<1>1. CASE UNCHANGED <<pools, rev>>
  BY <1>1 DEF PoolTypeOK, ServerMoves, UpdatePool, Answered, Results
<1>2. CASE Store(z, A)
  BY <1>2, StoreMoves DEF UpdatePool, Answered, Results, Store
<1> QED
  BY <1>1, <1>2 DEF UpdatePool

LEMMA AddWriteMoves ==
  ASSUME IInv, NEW c \in Callers, NEW answer \in Results, AddWrite(c, answer)
  PROVE  ServerMoves /\ Answered(c) /\ UNCHANGED poolCache
<1> DEFINE op == call[c]
<1>1. /\ op.pc = "adding" /\ op.zone \in Zones /\ op.addrs \in SUBSET Addrs
      /\ op.addrs # {} /\ op.read \in Pool /\ UNCHANGED poolCache
  BY DEF IInv, PoolTypeOK, Call, Adding, Removing, AddWrite, AddsSomething
<1>2. CASE CreatePool(c, op.zone, op.addrs, answer)
  <2>1. CASE UNCHANGED <<pools, rev>>
    BY <1>1, <1>2, <2>1 DEF IInv, PoolTypeOK, ServerMoves, CreatePool, Answered, Results
  <2>2. CASE Store(op.zone, op.addrs)
    BY <1>1, <1>2, <2>2, StoreMoves DEF IInv, CreatePool, Answered, Results, Store, CreateConflicts
  <2> QED
    BY <1>2, <2>1, <2>2 DEF CreatePool
<1>3. CASE UpdatePool(c, op.zone, op.read, Extended(op.read, op.addrs), answer)
  <2>1. Extended(op.read, op.addrs) \in SUBSET Addrs /\ Extended(op.read, op.addrs) # {}
    BY <1>1 DEF Extended, Pool
  <2> QED
    BY <1>1, <1>3, <2>1, UpdateMoves DEF IInv
<1> QED
  BY <1>2, <1>3 DEF AddWrite

LEMMA RemoveWriteMoves ==
  ASSUME IInv, NEW c \in Callers, NEW answer \in Results, RemoveWrite(c, answer)
  PROVE  ServerMoves /\ Answered(c) /\ UNCHANGED poolCache
<1> DEFINE op == call[c]
           rest == Remaining(op.read, op.unused)
<1>1. /\ op.pc = "removing" /\ op.zone \in Zones /\ op.unused \in SUBSET Addrs
      /\ op.read \in Pool /\ UNCHANGED poolCache
  BY DEF IInv, PoolTypeOK, Call, Adding, Removing, RemoveWrite
<1>2. rest \in SUBSET Addrs
  BY <1>1 DEF Remaining, Pool
<1>3. CASE DeletePool(c, op.zone, op.read, answer)
  <2>1. Answered(c)
    BY <1>3 DEF DeletePool, Answered, Results
  <2>2. ServerMoves
    BY <1>1, <1>3 DEF IInv, PoolTypeOK, ServerMoves, DeletePool, Absent, Pool
  <2> QED
    BY <1>1, <2>1, <2>2
<1>4. CASE rest # {} /\ UpdatePool(c, op.zone, op.read, rest, answer)
  BY <1>1, <1>2, <1>4, UpdateMoves DEF IInv
<1> QED
  BY <1>3, <1>4 DEF RemoveWrite
----------------------------------------------------------------------------
(* A copy stays a copy when its pool moves on. *)
LEMMA CopyStays ==
  ASSUME NEW p \in Pool, NEW stored \in Pool, NEW stored2 \in Pool,
         NEW r \in Nat, NEW r2 \in Nat, r <= r2, CopyOf(p, stored, r),
         stored2 = stored \/ stored2 = Absent \/ (r < r2 /\ stored2.rv = r2)
  PROVE  CopyOf(p, stored2, r2)
<1>1. p.rv \in Nat /\ p.rv <= r
  BY DEF Pool, CopyOf
<1>2. p.rv <= r2 /\ (p.rv = 0 => p = Absent)
  BY <1>1 DEF CopyOf
<1>3. CASE stored2 = stored
  BY <1>2, <1>3 DEF CopyOf
<1>4. CASE stored2 = Absent
  BY <1>2, <1>4 DEF CopyOf, Absent
<1>5. CASE r < r2 /\ stored2.rv = r2
  BY <1>1, <1>2, <1>5 DEF CopyOf
<1> QED
  BY <1>3, <1>4, <1>5

(* A write that answers its caller preserves the invariant. *)
LEMMA WritePreserves ==
  ASSUME IInv, NEW c \in Callers, ServerMoves, Answered(c), UNCHANGED poolCache,
         UNCHANGED envVars
  PROVE  IInv'
<1>1. call' \in [Callers -> Call] /\ Free(c)'
      /\ \A d \in Callers : d # c => call'[d] = call[d]
  BY DEF IInv, PoolTypeOK, Answered, Results, Answer, Call, Adding, Removing, Free, Running
<1>2. PoolTypeOK'
  BY <1>1 DEF IInv, PoolTypeOK, ServerMoves, envVars
<1>3. ASSUME NEW z \in Zones, NEW p \in Pool, CopyOf(p, pools[z], rev)
      PROVE  CopyOf(p, pools'[z], rev')
  <2>1. pools[z] \in Pool /\ pools'[z] \in Pool /\ rev \in Nat /\ rev' \in Nat /\ rev <= rev'
    BY DEF IInv, PoolTypeOK, ServerMoves
  <2>2. pools'[z] = pools[z] \/ pools'[z] = Absent \/ (rev < rev' /\ pools'[z].rv = rev')
    BY DEF ServerMoves
  <2> QED
    BY <1>3, <2>1, <2>2, CopyStays
<1>4. PoolsVersioned'
  <2> SUFFICES ASSUME NEW z \in Zones PROVE CopyOf(pools'[z], pools'[z], rev')
    BY DEF PoolsVersioned
  <2>1. pools[z] \in Pool /\ pools'[z] \in Pool /\ rev \in Nat /\ rev' \in Nat /\ rev <= rev'
        /\ CopyOf(pools[z], pools[z], rev)
    BY DEF IInv, PoolTypeOK, PoolsVersioned, ServerMoves
  <2>2. CASE pools'[z] = pools[z]
    BY <2>1, <2>2, <1>3
  <2>3. CASE pools'[z] = Absent
    BY <2>1, <2>3 DEF CopyOf, Absent
  <2>4. CASE rev < rev' /\ pools'[z].rv = rev'
    BY <2>1, <2>4 DEF CopyOf
  <2> QED
    BY <2>2, <2>3, <2>4 DEF ServerMoves
<1>5. CacheIsCopy'
  <2> SUFFICES ASSUME NEW z \in Zones PROVE CopyOf(poolCache'[z], pools'[z], rev')
    BY DEF CacheIsCopy
  <2> QED
    BY <1>3 DEF IInv, PoolTypeOK, CacheIsCopy
<1>6. ReadsAreCopies'
  <2> SUFFICES ASSUME NEW d \in Callers, ~Free(d)'
               PROVE  CopyOf(call'[d].read, pools'[call'[d].zone], rev')
    BY DEF ReadsAreCopies
  <2>1. d # c /\ call'[d] = call[d] /\ ~Free(d)
    BY <1>1 DEF Free
  <2>2. call[d].read \in Pool /\ call[d].zone \in Zones
    BY <2>1 DEF IInv, PoolTypeOK, Call, Adding, Removing, Free, Running
  <2> QED
    BY <1>3, <2>1, <2>2 DEF IInv, ReadsAreCopies
<1>7. AddsSomething'
  BY <1>1 DEF IInv, AddsSomething, Free, Running
<1>8. PoolNeverEmpty'
  BY DEF IInv, PoolNeverEmpty, ServerMoves
<1> QED
  BY <1>2, <1>4, <1>5, <1>6, <1>7, <1>8 DEF IInv
----------------------------------------------------------------------------
(* What a read returns is a copy. *)
LEMMA SeenIsCopy ==
  ASSUME IInv, NEW z \in Zones
  PROVE  SeenPool(z) \in Pool /\ CopyOf(SeenPool(z), pools[z], rev)
  BY DEF IInv, PoolTypeOK, PoolsVersioned, CacheIsCopy, SeenPool

(* A step of one caller that reads, or gives up, preserves the invariant. *)
LEMMA ReadPreserves ==
  ASSUME IInv, NEW c \in Callers, NEW next \in Call, call' = [call EXCEPT ![c] = next],
         next.pc \in Running => CopyOf(next.read, pools[next.zone], rev),
         next.pc = "adding" => next.addrs # {},
         UNCHANGED <<pools, rev, poolCache, envVars>>
  PROVE  IInv'
<1>1. PoolTypeOK'
  BY DEF IInv, PoolTypeOK, envVars
<1>2. PoolsVersioned' /\ CacheIsCopy' /\ PoolNeverEmpty'
  BY DEF IInv, PoolsVersioned, CacheIsCopy, PoolNeverEmpty
<1>3. \A d \in Callers : call'[d] = IF d = c THEN next ELSE call[d]
  BY DEF IInv, PoolTypeOK
<1>4. ReadsAreCopies' /\ AddsSomething'
  BY <1>3 DEF IInv, ReadsAreCopies, AddsSomething, Free
<1> QED
  BY <1>1, <1>2, <1>4 DEF IInv

LEMMA AddGetPreserves ==
  ASSUME IInv, NEW c \in Callers, NEW z \in Zones, NEW A \in SUBSET Addrs, A # {},
         AddGet(c, z, A), UNCHANGED envVars
  PROVE  IInv'
<1> DEFINE next == [pc |-> "adding", zone |-> z, addrs |-> A, read |-> SeenPool(z), unused |-> {}]
<1>1. next \in Call /\ CopyOf(next.read, pools[next.zone], rev)
  BY SeenIsCopy DEF Call, Adding, Removing, Running
<1> QED
  BY <1>1, ReadPreserves DEF AddGet

LEMMA RemoveGetPreserves ==
  ASSUME IInv, NEW c \in Callers, NEW z \in Zones, NEW A \in SUBSET Addrs,
         RemoveGet(c, z, A), UNCHANGED envVars
  PROVE  IInv'
<1> DEFINE next == [pc |-> "listing", zone |-> z, addrs |-> A, read |-> SeenPool(z), unused |-> {}]
           err == [pc |-> "error"]
<1>1. err \in Call /\ err.pc \notin Running /\ err.pc # "adding"
  BY DEF Call, Running
<1>2. CASE call' = [call EXCEPT ![c] = err]
  BY <1>1, <1>2, ReadPreserves DEF RemoveGet
<1>3. CASE SeenPool(z) # Absent /\ call' = [call EXCEPT ![c] = next]
  <2>1. next \in Removing /\ next.pc # "adding"
    BY <1>3, SeenIsCopy DEF Removing
  <2>2. next \in Call /\ CopyOf(next.read, pools[next.zone], rev)
    BY <2>1, SeenIsCopy DEF Call
  <2> QED
    BY <1>3, <2>1, <2>2, ReadPreserves DEF RemoveGet
<1> QED
  BY <1>2, <1>3 DEF RemoveGet, Answer

LEMMA RemoveListPreserves ==
  ASSUME IInv, NEW c \in Callers, RemoveList(c), UNCHANGED envVars
  PROVE  IInv'
<1> DEFINE next == [call[c] EXCEPT !.pc = "removing", !.unused = NotInUse(call[c].addrs)]
<1>1. /\ call[c].pc = "listing" /\ call[c].addrs \in SUBSET Addrs
      /\ CopyOf(call[c].read, pools[call[c].zone], rev)
      /\ call[c] \in Removing
  BY DEF IInv, PoolTypeOK, Call, Adding, Removing, Running, RemoveList, ReadsAreCopies, Free
<1>2. NotInUse(call[c].addrs) \in SUBSET Addrs
  BY <1>1 DEF NotInUse
<1>3. /\ next \in Removing /\ next \in Call /\ next.pc = "removing"
      /\ next.read = call[c].read /\ next.zone = call[c].zone
  BY <1>1, <1>2 DEF Call, Adding, Removing, Running
<1>4. call' = [call EXCEPT ![c] = next]
  BY DEF RemoveList
<1>5. next.pc # "adding" /\ CopyOf(next.read, pools[next.zone], rev)
  BY <1>1, <1>3
<1> QED
  BY <1>3, <1>4, <1>5, ReadPreserves DEF RemoveList

LEMMA CallFailsPreserves ==
  ASSUME IInv, NEW c \in Callers, CallFails(c), UNCHANGED envVars
  PROVE  IInv'
<1> DEFINE err == [pc |-> "error"]
<1>1. err \in Call /\ err.pc \notin Running /\ err.pc # "adding"
  BY DEF Call, Adding, Removing, Running
<1>2. call' = [call EXCEPT ![c] = err]
  BY DEF CallFails, Answer
<1> QED
  BY <1>1, <1>2, ReadPreserves DEF CallFails
----------------------------------------------------------------------------
LEMMA InvInit == Init => IInv
  BY DEF Init, IInv, PoolTypeOK, PoolsVersioned, CacheIsCopy, ReadsAreCopies,
         AddsSomething, PoolNeverEmpty, CopyOf, Pool, Absent, Call, Adding, Removing, Free, Running

LEMMA InvStep == IInv /\ [Next]_vars => IInv'
<1> SUFFICES ASSUME IInv, [Next]_vars PROVE IInv'
  OBVIOUS
<1>1. ASSUME NEW c \in Callers, StartAdd(c), UNCHANGED envVars PROVE IInv'
  BY <1>1, AddGetPreserves DEF StartAdd
<1>2. ASSUME NEW c \in Callers, StartRemove(c), UNCHANGED envVars PROVE IInv'
  BY <1>2, RemoveGetPreserves DEF StartRemove
<1>3. ASSUME NEW c \in Callers, NEW answer \in Results, AddWrite(c, answer), UNCHANGED envVars PROVE IInv'
  BY <1>3, AddWriteMoves, WritePreserves
<1>4. ASSUME NEW c \in Callers, NEW answer \in Results, RemoveWrite(c, answer), UNCHANGED envVars PROVE IInv'
  BY <1>4, RemoveWriteMoves, WritePreserves
<1>5. ASSUME NEW c \in Callers, RemoveList(c), UNCHANGED envVars PROVE IInv'
  BY <1>5, RemoveListPreserves
<1>6. ASSUME NEW c \in Callers, CallFails(c), UNCHANGED envVars PROVE IInv'
  BY <1>6, CallFailsPreserves
<1>7. ASSUME NEW z \in Zones, SyncPool(z), UNCHANGED envVars PROVE IInv'
  <2>1. PoolTypeOK' /\ ReadsAreCopies' /\ AddsSomething' /\ PoolsVersioned' /\ PoolNeverEmpty'
    BY <1>7 DEF IInv, PoolTypeOK, ReadsAreCopies, AddsSomething, PoolsVersioned,
                PoolNeverEmpty, SyncPool, envVars, Free
  <2>2. CacheIsCopy'
    BY <1>7 DEF IInv, PoolTypeOK, CacheIsCopy, PoolsVersioned, SyncPool
  <2> QED
    BY <2>1, <2>2 DEF IInv
<1>8. ASSUME UNCHANGED <<pools, rev, poolCache, call>>,
             lbAddrs' \in [Services -> SUBSET Addrs], lbCache' \in [Services -> SUBSET Addrs]
      PROVE  IInv'
  BY <1>8 DEF IInv, PoolTypeOK, ReadsAreCopies, AddsSomething, PoolsVersioned,
              CacheIsCopy, PoolNeverEmpty, Free
<1>9. ASSUME NEW s \in Services, ServiceChanges(s) PROVE IInv'
  BY <1>8, <1>9 DEF IInv, PoolTypeOK, ServiceChanges
<1>10. CASE SyncServices
  BY <1>8, <1>10 DEF IInv, PoolTypeOK, SyncServices
<1>11. CASE UNCHANGED vars
  BY <1>8, <1>11 DEF IInv, PoolTypeOK, vars
<1> QED
  BY <1>1, <1>2, <1>3, <1>4, <1>5, <1>6, <1>7, <1>9, <1>10, <1>11
  DEF Next, Operate, AnswerLost, Results

(* The inductive invariant holds in every reachable state. *)
THEOREM Invariance == Spec => []IInv
  BY InvInit, InvStep, PTL DEF Spec

(* Type correctness: whatever calls interleave, the state an operation
   carries between its API calls stays in its type. *)
THEOREM TypeCorrect == Spec => []PoolTypeOK
<1>1. IInv => PoolTypeOK
  BY DEF IInv
<1> QED
  BY <1>1, Invariance, PTL

(* MetalLB is never left with an empty pool, for any number of concurrent
   handlers and however stale their reads are. *)
THEOREM NeverEmpty == Spec => []PoolNeverEmpty
<1>1. IInv => PoolNeverEmpty
  BY DEF IInv
<1> QED
  BY <1>1, Invariance, PTL

(* A read whose resource version is still current is what is stored. *)
THEOREM ReadsAgree == Spec => []SnapshotAgrees
<1>1. IInv => SnapshotAgrees
  BY DEF IInv, PoolTypeOK, ReadsAreCopies, SnapshotAgrees, CopyOf, Call, Adding, Removing, Free, Running
<1> QED
  BY <1>1, Invariance, PTL
----------------------------------------------------------------------------
(* An Update that is accepted replaces exactly what the caller had read. *)
LEMMA UpdateFromRead ==
  ASSUME IInv, NEW c \in Callers, ~Free(c), NEW A \in SUBSET Addrs,
         NEW answer \in Results, UpdatePool(c, call[c].zone, call[c].read, A, answer)
  PROVE  /\ \A z \in Zones : z # call[c].zone => pools'[z] = pools[z]
         /\ \/ UNCHANGED pools /\ call'[c].pc = "error"
            \/ /\ pools'[call[c].zone].addrs = A
               /\ pools[call[c].zone] = call[c].read
<1> DEFINE z == call[c].zone
<1>1. /\ z \in Zones /\ call[c].read \in Pool /\ CopyOf(call[c].read, pools[z], rev)
      /\ pools \in [Zones -> Pool] /\ call \in [Callers -> Call]
  BY DEF IInv, PoolTypeOK, Call, Adding, Removing, Free, Running, ReadsAreCopies
<1>2. CASE UpdateConflicts(z, call[c].read)
  BY <1>1, <1>2 DEF UpdatePool, Answer
<1>3. CASE ~UpdateConflicts(z, call[c].read)
  <2>1. pools[z] = call[c].read
    BY <1>1, <1>3 DEF UpdateConflicts, CopyOf
  <2>2. CASE A = pools[z].addrs
    BY <1>1, <1>3, <2>1, <2>2 DEF UpdatePool
  <2>3. CASE Store(z, A)
    BY <1>1, <2>1, <2>3 DEF Store
  <2> QED
    BY <1>3, <2>1, <2>2, <2>3 DEF UpdatePool
<1> QED
  BY <1>2, <1>3

(* The two writes, told as what they do to the pool of the caller's zone. *)
LEMMA AddWriteEffect ==
  ASSUME IInv, NEW c \in Callers, NEW answer \in Results, AddWrite(c, answer)
  PROVE  /\ call[c].pc = "adding" /\ call[c].zone \in Zones
         /\ \A z \in Zones : z # call[c].zone => pools'[z] = pools[z]
         /\ \/ UNCHANGED pools /\ call'[c].pc = "error"
            \/ pools'[call[c].zone].addrs = pools[call[c].zone].addrs \cup call[c].addrs
<1> DEFINE op == call[c]
<1>1. /\ op.pc = "adding" /\ op.zone \in Zones /\ op.addrs \in SUBSET Addrs /\ ~Free(c)
      /\ op.read \in Pool /\ pools \in [Zones -> Pool] /\ call \in [Callers -> Call]
  BY DEF IInv, PoolTypeOK, Call, Adding, Removing, AddWrite, Free, Running
<1>2. CASE CreatePool(c, op.zone, op.addrs, answer)
  BY <1>1, <1>2 DEF CreatePool, CreateConflicts, Answer, Store, Absent
<1>3. CASE UpdatePool(c, op.zone, op.read, Extended(op.read, op.addrs), answer)
  <2>1. Extended(op.read, op.addrs) \in SUBSET Addrs
    BY <1>1 DEF Extended, Pool
  <2>2. /\ \A z \in Zones : z # op.zone => pools'[z] = pools[z]
        /\ \/ UNCHANGED pools /\ call'[c].pc = "error"
           \/ /\ pools'[op.zone].addrs = Extended(op.read, op.addrs)
              /\ pools[op.zone] = op.read
    BY <1>1, <1>3, <2>1, UpdateFromRead
  <2> QED
    BY <1>1, <2>2 DEF Extended
<1> QED
  BY <1>1, <1>2, <1>3 DEF AddWrite

LEMMA RemoveWriteEffect ==
  ASSUME IInv, NEW c \in Callers, NEW answer \in Results, RemoveWrite(c, answer)
  PROVE  /\ call[c].pc = "removing" /\ call[c].zone \in Zones
         /\ \A z \in Zones : z # call[c].zone => pools'[z] = pools[z]
         /\ \/ UNCHANGED pools /\ call'[c].pc = "error"
            \/ pools'[call[c].zone] = Absent
            \/ pools'[call[c].zone].addrs = pools[call[c].zone].addrs \ call[c].unused
<1> DEFINE op == call[c]
           rest == Remaining(op.read, op.unused)
<1>1. /\ op.pc = "removing" /\ op.zone \in Zones /\ op.unused \in SUBSET Addrs /\ ~Free(c)
      /\ op.read \in Pool /\ pools \in [Zones -> Pool] /\ call \in [Callers -> Call]
  BY DEF IInv, PoolTypeOK, Call, Adding, Removing, RemoveWrite, Free, Running
<1>2. CASE DeletePool(c, op.zone, op.read, answer)
  BY <1>1, <1>2 DEF DeletePool, Answer
<1>3. CASE UpdatePool(c, op.zone, op.read, rest, answer)
  <2>1. rest \in SUBSET Addrs
    BY <1>1 DEF Remaining, Pool
  <2>2. /\ \A z \in Zones : z # op.zone => pools'[z] = pools[z]
        /\ \/ UNCHANGED pools /\ call'[c].pc = "error"
           \/ pools'[op.zone].addrs = rest /\ pools[op.zone] = op.read
    BY <1>1, <1>3, <2>1, UpdateFromRead
  <2> QED
    BY <1>1, <2>2 DEF Remaining
<1> QED
  BY <1>1, <1>2, <1>3 DEF RemoveWrite

(* Every step other than a write leaves the pools alone and answers "ok" to
   nobody. *)
LEMMA OtherSteps ==
  ASSUME IInv, [Next]_vars
  PROVE  \/ \E c \in Callers, answer \in Results : AddWrite(c, answer) \/ RemoveWrite(c, answer)
         \/ /\ UNCHANGED pools
            /\ \A c \in Callers : call'[c].pc = "ok" => call'[c] = call[c]
<1> SUFFICES ASSUME ~\E c \in Callers, answer \in Results : AddWrite(c, answer) \/ RemoveWrite(c, answer)
             PROVE  /\ UNCHANGED pools
                    /\ \A c \in Callers : call'[c].pc = "ok" => call'[c] = call[c]
  OBVIOUS
<1>0. call \in [Callers -> Call]
  BY DEF IInv, PoolTypeOK
<1>1. ASSUME NEW c \in Callers, StartAdd(c)
      PROVE  UNCHANGED pools /\ \A d \in Callers : call'[d].pc = "ok" => call'[d] = call[d]
  BY <1>0, <1>1 DEF StartAdd, AddGet
<1>2. ASSUME NEW c \in Callers, StartRemove(c)
      PROVE  UNCHANGED pools /\ \A d \in Callers : call'[d].pc = "ok" => call'[d] = call[d]
  BY <1>0, <1>2 DEF StartRemove, RemoveGet, Answer
<1>3. ASSUME NEW c \in Callers, RemoveList(c)
      PROVE  UNCHANGED pools /\ \A d \in Callers : call'[d].pc = "ok" => call'[d] = call[d]
  <2>1. call[c] \in Removing
    BY <1>0, <1>3 DEF RemoveList, Call, Adding
  <2> QED
    BY <1>0, <1>3, <2>1 DEF RemoveList, Removing
<1>4. ASSUME NEW c \in Callers, CallFails(c)
      PROVE  UNCHANGED pools /\ \A d \in Callers : call'[d].pc = "ok" => call'[d] = call[d]
  BY <1>0, <1>4 DEF CallFails, Answer
<1>5. CASE UNCHANGED <<pools, call>>
  BY <1>5
<1> QED
  BY <1>1, <1>2, <1>3, <1>4, <1>5
  DEF Next, Operate, AnswerLost, Results, SyncPool, ServiceChanges, SyncServices, vars

(* No lost update: concurrent adds and removes never overwrite each other,
   unless the pool is deleted. *)
THEOREM NoLostUpdate == Spec => UpdateKeepsOthers
<1>1. IInv /\ [Next]_vars => [LeavesOnlyWhenUnused]_vars
  <2> SUFFICES ASSUME IInv, [Next]_vars, NEW z \in Zones, pools'[z] # Absent,
                      NEW a \in pools[z].addrs \ pools'[z].addrs
               PROVE  \E c \in Callers : call[c].pc = "removing" /\ call[c].zone = z
                                            /\ a \in call[c].unused
    BY DEF LeavesOnlyWhenUnused
  <2>1. ASSUME NEW c \in Callers, NEW answer \in Results, AddWrite(c, answer) PROVE FALSE
    BY <2>1, AddWriteEffect
  <2>2. ASSUME NEW c \in Callers, NEW answer \in Results, RemoveWrite(c, answer)
        PROVE  call[c].pc = "removing" /\ call[c].zone = z /\ a \in call[c].unused
    BY <2>2, RemoveWriteEffect
  <2> QED
    BY <2>1, <2>2, OtherSteps
<1> QED
  BY <1>1, Invariance, PTL DEF Spec, UpdateKeepsOthers

(* Success means the work is done, in the API server's state and not only in
   the copy the operation had read. *)
THEOREM SuccessIsReal == Spec => OkMeansDone
<1>1. IInv /\ [Next]_vars => [DoneWhenAnswered]_vars
  <2> SUFFICES ASSUME IInv, [Next]_vars, NEW c \in Callers, call'[c].pc = "ok"
               PROVE  /\ call[c].pc = "adding" => call[c].addrs \subseteq pools'[call[c].zone].addrs
                      /\ call[c].pc = "removing" => call[c].unused \cap pools'[call[c].zone].addrs = {}
    BY DEF DoneWhenAnswered
  <2>0. call \in [Callers -> Call]
    BY DEF IInv, PoolTypeOK
  <2>1. ASSUME NEW d \in Callers, NEW answer \in Results, AddWrite(d, answer), d = c PROVE call[c].addrs \subseteq pools'[call[c].zone].addrs
    BY <2>1, AddWriteEffect
  <2>2. ASSUME NEW d \in Callers, NEW answer \in Results, RemoveWrite(d, answer), d = c
        PROVE  call[c].unused \cap pools'[call[c].zone].addrs = {}
    BY <2>2, RemoveWriteEffect DEF Absent
  <2>3. ASSUME NEW d \in Callers, NEW answer \in Results,
               AddWrite(d, answer) \/ RemoveWrite(d, answer), d # c
        PROVE call'[c] = call[c]
    <3>1. Answered(d)
      BY <2>3, AddWriteMoves, RemoveWriteMoves
    <3> QED
      BY <2>0, <2>3, <3>1 DEF Answered, Answer
  <2>4. CASE call'[c] = call[c]
    BY <2>4
  <2> QED
    BY <2>1, <2>2, <2>3, <2>4, OtherSteps, AddWriteEffect, RemoveWriteEffect
<1> QED
  BY <1>1, Invariance, PTL DEF Spec, OkMeansDone
----------------------------------------------------------------------------
(* A step of one caller is a step of its operation in AtomicPools. *)
LEMMA OperationMoves ==
  ASSUME PoolTypeOK, NEW c \in Callers, NEW next, call' = [call EXCEPT ![c] = next]
  PROVE  Operations' = [Operations EXCEPT ![c] = Promised(next)]
<1>1. Operations' = [d \in Callers |-> Promised(call'[d])]
  BY DEF Operations
<1>2. \A d \in Callers : call'[d] = IF d = c THEN next ELSE call[d]
  BY DEF PoolTypeOK
<1>3. \A d \in Callers : Promised(call'[d]) = IF d = c THEN Promised(next) ELSE Promised(call[d])
  BY <1>2
<1> QED
  BY <1>1, <1>3 DEF Operations

LEMMA ServedMoves ==
  ASSUME NEW z \in Zones, NEW A, pools'[z].addrs = A,
         \A y \in Zones : y # z => pools'[y] = pools[y]
  PROVE  Served' = [Served EXCEPT ![z] = A]
  BY DEF Served

LEMMA AnswerMoves ==
  ASSUME PoolTypeOK, NEW c \in Callers, NEW r \in {"ok", "error"}, Answer(c, r)
  PROVE  Operations' = [Operations EXCEPT ![c] = [kind |-> r]] /\ call'[c].pc = r
<1>1. Promised([pc |-> r]) = [kind |-> r]
  BY DEF Promised, Kind, Running
<1> QED
  BY <1>1, OperationMoves DEF Answer, PoolTypeOK

(* A write that fails without effect, and one that takes effect, whatever
   its caller is answered. *)
LEMMA FailStep ==
  ASSUME PoolTypeOK, NEW c \in Callers, Answer(c, "error"), UNCHANGED pools
  PROVE  Atomic!Next
  BY AnswerMoves DEF Atomic!Next, Atomic!Fail, Atomic!Becomes, Served

LEMMA AddWriteStep ==
  ASSUME IInv, NEW c \in Callers, NEW answer \in Results, AddWrite(c, answer)
  PROVE  Atomic!Next
<1> DEFINE z == call[c].zone
<1>1. PoolTypeOK /\ call[c].pc = "adding" /\ z \in Zones
  BY AddWriteEffect DEF IInv
<1>2. PICK r \in Results : Answer(c, r)
  BY AddWriteMoves DEF Answered
<1>3. CASE r = "error" /\ UNCHANGED pools
  BY <1>1, <1>2, <1>3, FailStep
<1>4. CASE pools'[z].addrs = pools[z].addrs \cup call[c].addrs
  <2>1. /\ Operations[c].kind = "add" /\ Operations[c].zone = z
        /\ Operations[c].addrs = call[c].addrs /\ Served[z] = pools[z].addrs
    BY <1>1 DEF Operations, Promised, Kind, Running, Served
  <2>2. Served' = [Served EXCEPT ![z] = pools[z].addrs \cup call[c].addrs]
    BY <1>1, <1>4, AddWriteEffect, ServedMoves
  <2>3. Operations' = [Operations EXCEPT ![c] = [kind |-> r]]
    BY <1>1, <1>2, AnswerMoves DEF Results
  <2> QED
    BY <2>1, <2>2, <2>3 DEF Atomic!Next, Atomic!Add, Atomic!Serve, Atomic!Answers, Atomic!Becomes, Results
<1>5. r = call'[c].pc
  BY <1>1, <1>2, AnswerMoves DEF Results
<1> QED
  BY <1>3, <1>4, <1>5, AddWriteEffect

LEMMA RemoveWriteStep ==
  ASSUME IInv, NEW c \in Callers, NEW answer \in Results, RemoveWrite(c, answer)
  PROVE  Atomic!Next
<1> DEFINE z == call[c].zone
<1>1. PoolTypeOK /\ call[c].pc = "removing" /\ z \in Zones
  BY RemoveWriteEffect DEF IInv
<1>2. PICK r \in Results : Answer(c, r)
  BY RemoveWriteMoves DEF Answered
<1>3. CASE r = "error" /\ UNCHANGED pools
  BY <1>1, <1>2, <1>3, FailStep
<1>4. /\ Operations[c].kind = "remove" /\ Operations[c].zone = z
      /\ Operations[c].addrs = call[c].unused /\ Served[z] = pools[z].addrs
  BY <1>1 DEF Operations, Promised, Kind, Running, Served
<1>5. CASE pools'[z] = Absent
  <2>1. Served' = [Served EXCEPT ![z] = {}]
    BY <1>1, <1>5, RemoveWriteEffect, ServedMoves DEF Absent
  <2>2. Operations' = [Operations EXCEPT ![c] = [kind |-> r]]
    BY <1>1, <1>2, AnswerMoves DEF Results
  <2> QED
    BY <1>4, <2>1, <2>2 DEF Atomic!Next, Atomic!Clear, Atomic!Serve, Atomic!Answers, Atomic!Becomes, Results
<1>6. CASE pools'[z].addrs = pools[z].addrs \ call[c].unused
  <2>1. Served' = [Served EXCEPT ![z] = pools[z].addrs \ call[c].unused]
    BY <1>1, <1>6, RemoveWriteEffect, ServedMoves
  <2>2. Operations' = [Operations EXCEPT ![c] = [kind |-> r]]
    BY <1>1, <1>2, AnswerMoves DEF Results
  <2> QED
    BY <1>4, <2>1, <2>2 DEF Atomic!Next, Atomic!Remove, Atomic!Serve, Atomic!Answers, Atomic!Becomes, Results
<1>7. r = call'[c].pc
  BY <1>1, <1>2, AnswerMoves DEF Results
<1> QED
  BY <1>3, <1>5, <1>6, <1>7, RemoveWriteEffect

LEMMA BeginStep ==
  ASSUME IInv, NEW c \in Callers, Free(c), NEW pc \in {"adding", "listing"},
         NEW z \in Zones, NEW A \in SUBSET Addrs, NEW read, UNCHANGED pools,
         call' = [call EXCEPT ![c] = [pc |-> pc, zone |-> z, addrs |-> A,
                                      read |-> read, unused |-> {}]]
  PROVE  Atomic!Next
<1>1. Operations[c].kind \in {"none", "ok", "error"}
  BY DEF IInv, PoolTypeOK, Operations, Promised, Kind, Running, Free, Call, Adding, Removing
<1>2. PICK kind \in {"add", "select"} :
        Operations' = [Operations EXCEPT ![c] = [kind |-> kind, zone |-> z, addrs |-> A]]
  <2> DEFINE next == [pc |-> pc, zone |-> z, addrs |-> A, read |-> read, unused |-> {}]
  <2>1. Operations' = [Operations EXCEPT ![c] = Promised(next)]
    BY OperationMoves DEF IInv
  <2>2. Promised(next) = [kind |-> IF pc = "adding" THEN "add" ELSE "select", zone |-> z, addrs |-> A]
    BY DEF Promised, Kind, Running
  <2> QED
    BY <2>1, <2>2
<1>3. Served' = Served
  BY DEF Served
<1> QED
  BY <1>1, <1>2, <1>3 DEF Atomic!Next, Atomic!Begin, Atomic!Becomes

LEMMA SelectStep ==
  ASSUME IInv, NEW c \in Callers, RemoveList(c)
  PROVE  Atomic!Next
<1> DEFINE A == NotInUse(call[c].addrs)
           next == [call[c] EXCEPT !.pc = "removing", !.unused = A]
<1>1. call[c] \in Removing /\ call[c].pc = "listing" /\ A \in SUBSET call[c].addrs
  BY DEF IInv, PoolTypeOK, RemoveList, Call, Adding, NotInUse
<1>2. /\ Operations[c] = [kind |-> "select", zone |-> call[c].zone, addrs |-> call[c].addrs]
      /\ Promised(next) = [kind |-> "remove", zone |-> call[c].zone, addrs |-> A]
  BY <1>1 DEF Operations, Promised, Kind, Running, Removing
<1>3. call' = [call EXCEPT ![c] = next]
  BY DEF RemoveList
<1>4. Operations' = [Operations EXCEPT ![c] = [kind |-> "remove", zone |-> call[c].zone, addrs |-> A]]
  BY <1>2, <1>3, OperationMoves DEF IInv
<1>5. Served' = Served
  BY DEF Served, RemoveList
<1>6. /\ Operations[c].kind = "select" /\ Operations[c].zone = call[c].zone
      /\ Operations[c].addrs = call[c].addrs
  BY <1>2
<1> HIDE DEF A, next
<1>7. Atomic!Select(c)
  BY <1>1, <1>4, <1>5, <1>6 DEF Atomic!Select, Atomic!Becomes
<1> QED
  BY <1>7 DEF Atomic!Next

(* Every operation on a pool takes effect at most once, in one step, exactly
   on what is stored then, also when the answer to its write is lost and its
   handler is told of an error; success means it took effect.  Handlers need
   not know of each other. *)
THEOREM Linearized == Spec => OperationsAreAtomic
<1>1. Init => Atomic!Init
  BY DEF Init, Atomic!Init, Served, Operations, Promised, Kind, Running, Absent
<1>2. IInv /\ [Next]_vars => [Atomic!Next]_<<Served, Operations>>
  <2> SUFFICES ASSUME IInv, [Next]_vars
               PROVE  Atomic!Next \/ (UNCHANGED Served /\ UNCHANGED Operations)
    OBVIOUS
  <2>1. ASSUME NEW c \in Callers, StartAdd(c) PROVE Atomic!Next
    BY <2>1, BeginStep DEF StartAdd, AddGet
  <2>2. ASSUME NEW c \in Callers, StartRemove(c) PROVE Atomic!Next
    <3>1. PICK z \in Zones, A \in SUBSET Addrs : RemoveGet(c, z, A)
      BY <2>2 DEF StartRemove
    <3>2. CASE SeenPool(z) = Absent
      BY <3>1, <3>2, FailStep DEF IInv, RemoveGet
    <3>3. CASE SeenPool(z) # Absent
      BY <3>1, <3>3, BeginStep DEF RemoveGet
    <3> QED
      BY <3>2, <3>3
  <2>3. ASSUME NEW c \in Callers, CallFails(c) PROVE Atomic!Next
    BY <2>3, FailStep DEF IInv, CallFails
  <2>4. CASE UNCHANGED <<pools, call>>
    BY <2>4 DEF Served, Operations
  <2> QED
    BY <2>1, <2>2, <2>3, <2>4, AddWriteStep, RemoveWriteStep, SelectStep
    DEF Next, Operate, AnswerLost, Results, SyncPool, ServiceChanges, SyncServices, vars
<1> QED
  BY <1>1, <1>2, Invariance, PTL DEF Spec, OperationsAreAtomic, Atomic!Spec
=============================================================================
