------------------------------- MODULE IpPool -------------------------------
(***************************************************************************)
(* The MetalLB IPAddressPool manager of internal/utils/ip-pool.go.         *)
(*                                                                         *)
(* There is one pool per zone.  A webhook handler (a caller) adds or       *)
(* removes addresses with separate calls to the Kubernetes API: a Get, for *)
(* removals a List of Services, and one write.  The Get and the List are   *)
(* answered by controller-runtime's informer cache, which may be behind    *)
(* the API server; writes go to the API server, whose optimistic           *)
(* concurrency control compares resource versions on Update, refuses to    *)
(* Create what exists, and does not compare anything on Delete.  Any call  *)
(* may fail, and a write that fails may all the same have taken effect:    *)
(* the handler gets the same error when only the answer was lost.          *)
(*                                                                         *)
(* lbAddrs is what the API server stores of Services as far as this file   *)
(* is concerned: the addresses annotation of each LoadBalancer Service.    *)
(*                                                                         *)
(* A definition placed before another one and named for a slip             *)
(* (ExtendedByOverwriting, RemoveWriteNeverDeletes, ...) is a variant of   *)
(* it that nothing uses: with it, one of the properties fails.             *)
(***************************************************************************)
EXTENDS Naturals

CONSTANTS Callers,      \* handlers that may be in a pool operation at once
          Services,     \* names of Services
          Zones,        \* zones, each the name of one pool
          Addrs,        \* addresses
          InformerLag,  \* whether reads may be answered by a stale cache
          MaxRev        \* bound: no operation starts once rev has reached it

ASSUME IpPoolAssumption == InformerLag \in BOOLEAN /\ MaxRev \in Nat

VARIABLES pools,      \* the pool of each zone in the API server
          rev,        \* the API server's latest resource version
          poolCache,  \* the pools as the informer cache has them
          lbAddrs,    \* addresses annotation of each LoadBalancer Service
          lbCache,    \* lbAddrs as the informer cache has it
          call        \* each caller's operation in progress, or its result

poolVars == <<pools, rev, poolCache, call>>
envVars == <<lbAddrs, lbCache>>
vars == <<pools, rev, poolCache, lbAddrs, lbCache, call>>
----------------------------------------------------------------------------
Pool == [rv : Nat, addrs : SUBSET Addrs]
Absent == [rv |-> 0, addrs |-> {}]

\* Adding goes on with a pool that was absent, removing does not.
Running == {"adding", "listing", "removing"}
Adding == [pc : {"adding"}, zone : Zones, addrs : SUBSET Addrs, read : Pool, unused : {{}}]
Removing == [pc : {"listing", "removing"}, zone : Zones, addrs : SUBSET Addrs,
             read : Pool \ {Absent}, unused : SUBSET Addrs]
Call == [pc : {"idle", "ok", "error"}] \cup Adding \cup Removing

Free(c) == call[c].pc \notin Running
Answer(c, result) == call' = [call EXCEPT ![c] = [pc |-> result]]

\* What a read through the controller-runtime client returns.
SeenPool(z) == IF InformerLag THEN poolCache[z] ELSE pools[z]
SeenLbAddrs == IF InformerLag THEN lbCache ELSE lbAddrs

\* The API server stores a pool under a new resource version.
Store(z, A) == /\ rev' = rev + 1
               /\ pools' = [pools EXCEPT ![z] = [rv |-> rev', addrs |-> A]]

\* The three writes take the answer that the caller gets when the write takes
\* effect: "ok", or "error" when the answer is lost on the way back.
CreateConflicts(z) == pools[z] # Absent
CreatePool(c, z, A, answer) ==
  IF CreateConflicts(z)
    THEN Answer(c, "error") /\ UNCHANGED <<pools, rev>>
    ELSE Answer(c, answer) /\ Store(z, A)

\* An Update that changes nothing succeeds without a new resource version.
UpdateConflicts(z, read) == pools[z].rv # read.rv
UpdatePool(c, z, read, A, answer) ==
  IF UpdateConflicts(z, read)
    THEN Answer(c, "error") /\ UNCHANGED <<pools, rev>>
    ELSE /\ Answer(c, answer)
         /\ IF A = pools[z].addrs THEN UNCHANGED <<pools, rev>> ELSE Store(z, A)

\* Delete carries no precondition on the resource version.
DeleteConflicts(z, read) == pools[z] = Absent
DeletePool(c, z, read, answer) ==
  IF DeleteConflicts(z, read)
    THEN Answer(c, "error") /\ UNCHANGED <<pools, rev>>
    ELSE /\ Answer(c, answer)
         /\ rev' = rev + 1
         /\ pools' = [pools EXCEPT ![z] = Absent]
----------------------------------------------------------------------------
(* AddIpAddressesToPool *)

AddGet(c, z, A) ==
  /\ Free(c)
  /\ call' = [call EXCEPT ![c] = [pc |-> "adding", zone |-> z, addrs |-> A,
                                  read |-> SeenPool(z), unused |-> {}]]
  /\ UNCHANGED <<pools, rev, poolCache>>

ExtendedByOverwriting(read, A) == A
ExtendedUnlessSomeAreThere(read, A) ==
  IF A \cap read.addrs = {} THEN read.addrs \cup A ELSE read.addrs
Extended(read, A) == read.addrs \cup A

AddWrite(c, answer) ==
  LET op == call[c] IN
  /\ op.pc = "adding"
  /\ \/ op.read = Absent /\ CreatePool(c, op.zone, op.addrs, answer)
     \/ op.read # Absent
          /\ UpdatePool(c, op.zone, op.read, Extended(op.read, op.addrs), answer)
  /\ UNCHANGED poolCache
----------------------------------------------------------------------------
(* RemoveIPAddressesFromPool *)

RemoveGetUnchecked(c, z, A) ==
  /\ Free(c)
  /\ call' = [call EXCEPT ![c] = [pc |-> "listing", zone |-> z, addrs |-> A,
                                  read |-> SeenPool(z), unused |-> {}]]
  /\ UNCHANGED <<pools, rev, poolCache>>
RemoveGetMissingIsDone(c, z, A) ==
  /\ Free(c)
  /\ IF SeenPool(z) = Absent
       THEN Answer(c, "ok")
       ELSE call' = [call EXCEPT ![c] = [pc |-> "listing", zone |-> z, addrs |-> A,
                                         read |-> SeenPool(z), unused |-> {}]]
  /\ UNCHANGED <<pools, rev, poolCache>>
RemoveGet(c, z, A) ==
  /\ Free(c)
  /\ IF SeenPool(z) = Absent
       THEN Answer(c, "error")
       ELSE call' = [call EXCEPT ![c] = [pc |-> "listing", zone |-> z, addrs |-> A,
                                         read |-> SeenPool(z), unused |-> {}]]
  /\ UNCHANGED <<pools, rev, poolCache>>

\* "Not in use" means used by exactly one LoadBalancer Service, the one that
\* is being updated or deleted.
UsedBy(a) == {s \in Services : a \in SeenLbAddrs[s]}
NotInUseUnchecked(A) == A
NotInUseWhenListedByNone(A) == {a \in A : UsedBy(a) = {}}
NotInUse(A) == {a \in A : \E s \in Services : UsedBy(a) = {s}}

RemoveListInPlace(c) ==
  /\ call[c].pc = "listing"
  /\ call' = [call EXCEPT ![c].pc = "removing", ![c].unused = NotInUse(call[c].addrs),
                          ![c].read.addrs = @ \ NotInUse(call[c].addrs)]
  /\ UNCHANGED <<pools, rev, poolCache>>
RemoveList(c) ==
  /\ call[c].pc = "listing"
  /\ call' = [call EXCEPT ![c].pc = "removing", ![c].unused = NotInUse(call[c].addrs)]
  /\ UNCHANGED <<pools, rev, poolCache>>

Remaining(read, unused) == read.addrs \ unused

RemoveWriteNeverDeletes(c, answer) ==
  LET op == call[c] IN
  /\ op.pc = "removing"
  /\ UpdatePool(c, op.zone, op.read, Remaining(op.read, op.unused), answer)
  /\ UNCHANGED poolCache
RemoveWrite(c, answer) ==
  LET op == call[c]
      rest == Remaining(op.read, op.unused)
  IN /\ op.pc = "removing"
     /\ \/ rest = {} /\ DeletePool(c, op.zone, op.read, answer)
        \/ rest # {} /\ UpdatePool(c, op.zone, op.read, rest, answer)
     /\ UNCHANGED poolCache

\* The API server cannot be reached, or refuses the List or the write: the
\* call fails and changes nothing.
CallFails(c) ==
  /\ call[c].pc \in Running
  /\ Answer(c, "error")
  /\ UNCHANGED <<pools, rev, poolCache>>

\* The API server carries the write out, but the handler does not learn of it
\* and returns the error it returns for any failed write.
AnswerLost(c) == AddWrite(c, "error") \/ RemoveWrite(c, "error")
----------------------------------------------------------------------------
(* VerifyIpAddressPool and VerifyIpAddressesInPool: one of the addresses is
   enough for the latter. *)

VerifyIpAddressPool(z) == SeenPool(z) # Absent
VerifyIpAddressesInPool(z, A) == A \cap SeenPool(z).addrs # {}

\* The informer cache catches up with one pool.
SyncPool(z) ==
  /\ poolCache[z] # pools[z]
  /\ poolCache' = [poolCache EXCEPT ![z] = pools[z]]
  /\ UNCHANGED <<pools, rev, call>>
----------------------------------------------------------------------------
(* The component on its own: the rest of the operator calls it at any time
   and the Services change in any way. *)

Init ==
  /\ pools = [z \in Zones |-> Absent]
  /\ rev = 0
  /\ poolCache = pools
  /\ lbAddrs = [s \in Services |-> {}]
  /\ lbCache = lbAddrs
  /\ call = [c \in Callers |-> [pc |-> "idle"]]

StartAdd(c) == /\ rev < MaxRev
               /\ \E z \in Zones, A \in (SUBSET Addrs) \ {{}} : AddGet(c, z, A)
StartRemove(c) == /\ rev < MaxRev
                  /\ \E z \in Zones, A \in (SUBSET Addrs) \ {{}} : RemoveGet(c, z, A)

Operate == \E c \in Callers :
             \/ StartAdd(c) \/ AddWrite(c, "ok")
             \/ StartRemove(c) \/ RemoveList(c) \/ RemoveWrite(c, "ok")
             \/ CallFails(c) \/ AnswerLost(c)

ServiceChanges(s) == /\ \E A \in SUBSET Addrs : lbAddrs' = [lbAddrs EXCEPT ![s] = A]
                     /\ UNCHANGED <<pools, rev, poolCache, lbCache, call>>
SyncServices == /\ lbCache' = lbAddrs
                /\ UNCHANGED <<pools, rev, poolCache, lbAddrs, call>>

Next == \/ Operate /\ UNCHANGED envVars
        \/ \E z \in Zones : SyncPool(z) /\ UNCHANGED envVars
        \/ \E s \in Services : ServiceChanges(s)
        \/ SyncServices

Spec == Init /\ [][Next]_vars
----------------------------------------------------------------------------
(* Every variable stays in its type: the state an operation carries from its
   read to its write in AddIpAddressesToPool and RemoveIPAddressesFromPool. *)
PoolTypeOK ==
  /\ pools \in [Zones -> Pool]
  /\ rev \in Nat
  /\ poolCache \in [Zones -> Pool]
  /\ lbAddrs \in [Services -> SUBSET Addrs]
  /\ lbCache \in [Services -> SUBSET Addrs]
  /\ call \in [Callers -> Call]

(* A pool that exists has an address: MetalLB refuses an empty pool, and
   RemoveIPAddressesFromPool deletes it instead of updating it to nothing,
   whatever it had read when it started. *)
PoolNeverEmpty == \A z \in Zones : pools[z] # Absent => pools[z].addrs # {}

(* Optimistic concurrency: an operation whose read has the resource version
   the API server still has, has read what is stored.  This is what makes the
   Update of a pool computed from an earlier, possibly cached, Get safe. *)
SnapshotAgrees ==
  \A c \in Callers : ~Free(c) =>
     (call[c].read.rv = pools[call[c].zone].rv => call[c].read = pools[call[c].zone])

(* No lost update: an address leaves a pool that survives the step only by
   a RemoveIPAddressesFromPool that found this very address not in use; a
   concurrent add or remove never overwrites it. *)
LeavesOnlyWhenUnused ==
  \A z \in Zones : pools'[z] # Absent =>
     \A a \in pools[z].addrs \ pools'[z].addrs :
        \E c \in Callers : call[c].pc = "removing" /\ call[c].zone = z /\ a \in call[c].unused
UpdateKeepsOthers == [][LeavesOnlyWhenUnused]_vars

(* An operation that answers success did its work: the addresses it added
   are in the pool as the API server has it, those it found not in use are
   out of it. *)
DoneWhenAnswered ==
  \A c \in Callers : call'[c].pc = "ok" =>
     /\ call[c].pc = "adding" => call[c].addrs \subseteq pools'[call[c].zone].addrs
     /\ call[c].pc = "removing" => call[c].unused \cap pools'[call[c].zone].addrs = {}
OkMeansDone == [][DoneWhenAnswered]_vars

(* Handlers may treat a pool operation as one step: whatever was added or
   removed between its Get and its write, it takes effect at most once, at
   its write, exactly and entirely on what the API server has then.  One that
   answers success took effect; one that answers an error did not, or did
   so just then and its answer was lost, but never does so later. *)
Kind(pc) == CASE pc = "adding" -> "add" [] pc = "listing" -> "select"
              [] pc = "removing" -> "remove" [] pc = "idle" -> "none" [] OTHER -> pc
Promised(o) == IF o.pc \in Running
                 THEN [kind |-> Kind(o.pc), zone |-> o.zone,
                       addrs |-> IF o.pc = "removing" THEN o.unused ELSE o.addrs]
                 ELSE [kind |-> Kind(o.pc)]
Served == [z \in Zones |-> pools[z].addrs]
Operations == [c \in Callers |-> Promised(call[c])]
Atomic == INSTANCE AtomicPools WITH served <- Served, op <- Operations
OperationsAreAtomic == Atomic!Spec

(* "Delete IP-Address Pool if there is no more ip-addresses left in the
   pool!" (ip-pool.go): a pool is deleted only when each address it has was
   found not in use by the operation that deletes it. *)
NothingLeftWhenDeleted ==
  \A z \in Zones : pools[z] # Absent /\ pools'[z] = Absent =>
     \E c \in Callers : call[c].pc = "removing" /\ call[c].zone = z
                          /\ pools[z].addrs \subseteq call[c].unused
DeletedWasEmptied == [][NothingLeftWhenDeleted]_vars
=============================================================================
