------------------------ MODULE TidyServices_proofs ------------------------
(***************************************************************************)
(* Proofs that MetalLB is left with nothing that no Service uses: when no  *)
(* request is in progress, the pool of a zone has only addresses that a    *)
(* stored Service of that zone lists.                                      *)
(*                                                                         *)
(* One request at a time, whose calls do not fail, and zones that share no *)
(* address: a removal counts the Services that list an address, in         *)
(* whichever zone they are.                                                *)
(***************************************************************************)
EXTENDS PooledServices_proofs

TidyLast == Serial /\ \A y, z \in Zones : Prefix[y] \cap Prefix[z] # {} => y = z

\* The addresses of zone z that a Service lists, and those that another stored
\* Service than s, or any of them, lists.
ListedIn(svc, z) == IF IsLB(svc) /\ svc.ann.zone = z THEN SetOf(svc.ann.addrs) ELSE {}
OthersIn(s, z) == UNION {ListedIn(store[t], z) : t \in Services \ {s}}
AnyonesIn(z) == UNION {ListedIn(store[s], z) : s \in Services}

\* The request may have put the new addresses in, and has taken out the old ones.
Given(q, c) ==
  \/ q.pc \in AfterPools
  \/ q.pc \in {"create_pooling", "update_pooling", "delete_removing"} /\ c.pc = "ok"
Taken(q, c) ==
  \/ q.pc = "admitted"
  \/ q.pc \in {"create_pooling", "update_removing", "delete_removing"} /\ c.pc = "ok"

Allowed(c, q, z) == OthersIn(q.svc, z) \cup (IF Given(q, c) THEN ListedIn(q.new, z) ELSE {})
                                       \cup (IF Taken(q, c) THEN {} ELSE ListedIn(q.old, z))
Accounted(pp, c, q) == \A z \in Zones : pp[z].addrs \subseteq Allowed(c, q, z)

(* A removal gets through, and what it does not take another Service uses. *)
GivenUp(q) == IF q.op = "update" THEN SetOf(q.old.ann.addrs) \ SetOf(q.new.ann.addrs)
                                 ELSE SetOf(q.old.ann.addrs)
Removes(c, q) ==
  /\ c.pc # "error"
  /\ c.pc \in {"listing", "removing"} => c.zone = q.old.ann.zone /\ c.addrs = GivenUp(q)
  /\ c.pc = "removing" =>
       \A a \in c.addrs \ c.unused : \E t \in Services \ {q.svc} : a \in LbAddrs[t]

UpdateTidy(pp, c, q) ==
  /\ q.pc \in AfterPools \ {"admitted"} => InOneZone(q)
  /\ q.pc \in AfterPools /\ ~Taken(q, c) => Pooled(pp, q.old)

Tidy(pp, c, q) ==
  /\ Accounted(pp, c, q)
  /\ q.op = "update" => UpdateTidy(pp, c, q)
  /\ q.pc \in {"update_removing", "delete_removing"} => Removes(c, q)

TInv ==
  /\ TidyLast
  /\ \A r \in Slots : Active(r) => Tidy(pools, call[r], req[r])
  /\ (\A r \in Slots : ~Active(r)) => \A z \in Zones : pools[z].addrs \subseteq AnyonesIn(z)

----------------------------------------------------------------------------
(* What is known of the request a handler works on. *)

LEMMA Known ==
  ASSUME WInv, PInv, TInv, NEW r \in Slots, req[r].pc # "idle"
  PROVE  /\ Active(r) /\ Sound(req[r]) /\ req[r] \in AnyRequest /\ req[r].svc \in Services
         /\ Pledged(pools, call[r], req[r]) /\ Tidy(pools, call[r], req[r])
         /\ Serial /\ Undisputed(r) /\ \A o \in Slots : o = r
         /\ req[r].op \in {"create", "update", "delete"}
         /\ req[r].op = "create" => req[r].pc \in DefaultPhases \cup CreatePhases
         /\ req[r].op = "update" => req[r].pc \in DefaultPhases \cup UpdatePhases
         /\ req[r].op = "delete" => req[r].pc \in DeletePhases
         /\ req[r].op = "update" /\ req[r].pc \notin DefaultPhases => Updating(req[r])
<1>1. Serial
  BY DEF TInv, TidyLast
<1>2. /\ Active(r) /\ Sound(req[r]) /\ req[r] \in AnyRequest /\ req[r].svc \in Services
      /\ Pledged(pools, call[r], req[r]) /\ Undisputed(r)
      /\ req[r].op \in {"create", "update", "delete"}
      /\ req[r].op = "update" /\ req[r].pc \notin DefaultPhases => Updating(req[r])
  BY <1>1, Pledges
<1>3. Tidy(pools, call[r], req[r]) /\ \A o \in Slots : o = r
  BY <1>1, <1>2, OneRequest DEF TInv
<1>4. /\ req[r].op = "create" => req[r].pc \in DefaultPhases \cup CreatePhases
      /\ req[r].op = "update" => req[r].pc \in DefaultPhases \cup UpdatePhases
      /\ req[r].op = "delete" => req[r].pc \in DeletePhases
  BY <1>2 DEF Sound, Phased
<1> QED
  BY <1>1, <1>2, <1>3, <1>4

\* The Services a request sees, and its own.
LEMMA Everyones ==
  ASSUME NEW s \in Services, NEW z
  PROVE  AnyonesIn(z) = OthersIn(s, z) \cup ListedIn(store[s], z)
  BY DEF AnyonesIn, OthersIn

\* A request begins, moves on or is over.
LEMMA SlotTidies ==
  ASSUME WInv, TInv, NEW r \in Slots, NEW p, Continue(r, p), UNCHANGED store,
         p.pc # "idle" => Tidy(pools', call'[r], p),
         p.pc = "idle" => \A z \in Zones : pools'[z].addrs \subseteq AnyonesIn(z)
  PROVE  TInv'
<1>1. \A o \in Slots : o = r
  BY DEF TInv, TidyLast, Serial
<1>2. req'[r] = p
  BY DEF WInv, WebhookTypeOK, Continue
<1> QED
  BY <1>1, <1>2 DEF TInv, TidyLast, Serial, Active, Tidy, Accounted, Allowed, OthersIn, AnyonesIn,
     Removes, LbAddrs

\* Before a request has touched a pool, and where it stays so.
LEMMA Untouched ==
  ASSUME NEW q, NEW c, q.pc \notin PoolPhases \cup AfterPools
  PROVE  ~Given(q, c) /\ ~Taken(q, c)
  BY DEF Given, Taken, PoolPhases, AfterPools

LEMMA StaysUntouched ==
  ASSUME NEW pp, NEW c, NEW q, Accounted(pp, c, q), q.pc \notin AfterPools, ~Given(q, c),
         NEW d, NEW p, p.svc = q.svc, p.old = q.old, ~Given(p, d), ~Taken(p, d),
         p.pc \notin {"update_removing", "delete_removing"}
  PROVE  Tidy(pp, d, p)
<1>1. Accounted(pp, d, p)
  BY DEF Accounted, Allowed
<1>2. p.pc \notin AfterPools
  BY DEF Given
<1> QED
  BY <1>1, <1>2 DEF Tidy, UpdateTidy

\* A Service that has addresses, all of them in the pool, finds the pool there.
LEMMA SomethingPooled ==
  ASSUME NEW svc \in AnyService, IsLB(svc), HasFamilies(svc), Pooled(pools, svc)
  PROVE  /\ SetOf(svc.ann.addrs) \cap pools[svc.ann.zone].addrs # {} /\ SetOf(svc.ann.addrs) # {}
         /\ pools[svc.ann.zone] # Pool!Absent
<1>1. svc.ann.addrs \in Seq(Addrs) /\ svc.ann.addrs # <<>>
  BY Listing
<1>2. svc.ann.addrs[1] \in SetOf(svc.ann.addrs)
  BY <1>1 DEF SetOf
<1>3. svc.ann.addrs[1] \in pools[svc.ann.zone].addrs
  BY <1>2 DEF Pooled
<1> QED
  BY <1>2, <1>3 DEF Pool!Absent

LEMMA NothingGone ==
  ASSUME NEW svc \in AnyService, IsLB(svc), HasFamilies(svc), Pooled(pools, svc), Serial
  PROVE  /\ Pool!VerifyIpAddressPool(svc.ann.zone)
         /\ Pool!VerifyIpAddressesInPool(svc.ann.zone, SetOf(svc.ann.addrs))
  BY SomethingPooled DEF Serial, Pool!VerifyIpAddressPool, Pool!VerifyIpAddressesInPool, Pool!SeenPool

\* An update that has nothing to take out of a pool needs all it lists.
LEMMA NothingToTake ==
  ASSUME NEW q, Updating(q), RemovePrefixes(q) = <<>>, InOneZone(q), NEW z
  PROVE  ListedIn(q.old, z) \subseteq ListedIn(q.new, z)
<1>1. SetOf(q.old.ann.addrs) \ SetOf(q.new.ann.addrs) = {}
  BY PrefixSets, NothingListed DEF Updating
<1>2. q.old.ann.addrs \in Seq(Addrs) /\ q.old.ann.addrs # <<>>
  BY Listing DEF Updating
<1>3. q.old.ann.addrs[1] \in SetOf(q.old.ann.addrs)
  BY <1>2 DEF SetOf
<1>4. q.old.ann.zone = q.new.ann.zone
  BY <1>1, <1>3 DEF InOneZone, KeptOnes
<1> QED
  BY <1>1, <1>4 DEF ListedIn, Updating

\* Where an update goes on from when its addresses are in the pool.
LEMMA UpdateTidies ==
  ASSUME NEW pp, NEW c, NEW q, Updating(q), Accounted(pp, c, q),
         NEW d, NEW p, Follows(p, q), p.pc \in {"update_verify", "update_remove", "admitted"},
         p.pc # "admitted" => ~Taken(q, c) /\ InOneZone(q) /\ Pooled(pp, q.old),
         p.pc = "admitted" => \A z \in Zones : ~Taken(q, c) =>
                                 ListedIn(q.old, z) \subseteq ListedIn(q.new, z)
  PROVE  Tidy(pp, d, p)
<1>1. p.svc = q.svc /\ p.old = q.old /\ p.new = q.new /\ (InOneZone(p) <=> InOneZone(q))
  BY FollowsCarries, FollowsPledged
<1>2. Given(p, d) /\ (Taken(p, d) <=> p.pc = "admitted")
  BY DEF Given, Taken, AfterPools
<1>3. Accounted(pp, d, p)
  <2> SUFFICES ASSUME NEW z \in Zones PROVE Allowed(c, q, z) \subseteq Allowed(d, p, z)
    BY DEF Accounted
  <2> QED
    BY <1>1, <1>2 DEF Allowed
<1>4. UpdateTidy(pp, d, p)
  BY <1>1, <1>2 DEF UpdateTidy, AfterPools
<1> QED
  BY <1>3, <1>4 DEF Tidy

\* The request is denied before it has touched a pool.
LEMMA DeniedTidies ==
  ASSUME WInv, PInv, TInv, NEW r \in Slots, req[r].pc # "idle", ~Given(req[r], call[r]),
         Continue(r, Idle), UNCHANGED <<store, pools>>
  PROVE  TInv'
<1> DEFINE q == req[r]
<1>1. q.svc \in Services /\ Accounted(pools, call[r], q) /\ q.old = store[q.svc]
  BY Known DEF Tidy, Undisputed
<1>2. \A z \in Zones : pools[z].addrs \subseteq AnyonesIn(z)
  <2> SUFFICES ASSUME NEW z \in Zones PROVE pools[z].addrs \subseteq AnyonesIn(z)
    OBVIOUS
  <2>1. pools[z].addrs \subseteq OthersIn(q.svc, z) \cup ListedIn(q.old, z)
    BY <1>1 DEF Accounted, Allowed
  <2> QED
    BY <1>1, <2>1, Everyones
<1> QED
  BY <1>2, SlotTidies DEF Idle

LEMMA OwnTidies ==
  ASSUME WInv, PInv, TInv, NEW r \in Slots, OwnMove(r), req[r].pc \notin PoolPhases \cup {"idle", "admitted"}
  PROVE  TInv'
<1> DEFINE q == req[r]
           c == call[r]
<1>1. PICK p : Continue(r, p) /\ MovesOn(q, p)
  BY DEF OwnMove
<1>2. UNCHANGED <<store, pools, call>>
  BY DEF OwnMove, poolVars
<1>3. /\ Sound(q) /\ q \in AnyRequest /\ q.svc \in Services /\ Pledged(pools, c, q)
      /\ Accounted(pools, c, q) /\ (q.op = "update" => UpdateTidy(pools, c, q))
      /\ Serial /\ q.old = store[q.svc] /\ q.op \in {"create", "update", "delete"}
      /\ q.op = "create" => q.pc \in DefaultPhases \cup CreatePhases
      /\ q.op = "update" => q.pc \in DefaultPhases \cup UpdatePhases
      /\ q.op = "delete" => q.pc \in DeletePhases
      /\ q.op = "update" /\ q.pc \notin DefaultPhases => Updating(q)
  BY Known DEF Tidy, Undisputed
<1>4. /\ q.op \in {"create", "delete"} => q.pc \notin AfterPools
      /\ q.pc \in BeforePools => q.pc \notin AfterPools
  BY <1>3 DEF DefaultPhases, CreatePhases, DeletePhases, AfterPools, BeforePools
<1>5. q.pc \notin AfterPools => ~Given(q, c) /\ ~Taken(q, c)
  BY Untouched
<1>6. ASSUME p.pc # "idle", Tidy(pools, c, p) PROVE TInv'
  BY <1>1, <1>2, <1>6, SlotTidies
<1>7. ASSUME q.pc \notin AfterPools, p.pc # "idle", p.svc = q.svc, p.old = q.old,
             p.pc \notin PoolPhases \cup AfterPools
      PROVE  TInv'
  <2>1. ~Given(p, c) /\ ~Taken(p, c) /\ p.pc \notin {"update_removing", "delete_removing"}
    BY <1>7, Untouched DEF PoolPhases
  <2> QED
    BY <1>3, <1>5, <1>6, <1>7, <2>1, StaysUntouched
<1>8. CASE Denies(q, p)
  <2>1. q.pc \notin AfterPools
    BY <1>4, <1>8 DEF Denies, AfterPools
  <2> QED
    BY <1>1, <1>2, <1>5, <1>8, <2>1, DeniedTidies DEF Denies
<1>9. CASE Defaults(q, p)
  <2>1. q.pc \notin AfterPools /\ p.pc \notin PoolPhases \cup AfterPools /\ p.pc # "idle"
    BY <1>9 DEF Defaults, DefaultPhases, AfterPools, PoolPhases
  <2> QED
    BY <1>7, <1>9, <2>1 DEF Defaults, Carries
<1>10. CASE Creates(q, p)
  <2>1. p.svc = q.svc /\ p.old = q.old /\ q.pc \notin AfterPools
    BY <1>4, <1>10, FollowsCarries DEF Creates
  <2>2. IsLB(q.new)
    BY <1>3, <1>10 DEF Creates, Pledged, CreatePledged
  <2>3. p.pc \notin PoolPhases \cup AfterPools /\ p.pc # "idle"
    BY <1>10, <2>2 DEF Creates, AfterPools, PoolPhases
  <2> QED
    BY <1>7, <2>1, <2>3
<1>11. CASE Updates(q, p)
  <2>1. /\ Updating(q) /\ UpdatePledged(pools, c, q) /\ UpdateTidy(pools, c, q)
        /\ p.svc = q.svc /\ p.old = q.old /\ q.pc \in UpdatePhases
    BY <1>3, <1>11, FollowsCarries DEF Updates, Pledged
  <2>2. CASE p.pc \in BeforePools
    <3>1. q.pc \notin AfterPools /\ p.pc # "idle" /\ p.pc \notin PoolPhases \cup AfterPools
      BY <1>4, <1>11, <2>2 DEF Updates, AfterPools, BeforePools, UpdatePhases, DefaultPhases
    <3> QED
      BY <1>7, <2>1, <3>1
  <2>3. CASE p.pc \in AfterPools
    <3>1. /\ p.pc \in {"update_verify", "update_remove", "admitted"} /\ p.pc # "idle"
          /\ q.pc \in AfterPools \/ q.pc \in BeforePools
      BY <1>11, <2>1, <2>3 DEF Updates, AfterPools, BeforePools, PoolPhases, UpdatePhases
    <3>2. ~Taken(q, c)
      BY DEF Taken, PoolPhases
    <3>3. Pooled(pools, q.old)
      BY <2>1, <3>1, <3>2 DEF UpdatePledged, UpdateTidy
    <3>4. InOneZone(q)
      <4>1. q.pc \in AfterPools => InOneZone(q)
        BY <2>1 DEF UpdateTidy
      <4>2. q.pc \in Zoned \/ NothingToDo(q) => InOneZone(q)
        BY <2>1 DEF UpdatePledged, NothingToDo, InOneZone, Updating
      <4> QED
        BY <1>11, <2>3, <4>1, <4>2 DEF Updates
    <3>5. ASSUME p.pc = "admitted", NEW z \in Zones
          PROVE  ListedIn(q.old, z) \subseteq ListedIn(q.new, z)
      <4>1. NothingToDo(q) \/ RemovePrefixes(q) = <<>>
        BY <1>3, <1>11, <2>1, <3>3, <3>5, NothingGone DEF Updates, LeavesNothing, Updating
      <4>2. CASE NothingToDo(q)
        BY <2>1, <4>2 DEF NothingToDo, Updating, ListedIn
      <4> QED
        BY <2>1, <3>4, <4>1, <4>2, NothingToTake
    <3>6. Follows(p, q)
      BY <1>11 DEF Updates
    <3>7. Tidy(pools, c, p)
      BY <1>3, <2>1, <3>1, <3>2, <3>3, <3>4, <3>5, <3>6, UpdateTidies
    <3> QED
      BY <1>6, <3>1, <3>7
  <2> QED
    BY <1>11, <2>2, <2>3 DEF Updates, UpdatePhases, PoolPhases, AfterPools, BeforePools
<1>12. CASE Deletes(q, p)
  <2>1. /\ p.svc = q.svc /\ p.old = q.old /\ q.pc \notin AfterPools
        /\ DeletePledged(pools, c, q) /\ q.old \in AnyService
    BY <1>3, <1>4, <1>12, FollowsCarries, SoundTypes DEF Deletes, Pledged
  <2>2. IsLB(q.old) /\ HasFamilies(q.old)
    BY <1>3, <2>1 DEF DeletePledged, WInv
  <2>3. p.pc # "admitted"
    <3>1. q.pc = "delete_verify" => Pooled(pools, q.old)
      BY <2>1 DEF DeletePledged, DeletePhases
    <3> QED
      BY <1>3, <1>12, <2>1, <2>2, <3>1, NothingGone DEF Deletes
  <2>4. p.pc # "idle" /\ p.pc \notin PoolPhases \cup AfterPools
    BY <1>12, <2>3 DEF Deletes, DeletePhases, AfterPools, PoolPhases
  <2> QED
    BY <1>7, <2>1, <2>4
<1> QED
  BY <1>1, <1>8, <1>9, <1>10, <1>11, <1>12 DEF MovesOn

(* A pool operation begins. *)

LEMMA AddGetTidies ==
  ASSUME WInv, GInv, PInv, TInv, NEW r \in Slots, CreatePoolGet(r) \/ UpdatePoolGet(r)
  PROVE  TInv'
<1> DEFINE q == req[r]
<1>1. /\ q.pc \in {"create_pool", "update_pool"} /\ q.pc # "idle" /\ UNCHANGED store
      /\ q.pc \notin PoolPhases \cup AfterPools
  BY DEF CreatePoolGet, UpdatePoolGet, PoolUnchanged, PoolPhases, AfterPools
<1>2. /\ q \in AnyRequest /\ Accounted(pools, call[r], q)
  BY <1>1, Known DEF Tidy
<1>3. PICK p : /\ Continue(r, p) /\ p.svc = q.svc /\ p.old = q.old
               /\ p.pc \in {"create_pooling", "update_pooling"}
  BY <1>2, Fields, FollowsCarries DEF CreatePoolGet, UpdatePoolGet
<1>4. UNCHANGED pools /\ call'[r].pc = "adding"
  BY DEF CreatePoolGet, UpdatePoolGet, Pool!AddGet, WInv, WebhookTypeOK, Pool!PoolTypeOK
<1>5. ~Given(p, call'[r]) /\ ~Taken(p, call'[r]) /\ ~Given(q, call[r])
  BY <1>1, <1>3, <1>4, Untouched DEF Given, Taken, AfterPools
<1>6. p.pc # "idle" /\ p.pc \notin {"update_removing", "delete_removing"}
  BY <1>3
<1>7. Tidy(pools, call'[r], p)
  BY <1>1, <1>2, <1>3, <1>5, <1>6, StaysUntouched
<1> QED
  BY <1>1, <1>3, <1>4, <1>6, <1>7, SlotTidies

LEMMA RemoveGetTidies ==
  ASSUME WInv, PInv, TInv, NEW r \in Slots, UpdateRemoveGet(r) \/ DeleteRemoveGet(r)
  PROVE  TInv'
<1> DEFINE q == req[r]
<1>1. /\ q.pc \in {"update_remove", "delete_remove"} /\ q.pc # "idle" /\ UNCHANGED store
      /\ q.pc \notin DefaultPhases \cup PoolPhases
  BY DEF UpdateRemoveGet, DeleteRemoveGet, PoolUnchanged, PoolPhases, DefaultPhases
<1>2. /\ Sound(q) /\ q \in AnyRequest /\ q.svc \in Services /\ Pledged(pools, call[r], q)
      /\ Tidy(pools, call[r], q) /\ Serial /\ q.old = store[q.svc]
      /\ q.op = "update" => Updating(q)
      /\ q.pc = "update_remove" => q.op = "update"
      /\ q.pc = "delete_remove" => q.op = "delete"
  BY <1>1, Known, AtPhase DEF Undisputed, UpdatePhases, DeletePhases
<1>3. q.old \in AnyService /\ IsLB(q.old) /\ HasFamilies(q.old) /\ Pooled(pools, q.old)
  <2>1. CASE q.pc = "update_remove"
    BY <1>2, <2>1 DEF Updating, Tidy, UpdateTidy, AfterPools, Taken
  <2>2. CASE q.pc = "delete_remove"
    BY <1>2, <2>2, SoundTypes DEF Pledged, DeletePledged, DeletePhases, WInv
  <2> QED
    BY <1>1, <2>1, <2>2
<1>4. /\ pools[q.old.ann.zone] # Pool!Absent /\ Pool!SeenPool(q.old.ann.zone) = pools[q.old.ann.zone]
  BY <1>2, <1>3, SomethingPooled DEF Serial, Pool!SeenPool
<1>5. PICK p : /\ Continue(r, p) /\ Follows(p, q) /\ Pool!RemoveGet(r, q.old.ann.zone, GivenUp(q))
               /\ q.op = "update" => p.pc = "update_removing"
               /\ q.op = "delete" => p.pc = "delete_removing"
  <2>1. CASE UpdateRemoveGet(r)
    <3>1. q.op = "update" /\ q.pc = "update_remove" /\ SetOf(RemovePrefixes(q)) \cap Addrs = GivenUp(q)
      <4>1. q.op = "update" /\ q.pc = "update_remove"
        BY <1>2, <2>1 DEF UpdateRemoveGet
      <4>2. /\ SetOf(RemovePrefixes(q)) = SetOf(q.old.ann.addrs) \ SetOf(q.new.ann.addrs)
            /\ SetOf(q.old.ann.addrs) \subseteq Addrs
        BY <1>2, <1>3, <4>1, PrefixSets, AddrsKnown DEF Updating
      <4> QED
        BY <4>1, <4>2 DEF GivenUp
    <3>2. Pool!RemoveGet(r, q.old.ann.zone, GivenUp(q)) /\ Continue(r, At(q, "update_removing"))
      BY <2>1, <3>1 DEF UpdateRemoveGet
    <3>3. Follows(At(q, "update_removing"), q) /\ At(q, "update_removing").pc = "update_removing"
      BY <1>2, Fields
    <3> QED
      BY <3>1, <3>2, <3>3
  <2>2. CASE DeleteRemoveGet(r)
    BY <1>2, <2>2, Fields DEF DeleteRemoveGet, GivenUp
  <2> QED
    BY <2>1, <2>2
<1>6. /\ UNCHANGED pools /\ call'[r].pc = "listing" /\ call'[r].zone = q.old.ann.zone
      /\ call'[r].addrs = GivenUp(q)
  BY <1>4, <1>5 DEF Pool!RemoveGet, WInv, WebhookTypeOK, Pool!PoolTypeOK
<1>7. p.old = q.old /\ p.new = q.new /\ p.op = q.op /\ p.svc = q.svc /\ (InOneZone(p) <=> InOneZone(q))
  BY <1>5, FollowsCarries, FollowsPledged
<1>8. Removes(call'[r], p)
  BY <1>6, <1>7 DEF Removes, GivenUp
<1>9. CASE q.op = "update"
  <2>1. /\ q.pc = "update_remove" /\ p.pc = "update_removing"
        /\ Given(q, call[r]) /\ ~Taken(q, call[r]) /\ Given(p, call'[r]) /\ ~Taken(p, call'[r])
    BY <1>1, <1>2, <1>5, <1>6, <1>9 DEF Given, Taken, AfterPools
  <2>2. Accounted(pools, call'[r], p)
    BY <1>2, <1>7, <2>1 DEF Tidy, Accounted, Allowed
  <2>3. UpdateTidy(pools, call'[r], p)
    BY <1>2, <1>3, <1>7, <1>9, <2>1 DEF Tidy, UpdateTidy, AfterPools
  <2>4. Tidy(pools, call'[r], p) /\ p.pc # "idle"
    BY <1>8, <2>1, <2>2, <2>3 DEF Tidy
  <2> QED
    BY <1>1, <1>5, <1>6, <2>4, SlotTidies
<1>10. CASE q.op = "delete"
  <2>1. /\ q.pc = "delete_remove" /\ p.pc = "delete_removing"
        /\ ~Given(q, call[r]) /\ ~Taken(q, call[r]) /\ ~Given(p, call'[r]) /\ ~Taken(p, call'[r])
    BY <1>1, <1>2, <1>5, <1>6, <1>10 DEF Given, Taken, AfterPools
  <2>2. Accounted(pools, call'[r], p)
    BY <1>2, <1>7, <2>1 DEF Tidy, Accounted, Allowed
  <2>3. Tidy(pools, call'[r], p) /\ p.pc # "idle"
    BY <1>7, <1>8, <1>10, <2>1, <2>2 DEF Tidy
  <2> QED
    BY <1>1, <1>5, <1>6, <2>3, SlotTidies
<1> QED
  BY <1>1, <1>2, <1>9, <1>10

(* It runs: what it has read is what is stored, so it gets through. *)
LEMMA RemoveSucceeds ==
  ASSUME WInv, NEW r \in Slots, Pool!RemoveWrite(r, "ok"), call[r].read = pools[call[r].zone]
  PROVE  /\ call'[r].pc = "ok" /\ call[r].pc = "removing" /\ call[r].zone \in Zones
         /\ \A z \in Zones : z # call[r].zone => pools'[z] = pools[z]
         /\ pools'[call[r].zone].addrs = pools[call[r].zone].addrs \ call[r].unused
<1> DEFINE c == call[r]
           rest == Pool!Remaining(c.read, c.unused)
<1>1. /\ call \in [Slots -> Pool!Call] /\ pools \in [Zones -> Pool!Pool] /\ c.pc = "removing"
  BY DEF WInv, WebhookTypeOK, Pool!PoolTypeOK, Pool!RemoveWrite
<1>2. c \in Pool!Removing
  BY <1>1 DEF Pool!Call, Pool!Adding
<1>3. c.zone \in Zones /\ rest = pools[c.zone].addrs \ c.unused /\ pools[c.zone] # Pool!Absent
  BY <1>2 DEF Pool!Removing, Pool!Remaining
<1>4. CASE rest = {} /\ Pool!DeletePool(r, c.zone, c.read, "ok")
  BY <1>1, <1>3, <1>4 DEF Pool!DeletePool, Pool!DeleteConflicts, Pool!Answer, Pool!Absent
<1>5. CASE Pool!UpdatePool(r, c.zone, c.read, rest, "ok")
  <2>1. /\ call'[r].pc = "ok"
        /\ \/ UNCHANGED pools /\ rest = pools[c.zone].addrs
           \/ pools' = [pools EXCEPT ![c.zone] = [rv |-> rev', addrs |-> rest]]
    BY <1>1, <1>5 DEF Pool!UpdatePool, Pool!UpdateConflicts, Pool!Answer, Pool!Store
  <2> HIDE DEF rest
  <2>2. /\ \A z \in Zones : z # c.zone => pools'[z] = pools[z]
        /\ pools'[c.zone].addrs = rest
    BY <1>1, <1>3, <2>1
  <2> QED
    BY <1>1, <1>3, <2>1, <2>2
<1> QED
  BY <1>4, <1>5 DEF Pool!RemoveWrite

LEMMA AddTidies ==
  ASSUME WInv, GInv, PInv, TInv, NEW r \in Slots, Pool!AddWrite(r, "ok"), UNCHANGED <<store, req, lbCache>>
  PROVE  TInv'
<1> DEFINE q == req[r]
           c == call[r]
           d == call'[r]
<1>1. c.pc = "adding" /\ q.pc \in {"create_pooling", "update_pooling"} /\ q.pc # "idle"
  BY Operates DEF Pool!AddWrite, PoolPhases
<1>2. /\ Pledged(pools, c, q) /\ Accounted(pools, c, q) /\ Undisputed(r)
      /\ q.pc = "create_pooling" => q.op = "create"
      /\ q.pc = "update_pooling" => q.op = "update"
      /\ q.op \in {"create", "update", "delete"} /\ Serial
  BY <1>1, Known, Operates DEF Tidy
<1>3. /\ c.zone = q.new.ann.zone /\ c.addrs \subseteq SetOf(q.new.ann.addrs) /\ IsLB(q.new)
  BY <1>1, <1>2 DEF Pledged, CreatePledged, UpdatePledged, NewOnes
<1>4. c.read = pools[c.zone]
  BY <1>1, <1>2 DEF Undisputed, Pool!Running
<1>5. /\ d.pc = "ok" /\ c.zone \in Zones
      /\ \A z \in Zones : z # c.zone => pools'[z] = pools[z]
      /\ pools'[c.zone].addrs = pools[c.zone].addrs \cup c.addrs
  BY <1>4, AddSucceeds
<1>6. q.old = NoService \/ q.pc = "update_pooling"
  BY <1>1, <1>2 DEF Pledged, CreatePledged
<1>7. ASSUME NEW z \in Zones PROVE pools'[z].addrs \subseteq Allowed(d, q, z)
  <2>1. pools[z].addrs \subseteq OthersIn(q.svc, z) \cup ListedIn(q.old, z)
    BY <1>1, <1>2 DEF Accounted, Allowed, Given, AfterPools
  <2>2. z = c.zone => c.addrs \subseteq ListedIn(q.new, z)
    BY <1>3 DEF ListedIn
  <2>3. Given(q, d) /\ (Taken(q, d) => ListedIn(q.old, z) = {})
    BY <1>1, <1>5, <1>6 DEF Given, Taken, ListedIn, IsLB, NoService
  <2> QED
    BY <1>5, <2>1, <2>2, <2>3 DEF Allowed
<1>8. Tidy(pools', d, q)
  BY <1>1, <1>7 DEF Tidy, Accounted, UpdateTidy, AfterPools
<1>9. Continue(r, q)
  BY DEF Continue, WInv, WebhookTypeOK
<1> QED
  BY <1>1, <1>8, <1>9, SlotTidies

LEMMA RemoveListTidies ==
  ASSUME WInv, PInv, TInv, NEW r \in Slots, Pool!RemoveList(r), UNCHANGED <<store, req, lbCache>>
  PROVE  TInv'
<1> DEFINE q == req[r]
           c == call[r]
           d == call'[r]
<1>1. c.pc = "listing" /\ UNCHANGED pools /\ call \in [Slots -> Pool!Call]
  BY DEF Pool!RemoveList, WInv, WebhookTypeOK, Pool!PoolTypeOK
<1>2. d = [c EXCEPT !.pc = "removing", !.unused = Pool!NotInUse(c.addrs)]
  BY <1>1 DEF Pool!RemoveList
<1>3. c \in Pool!Removing
  BY <1>1 DEF Pool!Call, Pool!Adding
<1>4. /\ d.pc = "removing" /\ d.zone = c.zone /\ d.addrs = c.addrs
      /\ d.unused = Pool!NotInUse(c.addrs)
  BY <1>2, <1>3 DEF Pool!Removing
<1> HIDE DEF d
<1>5. q.pc \in {"update_removing", "delete_removing"} /\ q.pc # "idle"
  BY <1>1, Operates DEF PoolPhases
<1>6. /\ Pledged(pools, c, q) /\ Tidy(pools, c, q) /\ q.svc \in Services /\ Serial
      /\ q.old = store[q.svc] /\ q.op \in {"update", "delete"}
  BY <1>1, <1>5, Known, Operates DEF Undisputed
<1>7. c.zone = q.old.ann.zone /\ c.addrs = GivenUp(q) /\ IsLB(q.old)
  BY <1>1, <1>5, <1>6 DEF Tidy, Removes, Pledged, UpdatePledged, DeletePledged
<1>8. ASSUME NEW a \in d.addrs \ d.unused PROVE \E t \in Services \ {q.svc} : a \in LbAddrs[t]
  <2>1. Pool!UsedBy(a) = {s \in Services : a \in LbAddrs[s]}
    BY <1>6 DEF Serial, Pool!UsedBy, Pool!SeenLbAddrs
  <2>2. q.svc \in Pool!UsedBy(a)
    BY <1>4, <1>6, <1>7, <1>8, <2>1 DEF GivenUp, LbAddrs
  <2>3. Pool!UsedBy(a) # {q.svc}
    BY <1>4, <1>6, <1>8 DEF Pool!NotInUse
  <2> QED
    BY <2>1, <2>2, <2>3
<1>9. Removes(d, q)
  BY <1>4, <1>7, <1>8 DEF Removes
<1>10. (Given(q, d) <=> Given(q, c)) /\ (Taken(q, d) <=> Taken(q, c))
  BY <1>1, <1>4 DEF Given, Taken
<1>11. Tidy(pools', d, q)
  BY <1>1, <1>6, <1>9, <1>10 DEF Tidy, Accounted, Allowed, UpdateTidy
<1>12. Continue(r, q)
  BY DEF Continue, WInv, WebhookTypeOK
<1> QED
  BY <1>5, <1>11, <1>12, SlotTidies DEF d

\* In zones that share no address, whoever lists an address of a pool is in its zone.
LEMMA UsedInZone ==
  ASSUME WInv, PInv, TInv, NEW r \in Slots, req[r].pc # "idle",
         NEW z \in Zones, NEW a \in pools[z].addrs,
         NEW t \in Services, t # req[r].svc, a \in LbAddrs[t]
  PROVE  a \in OthersIn(req[r].svc, z)
<1>1. IsLB(store[t]) /\ a \in SetOf(store[t].ann.addrs) /\ store[t] \in AnyService
  BY DEF LbAddrs, WInv, WebhookTypeOK, IsLB, NoService
<1>2. Quiet(t)
  BY Known DEF Quiet, RequestsFor
<1>3. a \in pools[store[t].ann.zone].addrs /\ store[t].ann.zone \in Zones
  BY <1>1, <1>2, AddrsKnown DEF PInv, Pooled
<1>4. a \in Prefix[z] \cap Prefix[store[t].ann.zone]
  BY <1>3 DEF WInv, PoolsInZone
<1>5. store[t].ann.zone = z
  BY <1>3, <1>4 DEF TInv, TidyLast
<1> QED
  BY <1>1, <1>5 DEF OthersIn, ListedIn

LEMMA RemoveWriteTidies ==
  ASSUME WInv, PInv, TInv, NEW r \in Slots, Pool!RemoveWrite(r, "ok"), UNCHANGED <<store, req, lbCache>>
  PROVE  TInv'
<1> DEFINE q == req[r]
           c == call[r]
           d == call'[r]
<1>1. c.pc = "removing" /\ q.pc \in {"update_removing", "delete_removing"} /\ q.pc # "idle"
  BY Operates DEF Pool!RemoveWrite, PoolPhases
<1>2. /\ Tidy(pools, c, q) /\ Undisputed(r) /\ q.svc \in Services
      /\ q.pc = "update_removing" => q.op = "update" /\ Updating(q) /\ InOneZone(q)
      /\ q.pc = "delete_removing" => q.op = "delete"
  BY <1>1, Known, Operates DEF DefaultPhases, Tidy, UpdateTidy, AfterPools
<1>3. /\ d.pc = "ok" /\ c.zone \in Zones
      /\ \A z \in Zones : z # c.zone => pools'[z] = pools[z]
      /\ pools'[c.zone].addrs = pools[c.zone].addrs \ c.unused
  BY <1>1, <1>2, RemoveSucceeds DEF Undisputed, Pool!Running
<1>4. /\ c.zone = q.old.ann.zone /\ c.addrs = GivenUp(q)
      /\ \A a \in c.addrs \ c.unused : \E t \in Services \ {q.svc} : a \in LbAddrs[t]
  BY <1>1, <1>2 DEF Tidy, Removes
<1>5. Taken(q, d) /\ Given(q, d) /\ (Given(q, c) => q.pc = "update_removing")
  BY <1>1, <1>3 DEF Given, Taken, AfterPools
<1>6. ASSUME NEW z \in Zones, NEW a \in pools'[z].addrs
      PROVE  a \in OthersIn(q.svc, z) \cup ListedIn(q.new, z)
  <2>1. a \in pools[z].addrs /\ (z = c.zone => a \notin c.unused)
    BY <1>3, <1>6
  <2>2. a \in OthersIn(q.svc, z) \cup ListedIn(q.new, z) \cup ListedIn(q.old, z)
    BY <1>2, <2>1 DEF Tidy, Accounted, Allowed
  <2>3. ASSUME a \in ListedIn(q.old, z), a \notin c.addrs PROVE a \in ListedIn(q.new, z)
    <3>1. a \in SetOf(q.old.ann.addrs) /\ q.old.ann.zone = z
      BY <2>3 DEF ListedIn
    <3>2. q.pc = "update_removing" /\ a \in SetOf(q.new.ann.addrs)
      BY <1>1, <1>2, <1>4, <2>3, <3>1 DEF GivenUp
    <3>3. q.new.ann.zone = z /\ IsLB(q.new)
      BY <1>2, <3>1, <3>2 DEF InOneZone, KeptOnes, Updating
    <3> QED
      BY <3>2, <3>3 DEF ListedIn
  <2>4. ASSUME a \in ListedIn(q.old, z), a \in c.addrs PROVE a \in OthersIn(q.svc, z)
    <3>1. z = c.zone
      BY <1>4, <2>4 DEF ListedIn
    <3>2. PICK t \in Services : t # q.svc /\ a \in LbAddrs[t]
      BY <1>4, <2>1, <2>4, <3>1
    <3> QED
      BY <1>1, <2>1, <3>2, UsedInZone
  <2> QED
    BY <2>2, <2>3, <2>4
<1>7. Accounted(pools', d, q)
  BY <1>5, <1>6 DEF Accounted, Allowed
<1>8. Tidy(pools', d, q)
  BY <1>1, <1>2, <1>3, <1>5, <1>7 DEF Tidy, UpdateTidy, Removes
<1>9. Continue(r, q)
  BY DEF Continue, WInv, WebhookTypeOK
<1> QED
  BY <1>1, <1>8, <1>9, SlotTidies

LEMMA PoolStepTidies ==
  ASSUME WInv, GInv, PInv, TInv, NEW r \in Slots, PoolStep(r)
  PROVE  TInv'
<1>1. ~(faults < MaxFaults)
  BY DEF TInv, TidyLast, Serial, WInv, WebhookTypeOK
<1> QED
  BY <1>1, AddTidies, RemoveListTidies, RemoveWriteTidies DEF PoolStep

(* Its handler goes on. *)
LEMMA PoolReturnTidies ==
  ASSUME WInv, PInv, TInv, NEW r \in Slots, PoolReturn(r)
  PROVE  TInv'
<1> DEFINE q == req[r]
           c == call[r]
<1>1. /\ c.pc \in {"ok", "error"} /\ Continue(r, AfterPool(q, c.pc)) /\ UNCHANGED <<store, pools>>
  BY DEF PoolReturn, PoolUnchanged
<1>2. q.pc \in PoolPhases /\ q.pc # "idle" /\ q.pc \notin DefaultPhases
  BY <1>1 DEF WInv, WebhookTypeOK, PoolPhases, Idle, DefaultPhases
<1>3. /\ Sound(q) /\ q \in AnyRequest /\ Pledged(pools, c, q) /\ Tidy(pools, c, q)
      /\ q.op = "update" => Updating(q)
      /\ q.pc = "create_pooling" => q.op = "create"
      /\ q.pc \in {"update_pooling", "update_removing"} => q.op = "update"
      /\ q.pc = "delete_removing" => q.op = "delete"
  BY <1>2, Known, AtPhase DEF PoolPhases, CreatePhases, UpdatePhases, DeletePhases
<1>4. Follows(Admit(q), q) /\ Admit(q).pc = "admitted"
  BY <1>3, Fields
<1>5. ASSUME Taken(q, c), Given(q, c), Continue(r, Admit(q)) PROVE TInv'
  <2> DEFINE p == Admit(q)
  <2>1. /\ p.svc = q.svc /\ p.old = q.old /\ p.new = q.new /\ p.op = q.op
        /\ Given(p, call'[r]) /\ Taken(p, call'[r])
    BY <1>4, FollowsCarries DEF Given, Taken, AfterPools
  <2> HIDE DEF p
  <2>2. Accounted(pools, call'[r], p)
    BY <1>3, <1>5, <2>1 DEF Tidy, Accounted, Allowed
  <2>3. Tidy(pools, call'[r], p)
    BY <1>4, <2>1, <2>2 DEF Tidy, UpdateTidy, p
  <2> QED
    BY <1>1, <1>4, <1>5, <2>3, SlotTidies DEF p
<1>6. CASE q.pc = "create_pooling"
  <2>1. CASE c.pc = "ok"
    BY <1>1, <1>5, <1>6, <2>1 DEF AfterPool, Taken, Given
  <2>2. CASE c.pc = "error"
    <3>1. ~Given(q, c) /\ Continue(r, Idle)
      BY <1>1, <1>6, <2>2 DEF AfterPool, Given, AfterPools
    <3> QED
      BY <1>1, <1>2, <3>1, DeniedTidies
  <2> QED
    BY <1>1, <2>1, <2>2
<1>7. CASE q.pc = "update_pooling"
  <2>1. Updating(q) /\ UpdatePledged(pools, c, q)
    BY <1>3, <1>7 DEF Pledged
  <2>2. ~Taken(q, c) /\ InOneZone(q) /\ Pooled(pools, q.old)
    BY <1>7, <2>1 DEF UpdatePledged, Zoned, BeforePools, Taken
  <2>3. Continue(r, ToPoolRemove(q))
    BY <1>1, <1>7 DEF AfterPool
  <2>4. ASSUME NEW p, Follows(p, q), p.pc \in {"update_verify", "admitted"}, Continue(r, p),
               p.pc = "admitted" => RemovePrefixes(q) = <<>>
        PROVE  TInv'
    <3>1. Tidy(pools, call'[r], p)
      BY <1>3, <2>1, <2>2, <2>4, NothingToTake, UpdateTidies DEF Tidy
    <3> QED
      BY <1>1, <2>4, <3>1, SlotTidies
  <2>5. /\ Follows(Loop(q, "update_verify", <<>>), q)
        /\ Loop(q, "update_verify", <<>>).pc = "update_verify"
    BY <1>3, Fields
  <2> QED
    BY <1>4, <2>3, <2>4, <2>5 DEF ToPoolRemove
<1>8. CASE q.pc \in {"update_removing", "delete_removing"}
  <2>1. c.pc = "ok"
    BY <1>1, <1>3, <1>8 DEF Tidy, Removes
  <2> QED
    BY <1>1, <1>5, <1>8, <2>1 DEF AfterPool, Taken, Given, AfterPools
<1> QED
  BY <1>2, <1>6, <1>7, <1>8 DEF PoolPhases

(* The API server, and the users. *)

LEMMA CommitTidies ==
  ASSUME WInv, PInv, TInv, NEW r \in Slots, Commit(r)
  PROVE  TInv'
<1> DEFINE q == req[r]
<1>1. /\ q.pc = "admitted" /\ q.pc # "idle" /\ UNCHANGED pools
      /\ store' = [store EXCEPT ![q.svc] = q.new] /\ req' = AfterCommit(r)
  BY DEF Commit, poolVars
<1>2. q.svc \in Services /\ Accounted(pools, call[r], q) /\ \A o \in Slots : o = r
  BY <1>1, Known DEF Tidy
<1>3. \A s \in Services : store'[s] = IF s = q.svc THEN q.new ELSE store[s]
  BY <1>1, <1>2 DEF WInv, WebhookTypeOK
<1>4. Given(q, call[r]) /\ Taken(q, call[r])
  BY <1>1 DEF Given, Taken, AfterPools
<1>5. ASSUME NEW z \in Zones
      PROVE  pools[z].addrs \subseteq UNION {ListedIn(store'[s], z) : s \in Services}
  <2>1. pools[z].addrs \subseteq OthersIn(q.svc, z) \cup ListedIn(q.new, z)
    BY <1>2, <1>4 DEF Accounted, Allowed
  <2>2. \A t \in Services \ {q.svc} : ListedIn(store[t], z) = ListedIn(store'[t], z)
    BY <1>3
  <2>3. ListedIn(q.new, z) = ListedIn(store'[q.svc], z)
    BY <1>2, <1>3
  <2> QED
    BY <1>2, <2>1, <2>2, <2>3 DEF OthersIn
<1>6. ~Active(r)'
  BY <1>1 DEF AfterCommit, Active, Idle
<1> QED
  BY <1>1, <1>2, <1>5, <1>6 DEF TInv, TidyLast, Serial, AnyonesIn, ListedIn, IsLB, SetOf

\* Nobody gives up, and nothing is outdated, when no other request is about.
LEMMA NeverEnds ==
  ASSUME WInv, PInv, TInv, NEW r \in Slots
  PROVE  ~(Conflict(r) \/ Unheard(r) \/ Abandon(r) \/ EntryFails(r))
<1>1. ~(faults < MaxFaults) /\ ~Rejections
  BY DEF TInv, TidyLast, Serial, WInv, WebhookTypeOK
<1>2. req[r].pc # "idle" => req[r].answer = "awaited"
  BY Known DEF Undisputed
<1> QED
  BY <1>1, <1>2 DEF Conflict, Unheard, Abandon, EntryFails, Active

LEMMA SubmitTidies ==
  ASSUME WInv, TInv, NEW r \in Slots, SubmitAny(r)
  PROVE  TInv'
<1>1. ASSUME NEW pc \in {"default", "delete"}, NEW op, NEW s \in Services, NEW new,
             Submit(r, pc, op, s, store[s], new)
      PROVE  TInv'
  <2>1. PICK p : /\ Continue(r, p) /\ p.pc = pc /\ p.svc = s /\ p.old = store[s]
    BY <1>1 DEF Submit
  <2>2. /\ \A o \in Slots : ~Active(o)
        /\ UNCHANGED <<store, pools, call>>
    BY <1>1 DEF Submit, CanSubmit, poolVars, TInv, TidyLast, Serial
  <2>3. \A z \in Zones : pools[z].addrs \subseteq OthersIn(s, z) \cup ListedIn(store[s], z)
    BY <2>2, Everyones DEF TInv
  <2>4. p.pc \notin PoolPhases \cup AfterPools /\ p.pc # "idle"
    BY <2>1 DEF PoolPhases, AfterPools
  <2>5. ~Given(p, call[r]) /\ ~Taken(p, call[r])
    BY <2>4, Untouched
  <2>6. Tidy(pools, call[r], p)
    BY <2>1, <2>3, <2>4, <2>5 DEF Tidy, Accounted, Allowed, UpdateTidy, PoolPhases
  <2> QED
    BY <2>1, <2>2, <2>4, <2>6, SlotTidies
<1> QED
  BY <1>1 DEF SubmitAny, SubmitCreate, SubmitUpdate, SubmitDelete

LEMMA OthersTidy ==
  ASSUME WInv, TInv, Crash \/ SyncPools \/ SyncServices \/ UNCHANGED vars
  PROVE  TInv'
<1>1. ~(faults < MaxFaults) /\ ~InformerLag
  BY DEF TInv, TidyLast, Serial, WInv, WebhookTypeOK
<1>2. UNCHANGED <<store, req, pools, call>>
  BY <1>1 DEF Crash, SyncPools, SyncServices, vars, poolVars
<1> QED
  BY <1>2 DEF TInv, TidyLast, Serial, Active, Tidy, Accounted, Allowed, OthersIn, AnyonesIn,
     Removes, LbAddrs

LEMMA NextTidies ==
  ASSUME WInv, GInv, PInv, TInv, [Next]_vars
  PROVE  TInv'
<1>1. ASSUME NEW r \in Slots, Handle(r) PROVE TInv'
  BY <1>1, HandlerOwn, OwnTidies, AddGetTidies, RemoveGetTidies, PoolStepTidies, PoolReturnTidies,
     CommitTidies, NeverEnds
<1>2. ASSUME NEW r \in Slots, SubmitAny(r) \/ Abandon(r) \/ EntryFails(r) PROVE TInv'
  BY <1>2, SubmitTidies, NeverEnds
<1> QED
  BY <1>1, <1>2, OthersTidy DEF Next, Rest

LEMMA InitTidies == TidyLast /\ Init => TInv
  BY DEF Init, TInv, Active, Idle, Pool!Absent

(* TInv is inductive. *)
THEOREM TidyInvariance ==
  ASSUME TidyLast
  PROVE  Spec => []TInv
<1>1. WInv /\ GInv /\ PInv /\ TInv /\ [Next]_vars => TInv'
  BY NextTidies
<1>2. Init => TInv
  BY InitTidies
<1>3. PoolsLast
  BY DEF TidyLast, PoolsLast
<1> QED
  BY <1>1, <1>2, <1>3, WebhookInvariance, ManagerInvariance, PoolsInvariance, PTL DEF Spec

(* When no request is in progress, a pool has only addresses that a Service of
   its zone uses: ValidateUpdate and ValidateDelete take out what their Service
   gives up and no other lists, and RemoveIPAddressesFromPool keeps the rest. *)
THEOREM StoredUseThePools ==
  ASSUME TidyLast
  PROVE  Spec => []PooledIsStored
<1>1. ASSUME WInv, TInv PROVE PooledIsStored
  <2> SUFFICES ASSUME AllQuiet, NEW z \in Zones, NEW a \in pools[z].addrs
               PROVE  \E s \in Services : a \in LbAddrs[s] /\ store[s].ann.zone = z
    BY DEF PooledIsStored
  <2>1. \A r \in Slots : ~Active(r)
    <3>1. \A r \in Slots : Active(r) => req[r].svc \in Services
      BY <1>1, SoundTypes DEF WInv
    <3> QED
      BY <3>1 DEF AllQuiet, Quiet, RequestsFor
  <2>2. PICK s \in Services : a \in ListedIn(store[s], z)
    BY <1>1, <2>1 DEF TInv, AnyonesIn
  <2> QED
    BY <2>2 DEF ListedIn, LbAddrs
<1> QED
  BY <1>1, WebhookInvariance, TidyInvariance, PTL DEF Spec
=============================================================================
