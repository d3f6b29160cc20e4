----------------------- MODULE PooledServices_proofs -----------------------
(***************************************************************************)
(* Proofs that the pool manager works inside the webhooks as it does on    *)
(* its own, and that MetalLB can serve every stored Service: the pool of   *)
(* its zone has its addresses.                                             *)
(*                                                                         *)
(* The first holds whatever fails or overlaps.  The second needs, but for  *)
(* creates, that one request is handled at a time and nothing fails: an    *)
(* update goes on when its pool operation fails, and a removal counts the  *)
(* stored Services only.                                                   *)
(***************************************************************************)
EXTENDS StoredServices_proofs

\* The proofs about the pool manager, with the requests as its callers.
Manager == INSTANCE IpPool_proofs WITH Callers <- Slots, lbAddrs <- LbAddrs, MaxRev <- 0

----------------------------------------------------------------------------
(* How a handler moves on by itself from request q to p, told by phases. *)

BeforePools == DefaultPhases \cup {"update", "register", "undo_first", "rekey", "revert",
                                   "undo_new", "release_old", "update_pool", "update_pooling"}
AfterPools == {"update_verify", "update_remove", "update_removing", "admitted"}

\* The phases that only an update whose zone was not refused reaches.
Zoned == {"register", "rekey", "release_old", "update_pool", "update_pooling"}
InOneZone(q) == KeptOnes(q) = {} \/ q.old.ann.zone = q.new.ann.zone

Denies(q, p) == p = Idle /\ (q.op = "create" \/ q.pc \in BeforePools \cup {"delete", "restore"})

Defaults(q, p) ==
  /\ q.pc \in DefaultPhases /\ p.pc \in DefaultPhases \cup {"create", "update"}
  /\ Carries(p, q) /\ (IsLB(q.new) => IsLB(p.new))

Creates(q, p) ==
  /\ q.op = "create" /\ Follows(p, q)
  /\ \/ p.pc \in {"validate", "create_pool"} /\ IsLB(q.new)
     \/ p.pc = "rollback"
     \/ p.pc = "admitted" /\ ~IsLB(q.new)

\* An update has nothing to take out of a pool, or no pool to take it out of.
LeavesNothing(q) ==
  \/ NothingToDo(q) \/ RemovePrefixes(q) = <<>>
  \/ q.pc = "update_verify" /\ ~Pool!VerifyIpAddressPool(q.old.ann.zone)

Updates(q, p) ==
  /\ q.op = "update" /\ Follows(p, q) /\ q.pc \notin DefaultPhases
  /\ p.pc \in UpdatePhases \ PoolPhases
  /\ p.pc \in BeforePools => q.pc \in BeforePools
  /\ p.pc \in Zoned => q.pc \in Zoned \/ InOneZone(q)
  /\ p.pc = "update_pool" => NewPrefixes(q) # <<>>
  /\ p.pc \in AfterPools => \/ q.pc \in AfterPools \/ NothingToDo(q)
                            \/ NewPrefixes(q) = <<>> /\ (q.pc \in Zoned \/ InOneZone(q))
  /\ p.pc = "admitted" => LeavesNothing(q)

Deletes(q, p) ==
  /\ q.op = "delete" /\ Follows(p, q) /\ q.pc \in DeletePhases \ (PoolPhases \cup {"admitted"})
  /\ p.pc \in DeletePhases \ (PoolPhases \cup {"delete"})
  /\ p.pc = "admitted" =>
       \/ ~IsLB(q.old)
       \/ q.pc = "delete_verify"
            /\ ~Pool!VerifyIpAddressesInPool(q.old.ann.zone, SetOf(q.old.ann.addrs))

MovesOn(q, p) ==
  Denies(q, p) \/ Defaults(q, p) \/ Creates(q, p) \/ Updates(q, p) \/ Deletes(q, p)

\* A step of the handler of request r that concerns no pool.
OwnMove(r) == /\ UNCHANGED <<store, poolVars, lbCache>>
              /\ \E p : Continue(r, p) /\ MovesOn(req[r], p)

----------------------------------------------------------------------------
(* Each action of a handler that concerns no pool is such a move. *)

\* What the actions of a handler are about.
LEMMA AtPhase ==
  ASSUME WInv, NEW r \in Slots, req[r].pc # "idle"
  PROVE  /\ Active(r) /\ Sound(req[r]) /\ req[r] \in AnyRequest /\ req[r].svc \in Services
         /\ req[r].op \in {"create", "update", "delete"}
         /\ req[r].todo \in Listed /\ req[r].got \in Listed
         /\ req[r].pc \in CreatePhases \ {"admitted"} => req[r].op = "create"
         /\ req[r].pc \in UpdatePhases \ {"admitted"} => req[r].op = "update"
         /\ req[r].pc \in DeletePhases \ {"admitted"} => req[r].op = "delete"
         /\ req[r].pc \in DefaultPhases => InDefault(req[r])
<1>1. Active(r) /\ Sound(req[r])
  BY DEF Active, WInv
<1>2. /\ req[r].pc \in CreatePhases \ {"admitted"} => req[r].op = "create"
      /\ req[r].pc \in UpdatePhases \ {"admitted"} => req[r].op = "update"
      /\ req[r].pc \in DeletePhases \ {"admitted"} => req[r].op = "delete"
  BY <1>1, CreateKnown, UpdateKnown, DeleteKnown DEF CreateRequest, UpdateRequest, DeleteRequest
<1>3. req[r].pc \in DefaultPhases => InDefault(req[r])
  BY <1>1, SoundTypes DEF InDefault, Sound, Phased, DefaultPhases, DeletePhases
<1> QED
  BY <1>1, <1>2, <1>3, SoundTypes

\* A call to the IPAM API leaves the pools and the stored Services alone.
LEMMA CalledOwn ==
  ASSUME Called, NEW r \in Slots, NEW p, Continue(r, p), MovesOn(req[r], p)
  PROVE  OwnMove(r)
  BY DEF Called, OwnMove

LEMMA DecidesOwn ==
  ASSUME NEW r \in Slots, NEW p, Decide(r, p), MovesOn(req[r], p)
  PROVE  OwnMove(r)
  BY DEF Decide, OwnMove

(* Default. *)

LEMMA DefaultMovesOn ==
  ASSUME NEW q, InDefault(q), q.pc \in DefaultPhases, NEW x \in AnyRequest, Carries(x, q),
         IsLB(q.new) => IsLB(x.new)
  PROVE  /\ MovesOn(q, At(x, "request_v4")) /\ MovesOn(q, Defaulted(x))
         /\ MovesOn(q, AfterV4(x)) /\ MovesOn(q, At(x, "undo_v4")) /\ MovesOn(q, Idle)
<1>1. ASSUME NEW pc \in {"request_v4", "request_v6", "undo_v4"} PROVE MovesOn(q, At(x, pc))
  <2>1. Follows(At(x, pc), x) /\ At(x, pc).pc = pc
    BY Fields
  <2>2. Carries(At(x, pc), q) /\ (IsLB(q.new) => IsLB(At(x, pc).new)) /\ pc \in DefaultPhases
    BY <2>1, FollowsCarries DEF Carries, DefaultPhases
  <2> QED
    BY <2>1, <2>2 DEF Defaults, MovesOn
<1>2. MovesOn(q, Defaulted(x))
  <2>1. Carries(Defaulted(x), q) /\ Defaulted(x).new = x.new /\ Defaulted(x).pc = q.op
    BY DEF Defaulted, AnyRequest, Carries
  <2>2. q.op \in {"create", "update"}
    BY DEF InDefault
  <2> QED
    BY <2>1, <2>2 DEF Defaults, MovesOn
<1>3. MovesOn(q, Idle)
  BY DEF MovesOn, Denies, BeforePools
<1> QED
  BY <1>1, <1>2, <1>3 DEF AfterV4

LEMMA DefaultOwn ==
  ASSUME WInv, NEW r \in Slots, Default(r)
  PROVE  OwnMove(r)
<1> DEFINE q == req[r]
           x == AsLB(q)
<1>1. q.pc = "default" /\ q.pc \in DefaultPhases /\ q.pc # "idle"
  BY DEF Default, DefaultPhases
<1>2. InDefault(q) /\ q \in AnyRequest
  BY <1>1, AtPhase
<1>3. x \in AnyRequest /\ Carries(x, q) /\ IsLB(x.new) /\ Carries(q, q)
  BY <1>2 DEF AsLB, InDefault, AnyRequest, AnyService, IsLB, Carries
<1>4. \/ Decide(r, Idle)
      \/ Decide(r, Allocate(x))
      \/ Decide(r, Defaulted(q))
  BY <1>2 DEF Default
<1> HIDE DEF x
<1>5. MovesOn(q, Allocate(x)) /\ MovesOn(q, Idle)
  BY <1>1, <1>2, <1>3, DefaultMovesOn DEF Allocate
<1>6. MovesOn(q, Defaulted(q))
  BY <1>1, <1>2, <1>3, DefaultMovesOn
<1> QED
  BY <1>4, <1>5, <1>6, DecidesOwn

LEMMA GetAddressOwn ==
  ASSUME WInv, NEW r \in Slots, req[r].pc \in DefaultPhases, NEW family,
         NEW failed, GetAddress(r, family, failed), MovesOn(req[r], failed)
  PROVE  OwnMove(r)
<1> DEFINE q == req[r]
<1>1. InDefault(q) /\ q \in AnyRequest
  BY AtPhase DEF DefaultPhases
<1>2. ASSUME NEW a \in Addrs PROVE MovesOn(q, AfterFamily(WithAddress(q, a), family))
  <2> DEFINE x == WithAddress(q, a)
  <2>1. x \in AnyRequest /\ Carries(x, q) /\ (IsLB(q.new) => IsLB(x.new))
    <3>1. InDefault(x) /\ (IsLB(q.new) => IsLB(x.new))
      BY <1>1, WithAddressType
    <3> QED
      BY <1>1, <3>1 DEF InDefault, WithAddress, AnyRequest, Carries
  <2> HIDE DEF x
  <2>2. MovesOn(q, AfterV4(x)) /\ MovesOn(q, Defaulted(x))
    BY <1>1, <2>1, DefaultMovesOn
  <2> QED
    BY <2>2 DEF AfterFamily, x
<1>3. /\ Called
      /\ \/ Continue(r, failed)
         \/ \E a \in Addrs : Continue(r, AfterFamily(WithAddress(q, a), family))
  BY <1>1, GetAddressEffect
<1> QED
  BY <1>2, <1>3, CalledOwn

LEMMA RequestsOwn ==
  ASSUME WInv, NEW r \in Slots, RequestV4(r) \/ RequestV6(r) \/ UndoV4(r)
  PROVE  OwnMove(r)
<1> DEFINE q == req[r]
<1>1. q.pc \in DefaultPhases /\ q.pc # "idle"
  BY DEF RequestV4, RequestV6, UndoV4, DefaultPhases
<1>2. InDefault(q) /\ q \in AnyRequest /\ Carries(q, q)
  BY <1>1, AtPhase DEF Carries
<1>3. MovesOn(q, Idle) /\ MovesOn(q, At(q, "undo_v4"))
  BY <1>1, <1>2, DefaultMovesOn
<1>4. CASE RequestV4(r)
  BY <1>1, <1>3, <1>4, GetAddressOwn DEF RequestV4
<1>5. CASE RequestV6(r)
  <2> DEFINE failed == IF q.got = <<>> THEN Idle ELSE At(q, "undo_v4")
  <2>1. GetAddress(r, "ipv6", failed) /\ MovesOn(q, failed)
    BY <1>3, <1>5 DEF RequestV6
  <2> HIDE DEF failed
  <2> QED
    BY <1>1, <2>1, GetAddressOwn
<1>6. CASE UndoV4(r)
  <2>1. Called /\ Continue(r, Idle)
    BY <1>6, RemoveAddressEffect DEF UndoV4
  <2> QED
    BY <1>3, <2>1, CalledOwn
<1> QED
  BY <1>4, <1>5, <1>6

(* ValidateCreate. *)

LEMMA CreatesOwn ==
  ASSUME WInv, NEW r \in Slots, req[r].pc = "validate" => IsLB(req[r].new),
         StartCreate(r) \/ ValidateAddress(r) \/ RollbackCreate(r)
  PROVE  OwnMove(r)
<1> DEFINE q == req[r]
<1>1. q.pc \in CreatePhases \ {"admitted"} /\ q.pc # "idle"
  BY DEF StartCreate, ValidateAddress, RollbackCreate, CreatePhases
<1>2. /\ q \in AnyRequest /\ q.op = "create" /\ q.svc \in Services
      /\ q.new.ann \in AnyAnn /\ MovesOn(q, Idle)
  BY <1>1, AtPhase, CreateKnown DEF MovesOn, Denies
<1>3. ASSUME NEW p, Follows(p, q), \/ p.pc \in {"validate", "create_pool"} /\ IsLB(q.new)
                                   \/ p.pc = "rollback"
                                   \/ p.pc = "admitted" /\ ~IsLB(q.new)
      PROVE  MovesOn(q, p)
  BY <1>2, <1>3 DEF MovesOn, Creates
<1>4. CASE StartCreate(r)
  <2>1. IsLB(q.new) => MovesOn(q, Loop(q, "validate", Split(q.new.ann.addrs)))
    BY <1>2, <1>3, Fields
  <2>2. ~IsLB(q.new) => MovesOn(q, Admit(q))
    BY <1>2, <1>3, Fields
  <2> QED
    BY <1>4, <2>1, <2>2, DecidesOwn DEF StartCreate
<1>5. CASE ValidateAddress(r)
  <2> DEFINE done == [q EXCEPT !.got = Append(@, Head(q.todo))]
             after == Loop(q, "create_pool", <<>>)
             rest == [done EXCEPT !.todo = Tail(@)]
  <2>1. q.pc = "validate" /\ IsLB(q.new)
    BY <1>5 DEF ValidateAddress
  <2>2. MovesOn(q, CreateRefused(q))
    <3>1. MovesOn(q, Loop(q, "rollback", q.got))
      BY <1>2, <1>3, Fields
    <3> QED
      BY <1>2, <3>1 DEF CreateRefused
  <2>3. MovesOn(q, NextOf(done, after))
    <3>1. Follows(rest, q) /\ rest.pc = "validate"
      BY <1>2, <2>1 DEF AnyRequest, Follows, Same
    <3>2. MovesOn(q, rest) /\ MovesOn(q, after)
      BY <1>2, <1>3, <2>1, <3>1, Fields
    <3> HIDE DEF after
    <3> QED
      BY <3>2 DEF NextOf
  <2>4. Called /\ (Continue(r, CreateRefused(q)) \/ Continue(r, NextOf(done, after)))
    BY <1>2, <1>5, UpdateAddressEffect DEF ValidateAddress
  <2> QED
    BY <2>2, <2>3, <2>4, CalledOwn
<1>6. CASE RollbackCreate(r)
  <2> DEFINE rest == [q EXCEPT !.todo = Tail(@)]
  <2>1. Follows(rest, q) /\ rest.pc = "rollback"
    BY <1>2, <1>6 DEF RollbackCreate, AnyRequest, Follows, Same
  <2>2. MovesOn(q, NextOf(q, Idle))
    BY <1>2, <1>3, <2>1 DEF NextOf
  <2>3. Called /\ Continue(r, NextOf(q, Idle))
    BY <1>6, RemoveAddressEffect DEF RollbackCreate
  <2> QED
    BY <2>2, <2>3, CalledOwn
<1> QED
  BY <1>4, <1>5, <1>6

(* ValidateUpdate. *)

\* In an update that goes on, the three lists are what their names say.
LEMMA UpdateMovesOn ==
  ASSUME NEW q, UpdateRequest(q), q.pc \in BeforePools \cup {"update_verify"},
         NEW p, Follows(p, q), p.pc \in UpdatePhases \ PoolPhases,
         p.pc \in BeforePools => q.pc \in BeforePools,
         p.pc \in Zoned => q.pc \in Zoned \/ InOneZone(q),
         p.pc = "update_pool" => NewPrefixes(q) # <<>>,
         p.pc \in AfterPools => \/ q.pc \in AfterPools \/ NothingToDo(q)
                                \/ NewPrefixes(q) = <<>> /\ (q.pc \in Zoned \/ InOneZone(q)),
         p.pc = "admitted" => LeavesNothing(q)
  PROVE  MovesOn(q, p)
  BY DEF UpdateRequest, MovesOn, Updates

\* Where an update goes on from a phase that only one in one zone reaches.
LEMMA ZonedMovesOn ==
  ASSUME NEW q, UpdateRequest(q), q.pc \in BeforePools, q.pc \in Zoned \/ InOneZone(q)
  PROVE  /\ MovesOn(q, ToPoolAdd(q)) /\ MovesOn(q, ToReleaseOld(q))
         /\ MovesOn(q, ToRekey(q)) /\ MovesOn(q, ToRegister(q))
<1>1. q \in AnyRequest
  BY DEF UpdateRequest, Sound
<1>2. ASSUME NEW p, Follows(p, q), p.pc \in {"register", "rekey", "release_old", "update_pool"},
             p.pc = "update_pool" => NewPrefixes(q) # <<>>
      PROVE  MovesOn(q, p)
  <2>1. p.pc \in UpdatePhases \ PoolPhases /\ p.pc \notin AfterPools
    BY <1>2 DEF UpdatePhases, PoolPhases, AfterPools
  <2> QED
    BY <1>2, <2>1, UpdateMovesOn
<1>3. NewPrefixes(q) = <<>> => MovesOn(q, ToPoolRemove(q))
  <2>1. ASSUME NEW p, Follows(p, q), p.pc \in {"admitted", "update_verify"}, NewPrefixes(q) = <<>>,
               p.pc = "admitted" => RemovePrefixes(q) = <<>>
        PROVE  MovesOn(q, p)
    <3>1. p.pc \in UpdatePhases \ PoolPhases /\ p.pc \notin Zoned /\ p.pc \notin BeforePools
      BY <2>1 DEF UpdatePhases, PoolPhases, Zoned, BeforePools, DefaultPhases
    <3> QED
      BY <2>1, <3>1, UpdateMovesOn DEF LeavesNothing
  <2> QED
    BY <1>1, <2>1, Fields DEF ToPoolRemove
<1>4. MovesOn(q, ToPoolAdd(q))
  <2>1. NewPrefixes(q) # <<>> => MovesOn(q, Loop(q, "update_pool", <<>>))
    BY <1>1, <1>2, Fields
  <2> QED
    BY <1>3, <2>1 DEF ToPoolAdd
<1>5. MovesOn(q, ToReleaseOld(q))
  <2>1. MovesOn(q, Loop(q, "release_old", RemovePrefixes(q)))
    BY <1>1, <1>2, Fields
  <2> QED
    BY <1>4, <2>1 DEF ToReleaseOld
<1>6. MovesOn(q, ToRekey(q))
  <2> DEFINE p == [Loop(q, "rekey", KeepPrefixes(q)) EXCEPT !.got = <<>>]
  <2>1. Follows(p, q) /\ p.pc = "rekey"
    BY <1>1 DEF AnyRequest, Loop, Follows, Same
  <2> HIDE DEF p
  <2>2. MovesOn(q, p)
    BY <1>2, <2>1
  <2> QED
    BY <1>5, <2>2 DEF ToRekey, p
<1>7. MovesOn(q, ToRegister(q))
  <2>1. MovesOn(q, Loop(q, "register", NewPrefixes(q)))
    BY <1>1, <1>2, Fields
  <2> QED
    BY <1>6, <2>1 DEF ToRegister
<1> QED
  BY <1>4, <1>5, <1>6, <1>7

\* Giving up, and the loops that give back.
LEMMA UndoMovesOn ==
  ASSUME NEW q, UpdateRequest(q), q.pc \in BeforePools
  PROVE  /\ MovesOn(q, Idle) /\ MovesOn(q, ToUndoFirst(q)) /\ MovesOn(q, ToUndoNew(q))
         /\ MovesOn(q, At(q, "revert"))
<1>1. q \in AnyRequest /\ MovesOn(q, Idle)
  BY DEF UpdateRequest, Sound, MovesOn, Denies
<1>2. ASSUME NEW p, Follows(p, q), p.pc \in {"undo_first", "undo_new", "revert"}
      PROVE  MovesOn(q, p)
  <2>1. p.pc \in UpdatePhases \ PoolPhases /\ p.pc \notin AfterPools \cup Zoned
    BY <1>2 DEF UpdatePhases, PoolPhases, AfterPools, Zoned
  <2> QED
    BY <1>2, <2>1, UpdateMovesOn
<1>3. /\ MovesOn(q, At(q, "undo_first")) /\ MovesOn(q, At(q, "revert"))
      /\ MovesOn(q, Loop(q, "undo_new", NewPrefixes(q)))
  BY <1>1, <1>2, Fields
<1> QED
  BY <1>1, <1>3 DEF ToUndoFirst, ToUndoNew

\* One element done: the loop goes on in its phase, or is left.
LEMMA LoopMovesOn ==
  ASSUME NEW q, UpdateRequest(q), q.pc \in {"register", "rekey", "undo_new", "release_old"},
         NEW x \in AnyRequest, Follows(x, q), x.pc = q.pc, NEW after, MovesOn(q, after)
  PROVE  MovesOn(q, NextOf(x, after))
<1> DEFINE rest == [x EXCEPT !.todo = Tail(@)]
<1>1. Follows(rest, q) /\ rest.pc = q.pc
  BY DEF AnyRequest, Follows, Same
<1> HIDE DEF rest
<1>2. /\ q.pc \in UpdatePhases \ PoolPhases /\ q.pc \notin AfterPools
      /\ q.pc \in BeforePools /\ q.pc # "update_pool"
  BY DEF UpdatePhases, PoolPhases, AfterPools, BeforePools
<1>3. MovesOn(q, rest)
  BY <1>1, <1>2, UpdateMovesOn
<1> QED
  BY <1>3 DEF NextOf, rest

\* An update whose zone is not refused.
LEMMA ZoneAccepted ==
  ASSUME NEW q, UpdateRequest(q), ~ZoneRefused(q)
  PROVE  InOneZone(q)
<1>1. q.old \in AnyService /\ q.new \in AnyService /\ q.op = "update"
  BY SoundTypes DEF UpdateRequest
<1>2. /\ OldAddrs(q) \in Listed /\ SetOf(q.old.ann.addrs) \subseteq SetOf(OldAddrs(q))
      /\ NewAddrs(q) \in Listed /\ SetOf(q.new.ann.addrs) \subseteq SetOf(NewAddrs(q))
  BY <1>1, AddrsKnown, SetOfSplit DEF OldAddrs, NewAddrs, Listed
<1>3. SetOf(KeepPrefixes(q)) = SetOf(NewAddrs(q)) \cap SetOf(OldAddrs(q))
  BY <1>2, OnlyElements DEF KeepPrefixes, Listed
<1>4. KeepPrefixes(q) = <<>> => KeptOnes(q) = {}
  BY <1>2, <1>3, NothingListed DEF KeptOnes
<1> QED
  BY <1>4 DEF ZoneRefused, InOneZone

LEMMA AtUpdating ==
  ASSUME WInv, NEW r \in Slots, req[r].pc \in UpdatePhases \ {"admitted"}
  PROVE  /\ UpdateRequest(req[r]) /\ req[r] \in AnyRequest /\ req[r].svc \in Services
         /\ req[r].old \in AnyService /\ req[r].new \in AnyService
         /\ req[r].old.ann \in AnyAnn /\ req[r].new.ann \in AnyAnn
         /\ req[r].old.ann.secret \in Secrets /\ req[r].new.ann.secret \in Secrets
         /\ Active(r) /\ Follows(req[r], req[r])
<1>1. req[r].pc # "idle"
  BY DEF UpdatePhases
<1>2. Sound(req[r]) /\ Active(r)
  BY <1>1, AtPhase
<1>3. UpdateRequest(req[r]) /\ req[r].op = "update"
  BY <1>2, UpdateKnown DEF UpdateRequest
<1> QED
  BY <1>2, <1>3, SoundTypes, AddrsKnown DEF Follows, Same

LEMMA StartUpdateOwn ==
  ASSUME WInv, NEW r \in Slots, StartUpdate(r)
  PROVE  OwnMove(r)
<1> DEFINE q == req[r]
<1>1. q.pc = "update" /\ q.pc \in UpdatePhases \ {"admitted"} /\ q.pc \in BeforePools
  BY DEF StartUpdate, UpdatePhases, BeforePools
<1>2. UpdateRequest(q) /\ q \in AnyRequest
  BY <1>1, AtUpdating
<1>3. NothingToDo(q) => MovesOn(q, Admit(q))
  <2>1. "admitted" \in UpdatePhases \ PoolPhases /\ "admitted" \notin BeforePools \cup Zoned
    BY DEF UpdatePhases, PoolPhases, BeforePools, DefaultPhases, Zoned
  <2>2. Follows(Admit(q), q) /\ Admit(q).pc = "admitted"
    BY <1>2, Fields
  <2> QED
    BY <1>1, <1>2, <2>1, <2>2, UpdateMovesOn DEF LeavesNothing
<1>4. MovesOn(q, ToUndoFirst(q)) /\ (~ZoneRefused(q) => MovesOn(q, ToRegister(q)))
  BY <1>1, <1>2, UndoMovesOn, ZonedMovesOn, ZoneAccepted
<1> QED
  BY <1>3, <1>4, DecidesOwn DEF StartUpdate

LEMMA UpdateCallsOwn ==
  ASSUME WInv, NEW r \in Slots,
         ValidateNew(r) \/ ChangeSecret(r) \/ RevertSecret(r) \/ ReleaseOld(r)
         \/ UndoFirst(r) \/ UndoNew(r)
  PROVE  OwnMove(r)
<1> DEFINE q == req[r]
<1>1. q.pc \in UpdatePhases \ {"admitted"} /\ q.pc \in BeforePools
  BY DEF ValidateNew, ChangeSecret, RevertSecret, ReleaseOld, UndoFirst, UndoNew,
         UpdatePhases, BeforePools
<1>2. /\ UpdateRequest(q) /\ q \in AnyRequest /\ Follows(q, q) /\ q.svc \in Services
      /\ q.old.ann \in AnyAnn /\ q.new.ann \in AnyAnn
      /\ q.old.ann.secret \in Secrets /\ q.new.ann.secret \in Secrets
  BY <1>1, AtUpdating
<1>3. /\ MovesOn(q, Idle) /\ MovesOn(q, ToUndoFirst(q)) /\ MovesOn(q, ToUndoNew(q))
      /\ MovesOn(q, At(q, "revert"))
  BY <1>1, <1>2, UndoMovesOn
<1>4. q.pc \in Zoned => /\ MovesOn(q, ToPoolAdd(q)) /\ MovesOn(q, ToReleaseOld(q))
                        /\ MovesOn(q, ToRekey(q))
  BY <1>1, <1>2, ZonedMovesOn
<1>5. CASE ValidateNew(r)
  <2>1. q.pc = "register" /\ q.pc \in Zoned
    BY <1>5 DEF ValidateNew, Zoned
  <2>2. MovesOn(q, NextOf(q, ToRekey(q)))
    BY <1>2, <1>4, <2>1, LoopMovesOn
  <2>3. Called /\ (Continue(r, ToUndoFirst(q)) \/ Continue(r, NextOf(q, ToRekey(q))))
    BY <1>2, <1>5, UpdateAddressEffect DEF ValidateNew
  <2> QED
    BY <1>3, <2>2, <2>3, CalledOwn
<1>6. CASE ChangeSecret(r)
  <2> DEFINE done == [q EXCEPT !.got = Append(@, Head(q.todo))]
             failed == IF Len(q.got) = 1 THEN At(q, "revert") ELSE ToUndoNew(q)
  <2>1. q.pc = "rekey" /\ q.pc \in Zoned
    BY <1>6 DEF ChangeSecret, Zoned
  <2>2. MovesOn(q, NextOf(done, ToReleaseOld(q)))
    <3> DEFINE rest == [done EXCEPT !.todo = Tail(@)]
    <3>1. Follows(rest, q) /\ rest.pc = "rekey"
      BY <1>2, <2>1 DEF AnyRequest, Follows, Same
    <3> HIDE DEF rest
    <3>2. "rekey" \in UpdatePhases \ PoolPhases /\ "rekey" \notin AfterPools
      BY DEF UpdatePhases, PoolPhases, AfterPools
    <3>3. MovesOn(q, rest)
      BY <1>1, <1>2, <2>1, <3>1, <3>2, UpdateMovesOn
    <3> QED
      BY <1>4, <2>1, <3>3 DEF NextOf, rest
  <2>3. Called /\ (Continue(r, failed) \/ Continue(r, NextOf(done, ToReleaseOld(q))))
    BY <1>2, <1>6, UpdateSecretEffect DEF ChangeSecret
  <2>4. MovesOn(q, failed)
    BY <1>3
  <2> QED
    BY <2>2, <2>3, <2>4, CalledOwn
<1>7. CASE RevertSecret(r)
  <2>1. Called /\ Continue(r, ToUndoNew(q))
    BY <1>2, <1>7, UpdateSecretEffect DEF RevertSecret
  <2> QED
    BY <1>3, <2>1, CalledOwn
<1>8. CASE ReleaseOld(r)
  <2>1. q.pc = "release_old" /\ q.pc \in Zoned
    BY <1>8 DEF ReleaseOld, Zoned
  <2>2. MovesOn(q, NextOf(q, ToPoolAdd(q)))
    BY <1>2, <1>4, <2>1, LoopMovesOn
  <2>3. Called /\ Continue(r, NextOf(q, ToPoolAdd(q)))
    BY <1>8, RemoveAddressEffect DEF ReleaseOld
  <2> QED
    BY <2>2, <2>3, CalledOwn
<1>9. CASE UndoFirst(r)
  <2>1. Called /\ Continue(r, Idle)
    BY <1>9, RemoveAddressEffect DEF UndoFirst
  <2> QED
    BY <1>3, <2>1, CalledOwn
<1>10. CASE UndoNew(r)
  <2>1. q.pc = "undo_new" /\ MovesOn(q, NextOf(q, Idle))
    BY <1>2, <1>3, <1>10, LoopMovesOn DEF UndoNew
  <2>2. Called /\ Continue(r, NextOf(q, Idle))
    BY <1>10, RemoveAddressEffect DEF UndoNew
  <2> QED
    BY <2>1, <2>2, CalledOwn
<1> QED
  BY <1>5, <1>6, <1>7, <1>8, <1>9, <1>10

LEMMA UpdateVerifyOwn ==
  ASSUME WInv, NEW r \in Slots, UpdateVerify(r)
  PROVE  OwnMove(r)
<1> DEFINE q == req[r]
<1>1. q.pc = "update_verify" /\ q.pc \in UpdatePhases \ {"admitted"} /\ q.pc \in AfterPools
  BY DEF UpdateVerify, UpdatePhases, AfterPools
<1>2. UpdateRequest(q) /\ q \in AnyRequest
  BY <1>1, AtUpdating
<1>3. ASSUME NEW p, Follows(p, q), p.pc \in {"update_remove", "admitted"},
             p.pc = "admitted" => ~Pool!VerifyIpAddressPool(q.old.ann.zone)
      PROVE  MovesOn(q, p)
  <2>1. p.pc \in UpdatePhases \ PoolPhases /\ p.pc \notin BeforePools \cup Zoned
    BY <1>3 DEF UpdatePhases, PoolPhases, BeforePools, DefaultPhases, Zoned
  <2> QED
    BY <1>1, <1>2, <1>3, <2>1, UpdateMovesOn DEF LeavesNothing
<1>4. /\ MovesOn(q, At(q, "update_remove"))
      /\ ~Pool!VerifyIpAddressPool(q.old.ann.zone) => MovesOn(q, Admit(q))
  BY <1>2, <1>3, Fields
<1> QED
  BY <1>4, DecidesOwn DEF UpdateVerify

(* ValidateDelete. *)

LEMMA DeletesOwn ==
  ASSUME WInv, NEW r \in Slots,
         StartDelete(r) \/ ReleaseAddress(r) \/ DeleteVerify(r) \/ RestoreAddress(r)
  PROVE  OwnMove(r)
<1> DEFINE q == req[r]
<1>1. q.pc \in DeletePhases \ (PoolPhases \cup {"admitted"}) /\ q.pc # "idle"
  BY DEF StartDelete, ReleaseAddress, DeleteVerify, RestoreAddress, DeletePhases, PoolPhases
<1>2. /\ q.op = "delete" /\ q \in AnyRequest /\ q.svc \in Services /\ q.old.ann \in AnyAnn
  BY <1>1, AtPhase, DeleteKnown
<1> DEFINE gone == \/ ~IsLB(q.old)
                   \/ q.pc = "delete_verify"
                        /\ ~Pool!VerifyIpAddressesInPool(q.old.ann.zone, SetOf(q.old.ann.addrs))
<1>3. ASSUME NEW p, Follows(p, q), p.pc \in {"release", "delete_verify", "delete_remove", "restore", "admitted"},
             p.pc = "admitted" => gone
      PROVE  MovesOn(q, p)
  <2>1. p.pc \in DeletePhases \ (PoolPhases \cup {"delete"})
    BY <1>3 DEF DeletePhases, PoolPhases
  <2> QED
    BY <1>1, <1>2, <1>3, <2>1 DEF MovesOn, Deletes
<1>4. /\ MovesOn(q, Loop(q, "release", OldAddrs(q))) /\ (gone => MovesOn(q, Admit(q)))
      /\ MovesOn(q, At(q, "delete_remove")) /\ MovesOn(q, Loop(q, "delete_verify", <<>>))
  BY <1>2, <1>3, Fields
<1>5. ASSUME NEW after, MovesOn(q, after), q.pc \in {"release", "restore"}
      PROVE  MovesOn(q, NextOf(q, after))
  <2> DEFINE rest == [q EXCEPT !.todo = Tail(@)]
  <2>1. Follows(rest, q) /\ rest.pc = q.pc
    BY <1>2 DEF AnyRequest, Follows, Same
  <2> HIDE DEF rest
  <2>2. MovesOn(q, rest)
    BY <1>3, <1>5, <2>1
  <2> QED
    BY <1>5, <2>2 DEF NextOf, rest
<1>6. CASE StartDelete(r)
  BY <1>4, <1>6, DecidesOwn DEF StartDelete
<1>7. CASE ReleaseAddress(r)
  <2> DEFINE p == NextOf(q, Loop(q, "delete_verify", <<>>))
  <2>1. MovesOn(q, p)
    BY <1>4, <1>5, <1>7 DEF ReleaseAddress
  <2>2. Called /\ Continue(r, p)
    BY <1>7, RemoveAddressEffect DEF ReleaseAddress
  <2> HIDE DEF p
  <2> QED
    BY <2>1, <2>2, CalledOwn
<1>8. CASE DeleteVerify(r)
  BY <1>4, <1>8, DecidesOwn DEF DeleteVerify
<1>9. CASE RestoreAddress(r)
  <2>1. q.pc = "restore" /\ MovesOn(q, Idle)
    BY <1>9 DEF RestoreAddress, MovesOn, Denies
  <2>2. MovesOn(q, NextOf(q, Idle))
    BY <1>5, <2>1
  <2>3. Called /\ (Continue(r, Idle) \/ Continue(r, NextOf(q, Idle)))
    BY <1>2, <1>9, UpdateAddressEffect DEF RestoreAddress
  <2> QED
    BY <2>1, <2>2, <2>3, CalledOwn
<1> QED
  BY <1>6, <1>7, <1>8, <1>9

----------------------------------------------------------------------------
(* The invariants. *)

(* The pool manager's own invariant, and what it needs of its callers: they
   never add nothing. *)
AddsOnes(q) == /\ q.pc \in {"validate", "create_pool"} => IsLB(q.new)
               /\ q.pc = "update_pool" => NewPrefixes(q) # <<>>
GInv == Manager!IInv /\ \A r \in Slots : Active(r) => AddsOnes(req[r])

(* One request at a time, about LoadBalancers, with fresh reads and no failures. *)
Serial == /\ Types \subseteq {"LoadBalancer"} /\ ~Rejections /\ ~InformerLag
          /\ MaxFaults = 0 /\ \A r, o \in Slots : r = o

(* Pools last.  An update does not wait for a pool operation to succeed, nor a
   delete for other requests: their order, a failed call, or a read that is out
   of date decides what is left in the pool.  A create waits. *)
PoolsLast == Serial \/ Ops \subseteq {"create"}

\* The pool of its zone has the addresses of the Service.
Pooled(pp, svc) == IsLB(svc) => SetOf(svc.ann.addrs) \subseteq pp[svc.ann.zone].addrs

\* A pool operation c can only take addresses in A away.
Spending(c, A) == /\ c.pc # "adding"
                  /\ c.pc \in {"listing", "removing"} => c.addrs \subseteq A
                  /\ c.pc = "removing" => c.unused \subseteq A

CreatePledged(pp, c, q) ==
  /\ q.old = NoService /\ (Serial => IsLB(q.new))
  /\ q.pc = "create_pooling" =>
       /\ c.pc \notin {"listing", "removing"}
       /\ c.pc = "adding" => c.zone = q.new.ann.zone /\ c.addrs = SetOf(q.new.ann.addrs)
       /\ c.pc = "ok" => Pooled(pp, q.new)
  /\ q.pc = "admitted" => Pooled(pp, q.new)

UpdatePledged(pp, c, q) ==
  /\ IsLB(q.old) /\ HasFamilies(q.old) /\ IsLB(q.new)
  /\ q.pc \in BeforePools => Pooled(pp, q.old)
  /\ q.pc \in Zoned => InOneZone(q)
  /\ q.pc = "update_pooling" =>
       /\ c.pc \in {"adding", "ok"}
       /\ c.pc = "adding" => c.zone = q.new.ann.zone /\ c.addrs = NewOnes(q)
       /\ c.pc = "ok" => NewOnes(q) \subseteq pp[q.new.ann.zone].addrs
  /\ q.pc \in AfterPools => Pooled(pp, q.new)
  /\ q.pc = "update_removing" => Spending(c, SetOf(q.old.ann.addrs) \ SetOf(q.new.ann.addrs))

DeletePledged(pp, c, q) ==
  /\ IsLB(q.old)
  /\ q.pc \in DeletePhases \ {"delete_removing", "admitted"} => Pooled(pp, q.old)
  /\ q.pc = "delete_removing" => /\ c.pc # "ok" => Pooled(pp, q.old)
                                 /\ Spending(c, SetOf(q.old.ann.addrs))

Pledged(pp, c, q) ==
  /\ q.op = "create" => CreatePledged(pp, c, q)
  /\ q.op = "update" => UpdatePledged(pp, c, q)
  /\ q.op = "delete" => DeletePledged(pp, c, q)

(* With one request at a time, a pool operation works on what is stored. *)
Undisputed(r) ==
  /\ req[r].answer = "awaited" /\ req[r].old = store[req[r].svc]
  /\ call[r].pc \in Pool!Running => call[r].read = pools[call[r].zone]
  /\ call[r].pc = "removing" =>
       \A a \in call[r].unused, t \in Services : t # req[r].svc => a \notin LbAddrs[t]

PInv ==
  /\ PoolsLast
  /\ Serial => \A s \in Services : store[s] # NoService => IsLB(store[s])
  /\ Serial => \A r \in Slots : Active(r) => Undisputed(r)
  /\ \A s \in Services : (Serial => Quiet(s)) => Pooled(pools, store[s])
  /\ \A r \in Slots : Active(r) => Pledged(pools, call[r], req[r])

----------------------------------------------------------------------------
(* The pool manager, inside the webhooks. *)

LEMMA Assumed == Manager!IpPoolAssumption
  BY WebhookAssumption DEF Manager!IpPoolAssumption

LEMMA SameResults == Results = Manager!Results
  BY DEF Results, Manager!Results

\* Each operation is the one the proofs about the pool manager are about.
LEMMA SameOperations ==
  ASSUME NEW r \in Slots, UNCHANGED <<store, lbCache>>
  PROVE  /\ UNCHANGED Manager!envVars
         /\ \A z, A : Pool!AddGet(r, z, A) => Manager!AddGet(r, z, A)
         /\ \A z, A : Pool!RemoveGet(r, z, A) => Manager!RemoveGet(r, z, A)
         /\ \A answer : Pool!AddWrite(r, answer) => Manager!AddWrite(r, answer)
         /\ Pool!RemoveList(r) => Manager!RemoveList(r)
         /\ \A answer : Pool!RemoveWrite(r, answer) => Manager!RemoveWrite(r, answer)
         /\ Pool!CallFails(r) => Manager!CallFails(r)
<1>1. UNCHANGED Manager!envVars
  BY DEF Manager!envVars, LbAddrs
<1>2. \A z, A : Pool!AddGet(r, z, A) => Manager!AddGet(r, z, A)
  BY DEF Pool!AddGet, Manager!AddGet, Pool!Free, Manager!Free, Pool!Running, Manager!Running,
         Pool!SeenPool, Manager!SeenPool
<1>3. \A z, A : Pool!RemoveGet(r, z, A) => Manager!RemoveGet(r, z, A)
  BY DEF Pool!RemoveGet, Manager!RemoveGet, Pool!Free, Manager!Free, Pool!Running, Manager!Running,
         Pool!SeenPool, Manager!SeenPool, Pool!Answer, Manager!Answer, Pool!Absent, Manager!Absent
<1>4. \A answer : Pool!AddWrite(r, answer) => Manager!AddWrite(r, answer)
  BY DEF Pool!AddWrite, Manager!AddWrite, Pool!CreatePool, Manager!CreatePool,
         Pool!UpdatePool, Manager!UpdatePool, Pool!Extended, Manager!Extended,
         Pool!CreateConflicts, Manager!CreateConflicts, Pool!UpdateConflicts, Manager!UpdateConflicts,
         Pool!Answer, Manager!Answer, Pool!Absent, Manager!Absent, Pool!Store, Manager!Store
<1>5. Pool!RemoveList(r) => Manager!RemoveList(r)
  BY DEF Pool!RemoveList, Manager!RemoveList, Pool!NotInUse, Manager!NotInUse,
         Pool!UsedBy, Manager!UsedBy, Pool!SeenLbAddrs, Manager!SeenLbAddrs
<1>6. \A answer : Pool!RemoveWrite(r, answer) => Manager!RemoveWrite(r, answer)
  BY DEF Pool!RemoveWrite, Manager!RemoveWrite, Pool!DeletePool, Manager!DeletePool,
         Pool!UpdatePool, Manager!UpdatePool, Pool!Remaining, Manager!Remaining,
         Pool!DeleteConflicts, Manager!DeleteConflicts, Pool!UpdateConflicts, Manager!UpdateConflicts,
         Pool!Answer, Manager!Answer, Pool!Absent, Manager!Absent, Pool!Store, Manager!Store
<1>7. Pool!CallFails(r) => Manager!CallFails(r)
  BY DEF Pool!CallFails, Manager!CallFails, Pool!Answer, Manager!Answer,
         Pool!Running, Manager!Running
<1> QED
  BY <1>1, <1>2, <1>3, <1>4, <1>5, <1>6, <1>7

\* The calls and the pools stay; the Services, and the caches, may change.
LEMMA ManagerWaits ==
  ASSUME WInv', Manager!IInv, UNCHANGED poolVars
  PROVE  Manager!IInv'
<1>1. LbAddrs' \in [Services -> SUBSET Addrs] /\ lbCache' \in [Services -> SUBSET Addrs]
  BY DEF WInv, WebhookTypeOK, Pool!PoolTypeOK
<1> QED
  BY <1>1 DEF poolVars, Manager!IInv, Manager!PoolTypeOK, Manager!ReadsAreCopies,
     Manager!AddsSomething, Manager!PoolsVersioned, Manager!CacheIsCopy, Manager!PoolNeverEmpty,
     Manager!Free

\* A caller whose operation is over, or has died, forgets it.
LEMMA ManagerForgets ==
  ASSUME WInv', Manager!IInv, UNCHANGED <<pools, rev>>,
         \A z \in Zones : poolCache'[z] \in {poolCache[z], pools[z]},
         \A r \in Slots : call'[r] \in {call[r], Idle}
  PROVE  Manager!IInv'
<1>1. Manager!PoolTypeOK'
  <2>1. Pool!PoolTypeOK'
    BY DEF WInv, WebhookTypeOK
  <2> QED
    BY <2>1 DEF Pool!PoolTypeOK, Manager!PoolTypeOK, Pool!Pool, Manager!Pool, Pool!Call, Manager!Call,
       Pool!Adding, Manager!Adding, Pool!Removing, Manager!Removing, Pool!Absent, Manager!Absent
<1>2. Manager!PoolsVersioned' /\ Manager!PoolNeverEmpty'
  BY DEF Manager!IInv, Manager!PoolsVersioned, Manager!PoolNeverEmpty
<1>3. Manager!CacheIsCopy'
  BY DEF Manager!IInv, Manager!PoolsVersioned, Manager!CacheIsCopy
<1>4. \A r \in Slots : ~Manager!Free(r)' => call'[r] = call[r] /\ ~Manager!Free(r)
  BY DEF Manager!Free, Manager!Running, Idle
<1>5. \A r \in Slots : call'[r].pc = "adding" => call'[r] = call[r]
  BY DEF Idle
<1>6. Manager!ReadsAreCopies' /\ Manager!AddsSomething'
  BY <1>4, <1>5 DEF Manager!IInv, Manager!ReadsAreCopies, Manager!AddsSomething
<1> QED
  BY <1>1, <1>2, <1>3, <1>6 DEF Manager!IInv

\* The calls of an operation, told as what the proofs need of them.
LEMMA ManagerWorks ==
  ASSUME Manager!IInv, NEW r \in Slots, PoolStep(r)
  PROVE  Manager!IInv'
<1>1. UNCHANGED <<store, lbCache>>
  BY DEF PoolStep
<1>2. UNCHANGED Manager!envVars
  BY <1>1, SameOperations
<1>3. ASSUME NEW answer \in Results, Pool!AddWrite(r, answer) PROVE Manager!IInv'
  <2>1. Manager!AddWrite(r, answer)
    BY <1>1, <1>3, SameOperations
  <2>2. Manager!ServerMoves /\ Manager!Answered(r) /\ UNCHANGED poolCache
    BY <2>1, Assumed, SameResults, Manager!AddWriteMoves
  <2> QED
    BY <1>2, <2>2, Assumed, Manager!WritePreserves
<1>4. ASSUME NEW answer \in Results, Pool!RemoveWrite(r, answer) PROVE Manager!IInv'
  <2>1. Manager!RemoveWrite(r, answer)
    BY <1>1, <1>4, SameOperations
  <2>2. Manager!ServerMoves /\ Manager!Answered(r) /\ UNCHANGED poolCache
    BY <2>1, Assumed, SameResults, Manager!RemoveWriteMoves
  <2> QED
    BY <1>2, <2>2, Assumed, Manager!WritePreserves
<1>5. CASE Pool!RemoveList(r)
  <2>1. Manager!RemoveList(r)
    BY <1>1, <1>5, SameOperations
  <2> QED
    BY <1>2, <2>1, Assumed, Manager!RemoveListPreserves
<1>6. CASE Pool!CallFails(r)
  <2>1. Manager!CallFails(r)
    BY <1>1, <1>6, SameOperations
  <2> QED
    BY <1>2, <2>1, Assumed, Manager!CallFailsPreserves
<1> QED
  BY <1>3, <1>4, <1>5, <1>6 DEF PoolStep, Pool!AnswerLost, Results

\* A handler that asks to add addresses has some to add.
LEMMA SlotAdds ==
  ASSUME WInv, GInv, NEW r \in Slots, NEW p, Continue(r, p), AddsOnes(p), Manager!IInv'
  PROVE  GInv'
<1>1. \A o \in Slots : req'[o] = IF o = r THEN p ELSE req[o]
  BY DEF WInv, WebhookTypeOK, Continue
<1>2. \A o \in Slots : Active(o)' => AddsOnes(req'[o])
  BY <1>1 DEF GInv, Active
<1> QED
  BY <1>2 DEF GInv, Active, AddsOnes, NewPrefixes, NewAddrs, OldAddrs

\* The phases in which nothing is said of what is added.
LEMMA NothingAdded ==
  /\ AddsOnes(Idle)
  /\ \A p : p.pc \notin {"validate", "create_pool", "update_pool"} => AddsOnes(p)
  BY DEF AddsOnes, Idle

LEMMA MovesAdd ==
  ASSUME NEW q, NEW p, MovesOn(q, p)
  PROVE  AddsOnes(p)
<1>1. CASE Denies(q, p)
  BY <1>1, NothingAdded DEF Denies
<1>2. CASE Defaults(q, p)
  BY <1>2, NothingAdded DEF Defaults, DefaultPhases
<1>3. CASE Creates(q, p)
  BY <1>3, FollowsCarries DEF Creates, AddsOnes
<1>4. CASE Updates(q, p)
  <2>1. p.pc \notin {"validate", "create_pool"}
    BY <1>4 DEF Updates, UpdatePhases
  <2>2. NewPrefixes(p) = NewPrefixes(q)
    BY <1>4, FollowsCarries DEF Updates, NewPrefixes, NewAddrs, OldAddrs
  <2> QED
    BY <1>4, <2>1, <2>2 DEF Updates, AddsOnes
<1>5. CASE Deletes(q, p)
  BY <1>5, NothingAdded DEF Deletes, DeletePhases
<1> QED
  BY <1>1, <1>2, <1>3, <1>4, <1>5 DEF MovesOn

LEMMA OwnManages ==
  ASSUME WInv, WInv', GInv, NEW r \in Slots, OwnMove(r)
  PROVE  GInv'
<1>1. PICK p : Continue(r, p) /\ MovesOn(req[r], p)
  BY DEF OwnMove
<1>2. Manager!IInv'
  BY ManagerWaits DEF GInv, OwnMove
<1> QED
  BY <1>1, <1>2, MovesAdd, SlotAdds

\* All actions of a handler that concern no pool.
LEMMA HandlerOwn ==
  ASSUME WInv, GInv, NEW r \in Slots, Handle(r)
  PROVE  \/ OwnMove(r) /\ req[r].pc \notin PoolPhases \cup {"idle", "admitted"}
         \/ CreatePoolGet(r) \/ UpdatePoolGet(r) \/ UpdateRemoveGet(r) \/ DeleteRemoveGet(r)
         \/ PoolStep(r) \/ PoolReturn(r) \/ Commit(r) \/ Conflict(r) \/ Unheard(r)
<1>0. ASSUME req[r].pc \in PoolPhases \cup {"idle", "admitted"}
      PROVE  ~(\/ Default(r) \/ RequestV4(r) \/ RequestV6(r) \/ UndoV4(r)
               \/ StartCreate(r) \/ ValidateAddress(r) \/ RollbackCreate(r)
               \/ StartUpdate(r) \/ ValidateNew(r) \/ UndoFirst(r) \/ ChangeSecret(r)
               \/ RevertSecret(r) \/ UndoNew(r) \/ ReleaseOld(r) \/ UpdateVerify(r)
               \/ StartDelete(r) \/ ReleaseAddress(r) \/ DeleteVerify(r) \/ RestoreAddress(r))
  BY <1>0 DEF PoolPhases, Default, RequestV4, RequestV6, UndoV4, StartCreate, ValidateAddress,
     RollbackCreate, StartUpdate, ValidateNew, UndoFirst, ChangeSecret, RevertSecret, UndoNew,
     ReleaseOld, UpdateVerify, StartDelete, ReleaseAddress, DeleteVerify, RestoreAddress
<1>1. CASE Default(r) \/ RequestV4(r) \/ RequestV6(r) \/ UndoV4(r)
  BY <1>0, <1>1, DefaultOwn, RequestsOwn
<1>2. CASE StartCreate(r) \/ ValidateAddress(r) \/ RollbackCreate(r)
  <2>1. req[r].pc = "validate" => IsLB(req[r].new)
    BY DEF GInv, AddsOnes, Active
  <2> QED
    BY <1>0, <1>2, <2>1, CreatesOwn
<1>3. CASE \/ StartUpdate(r) \/ ValidateNew(r) \/ UndoFirst(r) \/ ChangeSecret(r)
           \/ RevertSecret(r) \/ UndoNew(r) \/ ReleaseOld(r) \/ UpdateVerify(r)
  BY <1>0, <1>3, StartUpdateOwn, UpdateCallsOwn, UpdateVerifyOwn
<1>4. CASE StartDelete(r) \/ ReleaseAddress(r) \/ DeleteVerify(r) \/ RestoreAddress(r)
  BY <1>0, <1>4, DeletesOwn
<1> QED
  BY <1>1, <1>2, <1>3, <1>4 DEF Handle

\* The handlers add some addresses of the IPAM API, never none.
LEMMA CreateAdds ==
  ASSUME WInv, GInv, NEW r \in Slots, req[r].pc = "create_pool"
  PROVE  /\ req[r] \in AnyRequest /\ req[r].op = "create" /\ IsLB(req[r].new)
         /\ req[r].new \in AnyService /\ req[r].new.ann.zone \in Zones
         /\ SetOf(req[r].new.ann.addrs) \in (SUBSET Addrs) \ {{}}
<1> DEFINE q == req[r]
<1>1. /\ Active(r) /\ Sound(q) /\ q \in AnyRequest /\ q.op = "create" /\ q.new \in AnyService
  BY AtPhase, SoundTypes DEF CreatePhases
<1>2. IsLB(q.new) /\ HasFamilies(q.new)
  BY <1>1 DEF GInv, AddsOnes, Sound, Progress, DefaultPhases
<1>3. q.new.ann.addrs \in Seq(Addrs) /\ SetOf(q.new.ann.addrs) \subseteq Addrs /\ q.new.ann.addrs # <<>>
  BY <1>1, <1>2, Listing
<1>4. q.new.ann.zone \in Zones /\ q.new.ann.addrs[1] \in SetOf(q.new.ann.addrs)
  BY <1>1, <1>3, Looped, AddrsKnown
<1> QED
  BY <1>1, <1>2, <1>3, <1>4

LEMMA UpdateAdds ==
  ASSUME WInv, GInv, NEW r \in Slots, req[r].pc = "update_pool"
  PROVE  SetOf(NewPrefixes(req[r])) \in (SUBSET Addrs) \ {{}}
<1> DEFINE q == req[r]
<1>1. /\ Active(r) /\ UpdateRequest(q) /\ q \in AnyRequest /\ q.old \in AnyService /\ q.new \in AnyService
      /\ q.new.ann.zone \in Zones
  BY AtUpdating, AddrsKnown DEF UpdatePhases
<1>2. SetOf(NewPrefixes(q)) \subseteq Addrs
  BY <1>1, IpamAssumption DEF UpdateRequest, Sound, Checked
<1>3. NewPrefixes(q) \in Listed /\ NewPrefixes(q) # <<>>
  BY <1>1, Prefixes DEF GInv, AddsOnes
<1>4. NewPrefixes(q)[1] \in SetOf(NewPrefixes(q))
  BY <1>3, Looped DEF Listed
<1> QED
  BY <1>2, <1>4

LEMMA PoolGetsManage ==
  ASSUME WInv, GInv, NEW r \in Slots,
         CreatePoolGet(r) \/ UpdatePoolGet(r) \/ UpdateRemoveGet(r) \/ DeleteRemoveGet(r)
  PROVE  GInv'
<1> DEFINE q == req[r]
<1>1. UNCHANGED <<store, lbCache>>
  BY DEF CreatePoolGet, UpdatePoolGet, UpdateRemoveGet, DeleteRemoveGet, PoolUnchanged
<1>2. UNCHANGED Manager!envVars
  BY <1>1, SameOperations
<1>3. ASSUME NEW z \in Zones, NEW A \in (SUBSET Addrs) \ {{}}, Pool!AddGet(r, z, A) PROVE Manager!IInv'
  <2>1. Manager!AddGet(r, z, A)
    BY <1>1, <1>3, SameOperations
  <2> QED
    BY <1>2, <2>1, Assumed, Manager!AddGetPreserves DEF GInv
<1>4. ASSUME NEW z \in Zones, NEW A \in SUBSET Addrs, Pool!RemoveGet(r, z, A) PROVE Manager!IInv'
  <2>1. Manager!RemoveGet(r, z, A)
    BY <1>1, <1>4, SameOperations
  <2> QED
    BY <1>2, <2>1, Assumed, Manager!RemoveGetPreserves DEF GInv
<1>5. CASE CreatePoolGet(r)
  <2>1. /\ q.new.ann.zone \in Zones /\ SetOf(q.new.ann.addrs) \in (SUBSET Addrs) \ {{}}
        /\ q \in AnyRequest
    BY <1>5, CreateAdds DEF CreatePoolGet
  <2>2. /\ Pool!AddGet(r, q.new.ann.zone, SetOf(q.new.ann.addrs))
        /\ Continue(r, Loop(q, "create_pooling", <<>>))
    BY <1>5 DEF CreatePoolGet
  <2>3. Manager!IInv'
    BY <1>3, <2>1, <2>2
  <2>4. AddsOnes(Loop(q, "create_pooling", <<>>))
    BY <2>1, Fields, NothingAdded
  <2> QED
    BY <2>2, <2>3, <2>4, SlotAdds
<1>6. ASSUME NEW pc, pc \in {"update_pooling", "update_removing", "delete_removing"},
             q \in AnyRequest, Continue(r, At(q, pc)), Manager!IInv'
      PROVE  GInv'
  <2>1. AddsOnes(At(q, pc))
    BY <1>6, Fields, NothingAdded
  <2> QED
    BY <1>6, <2>1, SlotAdds
<1>7. CASE UpdatePoolGet(r)
  <2>1. q.pc = "update_pool"
    BY <1>7 DEF UpdatePoolGet
  <2>2. /\ q.new.ann.zone \in Zones /\ q \in AnyRequest
        /\ SetOf(NewPrefixes(q)) \in (SUBSET Addrs) \ {{}}
    BY <2>1, UpdateAdds, AtUpdating DEF UpdatePhases, AnyAnn
  <2>3. /\ Pool!AddGet(r, q.new.ann.zone, SetOf(NewPrefixes(q)))
        /\ Continue(r, At(q, "update_pooling"))
    BY <1>7 DEF UpdatePoolGet
  <2> QED
    BY <1>3, <1>6, <2>2, <2>3
<1>8. CASE UpdateRemoveGet(r)
  <2>1. q.old.ann.zone \in Zones /\ q \in AnyRequest
    BY <1>8, AtUpdating DEF UpdateRemoveGet, UpdatePhases, AnyAnn
  <2>2. /\ Pool!RemoveGet(r, q.old.ann.zone, SetOf(RemovePrefixes(q)) \cap Addrs)
        /\ Continue(r, At(q, "update_removing"))
    BY <1>8 DEF UpdateRemoveGet
  <2> QED
    BY <1>4, <1>6, <2>1, <2>2
<1>9. CASE DeleteRemoveGet(r)
  <2>1. q \in AnyRequest /\ q.old \in AnyService
    BY <1>9, AtPhase, SoundTypes DEF DeleteRemoveGet, DeletePhases
  <2>2. q.old.ann.zone \in Zones /\ SetOf(q.old.ann.addrs) \in SUBSET Addrs
    BY <2>1, AddrsKnown
  <2>3. /\ Pool!RemoveGet(r, q.old.ann.zone, SetOf(q.old.ann.addrs))
        /\ Continue(r, At(q, "delete_removing"))
    BY <1>9 DEF DeleteRemoveGet
  <2> QED
    BY <1>4, <1>6, <2>1, <2>2, <2>3
<1> QED
  BY <1>5, <1>7, <1>8, <1>9

\* When its operation is over, a handler asks for no other at once.
LEMMA AfterPoolAt ==
  ASSUME NEW q, q.pc \in PoolPhases, NEW result
  PROVE  AfterPool(q, result) \in {Idle, Admit(q), ToPoolRemove(q), Loop(q, "restore", OldAddrs(q))}
  BY DEF AfterPool, PoolPhases

LEMMA PoolReturnManages ==
  ASSUME WInv, WInv', GInv, NEW r \in Slots, PoolReturn(r)
  PROVE  GInv'
<1> DEFINE q == req[r]
           p == AfterPool(q, call[r].pc)
<1>1. call[r] # Idle
  BY DEF PoolReturn, Idle
<1>2. q.pc \in PoolPhases /\ q.pc # "idle"
  BY <1>1 DEF WInv, WebhookTypeOK, PoolPhases
<1>3. q \in AnyRequest
  BY <1>2, AtPhase
<1>4. /\ AddsOnes(Idle) /\ AddsOnes(Admit(q)) /\ AddsOnes(ToPoolRemove(q))
      /\ AddsOnes(Loop(q, "restore", OldAddrs(q)))
  BY <1>3, Fields, NothingAdded DEF ToPoolRemove
<1>5. AddsOnes(p)
  BY <1>2, <1>4, AfterPoolAt
<1>6. /\ Continue(r, p) /\ UNCHANGED <<pools, rev, poolCache>>
      /\ \A o \in Slots : call'[o] \in {call[o], Idle}
  BY DEF PoolReturn, WInv, WebhookTypeOK, Pool!PoolTypeOK
<1>7. Manager!IInv'
  BY <1>6, ManagerForgets DEF GInv
<1> QED
  BY <1>5, <1>6, <1>7, SlotAdds

LEMMA ServerManages ==
  ASSUME WInv, WInv', GInv, NEW r \in Slots, Conflict(r) \/ Unheard(r) \/ Abandon(r) \/ EntryFails(r)
  PROVE  GInv'
<1> DEFINE q == req[r]
           redo == [q EXCEPT !.pc = "delete", !.old = store[q.svc], !.answer = "awaited"]
           left == [q EXCEPT !.answer = "abandoned"]
<1>1. q.pc # "idle"
  BY DEF Conflict, Unheard, Abandon, EntryFails, Active
<1>2. q \in AnyRequest /\ AddsOnes(q)
  BY <1>1, AtPhase DEF GInv
<1>3. AddsOnes(redo)
  <2>1. redo.pc = "delete"
    BY <1>2 DEF AnyRequest
  <2> QED
    BY <2>1, NothingAdded
<1>4. AddsOnes(left)
  <2>1. Same(left, q) /\ left.pc = q.pc
    BY <1>2 DEF AnyRequest, Same
  <2> HIDE DEF left
  <2> QED
    BY <1>2, <2>1, SamePrefixes DEF AddsOnes, Same
<1>5. UNCHANGED poolVars
  BY DEF Conflict, Unheard, Abandon, EntryFails, Decide
<1>6. Manager!IInv'
  BY <1>5, ManagerWaits DEF GInv
<1>7. Continue(r, Idle) \/ Continue(r, redo) \/ Continue(r, left)
  BY DEF Conflict, Unheard, Abandon, EntryFails, Decide, Finish
<1> QED
  BY <1>3, <1>4, <1>6, <1>7, NothingAdded, SlotAdds

LEMMA SubmitManages ==
  ASSUME WInv, WInv', GInv, NEW r \in Slots, SubmitAny(r)
  PROVE  GInv'
<1>1. ASSUME NEW pc \in {"default", "delete"}, NEW op, NEW s, NEW old, NEW new,
             Submit(r, pc, op, s, old, new)
      PROVE  GInv'
  <2>1. PICK q : Continue(r, q) /\ q.pc = pc
    BY <1>1 DEF Submit
  <2>2. Manager!IInv'
    BY <1>1, ManagerWaits DEF Submit, GInv
  <2> QED
    BY <2>1, <2>2, NothingAdded, SlotAdds
<1> QED
  BY <1>1 DEF SubmitAny, SubmitCreate, SubmitUpdate, SubmitDelete

LEMMA CommitManages ==
  ASSUME WInv, WInv', GInv, NEW r \in Slots, Commit(r)
  PROVE  GInv'
<1>1. UNCHANGED poolVars /\ req' = AfterCommit(r)
  BY DEF Commit
<1>2. Manager!IInv'
  BY <1>1, ManagerWaits DEF GInv
<1>3. ASSUME NEW o \in Slots, Active(o)' PROVE AddsOnes(req'[o])
  <2> DEFINE late == [req[o] EXCEPT !.answer = "outdated"]
  <2>1. o # r /\ req'[o] \in {req[o], late}
    BY <1>1, <1>3 DEF AfterCommit, Active, Idle
  <2>2. req[o].pc # "idle"
    <3>1. req[o] = Idle => req'[o] = Idle
      BY <1>1, <2>1 DEF AfterCommit, RequestsFor, Active, Idle
    <3>2. req[o] \in AnyRequest => req[o].pc # "idle"
      BY DEF AnyRequest, Phases
    <3> QED
      BY <1>3, <3>1, <3>2 DEF Active, Idle, WInv, WebhookTypeOK
  <2>3. req[o] \in AnyRequest /\ AddsOnes(req[o])
    BY <2>2, AtPhase DEF GInv
  <2>4. Same(late, req[o]) /\ late.pc = req[o].pc
    BY <2>3 DEF AnyRequest, Same
  <2> HIDE DEF late
  <2>5. AddsOnes(late)
    BY <2>3, <2>4, SamePrefixes DEF AddsOnes, Same
  <2> QED
    BY <2>1, <2>3, <2>5
<1> QED
  BY <1>2, <1>3 DEF GInv, Active, AddsOnes, NewPrefixes, NewAddrs, OldAddrs

LEMMA OthersManage ==
  ASSUME WInv, WInv', GInv, Crash \/ SyncPools \/ SyncServices \/ UNCHANGED vars
  PROVE  GInv'
<1>1. pools \in [Zones -> Pool!Pool] /\ poolCache \in [Zones -> Pool!Pool]
  BY DEF WInv, WebhookTypeOK, Pool!PoolTypeOK
<1>2. /\ UNCHANGED <<pools, rev>> /\ \A z \in Zones : poolCache'[z] \in {poolCache[z], pools[z]}
      /\ \A r \in Slots : call'[r] \in {call[r], Idle}
  BY <1>1 DEF Crash, SyncPools, SyncServices, vars, poolVars, Pool!SyncPool
<1>3. Manager!IInv'
  BY <1>2, ManagerForgets DEF GInv
<1>4. \A r \in Slots : Active(r)' => req' = req
  BY DEF Crash, SyncPools, SyncServices, vars, Active, Idle
<1> QED
  BY <1>3, <1>4 DEF GInv, Active, AddsOnes, NewPrefixes, NewAddrs, OldAddrs

LEMMA NextManages ==
  ASSUME WInv, WInv', GInv, [Next]_vars
  PROVE  GInv'
<1>1. ASSUME NEW r \in Slots, PoolStep(r) PROVE GInv'
  <2>1. Manager!IInv' /\ UNCHANGED req
    BY <1>1, ManagerWorks DEF GInv, PoolStep
  <2> QED
    BY <2>1 DEF GInv, Active, AddsOnes, NewPrefixes, NewAddrs, OldAddrs
<1>2. ASSUME NEW r \in Slots, Handle(r) PROVE GInv'
  BY <1>1, <1>2, HandlerOwn, OwnManages, PoolGetsManage, PoolReturnManages, CommitManages,
     ServerManages
<1>3. ASSUME NEW r \in Slots, SubmitAny(r) \/ Abandon(r) \/ EntryFails(r) PROVE GInv'
  BY <1>3, SubmitManages, ServerManages
<1> QED
  BY <1>2, <1>3, OthersManage DEF Next, Rest

LEMMA InitManages == Init => GInv
<1> SUFFICES ASSUME Init PROVE GInv
  OBVIOUS
<1>1. LbAddrs = [s \in Services |-> {}]
  BY DEF Init, LbAddrs, IsLB, NoService
<1>2. Manager!Init
  BY <1>1 DEF Init, Manager!Init, Pool!Absent, Manager!Absent, Idle
<1>3. Manager!IInv
  BY <1>2, Assumed, Manager!InvInit
<1> QED
  BY <1>3 DEF Init, GInv, Active, Idle

(* GInv is inductive, with no condition at all. *)
THEOREM ManagerInvariance == Spec => []GInv
<1>1. WInv /\ WInv' /\ GInv /\ [Next]_vars => GInv'
  BY NextManages
<1> QED
  BY <1>1, InitManages, WebhookInvariance, PTL DEF Spec

\* Every step but a write leaves the pools alone and tells nobody "ok".
LEMMA OnlyWrites ==
  ASSUME WInv, GInv, [Next]_vars
  PROVE  \/ \E r \in Slots, answer \in Manager!Results :
               /\ Manager!AddWrite(r, answer) \/ Manager!RemoveWrite(r, answer)
               /\ PoolStep(r) /\ Manager!Answered(r)
         \/ /\ UNCHANGED pools
            /\ \A r \in Slots : call'[r].pc = "ok" => call'[r] = call[r]
<1> DEFINE silent == /\ UNCHANGED pools
                     /\ \A r \in Slots : call'[r].pc = "ok" => call'[r] = call[r]
<1>1. call \in [Slots -> Pool!Call]
  BY DEF WInv, WebhookTypeOK, Pool!PoolTypeOK
<1>2. ASSUME UNCHANGED <<pools, call>> PROVE silent
  BY <1>2
<1>3. ASSUME NEW r \in Slots, NEW c, c.pc # "ok", call' = [call EXCEPT ![r] = c], UNCHANGED pools
      PROVE  silent
  BY <1>1, <1>3
<1>4. ASSUME NEW r \in Slots, PoolStep(r),
             ~\E answer \in Results : Pool!AddWrite(r, answer) \/ Pool!RemoveWrite(r, answer)
      PROVE  silent
  <2>1. \A A : [call[r] EXCEPT !.pc = "removing", !.unused = A].pc # "ok"
    <3>1. \A c \in Pool!Call : c.pc = "listing" => \A A : [c EXCEPT !.pc = "removing", !.unused = A].pc # "ok"
      BY DEF Pool!Call, Pool!Adding, Pool!Removing
    <3>2. call[r].pc \notin {"listing"} => \A A : [call[r] EXCEPT !.pc = "removing", !.unused = A].pc # "ok"
      BY <1>1 DEF Pool!Call, Pool!Adding, Pool!Removing
    <3> QED
      BY <1>1, <3>1, <3>2
  <2>2. [pc |-> "error"].pc # "ok"
    OBVIOUS
  <2>3. Pool!RemoveList(r) \/ Pool!CallFails(r)
    BY <1>4 DEF PoolStep, Pool!AnswerLost, Results
  <2> QED
    BY <1>1, <1>3, <2>1, <2>2, <2>3 DEF Pool!RemoveList, Pool!CallFails, Pool!Answer
<1>5. ASSUME NEW r \in Slots, NEW answer \in Results,
             Pool!AddWrite(r, answer) \/ Pool!RemoveWrite(r, answer), PoolStep(r)
      PROVE  /\ Manager!AddWrite(r, answer) \/ Manager!RemoveWrite(r, answer)
             /\ Manager!Answered(r)
  <2>1. Manager!AddWrite(r, answer) \/ Manager!RemoveWrite(r, answer)
    BY <1>5, SameOperations DEF PoolStep
  <2> QED
    BY <2>1, Assumed, SameResults, Manager!AddWriteMoves, Manager!RemoveWriteMoves DEF GInv
<1>6. ASSUME NEW r \in Slots, NEW z, NEW A, Pool!AddGet(r, z, A) \/ Pool!RemoveGet(r, z, A)
      PROVE  silent
  BY <1>1, <1>6 DEF Pool!AddGet, Pool!RemoveGet, Pool!Answer
<1>7. ASSUME NEW r \in Slots,
             CreatePoolGet(r) \/ UpdatePoolGet(r) \/ UpdateRemoveGet(r) \/ DeleteRemoveGet(r)
      PROVE  silent
  BY <1>6, <1>7 DEF CreatePoolGet, UpdatePoolGet, UpdateRemoveGet, DeleteRemoveGet
<1>8. ASSUME NEW r \in Slots, PoolReturn(r) PROVE silent
  BY <1>3, <1>8 DEF PoolReturn, Idle
<1>9. ASSUME NEW r \in Slots, OwnMove(r) \/ Commit(r) \/ Conflict(r) \/ Unheard(r) \/ Abandon(r) \/ EntryFails(r)
      PROVE silent
  BY <1>2, <1>9 DEF OwnMove, Commit, Conflict, Unheard, Abandon, EntryFails, Decide, poolVars
<1>10. ASSUME NEW r \in Slots, SubmitAny(r) PROVE silent
  BY <1>2, <1>10 DEF SubmitAny, SubmitCreate, SubmitUpdate, SubmitDelete, Submit, poolVars
<1>11. CASE Crash
  BY <1>11 DEF Crash, Idle
<1>12. CASE SyncPools \/ SyncServices \/ Rest \/ UNCHANGED vars
  BY <1>2, <1>12 DEF SyncPools, SyncServices, Rest, vars, poolVars, Pool!SyncPool
<1> QED
  BY <1>4, <1>5, <1>7, <1>8, <1>9, <1>10, <1>11, <1>12, HandlerOwn, SameResults DEF Next

(* Inside the webhooks too, MetalLB is never left with an empty pool, and what
   an operation has read is what is stored as long as its version is: for all
   requests, failures, crashes and stale caches. *)
THEOREM PoolsStaySound == Spec => [](Pool!PoolNeverEmpty /\ Pool!SnapshotAgrees)
<1>1. GInv => Pool!PoolNeverEmpty
  BY DEF GInv, Manager!IInv, Manager!PoolNeverEmpty, Pool!PoolNeverEmpty, Pool!Absent, Manager!Absent
<1>2. GInv => Pool!SnapshotAgrees
  BY DEF GInv, Manager!IInv, Manager!PoolTypeOK, Manager!ReadsAreCopies, Manager!CopyOf,
     Pool!SnapshotAgrees, Pool!Free, Manager!Free, Pool!Running, Manager!Running
<1> QED
  BY <1>1, <1>2, ManagerInvariance, PTL

(* No handler takes an address out of a pool that another one has put there,
   unless it found that very address not in use. *)
THEOREM PoolsLoseNothing == Spec => [][Pool!LeavesOnlyWhenUnused]_vars
<1>1. WInv /\ GInv /\ [Next]_vars => [Pool!LeavesOnlyWhenUnused]_vars
  <2> SUFFICES ASSUME WInv, GInv, [Next]_vars, NEW z \in Zones, pools'[z] # Pool!Absent,
                      NEW a \in pools[z].addrs \ pools'[z].addrs
               PROVE  \E r \in Slots : call[r].pc = "removing" /\ call[r].zone = z /\ a \in call[r].unused
    BY DEF Pool!LeavesOnlyWhenUnused
  <2>1. PICK r \in Slots, answer \in Manager!Results :
          Manager!AddWrite(r, answer) \/ Manager!RemoveWrite(r, answer)
    BY OnlyWrites
  <2>2. CASE Manager!AddWrite(r, answer)
    BY <2>2, Assumed, Manager!AddWriteEffect DEF GInv
  <2>3. CASE Manager!RemoveWrite(r, answer)
    BY <2>3, Assumed, Manager!RemoveWriteEffect DEF GInv, Pool!Absent, Manager!Absent
  <2> QED
    BY <2>1, <2>2, <2>3
<1> QED
  BY <1>1, WebhookInvariance, ManagerInvariance, PTL DEF Spec

(* A handler that is told its pool operation succeeded can count on it: what it
   added is in the pool as the API server has it, what it removed is not. *)
THEOREM PoolSuccessIsReal == Spec => [][Pool!DoneWhenAnswered]_vars
<1>1. WInv /\ GInv /\ [Next]_vars => [Pool!DoneWhenAnswered]_vars
  <2> SUFFICES ASSUME WInv, GInv, [Next]_vars, NEW o \in Slots, call'[o].pc = "ok",
                      call[o].pc \in {"adding", "removing"}
               PROVE  /\ call[o].pc = "adding" => call[o].addrs \subseteq pools'[call[o].zone].addrs
                      /\ call[o].pc = "removing" => call[o].unused \cap pools'[call[o].zone].addrs = {}
    BY DEF Pool!DoneWhenAnswered
  <2>1. PICK r \in Slots, answer \in Manager!Results :
          /\ Manager!AddWrite(r, answer) \/ Manager!RemoveWrite(r, answer)
          /\ Manager!Answered(r)
    BY OnlyWrites
  <2>2. r = o
    <3>1. call \in [Slots -> Pool!Call]
      BY DEF WInv, WebhookTypeOK, Pool!PoolTypeOK
    <3> QED
      BY <2>1, <3>1 DEF Manager!Answered, Manager!Answer
  <2>3. CASE Manager!AddWrite(r, answer)
    BY <2>2, <2>3, Assumed, Manager!AddWriteEffect DEF GInv
  <2>4. CASE Manager!RemoveWrite(r, answer)
    BY <2>2, <2>4, Assumed, Manager!RemoveWriteEffect DEF GInv, Manager!Absent
  <2> QED
    BY <2>1, <2>3, <2>4
<1> QED
  BY <1>1, WebhookInvariance, ManagerInvariance, PTL DEF Spec

----------------------------------------------------------------------------
(* Pools last. *)

\* What is unchanged of a request that only moves on.
LEMMA PooledOn ==
  ASSUME NEW pp, NEW ps, NEW svc \in AnyService \cup {NoService}, Pooled(pp, svc),
         \A z \in Zones : \A a \in pp[z].addrs :
            a \in ps[z].addrs \/ a \notin SetOf(svc.ann.addrs)
  PROVE  Pooled(ps, svc)
<1> SUFFICES ASSUME IsLB(svc) PROVE SetOf(svc.ann.addrs) \subseteq ps[svc.ann.zone].addrs
  BY DEF Pooled
<1>1. svc.ann.zone \in Zones
  BY AddrsKnown DEF IsLB, NoService
<1> QED
  BY <1>1 DEF Pooled

\* With one slot there is one request.
LEMMA OneRequest ==
  ASSUME PInv, NEW r \in Slots, Serial
  PROVE  /\ \A o \in Slots : o = r
         /\ MaxFaults = 0 /\ ~InformerLag /\ ~Rejections /\ Types \subseteq {"LoadBalancer"}
         /\ Active(r) => Undisputed(r)
  BY DEF PInv, Serial

LEMMA CreatesOnly ==
  ASSUME WInv, PInv, NEW r \in Slots, Active(r), ~Serial
  PROVE  req[r].op = "create"
  BY SoundTypes DEF WInv, PInv, PoolsLast

(* The step of a handler that leaves the pools alone. *)
LEMMA SlotPledges ==
  ASSUME WInv, PInv, NEW r \in Slots, NEW p, Continue(r, p), UNCHANGED <<store, pools>>,
         \A o \in Slots : o # r => call'[o] = call[o],
         p.pc # "idle" => Pledged(pools, call'[r], p) /\ (Serial => Undisputed(r)'),
         p.pc = "idle" /\ Serial /\ Active(r) => Pooled(pools, store[req[r].svc]),
         p.pc = "idle" \/ ~Active(r) \/ p.svc = req[r].svc
  PROVE  PInv'
<1>1. \A o \in Slots : req'[o] = IF o = r THEN p ELSE req[o]
  BY DEF WInv, WebhookTypeOK, Continue
<1>2. ASSUME NEW o \in Slots, Active(o)' PROVE Pledged(pools', call'[o], req'[o])
  <2>1. CASE o = r
    BY <1>1, <1>2, <2>1 DEF Active
  <2>2. CASE o # r
    BY <1>1, <1>2, <2>2 DEF Active, PInv
  <2> QED
    BY <2>1, <2>2
<1>3. ASSUME Serial, NEW o \in Slots, Active(o)' PROVE Undisputed(o)'
  <2>1. o = r /\ p.pc # "idle"
    BY <1>1, <1>3, OneRequest DEF Active
  <2> QED
    BY <1>3, <2>1
<1>4. ASSUME NEW s \in Services, Serial => Quiet(s)' PROVE Pooled(pools, store[s])
  <2>1. CASE Serial => Quiet(s)
    BY <2>1 DEF PInv
  <2>2. CASE Serial /\ ~Quiet(s)
    <3>1. PICK o \in Slots : Active(o) /\ req[o].svc = s
      BY <2>2 DEF Quiet, RequestsFor
    <3>2. o = r
      BY <2>2, OneRequest
    <3>3. p.pc = "idle"
      BY <1>1, <1>4, <2>2, <3>1, <3>2 DEF Quiet, RequestsFor, Active
    <3> QED
      BY <2>2, <3>1, <3>2, <3>3
  <2> QED
    BY <2>1, <2>2
<1>5. PoolsLast' /\ (Serial' <=> Serial)
  BY DEF PInv, PoolsLast, Serial
<1>6. Serial => \A s \in Services : store'[s] # NoService => IsLB(store'[s])
  BY DEF PInv
<1> QED
  BY <1>2, <1>3, <1>4, <1>5, <1>6 DEF PInv

\* What is known of the request a handler works on.
LEMMA Pledges ==
  ASSUME WInv, PInv, NEW r \in Slots, req[r].pc # "idle"
  PROVE  /\ Active(r) /\ Sound(req[r]) /\ Pledged(pools, call[r], req[r])
         /\ req[r] \in AnyRequest /\ req[r].svc \in Services
         /\ req[r].op \in {"create", "update", "delete"}
         /\ req[r].op # "create" => Serial
         /\ Serial => Undisputed(r)
         /\ req[r].op = "update" /\ req[r].pc \notin DefaultPhases => Updating(req[r])
<1>1. /\ Active(r) /\ Sound(req[r]) /\ req[r] \in AnyRequest /\ req[r].svc \in Services
      /\ req[r].op \in {"create", "update", "delete"}
  BY AtPhase
<1>2. Pledged(pools, call[r], req[r]) /\ (Serial => Undisputed(r))
  BY <1>1 DEF PInv
<1>3. req[r].op # "create" => Serial
  BY <1>1, CreatesOnly
<1>4. req[r].op = "update" /\ req[r].pc \notin DefaultPhases => Updating(req[r])
  BY <1>1, <1>2, SoundTypes DEF Pledged, UpdatePledged, Updating, Sound, Progress
<1> QED
  BY <1>1, <1>2, <1>3, <1>4

\* An update leaves both versions' addresses where the new one needs them.
LEMMA BothPooled ==
  ASSUME NEW pp, NEW q, Updating(q), Pooled(pp, q.old), InOneZone(q),
         NewOnes(q) \subseteq pp[q.new.ann.zone].addrs
  PROVE  Pooled(pp, q.new)
<1>1. KeptOnes(q) \subseteq pp[q.new.ann.zone].addrs
  BY DEF Updating, Pooled, InOneZone, KeptOnes
<1> QED
  BY <1>1 DEF Pooled, NewOnes, KeptOnes

LEMMA NoNewOnes ==
  ASSUME NEW q, Updating(q), NewPrefixes(q) = <<>>
  PROVE  NewOnes(q) = {}
<1>1. SetOf(NewPrefixes(q)) = NewOnes(q)
  BY PrefixSets DEF Updating
<1> QED
  BY <1>1, NothingListed

LEMMA SamePooled ==
  ASSUME NEW pp, NEW q, Updating(q), Pooled(pp, q.old), NothingToDo(q)
  PROVE  Pooled(pp, q.new)
  BY DEF Updating, Pooled, NothingToDo

\* The pledges of a request are about its Services only.
LEMMA FollowsPledged ==
  ASSUME NEW q, NEW p, p.old = q.old, p.new = q.new
  PROVE  /\ NewOnes(p) = NewOnes(q) /\ (InOneZone(p) <=> InOneZone(q))
  BY DEF NewOnes, InOneZone, KeptOnes

LEMMA UpdatesPledge ==
  ASSUME NEW pp, NEW c, NEW d, NEW q, Sound(q), Updating(q), UpdatePledged(pp, c, q),
         NEW p, Updates(q, p)
  PROVE  UpdatePledged(pp, d, p)
<1>1. /\ p.old = q.old /\ p.new = q.new /\ q.pc \in UpdatePhases /\ p.pc \in UpdatePhases \ PoolPhases
  BY FollowsCarries DEF Updates, Sound, Phased
<1>2. p.pc \in BeforePools => Pooled(pp, q.old)
  BY DEF Updates, UpdatePledged
<1>3. p.pc \in Zoned => InOneZone(p)
  BY <1>1, FollowsPledged DEF Updates, UpdatePledged
<1>4. q.pc \in BeforePools \cup AfterPools
  BY <1>1 DEF UpdatePhases, BeforePools, AfterPools
<1>5. ASSUME p.pc \in AfterPools PROVE Pooled(pp, q.new)
  <2>1. CASE q.pc \in AfterPools
    BY <2>1 DEF UpdatePledged
  <2>2. CASE q.pc \in BeforePools /\ NothingToDo(q)
    BY <2>2, SamePooled DEF UpdatePledged
  <2>3. CASE q.pc \in BeforePools /\ NewPrefixes(q) = <<>> /\ (q.pc \in Zoned \/ InOneZone(q))
    <3>1. NewOnes(q) = {} /\ Pooled(pp, q.old) /\ InOneZone(q)
      BY <2>3, NoNewOnes DEF UpdatePledged
    <3> QED
      BY <3>1, BothPooled
  <2> QED
    BY <1>4, <1>5, <2>1, <2>2, <2>3 DEF Updates
<1>6. p.pc \notin {"update_pooling", "update_removing"}
  BY <1>1 DEF PoolPhases
<1> QED
  BY <1>1, <1>2, <1>3, <1>5, <1>6 DEF UpdatePledged

LEMMA OwnPledges ==
  ASSUME WInv, PInv, NEW r \in Slots, OwnMove(r), Active(r)
  PROVE  PInv'
<1> DEFINE q == req[r]
<1>1. PICK p : Continue(r, p) /\ MovesOn(q, p)
  BY DEF OwnMove
<1>2. UNCHANGED <<store, pools, call>>
  BY DEF OwnMove, poolVars
<1>3. /\ Sound(q) /\ Pledged(pools, call[r], q) /\ q.svc \in Services
      /\ q.op \in {"create", "update", "delete"} /\ (Serial => Undisputed(r))
      /\ q.op = "update" /\ q.pc \notin DefaultPhases => Updating(q)
  BY Pledges DEF Active
<1>4. req'[r] = p
  BY <1>1 DEF WInv, WebhookTypeOK, Continue
<1>5. CASE Denies(q, p)
  <2>1. p.pc = "idle"
    BY <1>5 DEF Denies, Idle
  <2>2. ASSUME Serial PROVE Pooled(pools, q.old)
    <3>1. CASE q.op = "create"
      BY <1>3, <3>1 DEF Pledged, CreatePledged, Pooled, IsLB, NoService
    <3>2. CASE q.op = "update"
      <4>1. q.pc \in BeforePools
        BY <1>3, <1>5, <3>2 DEF Denies, Sound, Phased, UpdatePhases, DefaultPhases
      <4> QED
        BY <1>3, <3>2, <4>1 DEF Pledged, UpdatePledged
    <3>3. CASE q.op = "delete"
      <4>1. q.pc \in {"delete", "restore"}
        BY <1>3, <1>5, <3>3 DEF Denies, Sound, Phased, DeletePhases, BeforePools, DefaultPhases
      <4> QED
        BY <1>3, <3>3, <4>1 DEF Pledged, DeletePledged, DeletePhases
    <3> QED
      BY <1>3, <3>1, <3>2, <3>3
  <2>3. Serial => Pooled(pools, store[q.svc])
    BY <1>3, <2>2 DEF Undisputed
  <2> QED
    BY <1>1, <1>2, <2>1, <2>3, SlotPledges
<1>6. ASSUME Carries(p, q), p.pc # "idle", Pledged(pools, call[r], p) PROVE PInv'
  <2>1. Serial => Undisputed(r)'
    BY <1>2, <1>3, <1>4, <1>6 DEF Undisputed, Carries, LbAddrs
  <2>2. p.svc = q.svc
    BY <1>6 DEF Carries
  <2> QED
    BY <1>1, <1>2, <1>6, <2>1, <2>2, SlotPledges
<1>7. CASE Defaults(q, p)
  <2>1. /\ Carries(p, q) /\ p.op = q.op /\ p.old = q.old /\ p.pc # "idle"
        /\ p.pc \notin {"create_pooling", "update_pooling", "update_removing", "admitted"}
        /\ p.pc \notin Zoned \cup AfterPools
    BY <1>7 DEF Defaults, Carries, DefaultPhases, Zoned, AfterPools
  <2>2. q.op # "delete" /\ q.pc \in BeforePools
    BY <1>3, <1>7 DEF Defaults, Sound, Phased, DefaultPhases, DeletePhases, BeforePools
  <2>3. ASSUME q.op = "create" PROVE CreatePledged(pools, call[r], p)
    <3>1. Serial => IsLB(p.new)
      BY <1>3, <1>7, <2>3 DEF Defaults, Pledged, CreatePledged
    <3> QED
      BY <1>3, <2>1, <2>3, <3>1 DEF Pledged, CreatePledged
  <2>4. ASSUME q.op = "update" PROVE UpdatePledged(pools, call[r], p)
    <3>1. UpdatePledged(pools, call[r], q)
      BY <1>3, <2>4 DEF Pledged
    <3>2. IsLB(p.new) /\ Pooled(pools, q.old)
      BY <1>7, <2>2, <3>1 DEF Defaults, UpdatePledged
    <3> QED
      BY <2>1, <3>1, <3>2 DEF UpdatePledged
  <2> QED
    BY <1>6, <2>1, <2>2, <2>3, <2>4 DEF Pledged
<1>8. CASE Creates(q, p)
  <2>1. /\ Carries(p, q) /\ p.op = "create" /\ p.old = q.old /\ p.new = q.new
    BY <1>8, FollowsCarries DEF Creates
  <2>2. CreatePledged(pools, call[r], q) /\ p.pc # "idle" /\ p.pc # "create_pooling"
    BY <1>3, <1>8 DEF Creates, Pledged
  <2>3. p.pc = "admitted" => Pooled(pools, p.new)
    BY <1>8, <2>1 DEF Creates, Pooled
  <2> QED
    BY <1>6, <2>1, <2>2, <2>3 DEF Pledged, CreatePledged
<1>9. CASE Updates(q, p)
  <2>1. Carries(p, q) /\ p.op = "update" /\ p.pc # "idle"
    BY <1>9, FollowsCarries DEF Updates, UpdatePhases
  <2>2. Updating(q) /\ UpdatePledged(pools, call[r], q)
    BY <1>3, <1>9 DEF Updates, Pledged
  <2>3. UpdatePledged(pools, call[r], p)
    BY <1>3, <1>9, <2>2, UpdatesPledge
  <2> QED
    BY <1>6, <2>1, <2>3 DEF Pledged
<1>10. CASE Deletes(q, p)
  <2>1. /\ Carries(p, q) /\ p.op = "delete" /\ p.old = q.old
        /\ p.pc # "idle" /\ p.pc # "delete_removing"
    BY <1>10, FollowsCarries DEF Deletes, DeletePhases, PoolPhases
  <2>2. DeletePledged(pools, call[r], q) /\ Pooled(pools, q.old)
    BY <1>3, <1>10 DEF Deletes, Pledged, DeletePledged, PoolPhases
  <2>3. DeletePledged(pools, call[r], p)
    BY <2>1, <2>2 DEF DeletePledged
  <2> QED
    BY <1>6, <2>1, <2>3 DEF Pledged
<1> QED
  BY <1>1, <1>5, <1>7, <1>8, <1>9, <1>10 DEF MovesOn

\* A pool operation begins, for the request as it is.
LEMMA GetPledges ==
  ASSUME WInv, PInv, NEW r \in Slots, req[r].pc # "idle",
         NEW p, Follows(p, req[r]), p.pc # "idle", Continue(r, p), UNCHANGED <<store, pools>>,
         NEW c, call' = [call EXCEPT ![r] = c], c.pc # "removing",
         ~InformerLag /\ c.pc \in Pool!Running => c.read = pools[c.zone],
         Pledged(pools, c, p)
  PROVE  PInv'
<1>1. /\ call'[r] = c /\ \A o \in Slots : o # r => call'[o] = call[o]
      /\ req'[r] = p
  BY DEF WInv, WebhookTypeOK, Pool!PoolTypeOK, Continue
<1>2. Serial => Undisputed(r)'
  <2> SUFFICES ASSUME Serial PROVE Undisputed(r)'
    OBVIOUS
  <2>1. Undisputed(r) /\ ~InformerLag
    BY Pledges, OneRequest
  <2>2. p.answer = req[r].answer /\ p.svc = req[r].svc /\ p.old = req[r].old
    BY FollowsCarries DEF Carries
  <2> QED
    BY <1>1, <2>1, <2>2 DEF Undisputed
<1>3. p.svc = req[r].svc
  BY FollowsCarries
<1> QED
  BY <1>1, <1>2, <1>3, SlotPledges

\* What an operation holds when it begins.
LEMMA Begun ==
  ASSUME WInv, NEW r \in Slots, NEW z \in Zones, NEW A
  PROVE  /\ Pool!AddGet(r, z, A) =>
              \E c : /\ call' = [call EXCEPT ![r] = c] /\ UNCHANGED pools
                     /\ c.pc = "adding" /\ c.zone = z /\ c.addrs = A
                     /\ ~InformerLag => c.read = pools[c.zone]
         /\ Pool!RemoveGet(r, z, A) =>
              \E c : /\ call' = [call EXCEPT ![r] = c] /\ UNCHANGED pools
                     /\ c.pc \in {"listing", "error"}
                     /\ c.pc = "listing" => /\ c.zone = z /\ c.addrs = A
                                            /\ ~InformerLag => c.read = pools[c.zone]
<1>1. ASSUME Pool!AddGet(r, z, A)
      PROVE  \E c : /\ call' = [call EXCEPT ![r] = c] /\ UNCHANGED pools
                    /\ c.pc = "adding" /\ c.zone = z /\ c.addrs = A
                    /\ ~InformerLag => c.read = pools[c.zone]
  <2> DEFINE c == [pc |-> "adding", zone |-> z, addrs |-> A, read |-> Pool!SeenPool(z), unused |-> {}]
  <2>1. call' = [call EXCEPT ![r] = c] /\ UNCHANGED pools
    BY <1>1 DEF Pool!AddGet
  <2>2. c.pc = "adding" /\ c.zone = z /\ c.addrs = A /\ (~InformerLag => c.read = pools[c.zone])
    BY DEF Pool!SeenPool
  <2> QED
    BY <2>1, <2>2
<1>2. ASSUME Pool!RemoveGet(r, z, A)
      PROVE  \E c : /\ call' = [call EXCEPT ![r] = c] /\ UNCHANGED pools
                    /\ c.pc \in {"listing", "error"}
                    /\ c.pc = "listing" => /\ c.zone = z /\ c.addrs = A
                                           /\ ~InformerLag => c.read = pools[c.zone]
  <2> DEFINE c == [pc |-> "listing", zone |-> z, addrs |-> A, read |-> Pool!SeenPool(z), unused |-> {}]
             e == [pc |-> "error"]
  <2>1. (call' = [call EXCEPT ![r] = c] \/ call' = [call EXCEPT ![r] = e]) /\ UNCHANGED pools
    BY <1>2 DEF Pool!RemoveGet, Pool!Answer
  <2>2. c.pc = "listing" /\ c.zone = z /\ c.addrs = A /\ (~InformerLag => c.read = pools[c.zone])
    BY DEF Pool!SeenPool
  <2>3. e.pc = "error"
    OBVIOUS
  <2> HIDE DEF c, e
  <2> QED
    BY <2>1, <2>2, <2>3
<1> QED
  BY <1>1, <1>2

LEMMA CreatePoolGetPledges ==
  ASSUME WInv, GInv, PInv, NEW r \in Slots, CreatePoolGet(r)
  PROVE  PInv'
<1> DEFINE q == req[r]
           p == Loop(q, "create_pooling", <<>>)
<1>1. q.pc = "create_pool" /\ q.pc # "idle" /\ Continue(r, p) /\ UNCHANGED store
  BY DEF CreatePoolGet, PoolUnchanged
<1>2. q \in AnyRequest /\ q.op = "create" /\ q.new.ann.zone \in Zones
  BY <1>1, CreateAdds
<1>3. Follows(p, q) /\ p.pc = "create_pooling"
  BY <1>2, Fields
<1>4. PICK c : /\ call' = [call EXCEPT ![r] = c] /\ UNCHANGED pools
               /\ c.pc = "adding" /\ c.zone = q.new.ann.zone /\ c.addrs = SetOf(q.new.ann.addrs)
               /\ ~InformerLag => c.read = pools[c.zone]
  BY <1>2, Begun DEF CreatePoolGet
<1>5. CreatePledged(pools, call[r], q)
  BY <1>1, <1>2, Pledges DEF Pledged
<1> HIDE DEF p
<1>6. Pledged(pools, c, p)
  BY <1>2, <1>3, <1>4, <1>5, FollowsCarries DEF Pledged, CreatePledged
<1> QED
  BY <1>1, <1>3, <1>4, <1>6, GetPledges

LEMMA UpdatePoolGetPledges ==
  ASSUME WInv, PInv, NEW r \in Slots, UpdatePoolGet(r)
  PROVE  PInv'
<1> DEFINE q == req[r]
           p == At(q, "update_pooling")
<1>1. q.pc = "update_pool" /\ q.pc # "idle" /\ Continue(r, p) /\ UNCHANGED store
  BY DEF UpdatePoolGet, PoolUnchanged
<1>2. q \in AnyRequest /\ q.op = "update" /\ q.new.ann.zone \in Zones
  BY <1>1, AtUpdating DEF UpdatePhases, UpdateRequest, AnyAnn
<1>3. Follows(p, q) /\ p.pc = "update_pooling"
  BY <1>2, Fields
<1>4. Updating(q) /\ UpdatePledged(pools, call[r], q)
  BY <1>1, <1>2, Pledges DEF Pledged, DefaultPhases
<1>5. SetOf(NewPrefixes(q)) = NewOnes(q)
  BY <1>4, PrefixSets DEF Updating
<1>6. PICK c : /\ call' = [call EXCEPT ![r] = c] /\ UNCHANGED pools
               /\ c.pc = "adding" /\ c.zone = q.new.ann.zone /\ c.addrs = NewOnes(q)
               /\ ~InformerLag => c.read = pools[c.zone]
  BY <1>2, <1>5, Begun DEF UpdatePoolGet
<1> HIDE DEF p
<1>7. UpdatePledged(pools, c, p)
  <2>1. Pooled(pools, q.old) /\ InOneZone(q)
    BY <1>1, <1>4 DEF UpdatePledged, BeforePools, Zoned
  <2>2. /\ p.old = q.old /\ p.new = q.new /\ NewOnes(p) = NewOnes(q) /\ InOneZone(p)
        /\ p.pc \notin AfterPools /\ p.pc # "update_removing"
    BY <1>3, <2>1, FollowsCarries, FollowsPledged DEF AfterPools
  <2> QED
    BY <1>4, <1>6, <2>1, <2>2 DEF UpdatePledged
<1>8. Pledged(pools, c, p)
  BY <1>2, <1>3, <1>7, FollowsCarries DEF Pledged
<1> QED
  BY <1>1, <1>3, <1>6, <1>8, GetPledges

LEMMA UpdateRemoveGetPledges ==
  ASSUME WInv, PInv, NEW r \in Slots, UpdateRemoveGet(r)
  PROVE  PInv'
<1> DEFINE q == req[r]
           p == At(q, "update_removing")
           A == SetOf(RemovePrefixes(q)) \cap Addrs
<1>1. q.pc = "update_remove" /\ q.pc # "idle" /\ Continue(r, p) /\ UNCHANGED store
  BY DEF UpdateRemoveGet, PoolUnchanged
<1>2. q \in AnyRequest /\ q.op = "update" /\ q.old.ann.zone \in Zones
  BY <1>1, AtUpdating DEF UpdatePhases, UpdateRequest, AnyAnn
<1>3. Follows(p, q) /\ p.pc = "update_removing"
  BY <1>2, Fields
<1>4. Updating(q) /\ UpdatePledged(pools, call[r], q)
  BY <1>1, <1>2, Pledges DEF Pledged, DefaultPhases
<1>5. A \subseteq SetOf(q.old.ann.addrs) \ SetOf(q.new.ann.addrs)
  BY <1>4, PrefixSets DEF Updating
<1>6. PICK c : /\ call' = [call EXCEPT ![r] = c] /\ UNCHANGED pools
               /\ c.pc \in {"listing", "error"}
               /\ c.pc = "listing" => /\ c.zone = q.old.ann.zone /\ c.addrs = A
                                      /\ ~InformerLag => c.read = pools[c.zone]
  BY <1>2, Begun DEF UpdateRemoveGet
<1> HIDE DEF p, A
<1>7. UpdatePledged(pools, c, p)
  <2>1. Pooled(pools, q.new)
    BY <1>1, <1>4 DEF UpdatePledged, AfterPools
  <2>2. /\ p.old = q.old /\ p.new = q.new
        /\ p.pc \notin BeforePools \cup Zoned
    BY <1>3, FollowsCarries DEF BeforePools, DefaultPhases, Zoned
  <2>3. Spending(c, SetOf(q.old.ann.addrs) \ SetOf(q.new.ann.addrs))
    BY <1>5, <1>6 DEF Spending
  <2> QED
    BY <1>3, <1>4, <2>1, <2>2, <2>3 DEF UpdatePledged
<1>8. Pledged(pools, c, p)
  BY <1>2, <1>3, <1>7, FollowsCarries DEF Pledged
<1> QED
  BY <1>1, <1>3, <1>6, <1>8, GetPledges DEF Pool!Running

LEMMA DeleteRemoveGetPledges ==
  ASSUME WInv, PInv, NEW r \in Slots, DeleteRemoveGet(r)
  PROVE  PInv'
<1> DEFINE q == req[r]
           p == At(q, "delete_removing")
           A == SetOf(q.old.ann.addrs)
<1>1. q.pc = "delete_remove" /\ q.pc # "idle" /\ Continue(r, p) /\ UNCHANGED store
  BY DEF DeleteRemoveGet, PoolUnchanged
<1>2. q \in AnyRequest /\ q.op = "delete" /\ q.old \in AnyService
  BY <1>1, AtPhase, SoundTypes DEF DeletePhases
<1>3. Follows(p, q) /\ p.pc = "delete_removing"
  BY <1>2, Fields
<1>0. q.old.ann.zone \in Zones
  BY <1>2, AddrsKnown
<1>4. DeletePledged(pools, call[r], q)
  BY <1>1, <1>2, Pledges DEF Pledged
<1>5. PICK c : /\ call' = [call EXCEPT ![r] = c] /\ UNCHANGED pools
               /\ c.pc \in {"listing", "error"}
               /\ c.pc = "listing" => /\ c.zone = q.old.ann.zone /\ c.addrs = A
                                      /\ ~InformerLag => c.read = pools[c.zone]
  BY <1>0, Begun DEF DeleteRemoveGet
<1> HIDE DEF p
<1>6. DeletePledged(pools, c, p)
  <2>1. Pooled(pools, q.old) /\ Spending(c, A)
    BY <1>1, <1>4, <1>5 DEF DeletePledged, DeletePhases, Spending
  <2> QED
    BY <1>3, <1>4, <2>1, FollowsCarries DEF DeletePledged
<1>7. Pledged(pools, c, p)
  BY <1>2, <1>3, <1>6, FollowsCarries DEF Pledged
<1> QED
  BY <1>1, <1>3, <1>5, <1>7, GetPledges DEF Pool!Running

\* As long as pools only grow, every pledge stands.
LEMMA PledgesGrow ==
  ASSUME NEW pp, NEW ps, NEW c, NEW q, Sound(q), Pledged(pp, c, q),
         \A z \in Zones : pp[z].addrs \subseteq ps[z].addrs
  PROVE  Pledged(ps, c, q)
<1>1. /\ q.op = "create" => q.new \in AnyService
      /\ q.op = "update" => q.new \in AnyService /\ q.old \in AnyService
      /\ q.op = "delete" => q.old \in AnyService
  BY SoundTypes
<1>2. \A svc \in AnyService : Pooled(pp, svc) => Pooled(ps, svc)
  BY PooledOn
<1>3. q.op = "create" => CreatePledged(ps, c, q)
  BY <1>1, <1>2 DEF Pledged, CreatePledged
<1>4. q.op = "update" => UpdatePledged(ps, c, q)
  <2> SUFFICES ASSUME q.op = "update" PROVE UpdatePledged(ps, c, q)
    OBVIOUS
  <2>1. UpdatePledged(pp, c, q) /\ q.new.ann.zone \in Zones
    BY <1>1, AddrsKnown DEF Pledged
  <2>2. NewOnes(q) \subseteq pp[q.new.ann.zone].addrs => NewOnes(q) \subseteq ps[q.new.ann.zone].addrs
    BY <2>1
  <2> HIDE DEF NewOnes
  <2> QED
    BY <1>1, <1>2, <2>1, <2>2 DEF UpdatePledged
<1>5. q.op = "delete" => DeletePledged(ps, c, q)
  BY <1>1, <1>2 DEF Pledged, DeletePledged
<1> QED
  BY <1>3, <1>4, <1>5 DEF Pledged

\* An operation that runs, and the phase its request is in.
LEMMA Operates ==
  ASSUME WInv, PInv, NEW r \in Slots, call[r].pc \in {"adding", "listing", "removing"}
  PROVE  /\ req[r].pc \in PoolPhases /\ req[r].pc # "idle"
         /\ req[r].pc = "create_pooling" => req[r].op = "create" /\ call[r].pc = "adding"
         /\ req[r].pc = "update_pooling" => req[r].op = "update" /\ call[r].pc = "adding"
         /\ req[r].pc = "update_removing" => req[r].op = "update" /\ call[r].pc # "adding"
         /\ req[r].pc = "delete_removing" => req[r].op = "delete" /\ call[r].pc # "adding"
<1> DEFINE q == req[r]
<1>1. q.pc \in PoolPhases
  BY DEF WInv, WebhookTypeOK, Idle
<1>2. q.pc # "idle"
  BY <1>1 DEF PoolPhases
<1>3. /\ q.pc = "create_pooling" => q.op = "create"
      /\ q.pc \in {"update_pooling", "update_removing"} => q.op = "update"
      /\ q.pc = "delete_removing" => q.op = "delete"
  BY <1>2, AtPhase DEF CreatePhases, UpdatePhases, DeletePhases
<1>4. Pledged(pools, call[r], q)
  BY <1>2, Pledges
<1> QED
  BY <1>1, <1>2, <1>3, <1>4 DEF Pledged, CreatePledged, UpdatePledged, DeletePledged, Spending

\* What it has read is what is stored, so an addition gets through.
LEMMA AddSucceeds ==
  ASSUME WInv, GInv, NEW r \in Slots, Pool!AddWrite(r, "ok"), UNCHANGED <<store, lbCache>>,
         call[r].read = pools[call[r].zone]
  PROVE  /\ call'[r].pc = "ok" /\ call[r].pc = "adding" /\ call[r].zone \in Zones
         /\ \A z \in Zones : z # call[r].zone => pools'[z] = pools[z]
         /\ pools'[call[r].zone].addrs = pools[call[r].zone].addrs \cup call[r].addrs
<1>1. Manager!AddWrite(r, "ok") /\ Manager!IInv
  BY SameOperations DEF GInv
<1>2. call'[r].pc = "ok"
  <2>1. call \in [Slots -> Pool!Call]
    BY DEF WInv, WebhookTypeOK, Pool!PoolTypeOK
  <2> QED
    BY <2>1 DEF Pool!AddWrite, Pool!CreatePool, Pool!CreateConflicts, Pool!UpdatePool,
         Pool!UpdateConflicts, Pool!Answer
<1> QED
  BY <1>1, <1>2, Assumed, Manager!AddWriteEffect DEF Manager!Results

LEMMA AddWritePledges ==
  ASSUME WInv, GInv, PInv, NEW r \in Slots, NEW answer \in Results, Pool!AddWrite(r, answer),
         answer = "ok" \/ faults < MaxFaults, UNCHANGED <<store, req, lbCache>>
  PROVE  PInv'
<1> DEFINE q == req[r]
           c == call[r]
<1>1. Manager!AddWrite(r, answer) /\ Manager!IInv /\ answer \in Manager!Results
  BY SameOperations, SameResults DEF GInv
<1>2. /\ c.pc = "adding" /\ c.zone \in Zones
      /\ \A z \in Zones : z # c.zone => pools'[z] = pools[z]
      /\ \/ UNCHANGED pools /\ call'[r].pc = "error"
         \/ pools'[c.zone].addrs = pools[c.zone].addrs \cup c.addrs
  BY <1>1, Assumed, Manager!AddWriteEffect
<1>3. \A z \in Zones : pools[z].addrs \subseteq pools'[z].addrs
  BY <1>2
<1>4. /\ q.pc \in {"create_pooling", "update_pooling"} /\ q.pc # "idle"
      /\ q.pc = "create_pooling" => q.op = "create"
      /\ q.pc = "update_pooling" => q.op = "update"
  BY <1>2, Operates DEF PoolPhases
<1>5. /\ \A o \in Slots : o # r => call'[o] = call[o]
      /\ call'[r].pc \in {"ok", "error"}
  BY DEF WInv, WebhookTypeOK, Pool!PoolTypeOK, Pool!AddWrite, Pool!CreatePool, Pool!UpdatePool,
         Pool!Answer, Results
<1>6. Sound(q) /\ Pledged(pools, c, q) /\ (Serial => Undisputed(r))
  BY <1>4, Pledges
<1>7. Pledged(pools', call'[r], q)
  <2>1. Pledged(pools', c, q)
    BY <1>3, <1>6, PledgesGrow
  <2>2. CASE q.pc = "create_pooling"
    <3>1. CreatePledged(pools', c, q) /\ CreatePledged(pools, c, q)
      BY <1>4, <1>6, <2>1, <2>2 DEF Pledged
    <3>2. call'[r].pc = "ok" => Pooled(pools', q.new)
      BY <1>2, <2>2, <3>1 DEF CreatePledged, Pooled
    <3> QED
      BY <1>4, <1>5, <2>2, <3>1, <3>2 DEF CreatePledged, Pledged
  <2>3. CASE q.pc = "update_pooling"
    <3>1. UpdatePledged(pools', c, q) /\ UpdatePledged(pools, c, q)
      BY <1>4, <1>6, <2>1, <2>3 DEF Pledged
    <3>2. c.read = pools[c.zone] /\ c.zone = q.new.ann.zone /\ c.addrs = NewOnes(q)
      BY <1>2, <1>4, <1>6, <2>3, <3>1, Pledges DEF Undisputed, UpdatePledged, Pool!Running
    <3>3. call'[r].pc = "ok"
      <4>0. answer = "ok"
        BY <1>4, <1>6, <2>3, Pledges, OneRequest DEF WInv, WebhookTypeOK
      <4>1. call \in [Slots -> Pool!Call]
        BY DEF WInv, WebhookTypeOK, Pool!PoolTypeOK
      <4> QED
        BY <3>2, <4>0, <4>1 DEF Pool!AddWrite, Pool!CreatePool, Pool!CreateConflicts, Pool!UpdatePool,
             Pool!UpdateConflicts, Pool!Answer
    <3>4. NewOnes(q) \subseteq pools'[q.new.ann.zone].addrs
      BY <1>2, <3>2, <3>3
    <3> QED
      BY <1>4, <2>3, <3>1, <3>3, <3>4 DEF UpdatePledged, Pledged, AfterPools
  <2> QED
    BY <1>4, <2>2, <2>3
<1>8. \A o \in Slots : Active(o) => Pledged(pools', call'[o], req[o])
  <2> SUFFICES ASSUME NEW o \in Slots, Active(o), o # r PROVE Pledged(pools', call[o], req[o])
    BY <1>5, <1>7
  <2>1. Sound(req[o]) /\ Pledged(pools, call[o], req[o])
    BY DEF WInv, PInv
  <2> QED
    BY <1>3, <2>1, PledgesGrow
<1>9. Serial => \A o \in Slots : Active(o) => Undisputed(o)'
  BY <1>5, <1>6, OneRequest DEF Undisputed, Pool!Running
<1>10. \A s \in Services : Pooled(pools, store[s]) => Pooled(pools', store[s])
  BY <1>3, PooledOn DEF WInv, WebhookTypeOK
<1> QED
  BY <1>8, <1>9, <1>10 DEF PInv, PoolsLast, Serial, Active, Quiet, RequestsFor

\* An operation that goes on, with the pools as they are.
LEMMA RunningPledges ==
  ASSUME WInv, PInv, NEW r \in Slots, UNCHANGED <<store, req, pools>>, req[r].pc # "idle",
         \A o \in Slots : o # r => call'[o] = call[o],
         Pledged(pools, call'[r], req[r]), Serial => Undisputed(r)'
  PROVE  PInv'
<1>1. Continue(r, req[r])
  BY DEF Continue, WInv, WebhookTypeOK
<1> QED
  BY <1>1, SlotPledges

LEMMA RemoveListPledges ==
  ASSUME WInv, PInv, NEW r \in Slots, Pool!RemoveList(r), UNCHANGED <<store, req, lbCache>>
  PROVE  PInv'
<1> DEFINE q == req[r]
           c == call[r]
           d == call'[r]
<1>1. c.pc = "listing" /\ UNCHANGED pools /\ call \in [Slots -> Pool!Call]
  BY DEF Pool!RemoveList, WInv, WebhookTypeOK, Pool!PoolTypeOK
<1>2. d = [c EXCEPT !.pc = "removing", !.unused = Pool!NotInUse(c.addrs)]
  BY <1>1 DEF Pool!RemoveList
<1>3. c \in Pool!Removing
  BY <1>1 DEF Pool!Call, Pool!Adding
<1>4. /\ d.pc = "removing" /\ d.zone = c.zone /\ d.addrs = c.addrs /\ d.read = c.read
      /\ d.unused = Pool!NotInUse(c.addrs)
  BY <1>2, <1>3 DEF Pool!Removing
<1>5. \A o \in Slots : o # r => call'[o] = call[o]
  BY <1>1 DEF Pool!RemoveList
<1>6. /\ q.pc \in {"update_removing", "delete_removing"} /\ q.pc # "idle"
      /\ q.pc = "update_removing" => q.op = "update"
      /\ q.pc = "delete_removing" => q.op = "delete"
  BY <1>1, Operates DEF PoolPhases
<1>7. /\ Pledged(pools, c, q) /\ Undisputed(r) /\ Serial /\ q.svc \in Services
  BY <1>6, Pledges
<1>8. d.unused \subseteq d.addrs
  BY <1>4 DEF Pool!NotInUse
<1>9. Pledged(pools, d, q)
  <2>1. \A A : Spending(c, A) => Spending(d, A)
    BY <1>1, <1>4, <1>8 DEF Spending
  <2>2. CASE q.pc = "update_removing"
    BY <1>6, <1>7, <2>1, <2>2 DEF Pledged, UpdatePledged
  <2>3. CASE q.pc = "delete_removing"
    BY <1>1, <1>6, <1>7, <2>1, <2>3 DEF Pledged, DeletePledged
  <2> QED
    BY <1>6, <2>2, <2>3
<1>10. IsLB(q.old) /\ c.addrs \subseteq SetOf(q.old.ann.addrs)
  BY <1>1, <1>6, <1>7 DEF Pledged, UpdatePledged, DeletePledged, Spending
<1>11. c.addrs \subseteq LbAddrs[q.svc]
  BY <1>7, <1>10 DEF Undisputed, LbAddrs
<1>12. ASSUME NEW a \in d.unused, NEW t \in Services, t # q.svc PROVE a \notin LbAddrs[t]
  <2>1. a \in c.addrs /\ \E s \in Services : Pool!UsedBy(a) = {s}
    BY <1>4 DEF Pool!NotInUse
  <2>2. Pool!UsedBy(a) = {s \in Services : a \in LbAddrs[s]}
    BY <1>7, OneRequest DEF Pool!UsedBy, Pool!SeenLbAddrs
  <2>3. q.svc \in Pool!UsedBy(a)
    BY <1>7, <1>11, <2>1, <2>2
  <2> QED
    BY <1>12, <2>1, <2>2, <2>3
<1>13. Undisputed(r)'
  <2>1. LbAddrs' = LbAddrs
    BY DEF LbAddrs
  <2>2. c.read = pools[c.zone]
    BY <1>1, <1>7 DEF Undisputed, Pool!Running
  <2> HIDE DEF d
  <2>3. \A a \in d.unused, t \in Services : t # q.svc => a \notin LbAddrs'[t]
    BY <1>12, <2>1
  <2> QED
    BY <1>1, <1>4, <1>7, <2>2, <2>3 DEF Undisputed, d
<1> QED
  BY <1>1, <1>5, <1>6, <1>9, <1>13, RunningPledges

LEMMA CallFailsPledges ==
  ASSUME WInv, PInv, NEW r \in Slots, Pool!CallFails(r), faults < MaxFaults,
         UNCHANGED <<store, req>>
  PROVE  PInv'
<1>1. ~Serial
  BY OneRequest DEF WInv, WebhookTypeOK
<1>2. /\ call[r].pc \in {"adding", "listing", "removing"} /\ UNCHANGED pools
      /\ call'[r].pc = "error" /\ \A o \in Slots : o # r => call'[o] = call[o]
  BY DEF Pool!CallFails, Pool!Running, Pool!Answer, WInv, WebhookTypeOK, Pool!PoolTypeOK
<1>3. req[r].pc # "idle" /\ req[r].op = "create" /\ Pledged(pools, call[r], req[r])
  BY <1>1, <1>2, Operates, Pledges
<1>4. Pledged(pools, call'[r], req[r])
  BY <1>2, <1>3 DEF Pledged, CreatePledged
<1> QED
  BY <1>1, <1>2, <1>3, <1>4, RunningPledges

\* A removal computed from what is stored takes away what it found not in use,
\* and nothing else, when it succeeds.
LEMMA RemoveWriteSpares ==
  ASSUME WInv, NEW r \in Slots, Pool!RemoveWrite(r, "ok"), call[r].read = pools[call[r].zone]
  PROVE  /\ \A o \in Slots : o # r => call'[o] = call[o]
         /\ call'[r].pc \in {"ok", "error"} /\ (call'[r].pc = "error" => UNCHANGED pools)
         /\ \A z \in Zones : \A a \in pools[z].addrs : a \in pools'[z].addrs \/ a \in call[r].unused
<1> DEFINE c == call[r]
           rest == Pool!Remaining(c.read, c.unused)
<1>1. /\ call \in [Slots -> Pool!Call] /\ pools \in [Zones -> Pool!Pool]
      /\ c.pc = "removing"
  BY DEF WInv, WebhookTypeOK, Pool!PoolTypeOK, Pool!RemoveWrite
<1>2. c \in Pool!Removing
  BY <1>1 DEF Pool!Call, Pool!Adding
<1>3. c.zone \in Zones /\ rest = pools[c.zone].addrs \ c.unused
  BY <1>2 DEF Pool!Removing, Pool!Remaining
<1>4. CASE rest = {} /\ Pool!DeletePool(r, c.zone, c.read, "ok")
  BY <1>1, <1>3, <1>4 DEF Pool!DeletePool, Pool!Answer
<1>5. CASE Pool!UpdatePool(r, c.zone, c.read, rest, "ok")
  <2>1. UNCHANGED pools \/ pools' = [pools EXCEPT ![c.zone] = [rv |-> rev', addrs |-> rest]]
    BY <1>5 DEF Pool!UpdatePool, Pool!Store
  <2>2. \A z \in Zones : pools'[z].addrs = pools[z].addrs \/ (z = c.zone /\ pools'[z].addrs = rest)
    BY <1>1, <2>1
  <2>3. \/ call' = [call EXCEPT ![r] = [pc |-> "ok"]]
        \/ call' = [call EXCEPT ![r] = [pc |-> "error"]] /\ UNCHANGED pools
    BY <1>5 DEF Pool!UpdatePool, Pool!Answer
  <2> QED
    BY <1>1, <1>3, <2>2, <2>3
<1> QED
  BY <1>4, <1>5 DEF Pool!RemoveWrite

LEMMA RemoveWritePledges ==
  ASSUME WInv, PInv, NEW r \in Slots, NEW answer \in Results, Pool!RemoveWrite(r, answer),
         answer = "ok" \/ faults < MaxFaults, UNCHANGED <<store, req, lbCache>>
  PROVE  PInv'
<1> DEFINE q == req[r]
           c == call[r]
           d == call'[r]
<1>1. c.pc = "removing"
  BY DEF Pool!RemoveWrite
<1>2. /\ q.pc \in {"update_removing", "delete_removing"} /\ q.pc # "idle"
      /\ q.pc = "update_removing" => q.op = "update"
      /\ q.pc = "delete_removing" => q.op = "delete"
  BY <1>1, Operates DEF PoolPhases
<1>3. /\ Pledged(pools, c, q) /\ Undisputed(r) /\ Serial /\ q.svc \in Services
      /\ Sound(q) /\ (\A o \in Slots : o = r) /\ answer = "ok"
  BY <1>2, Pledges, OneRequest DEF WInv, WebhookTypeOK
<1>4. /\ d.pc \in {"ok", "error"} /\ (d.pc = "error" => UNCHANGED pools)
      /\ \A z \in Zones : \A a \in pools[z].addrs : a \in pools'[z].addrs \/ a \in c.unused
  BY <1>1, <1>3, RemoveWriteSpares DEF Undisputed, Pool!Running
<1>5. Pledged(pools', d, q)
  <2>1. CASE q.pc = "update_removing"
    <3>1. /\ UpdatePledged(pools, c, q) /\ q.new \in AnyService
      BY <1>2, <1>3, <2>1, SoundTypes DEF Pledged
    <3>2. Pooled(pools, q.new) /\ c.unused \cap SetOf(q.new.ann.addrs) = {}
      BY <1>1, <2>1, <3>1 DEF UpdatePledged, AfterPools, Spending
    <3>3. Pooled(pools', q.new)
      BY <1>4, <3>1, <3>2, PooledOn
    <3>4. Spending(d, SetOf(q.old.ann.addrs) \ SetOf(q.new.ann.addrs))
      BY <1>4 DEF Spending
    <3>5. q.pc \notin BeforePools
      BY <2>1 DEF BeforePools, DefaultPhases
    <3> QED
      BY <1>2, <2>1, <3>1, <3>3, <3>4, <3>5 DEF Pledged, UpdatePledged
  <2>2. CASE q.pc = "delete_removing"
    <3>1. DeletePledged(pools, c, q) /\ Pooled(pools, q.old)
      BY <1>1, <1>2, <1>3, <2>2 DEF Pledged, DeletePledged
    <3>2. d.pc # "ok" => Pooled(pools', q.old)
      BY <1>4, <3>1
    <3>3. Spending(d, SetOf(q.old.ann.addrs))
      BY <1>4 DEF Spending
    <3> QED
      BY <1>2, <2>2, <3>1, <3>2, <3>3 DEF Pledged, DeletePledged
  <2> QED
    BY <1>2, <2>1, <2>2
<1>6. \A o \in Slots : Active(o)' => Pledged(pools', call'[o], req'[o])
  BY <1>3, <1>5
<1>7. \A o \in Slots : Active(o)' => Undisputed(o)'
  <2>1. d.pc \notin Pool!Running /\ d.pc # "removing"
    BY <1>4 DEF Pool!Running
  <2> QED
    BY <1>3, <2>1 DEF Undisputed
<1>8. ASSUME NEW s \in Services, Quiet(s) PROVE Pooled(pools', store[s])
  <2>1. Pooled(pools, store[s]) /\ store[s] \in AnyService \cup {NoService}
    BY <1>8 DEF PInv, WInv, WebhookTypeOK
  <2>2. s # q.svc
    BY <1>2, <1>8 DEF Quiet, RequestsFor, Active
  <2>3. \A a \in c.unused : a \notin LbAddrs[s]
    BY <1>1, <1>3, <2>2 DEF Undisputed
  <2>4. CASE IsLB(store[s])
    <3>1. LbAddrs[s] = SetOf(store[s].ann.addrs)
      BY <2>4 DEF LbAddrs
    <3> QED
      BY <1>4, <2>1, <2>3, <3>1, PooledOn
  <2> QED
    BY <2>4 DEF Pooled
<1>9. \A s \in Services : Quiet(s)' => Pooled(pools', store'[s])
  BY <1>8 DEF Quiet, RequestsFor, Active
<1> QED
  BY <1>3, <1>6, <1>7, <1>9 DEF PInv, PoolsLast, Serial

LEMMA PoolStepPledges ==
  ASSUME WInv, GInv, PInv, NEW r \in Slots, PoolStep(r)
  PROVE  PInv'
<1>1. UNCHANGED <<store, req, lbCache>>
  BY DEF PoolStep
<1>2. ASSUME NEW answer \in Results, Pool!AddWrite(r, answer) \/ Pool!RemoveWrite(r, answer),
             answer = "ok" \/ faults < MaxFaults
      PROVE  PInv'
  BY <1>1, <1>2, AddWritePledges, RemoveWritePledges
<1>3. CASE Pool!RemoveList(r)
  BY <1>1, <1>3, RemoveListPledges
<1>4. CASE Pool!CallFails(r) /\ faults < MaxFaults
  BY <1>1, <1>4, CallFailsPledges
<1> QED
  BY <1>2, <1>3, <1>4 DEF PoolStep, Pool!AnswerLost, Results

\* A handler goes on with what its pool operation has left.
LEMMA PoolReturnPledges ==
  ASSUME WInv, PInv, NEW r \in Slots, PoolReturn(r)
  PROVE  PInv'
<1> DEFINE q == req[r]
           c == call[r]
           p == AfterPool(q, c.pc)
           back == Loop(q, "restore", OldAddrs(q))
<1>1. /\ c.pc \in {"ok", "error"} /\ Continue(r, p) /\ UNCHANGED <<store, pools>>
      /\ call' = [call EXCEPT ![r] = Idle]
  BY DEF PoolReturn, PoolUnchanged
<1>2. q.pc \in PoolPhases /\ q.pc # "idle"
  BY <1>1 DEF WInv, WebhookTypeOK, PoolPhases, Idle
<1>3. /\ Sound(q) /\ Pledged(pools, c, q) /\ q \in AnyRequest /\ (Serial => Undisputed(r))
      /\ q.op = "update" => Updating(q)
      /\ q.pc = "create_pooling" => q.op = "create"
      /\ q.pc \in {"update_pooling", "update_removing"} => q.op = "update"
      /\ q.pc = "delete_removing" => q.op = "delete"
  BY <1>2, Pledges, AtPhase DEF PoolPhases, DefaultPhases, CreatePhases, UpdatePhases, DeletePhases
<1>4. \A o \in Slots : call'[o] = IF o = r THEN Idle ELSE call[o]
  BY <1>1 DEF WInv, WebhookTypeOK, Pool!PoolTypeOK
<1>5. ASSUME NEW x, Continue(r, x), Follows(x, q), x.pc # "idle", Pledged(pools, Idle, x) PROVE PInv'
  <2>1. req'[r] = x
    BY <1>5 DEF WInv, WebhookTypeOK, Continue
  <2>2. x.svc = q.svc /\ x.old = q.old /\ x.answer = q.answer
    BY <1>5, FollowsCarries DEF Carries
  <2>3. Serial => Undisputed(r)'
    BY <1>1, <1>3, <1>4, <2>1, <2>2 DEF Undisputed, Idle, Pool!Running
  <2> QED
    BY <1>1, <1>4, <1>5, <2>2, <2>3, SlotPledges
<1>6. ASSUME Continue(r, Idle), Serial => Pooled(pools, q.old) PROVE PInv'
  <2>1. Serial => Pooled(pools, store[q.svc])
    BY <1>3, <1>6 DEF Undisputed
  <2> QED
    BY <1>1, <1>4, <1>6, <2>1, SlotPledges DEF Idle
<1>7. Follows(Admit(q), q) /\ Admit(q).pc = "admitted"
  BY <1>3, Fields
<1>8. CASE q.pc = "create_pooling"
  <2>1. CreatePledged(pools, c, q) /\ q.op = "create"
    BY <1>3, <1>8 DEF Pledged
  <2>2. CASE c.pc = "ok"
    <3>1. Pledged(pools, Idle, Admit(q))
      BY <1>7, <1>8, <2>1, <2>2, FollowsCarries DEF Pledged, CreatePledged
    <3> QED
      BY <1>1, <1>5, <1>7, <1>8, <2>2, <3>1 DEF AfterPool
  <2>3. CASE c.pc = "error"
    <3>1. Pooled(pools, q.old)
      BY <2>1 DEF CreatePledged, Pooled, IsLB, NoService
    <3> QED
      BY <1>1, <1>6, <1>8, <2>3, <3>1 DEF AfterPool
  <2> QED
    BY <1>1, <2>2, <2>3
<1>9. ASSUME q.op = "update", NEW x, Continue(r, x), Follows(x, q), x.pc \in {"update_verify", "admitted"},
             Pooled(pools, q.new)
      PROVE  PInv'
  <2>1. /\ x.pc \in AfterPools /\ x.pc \notin BeforePools \cup Zoned
    BY <1>9 DEF AfterPools, BeforePools, DefaultPhases, Zoned
  <2>2. x.old = q.old /\ x.new = q.new /\ x.op = "update"
    BY <1>9, FollowsCarries
  <2>3. UpdatePledged(pools, c, q)
    BY <1>3, <1>9 DEF Pledged
  <2>4. UpdatePledged(pools, Idle, x)
    BY <1>9, <2>1, <2>2, <2>3 DEF UpdatePledged
  <2> QED
    BY <1>5, <1>9, <2>2, <2>4 DEF Pledged
<1>10. CASE q.pc = "update_pooling"
  <2>1. UpdatePledged(pools, c, q) /\ q.op = "update" /\ Updating(q)
    BY <1>3, <1>10 DEF Pledged
  <2>2. /\ c.pc = "ok" /\ NewOnes(q) \subseteq pools[q.new.ann.zone].addrs
        /\ InOneZone(q) /\ Pooled(pools, q.old)
    BY <1>1, <1>10, <2>1 DEF UpdatePledged, Zoned, BeforePools
  <2>3. Pooled(pools, q.new)
    BY <2>1, <2>2, BothPooled
  <2>4. /\ Follows(ToPoolRemove(q), q) /\ ToPoolRemove(q).pc \in {"update_verify", "admitted"}
    BY <1>3, Fields DEF ToPoolRemove
  <2>5. Continue(r, ToPoolRemove(q))
    BY <1>1, <1>10 DEF AfterPool
  <2> QED
    BY <1>9, <2>1, <2>3, <2>4, <2>5
<1>11. CASE q.pc = "update_removing"
  <2>1. q.op = "update" /\ Pooled(pools, q.new)
    BY <1>3, <1>11 DEF Pledged, UpdatePledged, AfterPools
  <2>2. Continue(r, Admit(q))
    BY <1>1, <1>11 DEF AfterPool
  <2> QED
    BY <1>7, <1>9, <2>1, <2>2
<1>12. CASE q.pc = "delete_removing"
  <2>1. DeletePledged(pools, c, q) /\ q.op = "delete"
    BY <1>3, <1>12 DEF Pledged
  <2>2. CASE c.pc = "ok"
    <3>1. Pledged(pools, Idle, Admit(q))
      BY <1>7, <2>1, FollowsCarries DEF Pledged, DeletePledged
    <3> QED
      BY <1>1, <1>5, <1>7, <1>12, <2>2, <3>1 DEF AfterPool
  <2>3. CASE c.pc = "error"
    <3>1. Follows(back, q) /\ back.pc = "restore"
      BY <1>3, Fields
    <3>2. Continue(r, back)
      BY <1>1, <1>12, <2>3 DEF AfterPool
    <3> HIDE DEF back
    <3>3. DeletePledged(pools, Idle, back)
      BY <1>12, <2>1, <2>3, <3>1, FollowsCarries DEF DeletePledged
    <3>4. Pledged(pools, Idle, back)
      BY <2>1, <3>1, <3>3, FollowsCarries DEF Pledged
    <3> QED
      BY <1>5, <3>1, <3>2, <3>4
  <2> QED
    BY <1>1, <2>2, <2>3
<1> QED
  BY <1>2, <1>8, <1>10, <1>11, <1>12 DEF PoolPhases

\* The pledges of a request do not depend on who waits for the answer.
LEMMA SamePledged ==
  ASSUME NEW pp, NEW c, NEW q, Pledged(pp, c, q), NEW p, Same(p, q), p.pc = q.pc
  PROVE  Pledged(pp, c, p)
<1>1. p.op = q.op /\ p.old = q.old /\ p.new = q.new
  BY DEF Same
<1>2. NewOnes(p) = NewOnes(q) /\ (InOneZone(p) <=> InOneZone(q))
  BY <1>1, FollowsPledged
<1> QED
  BY <1>1, <1>2 DEF Pledged, CreatePledged, UpdatePledged, DeletePledged

\* What is committed is in the pools.
LEMMA CommitPledges ==
  ASSUME WInv, PInv, NEW r \in Slots, Commit(r)
  PROVE  PInv'
<1> DEFINE q == req[r]
<1>1. /\ q.pc = "admitted" /\ q.pc # "idle"
      /\ store' = [store EXCEPT ![q.svc] = q.new] /\ req' = AfterCommit(r)
      /\ UNCHANGED <<pools, call>>
  BY DEF Commit, poolVars
<1>2. /\ Sound(q) /\ Pledged(pools, call[r], q) /\ q.svc \in Services
      /\ q.op \in {"create", "update", "delete"}
      /\ Serial => \A o \in Slots : o = r
  BY <1>1, Pledges, OneRequest
<1>3. Pooled(pools, q.new) /\ (Serial /\ q.new # NoService => IsLB(q.new))
  <2>1. CASE q.op = "create"
    BY <1>1, <1>2, <2>1 DEF Pledged, CreatePledged
  <2>2. CASE q.op = "update"
    BY <1>1, <1>2, <2>2 DEF Pledged, UpdatePledged, AfterPools
  <2>3. CASE q.op = "delete"
    <3>1. q.new = NoService
      BY <1>2, <2>3, SoundTypes
    <3> QED
      BY <3>1 DEF Pooled, IsLB, NoService
  <2> QED
    BY <1>2, <2>1, <2>2, <2>3
<1>4. \A s \in Services : store'[s] = IF s = q.svc THEN q.new ELSE store[s]
  BY <1>1, <1>2 DEF WInv, WebhookTypeOK
<1>5. ASSUME NEW o \in Slots, Active(o)'
      PROVE  o # r /\ Active(o) /\ Pledged(pools, call[o], req'[o])
  <2> DEFINE late == [req[o] EXCEPT !.answer = "outdated"]
  <2>1. o # r /\ (Active(o) => req'[o] \in {req[o], late}) /\ (~Active(o) => req'[o] = req[o])
    BY <1>1, <1>5 DEF AfterCommit, RequestsFor, Active, Idle
  <2>2. Active(o) /\ req[o].pc # "idle"
    BY <1>5, <2>1 DEF Active
  <2>3. req[o] \in AnyRequest /\ Pledged(pools, call[o], req[o])
    BY <2>2, Pledges
  <2>4. Same(late, req[o]) /\ late.pc = req[o].pc
    BY <2>3 DEF AnyRequest, Same
  <2> HIDE DEF late
  <2>5. Pledged(pools, call[o], late)
    BY <2>3, <2>4, SamePledged
  <2> QED
    BY <2>1, <2>2, <2>3, <2>5
<1>6. ASSUME NEW s \in Services, Serial => Quiet(s)' PROVE Pooled(pools, store'[s])
  <2>1. CASE s = q.svc
    BY <1>3, <1>4, <2>1
  <2>2. CASE s # q.svc
    <3>1. Serial => Quiet(s)
      BY <1>2, <2>2 DEF Quiet, RequestsFor
    <3> QED
      BY <1>4, <2>2, <3>1 DEF PInv
  <2> QED
    BY <2>1, <2>2
<1>7. Serial => \A s \in Services : store'[s] # NoService => IsLB(store'[s])
  BY <1>3, <1>4 DEF PInv
<1>8. Serial => \A o \in Slots : Active(o)' => Undisputed(o)'
  BY <1>2, <1>5
<1>9. PoolsLast' /\ (Serial' <=> Serial)
  BY DEF PInv, PoolsLast, Serial
<1> QED
  BY <1>1, <1>5, <1>6, <1>7, <1>8, <1>9 DEF PInv

\* A request begins about what is stored.
LEMMA SubmitPledges ==
  ASSUME WInv, PInv, NEW r \in Slots, SubmitAny(r)
  PROVE  PInv'
<1> DEFINE ask(pc, op, s, old, new) ==
             [pc |-> pc, op |-> op, svc |-> s, old |-> old, new |-> new,
              todo |-> <<>>, got |-> <<>>, answer |-> "awaited"]
<1>1. \A svc \in Submittable : svc.type \in Types
  BY DEF Submittable
<1>2. ASSUME NEW s \in Services, NEW pc, NEW op, NEW old, NEW new, pc # "idle", old = store[s],
             Submit(r, pc, op, s, old, new), Pledged(pools, Idle, ask(pc, op, s, old, new))
      PROVE  PInv'
  <2> DEFINE p == ask(pc, op, s, old, new)
  <2>1. /\ ~Active(r) /\ Continue(r, p) /\ UNCHANGED <<store, pools, call>>
    BY <1>2 DEF Submit, CanSubmit, poolVars
  <2>2. call[r] = Idle
    BY <2>1 DEF WInv, WebhookTypeOK, Active, PoolPhases
  <2>3. /\ p.pc = pc /\ p.answer = "awaited" /\ p.old = store[s] /\ p.svc = s
    BY <1>2
  <2>4. req'[r] = p
    BY <2>1 DEF WInv, WebhookTypeOK, Continue
  <2> HIDE DEF p
  <2>5. Undisputed(r)'
    BY <2>1, <2>2, <2>3, <2>4 DEF Undisputed, Idle, Pool!Running
  <2> QED
    BY <1>2, <2>1, <2>2, <2>3, <2>5, SlotPledges DEF p
<1>3. ASSUME Serial, ~Active(r), NEW s \in Services, store[s] # NoService
      PROVE  IsLB(store[s]) /\ HasFamilies(store[s]) /\ Pooled(pools, store[s])
  <2>1. Quiet(s)
    BY <1>3, OneRequest DEF Quiet, RequestsFor
  <2> QED
    BY <1>3, <2>1 DEF PInv, WInv
<1>4. ASSUME NEW s \in Services, SubmitCreate(r, s) PROVE PInv'
  <2>1. PICK new \in Submittable : Submit(r, "default", "create", s, NoService, new)
    BY <1>4 DEF SubmitCreate
  <2> DEFINE p == ask("default", "create", s, NoService, new)
  <2>2. Serial => IsLB(new)
    BY <1>1, <2>1, OneRequest DEF IsLB
  <2>3. Pledged(pools, Idle, p)
    BY <2>2 DEF Pledged, CreatePledged
  <2>4. store[s] = NoService
    BY <1>4 DEF SubmitCreate
  <2> QED
    BY <1>2, <2>1, <2>3, <2>4
<1>5. ASSUME NEW s \in Services, SubmitUpdate(r, s) PROVE PInv'
  <2>1. PICK svc \in Submittable, addrs \in UserAddresses \cup {store[s].ann.addrs} :
          Submit(r, "default", "update", s, store[s], [svc EXCEPT !.ann.addrs = addrs])
    BY <1>5 DEF SubmitUpdate
  <2> DEFINE new == [svc EXCEPT !.ann.addrs = addrs]
             p == ask("default", "update", s, store[s], new)
  <2>2. Serial /\ store[s] # NoService /\ ~Active(r)
    BY <1>5, <2>1 DEF SubmitUpdate, PInv, PoolsLast, Submit, CanSubmit
  <2>3. new.type = svc.type
    BY DEF Submittable
  <2>4. IsLB(new)
    BY <1>1, <2>2, <2>3, OneRequest DEF IsLB
  <2>5. IsLB(store[s]) /\ HasFamilies(store[s]) /\ Pooled(pools, store[s])
    BY <1>3, <2>2
  <2> HIDE DEF new
  <2>6. Pledged(pools, Idle, p)
    BY <2>4, <2>5 DEF Pledged, UpdatePledged, Zoned, AfterPools
  <2> QED
    BY <1>2, <2>1, <2>6 DEF new
<1>6. ASSUME NEW s \in Services, SubmitDelete(r, s) PROVE PInv'
  <2> DEFINE p == ask("delete", "delete", s, store[s], NoService)
  <2>1. Submit(r, "delete", "delete", s, store[s], NoService) /\ store[s] # NoService
    BY <1>6 DEF SubmitDelete
  <2>2. Serial /\ ~Active(r)
    BY <1>6, <2>1 DEF SubmitDelete, PInv, PoolsLast, Submit, CanSubmit
  <2>3. IsLB(store[s]) /\ Pooled(pools, store[s])
    BY <1>3, <2>1, <2>2
  <2>4. Pledged(pools, Idle, p)
    BY <2>3 DEF Pledged, DeletePledged
  <2> QED
    BY <1>2, <2>1, <2>4
<1> QED
  BY <1>4, <1>5, <1>6 DEF SubmitAny

\* A handler, or the API server, gives up: only where it changes nothing.
LEMMA EndPledges ==
  ASSUME WInv, PInv, NEW r \in Slots, Conflict(r) \/ Unheard(r) \/ Abandon(r) \/ EntryFails(r)
  PROVE  PInv'
<1> DEFINE q == req[r]
           left == [q EXCEPT !.answer = "abandoned"]
<1>1. q.pc # "idle" /\ UNCHANGED <<store, pools, call>>
  BY DEF Conflict, Unheard, Abandon, EntryFails, Active, Decide, poolVars
<1>2. /\ Active(r) /\ q \in AnyRequest /\ Pledged(pools, call[r], q)
      /\ Serial => Undisputed(r) /\ MaxFaults = 0 /\ ~Rejections
  BY <1>1, Pledges, OneRequest
<1>3. ~Serial
  BY <1>2 DEF Conflict, Unheard, Abandon, EntryFails, Undisputed, WInv, WebhookTypeOK
<1>4. q.op = "create"
  BY <1>2, <1>3, CreatesOnly
<1>5. Continue(r, Idle) \/ Continue(r, left)
  BY <1>4 DEF Conflict, Unheard, Abandon, EntryFails, Decide, Finish
<1>6. CASE Continue(r, Idle)
  BY <1>1, <1>3, <1>6, SlotPledges DEF Idle
<1>7. CASE Continue(r, left)
  <2>1. Same(left, q) /\ left.pc = q.pc
    BY <1>2 DEF AnyRequest, Same
  <2> HIDE DEF left
  <2>2. Pledged(pools, call[r], left) /\ left.svc = q.svc
    BY <1>2, <2>1, SamePledged DEF Same
  <2> QED
    BY <1>1, <1>3, <1>7, <2>2, SlotPledges
<1> QED
  BY <1>5, <1>6, <1>7

LEMMA OthersPledge ==
  ASSUME WInv, PInv, Crash \/ SyncPools \/ SyncServices \/ UNCHANGED vars
  PROVE  PInv'
<1>1. PoolsLast' /\ (Serial' <=> Serial) /\ UNCHANGED <<store, pools>>
  BY DEF PInv, PoolsLast, Serial, Crash, SyncPools, SyncServices, Pool!SyncPool, vars, poolVars
<1>2. CASE Crash
  <2>1. ~Serial
    BY <1>2 DEF Crash, WInv, WebhookTypeOK, Serial
  <2>2. \A o \in Slots : ~Active(o)'
    BY <1>2 DEF Crash, Active, Idle
  <2> QED
    BY <1>1, <2>1, <2>2 DEF PInv
<1>3. CASE SyncPools \/ SyncServices \/ UNCHANGED vars
  <2>1. UNCHANGED <<req, call>>
    BY <1>3 DEF SyncPools, SyncServices, Pool!SyncPool, vars, poolVars
  <2> QED
    BY <1>1, <2>1 DEF PInv, Active, Quiet, RequestsFor, Undisputed, LbAddrs
<1> QED
  BY <1>2, <1>3

LEMMA NextPledges ==
  ASSUME WInv, GInv, PInv, [Next]_vars
  PROVE  PInv'
<1>1. ASSUME NEW r \in Slots, Handle(r) PROVE PInv'
  BY <1>1, HandlerOwn, OwnPledges, CreatePoolGetPledges, UpdatePoolGetPledges, UpdateRemoveGetPledges,
     DeleteRemoveGetPledges, PoolStepPledges, PoolReturnPledges, CommitPledges, EndPledges DEF Active
<1>2. ASSUME NEW r \in Slots, SubmitAny(r) \/ Abandon(r) \/ EntryFails(r) PROVE PInv'
  BY <1>2, SubmitPledges, EndPledges
<1> QED
  BY <1>1, <1>2, OthersPledge DEF Next, Rest

LEMMA InitPledges == PoolsLast /\ Init => PInv
  BY DEF Init, PInv, Pooled, IsLB, NoService, Active, Idle

(* PInv is inductive. *)
THEOREM PoolsInvariance ==
  ASSUME PoolsLast
  PROVE  Spec => []PInv
<1>1. WInv /\ GInv /\ PInv /\ [Next]_vars => PInv'
  BY NextPledges
<1>2. Init => PInv
  BY InitPledges
<1> QED
  BY <1>1, <1>2, WebhookInvariance, ManagerInvariance, PTL DEF Spec

(* MetalLB can serve each address of a stored LoadBalancer Service: ValidateCreate
   waits for its pool operation, however many creates overlap and whatever
   fails; an update or a delete leaves the others' addresses alone when no
   request overlaps it and its calls succeed. *)
THEOREM StoredStayPooled ==
  ASSUME PoolsLast
  PROVE  Spec => []StoredIsPooled
<1>1. PInv => StoredIsPooled
  BY DEF PInv, StoredIsPooled, Pooled, LbAddrs
<1> QED
  BY <1>1, PoolsInvariance, PTL
=============================================================================
