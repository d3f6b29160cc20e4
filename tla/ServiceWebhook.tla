--------------------------- MODULE ServiceWebhook ---------------------------
(***************************************************************************)
(* The admission webhooks for core Services of internal/webhook/v1, with   *)
(* the IPAM API and the MetalLB address pools they keep in step with the   *)
(* Services the API server stores.                                         *)
(*                                                                         *)
(* A request to create or update a Service goes through Default (the       *)
(* mutating webhook) and ValidateCreate or ValidateUpdate, a request to    *)
(* delete one through ValidateDelete; the API server commits what was      *)
(* admitted.  Every call to the IPAM API and every read and write of a     *)
(* pool is an action of its own, so that requests interleave between any   *)
(* two of them.  A request that is denied leaves no trace but what its     *)
(* handlers did.                                                           *)
(*                                                                         *)
(* A definition placed before another one and named for a slip             *)
(* (UndoFirstOfAll, RequestV6BestEffort, ...) is a variant of it that      *)
(* nothing uses: with it, one of the properties fails.                     *)
(***************************************************************************)
EXTENDS Naturals, Sequences, IpamApi

CONSTANTS
  Slots,          \* requests that may be in progress at once
  Ops,            \* the kinds of request: "create", "update", "delete"
  Types,          \* spec.type of submitted Services: "LoadBalancer", "ClusterIP"
  UserAddresses,  \* what users write in the addresses annotation
  Families,       \* what users write in the ip-family annotation
  ValidParams,    \* whether retention-period-days and deny-external-cleanup parse
  MaxRequests,    \* bound: requests submitted
  MaxFaults,      \* bound: failed calls and crashes
  LostAnswers,    \* whether an IPAM call or a pool's write may take effect and yet fail
  InformerLag,    \* whether cached reads may be stale
  Rejections,     \* whether the API server may give up on a request
  Crashes,        \* whether the operator may crash
  OneAtATime      \* whether each Service has at most one request in progress

ASSUME WebhookAssumption ==
  /\ Ops \subseteq {"create", "update", "delete"}
  /\ Types \subseteq {"LoadBalancer", "ClusterIP"}
  /\ UserAddresses \subseteq Seq(Addrs)
  /\ Families \subseteq {"ipv4", "ipv6", "dual"}
  /\ ValidParams \subseteq BOOLEAN
  /\ MaxRequests \in Nat /\ MaxFaults \in Nat
  /\ {LostAnswers, InformerLag, Rejections, Crashes, OneAtATime} \subseteq BOOLEAN

VARIABLES store,      \* the Services in the API server
          req,        \* the requests in progress
          submitted,  \* requests submitted so far
          faults,     \* faults so far
          pools, rev, poolCache, call,  \* see IpPool
          lbCache     \* the LoadBalancer Services as the informer cache has them

poolVars == <<pools, rev, poolCache, call>>
vars == <<store, req, submitted, faults, ipam, pools, rev, poolCache, call, lbCache>>

NoService == [type |-> "none"]
Annotations == [addrs : UserAddresses, zone : Zones, secret : Secrets,
                family : Families, valid : ValidParams]
Submittable == [type : Types, ann : Annotations]

IsLB(svc) == svc.type = "LoadBalancer"
SetOf(seq) == {seq[i] : i \in 1..Len(seq)}
LbAddrs == [s \in Services |-> IF IsLB(store[s]) THEN SetOf(store[s].ann.addrs) ELSE {}]

Pool == INSTANCE IpPool WITH Callers <- Slots, lbAddrs <- LbAddrs, MaxRev <- 0
----------------------------------------------------------------------------
(* Requests.  todo is what the loop the handler is in still has to do, got
   what it has obtained and would give back; answer says whether the API
   server still waits for the handlers' answer, for the Service as stored. *)

Idle == [pc |-> "idle"]
Active(r) == req[r].pc # "idle"
RequestsFor(s) == {r \in Slots : Active(r) /\ req[r].svc = s}

Continue(r, q) == req' = [req EXCEPT ![r] = q]
Finish(r) == Continue(r, Idle)
At(q, pc) == [q EXCEPT !.pc = pc]
Loop(q, pc, todo) == [q EXCEPT !.pc = pc, !.todo = todo]
\* One element done: the rest of the loop, or what comes after it.
NextOf(q, after) == IF Len(q.todo) > 1 THEN [q EXCEPT !.todo = Tail(@)] ELSE after

\* What a handler may hold in place of an address: the empty string that
\* strings.Split makes of an empty annotation, and the prefix "<address>/32" or
\* "<address>/128" that the IPAM API answers a request for an address with (of
\* which address it is plays no part).
NoAddr == ""
AnsweredPrefix == "address/length"
ASSUME NoAddrAssumption == NoAddr \notin Addrs /\ AnsweredPrefix \notin Addrs
Texts == Addrs \cup {NoAddr, AnsweredPrefix}
Split(addrs) == IF addrs = <<>> THEN <<NoAddr>> ELSE addrs

\* A step of a handler that only looks and decides.
Decide(r, q) == Continue(r, q) /\ UNCHANGED <<store, submitted, faults, ipam, poolVars, lbCache>>
PoolUnchanged == UNCHANGED <<store, submitted, faults, ipam, lbCache>>

----------------------------------------------------------------------------
(* Calls to the IPAM API: answered, refused, or failing before or after they
   take effect. *)
Ask(r, can, doc, granted, failed) ==
  /\ \/ can /\ ipam' = doc /\ Continue(r, granted) /\ UNCHANGED faults
     \/ ~can /\ Continue(r, failed) /\ UNCHANGED <<ipam, faults>>
     \/ /\ can /\ faults < MaxFaults /\ faults' = faults + 1
        /\ Continue(r, failed)
        /\ ipam' \in {ipam} \cup (IF LostAnswers THEN {doc} ELSE {})
  /\ UNCHANGED <<store, submitted, poolVars, lbCache>>

\* updateAddressIpamAPI, removeAddressIpamAPI and updateSecretIpamAPI: no call
\* is made when a parameter does not parse, or the text is not an address.
Sendable(text, ann) == text \in Addrs /\ ann.valid

UpdateAddress(r, a, ann, granted, failed) ==
  Ask(r, Sendable(a, ann) /\ CanBind(a, ann.zone, ann.secret),
      Bound(a, ann.secret, req[r].svc), granted, failed)

DeleteIP(r, a, ann, next) ==
  Ask(r, CanUnbind(a, ann.zone, ann.secret), Released(a, req[r].svc), next, next)
RemoveAddress(r, a, ann, next) ==
  IF Sendable(a, ann) THEN DeleteIP(r, a, ann, next) ELSE Decide(r, next)

UpdateSecret(r, a, ann, from, to, granted, failed) ==
  Ask(r, Sendable(a, ann) /\ CanRekey(a, ann.zone, from),
      Rekeyed(a, to), granted, failed)

----------------------------------------------------------------------------
(* Users submit requests. *)

CanSubmit(r, s) == /\ ~Active(r)
                   /\ submitted < MaxRequests
                   /\ OneAtATime => \A o \in RequestsFor(s) : req[o].answer = "abandoned"

Submit(r, pc, op, s, old, new) ==
  /\ CanSubmit(r, s)
  /\ Continue(r, [pc |-> pc, op |-> op, svc |-> s, old |-> old, new |-> new,
                  todo |-> <<>>, got |-> <<>>, answer |-> "awaited"])
  /\ submitted' = submitted + 1
  /\ UNCHANGED <<store, faults, ipam, poolVars, lbCache>>

SubmitCreate(r, s) ==
  /\ "create" \in Ops /\ store[s] = NoService
  /\ \E new \in Submittable : Submit(r, "default", "create", s, NoService, new)

\* An update may leave the addresses the operator has chosen as they are.
SubmitUpdate(r, s) ==
  /\ "update" \in Ops /\ store[s] # NoService
  /\ \E svc \in Submittable, addrs \in UserAddresses \cup {store[s].ann.addrs} :
       Submit(r, "default", "update", s, store[s], [svc EXCEPT !.ann.addrs = addrs])

SubmitDelete(r, s) ==
  /\ "delete" \in Ops /\ store[s] # NoService
  /\ Submit(r, "delete", "delete", s, store[s], NoService)
----------------------------------------------------------------------------
(* Default *)

V4In(addrs) == {i \in 1..Len(addrs) : addrs[i] \in V4}
V6In(addrs) == {i \in 1..Len(addrs) : addrs[i] \notin V4}
AtMostOne(indices) == \A i, j \in indices : i = j

\* reconcileAnnotationAddresses
AcceptableAlways(ann) == TRUE
Acceptable(ann) == AtMostOne(V4In(ann.addrs)) /\ AtMostOne(V6In(ann.addrs))

NeedsV4(ann) == V4In(ann.addrs) = {} /\ ann.family \in {"ipv4", "dual"}
NeedsV6(ann) == V6In(ann.addrs) = {} /\ ann.family \in {"ipv6", "dual"}

\* UpdateAddressAnnotation puts the address of the prefix it is given first;
\* Default keeps the prefix as the IPAM API answered it.
WithAddress(q, a) == [q EXCEPT !.new.ann.addrs = <<a>> \o @, !.got = <<AnsweredPrefix>>]
Defaulted(q) == [q EXCEPT !.pc = q.op, !.got = <<>>]
AfterV4(q) == IF NeedsV6(q.new.ann) THEN At(q, "request_v6") ELSE Defaulted(q)

\* A Service with ingress addresses in its status keeps type LoadBalancer.
MayHaveIngress(q) == q.op = "update" /\ IsLB(q.old)
AsLB(q) == [q EXCEPT !.new.type = "LoadBalancer"]
Allocate(q) == IF NeedsV4(q.new.ann) THEN At(q, "request_v4") ELSE AfterV4(q)

Default(r) ==
  LET q == req[r] IN
  /\ q.pc = "default" /\ q.answer = "awaited"
  /\ \/ ~IsLB(q.new) /\ Decide(r, Defaulted(q))
     \/ /\ IsLB(q.new) \/ MayHaveIngress(q)
        /\ Decide(r, IF Acceptable(q.new.ann) THEN Allocate(AsLB(q)) ELSE Idle)

AfterFamily(q, family) == IF family = "ipv4" THEN AfterV4(q) ELSE Defaulted(q)

GetAddress(r, family, failed) ==
  LET q == req[r]
      ann == q.new.ann
      free == FreeAddrs(ann.zone, family)
  IN \/ /\ ann.valid
        /\ \E a \in free : Ask(r, TRUE, Bound(a, ann.secret, q.svc),
                               AfterFamily(WithAddress(q, a), family), failed)
     \/ /\ ~ann.valid \/ free = {}
        /\ Ask(r, FALSE, ipam, failed, failed)

RequestV4(r) == req[r].pc = "request_v4" /\ GetAddress(r, "ipv4", Idle)

RequestV6BestEffort(r) == req[r].pc = "request_v6" /\ GetAddress(r, "ipv6", Defaulted(req[r]))
RequestV6(r) ==
  /\ req[r].pc = "request_v6"
  /\ GetAddress(r, "ipv6", IF req[r].got = <<>> THEN Idle ELSE At(req[r], "undo_v4"))

\* The prefix that was answered is to be given back, not its address.
UndoV4(r) ==
  /\ req[r].pc = "undo_v4"
  /\ RemoveAddress(r, req[r].got[1], req[r].new.ann, Idle)
----------------------------------------------------------------------------
(* ValidateCreate *)

Admit(q) == [q EXCEPT !.pc = "admitted", !.todo = <<>>, !.got = <<>>]

StartCreate(r) ==
  /\ req[r].pc = "create" /\ req[r].answer # "abandoned"
  /\ Decide(r, IF IsLB(req[r].new) THEN Loop(req[r], "validate", Split(req[r].new.ann.addrs))
                                   ELSE Admit(req[r]))

CreateRefusedWithoutRollback(q) == Idle
CreateRefusedIgnored(q) == Loop(q, "create_pool", <<>>)
CreateRefused(q) == IF q.got = <<>> THEN Idle ELSE Loop(q, "rollback", q.got)

ValidateAddress(r) ==
  LET q == req[r]
      done == [q EXCEPT !.got = Append(@, Head(q.todo))]
  IN /\ q.pc = "validate"
     /\ UpdateAddress(r, Head(q.todo), q.new.ann,
                      NextOf(done, Loop(q, "create_pool", <<>>)), CreateRefused(q))

RollbackCreate(r) ==
  /\ req[r].pc = "rollback"
  /\ RemoveAddress(r, Head(req[r].todo), req[r].new.ann, NextOf(req[r], Idle))

CreatePoolGet(r) ==
  LET q == req[r] IN
  /\ q.pc = "create_pool"
  /\ Pool!AddGet(r, q.new.ann.zone, SetOf(q.new.ann.addrs))
  /\ Continue(r, Loop(q, "create_pooling", <<>>)) /\ PoolUnchanged
----------------------------------------------------------------------------
(* ValidateUpdate *)

OldAddrs(q) == Split(q.old.ann.addrs)
NewAddrs(q) == Split(q.new.ann.addrs)

\* The elements of seq that are in S, in their order (a recursive function and
\* not SelectSeq, which the prover cannot expand).
Only(seq, S) ==
  LET only[n \in 0..Len(seq)] ==
        IF n = 0 THEN <<>>
        ELSE IF seq[n] \in S THEN Append(only[n - 1], seq[n]) ELSE only[n - 1]
  IN only[Len(seq)]

\* PrefixSlicesDiff
NewPrefixes(q) == Only(NewAddrs(q), SetOf(NewAddrs(q)) \ SetOf(OldAddrs(q)))
KeepPrefixes(q) == Only(NewAddrs(q), SetOf(OldAddrs(q)))
RemovePrefixesSwapped(q) == Only(NewAddrs(q), SetOf(NewAddrs(q)) \ SetOf(OldAddrs(q)))
RemovePrefixes(q) == Only(OldAddrs(q), SetOf(OldAddrs(q)) \ SetOf(NewAddrs(q)))

\* What follows each part of the update, when there is something to do.
ToPoolRemove(q) == IF RemovePrefixes(q) = <<>> THEN Admit(q) ELSE Loop(q, "update_verify", <<>>)
ToPoolAdd(q) == IF NewPrefixes(q) = <<>> THEN ToPoolRemove(q) ELSE Loop(q, "update_pool", <<>>)
ToReleaseOld(q) == IF RemovePrefixes(q) = <<>> THEN ToPoolAdd(q)
                                               ELSE Loop(q, "release_old", RemovePrefixes(q))
SecretChanged(q) == q.old.ann.secret # q.new.ann.secret
ToRekey(q) == IF SecretChanged(q) /\ KeepPrefixes(q) # <<>>
                THEN [Loop(q, "rekey", KeepPrefixes(q)) EXCEPT !.got = <<>>]
                ELSE ToReleaseOld(q)
ToRegister(q) == IF NewPrefixes(q) = <<>> THEN ToRekey(q)
                                          ELSE Loop(q, "register", NewPrefixes(q))
ToUndoFirst(q) == IF NewPrefixes(q) = <<>> THEN Idle ELSE At(q, "undo_first")
ToUndoNew(q) == IF NewPrefixes(q) = <<>> THEN Idle ELSE Loop(q, "undo_new", NewPrefixes(q))

ZoneRefusedNever(q) == FALSE
ZoneRefused(q) == q.old.ann.zone # q.new.ann.zone /\ KeepPrefixes(q) # <<>>

NothingToDo(q) == (~IsLB(q.old) /\ ~IsLB(q.new)) \/ q.old.ann = q.new.ann

StartUpdate(r) ==
  LET q == req[r] IN
  /\ q.pc = "update" /\ q.answer # "abandoned"
  /\ \/ NothingToDo(q) /\ Decide(r, Admit(q))
     \/ ~NothingToDo(q) /\ ZoneRefused(q) /\ Decide(r, ToUndoFirst(q))
     \/ ~NothingToDo(q) /\ ~ZoneRefused(q) /\ Decide(r, ToRegister(q))

ValidateNewRetries(r) ==
  LET q == req[r] IN
  /\ q.pc = "register"
  /\ UpdateAddress(r, Head(q.todo), q.new.ann, NextOf(q, ToRekey(q)), q)
ValidateNew(r) ==
  LET q == req[r] IN
  /\ q.pc = "register"
  /\ UpdateAddress(r, Head(q.todo), q.new.ann, NextOf(q, ToRekey(q)), ToUndoFirst(q))

\* Only the first new address is given back.
UndoFirstOfAll(r) ==
  /\ req[r].pc = "undo_first"
  /\ RemoveAddress(r, NewAddrs(req[r])[1], req[r].new.ann, Idle)
UndoFirst(r) ==
  /\ req[r].pc = "undo_first"
  /\ RemoveAddress(r, NewPrefixes(req[r])[1], req[r].new.ann, Idle)

\* updateSecret: the first address is reverted when the second one fails.
ChangeSecretWithoutRevert(r) ==
  LET q == req[r]
      done == [q EXCEPT !.got = Append(@, Head(q.todo))]
  IN /\ q.pc = "rekey"
     /\ UpdateSecret(r, Head(q.todo), q.new.ann, q.old.ann.secret, q.new.ann.secret,
                     NextOf(done, ToReleaseOld(q)), ToUndoNew(q))
ChangeSecret(r) ==
  LET q == req[r]
      done == [q EXCEPT !.got = Append(@, Head(q.todo))]
  IN /\ q.pc = "rekey"
     /\ UpdateSecret(r, Head(q.todo), q.new.ann, q.old.ann.secret, q.new.ann.secret,
                     NextOf(done, ToReleaseOld(q)),
                     IF Len(q.got) = 1 THEN At(q, "revert") ELSE ToUndoNew(q))

RevertSecret(r) ==
  LET q == req[r] IN
  /\ q.pc = "revert"
  /\ UpdateSecret(r, KeepPrefixes(q)[1], q.old.ann, q.new.ann.secret, q.old.ann.secret,
                  ToUndoNew(q), ToUndoNew(q))

UndoNew(r) ==
  /\ req[r].pc = "undo_new"
  /\ RemoveAddress(r, Head(req[r].todo), req[r].new.ann, NextOf(req[r], Idle))

ReleaseOldAsNew(r) ==
  LET q == req[r] IN
  /\ q.pc = "release_old"
  /\ RemoveAddress(r, Head(q.todo), q.new.ann, NextOf(q, ToPoolAdd(q)))
ReleaseOld(r) ==
  LET q == req[r] IN
  /\ q.pc = "release_old"
  /\ RemoveAddress(r, Head(q.todo), q.old.ann, NextOf(q, ToPoolAdd(q)))

UpdatePoolGetOldZone(r) ==
  LET q == req[r] IN
  /\ q.pc = "update_pool"
  /\ Pool!AddGet(r, q.old.ann.zone, SetOf(NewPrefixes(q)))
  /\ Continue(r, At(q, "update_pooling")) /\ PoolUnchanged
UpdatePoolGetInBackground(r) ==
  LET q == req[r] IN
  /\ q.pc = "update_pool"
  /\ Pool!AddGet(r, q.new.ann.zone, SetOf(NewPrefixes(q)))
  /\ Continue(r, ToPoolRemove(q)) /\ PoolUnchanged
UpdatePoolGet(r) ==
  LET q == req[r] IN
  /\ q.pc = "update_pool"
  /\ Pool!AddGet(r, q.new.ann.zone, SetOf(NewPrefixes(q)))
  /\ Continue(r, At(q, "update_pooling")) /\ PoolUnchanged

UpdateVerify(r) ==
  LET q == req[r] IN
  /\ q.pc = "update_verify"
  /\ Decide(r, IF Pool!VerifyIpAddressPool(q.old.ann.zone) THEN At(q, "update_remove")
                                                           ELSE Admit(q))

UpdateRemoveGetNewZone(r) ==
  LET q == req[r] IN
  /\ q.pc = "update_remove"
  /\ Pool!RemoveGet(r, q.new.ann.zone, SetOf(RemovePrefixes(q)) \cap Addrs)
  /\ Continue(r, At(q, "update_removing")) /\ PoolUnchanged
UpdateRemoveGet(r) ==
  LET q == req[r] IN
  /\ q.pc = "update_remove"
  /\ Pool!RemoveGet(r, q.old.ann.zone, SetOf(RemovePrefixes(q)) \cap Addrs)
  /\ Continue(r, At(q, "update_removing")) /\ PoolUnchanged
----------------------------------------------------------------------------
(* ValidateDelete *)

StartDelete(r) ==
  /\ req[r].pc = "delete"
  /\ Decide(r, IF IsLB(req[r].old) THEN Loop(req[r], "release", OldAddrs(req[r]))
                                   ELSE Admit(req[r]))

ReleaseAddress(r) ==
  LET q == req[r] IN
  /\ q.pc = "release"
  /\ RemoveAddress(r, Head(q.todo), q.old.ann, NextOf(q, Loop(q, "delete_verify", <<>>)))

DeleteVerify(r) ==
  LET q == req[r] IN
  /\ q.pc = "delete_verify"
  /\ Decide(r, IF Pool!VerifyIpAddressesInPool(q.old.ann.zone, SetOf(q.old.ann.addrs))
                 THEN At(q, "delete_remove") ELSE Admit(q))

DeleteRemoveGet(r) ==
  LET q == req[r] IN
  /\ q.pc = "delete_remove"
  /\ Pool!RemoveGet(r, q.old.ann.zone, SetOf(q.old.ann.addrs))
  /\ Continue(r, At(q, "delete_removing")) /\ PoolUnchanged

\* The addresses are bound again when they stay in the pool; the request is
\* denied, at the latest after the last of them.
RestoreAddress(r) ==
  LET q == req[r] IN
  /\ q.pc = "restore"
  /\ UpdateAddress(r, Head(q.todo), q.old.ann, NextOf(q, Idle), Idle)
----------------------------------------------------------------------------
(* Pool operations run; their callers then go on. *)

PoolStep(r) ==
  /\ \/ Pool!AddWrite(r, "ok") /\ UNCHANGED faults
     \/ Pool!RemoveList(r) /\ UNCHANGED faults
     \/ Pool!RemoveWrite(r, "ok") /\ UNCHANGED faults
     \/ /\ Pool!CallFails(r) \/ (LostAnswers /\ Pool!AnswerLost(r))
        /\ faults < MaxFaults /\ faults' = faults + 1
  /\ UNCHANGED <<store, req, submitted, ipam, lbCache>>

\* ValidateCreate denies, ValidateUpdate ignores, ValidateDelete rolls back.
AfterPoolIgnoring(q, result) ==
  IF q.pc = "update_pooling" THEN ToPoolRemove(q) ELSE Admit(q)
AfterPoolWithoutRestore(q, result) ==
  CASE q.pc = "create_pooling" -> IF result = "ok" THEN Admit(q) ELSE Idle
    [] q.pc = "update_pooling" -> ToPoolRemove(q)
    [] q.pc = "update_removing" -> Admit(q)
    [] q.pc = "delete_removing" -> IF result = "ok" THEN Admit(q) ELSE Idle
AfterPool(q, result) ==
  CASE q.pc = "create_pooling" -> IF result = "ok" THEN Admit(q) ELSE Idle
    [] q.pc = "update_pooling" -> ToPoolRemove(q)
    [] q.pc = "update_removing" -> Admit(q)
    [] q.pc = "delete_removing" -> IF result = "ok" THEN Admit(q)
                                     ELSE Loop(q, "restore", OldAddrs(q))

PoolReturn(r) ==
  /\ call[r].pc \in {"ok", "error"}
  /\ Continue(r, AfterPool(req[r], call[r].pc))
  /\ call' = [call EXCEPT ![r] = Idle]
  /\ PoolUnchanged /\ UNCHANGED <<pools, rev, poolCache>>
----------------------------------------------------------------------------
(* The API server. *)

Pending(q) == q.pc \in {"default", "create", "update", "delete", "admitted"}

\* It gives up: a webhook timed out, or something else rejected the request.
\* The handler that is running goes on.
Abandon(r) ==
  /\ Rejections /\ Active(r) /\ req[r].answer # "abandoned"
  /\ Decide(r, IF Pending(req[r]) THEN Idle ELSE [req[r] EXCEPT !.answer = "abandoned"])

AfterCommit(r) ==
  [o \in Slots |->
     IF o = r THEN Idle
     ELSE IF o \in RequestsFor(req[r].svc) /\ req[o].answer = "awaited"
            THEN [req[o] EXCEPT !.answer = "outdated"]
     ELSE req[o]]

Commit(r) ==
  LET q == req[r] IN
  /\ q.pc = "admitted" /\ q.answer = "awaited"
  /\ store' = [store EXCEPT ![q.svc] = q.new]
  /\ req' = AfterCommit(r)
  /\ UNCHANGED <<submitted, faults, ipam, poolVars, lbCache>>

\* The Service has changed since the request read it, which Default's dry run
\* and the final write find out: a create or update conflicts, a delete is
\* validated again against what is stored now.
Conflict(r) ==
  LET q == req[r] IN
  /\ q.pc \in {"default", "admitted"} /\ q.answer = "outdated"
  /\ Decide(r, IF q.op = "delete" /\ store[q.svc] # NoService
                 THEN [q EXCEPT !.pc = "delete", !.old = store[q.svc], !.answer = "awaited"]
                 ELSE Idle)

\* Nobody waits for the handler's answer any more.
Unheard(r) == /\ Active(r) /\ req[r].answer = "abandoned" /\ Pending(req[r])
              /\ Decide(r, Idle)
----------------------------------------------------------------------------
(* What else can happen. *)

\* A handler fails before its first effect: MetalLB is down, a namespace or a
\* secret is missing, or the API server's dry run refuses the Service.
EntryFails(r) ==
  /\ \/ req[r].pc \in {"default", "create", "update"} /\ IsLB(req[r].new)
     \/ req[r].pc \in {"update", "delete"} /\ IsLB(req[r].old)
  /\ faults < MaxFaults /\ faults' = faults + 1
  /\ Finish(r)
  /\ UNCHANGED <<store, submitted, ipam, poolVars, lbCache>>

\* The operator's process ends; the API server denies what it was asked
\* (failurePolicy Fail).  It starts again with fresh caches.
Crash ==
  /\ Crashes /\ \E r \in Slots : Active(r)
  /\ faults < MaxFaults /\ faults' = faults + 1
  /\ req' = [r \in Slots |-> Idle]
  /\ call' = [r \in Slots |-> Idle]
  /\ IF InformerLag THEN poolCache' = pools /\ lbCache' = LbAddrs
                    ELSE UNCHANGED <<poolCache, lbCache>>
  /\ UNCHANGED <<store, submitted, ipam, pools, rev>>

SyncPools == /\ InformerLag /\ \E z \in Zones : Pool!SyncPool(z)
             /\ UNCHANGED <<store, req, submitted, faults, ipam, lbCache>>
SyncServices == /\ InformerLag /\ lbCache # LbAddrs /\ lbCache' = LbAddrs
                /\ UNCHANGED <<store, req, submitted, faults, ipam, poolVars>>

\* The operator may rest whenever no handler is running.
Rest == (\A r \in Slots : ~Active(r)) /\ UNCHANGED vars
----------------------------------------------------------------------------
Init ==
  /\ IpamInit
  /\ store = [s \in Services |-> NoService]
  /\ req = [r \in Slots |-> Idle]
  /\ submitted = 0 /\ faults = 0
  /\ pools = [z \in Zones |-> Pool!Absent] /\ rev = 0
  /\ poolCache = pools
  /\ call = [r \in Slots |-> Idle]
  /\ lbCache = [s \in Services |-> {}]

SubmitAny(r) == \E s \in Services : SubmitCreate(r, s) \/ SubmitUpdate(r, s) \/ SubmitDelete(r, s)

Handle(r) ==
  \/ Default(r) \/ RequestV4(r) \/ RequestV6(r) \/ UndoV4(r)
  \/ StartCreate(r) \/ ValidateAddress(r) \/ RollbackCreate(r) \/ CreatePoolGet(r)
  \/ StartUpdate(r) \/ ValidateNew(r) \/ UndoFirst(r) \/ ChangeSecret(r)
  \/ RevertSecret(r) \/ UndoNew(r) \/ ReleaseOld(r) \/ UpdatePoolGet(r)
  \/ UpdateVerify(r) \/ UpdateRemoveGet(r)
  \/ StartDelete(r) \/ ReleaseAddress(r) \/ DeleteVerify(r) \/ DeleteRemoveGet(r)
  \/ RestoreAddress(r)
  \/ PoolStep(r) \/ PoolReturn(r)
  \/ Commit(r) \/ Conflict(r) \/ Unheard(r)

Next ==
  \/ \E r \in Slots : SubmitAny(r) \/ Handle(r) \/ Abandon(r) \/ EntryFails(r)
  \/ Crash \/ SyncPools \/ SyncServices \/ Rest

Spec == Init /\ [][Next]_vars
FairSpec == Spec /\ \A r \in Slots : WF_vars(Handle(r))
----------------------------------------------------------------------------
AnyAnn == [addrs : Seq(Addrs), zone : Zones, secret : Secrets,
           family : Families, valid : ValidParams]
AnyService == [type : {"LoadBalancer", "ClusterIP"}, ann : AnyAnn]
Phases == {"default", "request_v4", "request_v6", "undo_v4",
           "create", "validate", "rollback", "create_pool", "create_pooling",
           "update", "register", "undo_first", "rekey", "revert", "undo_new", "release_old",
           "update_pool", "update_pooling", "update_verify", "update_remove", "update_removing",
           "delete", "release", "delete_verify", "delete_remove", "delete_removing", "restore",
           "admitted"}
AnyRequest == [pc : Phases, op : Ops, svc : Services,
               old : AnyService \cup {NoService}, new : AnyService \cup {NoService},
               todo : Seq(Texts), got : Seq(Texts),
               answer : {"awaited", "outdated", "abandoned"}]

(* Every variable stays in its type, and a handler runs a pool operation
   exactly while it waits for one. *)
PoolPhases == {"create_pooling", "update_pooling", "update_removing", "delete_removing"}
WebhookTypeOK ==
  /\ store \in [Services -> AnyService \cup {NoService}]
  /\ req \in [Slots -> AnyRequest \cup {Idle}]
  /\ ipam \in [Addrs -> Binding]
  /\ submitted \in 0..MaxRequests /\ faults \in 0..MaxFaults
  /\ Pool!PoolTypeOK
  /\ \A r \in Slots : req[r].pc \in PoolPhases <=> call[r] # Idle

Quiet(s) == RequestsFor(s) = {}
AllQuiet == \A s \in Services : Quiet(s)

(* The IPAM API has each address of a stored LoadBalancer Service bound to
   that Service, whenever no request about it is in progress: what the
   handlers promised when the Service was admitted still stands. *)
StoredIsBound ==
  \A s \in Services : Quiet(s) => \A a \in LbAddrs[s] : s \in ipam[a].svcs

(* The operator can always change or release a stored Service's addresses:
   they are in its zone and held under its secret. *)
StoredIsManageable ==
  \A s \in Services : Quiet(s) => \A a \in LbAddrs[s] :
     CanUnbind(a, store[s].ann.zone, store[s].ann.secret)

(* MetalLB can serve each address of a stored LoadBalancer Service: the pool
   of its zone has it. *)
StoredIsPooled ==
  \A s \in Services : Quiet(s) => \A a \in LbAddrs[s] : a \in pools[store[s].ann.zone].addrs

(* When no request is in progress, each binding in the IPAM API is of a
   stored Service that lists the address: what a denied request took, and
   what an update or delete gave up, has been given back. *)
BoundIsStored ==
  AllQuiet => \A s \in Services, a \in Addrs : s \in ipam[a].svcs => a \in LbAddrs[s]

(* When no request is in progress, a pool has only addresses that a Service
   of its zone uses, so that MetalLB hands out nothing else. *)
PooledIsStored ==
  AllQuiet => \A z \in Zones : \A a \in pools[z].addrs :
                \E s \in Services : a \in LbAddrs[s] /\ store[s].ann.zone = z

(* A pool has only addresses of its own zone: an address is validated by the
   IPAM API, in the zone it is asked for, before MetalLB may announce it. *)
PooledIsInZone == \A z \in Zones : \A a \in pools[z].addrs : InZone(a, z)

(* Stored LoadBalancer Services have the address families they ask for, with
   one address of each at most (MetalLB supports no more). *)
FamiliesServed ==
  \A s \in Services : IsLB(store[s]) =>
     LET ann == store[s].ann IN
     /\ AtMostOne(V4In(ann.addrs)) /\ AtMostOne(V6In(ann.addrs))
     /\ ann.family # "ipv6" => V4In(ann.addrs) # {}
     /\ ann.family # "ipv4" => V6In(ann.addrs) # {}

(* The binding of an address that a stored Service lists is taken away only
   by a delete of that Service or an update that drops the address: never by
   the rollback of another request. *)
GivenUpByOwner ==
  \A s \in Services : \A a \in LbAddrs[s] :
     s \in ipam[a].svcs /\ s \notin ipam'[a].svcs =>
       \E r \in RequestsFor(s) :
          req[r].op = "delete" \/ (req[r].op = "update" /\ a \notin SetOf(req[r].new.ann.addrs))
RollbackSparesStored == [][GivenUpByOwner]_vars

(* Every request is answered: no handler waits for ever, whichever of its
   calls fail and whatever other handlers do. *)
EveryRequestAnswered == \A r \in Slots : Active(r) ~> ~Active(r)
=============================================================================
