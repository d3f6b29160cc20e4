----------------------- MODULE StoredServices_proofs -----------------------
(***************************************************************************)
(* Proofs that what the webhooks promise of a stored Service still stands  *)
(* once it is stored: the IPAM API has its addresses bound to it, the      *)
(* operator can still change or release them, and no other request's       *)
(* rollback takes them away.  For any number of Services, requests,        *)
(* addresses and zones, and with concurrent requests, failed calls, lost   *)
(* answers, crashes and stale caches, as far as the two conditions below   *)
(* allow them.                                                             *)
(*                                                                         *)
(* The inductive invariant BInv says of each handler, at the point it has  *)
(* reached, what it may still give back and what it must not: the promise  *)
(* about the stored Service holds until the handler's first effect on the  *)
(* Service's addresses, and the one about its new version after the last.  *)
(***************************************************************************)
EXTENDS ServiceWebhook_proofs

----------------------------------------------------------------------------
(* The conditions: outside them, the runs of ServiceWebhook show how each of
   the promises is broken. *)

OneSecret == \A k, l \in Secrets : k = l
OneService == \A s, t \in Services : s = t

(* One call may fail, with no effect, where requests come one at a time and
   reads are fresh: the rollback that it leads to is then granted. *)
OneFault == /\ MaxFaults = 1 /\ ~LostAnswers /\ ~InformerLag /\ ~Crashes
            /\ ValidParams \subseteq {TRUE} /\ \A r, o \in Slots : r = o
FewFaults == MaxFaults = 0 \/ OneFault

(* Bindings outlast other requests.  A Service that stops being a LoadBalancer
   keeps its bindings no longer, two requests about one Service undo each
   other's work, and an update or delete cut short has given up addresses that
   are still stored; the rollback of a delete needs calls that do not fail, and
   the addresses to be free or held under the Service's own secret. *)
BindingsLast ==
  /\ Types \subseteq {"LoadBalancer"} /\ OneAtATime /\ ~Rejections
  /\ "update" \in Ops => ~Crashes
  /\ "delete" \in Ops => FewFaults /\ (OneSecret \/ OneService)

(* So does the secret of a shared address: an update that changes it for one
   Service changes it for all of them.  A change of secret that fails half-way
   has one address to revert, and this must not fail as well. *)
SecretsLast ==
  "update" \in Ops => OneSecret \/ (OneService /\ FewFaults)

----------------------------------------------------------------------------
(* The invariant.  d is the IPAM API's state: a function from addresses to
   bindings. *)

(* Service s has address a as its annotations ask for it. *)
Has(d, s, a, ann) == /\ a \in Prefix[ann.zone]
                     /\ s \in d[a].svcs
                     /\ SecretsLast => d[a].secret = ann.secret
Kept(d, s, svc) == \A a \in SetOf(svc.ann.addrs) : Has(d, s, a, svc.ann)

(* Nobody can keep a Service with these annotations from address a. *)
Regainable(d, a, ann) == /\ a \in Prefix[ann.zone] \ Foreign
                         /\ d[a].svcs = {} \/ d[a].secret = ann.secret

Sane(d) ==
  \A a \in Addrs : IF a \in Foreign THEN d[a] = [secret |-> NoSecret, svcs |-> {OtherCluster}]
                   ELSE d[a].svcs \subseteq Services /\ (d[a].svcs # {} => d[a].secret \in Secrets)

Distinct(seq) == \A i, j \in 1..Len(seq) : seq[i] = seq[j] => i = j

NewOnes(q) == SetOf(q.new.ann.addrs) \ SetOf(q.old.ann.addrs)
KeptOnes(q) == SetOf(q.new.ann.addrs) \cap SetOf(q.old.ann.addrs)

CreateSecured(d, q) ==
  /\ IsLB(q.new) /\ q.old = NoService
  /\ q.pc = "validate" =>
       \A a \in SetOf(q.new.ann.addrs) : a \in SetOf(q.todo) \/ Has(d, q.svc, a, q.new.ann)
  /\ q.pc \in {"create_pool", "create_pooling", "admitted"} => Kept(d, q.svc, q.new)

(* Of the addresses both versions list the first has got its new secret. *)
FirstRekeyed(d, q) ==
  /\ SecretChanged(q) /\ KeepPrefixes(q) # <<>> /\ q.old.ann.zone = q.new.ann.zone
  /\ \A a \in SetOf(q.old.ann.addrs) :
       /\ a \in Prefix[q.old.ann.zone] /\ q.svc \in d[a].svcs
       /\ d[a].secret = IF a = KeepPrefixes(q)[1] THEN q.new.ann.secret ELSE q.old.ann.secret

(* They change their secret one after the other, and are two at most. *)
RekeySecured(d, q) ==
  /\ SecretChanged(q) /\ Distinct(q.todo) /\ SetOf(q.todo) \subseteq KeptOnes(q)
  /\ \A a \in SetOf(q.old.ann.addrs) : a \in Prefix[q.old.ann.zone] /\ q.svc \in d[a].svcs
  /\ \A a \in NewOnes(q) : Has(d, q.svc, a, q.new.ann)
  /\ SecretsLast => /\ \A a \in SetOf(q.todo) : d[a].secret = q.old.ann.secret
                    /\ \A a \in KeptOnes(q) : a \in SetOf(q.todo) \/ d[a].secret = q.new.ann.secret
                    /\ \/ q.got = <<>> /\ q.todo = KeepPrefixes(q) /\ Kept(d, q.svc, q.old)
                       \/ /\ q.new.ann.valid /\ Len(q.got) = 1 /\ Len(q.todo) = 1
                          /\ FirstRekeyed(d, q)

BeforeEffects == DefaultPhases \cup {"update", "register", "undo_first", "undo_new"}
AfterEffects == {"release_old", "update_pool", "update_pooling", "update_verify",
                 "update_remove", "update_removing", "admitted"}

UpdateSecured(d, q) ==
  /\ IsLB(q.new) /\ IsLB(q.old) /\ HasFamilies(q.old)
  /\ q.pc \in BeforeEffects => Kept(d, q.svc, q.old)
  /\ q.pc \in AfterEffects => Kept(d, q.svc, q.new)
  /\ q.pc \in {"default", "request_v6", "undo_v4"} => SetOf(q.got) \subseteq {AnsweredPrefix}
  /\ q.pc = "undo_v4" => q.got # <<>>
  /\ q.pc = "register" =>
       \A a \in NewOnes(q) : a \in SetOf(q.todo) \/ Has(d, q.svc, a, q.new.ann)
  /\ q.pc \in {"register", "rekey"} => KeptOnes(q) = {} \/ q.old.ann.zone = q.new.ann.zone
  /\ q.pc = "rekey" => RekeySecured(d, q)
  /\ q.pc = "revert" => IF SecretsLast THEN OneFault /\ FirstRekeyed(d, q)
                                       ELSE Kept(d, q.svc, q.old)
  /\ q.pc = "undo_first" => NewPrefixes(q) # <<>>
  /\ q.pc = "undo_new" => SetOf(q.todo) \cap SetOf(q.old.ann.addrs) = {}
  /\ q.pc = "release_old" => SetOf(q.todo) \cap SetOf(q.new.ann.addrs) = {}
  /\ q.pc \in {"rekey", "undo_new", "release_old"} => q.todo # <<>>

(* A delete has given up the addresses, and can have them back. *)
Releasing == {"release", "delete_verify", "delete_remove", "delete_removing", "restore"}
DeleteSecured(d, q) ==
  /\ IsLB(q.old) /\ HasFamilies(q.old)
  /\ q.pc = "delete" => Kept(d, q.svc, q.old)
  /\ q.pc \in Releasing =>
       /\ q.old.ann.valid \/ Kept(d, q.svc, q.old)
       /\ \A a \in SetOf(q.old.ann.addrs) : Regainable(d, a, q.old.ann)
  /\ q.pc = "restore" =>
       /\ q.todo # <<>> /\ SetOf(q.todo) \subseteq SetOf(q.old.ann.addrs)
       /\ \A a \in SetOf(q.old.ann.addrs) : a \in SetOf(q.todo) \/ Has(d, q.svc, a, q.old.ann)

Secured(d, q) ==
  /\ q.op = "create" => CreateSecured(d, q)
  /\ q.op = "update" => UpdateSecured(d, q)
  /\ q.op = "delete" => DeleteSecured(d, q)

(* Each request is the only one about its Service, which is as it read it. *)
Alone == \A r \in Slots : Active(r) =>
           /\ req[r].answer = "awaited" /\ req[r].old = store[req[r].svc]
           /\ \A o \in Slots : Active(o) /\ req[o].svc = req[r].svc => o = r

BInv == /\ BindingsLast /\ Alone /\ Sane(ipam)
        /\ \A s \in Services : store[s] # NoService => IsLB(store[s])
        /\ \A s \in Services : Quiet(s) /\ store[s] # NoService => Kept(ipam, s, store[s])
        /\ \A r \in Slots : Active(r) => Secured(ipam, req[r])

(* Where one call may fail it has, when a handler turns back. *)
TakesOut(c) ==
  \/ c.pc = "ok"
  \/ c.pc = "error" /\ faults = MaxFaults
  \/ c.pc \in {"listing", "removing"} /\ c.read = pools[c.zone] /\ c.read # Pool!Absent

TurnsBack(q) == q.pc = "restore" \/ (q.pc = "revert" /\ SecretsLast)

SInv == OneFault =>
  \A r \in Slots :
    /\ TurnsBack(req[r]) => faults = MaxFaults
    /\ req[r].pc = "delete_remove" => pools[req[r].old.ann.zone] # Pool!Absent
    /\ req[r].pc = "delete_removing" => TakesOut(call[r])

----------------------------------------------------------------------------
(* Sequences of addresses without repetitions. *)

LEMMA SetOfAppend ==
  ASSUME NEW X, NEW seq \in Seq(X), NEW x \in X
  PROVE  /\ SetOf(Append(seq, x)) = SetOf(seq) \cup {x}
         /\ Distinct(seq) /\ x \notin SetOf(seq) => Distinct(Append(seq, x))
<1> DEFINE N == Len(seq)
           new == Append(seq, x)
<1>1. /\ N \in Nat /\ Len(new) = N + 1 /\ new[N + 1] = x /\ \A i \in 1..N : new[i] = seq[i]
      /\ \A i \in 1..N + 1 : i = N + 1 \/ i \in 1..N
      /\ N + 1 \in 1..N + 1 /\ \A i \in 1..N : i \in 1..N + 1
  OBVIOUS
<1> HIDE DEF new, N
<1>2. SetOf(new) = {new[i] : i \in 1..N + 1} /\ SetOf(seq) = {seq[i] : i \in 1..N}
  BY <1>1 DEF SetOf, N
<1>3. SetOf(new) = SetOf(seq) \cup {x}
  BY <1>1, <1>2
<1>4. Distinct(seq) /\ x \notin SetOf(seq) => Distinct(new)
  BY <1>1, <1>2 DEF Distinct, N
<1> QED
  BY <1>3, <1>4 DEF new

(* Only keeps the elements of its sequence that are in the set, once each. *)
LEMMA OnlyElements ==
  ASSUME NEW X, NEW seq \in Seq(X), NEW S
  PROVE  /\ SetOf(Only(seq, S)) = SetOf(seq) \cap S
         /\ Distinct(seq) => Distinct(Only(seq, S))
<1> DEFINE N == Len(seq)
           upto(n) == {seq[i] : i \in 1..n}
<1>1. N \in Nat /\ \A i \in 1..N : seq[i] \in X
  OBVIOUS
<1>2. PICK f : /\ Only(seq, S) = f[Len(seq)] /\ f[0] = <<>>
               /\ \A n \in 0..Len(seq) : f[n] \in Seq(X)
               /\ \A n \in 1..Len(seq) :
                    f[n] = IF seq[n] \in S THEN Append(f[n - 1], seq[n]) ELSE f[n - 1]
  BY OnlyRuns
<1>6. /\ Only(seq, S) = f[N] /\ \A n \in 0..N : f[n] \in Seq(X)
      /\ \A n \in 1..N : f[n] = IF seq[n] \in S THEN Append(f[n - 1], seq[n]) ELSE f[n - 1]
  BY <1>2
<1> HIDE DEF N
<1> DEFINE good(n) == SetOf(f[n]) = upto(n) \cap S /\ (Distinct(seq) => Distinct(f[n]))
<1>3. \A n \in 0..N : good(n)
  <2> DEFINE T == {n \in 0..N : ~good(n)}
  <2> SUFFICES ASSUME T # {} PROVE FALSE
    OBVIOUS
  <2>0. T \subseteq Nat
    BY <1>1
  <2> HIDE DEF T
  <2>1. PICK n \in T : \A i \in T : ~(i < n)
    BY <2>0, LeastNat
  <2> USE DEF T
  <2>2. good(0)
    <3>1. SetOf(<<>>) = {} /\ Distinct(<<>>)
      BY DEF SetOf, Distinct
    <3>2. upto(0) = {}
      OBVIOUS
    <3> QED
      BY <1>2, <3>1, <3>2
  <2>3. n \in 1..N /\ n - 1 \in 0..N /\ n - 1 < n
    BY <1>1, <2>1, <2>2
  <2>4. good(n - 1)
    BY <2>1, <2>3
  <2>5. upto(n) = upto(n - 1) \cup {seq[n]}
    BY <1>1, <2>3
  <2>6. Distinct(seq) => seq[n] \notin upto(n - 1)
    BY <1>1, <2>3 DEF Distinct, N
  <2>7. f[n - 1] \in Seq(X) /\ seq[n] \in X
    BY <1>1, <2>3, <1>6
  <2>8. CASE seq[n] \in S
    <3>1. f[n] = Append(f[n - 1], seq[n])
      BY <1>6, <2>3, <2>8
    <3>2. /\ SetOf(f[n]) = SetOf(f[n - 1]) \cup {seq[n]}
          /\ Distinct(f[n - 1]) /\ seq[n] \notin SetOf(f[n - 1]) => Distinct(f[n])
      BY <2>7, <3>1, SetOfAppend
    <3> HIDE DEF upto
    <3>3. good(n)
      BY <2>4, <2>5, <2>6, <2>8, <3>2
    <3> QED
      BY <2>1, <3>3
  <2>9. CASE seq[n] \notin S
    <3>1. f[n] = f[n - 1]
      BY <1>6, <2>3, <2>9
    <3> HIDE DEF upto
    <3>2. good(n)
      BY <2>4, <2>5, <2>9, <3>1
    <3> QED
      BY <2>1, <3>2
  <2> QED
    BY <2>8, <2>9
<1>4. good(N)
  <2>1. N \in 0..N
    BY <1>1
  <2> HIDE DEF good
  <2> QED
    BY <1>3, <2>1
<1>5. upto(N) = SetOf(seq)
  BY DEF SetOf, N
<1> QED
  BY <1>4, <1>5, <1>6

(* What a loop has done, and what it has left. *)
LEMMA Looped ==
  ASSUME NEW X, NEW todo \in Seq(X), todo # <<>>
  PROVE  /\ Head(todo) \in SetOf(todo) /\ todo[1] \in SetOf(todo)
         /\ Len(todo) > 1 => /\ Tail(todo) \in Seq(X) /\ Tail(todo) # <<>>
                             /\ SetOf(todo) = {Head(todo)} \cup SetOf(Tail(todo))
                             /\ Distinct(todo) => /\ Distinct(Tail(todo))
                                                  /\ Head(todo) \notin SetOf(Tail(todo))
         /\ ~(Len(todo) > 1) => SetOf(todo) = {Head(todo)}
<1>1. /\ Len(todo) \in Nat /\ Len(todo) # 0 /\ Head(todo) = todo[1]
      /\ \A i \in 1..(Len(todo) - 1) : i \in 1..Len(todo) /\ i + 1 \in 1..Len(todo) /\ i + 1 # 1
  OBVIOUS
<1>2. 1 \in 1..Len(todo)
  BY <1>1
<1>3. todo[1] \in SetOf(todo)
  BY <1>2 DEF SetOf
<1>4. CASE Len(todo) > 1
  <2>1. /\ Tail(todo) \in Seq(X) /\ Len(Tail(todo)) = Len(todo) - 1
        /\ \A i \in 1..(Len(todo) - 1) : Tail(todo)[i] = todo[i + 1]
    OBVIOUS
  <2>0. Tail(todo) # <<>>
    <3>0. \A n \in Nat : n > 1 => n - 1 # 0
      OBVIOUS
    <3>1. Len(todo) - 1 # 0
      BY <1>1, <1>4, <3>0
    <3>2. ASSUME NEW s \in Seq(X) PROVE s = <<>> => Len(s) = 0
      OBVIOUS
    <3> QED
      BY <2>1, <3>1, <3>2
  <2>2. SetOf(Tail(todo)) \subseteq SetOf(todo)
    BY <1>1, <2>1 DEF SetOf
  <2>3. SetOf(todo) \subseteq {Head(todo)} \cup SetOf(Tail(todo))
    BY <1>4, SetOfTail
  <2>4. ASSUME Distinct(todo) PROVE Distinct(Tail(todo)) /\ Head(todo) \notin SetOf(Tail(todo))
    <3>1. Head(todo) \notin SetOf(Tail(todo))
      BY <1>1, <1>2, <2>1, <2>4 DEF SetOf, Distinct
    <3>2. ASSUME NEW i \in 1..Len(Tail(todo)), NEW j \in 1..Len(Tail(todo)),
                 Tail(todo)[i] = Tail(todo)[j]
          PROVE  i = j
      <4>1. i + 1 = j + 1
        BY <1>1, <2>1, <2>4, <3>2 DEF Distinct
      <4> QED
        BY <2>1, <4>1
    <3> QED
      BY <3>1, <3>2 DEF Distinct
  <2> QED
    BY <1>1, <1>3, <1>4, <2>0, <2>1, <2>2, <2>3, <2>4
<1>5. CASE ~(Len(todo) > 1)
  BY <1>1, <1>3, <1>5, SetOfTail
<1> QED
  BY <1>1, <1>3, <1>4, <1>5

(* A Service that has its families lists addresses, each of them once. *)
LEMMA Listing ==
  ASSUME NEW svc \in AnyService, IsLB(svc), HasFamilies(svc)
  PROVE  /\ svc.ann \in AnyAnn /\ svc.ann.addrs \in Seq(Addrs) /\ SetOf(svc.ann.addrs) \subseteq Addrs
         /\ svc.ann.addrs # <<>> /\ Split(svc.ann.addrs) = svc.ann.addrs
         /\ Distinct(svc.ann.addrs)
<1> DEFINE addrs == svc.ann.addrs
<1>1. svc.ann \in AnyAnn /\ addrs \in Seq(Addrs) /\ svc.ann.family \in {"ipv4", "ipv6", "dual"}
  BY WebhookAssumption DEF AnyService, AnyAnn
<1>2. SetOf(addrs) \subseteq Addrs
  BY <1>1, SetOfSplit
<1>3. addrs # <<>>
  <2>1. V4In(<<>>) = {} /\ V6In(<<>>) = {}
    BY DEF V4In, V6In
  <2> QED
    BY <1>1, <2>1 DEF HasFamilies, HasV4, HasV6
<1>4. Distinct(addrs)
  BY DEF HasFamilies, Acceptable, AtMostOne, V4In, V6In, Distinct
<1> QED
  BY <1>1, <1>2, <1>3, <1>4 DEF Split

(* A Service that has its families lists one address of each at most: two. *)
LEMMA AtMostTwo ==
  ASSUME NEW svc \in AnyService, IsLB(svc), HasFamilies(svc)
  PROVE  /\ \A a, b, c \in SetOf(svc.ann.addrs) : a = b \/ a = c \/ b = c
         /\ \A seq \in Seq(Addrs) : Distinct(seq) /\ SetOf(seq) \subseteq SetOf(svc.ann.addrs) =>
              /\ Len(seq) <= 2
              /\ Len(seq) = 2 => SetOf(seq) = {seq[1], seq[2]}
<1> DEFINE addrs == svc.ann.addrs
<1>1. \A a, b, c \in SetOf(addrs) : a = b \/ a = c \/ b = c
  <2>1. \A i, j \in 1..Len(addrs) : (addrs[i] \in V4 <=> addrs[j] \in V4) => i = j
    BY DEF HasFamilies, Acceptable, AtMostOne, V4In, V6In
  <2> QED
    BY <2>1 DEF SetOf
<1>2. ASSUME NEW seq \in Seq(Addrs), Distinct(seq), SetOf(seq) \subseteq SetOf(addrs)
      PROVE  Len(seq) <= 2 /\ (Len(seq) = 2 => SetOf(seq) = {seq[1], seq[2]})
  <2>1. Len(seq) \in Nat
    OBVIOUS
  <2>2. Len(seq) <= 2
    <3> SUFFICES ASSUME ~(Len(seq) <= 2) PROVE FALSE
      OBVIOUS
    <3>1. {1, 2, 3} \subseteq 1..Len(seq)
      BY <2>1
    <3>2. seq[1] # seq[2] /\ seq[1] # seq[3] /\ seq[2] # seq[3]
      BY <1>2, <3>1 DEF Distinct
    <3>3. {seq[1], seq[2], seq[3]} \subseteq SetOf(seq)
      BY <3>1 DEF SetOf
    <3> QED
      BY <1>1, <1>2, <3>2, <3>3
  <2>3. Len(seq) = 2 => 1..Len(seq) = {1, 2}
    BY <2>1
  <2> QED
    BY <2>2, <2>3 DEF SetOf
<1> QED
  BY <1>1, <1>2

(* The three lists of an update, by their elements. *)
LEMMA PrefixSets ==
  ASSUME NEW q \in AnyRequest, q.old \in AnyService, q.new \in AnyService,
         IsLB(q.old), IsLB(q.new), HasFamilies(q.old), HasFamilies(q.new)
  PROVE  /\ NewPrefixes(q) \in Seq(Addrs) /\ SetOf(NewPrefixes(q)) = NewOnes(q)
         /\ KeepPrefixes(q) \in Seq(Addrs) /\ SetOf(KeepPrefixes(q)) = KeptOnes(q)
         /\ Distinct(KeepPrefixes(q))
         /\ RemovePrefixes(q) \in Seq(Addrs)
         /\ SetOf(RemovePrefixes(q)) = SetOf(q.old.ann.addrs) \ SetOf(q.new.ann.addrs)
<1>1. /\ NewAddrs(q) = q.new.ann.addrs /\ NewAddrs(q) \in Seq(Addrs) /\ Distinct(NewAddrs(q))
      /\ OldAddrs(q) = q.old.ann.addrs /\ OldAddrs(q) \in Seq(Addrs)
  BY Listing DEF NewAddrs, OldAddrs
<1>2. /\ NewPrefixes(q) \in Seq(Addrs)
      /\ SetOf(NewPrefixes(q)) = SetOf(NewAddrs(q)) \cap (SetOf(NewAddrs(q)) \ SetOf(OldAddrs(q)))
  BY <1>1, OnlyType, OnlyElements DEF NewPrefixes
<1>3. /\ KeepPrefixes(q) \in Seq(Addrs) /\ Distinct(KeepPrefixes(q))
      /\ SetOf(KeepPrefixes(q)) = SetOf(NewAddrs(q)) \cap SetOf(OldAddrs(q))
  BY <1>1, OnlyType, OnlyElements DEF KeepPrefixes
<1>4. /\ RemovePrefixes(q) \in Seq(Addrs)
      /\ SetOf(RemovePrefixes(q)) = SetOf(OldAddrs(q)) \cap (SetOf(OldAddrs(q)) \ SetOf(NewAddrs(q)))
  BY <1>1, OnlyType, OnlyElements DEF RemovePrefixes
<1> QED
  BY <1>1, <1>2, <1>3, <1>4 DEF NewOnes, KeptOnes

----------------------------------------------------------------------------
(* What the calls to the IPAM API do to bindings. *)

(* A step spares Service t's binding to address a. *)
Spares(d, e, t, a) ==
  t \in d[a].svcs => t \in e[a].svcs /\ (SecretsLast => e[a].secret = d[a].secret)
SparesAll(d, e) == \A t \in Services, a \in Addrs : Spares(d, e, t, a)
SparesOthers(d, e, s) == \A t \in Services, a \in Addrs : t # s => Spares(d, e, t, a)

LEMMA SparedHas ==
  ASSUME NEW d, NEW e, NEW s, NEW a, NEW ann, Spares(d, e, s, a), Has(d, s, a, ann)
  PROVE  Has(e, s, a, ann)
  BY DEF Spares, Has

LEMMA SparedKept ==
  ASSUME NEW d, NEW e, SparesAll(d, e), NEW s \in Services, NEW svc,
         SetOf(svc.ann.addrs) \subseteq Addrs, Kept(d, s, svc)
  PROVE  Kept(e, s, svc)
  BY SparedHas DEF Kept, SparesAll

LEMMA NothingSpent == SparesAll(ipam, ipam)
  BY DEF SparesAll, Spares

(* To bind an address spares every binding there is. *)
LEMMA BindSpares ==
  ASSUME WInv, Sane(ipam), NEW s \in Services, NEW a \in Addrs, NEW k \in Secrets,
         ipam[a].svcs = {} \/ ipam[a].secret = k, ipam' \in {ipam, Bound(a, k, s)}
  PROVE  Sane(ipam') /\ SparesAll(ipam, ipam')
<1>1. ipam \in [Addrs -> Binding] /\ NoSecret # k /\ OtherCluster # s
  BY IpamAssumption DEF WInv, WebhookTypeOK
<1>2. CASE ipam' = ipam
  BY <1>2, NothingSpent
<1>3. CASE ipam' = Bound(a, k, s)
  <2>1. /\ ipam'[a] = [secret |-> k, svcs |-> ipam[a].svcs \cup {s}]
        /\ \A b \in Addrs : b # a => ipam'[b] = ipam[b]
    BY <1>1, <1>3 DEF Bound
  <2>2. a \notin Foreign
    BY <1>1 DEF Sane
  <2>3. Sane(ipam')
    <3>1. ipam[a].svcs \subseteq Services
      BY <2>2 DEF Sane
    <3>2. ipam'[a].svcs \subseteq Services /\ ipam'[a].secret \in Secrets
      BY <2>1, <3>1
    <3> QED
      BY <2>1, <2>2, <3>2 DEF Sane
  <2>4. ASSUME NEW t \in Services, NEW b \in Addrs PROVE Spares(ipam, ipam', t, b)
    BY <2>1 DEF Spares
  <2> QED
    BY <2>3, <2>4 DEF SparesAll
<1> QED
  BY <1>2, <1>3

(* A call to bind one does, whether it is answered or not; with no faults left
   it is refused only when somebody else holds the address. *)
LEMMA UpdateAddressSpares ==
  ASSUME WInv, Sane(ipam), NEW r \in Slots, req[r].svc \in Services, NEW a, NEW ann \in AnyAnn,
         NEW granted, NEW failed, UpdateAddress(r, a, ann, granted, failed)
  PROVE  /\ Sane(ipam') /\ SparesAll(ipam, ipam') /\ UNCHANGED store
         /\ \/ /\ Continue(r, failed)
               /\ faults = MaxFaults => ~(Sendable(a, ann) /\ Regainable(ipam, a, ann))
            \/ Continue(r, granted) /\ a \in Addrs /\ Has(ipam', req[r].svc, a, ann)
         /\ \A b \in Addrs : Regainable(ipam, b, ann) => Regainable(ipam', b, ann)
<1> DEFINE s == req[r].svc
           can == Sendable(a, ann) /\ CanBind(a, ann.zone, ann.secret)
           doc == Bound(a, ann.secret, s)
<1>1. /\ ann.secret \in Secrets /\ ann.zone \in Zones
      /\ ipam \in [Addrs -> Binding] /\ faults \in 0..MaxFaults /\ UNCHANGED store
  BY DEF AnyAnn, WInv, WebhookTypeOK, UpdateAddress, Ask
<1>2. can => a \in Addrs /\ a \in Prefix[ann.zone] /\ (ipam[a].svcs = {} \/ ipam[a].secret = ann.secret)
  BY <1>1, IpamAssumption DEF CanBind, InZone
<1>3. faults = MaxFaults => ~(faults < MaxFaults)
  BY WebhookAssumption
<1>4. \/ can /\ ipam' = doc /\ Continue(r, granted)
      \/ ~can /\ ipam' = ipam /\ Continue(r, failed)
      \/ can /\ faults < MaxFaults /\ ipam' \in {ipam, doc} /\ Continue(r, failed)
  BY DEF UpdateAddress, Ask
<1>5. ipam' = ipam \/ (can /\ ipam' = doc)
  BY <1>4
<1>6. Sane(ipam') /\ SparesAll(ipam, ipam')
  BY <1>1, <1>2, <1>5, BindSpares, NothingSpent
<1>7. ASSUME ipam' = doc, can
      PROVE  /\ Has(ipam', s, a, ann)
             /\ \A b \in Addrs : Regainable(ipam, b, ann) => Regainable(ipam', b, ann)
  <2>1. /\ ipam'[a] = [secret |-> ann.secret, svcs |-> ipam[a].svcs \cup {s}]
        /\ \A b \in Addrs : b # a => ipam'[b] = ipam[b]
    BY <1>1, <1>2, <1>7 DEF Bound
  <2> QED
    BY <1>2, <1>7, <2>1 DEF Has, Regainable
<1>8. \A b \in Addrs : Regainable(ipam, b, ann) => Regainable(ipam', b, ann)
  BY <1>5, <1>7
<1>9. Sendable(a, ann) /\ Regainable(ipam, a, ann) => can
  BY DEF Regainable, CanBind, InZone
<1> HIDE DEF can, doc
<1> QED
  BY <1>1, <1>2, <1>3, <1>4, <1>6, <1>7, <1>8, <1>9

(* A call to release one spares every other binding, and keeps nobody from
   having the address back. *)
LEMMA RemoveAddressSpares ==
  ASSUME WInv, Sane(ipam), NEW r \in Slots, NEW a, NEW ann \in AnyAnn, NEW next,
         RemoveAddress(r, a, ann, next)
  PROVE  /\ Sane(ipam') /\ UNCHANGED store /\ Continue(r, next)
         /\ \A t \in Services, b \in Addrs : t # req[r].svc \/ b # a => Spares(ipam, ipam', t, b)
         /\ ~ann.valid => ipam' = ipam
         /\ \A b \in Addrs : Regainable(ipam, b, ann) => Regainable(ipam', b, ann)
<1> DEFINE s == req[r].svc
           doc == Released(a, s)
<1>1. /\ ann.secret \in Secrets /\ ann.zone \in Zones /\ ann.secret # NoSecret
      /\ ipam \in [Addrs -> Binding]
  BY IpamAssumption DEF AnyAnn, WInv, WebhookTypeOK
<1>2. /\ UNCHANGED store /\ Continue(r, next)
      /\ \/ ipam' = ipam
         \/ Sendable(a, ann) /\ CanUnbind(a, ann.zone, ann.secret) /\ ipam' = doc
  BY DEF RemoveAddress, DeleteIP, Ask, Decide
<1>3. CASE ipam' = ipam
  BY <1>2, <1>3 DEF Spares
<1>4. CASE Sendable(a, ann) /\ CanUnbind(a, ann.zone, ann.secret) /\ ipam' = doc
  <2>1. a \in Addrs /\ ipam[a].secret = ann.secret /\ a \in Prefix[ann.zone] /\ ann.valid
    BY <1>1, <1>4, IpamAssumption DEF CanUnbind, InZone, Sendable
  <2>2. a \notin Foreign
    BY <1>1, <2>1 DEF Sane
  <2>3. /\ ipam'[a].svcs = ipam[a].svcs \ {s}
        /\ ipam'[a].svcs # {} => ipam'[a].secret = ann.secret
        /\ \A b \in Addrs : b # a => ipam'[b] = ipam[b]
    BY <1>1, <1>4, <2>1 DEF Released, Unbound, Binding
  <2>4. Sane(ipam')
    BY <1>1, <2>2, <2>3 DEF Sane
  <2>5. ASSUME NEW t \in Services, NEW b \in Addrs, t # s \/ b # a PROVE Spares(ipam, ipam', t, b)
    BY <2>1, <2>3, <2>5 DEF Spares
  <2>6. ASSUME NEW b \in Addrs, Regainable(ipam, b, ann) PROVE Regainable(ipam', b, ann)
    BY <2>3, <2>6 DEF Regainable
  <2> QED
    BY <1>2, <2>1, <2>4, <2>5, <2>6
<1> QED
  BY <1>2, <1>3, <1>4

(* A call to change an address's secret takes no binding away. *)
LEMMA UpdateSecretSpares ==
  ASSUME WInv, Sane(ipam), NEW r \in Slots, NEW a, NEW ann \in AnyAnn,
         NEW from \in Secrets, NEW to \in Secrets, NEW granted, NEW failed,
         UpdateSecret(r, a, ann, from, to, granted, failed)
  PROVE  /\ Sane(ipam') /\ UNCHANGED store
         /\ \A t \in Services, b \in Addrs : ~SecretsLast \/ b # a => Spares(ipam, ipam', t, b)
         /\ \A b \in Addrs : ipam'[b].svcs = ipam[b].svcs /\ (b # a => ipam'[b] = ipam[b])
         /\ \/ /\ Continue(r, failed)
               /\ FewFaults => ipam' = ipam
               /\ \/ ~(Sendable(a, ann) /\ CanRekey(a, ann.zone, from))
                  \/ faults < MaxFaults /\ faults' = faults + 1
            \/ Continue(r, granted) /\ a \in Addrs /\ ipam'[a].secret = to /\ ann.valid
<1> DEFINE can == Sendable(a, ann) /\ CanRekey(a, ann.zone, from)
           doc == Rekeyed(a, to)
<1>1. /\ ann.zone \in Zones /\ from # NoSecret /\ to # NoSecret
      /\ ipam \in [Addrs -> Binding] /\ faults \in 0..MaxFaults
  BY IpamAssumption DEF AnyAnn, WInv, WebhookTypeOK
<1>2. /\ UNCHANGED store
      /\ \/ can /\ ipam' = doc /\ Continue(r, granted)
         \/ ~can /\ ipam' = ipam /\ Continue(r, failed)
         \/ /\ can /\ faults < MaxFaults /\ faults' = faults + 1 /\ Continue(r, failed)
            /\ ipam' \in {ipam, doc} /\ (~LostAnswers => ipam' = ipam)
  BY DEF UpdateSecret, Ask
<1>3. can => a \in Addrs /\ ipam[a].secret = from /\ ann.valid
  BY <1>1, IpamAssumption DEF CanRekey, InZone, Sendable
<1>4. FewFaults => ~LostAnswers \/ ~(faults < MaxFaults)
  <2>1. MaxFaults = 0 => ~(faults < MaxFaults)
    BY <1>1
  <2> QED
    BY <2>1, Zenon DEF FewFaults, OneFault
<1> HIDE DEF can
<1>5. CASE ipam' = ipam
  <2>1. Sane(ipam') /\ \A t \in Services, b \in Addrs : Spares(ipam, ipam', t, b)
    BY <1>5 DEF Spares
  <2>2. ipam' = doc /\ can => ipam'[a].secret = to
    BY <1>1, <1>3 DEF Rekeyed, Binding
  <2> QED
    BY <1>2, <1>3, <1>4, <1>5, <2>1, <2>2 DEF can
<1>6. CASE can /\ ipam' = doc
  <2>1. /\ ipam'[a].secret = to /\ ipam'[a].svcs = ipam[a].svcs
        /\ \A b \in Addrs : b # a => ipam'[b] = ipam[b]
    BY <1>1, <1>3, <1>6 DEF Rekeyed, Binding
  <2>2. a \notin Foreign
    BY <1>1, <1>3, <1>6 DEF Sane
  <2>3. Sane(ipam')
    BY <2>1, <2>2 DEF Sane
  <2>4. \A b \in Addrs : ipam'[b].svcs = ipam[b].svcs
    BY <2>1
  <2>5. \A t \in Services, b \in Addrs : ~SecretsLast \/ b # a => Spares(ipam, ipam', t, b)
    BY <2>1, <2>4 DEF Spares
  <2> QED
    BY <1>2, <1>3, <1>4, <1>6, <2>1, <2>3, <2>4, <2>5
<1> QED
  BY <1>2, <1>5, <1>6

----------------------------------------------------------------------------
(* What one handler does leaves the others secured. *)

LEMMA AddrsKnown ==
  ASSUME NEW svc \in AnyService
  PROVE  /\ svc.ann \in AnyAnn /\ svc.ann.addrs \in Seq(Addrs) /\ SetOf(svc.ann.addrs) \subseteq Addrs
         /\ svc.ann.secret \in Secrets /\ svc.ann.zone \in Zones
<1>1. svc.ann \in AnyAnn /\ svc.ann.addrs \in Seq(Addrs)
  BY DEF AnyService, AnyAnn
<1> QED
  BY <1>1, SetOfSplit DEF AnyAnn

LEMMA SoundTypes ==
  ASSUME NEW q, Sound(q)
  PROVE  /\ q \in AnyRequest /\ q.svc \in Services /\ q.op \in Ops
         /\ q.op \in {"create", "update", "delete"} /\ q.todo \in Listed /\ q.got \in Listed
         /\ q.op = "create" => q.new \in AnyService
         /\ q.op = "update" => q.new \in AnyService /\ q.old \in AnyService
         /\ q.op = "delete" => q.new = NoService /\ q.old \in AnyService
<1>1. q \in AnyRequest /\ Phased(q)
  BY DEF Sound
<1>2. q.svc \in Services /\ q.op \in Ops /\ q.todo \in Listed /\ q.got \in Listed
  BY <1>1 DEF AnyRequest, Listed
<1> QED
  BY <1>1, <1>2, WebhookAssumption DEF Phased

LEMMA FrameSecured ==
  ASSUME BindingsLast, NEW d, NEW e, Sane(e), NEW s \in Services, SparesOthers(d, e, s),
         NEW q, Sound(q), q.svc # s, Secured(d, q)
  PROVE  Secured(e, q)
<1>1. /\ q.svc \in Services /\ q.op \in Ops
      /\ q.op = "create" => q.new \in AnyService
      /\ q.op = "update" => q.new \in AnyService /\ q.old \in AnyService
      /\ q.op = "delete" => q.old \in AnyService
  BY SoundTypes
<1>2. ~OneService
  BY <1>1 DEF OneService
<1>3. \A a \in Addrs : Spares(d, e, q.svc, a)
  BY <1>1 DEF SparesOthers
<1>4. \A a \in Addrs : \A ann : Has(d, q.svc, a, ann) => Has(e, q.svc, a, ann)
  BY <1>3, SparedHas
<1>5. \A svc \in AnyService : Kept(d, q.svc, svc) => Kept(e, q.svc, svc)
  BY <1>4, AddrsKnown DEF Kept
<1>6. CASE q.op = "create"
  <2>1. CreateSecured(d, q) /\ q.new \in AnyService /\ SetOf(q.new.ann.addrs) \subseteq Addrs
    BY <1>1, <1>6, AddrsKnown DEF Secured
  <2>2. CreateSecured(e, q)
    BY <1>4, <1>5, <2>1 DEF CreateSecured
  <2> QED
    BY <1>6, <2>2 DEF Secured
<1>7. CASE q.op = "update"
  <2>1. /\ UpdateSecured(d, q) /\ q.new \in AnyService /\ q.old \in AnyService
        /\ SetOf(q.new.ann.addrs) \subseteq Addrs /\ SetOf(q.old.ann.addrs) \subseteq Addrs
        /\ q.new.ann.secret \in Secrets /\ q.old.ann.secret \in Secrets
    BY <1>1, <1>7, AddrsKnown DEF Secured
  <2>2. ASSUME RekeySecured(d, q) PROVE RekeySecured(e, q)
    <3>1. ~SecretsLast
      BY <1>1, <1>2, <1>7, <2>1, <2>2 DEF SecretsLast, OneSecret, RekeySecured, SecretChanged
    <3>2. \A a \in NewOnes(q) : Has(e, q.svc, a, q.new.ann)
      BY <1>4, <2>1, <2>2 DEF RekeySecured, NewOnes
    <3>3. \A a \in SetOf(q.old.ann.addrs) : a \in Prefix[q.old.ann.zone] /\ q.svc \in e[a].svcs
      BY <1>3, <2>1, <2>2 DEF RekeySecured, Spares
    <3> QED
      BY <2>2, <3>1, <3>2, <3>3 DEF RekeySecured
  <2>3. /\ q.pc \in BeforeEffects => Kept(e, q.svc, q.old)
        /\ q.pc \in AfterEffects => Kept(e, q.svc, q.new)
    BY <1>5, <2>1 DEF UpdateSecured
  <2>4. q.pc = "register" =>
          \A a \in NewOnes(q) : a \in SetOf(q.todo) \/ Has(e, q.svc, a, q.new.ann)
    BY <1>4, <2>1 DEF UpdateSecured, NewOnes
  <2>5. SecretsLast /\ FirstRekeyed(d, q) => FirstRekeyed(e, q)
    BY <1>3, <2>1 DEF FirstRekeyed, Spares
  <2>6. Kept(d, q.svc, q.old) => Kept(e, q.svc, q.old)
    BY <1>5, <2>1
  <2>7. UpdateSecured(e, q)
    BY <2>1, <2>2, <2>3, <2>4, <2>5, <2>6 DEF UpdateSecured
  <2> QED
    BY <1>7, <2>7 DEF Secured
<1>8. CASE q.op = "delete"
  <2>1. /\ DeleteSecured(d, q) /\ q.old \in AnyService
        /\ SetOf(q.old.ann.addrs) \subseteq Addrs /\ q.old.ann.secret \in Secrets
    BY <1>1, <1>8, AddrsKnown DEF Secured
  <2>2. OneSecret
    BY <1>1, <1>2, <1>8 DEF BindingsLast
  <2>3. ASSUME NEW a \in SetOf(q.old.ann.addrs), Regainable(d, a, q.old.ann)
        PROVE  Regainable(e, a, q.old.ann)
    <3>1. a \in Addrs /\ (e[a].svcs # {} => e[a].secret \in Secrets)
      BY <2>1, <2>3 DEF Sane, Regainable
    <3> QED
      BY <2>1, <2>2, <2>3, <3>1 DEF OneSecret, Regainable
  <2>4. DeleteSecured(e, q)
    BY <1>4, <1>5, <2>1, <2>3 DEF DeleteSecured
  <2> QED
    BY <1>8, <2>4 DEF Secured
<1> QED
  BY <1>1, <1>6, <1>7, <1>8, SoundTypes

(* A step of a handler that is on its way: it goes on, secured, or leaves the
   stored Service as it found it. *)
Carries(p, q) == p.op = q.op /\ p.svc = q.svc /\ p.old = q.old /\ p.answer = q.answer
Settled(d, q, p) ==
  \/ p = Idle /\ (q.op # "create" => Kept(d, q.svc, q.old))
  \/ p.pc # "idle" /\ Carries(p, q) /\ Secured(d, p)

(* An update gives up no address that both versions list. *)
HoldsOn(d, e, q) ==
  q.op = "update" => \A a \in KeptOnes(q) : q.svc \in d[a].svcs => q.svc \in e[a].svcs

LEMMA OwnStep ==
  ASSUME WInv, BInv, NEW r \in Slots, Active(r), NEW p, Continue(r, p),
         Settled(ipam', req[r], p), Sane(ipam'), SparesOthers(ipam, ipam', req[r].svc),
         HoldsOn(ipam, ipam', req[r]), UNCHANGED store
  PROVE  BInv' /\ GivenUpByOwner
<1> DEFINE q == req[r]
<1>0. PICK t \in Services : t = q.svc
  BY SoundTypes DEF WInv
<1>1. /\ Sound(q) /\ t = q.svc /\ q.op \in {"create", "update", "delete"}
      /\ Secured(ipam, q) /\ q.old = store[t] /\ q.answer = "awaited"
      /\ \A o \in Slots : Active(o) /\ req[o].svc = t => o = r
  BY <1>0, SoundTypes DEF WInv, BInv, Alone
<1>2. \A o \in Slots : req'[o] = IF o = r THEN p ELSE req[o]
  BY DEF WInv, WebhookTypeOK, Continue
<1>3. Idle.pc = "idle"
  BY DEF Idle
<1>4. \A o \in Slots : o # r => (Active(o)' <=> Active(o)) /\ req'[o] = req[o]
  BY <1>2 DEF Active
<1>5. Active(r)' <=> p.pc # "idle"
  BY <1>2 DEF Active
<1>6. p.pc # "idle" => Carries(p, q) /\ Secured(ipam', p)
  BY <1>3 DEF Settled
<1>7. p.pc = "idle" => (q.op # "create" => Kept(ipam', t, q.old))
  BY <1>1 DEF Settled
<1>8. Alone'
  <2> SUFFICES ASSUME NEW o \in Slots, Active(o)'
               PROVE  /\ req'[o].answer = "awaited" /\ req'[o].old = store'[req'[o].svc]
                      /\ \A x \in Slots : Active(x)' /\ req'[x].svc = req'[o].svc => x = o
    BY DEF Alone
  <2>1. CASE o = r
    <3>1. /\ req'[o].answer = "awaited" /\ req'[o].old = store'[req'[o].svc] /\ req'[o].svc = t
      BY <1>1, <1>2, <1>5, <1>6, <2>1 DEF Carries
    <3> QED
      BY <1>1, <1>4, <2>1, <3>1
  <2>2. CASE o # r
    <3>1. /\ Active(o) /\ req'[o] = req[o] /\ req[o].svc # t
          /\ req[o].answer = "awaited" /\ req[o].old = store[req[o].svc]
          /\ \A x \in Slots : Active(x) /\ req[x].svc = req[o].svc => x = o
      BY <1>1, <1>4, <2>2 DEF BInv, Alone
    <3>2. Active(r)' => req'[r].svc = t
      BY <1>1, <1>2, <1>5, <1>6 DEF Carries
    <3> QED
      BY <1>4, <3>1, <3>2
  <2> QED
    BY <2>1, <2>2
<1>9. ASSUME NEW s \in Services, Quiet(s)', store'[s] # NoService PROVE Kept(ipam', s, store'[s])
  <2>1. CASE s = t
    <3>1. p.pc = "idle"
      BY <1>1, <1>2, <1>5, <1>6, <1>9, <2>1 DEF Quiet, RequestsFor, Carries
    <3>2. q.op # "create"
      BY <1>1, <1>9, <2>1 DEF Secured, CreateSecured
    <3> QED
      BY <1>1, <1>7, <2>1, <3>1, <3>2
  <2>2. CASE s # t
    <3>0. Quiet(s)
      BY <1>1, <1>4, <1>9, <2>2 DEF Quiet, RequestsFor
    <3>1. Kept(ipam, s, store[s]) /\ store[s] \in AnyService
      BY <1>9, <3>0 DEF BInv, WInv, WebhookTypeOK
    <3>2. \A a \in Addrs : Spares(ipam, ipam', s, a)
      BY <1>1, <2>2 DEF SparesOthers
    <3>3. SetOf(store[s].ann.addrs) \subseteq Addrs
      BY <3>1, AddrsKnown
    <3> QED
      BY <3>1, <3>2, <3>3, SparedHas DEF Kept
  <2> QED
    BY <2>1, <2>2
<1>10. ASSUME NEW o \in Slots, Active(o)' PROVE Secured(ipam', req'[o])
  <2>1. CASE o = r
    BY <1>2, <1>5, <1>6, <1>10, <2>1
  <2>2. CASE o # r
    <3>1. /\ req'[o] = req[o] /\ Sound(req[o]) /\ Secured(ipam, req[o])
      BY <1>4, <1>10, <2>2 DEF WInv, BInv
    <3>2. req[o].svc # t
      BY <1>1, <1>4, <1>10, <2>2
    <3>3. BindingsLast
      BY DEF BInv
    <3> QED
      BY <1>1, <3>1, <3>2, <3>3, FrameSecured
  <2> QED
    BY <2>1, <2>2
<1>11. BInv'
  <2>1. BindingsLast' /\ \A s \in Services : store'[s] # NoService => IsLB(store'[s])
    BY DEF BInv, BindingsLast, OneSecret, OneService, FewFaults, OneFault
  <2> QED
    BY <1>8, <1>9, <1>10, <2>1 DEF BInv
<1>12. GivenUpByOwner
  <2> SUFFICES ASSUME NEW s \in Services, NEW a \in LbAddrs[s],
                      s \in ipam[a].svcs, s \notin ipam'[a].svcs
               PROVE  \E o \in RequestsFor(s) :
                         req[o].op = "delete" \/ (req[o].op = "update" /\ a \notin SetOf(req[o].new.ann.addrs))
    BY DEF GivenUpByOwner
  <2>1. IsLB(store[s]) /\ a \in SetOf(store[s].ann.addrs)
    BY DEF LbAddrs
  <2>2. a \in Addrs
    <3>1. store[s] \in AnyService
      BY <2>1 DEF WInv, WebhookTypeOK, IsLB, NoService
    <3> QED
      BY <2>1, <3>1, AddrsKnown
  <2>3. s = t
    BY <1>1, <2>2 DEF SparesOthers, Spares
  <2>4. q.op # "create"
    BY <1>1, <2>1, <2>3 DEF Secured, CreateSecured, IsLB, NoService
  <2>5. q.op = "update" => a \notin SetOf(q.new.ann.addrs)
    BY <1>1, <2>1, <2>3 DEF HoldsOn, KeptOnes
  <2> QED
    BY <1>1, <2>3, <2>4, <2>5 DEF RequestsFor
<1> QED
  BY <1>11, <1>12

\* A step that leaves the IPAM API and the stored Services alone.
LEMMA QuietStep ==
  ASSUME WInv, BInv, NEW r \in Slots, Active(r), NEW p, Continue(r, p),
         Settled(ipam, req[r], p), UNCHANGED <<ipam, store>>
  PROVE  BInv' /\ GivenUpByOwner
<1>1. Sane(ipam') /\ Settled(ipam', req[r], p)
  BY DEF BInv
<1>2. SparesOthers(ipam, ipam', req[r].svc) /\ HoldsOn(ipam, ipam', req[r])
  BY DEF SparesOthers, Spares, HoldsOn
<1> QED
  BY <1>1, <1>2, OwnStep

\* One that spares every binding there is.
LEMMA SparingStep ==
  ASSUME WInv, BInv, NEW r \in Slots, Active(r), NEW p, Continue(r, p),
         Settled(ipam', req[r], p), Sane(ipam'), SparesAll(ipam, ipam'), UNCHANGED store
  PROVE  BInv' /\ GivenUpByOwner
<1>1. req[r].op = "update" =>
        req[r].svc \in Services /\ KeptOnes(req[r]) \subseteq Addrs
  BY SoundTypes, AddrsKnown DEF WInv, KeptOnes
<1>2. SparesOthers(ipam, ipam', req[r].svc) /\ HoldsOn(ipam, ipam', req[r])
  BY <1>1 DEF SparesOthers, SparesAll, Spares, HoldsOn
<1> QED
  BY <1>2, OwnStep
----------------------------------------------------------------------------
(* What a handler may go on with. *)

Follows(p, q) == Same(p, q) /\ p.answer = q.answer

LEMMA Fields ==
  ASSUME NEW q \in AnyRequest, NEW pc, NEW todo
  PROVE  /\ Follows(At(q, pc), q) /\ At(q, pc).pc = pc
         /\ At(q, pc).todo = q.todo /\ At(q, pc).got = q.got
         /\ Follows(Loop(q, pc, todo), q) /\ Loop(q, pc, todo).pc = pc
         /\ Loop(q, pc, todo).todo = todo /\ Loop(q, pc, todo).got = q.got
         /\ Follows(Admit(q), q) /\ Admit(q).pc = "admitted"
<1>1. Follows(At(q, pc), q) /\ At(q, pc).pc = pc /\ At(q, pc).todo = q.todo /\ At(q, pc).got = q.got
  BY DEF AnyRequest, At, Follows, Same
<1>2. /\ Follows(Loop(q, pc, todo), q) /\ Loop(q, pc, todo).pc = pc
      /\ Loop(q, pc, todo).todo = todo /\ Loop(q, pc, todo).got = q.got
  BY DEF AnyRequest, Loop, Follows, Same
<1>3. Follows(Admit(q), q) /\ Admit(q).pc = "admitted"
  BY DEF AnyRequest, Admit, Follows, Same
<1> QED
  BY <1>1, <1>2, <1>3

LEMMA FollowsCarries ==
  ASSUME NEW p, NEW q, Follows(p, q)
  PROVE  Carries(p, q) /\ p.new = q.new /\ p.op = q.op /\ p.svc = q.svc /\ p.old = q.old
  BY DEF Follows, Same, Carries

(* A create: nothing is stored yet, so it may be denied at any time. *)
Creating(q) == q.op = "create" /\ IsLB(q.new) /\ q.old = NoService

LEMMA CreateSettles ==
  ASSUME NEW d, NEW q, Creating(q), NEW p, Follows(p, q),
         p.pc = "validate" =>
           \A a \in SetOf(q.new.ann.addrs) : a \in SetOf(p.todo) \/ Has(d, q.svc, a, q.new.ann),
         p.pc \in {"create_pool", "create_pooling", "admitted"} => Kept(d, q.svc, q.new)
  PROVE  p.pc # "idle" => Settled(d, q, p)
<1>1. CreateSecured(d, p) /\ Secured(d, p)
  BY FollowsCarries DEF Creating, CreateSecured, Secured
<1> QED
  BY <1>1, FollowsCarries DEF Settled

LEMMA CreateDenied == ASSUME NEW d, NEW q, Creating(q) PROVE Settled(d, q, Idle)
  BY DEF Creating, Settled

(* An update, past Default. *)
Updating(q) == /\ q \in AnyRequest /\ q.op = "update"
               /\ q.old \in AnyService /\ IsLB(q.old) /\ HasFamilies(q.old)
               /\ q.new \in AnyService /\ IsLB(q.new) /\ HasFamilies(q.new)

LEMMA UpdateSettles ==
  ASSUME NEW d, NEW q, Updating(q), NEW p, Follows(p, q), p.pc \notin DefaultPhases,
         UpdateSecured(d, p)
  PROVE  p.pc # "idle" => Settled(d, q, p)
<1>1. Secured(d, p)
  BY FollowsCarries DEF Updating, Secured
<1> QED
  BY <1>1, FollowsCarries DEF Settled

\* With the new version served, what is left to do cannot hurt it.
LEMMA AfterSettles ==
  ASSUME NEW d, NEW q, Updating(q), Kept(d, q.svc, q.new), NEW p, Follows(p, q),
         p.pc \in AfterEffects,
         p.pc = "release_old" => p.todo # <<>> /\ SetOf(p.todo) \cap SetOf(q.new.ann.addrs) = {}
  PROVE  Settled(d, q, p)
<1>1. /\ p.pc \notin BeforeEffects \cup DefaultPhases /\ p.pc # "idle"
      /\ p.pc \notin {"register", "rekey", "revert", "undo_first", "undo_new"}
      /\ p.pc \notin {"default", "request_v6", "undo_v4"}
  BY DEF AfterEffects, BeforeEffects, DefaultPhases
<1>2. UpdateSecured(d, p)
  BY <1>1, FollowsCarries DEF Updating, UpdateSecured
<1> QED
  BY <1>1, <1>2, UpdateSettles

LEMMA ToAfter ==
  ASSUME NEW d, NEW q, Updating(q), Kept(d, q.svc, q.new)
  PROVE  /\ Settled(d, q, Admit(q)) /\ Settled(d, q, ToPoolRemove(q))
         /\ Settled(d, q, ToPoolAdd(q)) /\ Settled(d, q, ToReleaseOld(q))
<1>1. q \in AnyRequest
  BY DEF Updating
<1>2. {"admitted", "update_verify", "update_pool", "release_old"} \subseteq AfterEffects
  BY DEF AfterEffects
<1>3. Settled(d, q, Admit(q))
  BY <1>1, <1>2, Fields, AfterSettles
<1>4. Settled(d, q, ToPoolRemove(q))
  <2>1. Settled(d, q, Loop(q, "update_verify", <<>>))
    BY <1>1, <1>2, Fields, AfterSettles
  <2> QED
    BY <1>3, <2>1 DEF ToPoolRemove
<1>5. Settled(d, q, ToPoolAdd(q))
  <2>1. Settled(d, q, Loop(q, "update_pool", <<>>))
    BY <1>1, <1>2, Fields, AfterSettles
  <2> QED
    BY <1>4, <2>1 DEF ToPoolAdd
<1>6. Settled(d, q, ToReleaseOld(q))
  <2>1. SetOf(RemovePrefixes(q)) = SetOf(q.old.ann.addrs) \ SetOf(q.new.ann.addrs)
    BY PrefixSets DEF Updating
  <2>2. RemovePrefixes(q) # <<>> => Settled(d, q, Loop(q, "release_old", RemovePrefixes(q)))
    BY <1>1, <1>2, <2>1, Fields, AfterSettles
  <2> QED
    BY <1>5, <2>2 DEF ToReleaseOld
<1> QED
  BY <1>3, <1>4, <1>5, <1>6

\* With the stored version still served, the handler may give up.
LEMMA ToUndo ==
  ASSUME NEW d, NEW q, Updating(q), Kept(d, q.svc, q.old)
  PROVE  /\ Settled(d, q, Idle) /\ Settled(d, q, ToUndoFirst(q)) /\ Settled(d, q, ToUndoNew(q))
<1>1. q \in AnyRequest /\ SetOf(NewPrefixes(q)) = NewOnes(q) /\ Settled(d, q, Idle)
  BY PrefixSets DEF Updating, Settled
<1>2. ASSUME NEW p, Follows(p, q), p.pc \in {"undo_first", "undo_new"}, NewPrefixes(q) # <<>>,
             p.pc = "undo_new" => p.todo = NewPrefixes(q)
      PROVE  Settled(d, q, p)
  <2>1. NewPrefixes(p) = NewPrefixes(q) /\ p.pc \notin AfterEffects \cup DefaultPhases
    BY <1>2, SamePrefixes DEF Follows, AfterEffects, DefaultPhases
  <2>2. UpdateSecured(d, p)
    BY <1>1, <1>2, <2>1, FollowsCarries DEF Updating, UpdateSecured, NewOnes, DefaultPhases
  <2> QED
    BY <1>2, <2>1, <2>2, UpdateSettles
<1>3. NewPrefixes(q) # <<>> => /\ Settled(d, q, At(q, "undo_first"))
                               /\ Settled(d, q, Loop(q, "undo_new", NewPrefixes(q)))
  BY <1>1, <1>2, Fields
<1> QED
  BY <1>1, <1>3 DEF ToUndoFirst, ToUndoNew

\* The addresses both versions list are served as the new one asks for, unless
\* its secret is another one.
LEMMA KeptServed ==
  ASSUME NEW d, NEW q, Kept(d, q.svc, q.old), ~SecretChanged(q) \/ KeptOnes(q) = {},
         \A a \in NewOnes(q) : Has(d, q.svc, a, q.new.ann),
         KeptOnes(q) = {} \/ q.old.ann.zone = q.new.ann.zone
  PROVE  Kept(d, q.svc, q.new)
<1> SUFFICES ASSUME NEW a \in SetOf(q.new.ann.addrs) PROVE Has(d, q.svc, a, q.new.ann)
  BY DEF Kept
<1>1. CASE a \in NewOnes(q)
  BY <1>1
<1>2. CASE a \notin NewOnes(q)
  <2>1. a \in KeptOnes(q) /\ a \in SetOf(q.old.ann.addrs)
    BY <1>2 DEF NewOnes, KeptOnes
  <2>2. Has(d, q.svc, a, q.old.ann)
    BY <2>1 DEF Kept
  <2> QED
    BY <2>1, <2>2 DEF Has, SecretChanged
<1> QED
  BY <1>1, <1>2

LEMMA ToRekeySettles ==
  ASSUME NEW d, NEW q, Updating(q), Kept(d, q.svc, q.old),
         \A a \in NewOnes(q) : Has(d, q.svc, a, q.new.ann),
         KeptOnes(q) = {} \/ q.old.ann.zone = q.new.ann.zone
  PROVE  Settled(d, q, ToRekey(q))
<1>1. /\ q \in AnyRequest /\ KeepPrefixes(q) \in Seq(Addrs)
      /\ SetOf(KeepPrefixes(q)) = KeptOnes(q) /\ Distinct(KeepPrefixes(q))
  BY PrefixSets DEF Updating
<1>2. CASE SecretChanged(q) /\ KeepPrefixes(q) # <<>>
  <2> DEFINE p == [Loop(q, "rekey", KeepPrefixes(q)) EXCEPT !.got = <<>>]
  <2>1. Follows(p, q) /\ p.pc = "rekey" /\ p.todo = KeepPrefixes(q) /\ p.got = <<>>
    BY <1>1 DEF AnyRequest, Loop, Follows, Same
  <2> HIDE DEF p
  <2>2. \A a \in SetOf(q.old.ann.addrs) : /\ a \in Prefix[q.old.ann.zone] /\ q.svc \in d[a].svcs
                                          /\ SecretsLast => d[a].secret = q.old.ann.secret
    BY DEF Kept, Has
  <2>3. KeptOnes(q) \subseteq SetOf(q.old.ann.addrs)
    BY DEF KeptOnes
  <2>4. /\ KeptOnes(p) = KeptOnes(q) /\ NewOnes(p) = NewOnes(q)
        /\ KeepPrefixes(p) = KeepPrefixes(q)
    BY <2>1, FollowsCarries DEF KeptOnes, NewOnes, KeepPrefixes, NewAddrs, OldAddrs
  <2>5. RekeySecured(d, p)
    BY <1>1, <1>2, <2>1, <2>2, <2>3, <2>4, FollowsCarries DEF RekeySecured, SecretChanged
  <2>6. p.pc \notin BeforeEffects \cup AfterEffects \cup DefaultPhases
    BY <2>1 DEF BeforeEffects, AfterEffects, DefaultPhases
  <2>7. UpdateSecured(d, p)
    BY <1>2, <2>1, <2>4, <2>5, <2>6, FollowsCarries DEF Updating, UpdateSecured
  <2>8. Settled(d, q, p)
    BY <2>1, <2>6, <2>7, UpdateSettles
  <2> QED
    BY <1>2, <2>8 DEF ToRekey, p
<1>3. CASE ~(SecretChanged(q) /\ KeepPrefixes(q) # <<>>)
  <2>1. KeepPrefixes(q) = <<>> => KeptOnes(q) = {}
    BY <1>1, NothingListed
  <2>2. Kept(d, q.svc, q.new)
    BY <1>3, <2>1, KeptServed
  <2> QED
    BY <1>3, <2>2, ToAfter DEF ToRekey
<1> QED
  BY <1>2, <1>3

LEMMA ToRegisterSettles ==
  ASSUME NEW d, NEW q, Updating(q), Kept(d, q.svc, q.old),
         KeptOnes(q) = {} \/ q.old.ann.zone = q.new.ann.zone
  PROVE  Settled(d, q, ToRegister(q))
<1>1. q \in AnyRequest /\ SetOf(NewPrefixes(q)) = NewOnes(q)
  BY PrefixSets DEF Updating
<1>2. CASE NewPrefixes(q) = <<>>
  <2>1. NewOnes(q) = {}
    BY <1>1, <1>2, NothingListed
  <2> QED
    BY <1>2, <2>1, ToRekeySettles DEF ToRegister
<1>3. CASE NewPrefixes(q) # <<>>
  <2> DEFINE p == Loop(q, "register", NewPrefixes(q))
  <2>1. Follows(p, q) /\ p.pc = "register" /\ p.todo = NewPrefixes(q)
    BY <1>1, Fields
  <2> HIDE DEF p
  <2>2. KeptOnes(p) = KeptOnes(q) /\ NewOnes(p) = NewOnes(q)
    BY <2>1, FollowsCarries DEF KeptOnes, NewOnes
  <2>3. p.pc \notin AfterEffects \cup DefaultPhases
    BY <2>1 DEF AfterEffects, DefaultPhases
  <2>4. UpdateSecured(d, p)
    BY <1>1, <2>1, <2>2, <2>3, FollowsCarries DEF Updating, UpdateSecured
  <2>5. Settled(d, q, p)
    BY <2>1, <2>3, <2>4, UpdateSettles
  <2> QED
    BY <1>3, <2>5 DEF ToRegister, p
<1> QED
  BY <1>2, <1>3

(* A delete has no new version. *)
LEMMA DeleteSettles ==
  ASSUME NEW d, NEW q, q.op = "delete", NEW p, Follows(p, q), p.pc # "idle", DeleteSecured(d, p)
  PROVE  Settled(d, q, p)
<1>1. Secured(d, p)
  BY FollowsCarries DEF Secured
<1> QED
  BY <1>1, FollowsCarries DEF Settled

----------------------------------------------------------------------------
(* ValidateCreate.  Each lemma about an action says that it keeps the invariant
   and takes no binding of a stored Service but its own. *)

LEMMA Handled ==
  ASSUME WInv, BInv, NEW r \in Slots, req[r].pc # "idle"
  PROVE  /\ Active(r) /\ Sound(req[r]) /\ Secured(ipam, req[r]) /\ req[r].answer = "awaited"
         /\ req[r].old = store[req[r].svc] /\ req[r] \in AnyRequest /\ req[r].svc \in Services
         /\ BindingsLast /\ Sane(ipam)
<1>1. Active(r)
  BY DEF Active
<1>2. Sound(req[r])
  BY <1>1 DEF WInv
<1> QED
  BY <1>1, <1>2, SoundTypes DEF BInv, Alone

LEMMA AtCreate ==
  ASSUME WInv, BInv, NEW r \in Slots, req[r].pc \in CreatePhases \ {"admitted"}
  PROVE  /\ Creating(req[r]) /\ CreateSecured(ipam, req[r])
         /\ req[r].new \in AnyService /\ req[r].new.ann \in AnyAnn
         /\ req[r].new.ann.addrs \in Seq(Addrs) /\ SetOf(req[r].new.ann.addrs) \subseteq Addrs
<1>1. req[r].pc # "idle"
  BY DEF CreatePhases
<1>2. Sound(req[r]) /\ Secured(ipam, req[r])
  BY <1>1, Handled
<1>3. req[r].op = "create" /\ req[r].new \in AnyService
  BY <1>2, CreateKnown, SoundTypes DEF CreateRequest
<1> QED
  BY <1>2, <1>3, AddrsKnown DEF Secured, CreateSecured, Creating

LEMMA StartCreateKeeps ==
  ASSUME WInv, BInv, NEW r \in Slots, StartCreate(r)
  PROVE  BInv' /\ GivenUpByOwner
<1> DEFINE q == req[r]
           p == Loop(q, "validate", Split(q.new.ann.addrs))
<1>1. q.pc = "create" /\ q.pc \in CreatePhases \ {"admitted"}
  BY DEF StartCreate, CreatePhases
<1>2. Creating(q) /\ q.new.ann.addrs \in Seq(Addrs) /\ q \in AnyRequest /\ Active(r)
  BY <1>1, AtCreate, Handled
<1>3. Follows(p, q) /\ p.pc = "validate" /\ SetOf(q.new.ann.addrs) \subseteq SetOf(p.todo)
  BY <1>2, Fields, SetOfSplit
<1>4. Continue(r, p) /\ UNCHANGED <<ipam, store>>
  BY <1>2 DEF StartCreate, Decide, Creating
<1> HIDE DEF p
<1>5. Settled(ipam, q, p)
  BY <1>2, <1>3, CreateSettles
<1> QED
  BY <1>2, <1>4, <1>5, QuietStep

LEMMA ValidateAddressKeeps ==
  ASSUME WInv, BInv, NEW r \in Slots, ValidateAddress(r)
  PROVE  BInv' /\ GivenUpByOwner
<1> DEFINE q == req[r]
           ann == q.new.ann
           done == [q EXCEPT !.got = Append(@, Head(q.todo))]
           after == Loop(q, "create_pool", <<>>)
<1>1. q.pc = "validate" /\ q.pc \in CreatePhases \ {"admitted"}
  BY DEF ValidateAddress, CreatePhases
<1>2. /\ Creating(q) /\ CreateSecured(ipam, q) /\ ann \in AnyAnn /\ SetOf(ann.addrs) \subseteq Addrs
      /\ q \in AnyRequest /\ Active(r) /\ Sane(ipam) /\ q.svc \in Services /\ q.todo \in Listed
  BY <1>1, AtCreate, Handled, SoundTypes
<1>3. /\ Sane(ipam') /\ SparesAll(ipam, ipam') /\ UNCHANGED store
      /\ \/ Continue(r, CreateRefused(q))
         \/ Continue(r, NextOf(done, after)) /\ Has(ipam', q.svc, Head(q.todo), ann)
  BY <1>2, UpdateAddressSpares DEF ValidateAddress
<1>4. Settled(ipam', q, CreateRefused(q))
  <2> DEFINE p == Loop(q, "rollback", q.got)
  <2>1. Follows(p, q) /\ p.pc = "rollback"
    BY <1>2, Fields
  <2> HIDE DEF p
  <2>2. Settled(ipam', q, p)
    BY <1>2, <2>1, CreateSettles
  <2> QED
    BY <1>2, <2>2, CreateDenied DEF CreateRefused, p
<1>5. \A a \in SetOf(ann.addrs) : a \in SetOf(q.todo) \/ Has(ipam', q.svc, a, ann)
  BY <1>1, <1>2, <1>3, SparedHas DEF CreateSecured, SparesAll
<1>6. ASSUME Has(ipam', q.svc, Head(q.todo), ann)
      PROVE  Settled(ipam', q, NextOf(done, after))
  <2>1. Follows(done, q) /\ done.pc = "validate" /\ done.todo = q.todo /\ Follows(after, q)
        /\ after.pc = "create_pool"
    BY <1>1, <1>2, Fields DEF AnyRequest, Follows, Same
  <2> HIDE DEF after
  <2>2. CASE Len(q.todo) > 1
    <3> DEFINE p == [done EXCEPT !.todo = Tail(@)]
    <3>1. Follows(p, q) /\ p.pc = "validate" /\ p.todo = Tail(q.todo)
      BY <1>1, <1>2 DEF AnyRequest, Follows, Same
    <3>2. SetOf(q.todo) \subseteq {Head(q.todo)} \cup SetOf(Tail(q.todo))
      BY <1>2, <2>2, SetOfTail DEF Listed
    <3> HIDE DEF p
    <3>3. Settled(ipam', q, p)
      BY <1>2, <1>5, <1>6, <3>1, <3>2, CreateSettles
    <3> QED
      BY <2>1, <2>2, <3>3 DEF NextOf, p
  <2>3. CASE ~(Len(q.todo) > 1)
    <3>1. SetOf(q.todo) \subseteq {Head(q.todo)}
      BY <1>2, <2>3, SetOfTail DEF Listed
    <3>2. Kept(ipam', q.svc, q.new)
      BY <1>5, <1>6, <3>1 DEF Kept
    <3>3. Settled(ipam', q, after)
      BY <1>2, <2>1, <3>2, CreateSettles
    <3> HIDE DEF done
    <3> QED
      BY <2>1, <2>3, <3>3 DEF NextOf
  <2> QED
    BY <2>2, <2>3
<1>7. CASE Continue(r, CreateRefused(q))
  BY <1>2, <1>3, <1>4, <1>7, SparingStep
<1>8. CASE Continue(r, NextOf(done, after)) /\ Has(ipam', q.svc, Head(q.todo), ann)
  BY <1>2, <1>3, <1>6, <1>8, SparingStep
<1> QED
  BY <1>3, <1>7, <1>8

\* A create that is denied may give back whatever it got.
LEMMA RollbackCreateKeeps ==
  ASSUME WInv, BInv, NEW r \in Slots, RollbackCreate(r)
  PROVE  BInv' /\ GivenUpByOwner
<1> DEFINE q == req[r]
           next == NextOf(q, Idle)
<1>1. q.pc = "rollback" /\ q.pc \in CreatePhases \ {"admitted"}
  BY DEF RollbackCreate, CreatePhases
<1>2. /\ Creating(q) /\ q.new.ann \in AnyAnn
      /\ q \in AnyRequest /\ Active(r) /\ Sane(ipam)
  BY <1>1, AtCreate, Handled
<1>3. /\ Sane(ipam') /\ UNCHANGED store /\ Continue(r, next)
      /\ \A t \in Services, b \in Addrs : t # q.svc => Spares(ipam, ipam', t, b)
  BY <1>2, RemoveAddressSpares DEF RollbackCreate
<1>4. Settled(ipam', q, next)
  <2> DEFINE p == [q EXCEPT !.todo = Tail(@)]
  <2>1. Follows(p, q) /\ p.pc = "rollback"
    BY <1>1, <1>2 DEF AnyRequest, Follows, Same
  <2> HIDE DEF p
  <2>2. Settled(ipam', q, p)
    BY <1>2, <2>1, CreateSettles
  <2> QED
    BY <1>2, <2>2, CreateDenied DEF NextOf, p
<1>5. SparesOthers(ipam, ipam', q.svc) /\ HoldsOn(ipam, ipam', q)
  BY <1>2, <1>3 DEF SparesOthers, HoldsOn, Creating
<1> HIDE DEF next
<1> QED
  BY <1>2, <1>3, <1>4, <1>5, OwnStep

LEMMA CreatePoolGetKeeps ==
  ASSUME WInv, BInv, NEW r \in Slots, CreatePoolGet(r)
  PROVE  BInv' /\ GivenUpByOwner
<1> DEFINE q == req[r]
           p == Loop(q, "create_pooling", <<>>)
<1>1. q.pc = "create_pool" /\ q.pc \in CreatePhases \ {"admitted"}
  BY DEF CreatePoolGet, CreatePhases
<1>2. Creating(q) /\ Kept(ipam, q.svc, q.new) /\ q \in AnyRequest /\ Active(r)
  BY <1>1, AtCreate, Handled DEF CreateSecured
<1>3. Follows(p, q) /\ p.pc = "create_pooling"
  BY <1>2, Fields
<1>4. Continue(r, p) /\ UNCHANGED <<ipam, store>>
  BY DEF CreatePoolGet, PoolUnchanged
<1> HIDE DEF p
<1>5. Settled(ipam, q, p)
  BY <1>2, <1>3, CreateSettles
<1> QED
  BY <1>2, <1>4, <1>5, QuietStep

----------------------------------------------------------------------------
(* Default.  It has bound only addresses that the stored version does not
   list: they were free.  The prefix it would give back is no address, and is
   not even sent. *)

Defaulting(d, q) ==
  /\ InDefault(q) /\ IsLB(q.new)
  /\ q.op = "create" => q.old = NoService
  /\ q.op = "update" => IsLB(q.old) /\ HasFamilies(q.old) /\ Kept(d, q.svc, q.old)
AsAnswered(q, got) == q.op = "update" => SetOf(got) \subseteq {AnsweredPrefix}

LEMMA AtDefault ==
  ASSUME WInv, BInv, NEW r \in Slots, req[r].pc \in DefaultPhases
  PROVE  /\ Active(r) /\ Sane(ipam) /\ Defaulting(ipam, req[r])
         /\ req[r].pc \in {"default", "request_v6", "undo_v4"} => AsAnswered(req[r], req[r].got)
         /\ req[r].op = "update" /\ req[r].pc = "undo_v4" => req[r].got # <<>>
<1> DEFINE q == req[r]
<1>1. q.pc # "idle" /\ q.pc \in BeforeEffects
  BY DEF DefaultPhases, BeforeEffects
<1>2. Active(r) /\ Sound(q) /\ Secured(ipam, q) /\ Sane(ipam)
  BY <1>1, Handled
<1>3. InDefault(q)
  BY <1>2, SoundTypes DEF InDefault, Sound, Phased, DefaultPhases, DeletePhases
<1>4. q.op = "create" => q.old = NoService /\ IsLB(q.new)
  BY <1>2 DEF Secured, CreateSecured
<1>5. q.op = "update" => UpdateSecured(ipam, q)
  BY <1>2 DEF Secured
<1> QED
  BY <1>1, <1>2, <1>3, <1>4, <1>5 DEF UpdateSecured, Defaulting, AsAnswered, InDefault

LEMMA DefaultSettles ==
  ASSUME NEW d, NEW q, Defaulting(d, q), NEW p, Carries(p, q), IsLB(p.new),
         p.pc \in DefaultPhases \cup {"create", "update"},
         p.pc \in {"default", "request_v6", "undo_v4"} => AsAnswered(q, p.got),
         p.pc = "undo_v4" => p.got # <<>>
  PROVE  Settled(d, q, p)
<1>1. /\ p.pc # "idle" /\ p.pc \notin AfterEffects
      /\ p.pc \notin {"validate", "create_pool", "create_pooling", "admitted"}
      /\ p.pc \notin {"register", "rekey", "revert", "undo_first", "undo_new", "release_old"}
  BY DEF DefaultPhases, AfterEffects
<1>2. CASE q.op = "create"
  <2>1. CreateSecured(d, p)
    BY <1>1, <1>2 DEF Defaulting, Carries, CreateSecured
  <2> QED
    BY <1>1, <1>2, <2>1 DEF Carries, Secured, Settled
<1>3. CASE q.op = "update"
  <2>1. UpdateSecured(d, p)
    BY <1>1, <1>3 DEF Defaulting, Carries, UpdateSecured, AsAnswered
  <2> QED
    BY <1>1, <1>3, <2>1 DEF Carries, Secured, Settled
<1> QED
  BY <1>2, <1>3 DEF Defaulting, InDefault

LEMMA DefaultDenied == ASSUME NEW d, NEW q, Defaulting(d, q) PROVE Settled(d, q, Idle)
  BY DEF Defaulting, InDefault, Settled

(* Where Default may go on, having brought the request up to date as x. *)
LEMMA DefaultGoesOn ==
  ASSUME NEW d, NEW q, Defaulting(d, q), NEW x \in AnyRequest, Carries(x, q), IsLB(x.new),
         AsAnswered(q, x.got)
  PROVE  /\ Settled(d, q, At(x, "request_v4")) /\ Settled(d, q, Defaulted(x))
         /\ Settled(d, q, AfterV4(x))
<1>1. ASSUME NEW pc \in {"request_v4", "request_v6"} PROVE Settled(d, q, At(x, pc))
  <2>1. Follows(At(x, pc), x) /\ At(x, pc).pc = pc /\ At(x, pc).got = x.got
    BY Fields
  <2>2. Carries(At(x, pc), q) /\ IsLB(At(x, pc).new)
    BY <2>1 DEF Follows, Same, Carries
  <2> QED
    BY <1>1, <2>1, <2>2, DefaultSettles DEF DefaultPhases
<1>2. Settled(d, q, Defaulted(x))
  <2>1. /\ Carries(Defaulted(x), q) /\ IsLB(Defaulted(x).new) /\ Defaulted(x).got = <<>>
        /\ Defaulted(x).pc = q.op
    BY DEF Defaulted, AnyRequest, Carries
  <2>2. q.op \in {"create", "update"}
    BY DEF Defaulting, InDefault
  <2>3. AsAnswered(q, <<>>)
    BY NothingListed DEF AsAnswered
  <2> QED
    BY <2>1, <2>2, <2>3, DefaultSettles
<1> QED
  BY <1>1, <1>2 DEF AfterV4

LEMMA DefaultKeeps ==
  ASSUME WInv, BInv, NEW r \in Slots, Default(r)
  PROVE  BInv' /\ GivenUpByOwner
<1> DEFINE q == req[r]
           x == AsLB(q)
<1>1. q.pc = "default" /\ q.pc \in DefaultPhases
  BY DEF Default, DefaultPhases
<1>2. Active(r) /\ Defaulting(ipam, q) /\ AsAnswered(q, q.got) /\ q \in AnyRequest
  BY <1>1, AtDefault DEF Defaulting, InDefault
<1>3. x \in AnyRequest /\ Carries(x, q) /\ IsLB(x.new) /\ x.got = q.got
  BY <1>2 DEF AsLB, Defaulting, InDefault, AnyRequest, AnyService, IsLB, Carries
<1>4. \/ Decide(r, Idle)
      \/ Decide(r, Allocate(x))
  BY <1>2 DEF Default, Defaulting
<1> HIDE DEF x
<1>5. Settled(ipam, q, Allocate(x)) /\ Settled(ipam, q, Idle)
  BY <1>2, <1>3, DefaultGoesOn, DefaultDenied DEF Allocate
<1>6. ASSUME NEW p, Decide(r, p), Settled(ipam, q, p) PROVE BInv' /\ GivenUpByOwner
  BY <1>2, <1>6, QuietStep DEF Decide
<1> QED
  BY <1>4, <1>5, <1>6

(* A free address that is bound is no address of the stored version. *)
LEMMA GetAddressSpares ==
  ASSUME WInv, Sane(ipam), NEW r \in Slots, InDefault(req[r]), NEW family, NEW failed,
         GetAddress(r, family, failed)
  PROVE  /\ Sane(ipam') /\ SparesAll(ipam, ipam') /\ UNCHANGED store
         /\ \/ Continue(r, failed)
            \/ \E a \in Addrs : /\ ipam[a].svcs = {}
                                /\ Continue(r, AfterFamily(WithAddress(req[r], a), family))
<1> DEFINE q == req[r]
           ann == q.new.ann
<1>1. ann.zone \in Zones /\ ann.secret \in Secrets /\ q.svc \in Services
  BY FamiliesKnown DEF AnyAnn, InDefault, AnyRequest
<1>2. FreeAddrs(ann.zone, family) \subseteq {a \in Addrs : ipam[a].svcs = {}}
  BY <1>1, IpamAssumption DEF FreeAddrs
<1>3. CASE Ask(r, FALSE, ipam, failed, failed)
  BY <1>3, NothingSpent DEF Ask
<1>4. ASSUME NEW a \in FreeAddrs(ann.zone, family),
             Ask(r, TRUE, Bound(a, ann.secret, q.svc), AfterFamily(WithAddress(q, a), family), failed)
      PROVE  /\ Sane(ipam') /\ SparesAll(ipam, ipam') /\ UNCHANGED store
             /\ Continue(r, failed) \/ Continue(r, AfterFamily(WithAddress(q, a), family))
  <2>1. ipam' \in {ipam, Bound(a, ann.secret, q.svc)}
    BY <1>4 DEF Ask
  <2>2. Sane(ipam') /\ SparesAll(ipam, ipam')
    BY <1>1, <1>2, <2>1, BindSpares
  <2> QED
    BY <1>4, <2>2 DEF Ask
<1> QED
  BY <1>2, <1>3, <1>4 DEF GetAddress

LEMMA GottenGoesOn ==
  ASSUME NEW d, NEW q, Defaulting(ipam, q), Defaulting(d, q), NEW a \in Addrs, ipam[a].svcs = {},
         NEW family
  PROVE  Settled(d, q, AfterFamily(WithAddress(q, a), family))
<1> DEFINE x == WithAddress(q, a)
<1>1. InDefault(x) /\ IsLB(x.new)
  BY WithAddressType DEF Defaulting
<1>2. Carries(x, q) /\ x.got = <<AnsweredPrefix>>
  BY DEF WithAddress, Defaulting, InDefault, AnyRequest, Carries
<1>3. SetOf(<<AnsweredPrefix>>) = {AnsweredPrefix}
  BY DEF SetOf
<1>4. AsAnswered(q, <<AnsweredPrefix>>)
  BY <1>3 DEF AsAnswered
<1>5. x \in AnyRequest
  BY <1>1 DEF InDefault
<1> HIDE DEF x
<1>6. Settled(d, q, AfterV4(x)) /\ Settled(d, q, Defaulted(x))
  BY <1>1, <1>2, <1>4, <1>5, DefaultGoesOn
<1> QED
  BY <1>6 DEF AfterFamily, x

LEMMA GetAddressKeeps ==
  ASSUME WInv, BInv, NEW r \in Slots, req[r].pc \in DefaultPhases, NEW family,
         NEW failed, GetAddress(r, family, failed),
         \A d : Defaulting(d, req[r]) => Settled(d, req[r], failed)
  PROVE  BInv' /\ GivenUpByOwner
<1> DEFINE q == req[r]
<1>1. Active(r) /\ Sane(ipam) /\ Defaulting(ipam, q) /\ InDefault(q)
  BY AtDefault DEF Defaulting
<1>2. /\ Sane(ipam') /\ SparesAll(ipam, ipam') /\ UNCHANGED store
      /\ \/ Continue(r, failed)
         \/ \E a \in Addrs : ipam[a].svcs = {} /\ Continue(r, AfterFamily(WithAddress(q, a), family))
  BY <1>1, GetAddressSpares
<1>3. Defaulting(ipam', q)
  <2>1. q.op = "update" => Kept(ipam', q.svc, q.old)
    BY <1>1, <1>2, SparedKept, AddrsKnown DEF Defaulting, InDefault, AnyRequest
  <2> QED
    BY <1>1, <2>1 DEF Defaulting
<1>4. CASE Continue(r, failed)
  BY <1>1, <1>2, <1>3, <1>4, SparingStep
<1>5. ASSUME NEW a \in Addrs, ipam[a].svcs = {}, Continue(r, AfterFamily(WithAddress(q, a), family))
      PROVE  BInv' /\ GivenUpByOwner
  <2>1. Settled(ipam', q, AfterFamily(WithAddress(q, a), family))
    BY <1>1, <1>3, <1>5, GottenGoesOn
  <2> QED
    BY <1>1, <1>2, <1>5, <2>1, SparingStep
<1> QED
  BY <1>2, <1>4, <1>5

LEMMA RequestV4Keeps ==
  ASSUME WInv, BInv, NEW r \in Slots, RequestV4(r)
  PROVE  BInv' /\ GivenUpByOwner
<1>1. req[r].pc \in DefaultPhases /\ GetAddress(r, "ipv4", Idle)
  BY DEF RequestV4, DefaultPhases
<1>2. \A d : Defaulting(d, req[r]) => Settled(d, req[r], Idle)
  BY DefaultDenied
<1> QED
  BY <1>1, <1>2, GetAddressKeeps

LEMMA RequestV6Keeps ==
  ASSUME WInv, BInv, NEW r \in Slots, RequestV6(r)
  PROVE  BInv' /\ GivenUpByOwner
<1> DEFINE q == req[r]
           failed == IF q.got = <<>> THEN Idle ELSE At(q, "undo_v4")
<1>1. q.pc = "request_v6" /\ q.pc \in DefaultPhases /\ GetAddress(r, "ipv6", failed)
  BY DEF RequestV6, DefaultPhases
<1>2. AsAnswered(q, q.got) /\ q \in AnyRequest
  BY <1>1, AtDefault DEF Defaulting, InDefault
<1>3. ASSUME NEW d, Defaulting(d, q) PROVE Settled(d, q, failed)
  <2>1. Follows(At(q, "undo_v4"), q) /\ At(q, "undo_v4").pc = "undo_v4" /\ At(q, "undo_v4").got = q.got
    BY <1>2, Fields
  <2>2. Carries(At(q, "undo_v4"), q) /\ IsLB(At(q, "undo_v4").new)
    BY <1>3, <2>1, FollowsCarries DEF Defaulting
  <2>3. q.got # <<>> => Settled(d, q, At(q, "undo_v4"))
    BY <1>2, <1>3, <2>1, <2>2, DefaultSettles DEF DefaultPhases
  <2> QED
    BY <1>3, <2>3, DefaultDenied
<1> HIDE DEF failed
<1> QED
  BY <1>1, <1>3, GetAddressKeeps

(* What Default would give back is no address: nothing is sent. *)
LEMMA UndoV4Keeps ==
  ASSUME WInv, BInv, NEW r \in Slots, UndoV4(r)
  PROVE  BInv' /\ GivenUpByOwner
<1> DEFINE q == req[r]
           a == q.got[1]
<1>1. q.pc = "undo_v4" /\ q.pc \in DefaultPhases
  BY DEF UndoV4, DefaultPhases
<1>2. /\ Active(r) /\ Sane(ipam) /\ Defaulting(ipam, q) /\ InDefault(q) /\ q.new.ann \in AnyAnn
      /\ AsAnswered(q, q.got) /\ (q.op = "update" => q.got # <<>>)
  BY <1>1, AtDefault, FamiliesKnown DEF Defaulting
<1>3. /\ Sane(ipam') /\ UNCHANGED store /\ Continue(r, Idle)
      /\ \A t \in Services, b \in Addrs : t # q.svc \/ b # a => Spares(ipam, ipam', t, b)
  BY <1>2, RemoveAddressSpares DEF UndoV4
<1>4. q.op = "update" => a \notin SetOf(q.old.ann.addrs)
  <2>1. q.got \in Listed
    BY <1>2 DEF InDefault, AnyRequest, Listed
  <2>2. q.op = "update" => a = AnsweredPrefix
    BY <1>2, <2>1, Looped DEF Listed, AsAnswered
  <2> QED
    BY <1>2, <2>2, AddrsKnown, NoAddrAssumption DEF Defaulting, InDefault, AnyRequest
<1>5. q.op = "update" => /\ q.svc \in Services /\ SetOf(q.old.ann.addrs) \subseteq Addrs
                         /\ Kept(ipam, q.svc, q.old)
  BY <1>2, AddrsKnown DEF Defaulting, InDefault, AnyRequest
<1> HIDE DEF a
<1>6. Settled(ipam', q, Idle)
  <2>1. q.op = "update" => Kept(ipam', q.svc, q.old)
    BY <1>3, <1>4, <1>5, SparedHas DEF Kept
  <2> QED
    BY <1>2, <2>1 DEF InDefault, Settled
<1>7. SparesOthers(ipam, ipam', q.svc) /\ HoldsOn(ipam, ipam', q)
  BY <1>3, <1>4, <1>5 DEF SparesOthers, HoldsOn, Spares, KeptOnes
<1> QED
  BY <1>2, <1>3, <1>6, <1>7, OwnStep

----------------------------------------------------------------------------
(* ValidateUpdate. *)

LEMMA AtUpdate ==
  ASSUME WInv, BInv, NEW r \in Slots, req[r].pc \in UpdatePhases \ {"admitted"}
  PROVE  /\ Active(r) /\ Sane(ipam) /\ BindingsLast /\ req[r] \in AnyRequest
         /\ Updating(req[r]) /\ UpdateSecured(ipam, req[r])
         /\ req[r].svc \in Services /\ req[r].op \in Ops /\ req[r].todo \in Listed
         /\ req[r].old.ann \in AnyAnn /\ SetOf(req[r].old.ann.addrs) \subseteq Addrs
         /\ req[r].new.ann \in AnyAnn /\ SetOf(req[r].new.ann.addrs) \subseteq Addrs
<1> DEFINE q == req[r]
<1>1. q.pc # "idle" /\ q.pc \notin DefaultPhases
  BY DEF UpdatePhases, DefaultPhases
<1>2. /\ Sound(q) /\ Secured(ipam, q) /\ Active(r) /\ Sane(ipam) /\ BindingsLast
  BY <1>1, Handled
<1>3. q.op = "update"
  BY <1>2, UpdateKnown DEF UpdateRequest
<1>4. UpdateSecured(ipam, q)
  BY <1>2, <1>3 DEF Secured
<1>5. HasFamilies(q.new)
  BY <1>1, <1>2 DEF Sound, Progress
<1>6. q \in AnyRequest /\ q.svc \in Services /\ q.op \in Ops /\ q.todo \in Listed
      /\ q.old \in AnyService /\ q.new \in AnyService
  BY <1>2, <1>3, SoundTypes
<1>7. Updating(q)
  BY <1>3, <1>4, <1>5, <1>6 DEF UpdateSecured, Updating
<1> QED
  BY <1>2, <1>4, <1>6, <1>7, AddrsKnown

LEMMA StartUpdateKeeps ==
  ASSUME WInv, BInv, NEW r \in Slots, StartUpdate(r)
  PROVE  BInv' /\ GivenUpByOwner
<1> DEFINE q == req[r]
<1>1. q.pc = "update" /\ q.pc \in UpdatePhases \ {"admitted"}
  BY DEF StartUpdate, UpdatePhases
<1>2. Updating(q) /\ Kept(ipam, q.svc, q.old) /\ Active(r)
  BY <1>1, AtUpdate DEF UpdateSecured, BeforeEffects
<1>3. NothingToDo(q) => Settled(ipam, q, Admit(q))
  <2>1. NothingToDo(q) => Kept(ipam, q.svc, q.new)
    BY <1>2 DEF NothingToDo, Updating, Kept
  <2> QED
    BY <1>2, <2>1, ToAfter
<1>4. ~ZoneRefused(q) => KeptOnes(q) = {} \/ q.old.ann.zone = q.new.ann.zone
  <2>1. SetOf(KeepPrefixes(q)) = KeptOnes(q)
    BY <1>2, PrefixSets DEF Updating
  <2> QED
    BY <2>1, NothingListed DEF ZoneRefused
<1>5. Settled(ipam, q, ToUndoFirst(q)) /\ (~ZoneRefused(q) => Settled(ipam, q, ToRegister(q)))
  BY <1>2, <1>4, ToUndo, ToRegisterSettles
<1>6. ASSUME NEW p, Decide(r, p), Settled(ipam, q, p) PROVE BInv' /\ GivenUpByOwner
  BY <1>2, <1>6, QuietStep DEF Decide
<1> QED
  BY <1>3, <1>5, <1>6 DEF StartUpdate

LEMMA ValidateNewKeeps ==
  ASSUME WInv, BInv, NEW r \in Slots, ValidateNew(r)
  PROVE  BInv' /\ GivenUpByOwner
<1> DEFINE q == req[r]
           ann == q.new.ann
<1>1. q.pc = "register" /\ q.pc \in UpdatePhases \ {"admitted"} /\ q.pc \in BeforeEffects
  BY DEF ValidateNew, UpdatePhases, BeforeEffects
<1>2. /\ Active(r) /\ Sane(ipam) /\ Updating(q) /\ UpdateSecured(ipam, q) /\ q \in AnyRequest
      /\ ann \in AnyAnn /\ q.svc \in Services /\ q.todo \in Listed
      /\ SetOf(ann.addrs) \subseteq Addrs /\ SetOf(q.old.ann.addrs) \subseteq Addrs
  BY <1>1, AtUpdate
<1>3. /\ Sane(ipam') /\ SparesAll(ipam, ipam') /\ UNCHANGED store
      /\ \/ Continue(r, ToUndoFirst(q))
         \/ Continue(r, NextOf(q, ToRekey(q))) /\ Has(ipam', q.svc, Head(q.todo), ann)
  BY <1>2, UpdateAddressSpares DEF ValidateNew
<1>4. /\ Kept(ipam', q.svc, q.old) /\ (KeptOnes(q) = {} \/ q.old.ann.zone = ann.zone)
      /\ \A a \in NewOnes(q) : a \in SetOf(q.todo) \/ Has(ipam', q.svc, a, ann)
  <2>1. Kept(ipam', q.svc, q.old)
    BY <1>1, <1>2, <1>3, SparedKept DEF UpdateSecured
  <2>2. \A a \in NewOnes(q) : a \in SetOf(q.todo) \/ Has(ipam', q.svc, a, ann)
    BY <1>1, <1>2, <1>3, SparedHas DEF UpdateSecured, SparesAll, NewOnes
  <2> QED
    BY <1>1, <1>2, <2>1, <2>2 DEF UpdateSecured
<1>5. CASE Continue(r, ToUndoFirst(q))
  BY <1>2, <1>3, <1>4, <1>5, ToUndo, SparingStep
<1>6. CASE Continue(r, NextOf(q, ToRekey(q))) /\ Has(ipam', q.svc, Head(q.todo), ann)
  <2>1. CASE Len(q.todo) > 1
    <3> DEFINE p == [q EXCEPT !.todo = Tail(@)]
    <3>1. Follows(p, q) /\ p.pc = "register" /\ p.todo = Tail(q.todo)
      BY <1>1, <1>2 DEF AnyRequest, Follows, Same
    <3>2. SetOf(q.todo) \subseteq {Head(q.todo)} \cup SetOf(Tail(q.todo))
      BY <1>2, <2>1, SetOfTail DEF Listed
    <3>3. NextOf(q, ToRekey(q)) = p
      BY <2>1 DEF NextOf
    <3> HIDE DEF p
    <3>4. KeptOnes(p) = KeptOnes(q) /\ NewOnes(p) = NewOnes(q)
      BY <3>1, FollowsCarries DEF KeptOnes, NewOnes
    <3>5. p.pc \notin AfterEffects \cup DefaultPhases
      BY <3>1 DEF AfterEffects, DefaultPhases
    <3>6. UpdateSecured(ipam', p)
      BY <1>2, <1>4, <1>6, <3>1, <3>2, <3>4, <3>5, FollowsCarries DEF Updating, UpdateSecured
    <3>7. Settled(ipam', q, p)
      BY <1>2, <3>1, <3>5, <3>6, UpdateSettles
    <3> QED
      BY <1>2, <1>3, <1>6, <3>3, <3>7, SparingStep
  <2>2. CASE ~(Len(q.todo) > 1)
    <3>1. SetOf(q.todo) \subseteq {Head(q.todo)}
      BY <1>2, <2>2, SetOfTail DEF Listed
    <3>2. \A a \in NewOnes(q) : Has(ipam', q.svc, a, ann)
      BY <1>4, <1>6, <3>1
    <3>3. Settled(ipam', q, ToRekey(q)) /\ NextOf(q, ToRekey(q)) = ToRekey(q)
      BY <1>2, <1>4, <2>2, <3>2, ToRekeySettles DEF NextOf
    <3> QED
      BY <1>2, <1>3, <1>6, <3>3, SparingStep
  <2> QED
    BY <2>1, <2>2
<1> QED
  BY <1>3, <1>5, <1>6

(* An address is released that the version to be kept does not list. *)
LEMMA ReleaseKeeps ==
  ASSUME WInv, BInv, NEW r \in Slots, req[r].pc \in UpdatePhases \ {"admitted"},
         NEW a, NEW ann \in AnyAnn, NEW next, RemoveAddress(r, a, ann, next),
         NEW svc \in {req[r].old, req[r].new}, a \notin SetOf(svc.ann.addrs),
         Kept(ipam, req[r].svc, svc),
         \A d : Kept(d, req[r].svc, svc) => Settled(d, req[r], next)
  PROVE  BInv' /\ GivenUpByOwner
<1> DEFINE q == req[r]
<1>1. /\ Active(r) /\ Sane(ipam) /\ q.svc \in Services
      /\ SetOf(svc.ann.addrs) \subseteq Addrs /\ KeptOnes(q) \subseteq SetOf(svc.ann.addrs)
  BY AtUpdate DEF KeptOnes
<1>2. /\ Sane(ipam') /\ UNCHANGED store /\ Continue(r, next)
      /\ \A t \in Services, b \in Addrs : t # q.svc \/ b # a => Spares(ipam, ipam', t, b)
  BY <1>1, RemoveAddressSpares
<1>3. Kept(ipam', q.svc, svc)
  BY <1>1, <1>2, SparedHas DEF Kept
<1>4. SparesOthers(ipam, ipam', q.svc) /\ HoldsOn(ipam, ipam', q)
  BY <1>1, <1>2 DEF SparesOthers, HoldsOn, Spares
<1> QED
  BY <1>1, <1>2, <1>3, <1>4, OwnStep

LEMMA UndoFirstKeeps ==
  ASSUME WInv, BInv, NEW r \in Slots, UndoFirst(r)
  PROVE  BInv' /\ GivenUpByOwner
<1> DEFINE q == req[r]
           a == NewPrefixes(q)[1]
<1>1. /\ q.pc = "undo_first" /\ q.pc \in UpdatePhases \ {"admitted"} /\ q.pc \in BeforeEffects
      /\ RemoveAddress(r, a, q.new.ann, Idle)
  BY DEF UndoFirst, UpdatePhases, BeforeEffects
<1>2. /\ Updating(q) /\ Kept(ipam, q.svc, q.old) /\ NewPrefixes(q) # <<>> /\ q.new.ann \in AnyAnn
  BY <1>1, AtUpdate DEF UpdateSecured
<1>3. a \in NewOnes(q)
  BY <1>2, PrefixSets, Looped DEF Updating
<1>4. a \notin SetOf(q.old.ann.addrs)
  BY <1>3 DEF NewOnes
<1>5. \A d : Kept(d, q.svc, q.old) => Settled(d, q, Idle)
  BY <1>2, ToUndo
<1> HIDE DEF a
<1> QED
  BY <1>1, <1>2, <1>4, <1>5, ReleaseKeeps

LEMMA UndoNewKeeps ==
  ASSUME WInv, BInv, NEW r \in Slots, UndoNew(r)
  PROVE  BInv' /\ GivenUpByOwner
<1> DEFINE q == req[r]
           next == NextOf(q, Idle)
<1>1. /\ q.pc = "undo_new" /\ q.pc \in UpdatePhases \ {"admitted"} /\ q.pc \in BeforeEffects
      /\ RemoveAddress(r, Head(q.todo), q.new.ann, next)
  BY DEF UndoNew, UpdatePhases, BeforeEffects
<1>2. /\ Updating(q) /\ UpdateSecured(ipam, q) /\ q \in AnyRequest /\ Kept(ipam, q.svc, q.old)
      /\ q.todo # <<>> /\ q.todo \in Listed /\ q.new.ann \in AnyAnn
      /\ SetOf(q.todo) \cap SetOf(q.old.ann.addrs) = {}
  BY <1>1, AtUpdate DEF UpdateSecured
<1>3. Head(q.todo) \notin SetOf(q.old.ann.addrs)
  BY <1>2, Looped DEF Listed
<1>4. ASSUME NEW d, Kept(d, q.svc, q.old) PROVE Settled(d, q, next)
  <2> DEFINE p == [q EXCEPT !.todo = Tail(@)]
  <2>1. Follows(p, q) /\ p.pc = "undo_new" /\ p.todo = Tail(q.todo)
    BY <1>1, <1>2 DEF AnyRequest, Follows, Same
  <2> HIDE DEF p
  <2>2. p.pc \notin AfterEffects \cup DefaultPhases
    BY <2>1 DEF AfterEffects, DefaultPhases
  <2>3. Len(q.todo) > 1 => /\ SetOf(p.todo) \cap SetOf(q.old.ann.addrs) = {} /\ p.todo # <<>>
    BY <1>2, <2>1, Looped DEF Listed
  <2>4. Len(q.todo) > 1 => UpdateSecured(d, p)
    BY <1>2, <1>4, <2>1, <2>2, <2>3, FollowsCarries DEF Updating, UpdateSecured
  <2>5. Len(q.todo) > 1 => Settled(d, q, p)
    BY <1>2, <2>1, <2>2, <2>4, UpdateSettles
  <2>6. Settled(d, q, Idle)
    BY <1>2, <1>4, ToUndo
  <2> QED
    BY <2>5, <2>6 DEF NextOf, p
<1> HIDE DEF next
<1> QED
  BY <1>1, <1>2, <1>3, <1>4, ReleaseKeeps

LEMMA ReleaseOldKeeps ==
  ASSUME WInv, BInv, NEW r \in Slots, ReleaseOld(r)
  PROVE  BInv' /\ GivenUpByOwner
<1> DEFINE q == req[r]
           next == NextOf(q, ToPoolAdd(q))
<1>1. /\ q.pc = "release_old" /\ q.pc \in UpdatePhases \ {"admitted"} /\ q.pc \in AfterEffects
      /\ RemoveAddress(r, Head(q.todo), q.old.ann, next)
  BY DEF ReleaseOld, UpdatePhases, AfterEffects
<1>2. /\ Updating(q) /\ q \in AnyRequest /\ Kept(ipam, q.svc, q.new)
      /\ q.todo # <<>> /\ q.todo \in Listed /\ q.old.ann \in AnyAnn
      /\ SetOf(q.todo) \cap SetOf(q.new.ann.addrs) = {}
  BY <1>1, AtUpdate DEF UpdateSecured
<1>3. Head(q.todo) \notin SetOf(q.new.ann.addrs)
  BY <1>2, Looped DEF Listed
<1>4. ASSUME NEW d, Kept(d, q.svc, q.new) PROVE Settled(d, q, next)
  <2> DEFINE p == [q EXCEPT !.todo = Tail(@)]
  <2>1. Follows(p, q) /\ p.pc = "release_old" /\ p.todo = Tail(q.todo)
    BY <1>1, <1>2 DEF AnyRequest, Follows, Same
  <2> HIDE DEF p
  <2>2. Len(q.todo) > 1 => /\ SetOf(p.todo) \cap SetOf(q.new.ann.addrs) = {} /\ p.todo # <<>>
    BY <1>2, <2>1, Looped DEF Listed
  <2>3. Len(q.todo) > 1 => Settled(d, q, p)
    BY <1>1, <1>2, <1>4, <2>1, <2>2, AfterSettles
  <2>4. Settled(d, q, ToPoolAdd(q))
    BY <1>2, <1>4, ToAfter
  <2> QED
    BY <2>3, <2>4 DEF NextOf, p
<1> HIDE DEF next
<1> QED
  BY <1>1, <1>2, <1>3, <1>4, ReleaseKeeps

(* A change of secret takes no binding away, and of the secrets that matter it
   changes those of this Service's addresses only. *)
LEMMA RekeyKeeps ==
  ASSUME WInv, BInv, NEW r \in Slots, req[r].pc \in {"rekey", "revert"},
         NEW a, NEW ann \in AnyAnn, NEW from \in Secrets, NEW to \in Secrets,
         NEW granted, NEW failed, UpdateSecret(r, a, ann, from, to, granted, failed),
         NEW p, Continue(r, p), Settled(ipam', req[r], p), ~SecretsLast \/ OneService
  PROVE  BInv' /\ GivenUpByOwner
<1> DEFINE q == req[r]
<1>1. q.pc \in UpdatePhases \ {"admitted"}
  BY DEF UpdatePhases
<1>2. Active(r) /\ Sane(ipam) /\ q.svc \in Services /\ SetOf(q.old.ann.addrs) \subseteq Addrs
  BY <1>1, AtUpdate
<1>3. /\ Sane(ipam') /\ UNCHANGED store
      /\ \A t \in Services, b \in Addrs : ~SecretsLast => Spares(ipam, ipam', t, b)
      /\ \A b \in Addrs : ipam'[b].svcs = ipam[b].svcs
  BY <1>2, UpdateSecretSpares
<1>4. SparesOthers(ipam, ipam', q.svc)
  BY <1>2, <1>3 DEF SparesOthers, OneService
<1>5. HoldsOn(ipam, ipam', q)
  BY <1>2, <1>3 DEF HoldsOn, KeptOnes
<1> QED
  BY <1>2, <1>3, <1>4, <1>5, OwnStep

\* Once the first address has its new secret, the second is refused by a fault
\* only.
LEMMA SecondRekeys ==
  ASSUME WInv, BInv, NEW r \in Slots, req[r].pc = "rekey", SecretsLast, req[r].got # <<>>
  PROVE  LET q == req[r] IN
         /\ Sendable(Head(q.todo), q.new.ann)
         /\ CanRekey(Head(q.todo), q.new.ann.zone, q.old.ann.secret)
         /\ Len(q.got) = 1 /\ FirstRekeyed(ipam, q)
<1> DEFINE q == req[r]
           a == Head(q.todo)
<1>1. q.pc \in UpdatePhases \ {"admitted"}
  BY DEF UpdatePhases
<1>2. /\ UpdateSecured(ipam, q) /\ q.todo \in Listed /\ SetOf(q.old.ann.addrs) \subseteq Addrs
  BY <1>1, AtUpdate
<1>3. RekeySecured(ipam, q) /\ q.todo # <<>> /\ (KeptOnes(q) = {} \/ q.old.ann.zone = q.new.ann.zone)
  BY <1>2 DEF UpdateSecured
<1>4. a \in SetOf(q.todo)
  BY <1>2, <1>3, Looped DEF Listed
<1>5. a \in KeptOnes(q) /\ ipam[a].secret = q.old.ann.secret
  BY <1>3, <1>4 DEF RekeySecured
<1>6. a \in Addrs /\ a \in Prefix[q.new.ann.zone]
  BY <1>2, <1>3, <1>5 DEF RekeySecured, KeptOnes
<1>7. q.new.ann.valid /\ Len(q.got) = 1 /\ FirstRekeyed(ipam, q)
  BY <1>3 DEF RekeySecured
<1> HIDE DEF a
<1>8. Sendable(a, q.new.ann) /\ CanRekey(a, q.new.ann.zone, q.old.ann.secret)
  BY <1>5, <1>6, <1>7, NoAddrAssumption DEF Sendable, CanRekey, InZone
<1> QED
  BY <1>7, <1>8 DEF a

LEMMA ChangeSecretKeeps ==
  ASSUME WInv, BInv, NEW r \in Slots, ChangeSecret(r)
  PROVE  BInv' /\ GivenUpByOwner
<1> DEFINE q == req[r]
           a == Head(q.todo)
           ann == q.new.ann
           done == [q EXCEPT !.got = Append(@, Head(q.todo))]
           granted == NextOf(done, ToReleaseOld(q))
           failed == IF Len(q.got) = 1 THEN At(q, "revert") ELSE ToUndoNew(q)
<1>1. /\ q.pc = "rekey" /\ q.pc \in UpdatePhases \ {"admitted"}
      /\ UpdateSecret(r, a, ann, q.old.ann.secret, ann.secret, granted, failed)
  BY DEF ChangeSecret, UpdatePhases
<1>2. /\ Active(r) /\ Sane(ipam) /\ BindingsLast /\ q \in AnyRequest /\ Updating(q)
      /\ UpdateSecured(ipam, q) /\ q.op \in Ops /\ q.todo \in Listed /\ q.svc \in Services
      /\ ann \in AnyAnn /\ q.old.ann \in AnyAnn /\ SetOf(q.old.ann.addrs) \subseteq Addrs
      /\ SetOf(ann.addrs) \subseteq Addrs
  BY <1>1, AtUpdate
<1>3. q.old.ann.secret \in Secrets /\ ann.secret \in Secrets
  BY <1>2 DEF AnyAnn
<1>4. RekeySecured(ipam, q) /\ q.todo # <<>> /\ (KeptOnes(q) = {} \/ q.old.ann.zone = ann.zone)
  BY <1>1, <1>2 DEF UpdateSecured
<1>5. a \in SetOf(q.todo) /\ a \in KeptOnes(q) /\ a \in Addrs /\ q.old.ann.zone = ann.zone
      /\ a \in SetOf(q.old.ann.addrs)
  <2>1. a \in SetOf(q.todo)
    BY <1>2, <1>4, Looped DEF Listed
  <2>2. a \in KeptOnes(q)
    BY <1>4, <2>1 DEF RekeySecured
  <2> QED
    BY <1>2, <1>4, <2>1, <2>2 DEF KeptOnes
<1>6. SecretsLast => OneService /\ FewFaults
  BY <1>2, <1>3, <1>4 DEF SecretsLast, OneSecret, RekeySecured, SecretChanged, Updating
<1>7. /\ \A b \in Addrs : ipam'[b].svcs = ipam[b].svcs /\ (b # a => ipam'[b] = ipam[b])
      /\ \/ /\ Continue(r, failed)
            /\ FewFaults => ipam' = ipam
            /\ ~(Sendable(a, ann) /\ CanRekey(a, ann.zone, q.old.ann.secret)) \/ faults < MaxFaults
         \/ Continue(r, granted) /\ ipam'[a].secret = ann.secret /\ ann.valid
  <2> HIDE DEF a, granted, failed
  <2>1. PICK b, x, from, to, g, f : /\ b = a /\ x = ann /\ from = q.old.ann.secret /\ to = ann.secret
                                    /\ g = granted /\ f = failed
    OBVIOUS
  <2>2. UpdateSecret(r, b, x, from, to, g, f)
    BY <1>1, <2>1
  <2>3. /\ \A c \in Addrs : ipam'[c].svcs = ipam[c].svcs /\ (c # b => ipam'[c] = ipam[c])
        /\ \/ /\ Continue(r, f)
              /\ FewFaults => ipam' = ipam
              /\ ~(Sendable(b, x) /\ CanRekey(b, x.zone, from)) \/ faults < MaxFaults
           \/ Continue(r, g) /\ ipam'[b].secret = to /\ x.valid
    <3>1. x \in AnyAnn /\ from \in Secrets /\ to \in Secrets /\ Sane(ipam)
      BY <1>2, <1>3, <2>1
    <3>2. /\ \A c \in Addrs : ipam'[c].svcs = ipam[c].svcs /\ (c # b => ipam'[c] = ipam[c])
          /\ \/ /\ Continue(r, f)
                /\ FewFaults => ipam' = ipam
                /\ \/ ~(Sendable(b, x) /\ CanRekey(b, x.zone, from))
                   \/ faults < MaxFaults /\ faults' = faults + 1
             \/ Continue(r, g) /\ b \in Addrs /\ ipam'[b].secret = to /\ x.valid
      BY <2>2, <3>1, UpdateSecretSpares
    <3> QED
      BY <3>2, Zenon
  <2> QED
    BY <2>1, <2>3
<1> HIDE DEF a, granted, failed
<1>8. /\ \A b \in SetOf(q.old.ann.addrs) : b \in Prefix[q.old.ann.zone] /\ q.svc \in ipam'[b].svcs
      /\ \A b \in NewOnes(q) : Has(ipam', q.svc, b, ann)
  <2>1. \A b \in NewOnes(q) : ipam'[b] = ipam[b]
    BY <1>2, <1>5, <1>7 DEF NewOnes, KeptOnes
  <2> QED
    BY <1>2, <1>4, <1>7, <2>1 DEF RekeySecured, Has
<1>9. ASSUME ~SecretsLast PROVE Settled(ipam', q, failed)
  <2>1. Kept(ipam', q.svc, q.old)
    BY <1>8, <1>9 DEF Kept, Has
  <2> DEFINE p == At(q, "revert")
  <2>2. Follows(p, q) /\ p.pc = "revert"
    BY <1>2, Fields
  <2> HIDE DEF p
  <2>3. p.pc \notin AfterEffects \cup DefaultPhases
    BY <2>2 DEF AfterEffects, DefaultPhases
  <2>4. UpdateSecured(ipam', p)
    BY <1>2, <1>9, <2>1, <2>2, <2>3, FollowsCarries DEF Updating, UpdateSecured
  <2>5. Settled(ipam', q, p) /\ Settled(ipam', q, ToUndoNew(q))
    BY <1>2, <2>1, <2>2, <2>3, <2>4, UpdateSettles, ToUndo
  <2> QED
    BY <2>5 DEF failed, p
<1>10. ASSUME SecretsLast, ipam' = ipam,
              ~(Sendable(a, ann) /\ CanRekey(a, ann.zone, q.old.ann.secret)) \/ faults < MaxFaults
       PROVE  Settled(ipam', q, failed)
  <2>1. CASE q.got = <<>> /\ Kept(ipam, q.svc, q.old)
    <3>1. Len(q.got) # 1
      BY <2>1
    <3> QED
      BY <1>2, <1>10, <2>1, <3>1, ToUndo DEF failed
  <2>2. CASE q.got # <<>>
    <3>1. FirstRekeyed(ipam, q)
      BY <1>1, <1>10, <2>2, SecondRekeys
    <3>2. Len(q.got) = 1 /\ faults < MaxFaults
      BY <1>1, <1>10, <2>2, SecondRekeys DEF a
    <3>3. OneFault
      BY <1>6, <1>10, <3>2 DEF FewFaults, WInv, WebhookTypeOK
    <3> DEFINE p == At(q, "revert")
    <3>4. Follows(p, q) /\ p.pc = "revert"
      BY <1>2, Fields
    <3> HIDE DEF p
    <3>5. p.pc \notin BeforeEffects \cup AfterEffects \cup DefaultPhases
      BY <3>4 DEF BeforeEffects, AfterEffects, DefaultPhases
    <3>6. FirstRekeyed(ipam', p)
      BY <1>10, <3>1, <3>4, FollowsCarries
         DEF FirstRekeyed, SecretChanged, KeepPrefixes, NewAddrs, OldAddrs
    <3>7. UpdateSecured(ipam', p)
      BY <1>2, <1>10, <3>3, <3>4, <3>5, <3>6, FollowsCarries DEF Updating, UpdateSecured
    <3>8. Settled(ipam', q, p)
      BY <1>2, <3>4, <3>5, <3>7, UpdateSettles
    <3> QED
      BY <3>2, <3>8 DEF failed, p
  <2> QED
    BY <1>4, <1>10, <2>1, <2>2 DEF RekeySecured
<1>11. ASSUME ipam'[a].secret = ann.secret, ann.valid
       PROVE  Settled(ipam', q, granted)
  <2>1. CASE Len(q.todo) > 1
    <3> DEFINE p == [done EXCEPT !.todo = Tail(@)]
    <3>1. Follows(p, q) /\ p.pc = "rekey" /\ p.todo = Tail(q.todo)
      BY <1>1, <1>2 DEF AnyRequest, Follows, Same
    <3>2. granted = p
      BY <1>2, <2>1 DEF granted, NextOf, AnyRequest
    <3>10. p.got = Append(q.got, a)
      BY <1>2 DEF AnyRequest, a
    <3> HIDE DEF p, done
    <3>3. /\ SetOf(q.todo) = {a} \cup SetOf(p.todo) /\ Distinct(p.todo) /\ a \notin SetOf(p.todo)
          /\ p.todo # <<>>
      BY <1>2, <1>4, <2>1, <3>1, Looped DEF Listed, RekeySecured, a
    <3>4. KeptOnes(p) = KeptOnes(q) /\ NewOnes(p) = NewOnes(q)
      BY <3>1, FollowsCarries DEF KeptOnes, NewOnes
    <3>5. SecretsLast => /\ \A b \in SetOf(p.todo) : ipam'[b].secret = q.old.ann.secret
                         /\ \A b \in KeptOnes(q) : b \in SetOf(p.todo) \/ ipam'[b].secret = ann.secret
      <4>1. KeptOnes(q) \subseteq Addrs /\ SetOf(p.todo) \subseteq KeptOnes(q)
        BY <1>2, <1>4, <3>3 DEF KeptOnes, RekeySecured
      <4> QED
        BY <1>4, <1>7, <1>11, <3>3, <4>1 DEF RekeySecured
    <3>6. KeepPrefixes(p) = KeepPrefixes(q)
      BY <3>1, FollowsCarries DEF KeepPrefixes, NewAddrs, OldAddrs
    <3>9. ASSUME SecretsLast PROVE Len(p.got) = 1 /\ Len(p.todo) = 1 /\ FirstRekeyed(ipam', p)
      <4>1. Len(q.todo) # 1
        <5>1. \A n \in Nat : n > 1 => n # 1
          OBVIOUS
        <5>2. Len(q.todo) \in Nat
          BY <1>2 DEF Listed
        <5> QED
          BY <2>1, <5>1, <5>2
      <4>2. q.got = <<>> /\ q.todo = KeepPrefixes(q) /\ Kept(ipam, q.svc, q.old)
        BY <1>4, <3>9, <4>1 DEF RekeySecured
      <4>3. q.todo \in Seq(Addrs) /\ a = KeepPrefixes(q)[1]
        BY <1>2, <4>2, PrefixSets DEF Updating, a
      <4>4. SetOf(q.todo) \subseteq SetOf(q.old.ann.addrs)
        BY <1>4 DEF RekeySecured, KeptOnes
      <4>5. Len(q.todo) <= 2
        BY <1>2, <1>4, <4>3, <4>4, AtMostTwo DEF Updating, RekeySecured
      <4>6. Len(p.todo) = 1
        <5>1. Len(q.todo) \in Nat /\ Len(Tail(q.todo)) = Len(q.todo) - 1
          BY <1>4, <4>3
        <5>2. \A n \in Nat : n > 1 /\ n <= 2 => n - 1 = 1
          OBVIOUS
        <5> QED
          BY <2>1, <3>1, <4>5, <5>1, <5>2
      <4>7. Len(p.got) = 1
        BY <3>10, <4>2
      <4>8. ASSUME NEW b \in SetOf(q.old.ann.addrs)
            PROVE  ipam'[b].secret = IF b = a THEN ann.secret ELSE q.old.ann.secret
        BY <1>2, <1>7, <1>11, <3>9, <4>2 DEF Kept, Has
      <4>9. FirstRekeyed(ipam', p)
        BY <1>4, <1>5, <1>8, <3>1, <3>6, <4>2, <4>3, <4>8, FollowsCarries
           DEF FirstRekeyed, RekeySecured, SecretChanged
      <4> QED
        BY <4>6, <4>7, <4>9
    <3>11. RekeySecured(ipam', p)
      BY <1>4, <1>8, <1>11, <3>1, <3>3, <3>4, <3>5, <3>9, FollowsCarries DEF RekeySecured, SecretChanged
    <3>7. p.pc \notin BeforeEffects \cup AfterEffects \cup DefaultPhases
      BY <3>1 DEF BeforeEffects, AfterEffects, DefaultPhases
    <3>8. UpdateSecured(ipam', p)
      BY <1>2, <1>5, <3>1, <3>3, <3>7, <3>11, FollowsCarries DEF Updating, UpdateSecured
    <3> QED
      BY <1>2, <3>1, <3>2, <3>7, <3>8, UpdateSettles
  <2>2. CASE ~(Len(q.todo) > 1)
    <3>1. SetOf(q.todo) = {a}
      BY <1>2, <1>4, <2>2, Looped DEF Listed, a
    <3>2. ASSUME NEW b \in KeptOnes(q) PROVE Has(ipam', q.svc, b, ann)
      <4>1. b \in SetOf(q.old.ann.addrs) /\ b \in Addrs
        BY <1>2, <3>2 DEF KeptOnes
      <4>2. SecretsLast => ipam'[b].secret = ann.secret
        BY <1>4, <1>7, <1>11, <3>1, <3>2, <4>1 DEF RekeySecured
      <4> QED
        BY <1>5, <1>8, <4>1, <4>2 DEF Has
    <3>3. Kept(ipam', q.svc, q.new)
      BY <1>8, <3>2 DEF Kept, NewOnes, KeptOnes
    <3>4. granted = ToReleaseOld(q)
      BY <1>2, <2>2 DEF granted, NextOf, AnyRequest
    <3> QED
      BY <1>2, <3>3, <3>4, ToAfter
  <2> QED
    BY <2>1, <2>2
<1>12. ASSUME NEW p, Continue(r, p), Settled(ipam', q, p) PROVE BInv' /\ GivenUpByOwner
  BY <1>1, <1>2, <1>3, <1>6, <1>12, RekeyKeeps
<1> QED
  BY <1>6, <1>7, <1>9, <1>10, <1>11, <1>12

\* Reverted, the first address is as the others: no second call fails.
LEMMA RevertSecretKeeps ==
  ASSUME WInv, BInv, SInv, NEW r \in Slots, RevertSecret(r)
  PROVE  BInv' /\ GivenUpByOwner
<1> DEFINE q == req[r]
<1>1. /\ q.pc = "revert" /\ q.pc \in UpdatePhases \ {"admitted"}
      /\ UpdateSecret(r, KeepPrefixes(q)[1], q.old.ann, q.new.ann.secret, q.old.ann.secret,
                      ToUndoNew(q), ToUndoNew(q))
  BY DEF RevertSecret, UpdatePhases
<1>2. /\ Updating(q) /\ UpdateSecured(ipam, q) /\ q.svc \in Services /\ q.op \in Ops /\ Sane(ipam)
      /\ q.new.ann \in AnyAnn /\ q.old.ann \in AnyAnn /\ SetOf(q.old.ann.addrs) \subseteq Addrs
  BY <1>1, AtUpdate
<1>3. PICK a, ann, from, to, p : /\ a = KeepPrefixes(q)[1] /\ ann = q.old.ann
                                 /\ from = q.new.ann.secret /\ to = q.old.ann.secret
                                 /\ p = ToUndoNew(q)
  OBVIOUS
<1>4. UpdateSecret(r, a, ann, from, to, p, p) /\ ann \in AnyAnn /\ from \in Secrets /\ to \in Secrets
  BY <1>1, <1>2, <1>3 DEF AnyAnn
<1>5. /\ Continue(r, p)
      /\ \A t \in Services, b \in Addrs : ~SecretsLast \/ b # a => Spares(ipam, ipam', t, b)
      /\ \A b \in Addrs : ipam'[b].svcs = ipam[b].svcs /\ (b # a => ipam'[b] = ipam[b])
      /\ \/ ~(Sendable(a, ann) /\ CanRekey(a, ann.zone, from)) \/ faults < MaxFaults
         \/ ipam'[a].secret = to
  BY <1>2, <1>4, UpdateSecretSpares
<1>6. CASE ~SecretsLast
  <2>1. Kept(ipam, q.svc, q.old)
    BY <1>1, <1>2, <1>6 DEF UpdateSecured
  <2>2. Kept(ipam', q.svc, q.old)
    BY <1>2, <1>5, <1>6, <2>1, SparedKept DEF SparesAll
  <2>3. Settled(ipam', q, p)
    BY <1>2, <1>3, <2>2, ToUndo
  <2> QED
    BY <1>1, <1>4, <1>5, <1>6, <2>3, RekeyKeeps
<1>7. CASE SecretsLast
  <2>1. OneFault /\ FirstRekeyed(ipam, q)
    BY <1>1, <1>2, <1>7 DEF UpdateSecured
  <2>2. OneService
    BY <1>2, <1>7, <2>1 DEF SecretsLast, OneSecret, FirstRekeyed, SecretChanged, Updating, AnyAnn
  <2>3. a \in SetOf(q.old.ann.addrs) /\ a \in Addrs
    <3>1. a \in SetOf(KeepPrefixes(q)) /\ SetOf(KeepPrefixes(q)) = KeptOnes(q)
      BY <1>2, <1>3, <2>1, PrefixSets, Looped DEF Updating, FirstRekeyed
    <3> QED
      BY <1>2, <3>1 DEF KeptOnes
  <2>4. Sendable(a, ann) /\ CanRekey(a, ann.zone, from)
    <3>1. ann.valid
      BY <1>4, <2>1 DEF OneFault, AnyAnn
    <3> QED
      BY <1>3, <2>1, <2>3, <3>1, NoAddrAssumption DEF Sendable, CanRekey, InZone, FirstRekeyed
  <2>5. ~(faults < MaxFaults)
    <3>1. faults = MaxFaults /\ MaxFaults \in Nat
      BY <1>1, <1>7, <2>1, WebhookAssumption DEF SInv, TurnsBack
    <3> QED
      BY <3>1
  <2>6. ipam'[a].secret = to
    BY <1>5, <2>4, <2>5
  <2>7. Kept(ipam', q.svc, q.old)
    <3> SUFFICES ASSUME NEW b \in SetOf(q.old.ann.addrs) PROVE Has(ipam', q.svc, b, q.old.ann)
      BY DEF Kept
    <3>1. b \in Addrs /\ b \in Prefix[q.old.ann.zone] /\ q.svc \in ipam[b].svcs
      BY <1>2, <2>1 DEF FirstRekeyed
    <3>2. ipam'[b].secret = q.old.ann.secret
      BY <1>3, <1>5, <2>1, <2>6, <3>1 DEF FirstRekeyed
    <3> QED
      BY <1>5, <3>1, <3>2 DEF Has
  <2>8. Settled(ipam', q, p)
    BY <1>2, <1>3, <2>7, ToUndo
  <2> QED
    BY <1>1, <1>4, <1>5, <2>2, <2>8, RekeyKeeps
<1> QED
  BY <1>6, <1>7

(* From here on the handler only changes pools. *)
LEMMA UpdatePoolsKeep ==
  ASSUME WInv, BInv, NEW r \in Slots,
         req[r].pc \in (UpdatePhases \cap AfterEffects) \ {"release_old", "admitted"},
         NEW p, Continue(r, p), UNCHANGED <<ipam, store>>,
         \/ p = Admit(req[r])
         \/ p = ToPoolRemove(req[r])
         \/ \E pc \in AfterEffects \ {"release_old"} : p = At(req[r], pc)
  PROVE  BInv' /\ GivenUpByOwner
<1> DEFINE q == req[r]
<1>1. Active(r) /\ Updating(q) /\ q \in AnyRequest /\ Kept(ipam, q.svc, q.new)
  BY AtUpdate DEF UpdateSecured
<1>2. ASSUME NEW pc \in AfterEffects \ {"release_old"} PROVE Settled(ipam, q, At(q, pc))
  BY <1>1, Fields, AfterSettles
<1>3. Settled(ipam, q, p)
  BY <1>1, <1>2, ToAfter
<1> QED
  BY <1>1, <1>3, QuietStep

LEMMA UpdatePoolGetKeeps ==
  ASSUME WInv, BInv, NEW r \in Slots, UpdatePoolGet(r)
  PROVE  BInv' /\ GivenUpByOwner
<1>1. /\ req[r].pc = "update_pool" /\ Continue(r, At(req[r], "update_pooling"))
      /\ UNCHANGED <<ipam, store>>
  BY DEF UpdatePoolGet, PoolUnchanged
<1> QED
  BY <1>1, UpdatePoolsKeep DEF UpdatePhases, AfterEffects

LEMMA UpdateVerifyKeeps ==
  ASSUME WInv, BInv, NEW r \in Slots, UpdateVerify(r)
  PROVE  BInv' /\ GivenUpByOwner
<1>1. /\ req[r].pc = "update_verify" /\ UNCHANGED <<ipam, store>>
      /\ Continue(r, At(req[r], "update_remove")) \/ Continue(r, Admit(req[r]))
  BY DEF UpdateVerify, Decide
<1> QED
  BY <1>1, UpdatePoolsKeep DEF UpdatePhases, AfterEffects

LEMMA UpdateRemoveGetKeeps ==
  ASSUME WInv, BInv, NEW r \in Slots, UpdateRemoveGet(r)
  PROVE  BInv' /\ GivenUpByOwner
<1>1. /\ req[r].pc = "update_remove" /\ Continue(r, At(req[r], "update_removing"))
      /\ UNCHANGED <<ipam, store>>
  BY DEF UpdateRemoveGet, PoolUnchanged
<1> QED
  BY <1>1, UpdatePoolsKeep DEF UpdatePhases, AfterEffects

----------------------------------------------------------------------------
(* ValidateDelete.  Where Services are deleted, one call fails at most. *)

LEMMA AtDelete ==
  ASSUME WInv, BInv, NEW r \in Slots, req[r].pc \in DeletePhases \ {"admitted"}
  PROVE  /\ Active(r) /\ Sane(ipam) /\ req[r] \in AnyRequest /\ req[r].op = "delete"
         /\ DeleteSecured(ipam, req[r]) /\ req[r].svc \in Services /\ req[r].todo \in Listed
         /\ req[r].old.ann \in AnyAnn /\ SetOf(req[r].old.ann.addrs) \subseteq Addrs
         /\ req[r].old.ann.addrs # <<>> /\ OldAddrs(req[r]) = req[r].old.ann.addrs
         /\ FewFaults /\ SecretsLast
<1> DEFINE q == req[r]
<1>1. q.pc # "idle"
  BY DEF DeletePhases
<1>2. /\ Sound(q) /\ Secured(ipam, q) /\ Active(r) /\ Sane(ipam) /\ BindingsLast
  BY <1>1, Handled
<1>3. q.op = "delete"
  BY <1>2, DeleteKnown DEF DeleteRequest
<1>4. /\ q \in AnyRequest /\ q.svc \in Services /\ q.op \in Ops /\ q.todo \in Listed
      /\ q.old \in AnyService
  BY <1>2, <1>3, SoundTypes
<1>5. DeleteSecured(ipam, q)
  BY <1>2, <1>3 DEF Secured
<1>6. /\ q.old.ann \in AnyAnn /\ SetOf(q.old.ann.addrs) \subseteq Addrs
      /\ q.old.ann.addrs # <<>> /\ OldAddrs(q) = q.old.ann.addrs
  BY <1>4, <1>5, Listing DEF DeleteSecured, OldAddrs
<1>7. FewFaults /\ SecretsLast
  BY <1>2, <1>3, <1>4 DEF BindingsLast, SecretsLast
<1> QED
  BY <1>2, <1>3, <1>4, <1>5, <1>6, <1>7

(* What a delete needs to go on, or to turn back. *)
Deleting(d, q) ==
  /\ q.op = "delete" /\ IsLB(q.old) /\ HasFamilies(q.old)
  /\ q.old.ann.valid \/ Kept(d, q.svc, q.old)
  /\ \A a \in SetOf(q.old.ann.addrs) : Regainable(d, a, q.old.ann)

LEMMA DeleteGoesOn ==
  ASSUME NEW d, NEW q, Deleting(d, q), NEW p, Follows(p, q),
         p.pc \in (Releasing \cup {"admitted"}) \ {"restore"}
  PROVE  Settled(d, q, p)
<1>1. p.pc # "idle" /\ p.pc # "delete" /\ p.pc # "restore"
  BY DEF Releasing
<1>2. DeleteSecured(d, p)
  BY <1>1, FollowsCarries DEF Deleting, DeleteSecured
<1> QED
  BY <1>1, <1>2, DeleteSettles DEF Deleting

LEMMA StartDeleteKeeps ==
  ASSUME WInv, BInv, NEW r \in Slots, StartDelete(r)
  PROVE  BInv' /\ GivenUpByOwner
<1> DEFINE q == req[r]
           p == Loop(q, "release", OldAddrs(q))
<1>1. q.pc = "delete" /\ q.pc \in DeletePhases \ {"admitted"}
  BY DEF StartDelete, DeletePhases
<1>2. /\ Active(r) /\ Sane(ipam) /\ q \in AnyRequest /\ q.op = "delete" /\ DeleteSecured(ipam, q)
      /\ q.svc \in Services /\ SetOf(q.old.ann.addrs) \subseteq Addrs /\ SecretsLast
  BY <1>1, AtDelete
<1>3. IsLB(q.old) /\ Kept(ipam, q.svc, q.old)
  BY <1>1, <1>2 DEF DeleteSecured
<1>4. ASSUME NEW a \in SetOf(q.old.ann.addrs) PROVE Regainable(ipam, a, q.old.ann)
  <2>1. a \in Addrs /\ Has(ipam, q.svc, a, q.old.ann)
    BY <1>2, <1>3 DEF Kept
  <2>2. a \notin Foreign
    BY <1>2, <2>1, IpamAssumption DEF Sane, Has
  <2> QED
    BY <1>2, <2>1, <2>2 DEF Has, Regainable
<1>5. Deleting(ipam, q)
  BY <1>2, <1>3, <1>4 DEF Deleting, DeleteSecured
<1>6. Follows(p, q) /\ p.pc = "release"
  BY <1>2, Fields
<1>7. Continue(r, p) /\ UNCHANGED <<ipam, store>>
  BY <1>3 DEF StartDelete, Decide
<1> HIDE DEF p
<1>8. Settled(ipam, q, p)
  BY <1>5, <1>6, DeleteGoesOn DEF Releasing
<1> QED
  BY <1>2, <1>7, <1>8, QuietStep

LEMMA ReleaseAddressKeeps ==
  ASSUME WInv, BInv, NEW r \in Slots, ReleaseAddress(r)
  PROVE  BInv' /\ GivenUpByOwner
<1> DEFINE q == req[r]
           after == Loop(q, "delete_verify", <<>>)
           next == NextOf(q, after)
<1>1. /\ q.pc = "release" /\ q.pc \in DeletePhases \ {"admitted"} /\ q.pc \in Releasing
      /\ RemoveAddress(r, Head(q.todo), q.old.ann, next)
  BY DEF ReleaseAddress, DeletePhases, Releasing
<1>2. /\ Active(r) /\ Sane(ipam) /\ q \in AnyRequest /\ q.op = "delete" /\ DeleteSecured(ipam, q)
      /\ q.old.ann \in AnyAnn /\ SetOf(q.old.ann.addrs) \subseteq Addrs
  BY <1>1, AtDelete
<1>3. PICK a, ann, p : a = Head(q.todo) /\ ann = q.old.ann /\ p = next
  OBVIOUS
<1>4. RemoveAddress(r, a, ann, p) /\ ann \in AnyAnn
  BY <1>1, <1>2, <1>3
<1>5. /\ Sane(ipam') /\ UNCHANGED store /\ Continue(r, p)
      /\ \A t \in Services, b \in Addrs : t # q.svc => Spares(ipam, ipam', t, b)
      /\ ~ann.valid => ipam' = ipam
      /\ \A b \in Addrs : Regainable(ipam, b, ann) => Regainable(ipam', b, ann)
  BY <1>2, <1>4, RemoveAddressSpares
<1>6. Deleting(ipam', q)
  BY <1>1, <1>2, <1>3, <1>5 DEF Deleting, DeleteSecured
<1>7. Settled(ipam', q, p)
  <2> DEFINE x == [q EXCEPT !.todo = Tail(@)]
  <2>1. Follows(x, q) /\ x.pc = "release" /\ Follows(after, q) /\ after.pc = "delete_verify"
    BY <1>1, <1>2, Fields DEF AnyRequest, Follows, Same
  <2> HIDE DEF x, after
  <2>2. Settled(ipam', q, x) /\ Settled(ipam', q, after)
    BY <1>6, <2>1, DeleteGoesOn DEF Releasing
  <2> QED
    BY <1>3, <2>2 DEF NextOf, x
<1>8. SparesOthers(ipam, ipam', q.svc) /\ HoldsOn(ipam, ipam', q)
  BY <1>2, <1>5 DEF SparesOthers, HoldsOn
<1> QED
  BY <1>2, <1>5, <1>7, <1>8, OwnStep

LEMMA DeleteVerifyKeeps ==
  ASSUME WInv, BInv, NEW r \in Slots, DeleteVerify(r) \/ DeleteRemoveGet(r)
  PROVE  BInv' /\ GivenUpByOwner
<1> DEFINE q == req[r]
<1>1. /\ q.pc \in {"delete_verify", "delete_remove"} /\ UNCHANGED <<ipam, store>>
      /\ \/ Continue(r, At(q, "delete_remove"))
         \/ Continue(r, At(q, "delete_removing"))
         \/ Continue(r, Admit(q))
  BY DEF DeleteVerify, DeleteRemoveGet, Decide, PoolUnchanged
<1>2. q.pc \in DeletePhases \ {"admitted"} /\ q.pc \in Releasing
  BY <1>1 DEF DeletePhases, Releasing
<1>3. Active(r) /\ q \in AnyRequest /\ Deleting(ipam, q)
  BY <1>2, AtDelete DEF Deleting, DeleteSecured
<1>4. /\ Settled(ipam, q, At(q, "delete_remove")) /\ Settled(ipam, q, At(q, "delete_removing"))
      /\ Settled(ipam, q, Admit(q))
  BY <1>3, Fields, DeleteGoesOn DEF Releasing
<1> QED
  BY <1>1, <1>3, <1>4, QuietStep

LEMMA RestoreAddressKeeps ==
  ASSUME WInv, BInv, SInv, NEW r \in Slots, RestoreAddress(r)
  PROVE  BInv' /\ GivenUpByOwner
<1> DEFINE q == req[r]
           next == NextOf(q, Idle)
<1>1. /\ q.pc = "restore" /\ q.pc \in DeletePhases \ {"admitted"} /\ q.pc \in Releasing
      /\ UpdateAddress(r, Head(q.todo), q.old.ann, next, Idle)
  BY DEF RestoreAddress, DeletePhases, Releasing
<1>2. /\ Active(r) /\ Sane(ipam) /\ q \in AnyRequest /\ q.op = "delete" /\ DeleteSecured(ipam, q)
      /\ q.svc \in Services /\ q.todo \in Listed /\ FewFaults
      /\ q.old.ann \in AnyAnn /\ SetOf(q.old.ann.addrs) \subseteq Addrs
  BY <1>1, AtDelete
<1>3. /\ Deleting(ipam, q) /\ q.todo # <<>> /\ SetOf(q.todo) \subseteq SetOf(q.old.ann.addrs)
      /\ \A b \in SetOf(q.old.ann.addrs) : b \in SetOf(q.todo) \/ Has(ipam, q.svc, b, q.old.ann)
  BY <1>1, <1>2 DEF Deleting, DeleteSecured
<1>10. faults = MaxFaults
  BY <1>1, <1>2 DEF FewFaults, SInv, TurnsBack, WInv, WebhookTypeOK
<1>4. PICK a, ann, p, idle : a = Head(q.todo) /\ ann = q.old.ann /\ p = next /\ idle = Idle
  OBVIOUS
<1>5. UpdateAddress(r, a, ann, p, idle) /\ ann \in AnyAnn /\ a \in SetOf(q.old.ann.addrs) /\ a \in Addrs
  BY <1>1, <1>2, <1>3, <1>4, Looped DEF Listed
<1>6. /\ Sane(ipam') /\ SparesAll(ipam, ipam') /\ UNCHANGED store
      /\ \/ Continue(r, idle) /\ ~(Sendable(a, ann) /\ Regainable(ipam, a, ann))
         \/ Continue(r, p) /\ Has(ipam', q.svc, a, ann)
      /\ \A b \in Addrs : Regainable(ipam, b, ann) => Regainable(ipam', b, ann)
  BY <1>2, <1>5, <1>10, UpdateAddressSpares
<1>7. /\ Kept(ipam, q.svc, q.old) => Kept(ipam', q.svc, q.old)
      /\ \A b \in SetOf(q.old.ann.addrs) : b \in SetOf(q.todo) \/ Has(ipam', q.svc, b, q.old.ann)
  BY <1>2, <1>3, <1>6, SparedKept, SparedHas DEF SparesAll
<1>8. CASE Continue(r, idle) /\ ~(Sendable(a, ann) /\ Regainable(ipam, a, ann))
  <2>1. ~ann.valid
    BY <1>3, <1>4, <1>5, <1>8, NoAddrAssumption DEF Deleting, Sendable
  <2>2. Settled(ipam', q, idle)
    BY <1>3, <1>4, <1>7, <2>1 DEF Deleting, Settled
  <2> QED
    BY <1>2, <1>6, <1>8, <2>2, SparingStep
<1>9. CASE Continue(r, p) /\ Has(ipam', q.svc, a, ann)
  <2>1. CASE Len(q.todo) > 1
    <3>1. Follows(p, q) /\ p.pc = "restore" /\ p.todo = Tail(q.todo)
      BY <1>1, <1>2, <1>4, <2>1 DEF NextOf, AnyRequest, Follows, Same
    <3>2. p.todo # <<>> /\ SetOf(q.todo) = {a} \cup SetOf(p.todo)
      BY <1>2, <1>3, <1>4, <2>1, <3>1, Looped DEF Listed
    <3>3. Deleting(ipam', q)
      BY <1>2, <1>3, <1>4, <1>6, <1>7 DEF Deleting
    <3>4. DeleteSecured(ipam', p)
      BY <1>3, <1>4, <1>7, <1>9, <3>1, <3>2, <3>3, FollowsCarries DEF Deleting, DeleteSecured
    <3> QED
      BY <1>2, <1>6, <1>9, <3>1, <3>4, DeleteSettles, SparingStep
  <2>2. CASE ~(Len(q.todo) > 1)
    <3>1. p = Idle /\ SetOf(q.todo) = {a}
      BY <1>2, <1>3, <1>4, <2>2, Looped DEF Listed, NextOf
    <3>2. Kept(ipam', q.svc, q.old)
      BY <1>4, <1>7, <1>9, <3>1 DEF Kept
    <3> QED
      BY <1>2, <1>6, <1>9, <3>1, <3>2, SparingStep DEF Settled
  <2> QED
    BY <2>1, <2>2
<1> QED
  BY <1>6, <1>8, <1>9

----------------------------------------------------------------------------
(* Pool operations and the API server. *)

LEMMA Undisturbed ==
  ASSUME BInv, UNCHANGED <<req, store, ipam>>
  PROVE  BInv' /\ GivenUpByOwner
<1>1. Alone'
  BY DEF BInv, Alone, Active
<1>2. \A s \in Services : Quiet(s)' => Quiet(s)
  BY DEF Quiet, RequestsFor, Active
<1>3. \A r \in Slots : Active(r)' => Active(r)
  BY DEF Active
<1>4. BindingsLast' /\ Sane(ipam')
  BY DEF BInv, BindingsLast, OneSecret, OneService, FewFaults, OneFault
<1>5. GivenUpByOwner
  BY DEF GivenUpByOwner
<1> QED
  BY <1>1, <1>2, <1>3, <1>4, <1>5 DEF BInv

LEMMA AfterPoolSettles ==
  ASSUME WInv, BInv, NEW r \in Slots, req[r].pc \in PoolPhases, NEW result
  PROVE  Settled(ipam, req[r], AfterPool(req[r], result))
<1> DEFINE q == req[r]
<1>1. CASE q.pc = "create_pooling"
  <2>1. q \in AnyRequest /\ Creating(q) /\ Kept(ipam, q.svc, q.new)
    BY <1>1, AtCreate, Handled DEF CreatePhases, CreateSecured
  <2>2. Settled(ipam, q, Admit(q)) /\ Settled(ipam, q, Idle)
    BY <2>1, Fields, CreateSettles, CreateDenied
  <2> QED
    BY <1>1, <2>2 DEF AfterPool
<1>2. CASE q.pc \in {"update_pooling", "update_removing"}
  <2>1. q.pc \in UpdatePhases \ {"admitted"} /\ q.pc \in AfterEffects
    BY <1>2 DEF UpdatePhases, AfterEffects
  <2>2. Updating(q) /\ Kept(ipam, q.svc, q.new)
    BY <2>1, AtUpdate DEF UpdateSecured
  <2> QED
    BY <1>2, <2>2, ToAfter DEF AfterPool
<1>3. CASE q.pc = "delete_removing"
  <2>1. q.pc \in DeletePhases \ {"admitted"} /\ q.pc \in Releasing
    BY <1>3 DEF DeletePhases, Releasing
  <2>2. /\ q \in AnyRequest /\ q.op = "delete" /\ DeleteSecured(ipam, q)
        /\ q.old.ann.addrs # <<>> /\ OldAddrs(q) = q.old.ann.addrs
    BY <2>1, AtDelete
  <2>3. Deleting(ipam, q)
    BY <2>1, <2>2 DEF Deleting, DeleteSecured
  <2>4. Settled(ipam, q, Admit(q))
    BY <2>2, <2>3, Fields, DeleteGoesOn
  <2> DEFINE p == Loop(q, "restore", OldAddrs(q))
  <2>5. Follows(p, q) /\ p.pc = "restore" /\ p.todo = q.old.ann.addrs
    BY <2>2, Fields
  <2> HIDE DEF p
  <2>6. DeleteSecured(ipam, p)
    BY <2>2, <2>3, <2>5, FollowsCarries DEF Deleting, DeleteSecured
  <2>7. Settled(ipam, q, p)
    BY <2>2, <2>5, <2>6, DeleteSettles
  <2> QED
    BY <1>3, <2>4, <2>7 DEF AfterPool, p
<1> QED
  BY <1>1, <1>2, <1>3 DEF PoolPhases

LEMMA PoolReturnKeeps ==
  ASSUME WInv, BInv, NEW r \in Slots, PoolReturn(r)
  PROVE  BInv' /\ GivenUpByOwner
<1>1. call[r] # Idle
  BY DEF PoolReturn, Idle
<1>2. req[r].pc \in PoolPhases
  BY <1>1 DEF WInv, WebhookTypeOK
<1>3. Active(r)
  BY <1>2 DEF Active, PoolPhases
<1>4. Settled(ipam, req[r], AfterPool(req[r], call[r].pc))
  BY <1>2, AfterPoolSettles
<1>5. Continue(r, AfterPool(req[r], call[r].pc)) /\ UNCHANGED <<ipam, store>>
  BY DEF PoolReturn, PoolUnchanged
<1> QED
  BY <1>3, <1>4, <1>5, QuietStep

(* The version that is stored has been made good for: nobody else has a request
   about the Service that would read it too late. *)
LEMMA CommitKeeps ==
  ASSUME WInv, BInv, NEW r \in Slots, Commit(r)
  PROVE  BInv' /\ GivenUpByOwner
<1> DEFINE q == req[r]
<1>1. /\ q.pc = "admitted" /\ q.pc # "idle" /\ q.pc \in AfterEffects
      /\ store' = [store EXCEPT ![q.svc] = q.new] /\ req' = AfterCommit(r) /\ UNCHANGED ipam
  BY DEF Commit, AfterEffects
<1>2. /\ Active(r) /\ Sound(q) /\ Secured(ipam, q) /\ q.svc \in Services
      /\ q.op \in {"create", "update", "delete"} /\ (q.op = "delete" => q.new = NoService)
  BY <1>1, Handled, SoundTypes
<1>3. q.new # NoService => IsLB(q.new) /\ Kept(ipam, q.svc, q.new)
  BY <1>1, <1>2 DEF Secured, CreateSecured, UpdateSecured
<1>4. /\ ~Active(r)'
      /\ \A o \in Slots : o # r => /\ req'[o] = req[o] /\ (Active(o)' <=> Active(o))
                                   /\ Active(o) => req[o].svc # q.svc
  <2>1. req'[r] = Idle
    BY <1>1 DEF AfterCommit
  <2>2. ASSUME NEW o \in Slots, o # r
        PROVE  req'[o] = req[o] /\ (Active(o) => req[o].svc # q.svc)
    BY <1>1, <1>2, <2>2 DEF AfterCommit, RequestsFor, BInv, Alone
  <2> QED
    BY <2>1, <2>2 DEF Active, Idle
<1>5. \A s \in Services : store'[s] = IF s = q.svc THEN q.new ELSE store[s]
  BY <1>1 DEF WInv, WebhookTypeOK
<1>6. Alone'
  <2> SUFFICES ASSUME NEW o \in Slots, Active(o)'
               PROVE  /\ req'[o].answer = "awaited" /\ req'[o].old = store'[req'[o].svc]
                      /\ \A u \in Slots : Active(u)' /\ req'[u].svc = req'[o].svc => u = o
    BY DEF Alone
  <2>1. o # r /\ req'[o] = req[o] /\ Active(o) /\ req[o].svc # q.svc
    BY <1>4
  <2>2. req[o].svc \in Services
    BY <2>1, SoundTypes DEF WInv
  <2> QED
    BY <1>4, <1>5, <2>1, <2>2 DEF BInv, Alone
<1>7. \A s \in Services : store'[s] # NoService => IsLB(store'[s])
  BY <1>3, <1>5 DEF BInv
<1>8. ASSUME NEW s \in Services, Quiet(s)', store'[s] # NoService PROVE Kept(ipam', s, store'[s])
  <2>1. CASE s = q.svc
    BY <1>1, <1>3, <1>5, <1>8, <2>1
  <2>2. CASE s # q.svc
    <3>1. Quiet(s)
      BY <1>4, <1>8, <2>2 DEF Quiet, RequestsFor
    <3> QED
      BY <1>1, <1>5, <1>8, <2>2, <3>1 DEF BInv
  <2> QED
    BY <2>1, <2>2
<1>9. \A o \in Slots : Active(o)' => Secured(ipam', req'[o])
  BY <1>1, <1>4 DEF BInv
<1>10. BindingsLast' /\ Sane(ipam')
  BY <1>1 DEF BInv, BindingsLast, OneSecret, OneService, FewFaults, OneFault
<1> QED
  BY <1>1, <1>6, <1>7, <1>8, <1>9, <1>10 DEF BInv, GivenUpByOwner

(* A new request finds the Service as it is stored, and alone. *)
LEMMA SubmitKeeps ==
  ASSUME WInv, BInv, NEW r \in Slots, NEW s \in Services, NEW pc, NEW op, NEW new,
         Submit(r, pc, op, s, store[s], new),
         \/ op = "create" /\ pc = "default" /\ store[s] = NoService /\ IsLB(new)
         \/ op = "update" /\ pc = "default" /\ store[s] # NoService /\ IsLB(new)
         \/ op = "delete" /\ pc = "delete" /\ store[s] # NoService
  PROVE  BInv' /\ GivenUpByOwner
<1> DEFINE q == [pc |-> pc, op |-> op, svc |-> s, old |-> store[s], new |-> new,
                 todo |-> <<>>, got |-> <<>>, answer |-> "awaited"]
<1>1. /\ ~Active(r) /\ Continue(r, q) /\ UNCHANGED <<ipam, store>>
      /\ OneAtATime => \A o \in RequestsFor(s) : req[o].answer = "abandoned"
  BY DEF Submit, CanSubmit
<1>2. /\ q.pc = pc /\ q.op = op /\ q.svc = s /\ q.old = store[s] /\ q.new = new
      /\ q.got = <<>> /\ q.answer = "awaited"
  OBVIOUS
<1> HIDE DEF q
<1>3. \A o \in Slots : Active(o) => req[o].svc # s
  BY <1>1 DEF BInv, BindingsLast, Alone, RequestsFor
<1>4. Quiet(s)
  BY <1>3 DEF Quiet, RequestsFor
<1>5. \A o \in Slots : /\ req'[o] = IF o = r THEN q ELSE req[o]
                       /\ Active(o)' <=> (o = r \/ Active(o))
  BY <1>1, <1>2 DEF WInv, WebhookTypeOK, Continue, Active
<1>6. store[s] # NoService => /\ IsLB(store[s]) /\ HasFamilies(store[s]) /\ Kept(ipam, s, store[s])
  BY <1>4 DEF BInv, WInv
<1>7. Secured(ipam, q)
  <2>1. op = "create" => CreateSecured(ipam, q)
    BY <1>2 DEF CreateSecured
  <2>2. op = "update" => UpdateSecured(ipam, q)
    BY <1>2, <1>6, NothingListed DEF UpdateSecured, AfterEffects
  <2>3. op = "delete" => DeleteSecured(ipam, q)
    BY <1>2, <1>6 DEF DeleteSecured, Releasing
  <2> QED
    BY <1>2, <2>1, <2>2, <2>3 DEF Secured
<1>8. Alone'
  BY <1>1, <1>2, <1>3, <1>5 DEF BInv, Alone
<1>9. \A t \in Services : Quiet(t)' => Quiet(t)
  BY <1>1, <1>5 DEF Quiet, RequestsFor
<1>10. \A o \in Slots : Active(o)' => Secured(ipam', req'[o])
  BY <1>1, <1>5, <1>7 DEF BInv
<1>11. BindingsLast' /\ Sane(ipam')
  BY <1>1 DEF BInv, BindingsLast, OneSecret, OneService, FewFaults, OneFault
<1> QED
  BY <1>1, <1>8, <1>9, <1>10, <1>11 DEF BInv, GivenUpByOwner

LEMMA SubmitAnyKeeps ==
  ASSUME WInv, BInv, NEW r \in Slots, SubmitAny(r)
  PROVE  BInv' /\ GivenUpByOwner
<1>1. \A svc \in Submittable : IsLB(svc) /\ \A addrs : IsLB([svc EXCEPT !.ann.addrs = addrs])
  BY DEF BInv, BindingsLast, Submittable, IsLB
<1>2. ASSUME NEW s \in Services, SubmitCreate(r, s) PROVE BInv' /\ GivenUpByOwner
  BY <1>1, <1>2, SubmitKeeps DEF SubmitCreate
<1>3. ASSUME NEW s \in Services, SubmitUpdate(r, s) PROVE BInv' /\ GivenUpByOwner
  BY <1>1, <1>3, SubmitKeeps DEF SubmitUpdate
<1>4. ASSUME NEW s \in Services, SubmitDelete(r, s) PROVE BInv' /\ GivenUpByOwner
  BY <1>4, SubmitKeeps DEF SubmitDelete
<1> QED
  BY <1>2, <1>3, <1>4 DEF SubmitAny

(* Nobody gives up on a request, and none is outdated. *)
LEMMA NeverUnanswered ==
  ASSUME WInv, BInv, NEW r \in Slots, Abandon(r) \/ Conflict(r) \/ Unheard(r)
  PROVE  FALSE
<1>1. ~Abandon(r)
  BY DEF Abandon, BInv, BindingsLast
<1>2. req[r].pc # "idle"
  BY <1>1 DEF Conflict, Unheard, Active
<1>3. req[r].answer = "awaited"
  BY <1>2, Handled
<1> QED
  BY <1>1, <1>3 DEF Conflict, Unheard

(* Before its first effect a handler may fail. *)
LEMMA EntryFailsKeeps ==
  ASSUME WInv, BInv, NEW r \in Slots, EntryFails(r)
  PROVE  BInv' /\ GivenUpByOwner
<1> DEFINE q == req[r]
<1>1. /\ q.pc \in {"default", "create", "update", "delete"} /\ q.pc # "idle"
      /\ Continue(r, Idle) /\ UNCHANGED <<ipam, store>> /\ faults < MaxFaults
  BY DEF EntryFails, Finish
<1>2. /\ Active(r) /\ Sound(q) /\ Secured(ipam, q) /\ BindingsLast
      /\ q.op \in Ops /\ q.op \in {"create", "update", "delete"}
  BY <1>1, Handled, SoundTypes
<1>4. q.op = "delete" => Kept(ipam, q.svc, q.old)
  <2>1. q.op = "delete" => q.pc = "delete"
    BY <1>1, <1>2 DEF Sound, Phased, DeletePhases
  <2> QED
    BY <1>2, <2>1 DEF Secured, DeleteSecured
<1>5. q.op = "update" => Kept(ipam, q.svc, q.old)
  <2>1. q.op = "update" => q.pc \in BeforeEffects
    BY <1>1, <1>2 DEF Sound, Phased, UpdatePhases, BeforeEffects, DefaultPhases
  <2> QED
    BY <1>2, <2>1 DEF Secured, UpdateSecured
<1>6. Settled(ipam, q, Idle)
  BY <1>2, <1>4, <1>5 DEF Settled
<1> QED
  BY <1>1, <1>2, <1>6, QuietStep

(* A crash comes only upon creates, whose Services are not stored. *)
LEMMA CrashKeeps ==
  ASSUME WInv, BInv, Crash
  PROVE  BInv' /\ GivenUpByOwner
<1>1. /\ Crashes /\ faults < MaxFaults /\ UNCHANGED <<store, ipam>>
      /\ \A r \in Slots : req'[r] = Idle
  BY DEF Crash
<1>2. "update" \notin Ops /\ "delete" \notin Ops
  BY <1>1 DEF BInv, BindingsLast, FewFaults, OneFault, WInv, WebhookTypeOK
<1>3. ASSUME NEW r \in Slots, Active(r) PROVE store[req[r].svc] = NoService
  <2>1. req[r].op = "create" /\ Secured(ipam, req[r])
    BY <1>2, <1>3, SoundTypes DEF WInv, BInv
  <2> QED
    BY <1>3, <2>1 DEF Secured, CreateSecured, BInv, Alone
<1>4. \A s \in Services : store[s] # NoService => Quiet(s)
  BY <1>3 DEF Quiet, RequestsFor
<1>5. \A r \in Slots : ~Active(r)'
  BY <1>1 DEF Active, Idle
<1>6. Alone'
  BY <1>5 DEF Alone
<1>7. BindingsLast' /\ Sane(ipam')
  BY <1>1 DEF BInv, BindingsLast, OneSecret, OneService, FewFaults, OneFault
<1> QED
  BY <1>1, <1>4, <1>5, <1>6, <1>7 DEF BInv, GivenUpByOwner

----------------------------------------------------------------------------
(* Where one call may fail, it has when a handler turns back.  There is one
   slot: what SInv says of a request is its handler's own doing. *)

Straight(q) == q.pc \notin {"revert", "restore", "delete_remove", "delete_removing"}

LEMMA StraightKeeps ==
  ASSUME OneFault, WInv, NEW r \in Slots, NEW p, Continue(r, p), Straight(p)
  PROVE  SInv'
<1>1. req'[r] = p /\ \A o \in Slots : o = r
  BY DEF WInv, WebhookTypeOK, Continue, OneFault
<1> QED
  BY <1>1 DEF Straight, SInv, TurnsBack

LEMMA StraightOn ==
  ASSUME NEW q \in AnyRequest, NEW after, NEW pc, NEW todo, NEW got
  PROVE  /\ Straight(Idle) /\ Straight(Admit(q))
         /\ pc \notin {"revert", "restore", "delete_remove", "delete_removing"} =>
              Straight(At(q, pc)) /\ Straight(Loop(q, pc, todo))
         /\ Straight(q) /\ Straight(after) =>
              Straight(NextOf(q, after)) /\ Straight(NextOf([q EXCEPT !.got = got], after))
<1>1. Straight(Idle)
  BY DEF Straight, Idle
<1>2. /\ Straight(Admit(q))
      /\ pc \notin {"revert", "restore", "delete_remove", "delete_removing"} =>
           Straight(At(q, pc)) /\ Straight(Loop(q, pc, todo))
  BY Fields DEF Straight
<1>3. Straight(q) /\ Straight(after) =>
        Straight(NextOf(q, after)) /\ Straight(NextOf([q EXCEPT !.got = got], after))
  BY DEF Straight, NextOf, AnyRequest
<1> QED
  BY <1>1, <1>2, <1>3

LEMMA UpdatesStraight ==
  ASSUME NEW q \in AnyRequest
  PROVE  /\ Straight(ToReleaseOld(q)) /\ Straight(ToPoolAdd(q)) /\ Straight(ToPoolRemove(q))
         /\ Straight(ToRekey(q)) /\ Straight(ToRegister(q))
         /\ Straight(ToUndoFirst(q)) /\ Straight(ToUndoNew(q))
<1>1. Straight(ToPoolRemove(q)) /\ Straight(ToUndoFirst(q)) /\ Straight(ToUndoNew(q))
  BY StraightOn DEF ToPoolRemove, ToUndoFirst, ToUndoNew
<1>2. Straight(ToPoolAdd(q))
  BY <1>1, StraightOn DEF ToPoolAdd
<1>3. Straight(ToReleaseOld(q))
  BY <1>2, StraightOn DEF ToReleaseOld
<1>4. Straight(ToRekey(q))
  <2>1. [Loop(q, "rekey", KeepPrefixes(q)) EXCEPT !.got = <<>>].pc = "rekey"
    BY DEF Loop, AnyRequest
  <2> QED
    BY <1>3, <2>1 DEF ToRekey, Straight
<1>5. Straight(ToRegister(q))
  BY <1>4, StraightOn DEF ToRegister
<1> QED
  BY <1>1, <1>2, <1>3, <1>4, <1>5

LEMMA DefaultsStraight ==
  ASSUME NEW q \in AnyRequest
  PROVE  Straight(Defaulted(q)) /\ Straight(AfterV4(q)) /\ Straight(Allocate(q))
<1>1. Straight(Defaulted(q))
  BY WebhookAssumption DEF Defaulted, AnyRequest, Straight
<1>2. Straight(At(q, "request_v4")) /\ Straight(At(q, "request_v6"))
  BY StraightOn
<1> QED
  BY <1>1, <1>2 DEF AfterV4, Allocate

\* A call to the IPAM API, after which the handler goes on straight.
LEMMA AsksStraight ==
  ASSUME OneFault, WInv, NEW r \in Slots, NEW a, NEW ann, NEW from, NEW to, NEW p, NEW x,
         \/ UpdateAddress(r, a, ann, p, x)
         \/ RemoveAddress(r, a, ann, p)
         \/ UpdateSecret(r, a, ann, from, to, p, x),
         Straight(p), Straight(x)
  PROVE  SInv'
<1>1. Continue(r, p) \/ Continue(r, x)
  BY DEF UpdateAddress, RemoveAddress, DeleteIP, Decide, UpdateSecret, Ask
<1> QED
  BY <1>1, StraightKeeps

LEMMA DefaultSteady ==
  ASSUME OneFault, WInv, BInv, NEW r \in Slots,
         Default(r) \/ RequestV4(r) \/ RequestV6(r) \/ UndoV4(r)
  PROVE  SInv'
<1> DEFINE q == req[r]
<1>1. q.pc \in DefaultPhases
  BY DEF Default, RequestV4, RequestV6, UndoV4, DefaultPhases
<1>2. Defaulting(ipam, q) /\ InDefault(q) /\ q \in AnyRequest /\ Sane(ipam)
  BY <1>1, AtDefault DEF Defaulting, InDefault
<1>3. CASE Default(r)
  <2> DEFINE x == AsLB(q)
  <2>1. x \in AnyRequest
    BY <1>2 DEF AsLB, InDefault, AnyRequest, AnyService
  <2>2. Decide(r, Idle) \/ Decide(r, Allocate(x)) \/ Decide(r, Defaulted(q))
    BY <1>3 DEF Default
  <2> HIDE DEF x
  <2> QED
    BY <1>2, <2>1, <2>2, DefaultsStraight, StraightOn, StraightKeeps DEF Decide
<1>4. ASSUME NEW family, NEW failed, GetAddress(r, family, failed), Straight(failed)
      PROVE  SInv'
  <2>1. ASSUME NEW a \in Addrs, Continue(r, AfterFamily(WithAddress(q, a), family))
        PROVE  SInv'
    <3> DEFINE x == WithAddress(q, a)
    <3>1. x \in AnyRequest
      BY <1>2, WithAddressType DEF InDefault
    <3> HIDE DEF x
    <3>2. Straight(AfterFamily(x, family))
      BY <3>1, DefaultsStraight DEF AfterFamily
    <3> QED
      BY <2>1, <3>2, StraightKeeps DEF x
  <2> QED
    BY <1>2, <1>4, <2>1, GetAddressSpares, StraightKeeps
<1>5. CASE RequestV4(r)
  BY <1>2, <1>4, <1>5, StraightOn DEF RequestV4
<1>6. CASE RequestV6(r)
  BY <1>2, <1>4, <1>6, StraightOn DEF RequestV6
<1>7. CASE UndoV4(r)
  BY <1>2, <1>7, AsksStraight, StraightOn DEF UndoV4
<1> QED
  BY <1>3, <1>5, <1>6, <1>7

LEMMA CreateSteady ==
  ASSUME OneFault, WInv, BInv, NEW r \in Slots,
         StartCreate(r) \/ ValidateAddress(r) \/ RollbackCreate(r) \/ CreatePoolGet(r)
  PROVE  SInv'
<1> DEFINE q == req[r]
<1>1. /\ q.pc \in {"create", "validate", "rollback", "create_pool"}
      /\ q.pc \in CreatePhases \ {"admitted"}
  BY DEF StartCreate, ValidateAddress, RollbackCreate, CreatePoolGet, CreatePhases
<1>2. q \in AnyRequest /\ Straight(q)
  BY <1>1, Handled DEF CreatePhases, Straight
<1>3. CASE StartCreate(r)
  BY <1>2, <1>3, StraightOn, StraightKeeps DEF StartCreate, Decide
<1>4. CASE ValidateAddress(r)
  <2>1. Straight(CreateRefused(q)) /\ Straight(Loop(q, "create_pool", <<>>))
    BY <1>2, StraightOn DEF CreateRefused
  <2>2. Straight(NextOf([q EXCEPT !.got = Append(q.got, Head(q.todo))], Loop(q, "create_pool", <<>>)))
    BY <1>2, <2>1, StraightOn
  <2> QED
    BY <1>4, <2>1, <2>2, AsksStraight DEF ValidateAddress
<1>5. CASE RollbackCreate(r)
  <2>1. Straight(NextOf(q, Idle))
    BY <1>2, StraightOn
  <2> QED
    BY <1>5, <2>1, AsksStraight DEF RollbackCreate
<1>6. CASE CreatePoolGet(r)
  BY <1>2, <1>6, StraightOn, StraightKeeps DEF CreatePoolGet
<1> QED
  BY <1>3, <1>4, <1>5, <1>6

\* All of an update's but the change of secret.
LEMMA UpdateSteady ==
  ASSUME OneFault, WInv, BInv, NEW r \in Slots,
         \/ StartUpdate(r) \/ ValidateNew(r) \/ UndoFirst(r) \/ RevertSecret(r) \/ UndoNew(r)
         \/ ReleaseOld(r) \/ UpdatePoolGet(r) \/ UpdateVerify(r) \/ UpdateRemoveGet(r)
  PROVE  SInv'
<1> DEFINE q == req[r]
<1>1. q.pc \in UpdatePhases \ {"admitted"}
  BY DEF StartUpdate, ValidateNew, UndoFirst, RevertSecret, UndoNew, ReleaseOld, UpdatePoolGet,
         UpdateVerify, UpdateRemoveGet, UpdatePhases
<1>2. q \in AnyRequest
  BY <1>1, AtUpdate
<1>3. CASE StartUpdate(r)
  BY <1>2, <1>3, StraightOn, UpdatesStraight, StraightKeeps DEF StartUpdate, Decide
<1>4. CASE ValidateNew(r)
  <2>1. Straight(NextOf(q, ToRekey(q))) /\ Straight(ToUndoFirst(q))
    BY <1>2, <1>4, StraightOn, UpdatesStraight DEF ValidateNew, Straight
  <2> QED
    BY <1>4, <2>1, AsksStraight DEF ValidateNew
<1>5. CASE UndoFirst(r)
  BY <1>2, <1>5, StraightOn, AsksStraight DEF UndoFirst
<1>6. CASE RevertSecret(r)
  <2>1. Straight(ToUndoNew(q))
    BY <1>2, UpdatesStraight
  <2> QED
    BY <1>6, <2>1, AsksStraight DEF RevertSecret
<1>7. CASE UndoNew(r)
  <2>1. Straight(NextOf(q, Idle))
    BY <1>2, <1>7, StraightOn DEF UndoNew, Straight
  <2> QED
    BY <1>7, <2>1, AsksStraight DEF UndoNew
<1>8. CASE ReleaseOld(r)
  <2>1. Straight(NextOf(q, ToPoolAdd(q)))
    BY <1>2, <1>8, StraightOn, UpdatesStraight DEF ReleaseOld, Straight
  <2> QED
    BY <1>8, <2>1, AsksStraight DEF ReleaseOld
<1>9. CASE UpdatePoolGet(r) \/ UpdateVerify(r) \/ UpdateRemoveGet(r)
  <2>1. \/ Continue(r, At(q, "update_pooling")) \/ Continue(r, At(q, "update_remove"))
        \/ Continue(r, At(q, "update_removing")) \/ Continue(r, Admit(q))
    BY <1>9 DEF UpdatePoolGet, UpdateVerify, UpdateRemoveGet, Decide
  <2> QED
    BY <1>2, <2>1, StraightOn, StraightKeeps
<1> QED
  BY <1>3, <1>4, <1>5, <1>6, <1>7, <1>8, <1>9

LEMMA ChangeSecretSteady ==
  ASSUME OneFault, WInv, BInv, NEW r \in Slots, ChangeSecret(r)
  PROVE  SInv'
<1> DEFINE q == req[r]
           p == NextOf([q EXCEPT !.got = Append(@, Head(q.todo))], ToReleaseOld(q))
           x == IF Len(q.got) = 1 THEN At(q, "revert") ELSE ToUndoNew(q)
<1>1. q.pc = "rekey" /\ q.pc \in UpdatePhases \ {"admitted"}
  BY DEF ChangeSecret, UpdatePhases
<1>2. q \in AnyRequest /\ Straight(q)
  BY <1>1, AtUpdate DEF Straight
<1>3. Straight(p)
  <2>1. Straight(NextOf([q EXCEPT !.got = Append(q.got, Head(q.todo))], ToReleaseOld(q)))
    BY <1>2, StraightOn, UpdatesStraight
  <2> QED
    BY <2>1
<1>4. \/ Continue(r, p)
      \/ /\ Continue(r, x)
         /\ \/ ~(/\ Sendable(Head(q.todo), q.new.ann)
                 /\ CanRekey(Head(q.todo), q.new.ann.zone, q.old.ann.secret))
            \/ faults < MaxFaults /\ faults' = faults + 1
  BY DEF ChangeSecret, UpdateSecret, Ask
<1>5. SecretsLast /\ q.got # <<>> =>
        /\ Sendable(Head(q.todo), q.new.ann)
        /\ CanRekey(Head(q.todo), q.new.ann.zone, q.old.ann.secret)
  BY <1>1, SecondRekeys
<1> HIDE DEF p
<1>6. CASE Continue(r, p)
  BY <1>3, <1>6, StraightKeeps
<1>7. CASE Continue(r, x) /\ Len(q.got) # 1
  BY <1>2, <1>7, UpdatesStraight, StraightKeeps
<1>8. CASE Continue(r, x) /\ Len(q.got) = 1 /\ ~Continue(r, p)
  <2>1. req'[r] = At(q, "revert") /\ \A o \in Slots : o = r
    BY <1>8 DEF WInv, WebhookTypeOK, Continue, OneFault
  <2>2. req'[r].pc = "revert"
    BY <1>2, <2>1, Fields
  <2>3. q.got # <<>>
    BY <1>8
  <2>4. SecretsLast => faults < MaxFaults /\ faults' = faults + 1
    BY <1>4, <1>5, <1>8, <2>3
  <2>5. SecretsLast => faults' = MaxFaults
    BY <2>4 DEF OneFault, WInv, WebhookTypeOK
  <2>6. SecretsLast' <=> SecretsLast
    BY DEF SecretsLast, OneSecret, OneService, FewFaults, OneFault
  <2> QED
    BY <2>1, <2>2, <2>5, <2>6 DEF SInv, TurnsBack
<1> QED
  BY <1>4, <1>6, <1>7, <1>8

LEMMA DeleteSteady ==
  ASSUME OneFault, WInv, BInv, SInv, NEW r \in Slots,
         \/ StartDelete(r) \/ ReleaseAddress(r) \/ DeleteVerify(r) \/ DeleteRemoveGet(r)
         \/ RestoreAddress(r)
  PROVE  SInv'
<1> DEFINE q == req[r]
<1>1. q.pc \in DeletePhases \ {"admitted"}
  BY DEF StartDelete, ReleaseAddress, DeleteVerify, DeleteRemoveGet, RestoreAddress, DeletePhases
<1>2. q \in AnyRequest /\ q.old.ann.zone \in Zones
  BY <1>1, AtDelete DEF AnyAnn
<1>3. \A p : Continue(r, p) => req'[r] = p
  BY DEF WInv, WebhookTypeOK, Continue
<1>4. (\A o \in Slots : o = r) /\ ~InformerLag /\ pools \in [Zones -> Pool!Pool]
  BY DEF WInv, WebhookTypeOK, Pool!PoolTypeOK, OneFault
<1>5. CASE StartDelete(r)
  BY <1>2, <1>5, StraightOn, StraightKeeps DEF StartDelete, Decide
<1>6. CASE ReleaseAddress(r)
  <2>1. Straight(NextOf(q, Loop(q, "delete_verify", <<>>)))
    BY <1>2, <1>6, StraightOn DEF ReleaseAddress, Straight
  <2> QED
    BY <1>6, <2>1, AsksStraight DEF ReleaseAddress
<1>7. CASE DeleteVerify(r)
  <2>1. CASE Continue(r, Admit(q))
    BY <1>2, <2>1, StraightOn, StraightKeeps
  <2>2. CASE /\ Pool!VerifyIpAddressesInPool(q.old.ann.zone, SetOf(q.old.ann.addrs))
             /\ Continue(r, At(q, "delete_remove"))
    <3>1. pools[q.old.ann.zone] # Pool!Absent
      BY <1>4, <2>2 DEF Pool!VerifyIpAddressesInPool, Pool!SeenPool, Pool!Absent
    <3>2. req'[r].pc = "delete_remove" /\ req'[r].old = q.old
      BY <1>2, <1>3, <2>2, Fields, FollowsCarries
    <3>3. UNCHANGED pools
      BY <1>7 DEF DeleteVerify, Decide, poolVars
    <3> QED
      BY <1>4, <3>1, <3>2, <3>3 DEF SInv, TurnsBack, Pool!Absent
  <2> QED
    BY <1>7, <2>1, <2>2 DEF DeleteVerify, Decide
<1>8. CASE DeleteRemoveGet(r)
  <2>1. pools[q.old.ann.zone] # Pool!Absent
    BY <1>8 DEF DeleteRemoveGet, SInv
  <2>2. req'[r].pc = "delete_removing"
    BY <1>2, <1>3, <1>8, Fields DEF DeleteRemoveGet
  <2>3. /\ call' = [call EXCEPT ![r] = [pc |-> "listing", zone |-> q.old.ann.zone,
                                        addrs |-> SetOf(q.old.ann.addrs),
                                        read |-> pools[q.old.ann.zone], unused |-> {}]]
        /\ UNCHANGED pools
    BY <1>4, <1>8, <2>1 DEF DeleteRemoveGet, Pool!RemoveGet, Pool!SeenPool
  <2>4. TakesOut(call[r])'
    <3>1. r \in DOMAIN call
      BY DEF WInv, WebhookTypeOK, Pool!PoolTypeOK
    <3> QED
      BY <2>1, <2>3, <3>1 DEF TakesOut, Pool!Absent
  <2> QED
    BY <1>4, <2>2, <2>4 DEF SInv, TurnsBack
<1>9. CASE RestoreAddress(r)
  <2> DEFINE p == NextOf(q, Idle)
  <2>1. faults = MaxFaults /\ MaxFaults \in Nat
    BY <1>9, WebhookAssumption DEF RestoreAddress, SInv, TurnsBack
  <2>2. ~(faults < MaxFaults)
    BY <2>1
  <2>3. faults' = faults /\ (Continue(r, p) \/ Continue(r, Idle))
    BY <1>9, <2>2 DEF RestoreAddress, UpdateAddress, Ask
  <2>4. req'[r].pc \in {"restore", "idle"}
    BY <1>2, <1>3, <1>9, <2>3 DEF RestoreAddress, NextOf, AnyRequest, Idle
  <2> QED
    BY <1>4, <2>1, <2>3, <2>4 DEF SInv, TurnsBack
<1> QED
  BY <1>5, <1>6, <1>7, <1>8, <1>9

\* A pool that a delete has read is still as it read it when it writes.
LEMMA PoolStepSteady ==
  ASSUME OneFault, WInv, SInv, NEW r \in Slots, PoolStep(r)
  PROVE  SInv'
<1> DEFINE c == call[r]
<1>1. /\ UNCHANGED req /\ \A o \in Slots : o = r
      /\ call \in [Slots -> Pool!Call] /\ pools \in [Zones -> Pool!Pool]
  BY DEF PoolStep, OneFault, WInv, WebhookTypeOK, Pool!PoolTypeOK
<1>2. c.pc \in Pool!Running
  BY DEF PoolStep, Pool!AddWrite, Pool!RemoveList, Pool!RemoveWrite, Pool!CallFails,
         Pool!AnswerLost, Pool!Running
<1>3. req[r].pc \in PoolPhases
  BY <1>2 DEF WInv, WebhookTypeOK, Pool!Running, Idle
<1>4. CASE req[r].pc # "delete_removing"
  BY <1>1, <1>3, <1>4 DEF SInv, TurnsBack, PoolPhases
<1>5. CASE req[r].pc = "delete_removing"
  <2>1. TakesOut(c)
    BY <1>5 DEF SInv
  <2>2. c.pc \in {"listing", "removing"} /\ c.read = pools[c.zone] /\ c.read # Pool!Absent
    BY <1>2, <2>1 DEF TakesOut, Pool!Running
  <2>3. c \in Pool!Removing
    BY <1>1, <2>2 DEF Pool!Call, Pool!Adding
  <2>4. TakesOut(c)'
    <3>1. CASE Pool!AddWrite(r, "ok")
      BY <2>2, <3>1 DEF Pool!AddWrite
    <3>2. CASE Pool!RemoveList(r)
      <4>1. /\ c'.pc = "removing" /\ c'.read = c.read /\ c'.zone = c.zone /\ UNCHANGED pools
        BY <1>1, <2>3, <3>2 DEF Pool!RemoveList, Pool!Removing
      <4> QED
        BY <2>2, <4>1 DEF TakesOut, Pool!Absent
    <3>3. CASE Pool!RemoveWrite(r, "ok")
      <4>1. Pool!Answer(r, "ok")
        BY <2>2, <3>3 DEF Pool!RemoveWrite, Pool!DeletePool, Pool!DeleteConflicts,
                          Pool!UpdatePool, Pool!UpdateConflicts
      <4>2. c'.pc = "ok"
        BY <1>1, <4>1 DEF Pool!Answer
      <4> QED
        BY <4>2 DEF TakesOut
    <3>4. CASE Pool!CallFails(r) /\ faults < MaxFaults /\ faults' = faults + 1
      <4>1. c'.pc = "error"
        BY <1>1, <3>4 DEF Pool!CallFails, Pool!Answer
      <4>2. faults' = MaxFaults
        BY <3>4 DEF OneFault, WInv, WebhookTypeOK
      <4> QED
        BY <4>1, <4>2 DEF TakesOut
    <3> QED
      BY <3>1, <3>2, <3>3, <3>4 DEF PoolStep, OneFault
  <2> QED
    BY <1>1, <1>5, <2>4 DEF SInv, TurnsBack
<1> QED
  BY <1>4, <1>5

LEMMA PoolReturnSteady ==
  ASSUME OneFault, WInv, SInv, NEW r \in Slots, PoolReturn(r)
  PROVE  SInv'
<1> DEFINE q == req[r]
           result == call[r].pc
<1>1. /\ result \in {"ok", "error"} /\ Continue(r, AfterPool(q, result)) /\ UNCHANGED faults
      /\ \A o \in Slots : o = r
  BY DEF PoolReturn, PoolUnchanged, OneFault
<1>2. q.pc \in PoolPhases
  BY <1>1 DEF WInv, WebhookTypeOK, Idle
<1>3. q \in AnyRequest
  BY <1>2 DEF WInv, WebhookTypeOK, PoolPhases, Idle
<1>4. CASE q.pc = "delete_removing" /\ result = "error"
  <2>1. faults = MaxFaults
    BY <1>4 DEF SInv, TakesOut
  <2>2. req'[r].pc = "restore"
    <3>1. req'[r] = Loop(q, "restore", OldAddrs(q))
      BY <1>1, <1>4 DEF AfterPool, Continue, WInv, WebhookTypeOK
    <3> QED
      BY <1>3, <3>1, Fields
  <2> QED
    BY <1>1, <2>1, <2>2 DEF SInv, TurnsBack
<1>5. CASE ~(q.pc = "delete_removing" /\ result = "error")
  <2>1. Straight(AfterPool(q, result))
    BY <1>1, <1>2, <1>3, <1>5, StraightOn, UpdatesStraight DEF AfterPool, PoolPhases
  <2> QED
    BY <1>1, <2>1, StraightKeeps
<1> QED
  BY <1>4, <1>5

LEMMA ServerSteady ==
  ASSUME OneFault, WInv, BInv, NEW r \in Slots,
         SubmitAny(r) \/ Commit(r) \/ EntryFails(r)
  PROVE  SInv'
<1>1. CASE SubmitAny(r)
  <2>1. ASSUME NEW pc \in {"default", "delete"}, NEW op, NEW s, NEW old, NEW new,
               Submit(r, pc, op, s, old, new)
        PROVE  SInv'
    BY <2>1, StraightKeeps DEF Submit, Straight
  <2>2. \E pc \in {"default", "delete"} : \E op, s, old, new : Submit(r, pc, op, s, old, new)
    BY <1>1 DEF SubmitAny, SubmitCreate, SubmitUpdate, SubmitDelete
  <2> QED
    BY <2>1, <2>2
<1>2. CASE Commit(r)
  <2>1. req'[r] = Idle /\ \A o \in Slots : o = r
    BY <1>2 DEF Commit, AfterCommit, OneFault
  <2> QED
    BY <2>1 DEF SInv, TurnsBack, Idle
<1>3. CASE EntryFails(r)
  <2>1. Straight(Idle)
    BY DEF Straight, Idle
  <2> QED
    BY <1>3, <2>1, StraightKeeps DEF EntryFails, Finish
<1> QED
  BY <1>1, <1>2, <1>3

LEMMA NextSteady ==
  ASSUME WInv, BInv, SInv, [Next]_vars
  PROVE  SInv'
<1>1. CASE ~OneFault
  <2>1. ~OneFault'
    BY <1>1 DEF OneFault
  <2> QED
    BY <2>1 DEF SInv
<1>2. CASE OneFault
  <2>1. ASSUME NEW r \in Slots, Handle(r) PROVE SInv'
    <3>1. CASE Default(r) \/ RequestV4(r) \/ RequestV6(r) \/ UndoV4(r)
      BY <1>2, <3>1, DefaultSteady
    <3>2. CASE StartCreate(r) \/ ValidateAddress(r) \/ RollbackCreate(r) \/ CreatePoolGet(r)
      BY <1>2, <3>2, CreateSteady
    <3>3. CASE StartUpdate(r) \/ ValidateNew(r) \/ UndoFirst(r) \/ ChangeSecret(r)
               \/ RevertSecret(r) \/ UndoNew(r) \/ ReleaseOld(r) \/ UpdatePoolGet(r)
               \/ UpdateVerify(r) \/ UpdateRemoveGet(r)
      BY <1>2, <3>3, UpdateSteady, ChangeSecretSteady
    <3>4. CASE StartDelete(r) \/ ReleaseAddress(r) \/ DeleteVerify(r) \/ DeleteRemoveGet(r)
               \/ RestoreAddress(r)
      BY <1>2, <3>4, DeleteSteady
    <3>5. CASE PoolStep(r) \/ PoolReturn(r)
      BY <1>2, <3>5, PoolStepSteady, PoolReturnSteady
    <3>6. CASE Commit(r) \/ Conflict(r) \/ Unheard(r)
      BY <1>2, <3>6, ServerSteady, NeverUnanswered
    <3> QED
      BY <2>1, <3>1, <3>2, <3>3, <3>4, <3>5, <3>6 DEF Handle
  <2>2. ASSUME NEW r \in Slots, SubmitAny(r) \/ Abandon(r) \/ EntryFails(r) PROVE SInv'
    BY <1>2, <2>2, ServerSteady, NeverUnanswered
  <2>3. ~Crash /\ ~SyncPools /\ ~SyncServices
    BY <1>2 DEF OneFault, Crash, SyncPools, SyncServices
  <2>4. ASSUME UNCHANGED vars PROVE SInv'
    <3>1. UNCHANGED <<req, faults, pools, call>>
      BY <2>4 DEF vars
    <3> QED
      BY <1>2, <3>1 DEF SInv, TurnsBack, TakesOut, OneFault, Pool!Absent,
                        SecretsLast, OneSecret, OneService, FewFaults
  <2> QED
    BY <2>1, <2>2, <2>3, <2>4 DEF Next, Rest
<1> QED
  BY <1>1, <1>2

----------------------------------------------------------------------------
(* The theorems. *)

LEMMA HandleKeeps ==
  ASSUME WInv, BInv, SInv, NEW r \in Slots, Handle(r)
  PROVE  BInv' /\ GivenUpByOwner
<1>1. CASE Default(r) \/ RequestV4(r) \/ RequestV6(r) \/ UndoV4(r)
  BY <1>1, DefaultKeeps, RequestV4Keeps, RequestV6Keeps, UndoV4Keeps
<1>2. CASE StartCreate(r) \/ ValidateAddress(r) \/ RollbackCreate(r) \/ CreatePoolGet(r)
  BY <1>2, StartCreateKeeps, ValidateAddressKeeps, RollbackCreateKeeps, CreatePoolGetKeeps
<1>3. CASE StartUpdate(r) \/ ValidateNew(r) \/ UndoFirst(r) \/ ChangeSecret(r)
           \/ RevertSecret(r) \/ UndoNew(r) \/ ReleaseOld(r) \/ UpdatePoolGet(r)
           \/ UpdateVerify(r) \/ UpdateRemoveGet(r)
  BY <1>3, StartUpdateKeeps, ValidateNewKeeps, UndoFirstKeeps, ChangeSecretKeeps,
     RevertSecretKeeps, UndoNewKeeps, ReleaseOldKeeps, UpdatePoolGetKeeps, UpdateVerifyKeeps,
     UpdateRemoveGetKeeps
<1>4. CASE StartDelete(r) \/ ReleaseAddress(r) \/ DeleteVerify(r) \/ DeleteRemoveGet(r)
           \/ RestoreAddress(r)
  BY <1>4, StartDeleteKeeps, ReleaseAddressKeeps, DeleteVerifyKeeps, RestoreAddressKeeps
<1>5. CASE PoolStep(r)
  BY <1>5, Undisturbed DEF PoolStep
<1>6. CASE PoolReturn(r)
  BY <1>6, PoolReturnKeeps
<1>7. CASE Commit(r) \/ Conflict(r) \/ Unheard(r)
  BY <1>7, CommitKeeps, NeverUnanswered
<1> QED
  BY <1>1, <1>2, <1>3, <1>4, <1>5, <1>6, <1>7 DEF Handle

LEMMA NextKeeps ==
  ASSUME WInv, BInv, SInv, [Next]_vars
  PROVE  BInv' /\ GivenUpByOwner
<1>1. ASSUME NEW r \in Slots, SubmitAny(r) \/ Handle(r) \/ Abandon(r) \/ EntryFails(r)
      PROVE  BInv' /\ GivenUpByOwner
  BY <1>1, SubmitAnyKeeps, HandleKeeps, NeverUnanswered, EntryFailsKeeps
<1>2. CASE Crash
  BY <1>2, CrashKeeps
<1>3. CASE SyncPools \/ SyncServices \/ Rest \/ UNCHANGED vars
  <2>1. UNCHANGED <<req, store, ipam>>
    BY <1>3 DEF SyncPools, SyncServices, Rest, vars
  <2> QED
    BY <2>1, Undisturbed
<1> QED
  BY <1>1, <1>2, <1>3 DEF Next

LEMMA InitSecured == BindingsLast /\ Init => BInv /\ SInv
<1> SUFFICES ASSUME BindingsLast, Init PROVE BInv /\ SInv
  OBVIOUS
<1>1. \A r \in Slots : ~Active(r)
  BY DEF Init, Active, Idle
<1>2. Sane(ipam)
  BY DEF Init, IpamInit, Sane, Unbound
<1>3. \A s \in Services : store[s] = NoService
  BY DEF Init
<1>4. SInv
  BY DEF Init, Idle, SInv, TurnsBack
<1> QED
  BY <1>1, <1>2, <1>3, <1>4 DEF BInv, Alone

(* BInv is inductive, with SInv where a call may fail: what each handler may
   still give back, and what it must not, stays true whatever other handlers
   do, and no handler that turns back is let down. *)
THEOREM BindingsInvariance ==
  ASSUME BindingsLast
  PROVE  Spec => [](BInv /\ SInv)
<1>1. WInv /\ BInv /\ SInv /\ [Next]_vars => BInv' /\ SInv'
  BY NextKeeps, NextSteady
<1> QED
  BY <1>1, InitSecured, WebhookInvariance, PTL DEF Spec

(* The IPAM API has every address of a stored LoadBalancer Service bound to
   that Service whenever no request about it is in progress. *)
THEOREM StoredStayBound ==
  ASSUME BindingsLast
  PROVE  Spec => []StoredIsBound
<1>1. BInv => StoredIsBound
  BY DEF BInv, StoredIsBound, LbAddrs, Kept, Has, IsLB, NoService
<1>2. Spec => []BInv
  BY BindingsInvariance, PTL
<1> QED
  BY <1>1, <1>2, PTL

(* The operator can change or release the addresses of a stored LoadBalancer
   Service whenever no request about it is in progress: they are in its zone
   and under its secret. *)
THEOREM StoredStayManageable ==
  ASSUME BindingsLast, SecretsLast
  PROVE  Spec => []StoredIsManageable
<1>1. BInv => StoredIsManageable
  BY DEF BInv, StoredIsManageable, LbAddrs, Kept, Has, IsLB, NoService, CanUnbind, InZone
<1>2. Spec => []BInv
  BY BindingsInvariance, PTL
<1> QED
  BY <1>1, <1>2, PTL

(* Only a delete of the Service, or an update that drops the address, takes the
   binding of a stored Service's address away: no rollback of a denied create,
   update or delete does. *)
THEOREM RollbacksSpareStored ==
  ASSUME BindingsLast
  PROVE  Spec => RollbackSparesStored
<1>1. WInv /\ BInv /\ SInv /\ [Next]_vars => [GivenUpByOwner]_vars
  BY NextKeeps
<1>2. Spec => [](BInv /\ SInv)
  BY BindingsInvariance
<1> QED
  BY <1>1, <1>2, WebhookInvariance, PTL DEF Spec, RollbackSparesStored
=============================================================================
