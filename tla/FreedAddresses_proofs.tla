----------------------- MODULE FreedAddresses_proofs -----------------------
(***************************************************************************)
(* Proofs that the IPAM API is left with nothing that no Service uses:     *)
(* when no request is in progress, what it has bound to a Service is what  *)
(* the stored Service lists.                                               *)
(*                                                                         *)
(* On every way out of a handler it has to give back what it may have      *)
(* bound and is not going to be stored, and has to be able to: the address *)
(* is held in the zone and under the secret that the release names.        *)
(***************************************************************************)
EXTENDS PooledServices_proofs

(* Nothing is left behind.  One request at a time, whose calls do not fail: a
   create that its pool denies leaves its addresses bound, and so does every
   release that fails.  Parameters that parse, or a release is not even sent,
   and secrets that nobody else changes, or it is refused.  And no Service that
   asks for both families: when its IPv6 address is refused, Default gives its
   IPv4 address back by the prefix it was answered, and that is never sent. *)
NothingLeft == /\ Serial /\ BindingsLast /\ SecretsLast
               /\ ValidParams \subseteq {TRUE} /\ "dual" \notin Families

----------------------------------------------------------------------------
(* The invariant.  d is the IPAM API's state, as in BInv. *)

\* What is bound to Service s, what a Service lists, and what a request has
\* bound that the stored version does not list.
Owned(d, s) == {a \in Addrs : s \in d[a].svcs}
ListedBy(svc) == IF IsLB(svc) THEN SetOf(svc.ann.addrs) ELSE {}
Extra(d, q) == Owned(d, q.svc) \ ListedBy(q.old)

\* A release of any address in A as ann names it would be granted.
Freeable(d, q, A, ann) == \A a \in A : Has(d, q.svc, a, ann)

\* Nothing of A is bound, or the first address of the list is: the handlers
\* bind in order.
InOrder(A, seq) == A \subseteq SetOf(seq) /\ (A # {} => seq[1] \in A)

\* Default asks for one address, and goes on once it has it.
DefaultFrugal(d, q) ==
  /\ Extra(d, q) = {} /\ q.got = <<>> /\ q.pc # "undo_v4"
  /\ q.pc = "request_v4" => q.new.ann.family = "ipv4"

CreateFrugal(d, q) ==
  LET mine == Owned(d, q.svc) IN
  /\ Freeable(d, q, mine, q.new.ann)
  /\ q.pc = "create" => InOrder(mine, q.new.ann.addrs) /\ q.got = <<>>
  /\ q.pc = "validate" =>
       /\ mine \subseteq SetOf(q.new.ann.addrs) /\ SetOf(q.todo) \subseteq SetOf(q.new.ann.addrs)
       /\ q.todo # <<>> /\ (Head(q.todo) \in mine \/ mine \subseteq SetOf(q.got))
       /\ Len(q.todo) > 1 => q.todo = q.new.ann.addrs /\ q.got = <<>>
  /\ q.pc = "rollback" => mine \subseteq SetOf(q.todo) /\ q.todo # <<>>
  /\ q.pc \in {"create_pool", "create_pooling", "admitted"} => mine \subseteq SetOf(q.new.ann.addrs)

UpdateFrugal(d, q) ==
  LET mine == Owned(d, q.svc)
      extra == Extra(d, q)
  IN
  /\ q.pc \in {"update", "register", "undo_first"} => Freeable(d, q, extra, q.new.ann)
  /\ q.pc = "update" => InOrder(extra, NewPrefixes(q))
  /\ q.pc = "register" =>
       /\ extra \subseteq NewOnes(q) /\ SetOf(q.todo) \subseteq NewOnes(q)
       /\ q.todo # <<>> /\ (Head(q.todo) \in extra \/ extra \subseteq {NewPrefixes(q)[1]})
       /\ Len(q.todo) > 1 => q.todo = NewPrefixes(q)
  /\ q.pc = "undo_first" => NewPrefixes(q) # <<>> /\ extra \subseteq {NewPrefixes(q)[1]}
  /\ q.pc \notin {"revert", "undo_new"}
  /\ q.pc = "rekey" => extra \subseteq NewOnes(q)
  /\ q.pc \in {"rekey", "release_old"} =>
       Freeable(d, q, mine \ SetOf(q.new.ann.addrs), q.old.ann)
  /\ q.pc = "release_old" => mine \subseteq SetOf(q.new.ann.addrs) \cup SetOf(q.todo)
  /\ q.pc \in AfterEffects \ {"release_old"} => mine \subseteq SetOf(q.new.ann.addrs)

DeleteFrugal(d, q) ==
  LET mine == Owned(d, q.svc) IN
  /\ q.pc \in {"delete", "release", "restore"} => mine \subseteq SetOf(q.old.ann.addrs)
  /\ q.pc = "release" => mine \subseteq SetOf(q.todo) /\ q.todo # <<>>
  /\ q.pc \in {"delete_verify", "delete_remove", "delete_removing", "admitted"} => mine = {}

Frugal(d, q) ==
  /\ q.pc \in DefaultPhases => DefaultFrugal(d, q)
  /\ q.op = "create" /\ q.pc \notin DefaultPhases => CreateFrugal(d, q)
  /\ q.op = "update" /\ q.pc \notin DefaultPhases => UpdateFrugal(d, q)
  /\ q.op = "delete" => DeleteFrugal(d, q)

FInv ==
  /\ NothingLeft
  /\ \A s \in Services : Quiet(s) => Owned(ipam, s) \subseteq ListedBy(store[s])
  /\ \A r \in Slots : Active(r) => Frugal(ipam, req[r])
  /\ \A r \in Slots : req[r].pc = "create_pooling" => call[r].pc # "error"

----------------------------------------------------------------------------
(* Lists of addresses. *)

(* Only keeps the first element of its sequence first, when it keeps it. *)
LEMMA OnlyFirst ==
  ASSUME NEW X, NEW seq \in Seq(X), NEW S, seq # <<>>, seq[1] \in S
  PROVE  Only(seq, S) # <<>> /\ Only(seq, S)[1] = seq[1]
<1> DEFINE N == Len(seq)
<1>1. N \in Nat /\ N # 0 /\ \A i \in 1..N : seq[i] \in X
  OBVIOUS
<1>2. PICK f : /\ Only(seq, S) = f[Len(seq)] /\ f[0] = <<>>
               /\ \A n \in 0..Len(seq) : f[n] \in Seq(X)
               /\ \A n \in 1..Len(seq) :
                    f[n] = IF seq[n] \in S THEN Append(f[n - 1], seq[n]) ELSE f[n - 1]
  BY OnlyRuns
<1>3. /\ Only(seq, S) = f[N] /\ f[0] = <<>> /\ \A n \in 0..N : f[n] \in Seq(X)
      /\ \A n \in 1..N : f[n] = IF seq[n] \in S THEN Append(f[n - 1], seq[n]) ELSE f[n - 1]
  BY <1>2
<1> HIDE DEF N
<1> DEFINE good(n) == f[n] # <<>> /\ f[n][1] = seq[1]
<1>4. good(1)
  <2>1. 1 \in 1..N /\ 1 - 1 = 0
    BY <1>1
  <2>2. f[1] = Append(<<>>, seq[1])
    BY <1>3, <2>1
  <2>3. Append(<<>>, seq[1]) = <<seq[1]>>
    OBVIOUS
  <2> QED
    BY <2>2, <2>3
<1>5. \A n \in 1..N : good(n)
  <2> DEFINE T == {n \in 1..N : ~good(n)}
  <2> SUFFICES ASSUME T # {} PROVE FALSE
    OBVIOUS
  <2>0. T \subseteq Nat
    BY <1>1
  <2> HIDE DEF T
  <2>1. PICK n \in T : \A i \in T : ~(i < n)
    BY <2>0, LeastNat
  <2> USE DEF T
  <2>2. n \in 1..N /\ n # 1 /\ n - 1 \in 1..N /\ n - 1 \in 0..N /\ n - 1 < n
    BY <1>1, <1>4, <2>1
  <2>3. good(n - 1)
    BY <2>1, <2>2
  <2>4. f[n - 1] \in Seq(X) /\ seq[n] \in X
    BY <1>1, <1>3, <2>2
  <2>5. ASSUME NEW s \in Seq(X), NEW x \in X, s # <<>>
        PROVE  Append(s, x) # <<>> /\ Append(s, x)[1] = s[1]
    BY <2>5
  <2>6. f[n] = f[n - 1] \/ f[n] = Append(f[n - 1], seq[n])
    BY <1>3, <2>2
  <2>7. good(n)
    BY <2>3, <2>4, <2>5, <2>6
  <2> QED
    BY <2>1, <2>7
<1>6. N \in 1..N
  BY <1>1
<1> QED
  BY <1>3, <1>5, <1>6

LEMMA PutFirst ==
  ASSUME NEW addrs \in Seq(Addrs), NEW a \in Addrs
  PROVE  {a} \cup SetOf(addrs) \subseteq SetOf(<<a>> \o addrs)
<1> DEFINE new == <<a>> \o addrs
<1>1. /\ 1 \in 1..Len(new) /\ new[1] = a
      /\ \A i \in 1..Len(addrs) : i + 1 \in 1..Len(new) /\ new[i + 1] = addrs[i]
  OBVIOUS
<1> HIDE DEF new
<1>2. \A i \in 1..Len(addrs) : addrs[i] \in SetOf(new)
  BY <1>1 DEF SetOf
<1>3. a \in SetOf(new)
  BY <1>1 DEF SetOf
<1> QED
  BY <1>2, <1>3 DEF SetOf, new

----------------------------------------------------------------------------
(* What the calls to the IPAM API do, when none fails: a call to bind that is
   refused binds nothing and was not needed to keep an address, and a release
   of what could be released takes it away. *)

\* Only the bindings of Service s grow.
OthersShrink(d, e, s) == \A t \in Services : t # s => Owned(e, t) \subseteq Owned(d, t)

\* What Service s can release it still can, but for address a.
StillFree(d, e, s, a) ==
  \A b \in Addrs : \A ann : b # a /\ Has(d, s, b, ann) => Has(e, s, b, ann)

LEMMA Reliable ==
  ASSUME NothingLeft
  PROVE  /\ MaxFaults = 0 /\ SecretsLast /\ BindingsLast /\ Serial /\ PoolsLast
         /\ \A ann \in AnyAnn : ann.valid /\ ann.family # "dual"
         /\ \A r, o \in Slots : r = o
  BY DEF NothingLeft, Serial, PoolsLast, AnyAnn

LEMMA NoFaults == ASSUME WInv, NothingLeft PROVE ~(faults < MaxFaults)
  BY Reliable DEF WInv, WebhookTypeOK

LEMMA NothingMoves ==
  ASSUME NEW d, NEW s, NEW a
  PROVE  OthersShrink(d, d, s) /\ StillFree(d, d, s, a)
  BY DEF OthersShrink, StillFree

LEMMA UpdateAddressBinds ==
  ASSUME WInv, NothingLeft, NEW r \in Slots, req[r].svc \in Services,
         NEW a, NEW ann \in AnyAnn, NEW granted, NEW failed,
         UpdateAddress(r, a, ann, granted, failed)
  PROVE  LET s == req[r].svc IN
         /\ UNCHANGED store /\ OthersShrink(ipam, ipam', s)
         /\ \/ /\ Continue(r, granted) /\ a \in Addrs /\ Has(ipam', s, a, ann)
               /\ Owned(ipam', s) = Owned(ipam, s) \cup {a}
               /\ \A b \in Addrs : \A x : Has(ipam, s, b, x) => Has(ipam', s, b, x)
            \/ /\ Continue(r, failed) /\ ipam' = ipam
               /\ a \in Addrs => ~Has(ipam, s, a, ann)
<1> DEFINE s == req[r].svc
           can == Sendable(a, ann) /\ CanBind(a, ann.zone, ann.secret)
<1>1. ann.valid /\ SecretsLast /\ ~(faults < MaxFaults) /\ ann.zone \in Zones
  BY Reliable, NoFaults DEF AnyAnn
<1>2. /\ UNCHANGED store
      /\ \/ can /\ ipam' = Bound(a, ann.secret, s) /\ Continue(r, granted)
         \/ ~can /\ ipam' = ipam /\ Continue(r, failed)
  BY <1>1 DEF UpdateAddress, Ask
<1>3. CASE can /\ ipam' = Bound(a, ann.secret, s) /\ Continue(r, granted)
  <2>1. a \in Prefix[ann.zone] /\ a \in Addrs
    BY <1>1, <1>3, IpamAssumption DEF CanBind, InZone
  <2>2. /\ ipam'[a] = [secret |-> ann.secret, svcs |-> ipam[a].svcs \cup {s}]
        /\ \A b \in Addrs : b # a => ipam'[b] = ipam[b]
    BY <1>3, <2>1 DEF WInv, WebhookTypeOK, Bound
  <2>3. Has(ipam', s, a, ann)
    BY <2>1, <2>2 DEF Has
  <2>4. Owned(ipam', s) = Owned(ipam, s) \cup {a} /\ OthersShrink(ipam, ipam', s)
    BY <2>1, <2>2 DEF Owned, OthersShrink
  <2>5. \A b \in Addrs : \A x : Has(ipam, s, b, x) => Has(ipam', s, b, x)
    <3>1. ipam[a].svcs = {} \/ ipam[a].secret = ann.secret
      BY <1>3 DEF CanBind
    <3> QED
      BY <2>2, <3>1 DEF Has
  <2> QED
    BY <1>2, <1>3, <2>1, <2>3, <2>4, <2>5
<1>4. CASE ~can /\ ipam' = ipam /\ Continue(r, failed)
  <2>1. a \in Addrs => ~Has(ipam, s, a, ann)
    BY <1>1, <1>4, NoAddrAssumption DEF Has, Sendable, CanBind, InZone
  <2> HIDE DEF can
  <2> QED
    BY <1>2, <1>4, <2>1, NothingMoves
<1> QED
  BY <1>2, <1>3, <1>4

LEMMA RemoveAddressFrees ==
  ASSUME WInv, NothingLeft, Sane(ipam), NEW r \in Slots, req[r].svc \in Services,
         NEW a, NEW ann \in AnyAnn, NEW next, RemoveAddress(r, a, ann, next)
  PROVE  LET s == req[r].svc IN
         /\ UNCHANGED store /\ OthersShrink(ipam, ipam', s) /\ StillFree(ipam, ipam', s, a)
         /\ Continue(r, next) /\ Owned(ipam', s) \subseteq Owned(ipam, s)
         /\ Has(ipam, s, a, ann) => a \notin Owned(ipam', s)
<1> DEFINE s == req[r].svc
           can == Sendable(a, ann) /\ CanUnbind(a, ann.zone, ann.secret)
<1>1. ann.valid /\ SecretsLast /\ ~(faults < MaxFaults) /\ ann.zone \in Zones
  BY Reliable, NoFaults DEF AnyAnn
<1>2. /\ UNCHANGED store /\ Continue(r, next)
      /\ \/ can /\ ipam' = Released(a, s)
         \/ ~can /\ ipam' = ipam
  BY <1>1 DEF RemoveAddress, DeleteIP, Ask, Decide
<1>3. CASE can /\ ipam' = Released(a, s)
  <2>1. a \in Addrs
    BY <1>1, <1>3, IpamAssumption DEF CanUnbind, InZone
  <2>2. /\ ipam'[a].svcs = ipam[a].svcs \ {s} /\ \A b \in Addrs : b # a => ipam'[b] = ipam[b]
    BY <1>3, <2>1 DEF WInv, WebhookTypeOK, Released, Unbound, Binding
  <2>3. /\ OthersShrink(ipam, ipam', s) /\ Owned(ipam', s) \subseteq Owned(ipam, s)
        /\ a \notin Owned(ipam', s)
    BY <2>2 DEF OthersShrink, Owned
  <2>4. StillFree(ipam, ipam', s, a)
    BY <2>2 DEF StillFree, Has
  <2> QED
    BY <1>2, <2>3, <2>4
<1>4. CASE ~can /\ ipam' = ipam
  <2>1. a \in Addrs => ~Has(ipam, s, a, ann)
    BY <1>1, <1>4, NoAddrAssumption DEF Has, Sendable, CanUnbind, InZone
  <2>2. Owned(ipam, s) \subseteq Addrs
    BY DEF Owned
  <2> HIDE DEF can
  <2> QED
    BY <1>2, <1>4, <2>1, <2>2, NothingMoves
<1> QED
  BY <1>2, <1>3, <1>4

LEMMA GetAddressBinds ==
  ASSUME WInv, NothingLeft, NEW r \in Slots, InDefault(req[r]), NEW family, NEW failed,
         GetAddress(r, family, failed)
  PROVE  LET q == req[r] IN
         /\ UNCHANGED store /\ OthersShrink(ipam, ipam', q.svc)
         /\ \/ Continue(r, failed) /\ ipam' = ipam
            \/ \E a \in Addrs :
                 /\ Continue(r, AfterFamily(WithAddress(q, a), family))
                 /\ ipam[a].svcs = {} /\ Has(ipam', q.svc, a, q.new.ann)
                 /\ Owned(ipam', q.svc) = Owned(ipam, q.svc) \cup {a}
                 /\ \A b \in Addrs : \A x : Has(ipam, q.svc, b, x) => Has(ipam', q.svc, b, x)
<1> DEFINE q == req[r]
           ann == q.new.ann
           free == FreeAddrs(ann.zone, family)
<1>1. /\ ann \in AnyAnn /\ ann.zone \in Zones /\ ann.valid /\ ~(faults < MaxFaults)
  BY AddrsKnown, Reliable, NoFaults DEF InDefault, AnyAnn
<1>2. /\ UNCHANGED store
      /\ \/ Continue(r, failed) /\ ipam' = ipam
         \/ \E a \in free : /\ ipam' = Bound(a, ann.secret, q.svc)
                            /\ Continue(r, AfterFamily(WithAddress(q, a), family))
  BY <1>1 DEF GetAddress, Ask
<1>3. ASSUME NEW a \in free, ipam' = Bound(a, ann.secret, q.svc)
      PROVE  /\ a \in Addrs /\ OthersShrink(ipam, ipam', q.svc)
             /\ ipam[a].svcs = {} /\ Has(ipam', q.svc, a, ann)
             /\ Owned(ipam', q.svc) = Owned(ipam, q.svc) \cup {a}
             /\ \A b \in Addrs : \A x : Has(ipam, q.svc, b, x) => Has(ipam', q.svc, b, x)
  <2>1. a \in Addrs /\ a \in Prefix[ann.zone] /\ ipam[a].svcs = {}
    BY <1>1, IpamAssumption DEF FreeAddrs
  <2>2. /\ ipam'[a] = [secret |-> ann.secret, svcs |-> ipam[a].svcs \cup {q.svc}]
        /\ \A b \in Addrs : b # a => ipam'[b] = ipam[b]
    BY <1>3, <2>1 DEF WInv, WebhookTypeOK, Bound
  <2>3. Has(ipam', q.svc, a, ann)
    BY <2>1, <2>2 DEF Has
  <2>4. Owned(ipam', q.svc) = Owned(ipam, q.svc) \cup {a} /\ OthersShrink(ipam, ipam', q.svc)
    BY <2>1, <2>2 DEF Owned, OthersShrink
  <2>5. \A b \in Addrs : \A x : Has(ipam, q.svc, b, x) => Has(ipam', q.svc, b, x)
    BY <2>1, <2>2 DEF Has
  <2> QED
    BY <2>1, <2>3, <2>4, <2>5
<1>4. CASE Continue(r, failed) /\ ipam' = ipam
  BY <1>2, <1>4, NothingMoves
<1>5. CASE \E a \in free : /\ ipam' = Bound(a, ann.secret, q.svc)
                           /\ Continue(r, AfterFamily(WithAddress(q, a), family))
  <2>1. PICK a \in free : /\ ipam' = Bound(a, ann.secret, q.svc)
                          /\ Continue(r, AfterFamily(WithAddress(q, a), family))
    BY <1>5
  <2> QED
    BY <1>2, <1>3, <2>1
<1> QED
  BY <1>2, <1>4, <1>5

\* A change of secret that is refused had not found the address under the old one.
LEMMA UpdateSecretMoves ==
  ASSUME WInv, NothingLeft, Sane(ipam), NEW r \in Slots, NEW a, NEW ann \in AnyAnn,
         NEW from \in Secrets, NEW to \in Secrets, NEW granted, NEW failed,
         UpdateSecret(r, a, ann, from, to, granted, failed)
  PROVE  LET s == req[r].svc IN
         /\ UNCHANGED store /\ OthersShrink(ipam, ipam', s) /\ StillFree(ipam, ipam', s, a)
         /\ Owned(ipam', s) = Owned(ipam, s)
         /\ a \in Addrs /\ a \in Prefix[ann.zone] /\ ipam[a].secret = from => Continue(r, granted)
<1>1. ann.valid /\ MaxFaults = 0
  BY Reliable
<1>2. /\ UNCHANGED store
      /\ \A b \in Addrs : ipam'[b].svcs = ipam[b].svcs /\ (b # a => ipam'[b] = ipam[b])
      /\ Continue(r, granted) \/ ~(Sendable(a, ann) /\ CanRekey(a, ann.zone, from))
  BY <1>1, NoFaults, UpdateSecretSpares
<1>3. /\ OthersShrink(ipam, ipam', req[r].svc) /\ Owned(ipam', req[r].svc) = Owned(ipam, req[r].svc)
      /\ StillFree(ipam, ipam', req[r].svc, a)
  BY <1>2 DEF OthersShrink, Owned, StillFree, Has
<1> QED
  BY <1>1, <1>2, <1>3, NoAddrAssumption DEF Sendable, CanRekey, InZone

----------------------------------------------------------------------------
(* What a handler may go on with. *)

LEMMA Working ==
  ASSUME WInv, BInv, FInv, NEW r \in Slots, req[r].pc # "idle"
  PROVE  /\ Active(r) /\ Sound(req[r]) /\ req[r] \in AnyRequest /\ req[r].svc \in Services
         /\ Secured(ipam, req[r]) /\ Sane(ipam) /\ NothingLeft
         /\ req[r].old = store[req[r].svc] /\ req[r].answer = "awaited"
         /\ Frugal(ipam, req[r])
  BY Handled DEF FInv

(* It has given back what it took, or is on its way. *)
Clean(d, q, p) ==
  \/ p = Idle /\ Extra(d, q) = {}
  \/ p.pc # "idle" /\ p.svc = q.svc /\ p.pc # "create_pooling" /\ Frugal(d, p)

LEMMA SlotFrees ==
  ASSUME WInv, BInv, FInv, NEW r \in Slots, Active(r), NEW p, Continue(r, p), UNCHANGED store,
         OthersShrink(ipam, ipam', req[r].svc),
         p = Idle => Extra(ipam', req[r]) = {},
         p = Idle \/ (p.pc # "idle" /\ p.svc = req[r].svc /\ Frugal(ipam', p)),
         p.pc = "create_pooling" => call'[r].pc # "error"
  PROVE  FInv'
<1> DEFINE q == req[r]
<1>1. /\ NothingLeft /\ (\A o \in Slots : o = r) /\ req' = [req EXCEPT ![r] = p] /\ req'[r] = p
  BY Reliable DEF FInv, WInv, WebhookTypeOK, Continue
<1>2. q.old = store[q.svc] /\ q.svc \in Services /\ \A s \in Services : s # q.svc => Quiet(s)
  <2>1. q.pc # "idle"
    BY DEF Active
  <2> QED
    BY <1>1, <2>1, Working DEF Quiet, RequestsFor
<1>3. ASSUME NEW s \in Services, Quiet(s)' PROVE Owned(ipam', s) \subseteq ListedBy(store'[s])
  <2>1. CASE s # q.svc
    BY <1>2, <2>1 DEF FInv, OthersShrink
  <2>2. CASE s = q.svc
    <3>1. p = Idle
      BY <1>1, <1>3, <2>2 DEF Quiet, RequestsFor, Active
    <3> QED
      BY <1>2, <2>2, <3>1 DEF Extra
  <2> QED
    BY <2>1, <2>2
<1>4. \A o \in Slots : Active(o)' => Frugal(ipam', req'[o])
  BY <1>1 DEF Active, Idle
<1>5. \A o \in Slots : req'[o].pc = "create_pooling" => call'[o].pc # "error"
  BY <1>1
<1>6. NothingLeft'
  BY <1>1 DEF NothingLeft, Serial, BindingsLast, SecretsLast, OneSecret, OneService, FewFaults, OneFault
<1> QED
  BY <1>3, <1>4, <1>5, <1>6 DEF FInv

LEMMA CleanStep ==
  ASSUME WInv, BInv, FInv, NEW r \in Slots, Active(r), NEW p, Continue(r, p), UNCHANGED store,
         OthersShrink(ipam, ipam', req[r].svc), Clean(ipam', req[r], p)
  PROVE  FInv'
<1>1. p = Idle => Extra(ipam', req[r]) = {}
  BY DEF Clean, Idle
<1>2. p.pc # "create_pooling"
  BY DEF Clean, Idle
<1> QED
  BY <1>1, <1>2, SlotFrees DEF Clean

----------------------------------------------------------------------------
(* Default. *)

\* What comes first on a list comes first among its new elements.
LEMMA FirstNew ==
  ASSUME NEW q, Updating(q), NEW A, A \cap SetOf(q.old.ann.addrs) = {},
         InOrder(A, q.new.ann.addrs)
  PROVE  A \subseteq NewOnes(q) /\ InOrder(A, NewPrefixes(q))
<1> DEFINE S == SetOf(NewAddrs(q)) \ SetOf(OldAddrs(q))
<1>1. /\ NewAddrs(q) = q.new.ann.addrs /\ NewAddrs(q) \in Seq(Addrs) /\ NewAddrs(q) # <<>>
      /\ OldAddrs(q) = q.old.ann.addrs /\ SetOf(NewPrefixes(q)) = NewOnes(q)
  BY Listing, PrefixSets DEF Updating, NewAddrs, OldAddrs
<1>2. A \subseteq NewOnes(q)
  BY DEF InOrder, NewOnes
<1>3. S = NewOnes(q)
  BY <1>1 DEF NewOnes
<1>4. ASSUME A # {} PROVE NewPrefixes(q)[1] \in A
  <2>1. NewAddrs(q)[1] \in A /\ NewAddrs(q)[1] \in S
    BY <1>1, <1>2, <1>3, <1>4 DEF InOrder
  <2>2. Only(NewAddrs(q), S)[1] = NewAddrs(q)[1]
    BY <1>1, <2>1, OnlyFirst
  <2> QED
    BY <2>1, <2>2 DEF NewPrefixes
<1> QED
  BY <1>1, <1>2, <1>4 DEF InOrder

Ready(q) == /\ InDefault(q) /\ IsLB(q.new)
            /\ q.op = "create" => q.old = NoService
            /\ q.op = "update" => IsLB(q.old) /\ HasFamilies(q.old)

(* Default hands its request on with what it has bound in front. *)
LEMMA DefaultedFrugal ==
  ASSUME NEW d, NEW x, Ready(x), Sound(Defaulted(x)),
         Freeable(d, x, Extra(d, x), x.new.ann), InOrder(Extra(d, x), x.new.ann.addrs)
  PROVE  /\ Defaulted(x).pc \in {"create", "update"} /\ Defaulted(x).svc = x.svc
         /\ Frugal(d, Defaulted(x))
<1>1. PICK p : p = Defaulted(x)
  OBVIOUS
<1>2. /\ p.pc = x.op /\ p.got = <<>> /\ p.op = x.op /\ p.svc = x.svc
      /\ p.old = x.old /\ p.new = x.new /\ x.op \in {"create", "update"}
  BY <1>1 DEF Defaulted, Ready, InDefault, AnyRequest
<1>3. p.pc \notin DefaultPhases /\ p.op # "delete" /\ Sound(p)
  BY <1>1, <1>2 DEF DefaultPhases
<1>4. /\ Extra(d, p) = Extra(d, x) /\ Owned(d, p.svc) = Owned(d, x.svc)
      /\ \A A, ann : Freeable(d, p, A, ann) <=> Freeable(d, x, A, ann)
  BY <1>2 DEF Extra, Freeable
<1>5. CASE x.op = "create"
  <2>1. ListedBy(x.old) = {} /\ Extra(d, x) = Owned(d, x.svc)
    BY <1>5 DEF Ready, ListedBy, IsLB, NoService, Extra
  <2>2. CreateFrugal(d, p)
    BY <1>2, <1>4, <1>5, <2>1 DEF CreateFrugal
  <2> QED
    BY <1>1, <1>2, <1>3, <1>5, <2>2 DEF Frugal
<1>6. CASE x.op = "update"
  <2>1. Updating(p)
    BY <1>2, <1>3, <1>6, SoundTypes DEF Updating, Ready, Sound, Progress
  <2>2. Extra(d, p) \cap SetOf(p.old.ann.addrs) = {}
    BY <2>1 DEF Extra, ListedBy, Updating
  <2>3. InOrder(Extra(d, p), NewPrefixes(p))
    BY <1>2, <1>4, <2>1, <2>2, FirstNew
  <2>4. Freeable(d, p, Extra(d, p), p.new.ann)
    BY <1>2, <1>4
  <2>5. UpdateFrugal(d, p)
    BY <1>2, <1>6, <2>3, <2>4 DEF UpdateFrugal, AfterEffects
  <2> QED
    BY <1>1, <1>2, <1>3, <1>6, <2>5 DEF Frugal
<1> QED
  BY <1>2, <1>5, <1>6

LEMMA DefaultGoesFrugal ==
  ASSUME NEW d, NEW x, Ready(x), NEW pc \in {"request_v4", "request_v6"},
         Extra(d, x) = {}, x.got = <<>>,
         pc = "request_v4" => x.new.ann.family = "ipv4"
  PROVE  At(x, pc).svc = x.svc /\ At(x, pc).pc = pc /\ Frugal(d, At(x, pc))
<1>1. PICK p : p = At(x, pc)
  OBVIOUS
<1>2. /\ p.pc = pc /\ p.got = x.got /\ p.op = x.op /\ p.svc = x.svc
      /\ p.old = x.old /\ p.new = x.new /\ x.op \in {"create", "update"}
  BY <1>1 DEF At, Ready, InDefault, AnyRequest
<1>3. DefaultFrugal(d, p) /\ pc \in DefaultPhases
  BY <1>2 DEF DefaultFrugal, Extra, DefaultPhases
<1> QED
  BY <1>1, <1>2, <1>3 DEF Frugal

LEMMA DefaultingReady ==
  ASSUME WInv, BInv, FInv, NEW r \in Slots, req[r].pc \in DefaultPhases
  PROVE  /\ Ready(req[r]) /\ Active(r) /\ DefaultFrugal(ipam, req[r]) /\ Sane(ipam) /\ NothingLeft
         /\ req[r].svc \in Services /\ req[r].pc # "idle" /\ Defaulting(ipam, req[r])
         /\ ListedBy(req[r].old) = IF req[r].op = "update" THEN SetOf(req[r].old.ann.addrs) ELSE {}
<1>1. req[r].pc # "idle"
  BY DEF DefaultPhases
<1>2. Defaulting(ipam, req[r])
  BY AtDefault
<1>3. Ready(req[r])
  BY <1>2 DEF Defaulting, Ready
<1>4. ListedBy(req[r].old) = IF req[r].op = "update" THEN SetOf(req[r].old.ann.addrs) ELSE {}
  BY <1>3 DEF Ready, InDefault, ListedBy, IsLB, NoService
<1> QED
  BY <1>1, <1>2, <1>3, <1>4, Working DEF Frugal

\* What the handler continues with is sound.
LEMMA ContinuesSound ==
  ASSUME WInv, WInv', NEW r \in Slots, NEW p, Continue(r, p), p.pc # "idle"
  PROVE  Sound(p)
<1>1. req'[r] = p
  BY DEF WInv, WebhookTypeOK, Continue
<1> QED
  BY <1>1 DEF WInv, Active

LEMMA DefaultFrees ==
  ASSUME WInv, WInv', BInv, FInv, NEW r \in Slots, Default(r)
  PROVE  FInv'
<1> DEFINE q == req[r]
<1>1. q.pc = "default" /\ q.pc \in DefaultPhases
  BY DEF Default, DefaultPhases
<1>2. Ready(q) /\ Active(r) /\ Extra(ipam, q) = {} /\ q.got = <<>> /\ q.svc \in Services
  BY <1>1, DefaultingReady DEF DefaultFrugal
<1>3. PICK x : x = AsLB(q)
  OBVIOUS
<1>4. /\ Ready(x) /\ x.svc = q.svc /\ x.old = q.old /\ x.got = <<>>
      /\ x.new.ann \in AnyAnn
  BY <1>2, <1>3 DEF AsLB, Ready, InDefault, AnyRequest, AnyService, IsLB
<1>5. Extra(ipam, x) = {} /\ x.new.ann.family # "dual"
  BY <1>2, <1>4, DefaultingReady, Reliable DEF Extra, FInv
<1>6. Decide(r, Idle) \/ Decide(r, Allocate(x))
  BY <1>2, <1>3 DEF Default, Ready
<1>7. PICK p : Continue(r, p) /\ UNCHANGED <<store, ipam>> /\ (p = Idle \/ p = Allocate(x))
  BY <1>6 DEF Decide
<1>8. CASE p = Idle
  BY <1>2, <1>7, <1>8, CleanStep, NothingMoves DEF Clean
<1>9. CASE p = Allocate(x)
  <2>1. \/ p = At(x, "request_v4") /\ x.new.ann.family = "ipv4"
        \/ p = At(x, "request_v6")
        \/ p = Defaulted(x)
    BY <1>5, <1>9 DEF Allocate, AfterV4, NeedsV4
  <2>2. p.pc \in {"request_v4", "request_v6", "create", "update"}
    BY <1>4, <2>1 DEF At, Defaulted, Ready, InDefault, AnyRequest
  <2>3. Sound(p)
    BY <1>7, <2>2, ContinuesSound
  <2>4. ASSUME p = Defaulted(x) PROVE Clean(ipam, q, p)
    BY <1>4, <1>5, <2>3, <2>4, DefaultedFrugal DEF Clean, Freeable, InOrder
  <2>5. ASSUME p # Defaulted(x) PROVE Clean(ipam, q, p)
    BY <1>4, <1>5, <2>1, <2>5, DefaultGoesFrugal DEF Clean
  <2>6. Clean(ipam, q, p)
    BY <2>4, <2>5
  <2> QED
    BY <1>2, <1>7, <2>6, CleanStep, NothingMoves
<1> QED
  BY <1>7, <1>8, <1>9

(* An address it is given goes in front of the list: it was free, and so none
   of the stored version's. *)
LEMMA GetAddressFrees ==
  ASSUME WInv, WInv', BInv, FInv, NEW r \in Slots, req[r].pc \in {"request_v4", "request_v6"},
         NEW family, NEW failed, GetAddress(r, family, failed),
         req[r].pc = "request_v4" \/ family = "ipv6",
         Continue(r, failed) => Clean(ipam, req[r], failed)
  PROVE  FInv'
<1> DEFINE q == req[r]
<1>1. q.pc \in DefaultPhases
  BY DEF DefaultPhases
<1>2. /\ Ready(q) /\ InDefault(q) /\ Active(r) /\ NothingLeft /\ DefaultFrugal(ipam, q)
      /\ Defaulting(ipam, q) /\ q.svc \in Services
      /\ ListedBy(q.old) = IF q.op = "update" THEN SetOf(q.old.ann.addrs) ELSE {}
  BY <1>1, DefaultingReady DEF Ready
<1>3. /\ UNCHANGED store /\ OthersShrink(ipam, ipam', q.svc)
      /\ \/ Continue(r, failed) /\ ipam' = ipam
         \/ \E a \in Addrs :
              /\ Continue(r, AfterFamily(WithAddress(q, a), family))
              /\ ipam[a].svcs = {} /\ Has(ipam', q.svc, a, q.new.ann)
              /\ Owned(ipam', q.svc) = Owned(ipam, q.svc) \cup {a}
              /\ \A b \in Addrs : \A x : Has(ipam, q.svc, b, x) => Has(ipam', q.svc, b, x)
  BY <1>2, GetAddressBinds
<1>4. CASE Continue(r, failed) /\ ipam' = ipam
  BY <1>2, <1>3, <1>4, CleanStep
<1>5. ASSUME NEW a \in Addrs, Continue(r, AfterFamily(WithAddress(q, a), family)),
             ipam[a].svcs = {}, Has(ipam', q.svc, a, q.new.ann),
             Owned(ipam', q.svc) = Owned(ipam, q.svc) \cup {a},
             \A b \in Addrs : \A x : Has(ipam, q.svc, b, x) => Has(ipam', q.svc, b, x)
      PROVE  FInv'
  <2>1. PICK x : x = WithAddress(q, a)
    OBVIOUS
  <2>2. /\ x.svc = q.svc /\ x.old = q.old /\ x.op = q.op
        /\ x.new.ann.zone = q.new.ann.zone /\ x.new.ann.secret = q.new.ann.secret
        /\ x.new.ann.addrs = <<a>> \o q.new.ann.addrs /\ InDefault(x) /\ IsLB(x.new)
    <3>1. /\ InDefault(x) /\ x.new.ann.addrs = <<a>> \o q.new.ann.addrs /\ IsLB(x.new)
      BY <1>2, <2>1, WithAddressType DEF Ready
    <3>2. /\ x.svc = q.svc /\ x.old = q.old /\ x.op = q.op
          /\ x.new.ann.zone = q.new.ann.zone /\ x.new.ann.secret = q.new.ann.secret
      BY <1>2, <2>1 DEF WithAddress, InDefault, AnyRequest, AnyService, AnyAnn
    <3> QED
      BY <3>1, <3>2
  <2>3. Ready(x)
    BY <1>2, <2>2 DEF Ready
  <2>4. a \notin ListedBy(q.old)
    BY <1>2, <1>5 DEF Defaulting, Kept, Has
  <2>5. Extra(ipam', x) = {a}
    BY <1>2, <1>5, <2>2, <2>4 DEF Extra, Owned, DefaultFrugal
  <2>6. Freeable(ipam', x, Extra(ipam', x), x.new.ann)
    BY <1>5, <2>2, <2>5 DEF Freeable, Has
  <2>7. InOrder(Extra(ipam', x), x.new.ann.addrs)
    <3>1. q.new.ann.addrs \in Seq(Addrs)
      BY <1>2, FamiliesKnown
    <3>2. x.new.ann.addrs[1] = a
      BY <2>2, <3>1
    <3>3. {a} \cup SetOf(q.new.ann.addrs) \subseteq SetOf(x.new.ann.addrs)
      BY <2>2, <3>1, PutFirst
    <3> QED
      BY <2>5, <3>2, <3>3 DEF InOrder
  <2>8. PICK p : Continue(r, p) /\ p = AfterFamily(x, family)
    BY <1>5, <2>1
  <2>9. p = Defaulted(x)
    <3>1. x.new.ann.family = q.new.ann.family
      BY <1>2, <2>1, WithAddressType
    <3>2. q.pc = "request_v4" => ~NeedsV6(x.new.ann)
      BY <1>2, <3>1 DEF DefaultFrugal, NeedsV6
    <3> QED
      BY <2>8, <3>2 DEF AfterFamily, AfterV4
  <2>10. p.pc # "idle"
    BY <2>2, <2>9 DEF Defaulted, InDefault, AnyRequest
  <2>11. Sound(p)
    BY <2>8, <2>10, ContinuesSound
  <2>12. Clean(ipam', q, p)
    BY <2>2, <2>3, <2>6, <2>7, <2>9, <2>11, DefaultedFrugal DEF Clean
  <2> QED
    BY <1>2, <1>3, <2>8, <2>12, CleanStep
<1> QED
  BY <1>3, <1>4, <1>5

LEMMA RequestsFree ==
  ASSUME WInv, WInv', BInv, FInv, NEW r \in Slots, RequestV4(r) \/ RequestV6(r)
  PROVE  FInv'
<1> DEFINE q == req[r]
<1>1. q.pc \in {"request_v4", "request_v6"} /\ q.pc \in DefaultPhases
  BY DEF RequestV4, RequestV6, DefaultPhases
<1>2. q.got = <<>> /\ Clean(ipam, q, Idle)
  BY <1>1, DefaultingReady DEF DefaultFrugal, Clean
<1>3. CASE RequestV4(r)
  <2>1. q.pc = "request_v4" /\ GetAddress(r, "ipv4", Idle)
    BY <1>3 DEF RequestV4
  <2> QED
    BY <1>1, <1>2, <2>1, GetAddressFrees
<1>4. CASE RequestV6(r)
  <2>1. q.pc = "request_v6" /\ GetAddress(r, "ipv6", Idle)
    BY <1>2, <1>4 DEF RequestV6
  <2> QED
    BY <1>1, <1>2, <2>1, GetAddressFrees
<1> QED
  BY <1>3, <1>4

\* The IPv4 address of a dual stack that gets no IPv6 address: there is none.
LEMMA UndoV4Never ==
  ASSUME WInv, BInv, FInv, NEW r \in Slots
  PROVE  ~UndoV4(r)
  BY DefaultingReady DEF UndoV4, DefaultPhases, DefaultFrugal

----------------------------------------------------------------------------
(* ValidateCreate. *)

LEMMA CreateWorks ==
  ASSUME WInv, BInv, FInv, NEW r \in Slots, req[r].pc \in CreatePhases, req[r].op = "create"
  PROVE  LET q == req[r]
             addrs == q.new.ann.addrs
         IN
         /\ Active(r) /\ Sane(ipam) /\ NothingLeft /\ q \in AnyRequest /\ q.svc \in Services
         /\ q.new \in AnyService /\ IsLB(q.new) /\ q.new.ann \in AnyAnn /\ q.todo \in Listed /\ q.got \in Listed
         /\ addrs \in Seq(Addrs) /\ addrs # <<>> /\ Split(addrs) = addrs
         /\ Len(addrs) <= 2 /\ (Len(addrs) = 2 => SetOf(addrs) = {addrs[1], addrs[2]})
         /\ CreateFrugal(ipam, q) /\ \A d : Extra(d, q) = Owned(d, q.svc)
<1> DEFINE q == req[r]
<1>1. q.pc # "idle" /\ q.pc \notin DefaultPhases
  BY DEF CreatePhases, DefaultPhases
<1>2. /\ Active(r) /\ Sound(q) /\ Sane(ipam) /\ NothingLeft /\ q \in AnyRequest /\ q.svc \in Services
      /\ Secured(ipam, q) /\ Frugal(ipam, q) /\ q.todo \in Listed /\ q.got \in Listed
  BY <1>1, Working, SoundTypes
<1>3. q.new \in AnyService /\ IsLB(q.new) /\ HasFamilies(q.new) /\ q.old = NoService
  BY <1>1, <1>2, SoundTypes DEF Secured, CreateSecured, Sound, Progress
<1>4. \A d : Extra(d, q) = Owned(d, q.svc)
  BY <1>3 DEF Extra, ListedBy, IsLB, NoService
<1>5. CreateFrugal(ipam, q)
  BY <1>1, <1>2 DEF Frugal
<1> HIDE DEF q
<1>6. /\ q.new.ann \in AnyAnn /\ q.new.ann.addrs \in Seq(Addrs) /\ q.new.ann.addrs # <<>>
      /\ Split(q.new.ann.addrs) = q.new.ann.addrs /\ Distinct(q.new.ann.addrs)
  BY <1>3, Listing
<1>7. /\ Len(q.new.ann.addrs) <= 2
      /\ Len(q.new.ann.addrs) = 2 =>
           SetOf(q.new.ann.addrs) = {q.new.ann.addrs[1], q.new.ann.addrs[2]}
  BY <1>3, <1>6, AtMostTwo
<1> QED
  BY <1>2, <1>3, <1>4, <1>5, <1>6, <1>7 DEF q

LEMMA CreateOf ==
  ASSUME WInv, NEW r \in Slots, req[r].pc \in CreatePhases \ {"admitted"}
  PROVE  req[r].op = "create"
<1>1. Active(r)
  BY DEF Active, CreatePhases
<1>2. Sound(req[r])
  BY <1>1 DEF WInv
<1> QED
  BY <1>2, CreateKnown DEF CreateRequest

LEMMA CreateCleans ==
  ASSUME NEW d, NEW q, q.op = "create", NEW p, Follows(p, q), p.pc \in CreatePhases,
         CreateFrugal(d, p)
  PROVE  p.svc = q.svc /\ p.pc # "idle" /\ Frugal(d, p) /\ (p.pc # "create_pooling" => Clean(d, q, p))
<1>1. p.pc # "idle" /\ p.pc \notin DefaultPhases
  BY DEF CreatePhases, DefaultPhases
<1>2. p.op = "create" /\ p.svc = q.svc
  BY FollowsCarries
<1> QED
  BY <1>1, <1>2 DEF Frugal, Clean

LEMMA StartCreateFrees ==
  ASSUME WInv, BInv, FInv, NEW r \in Slots, StartCreate(r)
  PROVE  FInv'
<1> DEFINE q == req[r]
<1>1. q.pc = "create" /\ q.pc \in CreatePhases \ {"admitted"}
  BY DEF StartCreate, CreatePhases
<1>2. /\ Active(r) /\ q \in AnyRequest /\ q.op = "create" /\ IsLB(q.new)
      /\ q.new.ann.addrs # <<>> /\ Split(q.new.ann.addrs) = q.new.ann.addrs /\ q.new.ann.addrs \in Seq(Addrs)
      /\ CreateFrugal(ipam, q)
  BY <1>1, CreateOf, CreateWorks
<1>3. PICK p : p = Loop(q, "validate", q.new.ann.addrs)
  OBVIOUS
<1>4. Follows(p, q) /\ p.pc = "validate" /\ p.todo = q.new.ann.addrs /\ p.got = q.got
  BY <1>2, <1>3, Fields
<1>5. Continue(r, p) /\ UNCHANGED <<ipam, store>>
  BY <1>2, <1>3 DEF StartCreate, Decide
<1>6. p.svc = q.svc /\ p.new = q.new /\ p.pc \in CreatePhases /\ Head(p.todo) = p.todo[1]
  BY <1>2, <1>4, FollowsCarries DEF CreatePhases
<1>7. CreateFrugal(ipam, p)
  BY <1>1, <1>2, <1>4, <1>6 DEF CreateFrugal, InOrder, Freeable
<1>8. Clean(ipam, q, p)
  BY <1>2, <1>4, <1>6, <1>7, CreateCleans
<1> QED
  BY <1>2, <1>5, <1>8, CleanStep, NothingMoves

(* Every address is bound before the next one is tried: one that is refused
   is not bound, so what there is to give back is what was obtained. *)
LEMMA ValidateAddressFrees ==
  ASSUME WInv, BInv, FInv, NEW r \in Slots, ValidateAddress(r)
  PROVE  FInv'
<1> DEFINE q == req[r]
           ann == q.new.ann
           mine(d) == Owned(d, q.svc)
<1>1. q.pc = "validate" /\ q.pc \in CreatePhases \ {"admitted"}
  BY DEF ValidateAddress, CreatePhases
<1>2. /\ Active(r) /\ NothingLeft /\ q \in AnyRequest /\ q.svc \in Services
      /\ q.op = "create" /\ ann \in AnyAnn /\ q.todo \in Listed /\ q.got \in Listed
      /\ ann.addrs \in Seq(Addrs) /\ Len(ann.addrs) <= 2
      /\ Len(ann.addrs) = 2 => SetOf(ann.addrs) = {ann.addrs[1], ann.addrs[2]}
      /\ CreateFrugal(ipam, q) /\ \A d : Extra(d, q) = mine(d)
  BY <1>1, CreateOf, CreateWorks
<1>3. /\ Freeable(ipam, q, mine(ipam), ann)
      /\ mine(ipam) \subseteq SetOf(ann.addrs) /\ SetOf(q.todo) \subseteq SetOf(ann.addrs)
      /\ q.todo # <<>> /\ (Head(q.todo) \in mine(ipam) \/ mine(ipam) \subseteq SetOf(q.got))
      /\ Len(q.todo) > 1 => q.todo = ann.addrs /\ q.got = <<>>
  BY <1>1, <1>2 DEF CreateFrugal
<1>4. PICK a : a = Head(q.todo)
  OBVIOUS
<1>5. PICK done : done = [q EXCEPT !.got = Append(@, Head(q.todo))]
  OBVIOUS
<1>6. PICK granted : granted = NextOf(done, Loop(q, "create_pool", <<>>))
  OBVIOUS
<1>7. /\ UNCHANGED store /\ OthersShrink(ipam, ipam', q.svc)
      /\ \/ /\ Continue(r, granted) /\ a \in Addrs /\ Has(ipam', q.svc, a, ann)
            /\ mine(ipam') = mine(ipam) \cup {a}
            /\ \A b \in Addrs : \A x : Has(ipam, q.svc, b, x) => Has(ipam', q.svc, b, x)
         \/ /\ Continue(r, CreateRefused(q)) /\ ipam' = ipam
            /\ a \in Addrs => ~Has(ipam, q.svc, a, ann)
  BY <1>2, <1>4, <1>5, <1>6, UpdateAddressBinds DEF ValidateAddress
<1>8. a \in SetOf(q.todo)
  BY <1>2, <1>3, <1>4, Looped DEF Listed
<1>9. CASE /\ Continue(r, granted) /\ a \in Addrs /\ Has(ipam', q.svc, a, ann)
           /\ mine(ipam') = mine(ipam) \cup {a}
           /\ \A b \in Addrs : \A x : Has(ipam, q.svc, b, x) => Has(ipam', q.svc, b, x)
  <2>1. Freeable(ipam', q, mine(ipam'), ann) /\ mine(ipam') \subseteq SetOf(ann.addrs)
    <3>1. mine(ipam) \subseteq Addrs
      BY DEF Owned
    <3> QED
      BY <1>3, <1>8, <1>9, <3>1 DEF Freeable
  <2>2. CASE Len(q.todo) > 1
    <3>1. PICK p : p = [done EXCEPT !.todo = Tail(@)]
      OBVIOUS
    <3>2. /\ Follows(p, q) /\ p.pc = "validate" /\ p.todo = Tail(q.todo)
          /\ p.got = Append(q.got, a) /\ granted = p
      BY <1>1, <1>2, <1>4, <1>5, <1>6, <2>2, <3>1 DEF AnyRequest, Follows, Same, NextOf
    <3>3. q.todo = ann.addrs /\ q.got = <<>> /\ Len(q.todo) = 2
      <4>1. \A n \in Nat : n > 1 /\ n <= 2 => n = 2
        OBVIOUS
      <4>2. Len(ann.addrs) \in Nat
        BY <1>2
      <4>3. q.todo = ann.addrs /\ q.got = <<>>
        BY <1>3, <2>2
      <4> QED
        BY <1>2, <2>2, <4>1, <4>2, <4>3
    <3>4. /\ Tail(q.todo) # <<>> /\ Head(Tail(q.todo)) = ann.addrs[2] /\ Len(Tail(q.todo)) = 1
          /\ a = ann.addrs[1] /\ Append(q.got, a)[1] = a /\ Len(Append(q.got, a)) = 1
          /\ SetOf(Tail(q.todo)) \subseteq SetOf(q.todo)
      <4>1. SetOf(Tail(q.todo)) \subseteq SetOf(q.todo)
        BY <1>2, <1>3, <2>2, Looped DEF Listed
      <4> QED
        BY <1>2, <1>4, <3>3, <4>1
    <3>5. Head(p.todo) \in mine(ipam') \/ mine(ipam') \subseteq SetOf(p.got)
      <4>1. SetOf(ann.addrs) = {a, Head(p.todo)}
        BY <1>2, <3>2, <3>3, <3>4
      <4>2. a \in SetOf(p.got)
        BY <3>2, <3>4 DEF SetOf
      <4> QED
        BY <2>1, <4>1, <4>2
    <3>6. p.svc = q.svc /\ p.new = q.new /\ p.pc \in CreatePhases
      BY <3>2, FollowsCarries DEF CreatePhases
    <3>7. ~(Len(p.todo) > 1) /\ p.todo # <<>> /\ SetOf(p.todo) \subseteq SetOf(ann.addrs)
      <4>1. \A n : n = 1 => ~(n > 1)
        OBVIOUS
      <4>2. Len(p.todo) = 1
        BY <3>2, <3>4
      <4>3. p.todo # <<>> /\ SetOf(p.todo) \subseteq SetOf(ann.addrs)
        BY <1>3, <3>2, <3>4
      <4> QED
        BY <4>1, <4>2, <4>3
    <3>8. CreateFrugal(ipam', p)
      BY <2>1, <3>2, <3>5, <3>6, <3>7 DEF CreateFrugal, Freeable
    <3>9. Clean(ipam', q, p)
      BY <1>2, <3>2, <3>6, <3>8, CreateCleans
    <3> QED
      BY <1>2, <1>7, <1>9, <3>2, <3>9, CleanStep
  <2>3. CASE ~(Len(q.todo) > 1)
    <3>1. PICK p : p = Loop(q, "create_pool", <<>>)
      OBVIOUS
    <3>2. /\ Follows(p, q) /\ p.pc = "create_pool" /\ granted = p
      <4>1. done.todo = q.todo
        BY <1>2, <1>5 DEF AnyRequest
      <4>2. granted = p
        BY <1>6, <2>3, <3>1, <4>1 DEF NextOf
      <4> QED
        BY <1>2, <3>1, <4>2, Fields
    <3>3. p.svc = q.svc /\ p.new = q.new /\ p.pc \in CreatePhases
      BY <3>2, FollowsCarries DEF CreatePhases
    <3>4. CreateFrugal(ipam', p)
      BY <2>1, <3>2, <3>3 DEF CreateFrugal, Freeable
    <3>5. Clean(ipam', q, p)
      BY <1>2, <3>2, <3>3, <3>4, CreateCleans
    <3> QED
      BY <1>2, <1>7, <1>9, <3>2, <3>5, CleanStep
  <2> QED
    BY <2>2, <2>3
<1>10. CASE /\ Continue(r, CreateRefused(q)) /\ ipam' = ipam
            /\ a \in Addrs => ~Has(ipam, q.svc, a, ann)
  <2>1. mine(ipam) \subseteq SetOf(q.got)
    BY <1>3, <1>4, <1>10 DEF Freeable, Owned
  <2>2. CASE q.got = <<>>
    <3>1. Extra(ipam', q) = {}
      BY <1>2, <1>10, <2>1, <2>2, NothingListed
    <3> QED
      BY <1>2, <1>7, <1>10, <2>2, <3>1, CleanStep DEF CreateRefused, Clean
  <2>3. CASE q.got # <<>>
    <3>1. PICK p : p = Loop(q, "rollback", q.got)
      OBVIOUS
    <3>2. Follows(p, q) /\ p.pc = "rollback" /\ p.todo = q.got /\ CreateRefused(q) = p
      BY <1>2, <2>3, <3>1, Fields DEF CreateRefused
    <3>3. p.svc = q.svc /\ p.new = q.new /\ p.pc \in CreatePhases
      BY <3>2, FollowsCarries DEF CreatePhases
    <3>4. CreateFrugal(ipam, p)
      BY <1>3, <2>1, <2>3, <3>2, <3>3 DEF CreateFrugal, Freeable
    <3>5. Clean(ipam', q, p)
      BY <1>2, <1>10, <3>2, <3>3, <3>4, CreateCleans
    <3> QED
      BY <1>2, <1>7, <1>10, <3>2, <3>5, CleanStep
  <2> QED
    BY <2>2, <2>3
<1> QED
  BY <1>7, <1>9, <1>10

LEMMA RollbackCreateFrees ==
  ASSUME WInv, BInv, FInv, NEW r \in Slots, RollbackCreate(r)
  PROVE  FInv'
<1> DEFINE q == req[r]
           ann == q.new.ann
           mine(d) == Owned(d, q.svc)
<1>1. q.pc = "rollback" /\ q.pc \in CreatePhases \ {"admitted"}
  BY DEF RollbackCreate, CreatePhases
<1>2. /\ Active(r) /\ NothingLeft /\ Sane(ipam) /\ q \in AnyRequest /\ q.svc \in Services
      /\ q.op = "create" /\ ann \in AnyAnn /\ q.todo \in Listed
      /\ CreateFrugal(ipam, q) /\ \A d : Extra(d, q) = mine(d)
  BY <1>1, CreateOf, CreateWorks
<1>3. Freeable(ipam, q, mine(ipam), ann) /\ mine(ipam) \subseteq SetOf(q.todo) /\ q.todo # <<>>
  BY <1>1, <1>2 DEF CreateFrugal
<1>4. PICK a, next : a = Head(q.todo) /\ next = NextOf(q, Idle)
  OBVIOUS
<1>5. /\ UNCHANGED store /\ OthersShrink(ipam, ipam', q.svc) /\ StillFree(ipam, ipam', q.svc, a)
      /\ Continue(r, next) /\ mine(ipam') \subseteq mine(ipam)
      /\ Has(ipam, q.svc, a, ann) => a \notin mine(ipam')
  <2>1. RemoveAddress(r, a, ann, next)
    BY <1>4 DEF RollbackCreate
  <2> QED
    BY <1>2, <2>1, RemoveAddressFrees
<1>6. a \notin mine(ipam') /\ mine(ipam') \subseteq Addrs
  BY <1>3, <1>5 DEF Freeable, Owned
<1>7. Freeable(ipam', q, mine(ipam'), ann)
  BY <1>3, <1>5, <1>6 DEF Freeable, StillFree
<1>8. CASE Len(q.todo) > 1
  <2>1. /\ Follows(next, q) /\ next.pc = "rollback" /\ next.todo = Tail(q.todo)
    BY <1>1, <1>2, <1>4, <1>8 DEF AnyRequest, Follows, Same, NextOf
  <2>2. Tail(q.todo) # <<>> /\ SetOf(q.todo) = {a} \cup SetOf(Tail(q.todo))
    BY <1>2, <1>3, <1>4, <1>8, Looped DEF Listed
  <2>3. next.svc = q.svc /\ next.new = q.new /\ next.pc \in CreatePhases
    BY <2>1, FollowsCarries DEF CreatePhases
  <2>4. CreateFrugal(ipam', next)
    BY <1>3, <1>5, <1>6, <1>7, <2>1, <2>2, <2>3 DEF CreateFrugal, Freeable
  <2>5. Clean(ipam', q, next)
    BY <1>2, <2>1, <2>3, <2>4, CreateCleans
  <2> QED
    BY <1>2, <1>5, <2>5, CleanStep
<1>9. CASE ~(Len(q.todo) > 1)
  <2>1. SetOf(q.todo) = {a} /\ next = Idle
    BY <1>2, <1>3, <1>4, <1>9, Looped DEF Listed, NextOf
  <2>2. mine(ipam') = {}
    BY <1>3, <1>5, <1>6, <2>1
  <2> QED
    BY <1>2, <1>5, <2>1, <2>2, CleanStep DEF Clean
<1> QED
  BY <1>8, <1>9

LEMMA CreatePoolGetFrees ==
  ASSUME WInv, BInv, FInv, NEW r \in Slots, CreatePoolGet(r)
  PROVE  FInv'
<1> DEFINE q == req[r]
<1>1. q.pc = "create_pool" /\ q.pc \in CreatePhases \ {"admitted"}
  BY DEF CreatePoolGet, CreatePhases
<1>2. Active(r) /\ q \in AnyRequest /\ q.op = "create" /\ CreateFrugal(ipam, q) /\ q.svc \in Services
  BY <1>1, CreateOf, CreateWorks
<1>3. PICK p : p = Loop(q, "create_pooling", <<>>)
  OBVIOUS
<1>4. Follows(p, q) /\ p.pc = "create_pooling"
  BY <1>2, <1>3, Fields
<1>5. Continue(r, p) /\ UNCHANGED <<ipam, store>> /\ call'[r].pc = "adding"
  BY <1>3 DEF CreatePoolGet, PoolUnchanged, Pool!AddGet, WInv, WebhookTypeOK, Pool!PoolTypeOK
<1>6. p.svc = q.svc /\ p.new = q.new /\ p.pc \in CreatePhases
  BY <1>4, FollowsCarries DEF CreatePhases
<1>7. CreateFrugal(ipam, p)
  BY <1>1, <1>2, <1>4, <1>6 DEF CreateFrugal, Freeable
<1>8. Frugal(ipam, p) /\ p.pc # "idle" /\ p # Idle
  BY <1>2, <1>4, <1>6, <1>7, CreateCleans DEF Idle
<1> QED
  BY <1>2, <1>5, <1>6, <1>8, SlotFrees, NothingMoves

----------------------------------------------------------------------------
(* ValidateUpdate. *)

LEMMA UpdateWorks ==
  ASSUME WInv, BInv, FInv, NEW r \in Slots, req[r].pc \in UpdatePhases \ {"admitted"}
  PROVE  LET q == req[r] IN
         /\ Active(r) /\ Sane(ipam) /\ NothingLeft /\ q \in AnyRequest /\ q.svc \in Services
         /\ Updating(q) /\ UpdateSecured(ipam, q) /\ UpdateFrugal(ipam, q) /\ q.todo \in Listed
         /\ q.old.ann \in AnyAnn /\ SetOf(q.old.ann.addrs) \subseteq Addrs
         /\ q.new.ann \in AnyAnn /\ SetOf(q.new.ann.addrs) \subseteq Addrs
         /\ \A d : Extra(d, q) = Owned(d, q.svc) \ SetOf(q.old.ann.addrs)
<1> DEFINE q == req[r]
<1>1. q.pc # "idle" /\ q.pc \notin DefaultPhases
  BY DEF UpdatePhases, DefaultPhases
<1>2. /\ Active(r) /\ Sane(ipam) /\ q \in AnyRequest /\ q.svc \in Services
      /\ Updating(q) /\ UpdateSecured(ipam, q) /\ q.todo \in Listed
      /\ q.old.ann \in AnyAnn /\ SetOf(q.old.ann.addrs) \subseteq Addrs
      /\ q.new.ann \in AnyAnn /\ SetOf(q.new.ann.addrs) \subseteq Addrs
  BY AtUpdate
<1>3. UpdateFrugal(ipam, q) /\ NothingLeft
  BY <1>1, <1>2, Working DEF Frugal, Updating
<1>4. \A d : Extra(d, q) = Owned(d, q.svc) \ SetOf(q.old.ann.addrs)
  BY <1>2 DEF Extra, ListedBy, Updating
<1> QED
  BY <1>2, <1>3, <1>4

\* What depends on the request's Services only.
LEMMA SameSights ==
  ASSUME NEW p, NEW q, Follows(p, q)
  PROVE  /\ p.svc = q.svc /\ p.old = q.old /\ p.new = q.new /\ p.op = q.op
         /\ NewPrefixes(p) = NewPrefixes(q) /\ NewOnes(p) = NewOnes(q)
         /\ \A d : /\ Extra(d, p) = Extra(d, q) /\ Owned(d, p.svc) = Owned(d, q.svc)
                   /\ \A A, ann : Freeable(d, p, A, ann) <=> Freeable(d, q, A, ann)
<1>1. p.svc = q.svc /\ p.old = q.old /\ p.new = q.new /\ p.op = q.op
  BY FollowsCarries
<1>2. NewPrefixes(p) = NewPrefixes(q)
  BY SamePrefixes DEF Follows
<1> QED
  BY <1>1, <1>2 DEF NewOnes, Extra, Freeable

LEMMA UpdateCleans ==
  ASSUME NEW d, NEW q, Updating(q), NEW p, Follows(p, q), p.pc \notin DefaultPhases,
         p.pc # "idle", p.pc # "create_pooling", UpdateFrugal(d, p)
  PROVE  Clean(d, q, p)
  BY SameSights DEF Updating, Frugal, Clean

\* Once nothing but the new version's addresses is held.
LEMMA HeldAreNew ==
  ASSUME NEW d, NEW q, Updating(q), Owned(d, q.svc) \subseteq SetOf(q.new.ann.addrs)
  PROVE  /\ \A p : Follows(p, q) /\ p.pc \in AfterEffects \ {"release_old"} => Clean(d, q, p)
         /\ Clean(d, q, Admit(q)) /\ Clean(d, q, ToPoolRemove(q)) /\ Clean(d, q, ToPoolAdd(q))
<1>1. ASSUME NEW p, Follows(p, q), p.pc \in AfterEffects \ {"release_old"}
      PROVE  Clean(d, q, p)
  <2>1. /\ p.pc \notin {"update", "register", "undo_first", "revert", "undo_new", "rekey", "release_old"}
        /\ p.pc \notin DefaultPhases /\ p.pc # "idle" /\ p.pc # "create_pooling"
    BY <1>1 DEF AfterEffects, DefaultPhases
  <2>2. UpdateFrugal(d, p)
    BY <1>1, <2>1, SameSights DEF UpdateFrugal
  <2> QED
    BY <1>1, <2>1, <2>2, UpdateCleans
<1>2. q \in AnyRequest
  BY DEF Updating
<1>3. {"admitted", "update_verify", "update_pool"} \subseteq AfterEffects \ {"release_old"}
  BY DEF AfterEffects
<1>4. Clean(d, q, Admit(q)) /\ Clean(d, q, Loop(q, "update_verify", <<>>))
      /\ Clean(d, q, Loop(q, "update_pool", <<>>))
  BY <1>1, <1>2, <1>3, Fields
<1> QED
  BY <1>1, <1>4 DEF ToPoolAdd, ToPoolRemove

\* What is not the new version's can be released as the old one's.
LEMMA ToReleaseCleans ==
  ASSUME NEW d, NEW q, Updating(q),
         Owned(d, q.svc) \subseteq SetOf(q.old.ann.addrs) \cup SetOf(q.new.ann.addrs),
         Freeable(d, q, Owned(d, q.svc) \ SetOf(q.new.ann.addrs), q.old.ann)
  PROVE  Clean(d, q, ToReleaseOld(q))
<1>1. /\ q \in AnyRequest
      /\ SetOf(RemovePrefixes(q)) = SetOf(q.old.ann.addrs) \ SetOf(q.new.ann.addrs)
  BY PrefixSets DEF Updating
<1>2. CASE RemovePrefixes(q) = <<>>
  <2>1. Owned(d, q.svc) \subseteq SetOf(q.new.ann.addrs)
    BY <1>1, <1>2, NothingListed
  <2> QED
    BY <1>2, <2>1, HeldAreNew DEF ToReleaseOld
<1>3. CASE RemovePrefixes(q) # <<>>
  <2>1. PICK p : p = Loop(q, "release_old", RemovePrefixes(q))
    OBVIOUS
  <2>2. Follows(p, q) /\ p.pc = "release_old" /\ p.todo = RemovePrefixes(q)
    BY <1>1, <2>1, Fields
  <2>3. UpdateFrugal(d, p)
    BY <1>1, <2>2, SameSights DEF UpdateFrugal
  <2>4. Clean(d, q, p)
    BY <2>2, <2>3, UpdateCleans DEF DefaultPhases
  <2> QED
    BY <1>3, <2>1, <2>4 DEF ToReleaseOld
<1> QED
  BY <1>2, <1>3

LEMMA ToRekeyCleans ==
  ASSUME NEW d, NEW q, Updating(q), Kept(d, q.svc, q.old),
         Owned(d, q.svc) \ SetOf(q.old.ann.addrs) \subseteq NewOnes(q)
  PROVE  Clean(d, q, ToRekey(q))
<1>1. /\ Owned(d, q.svc) \subseteq SetOf(q.old.ann.addrs) \cup SetOf(q.new.ann.addrs)
      /\ Freeable(d, q, Owned(d, q.svc) \ SetOf(q.new.ann.addrs), q.old.ann)
      /\ Extra(d, q) \subseteq NewOnes(q) /\ q \in AnyRequest
  BY DEF NewOnes, Kept, Freeable, Extra, ListedBy, Updating
<1>2. CASE SecretChanged(q) /\ KeepPrefixes(q) # <<>>
  <2>1. PICK p : p = [Loop(q, "rekey", KeepPrefixes(q)) EXCEPT !.got = <<>>]
    OBVIOUS
  <2>2. Follows(p, q) /\ p.pc = "rekey"
    BY <1>1, <2>1 DEF Loop, AnyRequest, Follows, Same
  <2>3. UpdateFrugal(d, p)
    BY <1>1, <2>2, SameSights DEF UpdateFrugal, AfterEffects
  <2>4. Clean(d, q, p)
    BY <2>2, <2>3, UpdateCleans DEF DefaultPhases
  <2> QED
    BY <1>2, <2>1, <2>4 DEF ToRekey
<1>3. CASE ~(SecretChanged(q) /\ KeepPrefixes(q) # <<>>)
  BY <1>1, <1>3, ToReleaseCleans DEF ToRekey
<1> QED
  BY <1>2, <1>3

\* There are two new addresses at most, and one when another is kept.
LEMMA NewListed ==
  ASSUME NEW q, Updating(q)
  PROVE  LET firsts == NewPrefixes(q) IN
         /\ q \in AnyRequest /\ firsts \in Seq(Addrs) /\ SetOf(firsts) = NewOnes(q) /\ Len(firsts) <= 2
         /\ firsts # <<>> => firsts[1] = Head(firsts) /\ firsts[1] \in NewOnes(q)
         /\ firsts = <<>> <=> NewOnes(q) = {}
         /\ Len(firsts) = 2 => NewOnes(q) = {firsts[1], firsts[2]}
         /\ KeptOnes(q) # {} => NewOnes(q) \subseteq {firsts[1]}
<1> DEFINE firsts == NewPrefixes(q)
<1>1. q \in AnyRequest /\ firsts \in Seq(Addrs) /\ SetOf(firsts) = NewOnes(q)
  BY PrefixSets DEF Updating
<1>2. NewAddrs(q) = q.new.ann.addrs /\ NewAddrs(q) \in Seq(Addrs) /\ Distinct(NewAddrs(q))
  BY Listing DEF Updating, NewAddrs
<1>3. Distinct(firsts) /\ NewOnes(q) \subseteq SetOf(q.new.ann.addrs)
  BY <1>2, OnlyElements DEF NewPrefixes, NewOnes
<1>4. /\ \A a, b, c \in SetOf(q.new.ann.addrs) : a = b \/ a = c \/ b = c
      /\ Len(firsts) <= 2 /\ (Len(firsts) = 2 => SetOf(firsts) = {firsts[1], firsts[2]})
  BY <1>1, <1>3, AtMostTwo DEF Updating
<1>5. firsts # <<>> => firsts[1] = Head(firsts) /\ firsts[1] \in NewOnes(q)
  BY <1>1, Looped
<1>6. firsts = <<>> <=> NewOnes(q) = {}
  BY <1>1, <1>5, NothingListed
<1>7. ASSUME NEW k \in KeptOnes(q), NEW a \in NewOnes(q) PROVE a = firsts[1]
  <2>1. firsts[1] \in NewOnes(q)
    BY <1>5, <1>6
  <2> QED
    BY <1>4, <2>1 DEF KeptOnes, NewOnes
<1> QED
  BY <1>1, <1>4, <1>5, <1>6, <1>7

LEMMA ToUndoFirstCleans ==
  ASSUME NEW d, NEW q, Updating(q), Freeable(d, q, Extra(d, q), q.new.ann),
         Extra(d, q) \subseteq NewOnes(q), Extra(d, q) \subseteq {NewPrefixes(q)[1]}
  PROVE  Clean(d, q, ToUndoFirst(q))
<1>1. CASE NewPrefixes(q) = <<>>
  BY <1>1, NewListed DEF ToUndoFirst, Clean
<1>2. CASE NewPrefixes(q) # <<>>
  <2>1. PICK p : p = At(q, "undo_first")
    OBVIOUS
  <2>2. Follows(p, q) /\ p.pc = "undo_first"
    BY <2>1, NewListed, Fields
  <2>3. UpdateFrugal(d, p)
    BY <1>2, <2>2, SameSights DEF UpdateFrugal, AfterEffects
  <2>4. Clean(d, q, p)
    BY <2>2, <2>3, UpdateCleans DEF DefaultPhases
  <2> QED
    BY <1>2, <2>1, <2>4 DEF ToUndoFirst
<1> QED
  BY <1>1, <1>2

LEMMA ToRegisterCleans ==
  ASSUME NEW d, NEW q, Updating(q), Kept(d, q.svc, q.old),
         Freeable(d, q, Extra(d, q), q.new.ann), Extra(d, q) \subseteq NewOnes(q),
         Extra(d, q) # {} => NewPrefixes(q)[1] \in Extra(d, q)
  PROVE  Clean(d, q, ToRegister(q))
<1>1. CASE NewPrefixes(q) = <<>>
  <2>1. Owned(d, q.svc) \ SetOf(q.old.ann.addrs) \subseteq NewOnes(q)
    BY DEF Extra, ListedBy, Updating
  <2> QED
    BY <1>1, <2>1, ToRekeyCleans DEF ToRegister
<1>2. CASE NewPrefixes(q) # <<>>
  <2>1. PICK p : p = Loop(q, "register", NewPrefixes(q))
    OBVIOUS
  <2>2. Follows(p, q) /\ p.pc = "register" /\ p.todo = NewPrefixes(q)
    BY <2>1, NewListed, Fields
  <2>3. /\ SetOf(p.todo) \subseteq NewOnes(q) /\ p.todo # <<>> /\ Head(p.todo) = NewPrefixes(q)[1]
    BY <1>2, <2>2, NewListed
  <2>4. Head(p.todo) \in Extra(d, q) \/ Extra(d, q) = {}
    BY <2>3
  <2>5. UpdateFrugal(d, p)
    BY <2>2, <2>3, <2>4, SameSights DEF UpdateFrugal, AfterEffects
  <2>6. Clean(d, q, p)
    BY <2>2, <2>5, UpdateCleans DEF DefaultPhases
  <2> QED
    BY <1>2, <2>1, <2>6 DEF ToRegister
<1> QED
  BY <1>1, <1>2

LEMMA StartUpdateFrees ==
  ASSUME WInv, BInv, FInv, NEW r \in Slots, StartUpdate(r)
  PROVE  FInv'
<1> DEFINE q == req[r]
<1>1. q.pc = "update" /\ q.pc \in UpdatePhases \ {"admitted"}
  BY DEF StartUpdate, UpdatePhases
<1>2. /\ Active(r) /\ Updating(q) /\ UpdateSecured(ipam, q) /\ UpdateFrugal(ipam, q)
      /\ Extra(ipam, q) = Owned(ipam, q.svc) \ SetOf(q.old.ann.addrs)
  BY <1>1, UpdateWorks
<1>3. Kept(ipam, q.svc, q.old)
  BY <1>1, <1>2 DEF UpdateSecured, BeforeEffects
<1>4. /\ Freeable(ipam, q, Extra(ipam, q), q.new.ann) /\ Extra(ipam, q) \subseteq NewOnes(q)
      /\ Extra(ipam, q) # {} => NewPrefixes(q)[1] \in Extra(ipam, q)
  BY <1>1, <1>2, NewListed DEF UpdateFrugal, InOrder
<1>5. NothingToDo(q) => Clean(ipam, q, Admit(q))
  <2>1. ASSUME NothingToDo(q) PROVE Owned(ipam, q.svc) \subseteq SetOf(q.new.ann.addrs)
    <3>1. q.old.ann = q.new.ann
      BY <1>2, <2>1 DEF NothingToDo, Updating
    <3> QED
      BY <1>2, <1>4, <3>1 DEF NewOnes
  <2> QED
    BY <1>2, <2>1, HeldAreNew
<1>6. ZoneRefused(q) => Clean(ipam, q, ToUndoFirst(q))
  <2>1. ZoneRefused(q) => KeptOnes(q) # {}
    <3>1. SetOf(KeepPrefixes(q)) = KeptOnes(q) /\ KeepPrefixes(q) \in Seq(Addrs)
      BY <1>2, PrefixSets DEF Updating
    <3> QED
      BY <3>1, Looped DEF ZoneRefused
  <2>2. ZoneRefused(q) => Extra(ipam, q) \subseteq {NewPrefixes(q)[1]}
    BY <1>2, <1>4, <2>1, NewListed
  <2> QED
    BY <1>2, <1>4, <2>2, ToUndoFirstCleans
<1>7. Clean(ipam, q, ToRegister(q))
  BY <1>2, <1>3, <1>4, ToRegisterCleans
<1>8. ASSUME NEW p, Decide(r, p), Clean(ipam, q, p) PROVE FInv'
  <2>1. Continue(r, p) /\ UNCHANGED <<store, ipam>>
    BY <1>8 DEF Decide
  <2> QED
    BY <1>2, <1>8, <2>1, CleanStep, NothingMoves
<1> QED
  BY <1>5, <1>6, <1>7, <1>8 DEF StartUpdate

(* As in ValidateCreate, every new address is bound before the next one is
   tried; a refusal of the second one leaves the first to give back, and of
   the first one nothing. *)
LEMMA ValidateNewFrees ==
  ASSUME WInv, BInv, FInv, NEW r \in Slots, ValidateNew(r)
  PROVE  FInv'
<1> DEFINE q == req[r]
           ann == q.new.ann
           extra(d) == Extra(d, q)
           firsts == NewPrefixes(q)
<1>1. q.pc = "register" /\ q.pc \in UpdatePhases \ {"admitted"} /\ q.pc \in BeforeEffects
  BY DEF ValidateNew, UpdatePhases, BeforeEffects
<1>2. /\ Active(r) /\ Sane(ipam) /\ NothingLeft /\ Updating(q) /\ q.svc \in Services /\ q \in AnyRequest
      /\ q.todo \in Listed /\ ann \in AnyAnn /\ SetOf(q.old.ann.addrs) \subseteq Addrs
      /\ UpdateSecured(ipam, q) /\ UpdateFrugal(ipam, q)
      /\ \A d : extra(d) = Owned(d, q.svc) \ SetOf(q.old.ann.addrs)
  BY <1>1, UpdateWorks
<1>3. /\ Kept(ipam, q.svc, q.old) /\ Freeable(ipam, q, extra(ipam), ann)
      /\ extra(ipam) \subseteq NewOnes(q) /\ SetOf(q.todo) \subseteq NewOnes(q)
      /\ q.todo # <<>> /\ (Head(q.todo) \in extra(ipam) \/ extra(ipam) \subseteq {firsts[1]})
      /\ Len(q.todo) > 1 => q.todo = firsts
  BY <1>1, <1>2 DEF UpdateSecured, UpdateFrugal
<1>4. /\ firsts \in Seq(Addrs) /\ Len(firsts) <= 2 /\ firsts[1] \in NewOnes(q) /\ firsts[1] = Head(firsts)
      /\ Len(firsts) = 2 => NewOnes(q) = {firsts[1], firsts[2]}
  <2>1. NewOnes(q) # {}
    BY <1>2, <1>3, Looped DEF Listed
  <2> QED
    BY <1>2, <2>1, NewListed
<1>5. PICK a, granted : a = Head(q.todo) /\ granted = NextOf(q, ToRekey(q))
  OBVIOUS
<1>6. PICK failed : failed = ToUndoFirst(q)
  OBVIOUS
<1>7. /\ UNCHANGED store /\ OthersShrink(ipam, ipam', q.svc)
      /\ \/ /\ Continue(r, granted) /\ a \in Addrs /\ Has(ipam', q.svc, a, ann)
            /\ Owned(ipam', q.svc) = Owned(ipam, q.svc) \cup {a}
            /\ \A b \in Addrs : \A x : Has(ipam, q.svc, b, x) => Has(ipam', q.svc, b, x)
         \/ /\ Continue(r, failed) /\ ipam' = ipam
            /\ a \in Addrs => ~Has(ipam, q.svc, a, ann)
  <2>1. UpdateAddress(r, a, ann, granted, failed)
    BY <1>5, <1>6 DEF ValidateNew
  <2> QED
    BY <1>2, <2>1, UpdateAddressBinds
<1>8. a \in NewOnes(q)
  BY <1>2, <1>3, <1>5, Looped DEF Listed
<1>9. CASE /\ Continue(r, granted) /\ a \in Addrs /\ Has(ipam', q.svc, a, ann)
           /\ Owned(ipam', q.svc) = Owned(ipam, q.svc) \cup {a}
           /\ \A b \in Addrs : \A x : Has(ipam, q.svc, b, x) => Has(ipam', q.svc, b, x)
  <2>1. extra(ipam') = extra(ipam) \cup {a} /\ extra(ipam) \subseteq Addrs
    BY <1>2, <1>8, <1>9 DEF NewOnes, Owned
  <2>2. Freeable(ipam', q, extra(ipam'), ann) /\ extra(ipam') \subseteq NewOnes(q)
    BY <1>3, <1>8, <1>9, <2>1 DEF Freeable
  <2>3. Kept(ipam', q.svc, q.old)
    BY <1>2, <1>3, <1>9 DEF Kept
  <2>4. CASE Len(q.todo) > 1
    <3>1. PICK p : p = [q EXCEPT !.todo = Tail(@)]
      OBVIOUS
    <3>2. Follows(p, q) /\ p.pc = "register" /\ p.todo = Tail(q.todo) /\ granted = p
      BY <1>1, <1>2, <1>5, <2>4, <3>1 DEF AnyRequest, Follows, Same, NextOf
    <3>3. q.todo = firsts /\ Len(firsts) = 2
      <4>1. \A n \in Nat : n > 1 /\ n <= 2 => n = 2
        OBVIOUS
      <4>2. Len(firsts) \in Nat
        BY <1>4
      <4>3. q.todo = firsts
        BY <1>3, <2>4
      <4> QED
        BY <1>4, <2>4, <4>1, <4>2, <4>3
    <3>4. Head(p.todo) = firsts[2] /\ Len(p.todo) = 1 /\ p.todo # <<>>
      <4>1. \A s \in Seq(Addrs) : Len(s) = 2 => Head(Tail(s)) = s[2] /\ Len(Tail(s)) = 1 /\ Tail(s) # <<>>
        OBVIOUS
      <4> QED
        BY <1>4, <3>2, <3>3, <4>1
    <3>5. a = firsts[1] /\ NewOnes(q) = {a, Head(p.todo)}
      BY <1>4, <1>5, <3>3, <3>4
    <3>6. Head(p.todo) \in extra(ipam') \/ extra(ipam') \subseteq {firsts[1]}
      BY <2>2, <3>5
    <3>7. SetOf(p.todo) \subseteq NewOnes(q)
      BY <1>2, <1>3, <2>4, <3>2, Looped DEF Listed
    <3>8. ~(Len(p.todo) > 1)
      <4>1. \A n : n = 1 => ~(n > 1)
        OBVIOUS
      <4> QED
        BY <3>4, <4>1
    <3>9. UpdateFrugal(ipam', p)
      BY <2>2, <3>2, <3>4, <3>6, <3>7, <3>8, SameSights DEF UpdateFrugal, AfterEffects
    <3>10. Clean(ipam', q, p)
      BY <1>2, <3>2, <3>9, UpdateCleans DEF DefaultPhases
    <3> QED
      BY <1>2, <1>7, <1>9, <3>2, <3>10, CleanStep
  <2>5. CASE ~(Len(q.todo) > 1)
    <3>1. granted = ToRekey(q)
      BY <1>5, <2>5 DEF NextOf
    <3>2. Clean(ipam', q, granted)
      BY <1>2, <2>2, <2>3, <3>1, ToRekeyCleans
    <3> QED
      BY <1>2, <1>7, <1>9, <3>2, CleanStep
  <2> QED
    BY <2>4, <2>5
<1>10. CASE /\ Continue(r, failed) /\ ipam' = ipam
            /\ a \in Addrs => ~Has(ipam, q.svc, a, ann)
  <2>1. a \notin extra(ipam)
    BY <1>2, <1>3, <1>10 DEF Freeable, Owned
  <2>2. Clean(ipam', q, failed)
    BY <1>2, <1>3, <1>5, <1>6, <1>10, <2>1, ToUndoFirstCleans
  <2> QED
    BY <1>2, <1>7, <1>10, <2>2, CleanStep
<1> QED
  BY <1>7, <1>9, <1>10

(* Giving back the first new address is giving back all: of two, the second
   is tried last, and with one kept there is only one. *)
LEMMA UndoFirstFrees ==
  ASSUME WInv, BInv, FInv, NEW r \in Slots, UndoFirst(r)
  PROVE  FInv'
<1> DEFINE q == req[r]
<1>1. q.pc = "undo_first" /\ q.pc \in UpdatePhases \ {"admitted"}
  BY DEF UndoFirst, UpdatePhases
<1>2. /\ Active(r) /\ Sane(ipam) /\ NothingLeft /\ q.svc \in Services /\ q.new.ann \in AnyAnn
      /\ UpdateFrugal(ipam, q) /\ \A d : Extra(d, q) = Owned(d, q.svc) \ SetOf(q.old.ann.addrs)
  BY <1>1, UpdateWorks
<1>3. PICK a : a = NewPrefixes(q)[1]
  OBVIOUS
<1>4. Freeable(ipam, q, Extra(ipam, q), q.new.ann) /\ Extra(ipam, q) \subseteq {a}
  BY <1>1, <1>2, <1>3 DEF UpdateFrugal
<1>5. /\ UNCHANGED store /\ OthersShrink(ipam, ipam', q.svc) /\ Continue(r, Idle)
      /\ Owned(ipam', q.svc) \subseteq Owned(ipam, q.svc)
      /\ Has(ipam, q.svc, a, q.new.ann) => a \notin Owned(ipam', q.svc)
  <2>1. RemoveAddress(r, a, q.new.ann, Idle)
    BY <1>3 DEF UndoFirst
  <2> QED
    BY <1>2, <2>1, RemoveAddressFrees
<1>6. Extra(ipam', q) = {}
  BY <1>2, <1>4, <1>5 DEF Freeable
<1> QED
  BY <1>2, <1>5, <1>6, CleanStep DEF Clean

\* Every change of secret is granted, so none is ever reverted.
LEMMA NoReverts ==
  ASSUME WInv, BInv, FInv, NEW r \in Slots
  PROVE  ~RevertSecret(r) /\ ~UndoNew(r)
<1> SUFFICES ASSUME req[r].pc \in {"revert", "undo_new"} PROVE FALSE
  BY DEF RevertSecret, UndoNew
<1>1. req[r].pc \in UpdatePhases \ {"admitted"}
  BY DEF UpdatePhases
<1> QED
  BY <1>1, UpdateWorks DEF UpdateFrugal

LEMMA ChangeSecretFrees ==
  ASSUME WInv, BInv, FInv, NEW r \in Slots, ChangeSecret(r)
  PROVE  FInv'
<1> DEFINE q == req[r]
           old == SetOf(q.old.ann.addrs)
           new == SetOf(q.new.ann.addrs)
<1>1. q.pc = "rekey" /\ q.pc \in UpdatePhases \ {"admitted"}
  BY DEF ChangeSecret, UpdatePhases
<1>2. /\ Active(r) /\ Sane(ipam) /\ NothingLeft /\ Updating(q) /\ q.svc \in Services /\ q \in AnyRequest
      /\ q.todo \in Listed /\ q.new.ann \in AnyAnn /\ q.old.ann \in AnyAnn /\ old \subseteq Addrs
      /\ UpdateSecured(ipam, q) /\ UpdateFrugal(ipam, q)
      /\ \A d : Extra(d, q) = Owned(d, q.svc) \ old
  BY <1>1, UpdateWorks
<1>3. /\ RekeySecured(ipam, q) /\ q.todo # <<>> /\ (KeptOnes(q) = {} \/ q.old.ann.zone = q.new.ann.zone)
      /\ Extra(ipam, q) \subseteq NewOnes(q) /\ Freeable(ipam, q, Owned(ipam, q.svc) \ new, q.old.ann)
  BY <1>1, <1>2 DEF UpdateSecured, UpdateFrugal
<1>4. PICK done : done = [q EXCEPT !.got = Append(@, Head(q.todo))]
  OBVIOUS
<1>5. PICK a, granted, failed : /\ a = Head(q.todo) /\ granted = NextOf(done, ToReleaseOld(q))
                                /\ failed = IF Len(q.got) = 1 THEN At(q, "revert") ELSE ToUndoNew(q)
  OBVIOUS
<1>6. PICK ann, from, to : ann = q.new.ann /\ from = q.old.ann.secret /\ to = q.new.ann.secret
  OBVIOUS
<1>7. a \in new /\ a \in Addrs /\ a \in Prefix[ann.zone] /\ ipam[a].secret = from
  <2>1. a \in SetOf(q.todo)
    BY <1>2, <1>3, <1>5, Looped DEF Listed
  <2>2. a \in KeptOnes(q) /\ a \in Prefix[q.old.ann.zone] /\ ipam[a].secret = q.old.ann.secret
    BY <1>2, <1>3, <2>1, Reliable DEF RekeySecured, KeptOnes
  <2> QED
    BY <1>2, <1>3, <1>6, <2>2 DEF KeptOnes
<1>8. /\ UNCHANGED store /\ OthersShrink(ipam, ipam', q.svc) /\ StillFree(ipam, ipam', q.svc, a)
      /\ Owned(ipam', q.svc) = Owned(ipam, q.svc) /\ Continue(r, granted)
  <2>1. UpdateSecret(r, a, ann, from, to, granted, failed)
    BY <1>4, <1>5, <1>6 DEF ChangeSecret
  <2>2. ann \in AnyAnn /\ from \in Secrets /\ to \in Secrets
    BY <1>2, <1>6 DEF AnyAnn
  <2> QED
    BY <1>2, <1>7, <2>1, <2>2, UpdateSecretMoves
<1>9. Extra(ipam', q) \subseteq NewOnes(q)
  BY <1>2, <1>3, <1>8
<1>10. Freeable(ipam', q, Owned(ipam', q.svc) \ new, q.old.ann)
  <2>1. Owned(ipam, q.svc) \subseteq Addrs
    BY DEF Owned
  <2> QED
    BY <1>3, <1>7, <1>8, <2>1 DEF Freeable, StillFree
<1>11. CASE Len(q.todo) > 1
  <2>1. /\ Follows(granted, q) /\ granted.pc = "rekey"
    BY <1>1, <1>2, <1>4, <1>5, <1>11 DEF AnyRequest, Follows, Same, NextOf
  <2>2. UpdateFrugal(ipam', granted)
    BY <1>9, <1>10, <2>1, SameSights DEF UpdateFrugal, AfterEffects
  <2>3. Clean(ipam', q, granted)
    BY <1>2, <2>1, <2>2, UpdateCleans DEF DefaultPhases
  <2> QED
    BY <1>2, <1>8, <2>3, CleanStep
<1>12. CASE ~(Len(q.todo) > 1)
  <2>1. granted = ToReleaseOld(q)
    <3>1. done.todo = q.todo
      BY <1>2, <1>4 DEF AnyRequest
    <3> QED
      BY <1>5, <1>12, <3>1 DEF NextOf
  <2>2. Owned(ipam', q.svc) \subseteq old \cup new
    BY <1>2, <1>9 DEF NewOnes
  <2>3. Clean(ipam', q, granted)
    BY <1>2, <1>10, <2>1, <2>2, ToReleaseCleans
  <2> QED
    BY <1>2, <1>8, <2>3, CleanStep
<1> QED
  BY <1>11, <1>12

LEMMA ReleaseOldFrees ==
  ASSUME WInv, BInv, FInv, NEW r \in Slots, ReleaseOld(r)
  PROVE  FInv'
<1> DEFINE q == req[r]
           mine(d) == Owned(d, q.svc)
           new == SetOf(q.new.ann.addrs)
<1>1. q.pc = "release_old" /\ q.pc \in UpdatePhases \ {"admitted"} /\ q.pc \in AfterEffects
  BY DEF ReleaseOld, UpdatePhases, AfterEffects
<1>2. /\ Active(r) /\ Sane(ipam) /\ NothingLeft /\ Updating(q) /\ q.svc \in Services /\ q \in AnyRequest
      /\ q.todo \in Listed /\ q.old.ann \in AnyAnn /\ UpdateSecured(ipam, q) /\ UpdateFrugal(ipam, q)
  BY <1>1, UpdateWorks
<1>3. /\ q.todo # <<>> /\ SetOf(q.todo) \cap new = {} /\ mine(ipam) \subseteq new \cup SetOf(q.todo)
      /\ Freeable(ipam, q, mine(ipam) \ new, q.old.ann)
  BY <1>1, <1>2 DEF UpdateSecured, UpdateFrugal
<1>4. PICK a, next : a = Head(q.todo) /\ next = NextOf(q, ToPoolAdd(q))
  OBVIOUS
<1>5. a \in SetOf(q.todo) /\ a \notin new
  BY <1>2, <1>3, <1>4, Looped DEF Listed
<1>6. /\ UNCHANGED store /\ OthersShrink(ipam, ipam', q.svc) /\ StillFree(ipam, ipam', q.svc, a)
      /\ Continue(r, next) /\ mine(ipam') \subseteq mine(ipam)
      /\ Has(ipam, q.svc, a, q.old.ann) => a \notin mine(ipam')
  <2>1. RemoveAddress(r, a, q.old.ann, next)
    BY <1>4 DEF ReleaseOld
  <2> QED
    BY <1>2, <2>1, RemoveAddressFrees
<1>7. a \notin mine(ipam') /\ mine(ipam') \subseteq Addrs
  BY <1>3, <1>5, <1>6 DEF Freeable, Owned
<1>8. Freeable(ipam', q, mine(ipam') \ new, q.old.ann)
  BY <1>3, <1>6, <1>7 DEF Freeable, StillFree
<1>9. CASE Len(q.todo) > 1
  <2>1. Follows(next, q) /\ next.pc = "release_old" /\ next.todo = Tail(q.todo)
    BY <1>1, <1>2, <1>4, <1>9 DEF AnyRequest, Follows, Same, NextOf
  <2>2. mine(ipam') \subseteq new \cup SetOf(next.todo)
    BY <1>2, <1>3, <1>4, <1>6, <1>7, <1>9, <2>1, Looped DEF Listed
  <2>3. UpdateFrugal(ipam', next)
    BY <1>8, <2>1, <2>2, SameSights DEF UpdateFrugal
  <2>4. Clean(ipam', q, next)
    BY <1>2, <2>1, <2>3, UpdateCleans DEF DefaultPhases
  <2> QED
    BY <1>2, <1>6, <2>4, CleanStep
<1>10. CASE ~(Len(q.todo) > 1)
  <2>1. SetOf(q.todo) = {a} /\ next = ToPoolAdd(q)
    BY <1>2, <1>3, <1>4, <1>10, Looped DEF Listed, NextOf
  <2>2. mine(ipam') \subseteq new
    BY <1>3, <1>6, <1>7, <2>1
  <2>3. Clean(ipam', q, next)
    BY <1>2, <2>1, <2>2, HeldAreNew
  <2> QED
    BY <1>2, <1>6, <2>3, CleanStep
<1> QED
  BY <1>9, <1>10

LEMMA UpdatePoolsFree ==
  ASSUME WInv, BInv, FInv, NEW r \in Slots, UpdatePoolGet(r) \/ UpdateVerify(r) \/ UpdateRemoveGet(r)
  PROVE  FInv'
<1> DEFINE q == req[r]
<1>1. /\ q.pc \in {"update_pool", "update_verify", "update_remove"}
      /\ q.pc \in UpdatePhases \ {"admitted"} /\ q.pc \in AfterEffects \ {"release_old"}
  BY DEF UpdatePoolGet, UpdateVerify, UpdateRemoveGet, UpdatePhases, AfterEffects
<1>2. /\ Active(r) /\ Updating(q) /\ q.svc \in Services /\ q \in AnyRequest /\ UpdateFrugal(ipam, q)
  BY <1>1, UpdateWorks
<1>3. Owned(ipam, q.svc) \subseteq SetOf(q.new.ann.addrs)
  BY <1>1, <1>2 DEF UpdateFrugal
<1>4. PICK p : /\ Continue(r, p) /\ UNCHANGED <<store, ipam>>
               /\ p \in {Admit(q), At(q, "update_pooling"), At(q, "update_remove"), At(q, "update_removing")}
  BY DEF UpdatePoolGet, UpdateVerify, UpdateRemoveGet, PoolUnchanged, Decide
<1>5. Follows(p, q) /\ p.pc \in {"admitted", "update_pooling", "update_remove", "update_removing"}
  BY <1>2, <1>4, Fields
<1>6. Clean(ipam, q, p)
  BY <1>2, <1>3, <1>5, HeldAreNew DEF AfterEffects
<1> QED
  BY <1>2, <1>4, <1>6, CleanStep, NothingMoves

----------------------------------------------------------------------------
(* ValidateDelete. *)

LEMMA DeleteWorks ==
  ASSUME WInv, BInv, FInv, NEW r \in Slots, req[r].pc \in DeletePhases \ {"admitted"}
  PROVE  LET q == req[r] IN
         /\ Active(r) /\ Sane(ipam) /\ NothingLeft /\ q \in AnyRequest /\ q.op = "delete"
         /\ q.svc \in Services /\ q.todo \in Listed /\ q.old.ann \in AnyAnn /\ IsLB(q.old)
         /\ q.old.ann.addrs \in Seq(Addrs) /\ q.old.ann.addrs # <<>> /\ OldAddrs(q) = q.old.ann.addrs
         /\ DeleteSecured(ipam, q) /\ DeleteFrugal(ipam, q)
         /\ \A d : Extra(d, q) = Owned(d, q.svc) \ SetOf(q.old.ann.addrs)
<1> DEFINE q == req[r]
<1>1. q.pc # "idle"
  BY DEF DeletePhases
<1>2. /\ Active(r) /\ Sane(ipam) /\ q \in AnyRequest /\ q.op = "delete"
      /\ DeleteSecured(ipam, q) /\ q.svc \in Services /\ q.todo \in Listed
      /\ q.old.ann \in AnyAnn /\ q.old.ann.addrs # <<>> /\ OldAddrs(q) = q.old.ann.addrs
  BY AtDelete
<1>3. DeleteFrugal(ipam, q) /\ NothingLeft
  BY <1>1, <1>2, Working DEF Frugal
<1>4. IsLB(q.old)
  BY <1>2 DEF DeleteSecured
<1>5. \A d : Extra(d, q) = Owned(d, q.svc) \ SetOf(q.old.ann.addrs)
  BY <1>4 DEF Extra, ListedBy
<1> QED
  BY <1>2, <1>3, <1>4, <1>5 DEF AnyAnn

LEMMA DeleteCleans ==
  ASSUME NEW d, NEW q, q.op = "delete", NEW p, Follows(p, q),
         p.pc \in DeletePhases, DeleteFrugal(d, p)
  PROVE  Clean(d, q, p)
<1>1. p.pc # "idle" /\ p.pc \notin DefaultPhases /\ p.pc # "create_pooling"
  BY DEF DeletePhases, DefaultPhases
<1>2. p.op = "delete" /\ p.svc = q.svc
  BY FollowsCarries
<1> QED
  BY <1>1, <1>2 DEF Frugal, Clean

LEMMA StartDeleteFrees ==
  ASSUME WInv, BInv, FInv, NEW r \in Slots, StartDelete(r)
  PROVE  FInv'
<1> DEFINE q == req[r]
<1>1. q.pc = "delete" /\ q.pc \in DeletePhases \ {"admitted"}
  BY DEF StartDelete, DeletePhases
<1>2. /\ Active(r) /\ q \in AnyRequest /\ q.op = "delete" /\ q.svc \in Services
      /\ q.old.ann.addrs # <<>> /\ OldAddrs(q) = q.old.ann.addrs
      /\ IsLB(q.old) /\ DeleteFrugal(ipam, q)
  BY <1>1, DeleteWorks
<1>3. PICK p : p = Loop(q, "release", OldAddrs(q))
  OBVIOUS
<1>4. Follows(p, q) /\ p.pc = "release" /\ p.todo = q.old.ann.addrs
  BY <1>2, <1>3, Fields
<1>5. Continue(r, p) /\ UNCHANGED <<ipam, store>>
  BY <1>2, <1>3 DEF StartDelete, Decide
<1>6. p.svc = q.svc /\ p.old = q.old /\ p.pc \in DeletePhases
  BY <1>4, FollowsCarries DEF DeletePhases
<1>7. DeleteFrugal(ipam, p)
  BY <1>1, <1>2, <1>4, <1>6 DEF DeleteFrugal
<1>8. Clean(ipam, q, p)
  BY <1>2, <1>4, <1>6, <1>7, DeleteCleans
<1> QED
  BY <1>2, <1>5, <1>8, CleanStep, NothingMoves

LEMMA ReleaseAddressFrees ==
  ASSUME WInv, BInv, FInv, NEW r \in Slots, ReleaseAddress(r)
  PROVE  FInv'
<1> DEFINE q == req[r]
           ann == q.old.ann
           mine(d) == Owned(d, q.svc)
<1>1. q.pc = "release" /\ q.pc \in DeletePhases \ {"admitted"} /\ q.pc \in Releasing
  BY DEF ReleaseAddress, DeletePhases, Releasing
<1>2. /\ Active(r) /\ Sane(ipam) /\ NothingLeft /\ q \in AnyRequest /\ q.op = "delete"
      /\ q.svc \in Services /\ q.todo \in Listed /\ ann \in AnyAnn
      /\ DeleteSecured(ipam, q) /\ DeleteFrugal(ipam, q)
  BY <1>1, DeleteWorks
<1>3. /\ mine(ipam) \subseteq SetOf(ann.addrs) /\ mine(ipam) \subseteq SetOf(q.todo) /\ q.todo # <<>>
      /\ \A a \in SetOf(ann.addrs) : Regainable(ipam, a, ann)
  BY <1>1, <1>2 DEF DeleteSecured, DeleteFrugal
<1>4. PICK a, next : a = Head(q.todo) /\ next = NextOf(q, Loop(q, "delete_verify", <<>>))
  OBVIOUS
<1>5. /\ UNCHANGED store /\ OthersShrink(ipam, ipam', q.svc)
      /\ Continue(r, next) /\ mine(ipam') \subseteq mine(ipam)
      /\ Has(ipam, q.svc, a, ann) => a \notin mine(ipam')
  <2>1. RemoveAddress(r, a, ann, next)
    BY <1>4 DEF ReleaseAddress
  <2> QED
    BY <1>2, <2>1, RemoveAddressFrees
<1>6. a \notin mine(ipam')
  <2>1. a \in mine(ipam) => Has(ipam, q.svc, a, ann)
    BY <1>3 DEF Owned, Regainable, Has
  <2> QED
    BY <1>5, <2>1
<1>7. CASE Len(q.todo) > 1
  <2>1. Follows(next, q) /\ next.pc = "release" /\ next.todo = Tail(q.todo)
    BY <1>1, <1>2, <1>4, <1>7 DEF AnyRequest, Follows, Same, NextOf
  <2>2. next.todo # <<>> /\ mine(ipam') \subseteq SetOf(next.todo)
    <3>1. next.todo # <<>> /\ SetOf(q.todo) = {a} \cup SetOf(next.todo)
      <4>1. q.todo \in Listed /\ q.todo # <<>> /\ next.todo = Tail(q.todo) /\ a = Head(q.todo)
        BY <1>2, <1>3, <1>4, <2>1
      <4>2. PICK todo \in Listed : todo = q.todo
        BY <4>1
      <4>3. Tail(todo) # <<>> /\ SetOf(todo) = {Head(todo)} \cup SetOf(Tail(todo))
        BY <1>7, <4>1, <4>2, Looped DEF Listed
      <4> QED
        BY <4>1, <4>2, <4>3
    <3> QED
      BY <1>3, <1>5, <1>6, <3>1
  <2>3. next.svc = q.svc /\ next.old = q.old /\ next.pc \in DeletePhases
    BY <2>1, FollowsCarries DEF DeletePhases
  <2>4. DeleteFrugal(ipam', next)
    BY <1>3, <1>5, <2>1, <2>2, <2>3 DEF DeleteFrugal
  <2>5. Clean(ipam', q, next)
    BY <1>2, <2>1, <2>3, <2>4, DeleteCleans
  <2> QED
    BY <1>2, <1>5, <2>5, CleanStep
<1>8. CASE ~(Len(q.todo) > 1)
  <2>1. SetOf(q.todo) = {a} /\ next = Loop(q, "delete_verify", <<>>)
    BY <1>2, <1>3, <1>4, <1>8, Looped DEF Listed, NextOf
  <2>2. mine(ipam') = {}
    BY <1>3, <1>5, <1>6, <2>1
  <2>3. Follows(next, q) /\ next.pc = "delete_verify"
    BY <1>2, <2>1, Fields
  <2>4. next.svc = q.svc /\ next.pc \in DeletePhases
    BY <2>3, FollowsCarries DEF DeletePhases
  <2>5. DeleteFrugal(ipam', next)
    BY <2>2, <2>3, <2>4 DEF DeleteFrugal
  <2>6. Clean(ipam', q, next)
    BY <1>2, <2>3, <2>4, <2>5, DeleteCleans
  <2> QED
    BY <1>2, <1>5, <2>6, CleanStep
<1> QED
  BY <1>7, <1>8

LEMMA DeleteVerifyFrees ==
  ASSUME WInv, BInv, FInv, NEW r \in Slots, DeleteVerify(r) \/ DeleteRemoveGet(r)
  PROVE  FInv'
<1> DEFINE q == req[r]
<1>1. /\ q.pc \in {"delete_verify", "delete_remove"} /\ q.pc \in DeletePhases \ {"admitted"}
  BY DEF DeleteVerify, DeleteRemoveGet, DeletePhases
<1>2. Active(r) /\ q \in AnyRequest /\ q.op = "delete" /\ q.svc \in Services /\ DeleteFrugal(ipam, q)
  BY <1>1, DeleteWorks
<1>3. PICK p : /\ Continue(r, p) /\ UNCHANGED <<ipam, store>>
               /\ p \in {At(q, "delete_remove"), At(q, "delete_removing"), Admit(q)}
  BY DEF DeleteVerify, DeleteRemoveGet, Decide, PoolUnchanged
<1>4. Follows(p, q) /\ p.pc \in {"delete_remove", "delete_removing", "admitted"}
  BY <1>2, <1>3, Fields
<1>5. p.svc = q.svc /\ p.pc \in DeletePhases
  BY <1>4, FollowsCarries DEF DeletePhases
<1>6. DeleteFrugal(ipam, p)
  BY <1>1, <1>2, <1>4, <1>5 DEF DeleteFrugal
<1>7. Clean(ipam, q, p)
  BY <1>2, <1>4, <1>5, <1>6, DeleteCleans
<1> QED
  BY <1>2, <1>3, <1>7, CleanStep, NothingMoves

LEMMA RestoreAddressFrees ==
  ASSUME WInv, BInv, FInv, NEW r \in Slots, RestoreAddress(r)
  PROVE  FInv'
<1> DEFINE q == req[r]
           ann == q.old.ann
           mine(d) == Owned(d, q.svc)
<1>1. q.pc = "restore" /\ q.pc \in DeletePhases \ {"admitted"}
  BY DEF RestoreAddress, DeletePhases
<1>2. /\ Active(r) /\ NothingLeft /\ q \in AnyRequest /\ q.op = "delete"
      /\ q.svc \in Services /\ q.todo \in Listed /\ ann \in AnyAnn
      /\ DeleteSecured(ipam, q) /\ DeleteFrugal(ipam, q)
      /\ \A d : Extra(d, q) = mine(d) \ SetOf(ann.addrs)
  BY <1>1, DeleteWorks
<1>3. mine(ipam) \subseteq SetOf(ann.addrs) /\ q.todo # <<>> /\ SetOf(q.todo) \subseteq SetOf(ann.addrs)
  BY <1>1, <1>2 DEF DeleteSecured, DeleteFrugal
<1>4. PICK a, next, idle : a = Head(q.todo) /\ next = NextOf(q, Idle) /\ idle = Idle
  OBVIOUS
<1>5. /\ UNCHANGED store /\ OthersShrink(ipam, ipam', q.svc)
      /\ \/ Continue(r, next) /\ mine(ipam') = mine(ipam) \cup {a}
         \/ Continue(r, idle) /\ ipam' = ipam
  <2>1. UpdateAddress(r, a, ann, next, idle)
    BY <1>4 DEF RestoreAddress
  <2> QED
    BY <1>2, <2>1, UpdateAddressBinds
<1>6. a \in SetOf(ann.addrs)
  BY <1>2, <1>3, <1>4, Looped DEF Listed
<1>7. mine(ipam') \subseteq SetOf(ann.addrs) /\ Extra(ipam', q) = {}
  BY <1>2, <1>3, <1>5, <1>6
<1>8. Clean(ipam', q, Idle)
  BY <1>7 DEF Clean
<1>9. Clean(ipam', q, next)
  <2>1. CASE Len(q.todo) > 1
    <3>1. Follows(next, q) /\ next.pc = "restore"
      BY <1>1, <1>2, <1>4, <2>1 DEF NextOf, AnyRequest, Follows, Same
    <3>2. next.svc = q.svc /\ next.old = q.old /\ next.pc \in DeletePhases
      BY <3>1, FollowsCarries DEF DeletePhases
    <3>3. DeleteFrugal(ipam', next)
      BY <1>7, <3>1, <3>2 DEF DeleteFrugal
    <3> QED
      BY <1>2, <3>1, <3>2, <3>3, DeleteCleans
  <2>2. CASE ~(Len(q.todo) > 1)
    BY <1>4, <1>8, <2>2 DEF NextOf
  <2> QED
    BY <2>1, <2>2
<1> QED
  BY <1>2, <1>4, <1>5, <1>8, <1>9, CleanStep

----------------------------------------------------------------------------
(* Pool operations.  An addition gets through, so that no create is denied
   once its addresses are bound. *)

LEMMA PoolStepFrees ==
  ASSUME WInv, GInv, BInv, PInv, FInv, NEW r \in Slots, PoolStep(r)
  PROVE  FInv'
<1>1. NothingLeft /\ Serial /\ ~(faults < MaxFaults) /\ \A o \in Slots : o = r
  BY NoFaults, Reliable DEF FInv
<1>2. /\ UNCHANGED <<store, req, ipam, lbCache>>
      /\ Pool!AddWrite(r, "ok") \/ Pool!RemoveList(r) \/ Pool!RemoveWrite(r, "ok")
  BY <1>1 DEF PoolStep
<1>3. req[r].pc = "create_pooling" => call'[r].pc # "error"
  <2>1. call[r].pc \in {"adding", "listing", "removing"}
    BY <1>2 DEF Pool!AddWrite, Pool!RemoveList, Pool!RemoveWrite
  <2>2. req[r].pc # "idle" /\ (req[r].pc = "create_pooling" => call[r].pc = "adding")
    BY <2>1, Operates
  <2>3. ASSUME req[r].pc = "create_pooling" PROVE call'[r].pc # "error"
    <3>1. call[r].pc = "adding" /\ Undisputed(r)
      BY <1>1, <2>2, <2>3, Pledges
    <3>2. Pool!AddWrite(r, "ok")
      BY <1>2, <3>1 DEF Pool!RemoveList, Pool!RemoveWrite
    <3>3. call[r].read = pools[call[r].zone]
      BY <3>1 DEF Undisputed, Pool!Running
    <3>4. call'[r].pc = "ok"
      BY <1>2, <3>2, <3>3, AddSucceeds
    <3> QED
      BY <3>4
  <2> QED
    BY <2>3
<1>4. \A s \in Services : Quiet(s)' => Quiet(s)
  BY <1>2 DEF Quiet, RequestsFor, Active
<1>5. \A o \in Slots : Active(o)' => Active(o)
  BY <1>2 DEF Active
<1>6. NothingLeft'
  BY <1>1 DEF NothingLeft, Serial, BindingsLast, SecretsLast, OneSecret, OneService, FewFaults, OneFault
<1> QED
  BY <1>1, <1>2, <1>3, <1>4, <1>5, <1>6 DEF FInv

LEMMA PoolReturnFrees ==
  ASSUME WInv, BInv, FInv, NEW r \in Slots, PoolReturn(r)
  PROVE  FInv'
<1> DEFINE q == req[r]
           c == call[r]
<1>1. c.pc \in {"ok", "error"} /\ Continue(r, AfterPool(q, c.pc)) /\ UNCHANGED <<store, ipam>>
  BY DEF PoolReturn, PoolUnchanged
<1>2. q.pc \in PoolPhases
  BY <1>1 DEF WInv, WebhookTypeOK, Idle
<1>3. q.pc # "idle"
  BY <1>2 DEF PoolPhases
<1>4. Active(r) /\ q \in AnyRequest /\ q.svc \in Services
  BY <1>3, Working
<1>5. Clean(ipam, q, AfterPool(q, c.pc))
  <2>1. CASE q.pc = "create_pooling"
    <3>1. q.pc \in CreatePhases \ {"admitted"}
      BY <2>1 DEF CreatePhases
    <3>2. q.op = "create" /\ CreateFrugal(ipam, q)
      BY <3>1, CreateOf, CreateWorks
    <3>3. AfterPool(q, c.pc) = Admit(q)
      BY <1>1, <2>1 DEF AfterPool, FInv
    <3>4. PICK p : p = Admit(q)
      OBVIOUS
    <3>5. Follows(p, q) /\ p.pc = "admitted"
      BY <1>4, <3>4, Fields
    <3>6. p.svc = q.svc /\ p.new = q.new /\ p.pc \in CreatePhases
      BY <3>5, FollowsCarries DEF CreatePhases
    <3>7. CreateFrugal(ipam, p)
      BY <2>1, <3>2, <3>5, <3>6 DEF CreateFrugal, Freeable
    <3>8. Clean(ipam, q, p)
      BY <3>2, <3>5, <3>6, <3>7, CreateCleans
    <3> QED
      BY <3>3, <3>4, <3>8
  <2>2. CASE q.pc \in {"update_pooling", "update_removing"}
    <3>1. q.pc \in UpdatePhases \ {"admitted"} /\ q.pc \in AfterEffects \ {"release_old"}
      BY <2>2 DEF UpdatePhases, AfterEffects
    <3>2. Updating(q) /\ Owned(ipam, q.svc) \subseteq SetOf(q.new.ann.addrs)
      BY <3>1, UpdateWorks DEF UpdateFrugal
    <3> QED
      BY <2>2, <3>2, HeldAreNew DEF AfterPool
  <2>3. CASE q.pc = "delete_removing"
    <3>1. q.pc \in DeletePhases \ {"admitted"}
      BY <2>3 DEF DeletePhases
    <3>2. q.op = "delete" /\ DeleteFrugal(ipam, q)
      BY <3>1, DeleteWorks
    <3>3. PICK p : p = AfterPool(q, c.pc)
      OBVIOUS
    <3>4. p = Admit(q) \/ p = Loop(q, "restore", OldAddrs(q))
      BY <2>3, <3>3 DEF AfterPool
    <3>5. Follows(p, q) /\ p.pc \in {"admitted", "restore"}
      BY <1>4, <3>4, Fields
    <3>6. p.svc = q.svc /\ p.old = q.old /\ p.pc \in DeletePhases
      BY <3>5, FollowsCarries DEF DeletePhases
    <3>7. DeleteFrugal(ipam, p)
      BY <2>3, <3>2, <3>5, <3>6 DEF DeleteFrugal
    <3> QED
      BY <3>2, <3>3, <3>5, <3>6, <3>7, DeleteCleans
  <2> QED
    BY <1>2, <2>1, <2>2, <2>3 DEF PoolPhases
<1> HIDE DEF c
<1> QED
  BY <1>1, <1>4, <1>5, CleanStep, NothingMoves

----------------------------------------------------------------------------
(* The API server, and the users. *)

\* No two requests are about, and what a LoadBalancer Service is stored with
\* is what its request was admitted with.
LEMMA CommitFrees ==
  ASSUME WInv, BInv, FInv, NEW r \in Slots, Commit(r)
  PROVE  FInv'
<1> DEFINE q == req[r]
<1>1. /\ q.pc = "admitted" /\ q.pc # "idle" /\ q.pc \notin DefaultPhases /\ UNCHANGED ipam
      /\ store' = [store EXCEPT ![q.svc] = q.new] /\ req' = AfterCommit(r)
  BY DEF Commit, DefaultPhases
<1>2. /\ Sound(q) /\ Secured(ipam, q) /\ NothingLeft /\ Frugal(ipam, q) /\ q.svc \in Services
      /\ q.op \in {"create", "update", "delete"}
  BY <1>1, Working, SoundTypes
<1>3. Owned(ipam, q.svc) \subseteq ListedBy(q.new)
  <2>1. CASE q.op = "delete"
    BY <1>1, <1>2, <2>1 DEF Frugal, DeleteFrugal
  <2>2. CASE q.op = "create"
    BY <1>1, <1>2, <2>2 DEF Frugal, CreateFrugal, Secured, CreateSecured, ListedBy
  <2>3. CASE q.op = "update"
    BY <1>1, <1>2, <2>3 DEF Frugal, UpdateFrugal, AfterEffects, Secured, UpdateSecured, ListedBy
  <2> QED
    BY <1>2, <2>1, <2>2, <2>3
<1>4. \A o \in Slots : o = r /\ req'[o] = Idle
  BY <1>1, <1>2, Reliable DEF AfterCommit
<1>5. \A s \in Services : store'[s] = IF s = q.svc THEN q.new ELSE store[s]
  BY <1>1, <1>2 DEF WInv, WebhookTypeOK
<1>6. ASSUME NEW s \in Services PROVE Owned(ipam', s) \subseteq ListedBy(store'[s])
  <2>1. CASE s = q.svc
    BY <1>1, <1>3, <1>5, <2>1
  <2>2. CASE s # q.svc
    <3>1. Quiet(s)
      BY <1>4, <2>2 DEF Quiet, RequestsFor
    <3> QED
      BY <1>1, <1>5, <2>2, <3>1 DEF FInv
  <2> QED
    BY <2>1, <2>2
<1>7. NothingLeft'
  BY <1>2 DEF NothingLeft, Serial, BindingsLast, SecretsLast, OneSecret, OneService, FewFaults, OneFault
<1> QED
  BY <1>4, <1>6, <1>7 DEF FInv, Active, Idle

LEMMA Submitted ==
  ASSUME FInv, NEW r \in Slots, NEW p, UNCHANGED <<store, ipam>>, \A o \in Slots : req'[o] = p,
         \A t \in Services : Quiet(t) /\ Owned(ipam, t) \subseteq ListedBy(store[t]),
         Frugal(ipam, p), p.pc # "create_pooling"
  PROVE  FInv'
<1>1. NothingLeft'
  BY DEF FInv, NothingLeft, Serial, BindingsLast, SecretsLast, OneSecret, OneService, FewFaults, OneFault
<1> QED
  BY <1>1 DEF FInv

\* A request finds the IPAM API with nothing that its Service does not list.
LEMMA SubmitFrees ==
  ASSUME WInv, BInv, FInv, NEW r \in Slots, SubmitAny(r)
  PROVE  FInv'
<1>1. ASSUME NEW s \in Services, NEW p, Continue(r, p), UNCHANGED <<store, ipam>>, ~Active(r),
             p.svc = s, p.old = store[s], p.got = <<>>,
             \/ p.pc = "default" /\ p.op \in {"create", "update"}
             \/ p.pc = "delete" /\ p.op = "delete" /\ store[s] # NoService
      PROVE  FInv'
  <2>1. NothingLeft /\ (\A o \in Slots : o = r) /\ (\A o \in Slots : req'[o] = p)
    BY <1>1, Reliable DEF FInv, WInv, WebhookTypeOK, Continue
  <2>2. \A t \in Services : Quiet(t) /\ Owned(ipam, t) \subseteq ListedBy(store[t])
    BY <1>1, <2>1 DEF FInv, Quiet, RequestsFor
  <2>3. Extra(ipam, p) = {} /\ Owned(ipam, p.svc) \subseteq ListedBy(p.old)
    BY <1>1, <2>2 DEF Extra
  <2>4. CASE p.pc = "default" /\ p.op \in {"create", "update"}
    <3>1. DefaultFrugal(ipam, p)
      BY <1>1, <2>3, <2>4 DEF DefaultFrugal
    <3>2. Frugal(ipam, p)
      BY <2>4, <3>1 DEF Frugal, DefaultPhases
    <3> QED
      BY <1>1, <2>1, <2>2, <2>4, <3>2, Submitted
  <2>5. CASE p.pc = "delete" /\ p.op = "delete" /\ store[s] # NoService
    <3>1. IsLB(store[s])
      BY <2>5 DEF BInv
    <3>2. Owned(ipam, p.svc) \subseteq SetOf(p.old.ann.addrs)
      BY <1>1, <2>3, <3>1 DEF ListedBy
    <3>3. DeleteFrugal(ipam, p)
      BY <2>5, <3>2 DEF DeleteFrugal
    <3>4. Frugal(ipam, p)
      BY <2>5, <3>3 DEF Frugal, DefaultPhases
    <3> QED
      BY <1>1, <2>1, <2>2, <2>5, <3>4, Submitted
  <2> QED
    BY <1>1, <2>4, <2>5
<1>2. ASSUME NEW s \in Services, SubmitCreate(r, s) \/ SubmitUpdate(r, s) \/ SubmitDelete(r, s)
      PROVE  FInv'
  <2>1. \E pc, op, new : /\ Submit(r, pc, op, s, store[s], new)
                         /\ \/ pc = "default" /\ op \in {"create", "update"}
                            \/ pc = "delete" /\ op = "delete" /\ store[s] # NoService
    BY <1>2 DEF SubmitCreate, SubmitUpdate, SubmitDelete
  <2>2. PICK pc, op, new : /\ Submit(r, pc, op, s, store[s], new)
                           /\ \/ pc = "default" /\ op \in {"create", "update"}
                              \/ pc = "delete" /\ op = "delete" /\ store[s] # NoService
    BY <2>1
  <2>3. PICK p : /\ Continue(r, p) /\ UNCHANGED <<store, ipam>> /\ ~Active(r)
                 /\ p.svc = s /\ p.old = store[s] /\ p.got = <<>> /\ p.pc = pc /\ p.op = op
    BY <2>2 DEF Submit, CanSubmit
  <2> QED
    BY <1>1, <2>2, <2>3
<1> QED
  BY <1>2 DEF SubmitAny

----------------------------------------------------------------------------
(* Everything. *)

\* Nobody gives up or is overtaken, and no entry check fails.
LEMMA NothingElseEnds ==
  ASSUME WInv, BInv, FInv, NEW r \in Slots
  PROVE  ~(Conflict(r) \/ Unheard(r) \/ Abandon(r) \/ EntryFails(r))
<1>1. ~(faults < MaxFaults) /\ ~Rejections
  BY NoFaults, Reliable DEF FInv, BindingsLast
<1>2. req[r].pc # "idle" => req[r].answer = "awaited"
  BY Working
<1> QED
  BY <1>1, <1>2 DEF Conflict, Unheard, Abandon, EntryFails, Active

LEMMA OthersFree ==
  ASSUME WInv, FInv, Crash \/ SyncPools \/ SyncServices \/ UNCHANGED vars
  PROVE  FInv'
<1>1. ~(faults < MaxFaults) /\ ~InformerLag /\ NothingLeft
  BY NoFaults, Reliable DEF FInv, Serial
<1>2. UNCHANGED <<store, req, ipam, call>>
  BY <1>1 DEF Crash, SyncPools, SyncServices, vars, poolVars
<1>3. NothingLeft'
  BY <1>1 DEF NothingLeft, Serial, BindingsLast, SecretsLast, OneSecret, OneService, FewFaults, OneFault
<1>4. \A s \in Services : Quiet(s)' => Quiet(s)
  BY <1>2 DEF Quiet, RequestsFor, Active
<1>5. \A o \in Slots : Active(o)' => Active(o)
  BY <1>2 DEF Active
<1> QED
  BY <1>2, <1>3, <1>4, <1>5 DEF FInv

LEMMA NextFrees ==
  ASSUME WInv, WInv', GInv, BInv, PInv, FInv, [Next]_vars
  PROVE  FInv'
<1>1. ASSUME NEW r \in Slots, Handle(r) PROVE FInv'
  <2>1. CASE \/ Default(r) \/ RequestV4(r) \/ RequestV6(r) \/ UndoV4(r)
             \/ StartCreate(r) \/ ValidateAddress(r) \/ RollbackCreate(r) \/ CreatePoolGet(r)
    BY <2>1, DefaultFrees, RequestsFree, UndoV4Never, StartCreateFrees, ValidateAddressFrees,
       RollbackCreateFrees, CreatePoolGetFrees
  <2>2. CASE \/ StartUpdate(r) \/ ValidateNew(r) \/ UndoFirst(r) \/ ChangeSecret(r)
             \/ RevertSecret(r) \/ UndoNew(r) \/ ReleaseOld(r) \/ UpdatePoolGet(r)
             \/ UpdateVerify(r) \/ UpdateRemoveGet(r)
    BY <2>2, StartUpdateFrees, ValidateNewFrees, UndoFirstFrees, ChangeSecretFrees, NoReverts,
       ReleaseOldFrees, UpdatePoolsFree
  <2>3. CASE \/ StartDelete(r) \/ ReleaseAddress(r) \/ DeleteVerify(r) \/ DeleteRemoveGet(r)
             \/ RestoreAddress(r)
    BY <2>3, StartDeleteFrees, ReleaseAddressFrees, DeleteVerifyFrees, RestoreAddressFrees
  <2>4. CASE PoolStep(r) \/ PoolReturn(r) \/ Commit(r) \/ Conflict(r) \/ Unheard(r)
    BY <2>4, PoolStepFrees, PoolReturnFrees, CommitFrees, NothingElseEnds
  <2> QED
    BY <1>1, <2>1, <2>2, <2>3, <2>4 DEF Handle
<1>2. ASSUME NEW r \in Slots, SubmitAny(r) \/ Abandon(r) \/ EntryFails(r) PROVE FInv'
  BY <1>2, SubmitFrees, NothingElseEnds
<1> QED
  BY <1>1, <1>2, OthersFree DEF Next, Rest

LEMMA InitFrees == NothingLeft /\ Init => FInv
<1> SUFFICES ASSUME NothingLeft, Init PROVE FInv
  OBVIOUS
<1>1. \A r \in Slots : req[r] = Idle /\ ~Active(r)
  BY DEF Init, Active, Idle
<1>2. \A s \in Services : Owned(ipam, s) = {}
  BY IpamAssumption DEF Init, IpamInit, Owned, Unbound
<1> QED
  BY <1>1, <1>2 DEF FInv, Idle

(* FInv is inductive, together with the invariants it builds on. *)
THEOREM FreedInvariance ==
  ASSUME NothingLeft
  PROVE  Spec => []FInv
<1>1. WInv /\ WInv' /\ GInv /\ BInv /\ PInv /\ FInv /\ [Next]_vars => FInv'
  BY NextFrees
<1>2. Init => FInv
  BY InitFrees
<1>3. BindingsLast /\ PoolsLast
  BY Reliable
<1> QED
  BY <1>1, <1>2, <1>3, WebhookInvariance, ManagerInvariance, BindingsInvariance, PoolsInvariance,
     PTL DEF Spec

(* When no request is in progress, the IPAM API has an address bound to a
   Service only if the stored Service lists it: ValidateCreate and
   ValidateUpdate give back what Default and they have bound when they deny, and
   ValidateUpdate and ValidateDelete what the Service gives up.  Of Services
   that ask for one family: Default does not give back the IPv4 address of one
   that asks for both and gets no IPv6 address. *)
THEOREM NothingStaysBound ==
  ASSUME NothingLeft
  PROVE  Spec => []BoundIsStored
<1>1. ASSUME FInv PROVE BoundIsStored
  BY <1>1 DEF FInv, BoundIsStored, AllQuiet, Owned, ListedBy, LbAddrs
<1> QED
  BY <1>1, FreedInvariance, PTL
=============================================================================
