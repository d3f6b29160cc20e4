----------------------- MODULE ServiceWebhook_proofs -----------------------
(***************************************************************************)
(* Proofs about the admission webhooks, for any number of concurrent       *)
(* requests, Services, zones, addresses and secrets, with faults, lost     *)
(* answers, crashes, rejections and stale caches: every variable stays in  *)
(* its type, no pool gets an address that is not in its zone, and a stored *)
(* LoadBalancer Service has the address families it asks for.              *)
(*                                                                         *)
(* The inductive invariant WInv says of each handler, at the point it has  *)
(* reached, what it has established: which addresses the IPAM API has      *)
(* validated in the request's zone, and which families are still missing.  *)
(***************************************************************************)
EXTENDS ServiceWebhook, TLAPS, WellFoundedInduction

----------------------------------------------------------------------------
(* Sequences. *)

(* A non-empty set of natural numbers has a least element. *)
LEMMA LeastNat ==
  ASSUME NEW T, T \subseteq Nat, T # {}
  PROVE  \E n \in T : \A m \in T : ~(m < n)
<1>1. \E x \in T : \A y \in T : ~ (<<y, x>> \in OpToRel(<, Nat))
  BY NatLessThanWellFounded, WFMin
<1> QED
  BY <1>1 DEF OpToRel

(* Only goes through its sequence element by element.  Its recursive function
   exists: otherwise there is a shortest prefix without one. *)
LEMMA OnlyRuns ==
  ASSUME NEW X, NEW seq \in Seq(X), NEW S
  PROVE  \E f : /\ Only(seq, S) = f[Len(seq)] /\ f[0] = <<>>
                /\ \A n \in 0..Len(seq) : f[n] \in Seq(X)
                /\ \A n \in 1..Len(seq) :
                     f[n] = IF seq[n] \in S THEN Append(f[n - 1], seq[n]) ELSE f[n - 1]
<1> DEFINE N == Len(seq)
           step(x, n) == IF seq[n] \in S THEN Append(x, seq[n]) ELSE x
           prefix(g, m) == g[0] = <<>> /\ \A k \in 1..m : g[k] = step(g[k - 1], k)
           body(f) == [n \in 0..N |-> IF n = 0 THEN <<>>
                                ELSE IF seq[n] \in S THEN Append(f[n - 1], seq[n]) ELSE f[n - 1]]
<1>0. /\ N \in Nat /\ <<>> \in Seq(X)
      /\ \A x \in Seq(X), n \in 1..N : step(x, n) \in Seq(X)
  OBVIOUS
<1> HIDE DEF step, N
<1>1. \A m \in 0..N : \E g \in [0..m -> Seq(X)] : prefix(g, m)
  <2> DEFINE T == {m \in 0..N : ~ \E g \in [0..m -> Seq(X)] : prefix(g, m)}
  <2> SUFFICES ASSUME T # {} PROVE FALSE
    OBVIOUS
  <2>0. T \subseteq Nat
    BY <1>0
  <2> HIDE DEF T
  <2>1. PICK m \in T : \A i \in T : ~(i < m)
    BY <2>0, LeastNat
  <2> USE DEF T
  <2>2. CASE m = 0
    <3>1. prefix([k \in 0..0 |-> <<>>], 0)
      OBVIOUS
    <3>2. [k \in 0..0 |-> <<>>] \in [0..0 -> Seq(X)]
      OBVIOUS
    <3> QED
      BY <2>1, <2>2, <3>1, <3>2
  <2>3. CASE m # 0
    <3>1. m \in 1..N /\ m - 1 \in 0..N /\ m - 1 < m
      BY <1>0, <2>1, <2>3
    <3>2. PICK g \in [0..m - 1 -> Seq(X)] : prefix(g, m - 1)
      BY <2>1, <3>1
    <3> DEFINE h == [k \in 0..m |-> IF k = m THEN step(g[m - 1], m) ELSE g[k]]
    <3>3. h \in [0..m -> Seq(X)]
      BY <1>0, <3>1
    <3>4. prefix(h, m)
      BY <3>1, <3>2
    <3> QED
      BY <2>1, <3>3, <3>4
  <2> QED
    BY <2>2, <2>3
<1>2. PICK g \in [0..N -> Seq(X)] : prefix(g, N)
  <2>1. N \in 0..N
    BY <1>0
  <2> QED
    BY <1>1, <2>1
<1>3. g = body(g)
  <2>1. \A k \in 0..N : g[k] = body(g)[k]
    <3> SUFFICES ASSUME NEW k \in 0..N PROVE g[k] = body(g)[k]
      OBVIOUS
    <3>1. CASE k = 0
      BY <1>2, <3>1
    <3>2. CASE k # 0
      <4>1. k \in 1..N
        BY <1>0, <3>2
      <4>2. g[k] = step(g[k - 1], k)
        BY <1>2, <4>1
      <4> QED
        BY <3>2, <4>2 DEF step
    <3> QED
      BY <3>1, <3>2
  <2> HIDE DEF prefix
  <2>2. g = [k \in 0..N |-> g[k]]
    BY <1>2
  <2> QED
    BY <2>1, <2>2
<1> DEFINE f == CHOOSE ff : ff = body(ff)
<1>4. f = body(f)
  BY <1>3
<1>5. Only(seq, S) = f[N]
  BY DEF Only, N
<1> HIDE DEF f
<1>6. f[0] = <<>> /\ \A k \in 1..N : f[k] = step(f[k - 1], k)
  <2>1. 0 \in 0..N /\ \A k \in 1..N : k \in 0..N /\ k # 0
    BY <1>0
  <2>2. \A k \in 0..N : f[k] = body(f)[k]
    BY <1>4
  <2>3. \A k \in 0..N : f[k] = IF k = 0 THEN <<>> ELSE step(f[k - 1], k)
    BY <2>2 DEF step
  <2> QED
    BY <2>1, <2>3
<1>7. \A n \in 0..N : f[n] \in Seq(X)
  <2> DEFINE T == {n \in 0..N : f[n] \notin Seq(X)}
  <2> SUFFICES ASSUME T # {} PROVE FALSE
    OBVIOUS
  <2>0. T \subseteq Nat
    BY <1>0
  <2> HIDE DEF T
  <2>1. PICK n \in T : \A i \in T : ~(i < n)
    BY <2>0, LeastNat
  <2> USE DEF T
  <2>2. n # 0
    BY <1>0, <1>6, <2>1
  <2>3. n \in 1..N /\ n - 1 \in 0..N /\ n - 1 < n
    BY <1>0, <2>1, <2>2
  <2>4. f[n - 1] \in Seq(X)
    BY <2>1, <2>3
  <2> QED
    BY <1>0, <1>6, <2>1, <2>3, <2>4
<1>8. \A n \in 1..N : f[n] = IF seq[n] \in S THEN Append(f[n - 1], seq[n]) ELSE f[n - 1]
  BY <1>6 DEF step
<1> HIDE DEF step
<1> QED
  BY <1>5, <1>6, <1>7, <1>8 DEF N

(* What Only keeps of a sequence is a sequence. *)
LEMMA OnlyType ==
  ASSUME NEW X, NEW seq \in Seq(X), NEW S
  PROVE  Only(seq, S) \in Seq(X)
<1>1. Len(seq) \in 0..Len(seq)
  OBVIOUS
<1> QED
  BY <1>1, OnlyRuns

(* An empty annotation only adds an address that is none. *)
LEMMA SetOfSplit ==
  ASSUME NEW addrs \in Seq(Addrs)
  PROVE  /\ Split(addrs) \in Seq(Texts)
         /\ SetOf(addrs) \subseteq SetOf(Split(addrs)) /\ SetOf(addrs) \subseteq Addrs
<1>1. SetOf(<<>>) = {}
  BY DEF SetOf
<1>2. CASE addrs = <<>>
  BY <1>1, <1>2 DEF Split, Texts
<1>3. CASE addrs # <<>>
  BY <1>3 DEF Split, SetOf, Texts
<1> QED
  BY <1>2, <1>3

(* What is left of a loop when its first element is done. *)
LEMMA SetOfTail ==
  ASSUME NEW X, NEW todo \in Seq(X)
  PROVE  /\ Len(todo) > 1 => /\ Tail(todo) \in Seq(X)
                             /\ SetOf(todo) \subseteq {Head(todo)} \cup SetOf(Tail(todo))
         /\ ~(Len(todo) > 1) => SetOf(todo) \subseteq {Head(todo)}
<1>1. /\ Len(todo) \in Nat
      /\ \A i \in 1..Len(todo) : i = 1 \/ i - 1 \in 1..(Len(todo) - 1)
  OBVIOUS
<1>2. CASE Len(todo) > 1
  <2>0. todo # <<>>
    BY <1>2
  <2>1. Tail(todo) \in Seq(X) /\ Len(Tail(todo)) = Len(todo) - 1
    BY <2>0
  <2>2. \A i \in 1..(Len(todo) - 1) : Tail(todo)[i] = todo[i + 1]
    BY <2>0
  <2>3. Head(todo) = todo[1]
    BY <2>0
  <2>4. ASSUME NEW i \in 1..Len(todo), i # 1 PROVE todo[i] \in SetOf(Tail(todo))
    <3>1. i - 1 \in 1..Len(Tail(todo)) /\ (i - 1) + 1 = i
      BY <1>1, <2>1, <2>4
    <3>2. Tail(todo)[i - 1] = todo[i]
      BY <2>1, <2>2, <3>1
    <3> QED
      BY <3>1, <3>2 DEF SetOf
  <2> QED
    BY <1>2, <2>1, <2>3, <2>4 DEF SetOf
<1>3. CASE ~(Len(todo) > 1)
  <2>1. \A i \in 1..Len(todo) : i = 1
    BY <1>1, <1>3
  <2>2. Len(todo) = 1 => Head(todo) = todo[1]
    OBVIOUS
  <2> QED
    BY <1>1, <1>3, <2>1, <2>2 DEF SetOf
<1> QED
  BY <1>2, <1>3

(* An address put first is one more of its family, and none of the other. *)
LEMMA Prepended ==
  ASSUME NEW addrs \in Seq(Addrs), NEW a \in Addrs
  PROVE  LET new == <<a>> \o addrs IN
         /\ new \in Seq(Addrs)
         /\ a \in V4 => /\ V4In(addrs) = {} => V4In(new) # {} /\ AtMostOne(V4In(new))
                        /\ AtMostOne(V6In(addrs)) => AtMostOne(V6In(new))
                        /\ V6In(new) = {} => V6In(addrs) = {}
         /\ a \notin V4 => /\ V6In(addrs) = {} => V6In(new) # {} /\ AtMostOne(V6In(new))
                           /\ AtMostOne(V4In(addrs)) => AtMostOne(V4In(new))
                           /\ V4In(new) = {} => V4In(addrs) = {}
<1> DEFINE new == <<a>> \o addrs
<1>1. /\ new \in Seq(Addrs) /\ Len(new) = Len(addrs) + 1 /\ new[1] = a
      /\ \A i \in 1..Len(addrs) : new[i + 1] = addrs[i]
  OBVIOUS
<1>2. /\ Len(addrs) \in Nat /\ 1 \in 1..Len(addrs) + 1
      /\ \A i \in 1..Len(addrs) : i + 1 \in 1..Len(addrs) + 1 /\ i + 1 # 1
      /\ \A j \in 1..Len(addrs) + 1 : j \in Nat /\ (j # 1 => j - 1 \in 1..Len(addrs) /\ (j - 1) + 1 = j)
  OBVIOUS
<1> HIDE DEF new
<1>3. /\ 1 \in V4In(new) <=> a \in V4
      /\ 1 \in V6In(new) <=> a \notin V4
  BY <1>1, <1>2 DEF V4In, V6In
<1>4. ASSUME NEW i, i \in V4In(addrs) \/ i \in V6In(addrs)
      PROVE  /\ i \in V4In(addrs) => i + 1 \in V4In(new)
             /\ i \in V6In(addrs) => i + 1 \in V6In(new)
  BY <1>1, <1>2, <1>4 DEF V4In, V6In
<1>5. ASSUME NEW j, j # 1
      PROVE  /\ j \in V4In(new) => j \in Nat /\ j - 1 \in V4In(addrs)
             /\ j \in V6In(new) => j \in Nat /\ j - 1 \in V6In(addrs)
  <2> SUFFICES ASSUME j \in 1..Len(addrs) + 1
               PROVE  /\ j \in V4In(new) => j \in Nat /\ j - 1 \in V4In(addrs)
                      /\ j \in V6In(new) => j \in Nat /\ j - 1 \in V6In(addrs)
    BY <1>1 DEF V4In, V6In
  <2>1. j \in Nat /\ j - 1 \in 1..Len(addrs) /\ new[j] = addrs[j - 1]
    BY <1>1, <1>2, <1>5
  <2> QED
    BY <2>1 DEF V4In, V6In
<1>6. CASE a \in V4
  <2>1. V4In(addrs) = {} => AtMostOne(V4In(new))
    BY <1>5 DEF AtMostOne
  <2>2. AtMostOne(V6In(addrs)) => AtMostOne(V6In(new))
    <3> SUFFICES ASSUME AtMostOne(V6In(addrs)), NEW i \in V6In(new), NEW j \in V6In(new)
                 PROVE  i = j
      BY DEF AtMostOne
    <3>1. i # 1 /\ j # 1
      BY <1>3, <1>6
    <3>2. i \in Nat /\ j \in Nat /\ i - 1 \in V6In(addrs) /\ j - 1 \in V6In(addrs)
      BY <1>5, <3>1
    <3>3. i - 1 = j - 1
      BY <3>2 DEF AtMostOne
    <3> QED
      BY <3>2, <3>3
  <2>3. V6In(new) = {} => V6In(addrs) = {}
    BY <1>4
  <2> QED
    BY <1>1, <1>3, <1>6, <2>1, <2>2, <2>3 DEF new
<1>7. CASE a \notin V4
  <2>1. V6In(addrs) = {} => AtMostOne(V6In(new))
    BY <1>5 DEF AtMostOne
  <2>2. AtMostOne(V4In(addrs)) => AtMostOne(V4In(new))
    <3> SUFFICES ASSUME AtMostOne(V4In(addrs)), NEW i \in V4In(new), NEW j \in V4In(new)
                 PROVE  i = j
      BY DEF AtMostOne
    <3>1. i # 1 /\ j # 1
      BY <1>3, <1>7
    <3>2. i \in Nat /\ j \in Nat /\ i - 1 \in V4In(addrs) /\ j - 1 \in V4In(addrs)
      BY <1>5, <3>1
    <3>3. i - 1 = j - 1
      BY <3>2 DEF AtMostOne
    <3> QED
      BY <3>2, <3>3
  <2>3. V4In(new) = {} => V4In(addrs) = {}
    BY <1>4
  <2> QED
    BY <1>1, <1>3, <1>7, <2>1, <2>2, <2>3 DEF new
<1> QED
  BY <1>6, <1>7
----------------------------------------------------------------------------
(* The invariant. *)

DefaultPhases == {"default", "request_v4", "request_v6", "undo_v4"}
CreatePhases == {"create", "validate", "rollback", "create_pool", "create_pooling", "admitted"}
UpdatePhases == {"update", "register", "undo_first", "rekey", "revert", "undo_new",
                 "release_old", "update_pool", "update_pooling", "update_verify",
                 "update_remove", "update_removing", "admitted"}
DeletePhases == {"delete", "release", "delete_verify", "delete_remove", "delete_removing",
                 "restore", "admitted"}

(* A request is in a phase of its own kind and has the Services of its kind. *)
Phased(q) ==
  /\ q.op = "create" => q.pc \in DefaultPhases \cup CreatePhases /\ q.new \in AnyService
  /\ q.op = "update" => /\ q.pc \in DefaultPhases \cup UpdatePhases
                        /\ q.new \in AnyService /\ q.old \in AnyService
  /\ q.op = "delete" => /\ q.pc \in DeletePhases
                        /\ q.new = NoService /\ q.old \in AnyService

(* The addresses a handler will put into the pool have been validated in its
   zone, but for those its loop has still to do. *)
Checked(q) ==
  LET zone == q.new.ann.zone IN
  /\ q.pc = "validate" => SetOf(q.new.ann.addrs) \subseteq SetOf(q.todo) \cup Prefix[zone]
  /\ q.pc = "create_pool" => SetOf(q.new.ann.addrs) \subseteq Prefix[zone]
  /\ q.pc = "register" => SetOf(NewPrefixes(q)) \subseteq SetOf(q.todo) \cup Prefix[zone]
  /\ q.pc \in {"rekey", "release_old", "update_pool"} =>
       SetOf(NewPrefixes(q)) \subseteq Prefix[zone]

(* Past Default, a LoadBalancer Service has its families; in Default they are
   served one after the other. *)
HasV4(ann) == ann.family # "ipv6" => V4In(ann.addrs) # {}
HasV6(ann) == ann.family # "ipv4" => V6In(ann.addrs) # {}
HasFamilies(svc) ==
  IsLB(svc) => Acceptable(svc.ann) /\ HasV4(svc.ann) /\ HasV6(svc.ann)
Progress(q) ==
  /\ q.pc = "request_v4" => IsLB(q.new) /\ Acceptable(q.new.ann) /\ NeedsV4(q.new.ann)
  /\ q.pc = "request_v6" => /\ IsLB(q.new) /\ Acceptable(q.new.ann) /\ NeedsV6(q.new.ann)
                            /\ HasV4(q.new.ann)
  /\ q.pc \notin DefaultPhases => HasFamilies(q.new)

Sound(q) == q \in AnyRequest /\ Phased(q) /\ Checked(q) /\ Progress(q)

PoolsInZone ==
  /\ \A z \in Zones : pools[z].addrs \subseteq Prefix[z] /\ poolCache[z].addrs \subseteq Prefix[z]
  /\ \A r \in Slots : call[r].pc \in Pool!Running => call[r].read.addrs \subseteq Prefix[call[r].zone]
  /\ \A r \in Slots : call[r].pc = "adding" => call[r].addrs \subseteq Prefix[call[r].zone]

WInv == /\ WebhookTypeOK
        /\ \A r \in Slots : Active(r) => Sound(req[r])
        /\ PoolsInZone
        /\ \A s \in Services : HasFamilies(store[s])
----------------------------------------------------------------------------
(* Requests that move on. *)

Same(p, q) == p.op = q.op /\ p.svc = q.svc /\ p.old = q.old /\ p.new = q.new

(* What a handler may become without starting a pool operation. *)
Onward(p) == p = Idle \/ (Sound(p) /\ p.pc \notin PoolPhases)

(* What the loops go through. *)
Listed == Seq(Texts)

LEMMA NothingListed == <<>> \in Listed /\ SetOf(<<>>) = {}
  BY DEF Listed, SetOf

LEMMA MovesType ==
  ASSUME NEW q \in AnyRequest, NEW pc \in Phases, NEW todo \in Listed
  PROVE  /\ At(q, pc) \in AnyRequest /\ Same(At(q, pc), q) /\ At(q, pc).pc = pc
         /\ Loop(q, pc, todo) \in AnyRequest /\ Same(Loop(q, pc, todo), q)
         /\ Loop(q, pc, todo).pc = pc /\ Loop(q, pc, todo).todo = todo
         /\ Admit(q) \in AnyRequest /\ Same(Admit(q), q) /\ Admit(q).pc = "admitted"
<1>1. At(q, pc) \in AnyRequest /\ Same(At(q, pc), q) /\ At(q, pc).pc = pc
  BY DEF AnyRequest, At, Same
<1>2. /\ Loop(q, pc, todo) \in AnyRequest /\ Same(Loop(q, pc, todo), q)
      /\ Loop(q, pc, todo).pc = pc /\ Loop(q, pc, todo).todo = todo
  BY DEF AnyRequest, Loop, Same, Listed
<1>3. "admitted" \in Phases /\ <<>> \in Listed
  BY NothingListed DEF Phases
<1>4. Admit(q) \in AnyRequest /\ Same(Admit(q), q) /\ Admit(q).pc = "admitted"
  BY <1>3 DEF AnyRequest, Admit, Same, Listed
<1> QED
  BY <1>1, <1>2, <1>4

(* Past Default, a request keeps its Services, and so its families. *)
LEMMA StaysSound ==
  ASSUME NEW q, Sound(q), q.pc \notin DefaultPhases,
         NEW p \in AnyRequest, Same(p, q), p.pc \notin DefaultPhases,
         Phased(p), Checked(p)
  PROVE  Sound(p)
  BY DEF Sound, Same, Progress, DefaultPhases

\* The phases in which nothing is left to be checked.
Plain == Phases \ (PoolPhases \cup DefaultPhases
                   \cup {"validate", "create_pool", "register", "rekey", "release_old", "update_pool"})

LEMMA PlainOnward ==
  ASSUME NEW q, Sound(q), q.pc \notin DefaultPhases,
         NEW p \in AnyRequest, Same(p, q), p.pc \in Plain, Phased(p)
  PROVE  Onward(p)
<1>1. Checked(p) /\ p.pc \notin DefaultPhases /\ p.pc \notin PoolPhases
  BY DEF Plain, Checked
<1> QED
  BY <1>1, StaysSound DEF Onward

(* The prefixes that an update compares, and what becomes of them. *)
LEMMA Prefixes ==
  ASSUME NEW q \in AnyRequest, q.old \in AnyService, q.new \in AnyService
  PROVE  /\ OldAddrs(q) \in Listed /\ NewAddrs(q) \in Listed
         /\ NewPrefixes(q) \in Listed /\ KeepPrefixes(q) \in Listed
         /\ RemovePrefixes(q) \in Listed
<1>1. q.old.ann.addrs \in Seq(Addrs) /\ q.new.ann.addrs \in Seq(Addrs)
  BY DEF AnyService, AnyAnn
<1>2. OldAddrs(q) \in Listed /\ NewAddrs(q) \in Listed
  BY <1>1, SetOfSplit DEF OldAddrs, NewAddrs, Listed
<1> QED
  BY <1>2, OnlyType DEF NewPrefixes, KeepPrefixes, RemovePrefixes, Listed

LEMMA SamePrefixes ==
  ASSUME NEW p, NEW q, Same(p, q)
  PROVE  NewPrefixes(p) = NewPrefixes(q)
  BY DEF Same, NewPrefixes, NewAddrs, OldAddrs

(* What may follow each part of an update. *)
UpdateRequest(q) ==
  Sound(q) /\ q.op = "update" /\ q.pc \notin DefaultPhases

LEMMA UpdatePlain ==
  ASSUME NEW q, UpdateRequest(q), NEW p \in AnyRequest, Same(p, q),
         p.pc \in Plain \cap UpdatePhases
  PROVE  Onward(p)
<1>1. Phased(p)
  BY DEF UpdateRequest, Sound, Phased, Same
<1> QED
  BY <1>1, PlainOnward DEF UpdateRequest

(* Every phase between the registration and the pool needs the new addresses
   validated. *)
LEMMA UpdateChecked ==
  ASSUME NEW q, UpdateRequest(q), SetOf(NewPrefixes(q)) \subseteq Prefix[q.new.ann.zone],
         NEW p \in AnyRequest, Same(p, q), p.pc \in {"rekey", "release_old", "update_pool"}
  PROVE  Onward(p)
<1>1. Phased(p)
  BY DEF UpdateRequest, Sound, Phased, Same, UpdatePhases
<1>2. Checked(p)
  BY SamePrefixes DEF Checked, Same
<1>3. p.pc \notin DefaultPhases /\ p.pc \notin PoolPhases
  BY DEF DefaultPhases, PoolPhases
<1> QED
  BY <1>1, <1>2, <1>3, StaysSound DEF UpdateRequest, Onward

LEMMA ToPlain ==
  ASSUME NEW q, UpdateRequest(q)
  PROVE  Onward(Admit(q)) /\ Onward(ToPoolRemove(q)) /\ Onward(ToUndoFirst(q)) /\ Onward(ToUndoNew(q))
<1>1. q \in AnyRequest /\ NewPrefixes(q) \in Listed
  BY Prefixes DEF UpdateRequest, Sound, Phased
<1>2. {"admitted", "update_verify", "undo_first", "undo_new"} \subseteq Plain \cap UpdatePhases
  BY DEF Plain, UpdatePhases, Phases, PoolPhases, DefaultPhases
<1>3. Plain \subseteq Phases
  BY DEF Plain
<1>4. Onward(Admit(q))
  BY <1>1, <1>2, <1>3, MovesType, UpdatePlain
<1>5. Onward(Loop(q, "update_verify", <<>>))
  BY <1>1, <1>2, <1>3, MovesType, NothingListed, UpdatePlain
<1>6. Onward(At(q, "undo_first"))
  BY <1>1, <1>2, <1>3, MovesType, UpdatePlain
<1>7. Onward(Loop(q, "undo_new", NewPrefixes(q)))
  BY <1>1, <1>2, <1>3, MovesType, UpdatePlain
<1> QED
  BY <1>4, <1>5, <1>6, <1>7 DEF ToPoolRemove, ToUndoFirst, ToUndoNew, Onward

LEMMA ToChecked ==
  ASSUME NEW q, UpdateRequest(q), SetOf(NewPrefixes(q)) \subseteq Prefix[q.new.ann.zone]
  PROVE  Onward(ToPoolAdd(q)) /\ Onward(ToReleaseOld(q)) /\ Onward(ToRekey(q))
<1>1. q \in AnyRequest /\ RemovePrefixes(q) \in Listed /\ KeepPrefixes(q) \in Listed
  BY Prefixes DEF UpdateRequest, Sound, Phased
<1>2. {"rekey", "release_old", "update_pool"} \subseteq Phases
  BY DEF Phases
<1>3. Onward(ToPoolAdd(q))
  <2>1. Onward(Loop(q, "update_pool", <<>>))
    BY <1>1, <1>2, MovesType, NothingListed, UpdateChecked
  <2> QED
    BY <2>1, ToPlain DEF ToPoolAdd
<1>4. Onward(ToReleaseOld(q))
  <2>1. Onward(Loop(q, "release_old", RemovePrefixes(q)))
    BY <1>1, <1>2, MovesType, UpdateChecked
  <2> QED
    BY <1>3, <2>1 DEF ToReleaseOld
<1>5. Onward(ToRekey(q))
  <2> DEFINE loop == Loop(q, "rekey", KeepPrefixes(q))
             p == [loop EXCEPT !.got = <<>>]
  <2>1. loop \in AnyRequest /\ Same(loop, q) /\ loop.pc = "rekey"
    BY <1>1, <1>2, MovesType
  <2> HIDE DEF loop
  <2>2. p \in AnyRequest /\ Same(p, q) /\ p.pc = "rekey"
    BY <2>1, NothingListed DEF AnyRequest, Same, Listed
  <2>3. Onward(p)
    BY <2>2, UpdateChecked
  <2> QED
    BY <1>4, <2>3 DEF ToRekey, loop
<1> QED
  BY <1>3, <1>4, <1>5

LEMMA ToRegisterOnward ==
  ASSUME NEW q, UpdateRequest(q)
  PROVE  Onward(ToRegister(q))
<1> DEFINE p == Loop(q, "register", NewPrefixes(q))
<1>1. CASE NewPrefixes(q) = <<>>
  BY <1>1, ToChecked, NothingListed DEF ToRegister
<1>2. CASE NewPrefixes(q) # <<>>
  <2>1. q \in AnyRequest /\ NewPrefixes(q) \in Listed
    BY Prefixes DEF UpdateRequest, Sound, Phased
  <2>2. p \in AnyRequest /\ Same(p, q) /\ p.pc = "register" /\ p.todo = NewPrefixes(q)
    BY <2>1, MovesType DEF Phases
  <2> HIDE DEF p
  <2>3. Checked(p)
    BY <2>2, SamePrefixes DEF Checked
  <2>4. Phased(p)
    BY <2>2 DEF UpdateRequest, Sound, Phased, Same, UpdatePhases
  <2>5. p.pc \notin DefaultPhases /\ p.pc \notin PoolPhases
    BY <2>2 DEF DefaultPhases, PoolPhases
  <2>6. Onward(p)
    BY <2>2, <2>3, <2>4, <2>5, StaysSound DEF UpdateRequest, Onward
  <2> QED
    BY <1>2, <2>6 DEF ToRegister, p
<1> QED
  BY <1>1, <1>2
----------------------------------------------------------------------------
(* Steps of handlers. *)

LEMMA LbAddrsType ==
  ASSUME store \in [Services -> AnyService \cup {NoService}]
  PROVE  LbAddrs \in [Services -> SUBSET Addrs]
<1> SUFFICES ASSUME NEW s \in Services, IsLB(store[s]) PROVE SetOf(store[s].ann.addrs) \subseteq Addrs
  BY DEF LbAddrs
<1>1. store[s] \in AnyService
  BY DEF IsLB, NoService
<1>2. store[s].ann.addrs \in Seq(Addrs)
  BY <1>1 DEF AnyService, AnyAnn
<1> QED
  BY <1>2, SetOfSplit

(* A handler that is not in a pool operation and starts none may change the
   IPAM API's state and its own. *)
LEMMA HandlerMoves ==
  ASSUME WInv, NEW r \in Slots, req[r].pc \notin PoolPhases,
         NEW p, Onward(p), Continue(r, p),
         ipam' \in [Addrs -> Binding], faults' \in 0..MaxFaults, submitted' \in 0..MaxRequests,
         UNCHANGED <<store, poolVars, lbCache>>
  PROVE  WInv'
<1>1. req' \in [Slots -> AnyRequest \cup {Idle}]
      /\ \A o \in Slots : req'[o] = IF o = r THEN p ELSE req[o]
  BY DEF WInv, WebhookTypeOK, Continue, Onward, Sound
<1>2. LbAddrs' = LbAddrs
  BY DEF LbAddrs
<1>3. Pool!PoolTypeOK'
  BY <1>2 DEF WInv, WebhookTypeOK, Pool!PoolTypeOK, poolVars
<1>4. \A o \in Slots : req'[o].pc \in PoolPhases <=> call'[o] # Idle
  <2>1. Idle.pc \notin PoolPhases
    BY DEF Idle, PoolPhases
  <2> QED
    BY <1>1, <2>1 DEF WInv, WebhookTypeOK, Onward, poolVars
<1>5. WebhookTypeOK'
  BY <1>1, <1>3, <1>4 DEF WInv, WebhookTypeOK
<1>6. \A o \in Slots : Active(o)' => Sound(req'[o])
  BY <1>1 DEF WInv, Active, Onward, Idle
<1>7. PoolsInZone'
  BY DEF WInv, PoolsInZone, poolVars
<1>8. \A s \in Services : HasFamilies(store'[s])
  BY DEF WInv
<1> QED
  BY <1>5, <1>6, <1>7, <1>8 DEF WInv

LEMMA DecideMoves ==
  ASSUME WInv, NEW r \in Slots, req[r].pc \notin PoolPhases, NEW p, Onward(p), Decide(r, p)
  PROVE  WInv'
<1>1. ipam' \in [Addrs -> Binding] /\ faults' \in 0..MaxFaults /\ submitted' \in 0..MaxRequests
      /\ UNCHANGED <<store, poolVars, lbCache>> /\ Continue(r, p)
  BY DEF WInv, WebhookTypeOK, Decide
<1> QED
  BY <1>1, HandlerMoves

(* What a call to the IPAM API leaves alone. *)
Called ==
  /\ ipam' \in [Addrs -> Binding] /\ faults' \in 0..MaxFaults
  /\ UNCHANGED <<store, submitted, poolVars, lbCache>>

LEMMA CalledMoves ==
  ASSUME WInv, NEW r \in Slots, req[r].pc \notin PoolPhases,
         NEW p, Onward(p), Continue(r, p), Called
  PROVE  WInv'
<1>1. submitted' \in 0..MaxRequests
  BY DEF WInv, WebhookTypeOK, Called
<1> QED
  BY <1>1, HandlerMoves DEF Called

LEMMA FaultCounted == WInv /\ faults < MaxFaults => faults + 1 \in 0..MaxFaults
  BY WebhookAssumption DEF WInv, WebhookTypeOK

(* What a call to bind an address does: it is granted only in its zone. *)
LEMMA UpdateAddressEffect ==
  ASSUME WInv, NEW r \in Slots, req[r].svc \in Services, NEW a, NEW ann \in AnyAnn,
         NEW granted, NEW failed, UpdateAddress(r, a, ann, granted, failed)
  PROVE  /\ Called
         /\ Continue(r, failed) \/ (a \in Prefix[ann.zone] /\ a \in Addrs /\ Continue(r, granted))
<1>1. ann.secret \in Secrets /\ ann.zone \in Zones
  BY DEF AnyAnn
<1>2. a \in Prefix[ann.zone] => a \in Addrs
  BY <1>1, IpamAssumption
<1>3. ipam \in [Addrs -> Binding] /\ faults \in 0..MaxFaults
  BY DEF WInv, WebhookTypeOK
<1>4. Bound(a, ann.secret, req[r].svc) \in [Addrs -> Binding]
  BY <1>1, <1>3 DEF Bound, Binding
<1> QED
  BY <1>2, <1>3, <1>4, FaultCounted DEF UpdateAddress, Ask, CanBind, InZone, Called

(* What a call to release one does: it is the same to the handler whether it
   is granted. *)
LEMMA RemoveAddressEffect ==
  ASSUME WInv, NEW r \in Slots, NEW a, NEW ann, NEW next, RemoveAddress(r, a, ann, next)
  PROVE  Called /\ Continue(r, next)
<1>1. ipam \in [Addrs -> Binding] /\ faults \in 0..MaxFaults
  BY DEF WInv, WebhookTypeOK
<1>2. Released(a, req[r].svc) \in [Addrs -> Binding]
  BY <1>1 DEF Released, Binding, Unbound
<1>3. CASE DeleteIP(r, a, ann, next)
  BY <1>1, <1>2, <1>3, FaultCounted DEF DeleteIP, Ask, Called
<1>4. CASE Decide(r, next)
  BY <1>1, <1>4 DEF Decide, Called
<1> QED
  BY <1>3, <1>4 DEF RemoveAddress

(* And to change its secret. *)
LEMMA UpdateSecretEffect ==
  ASSUME WInv, NEW r \in Slots, NEW a, NEW ann \in AnyAnn, NEW from, NEW to \in Secrets,
         NEW granted, NEW failed, UpdateSecret(r, a, ann, from, to, granted, failed)
  PROVE  /\ Called
         /\ Continue(r, failed) \/ (a \in Addrs /\ Continue(r, granted))
<1>1. a \in Prefix[ann.zone] => a \in Addrs
  BY IpamAssumption DEF AnyAnn
<1>2. ipam \in [Addrs -> Binding] /\ faults \in 0..MaxFaults
  BY DEF WInv, WebhookTypeOK
<1>3. Rekeyed(a, to) \in [Addrs -> Binding]
  BY <1>2 DEF Rekeyed, Binding
<1> QED
  BY <1>1, <1>2, <1>3, FaultCounted DEF UpdateSecret, Ask, CanRekey, InZone, Called
----------------------------------------------------------------------------
(* Default. *)

\* What Default knows of a request it goes on with.
InDefault(q) ==
  /\ q \in AnyRequest /\ q.new \in AnyService
  /\ q.op \in {"create", "update"} /\ (q.op = "update" => q.old \in AnyService)

LEMMA DefaultedOnward ==
  ASSUME NEW q, InDefault(q), HasFamilies(q.new)
  PROVE  Onward(Defaulted(q))
<1> DEFINE p == Defaulted(q)
<1>1. p \in AnyRequest /\ Same(p, q) /\ p.pc = q.op
  BY NothingListed DEF InDefault, Defaulted, AnyRequest, Phases, Same, Listed
<1>2. p.pc \in {"create", "update"}
  BY <1>1 DEF InDefault
<1> HIDE DEF p
<1>3. Phased(p)
  BY <1>1 DEF InDefault, Same, Phased, CreatePhases, UpdatePhases
<1>4. Checked(p) /\ p.pc \notin PoolPhases
  BY <1>2 DEF Checked, PoolPhases
<1>5. Progress(p)
  BY <1>1, <1>2 DEF Same, Progress, DefaultPhases
<1> QED
  BY <1>1, <1>3, <1>4, <1>5 DEF Onward, Sound, p

(* A request may stay in Default when it has made the progress of its phase. *)
LEMMA StaysInDefault ==
  ASSUME NEW q, InDefault(q), NEW pc \in DefaultPhases, Progress(At(q, pc))
  PROVE  Onward(At(q, pc))
<1>1. pc \in Phases /\ pc \notin PoolPhases
  BY DEF DefaultPhases, Phases, PoolPhases
<1>2. At(q, pc) \in AnyRequest /\ Same(At(q, pc), q) /\ At(q, pc).pc = pc
  BY <1>1, MovesType, NothingListed DEF InDefault
<1>3. Phased(At(q, pc))
  BY <1>2 DEF InDefault, Same, Phased
<1>4. Checked(At(q, pc))
  BY <1>2 DEF Checked, DefaultPhases
<1> QED
  BY <1>1, <1>2, <1>3, <1>4 DEF Onward, Sound

LEMMA FamiliesKnown ==
  ASSUME NEW q, InDefault(q)
  PROVE  /\ q.new.ann \in AnyAnn /\ q.new.ann.addrs \in Seq(Addrs)
         /\ q.new.ann.family \in {"ipv4", "ipv6", "dual"}
  BY WebhookAssumption DEF InDefault, AnyService, AnyAnn

LEMMA AfterV4Onward ==
  ASSUME NEW q, InDefault(q), IsLB(q.new), Acceptable(q.new.ann), HasV4(q.new.ann)
  PROVE  Onward(AfterV4(q))
<1>1. CASE NeedsV6(q.new.ann)
  <2>1. Progress(At(q, "request_v6"))
    BY <1>1 DEF At, Progress, DefaultPhases, InDefault, AnyRequest
  <2>2. Onward(At(q, "request_v6"))
    BY <2>1, StaysInDefault DEF DefaultPhases
  <2> QED
    BY <1>1, <2>2 DEF AfterV4
<1>2. CASE ~NeedsV6(q.new.ann)
  <2>1. HasFamilies(q.new)
    BY <1>2, FamiliesKnown DEF HasFamilies, NeedsV6, HasV6
  <2> QED
    BY <1>2, <2>1, DefaultedOnward DEF AfterV4
<1> QED
  BY <1>1, <1>2

LEMMA DefaultStep ==
  ASSUME WInv, NEW r \in Slots, Default(r)
  PROVE  WInv'
<1> DEFINE q == req[r]
           lb == AsLB(q)
<1>1. q.pc = "default" /\ Sound(q)
  BY DEF Default, WInv, Active, Idle
<1>2. InDefault(q)
  BY <1>1, WebhookAssumption DEF Sound, Phased, InDefault, AnyRequest, DeletePhases
<1>3. InDefault(lb) /\ IsLB(lb.new) /\ lb.new.ann = q.new.ann
  BY <1>2 DEF InDefault, AnyRequest, AnyService, IsLB, AsLB
<1>4. q.pc \notin PoolPhases
  BY <1>1 DEF PoolPhases
<1> HIDE DEF lb
<1>5. CASE Decide(r, Defaulted(q)) /\ ~IsLB(q.new)
  <2>1. HasFamilies(q.new)
    BY <1>5 DEF HasFamilies
  <2> QED
    BY <1>2, <1>4, <1>5, <2>1, DefaultedOnward, DecideMoves
<1>6. CASE Decide(r, Idle)
  BY <1>4, <1>6, DecideMoves DEF Onward
<1>7. CASE Decide(r, Allocate(lb)) /\ Acceptable(q.new.ann)
  <2>1. CASE NeedsV4(q.new.ann)
    <3>1. Progress(At(lb, "request_v4"))
      BY <1>3, <1>7, <2>1 DEF At, Progress, DefaultPhases, InDefault, AnyRequest
    <3>2. Onward(Allocate(lb))
      BY <1>3, <2>1, <3>1, StaysInDefault DEF DefaultPhases, Allocate
    <3> QED
      BY <1>4, <1>7, <3>2, DecideMoves
  <2>2. CASE ~NeedsV4(q.new.ann)
    <3>1. HasV4(lb.new.ann)
      BY <1>3, <2>2, FamiliesKnown DEF HasV4, NeedsV4
    <3>2. Onward(Allocate(lb))
      BY <1>3, <1>7, <2>2, <3>1, AfterV4Onward DEF Allocate
    <3> QED
      BY <1>4, <1>7, <3>2, DecideMoves
  <2> QED
    BY <2>1, <2>2
<1> QED
  BY <1>5, <1>6, <1>7 DEF Default, lb

(* A request for an address is granted a free one of the family, put first. *)
LEMMA GetAddressEffect ==
  ASSUME WInv, NEW r \in Slots, InDefault(req[r]), NEW family, NEW failed,
         GetAddress(r, family, failed)
  PROVE  /\ Called
         /\ \/ Continue(r, failed)
            \/ \E a \in Addrs : /\ Family(a) = family
                                /\ Continue(r, AfterFamily(WithAddress(req[r], a), family))
<1> DEFINE q == req[r]
           ann == q.new.ann
<1>1. ann.zone \in Zones /\ ann.secret \in Secrets /\ q.svc \in Services
  BY FamiliesKnown DEF AnyAnn, InDefault, AnyRequest
<1>2. ipam \in [Addrs -> Binding] /\ faults \in 0..MaxFaults
  BY DEF WInv, WebhookTypeOK
<1>3. \A a : Bound(a, ann.secret, q.svc) \in [Addrs -> Binding]
  BY <1>1, <1>2 DEF Bound, Binding
<1>4. FreeAddrs(ann.zone, family) \subseteq {a \in Addrs : Family(a) = family}
  BY <1>1, IpamAssumption DEF FreeAddrs
<1> QED
  BY <1>2, <1>3, <1>4, FaultCounted DEF GetAddress, Ask, Called

LEMMA WithAddressType ==
  ASSUME NEW q, InDefault(q), NEW a \in Addrs
  PROVE  LET p == WithAddress(q, a) IN
         /\ InDefault(p) /\ p.new.ann.family = q.new.ann.family
         /\ p.new.ann.addrs = <<a>> \o q.new.ann.addrs
         /\ IsLB(q.new) => IsLB(p.new)
<1>1. <<a>> \o q.new.ann.addrs \in Seq(Addrs) /\ <<AnsweredPrefix>> \in Seq(Texts)
  BY FamiliesKnown, Prepended DEF Texts
<1> QED
  BY <1>1 DEF InDefault, WithAddress, AnyRequest, AnyService, AnyAnn, IsLB

LEMMA RequestV4Step ==
  ASSUME WInv, NEW r \in Slots, RequestV4(r)
  PROVE  WInv'
<1> DEFINE q == req[r]
<1>1. q.pc = "request_v4" /\ Sound(q) /\ q.pc \notin PoolPhases
  BY DEF RequestV4, WInv, Active, Idle, PoolPhases
<1>2. InDefault(q)
  BY <1>1, WebhookAssumption DEF Sound, Phased, InDefault, AnyRequest, DeletePhases
<1>3. Called /\ \/ Continue(r, Idle)
                \/ \E a \in Addrs : /\ Family(a) = "ipv4"
                                    /\ Continue(r, AfterFamily(WithAddress(q, a), "ipv4"))
  BY <1>2, GetAddressEffect DEF RequestV4
<1>4. CASE Continue(r, Idle)
  BY <1>1, <1>3, <1>4, CalledMoves DEF Onward
<1>5. ASSUME NEW a \in Addrs, Family(a) = "ipv4", Continue(r, AfterV4(WithAddress(q, a)))
      PROVE  WInv'
  <2> DEFINE p == WithAddress(q, a)
  <2>1. InDefault(p) /\ p.new.ann.addrs = <<a>> \o q.new.ann.addrs /\ IsLB(p.new)
    BY <1>1, <1>2, WithAddressType DEF Sound, Progress
  <2>2. Acceptable(p.new.ann) /\ HasV4(p.new.ann)
    <3>1. q.new.ann.addrs \in Seq(Addrs) /\ a \in V4
      BY <1>2, <1>5, FamiliesKnown DEF Family
    <3>2. V4In(q.new.ann.addrs) = {} /\ AtMostOne(V6In(q.new.ann.addrs))
      BY <1>1 DEF Sound, Progress, NeedsV4, Acceptable
    <3> QED
      BY <2>1, <3>1, <3>2, Prepended DEF Acceptable, HasV4
  <2>3. Onward(AfterV4(p))
    BY <2>1, <2>2, AfterV4Onward
  <2> QED
    BY <1>1, <1>3, <1>5, <2>3, CalledMoves
<1> QED
  BY <1>3, <1>4, <1>5 DEF AfterFamily

LEMMA RequestV6Step ==
  ASSUME WInv, NEW r \in Slots, RequestV6(r)
  PROVE  WInv'
<1> DEFINE q == req[r]
           failed == IF q.got = <<>> THEN Idle ELSE At(q, "undo_v4")
<1>1. q.pc = "request_v6" /\ Sound(q) /\ q.pc \notin PoolPhases
  BY DEF RequestV6, WInv, Active, Idle, PoolPhases
<1>2. InDefault(q)
  BY <1>1, WebhookAssumption DEF Sound, Phased, InDefault, AnyRequest, DeletePhases
<1>3. Called /\ \/ Continue(r, failed)
                \/ \E a \in Addrs : /\ Family(a) = "ipv6"
                                    /\ Continue(r, AfterFamily(WithAddress(q, a), "ipv6"))
  BY <1>2, GetAddressEffect DEF RequestV6
<1>4. CASE Continue(r, failed)
  <2>1. Progress(At(q, "undo_v4"))
    BY <1>1 DEF At, Progress, DefaultPhases, Sound, AnyRequest
  <2>2. Onward(failed)
    BY <1>2, <2>1, StaysInDefault DEF Onward, DefaultPhases
  <2> QED
    BY <1>1, <1>3, <1>4, <2>2, CalledMoves
<1>5. ASSUME NEW a \in Addrs, Family(a) = "ipv6", Continue(r, Defaulted(WithAddress(q, a)))
      PROVE  WInv'
  <2> DEFINE p == WithAddress(q, a)
  <2>1. InDefault(p) /\ p.new.ann.addrs = <<a>> \o q.new.ann.addrs
        /\ p.new.ann.family = q.new.ann.family
    BY <1>2, WithAddressType
  <2>2. HasFamilies(p.new)
    <3>1. q.new.ann.addrs \in Seq(Addrs) /\ a \notin V4
      BY <1>2, <1>5, FamiliesKnown DEF Family
    <3>2. V6In(q.new.ann.addrs) = {} /\ AtMostOne(V4In(q.new.ann.addrs)) /\ HasV4(q.new.ann)
      BY <1>1 DEF Sound, Progress, NeedsV6, Acceptable
    <3> QED
      BY <2>1, <3>1, <3>2, Prepended DEF HasFamilies, Acceptable, HasV4, HasV6
  <2>3. Onward(Defaulted(p))
    BY <2>1, <2>2, DefaultedOnward
  <2> QED
    BY <1>1, <1>3, <1>5, <2>3, CalledMoves
<1> QED
  BY <1>3, <1>4, <1>5 DEF AfterFamily

LEMMA UndoV4Step ==
  ASSUME WInv, NEW r \in Slots, UndoV4(r)
  PROVE  WInv'
<1>1. req[r].pc \notin PoolPhases /\ Called /\ Continue(r, Idle)
  BY RemoveAddressEffect DEF UndoV4, PoolPhases
<1> QED
  BY <1>1, CalledMoves DEF Onward
----------------------------------------------------------------------------
(* Loops: one element is done, and the handler goes on with the next one or
   with what comes after the loop.  p is the request with what it has obtained
   brought up to date. *)

LEMMA LoopGoesOn ==
  ASSUME NEW q, Sound(q), q.pc \notin DefaultPhases \cup PoolPhases,
         NEW p \in AnyRequest, Same(p, q), p.pc = q.pc, p.todo = q.todo,
         q.pc = "validate" => Head(q.todo) \in Prefix[q.new.ann.zone],
         q.pc = "register" => Head(q.todo) \in Prefix[q.new.ann.zone],
         NEW after, ~(Len(q.todo) > 1) => Onward(after)
  PROVE  Onward(NextOf(p, after))
<1> DEFINE n == [p EXCEPT !.todo = Tail(@)]
<1>1. q \in AnyRequest /\ q.todo \in Listed
  BY DEF Sound, AnyRequest, Listed
<1>2. CASE Len(q.todo) > 1
  <2>1. /\ Tail(q.todo) \in Listed
        /\ SetOf(q.todo) \subseteq {Head(q.todo)} \cup SetOf(Tail(q.todo))
    BY <1>1, <1>2, SetOfTail DEF Listed
  <2>2. n \in AnyRequest /\ Same(n, q) /\ n.pc = q.pc /\ n.todo = Tail(q.todo)
    BY <2>1 DEF AnyRequest, Same, Listed
  <2> HIDE DEF n
  <2>3. Phased(n)
    BY <2>2 DEF Sound, Phased, Same
  <2>4. Checked(n)
    <3>1. Checked(q) /\ NewPrefixes(n) = NewPrefixes(q) /\ n.new = q.new
      BY <2>2, SamePrefixes DEF Sound, Same
    <3> QED
      BY <2>1, <2>2, <3>1 DEF Checked
  <2>5. Onward(n)
    BY <2>2, <2>3, <2>4, StaysSound DEF Onward
  <2> QED
    BY <1>2, <2>5 DEF NextOf, n
<1>3. CASE ~(Len(q.todo) > 1)
  BY <1>3 DEF NextOf
<1> QED
  BY <1>2, <1>3

\* The same with nothing to bring up to date.
LEMMA LoopOnward ==
  ASSUME NEW q, Sound(q), q.pc \notin DefaultPhases \cup PoolPhases \cup {"validate", "register"},
         NEW after, Onward(after)
  PROVE  Onward(NextOf(q, after))
<1>1. q \in AnyRequest /\ Same(q, q)
  BY DEF Sound, Same
<1> QED
  BY <1>1, LoopGoesOn

\* What a granted call adds to what the handler has obtained.
LEMMA DoneType ==
  ASSUME NEW q \in AnyRequest, NEW a \in Addrs
  PROVE  LET p == [q EXCEPT !.got = Append(@, a)] IN
         p \in AnyRequest /\ Same(p, q) /\ p.pc = q.pc /\ p.todo = q.todo
<1>1. Append(q.got, a) \in Seq(Texts)
  BY DEF AnyRequest, Texts
<1> QED
  BY <1>1 DEF AnyRequest, Same
----------------------------------------------------------------------------
(* ValidateCreate. *)

CreateRequest(q) == Sound(q) /\ q.op = "create" /\ q.pc \notin DefaultPhases

LEMMA CreateKnown ==
  ASSUME NEW q, Sound(q), q.pc \in CreatePhases \ {"admitted"}
  PROVE  /\ CreateRequest(q) /\ q \in AnyRequest /\ q.svc \in Services
         /\ q.new.ann \in AnyAnn /\ q.new.ann.addrs \in Seq(Addrs) /\ q.got \in Listed
<1>1. q.op = "create"
  BY WebhookAssumption
  DEF Sound, Phased, AnyRequest, CreatePhases, UpdatePhases, DeletePhases, DefaultPhases
<1> QED
  BY <1>1 DEF CreateRequest, Sound, Phased, CreatePhases, DefaultPhases, AnyRequest,
              AnyService, AnyAnn, Listed

LEMMA CreatePlain ==
  ASSUME NEW q, CreateRequest(q), NEW p \in AnyRequest, Same(p, q), p.pc \in Plain \cap CreatePhases
  PROVE  Onward(p)
<1>1. Phased(p)
  BY DEF CreateRequest, Sound, Phased, Same
<1> QED
  BY <1>1, PlainOnward DEF CreateRequest

\* The phases that check what they put into the pool.
LEMMA CreateChecked ==
  ASSUME NEW q, CreateRequest(q), NEW p \in AnyRequest, Same(p, q),
         p.pc \in {"validate", "create_pool"}, Checked(p)
  PROVE  Onward(p)
<1>1. Phased(p)
  BY DEF CreateRequest, Sound, Phased, Same, CreatePhases
<1>2. p.pc \notin DefaultPhases /\ p.pc \notin PoolPhases
  BY DEF DefaultPhases, PoolPhases
<1> QED
  BY <1>1, <1>2, StaysSound DEF CreateRequest, Onward

LEMMA StartCreateStep ==
  ASSUME WInv, NEW r \in Slots, StartCreate(r)
  PROVE  WInv'
<1> DEFINE q == req[r]
           todo == Split(q.new.ann.addrs)
           p == Loop(q, "validate", todo)
<1>1. Sound(q) /\ q.pc = "create" /\ q.pc \notin PoolPhases
  BY DEF StartCreate, WInv, Active, Idle, PoolPhases
<1>2. CreateRequest(q) /\ q \in AnyRequest /\ q.new.ann.addrs \in Seq(Addrs)
  BY <1>1, CreateKnown DEF CreatePhases
<1>3. todo \in Listed /\ SetOf(q.new.ann.addrs) \subseteq SetOf(todo)
  BY <1>2, SetOfSplit DEF Listed
<1> HIDE DEF todo
<1>4. Onward(p)
  <2>0. q \in AnyRequest /\ todo \in Listed /\ "validate" \in Phases
    BY <1>2, <1>3 DEF Phases
  <2>1. p \in AnyRequest /\ Same(p, q) /\ p.pc = "validate"
    BY <2>0, MovesType
  <2>2. p.todo = todo
    BY <2>0 DEF Loop, AnyRequest
  <2> HIDE DEF p
  <2>3. Checked(p)
    BY <1>3, <2>1, <2>2 DEF Checked, Same
  <2> QED
    BY <1>2, <2>1, <2>3, CreateChecked
<1>5. Onward(Admit(q))
  BY <1>2, MovesType, NothingListed, CreatePlain
  DEF Plain, Phases, CreatePhases, PoolPhases, DefaultPhases
<1> QED
  BY <1>1, <1>4, <1>5, DecideMoves DEF StartCreate, todo

LEMMA ValidateAddressStep ==
  ASSUME WInv, NEW r \in Slots, ValidateAddress(r)
  PROVE  WInv'
<1> DEFINE q == req[r]
           done == [q EXCEPT !.got = Append(@, Head(q.todo))]
           after == Loop(q, "create_pool", <<>>)
<1>1. Sound(q) /\ q.pc = "validate" /\ q.pc \notin DefaultPhases \cup PoolPhases
  BY DEF ValidateAddress, WInv, Active, Idle, PoolPhases, DefaultPhases
<1>2. /\ CreateRequest(q) /\ q \in AnyRequest /\ q.svc \in Services
      /\ q.new.ann \in AnyAnn /\ q.got \in Listed
  BY <1>1, CreateKnown DEF CreatePhases
<1>3. /\ Called
      /\ \/ Continue(r, CreateRefused(q))
         \/ /\ Head(q.todo) \in Prefix[q.new.ann.zone] /\ Head(q.todo) \in Addrs
            /\ Continue(r, NextOf(done, after))
  BY <1>2, UpdateAddressEffect DEF ValidateAddress
<1>4. CASE Continue(r, CreateRefused(q))
  <2>0. "rollback" \in Plain \cap CreatePhases /\ "rollback" \in Phases
    BY DEF Plain, Phases, CreatePhases, PoolPhases, DefaultPhases
  <2>1. Onward(Loop(q, "rollback", q.got))
    BY <1>2, <2>0, MovesType, CreatePlain
  <2>2. Onward(CreateRefused(q))
    BY <2>1 DEF CreateRefused, Onward
  <2> QED
    BY <1>1, <1>3, <1>4, <2>2, CalledMoves
<1>5. CASE /\ Head(q.todo) \in Prefix[q.new.ann.zone] /\ Head(q.todo) \in Addrs
           /\ Continue(r, NextOf(done, after))
  <2>1. done \in AnyRequest /\ Same(done, q) /\ done.pc = q.pc /\ done.todo = q.todo
    BY <1>2, <1>5, DoneType
  <2>2. ASSUME ~(Len(q.todo) > 1) PROVE Onward(after)
    <3>0. "create_pool" \in Phases
      BY DEF Phases
    <3>1. after \in AnyRequest /\ Same(after, q) /\ after.pc = "create_pool"
      BY <1>2, <3>0, NothingListed, MovesType
    <3> HIDE DEF after
    <3>2. SetOf(q.todo) \subseteq {Head(q.todo)}
      BY <1>2, <2>2, SetOfTail DEF AnyRequest
    <3>3. SetOf(q.new.ann.addrs) \subseteq SetOf(q.todo) \cup Prefix[q.new.ann.zone]
      BY <1>1 DEF Sound, Checked
    <3>4. SetOf(q.new.ann.addrs) \subseteq Prefix[q.new.ann.zone]
      BY <1>5, <3>2, <3>3
    <3>5. Checked(after)
      BY <3>1, <3>4 DEF Checked, Same
    <3> QED
      BY <1>2, <3>1, <3>5, CreateChecked
  <2> HIDE DEF done, after
  <2>3. Onward(NextOf(done, after))
    BY <1>1, <1>5, <2>1, <2>2, LoopGoesOn
  <2> QED
    BY <1>1, <1>3, <1>5, <2>3, CalledMoves
<1> QED
  BY <1>3, <1>4, <1>5

LEMMA RollbackCreateStep ==
  ASSUME WInv, NEW r \in Slots, RollbackCreate(r)
  PROVE  WInv'
<1> DEFINE q == req[r]
<1>1. Sound(q) /\ q.pc = "rollback"
  BY DEF RollbackCreate, WInv, Active, Idle
<1>2. Called /\ Continue(r, NextOf(q, Idle))
  BY RemoveAddressEffect DEF RollbackCreate
<1>3. q.pc \notin DefaultPhases \cup PoolPhases \cup {"validate", "register"}
  BY <1>1 DEF DefaultPhases, PoolPhases
<1>4. Onward(NextOf(q, Idle))
  BY <1>1, <1>3, LoopOnward DEF Onward
<1> QED
  BY <1>2, <1>3, <1>4, CalledMoves
----------------------------------------------------------------------------
(* Pool operations. *)

(* A handler begins one: c is the operation, or its failure at once. *)
LEMMA PoolBegins ==
  ASSUME WInv, NEW r \in Slots, NEW p, Sound(p), p.pc \in PoolPhases, Continue(r, p), PoolUnchanged,
         NEW c \in Pool!Call, c # Idle, call' = [call EXCEPT ![r] = c],
         UNCHANGED <<pools, rev, poolCache>>,
         c.pc \in Pool!Running => c.read.addrs \subseteq Prefix[c.zone],
         c.pc = "adding" => c.addrs \subseteq Prefix[c.zone]
  PROVE  WInv'
<1>1. /\ req' \in [Slots -> AnyRequest \cup {Idle}]
      /\ \A o \in Slots : req'[o] = IF o = r THEN p ELSE req[o]
  BY DEF WInv, WebhookTypeOK, Continue, Sound
<1>2. /\ call' \in [Slots -> Pool!Call]
      /\ \A o \in Slots : call'[o] = IF o = r THEN c ELSE call[o]
  BY DEF WInv, WebhookTypeOK, Pool!PoolTypeOK
<1>3. LbAddrs' = LbAddrs
  BY DEF LbAddrs, PoolUnchanged
<1>4. Pool!PoolTypeOK'
  BY <1>2, <1>3 DEF WInv, WebhookTypeOK, Pool!PoolTypeOK, PoolUnchanged
<1>5. \A o \in Slots : req'[o].pc \in PoolPhases <=> call'[o] # Idle
  BY <1>1, <1>2 DEF WInv, WebhookTypeOK
<1>6. WebhookTypeOK'
  BY <1>1, <1>4, <1>5 DEF WInv, WebhookTypeOK, PoolUnchanged
<1>7. \A o \in Slots : Active(o)' => Sound(req'[o])
  BY <1>1 DEF WInv, Active
<1>8. PoolsInZone'
  BY <1>2 DEF WInv, PoolsInZone
<1>9. \A s \in Services : HasFamilies(store'[s])
  BY DEF WInv, PoolUnchanged
<1> QED
  BY <1>6, <1>7, <1>8, <1>9 DEF WInv

(* What a read returns is a pool, and in its zone. *)
LEMMA ReadsPool ==
  ASSUME WInv, NEW z \in Zones
  PROVE  Pool!SeenPool(z) \in Pool!Pool /\ Pool!SeenPool(z).addrs \subseteq Prefix[z]
  BY DEF WInv, WebhookTypeOK, Pool!PoolTypeOK, PoolsInZone, Pool!SeenPool

LEMMA AddBegins ==
  ASSUME WInv, NEW r \in Slots, NEW p, Sound(p), p.pc \in PoolPhases, Continue(r, p), PoolUnchanged,
         NEW z \in Zones, NEW A \in SUBSET Prefix[z], Pool!AddGet(r, z, A)
  PROVE  WInv'
<1> DEFINE c == [pc |-> "adding", zone |-> z, addrs |-> A,
                 read |-> Pool!SeenPool(z), unused |-> {}]
<1>1. A \in SUBSET Addrs
  BY IpamAssumption
<1>2. c \in Pool!Call /\ c # Idle
  BY <1>1, ReadsPool DEF Pool!Call, Pool!Adding, Idle
<1>3. /\ c.pc \in Pool!Running => c.read.addrs \subseteq Prefix[c.zone]
      /\ c.pc = "adding" => c.addrs \subseteq Prefix[c.zone]
  BY ReadsPool
<1>4. call' = [call EXCEPT ![r] = c] /\ UNCHANGED <<pools, rev, poolCache>>
  BY DEF Pool!AddGet
<1> HIDE DEF c
<1> QED
  BY <1>2, <1>3, <1>4, PoolBegins

LEMMA RemoveBegins ==
  ASSUME WInv, NEW r \in Slots, NEW p, Sound(p), p.pc \in PoolPhases, Continue(r, p), PoolUnchanged,
         NEW z \in Zones, NEW A \in SUBSET Addrs, Pool!RemoveGet(r, z, A)
  PROVE  WInv'
<1> DEFINE c == IF Pool!SeenPool(z) = Pool!Absent THEN [pc |-> "error"]
                ELSE [pc |-> "listing", zone |-> z, addrs |-> A,
                      read |-> Pool!SeenPool(z), unused |-> {}]
<1>1. c \in Pool!Call /\ c # Idle
  BY ReadsPool DEF Pool!Call, Pool!Removing, Idle
<1>2. /\ c.pc \in Pool!Running => c.read.addrs \subseteq Prefix[c.zone]
      /\ c.pc = "adding" => c.addrs \subseteq Prefix[c.zone]
  BY ReadsPool DEF Pool!Running
<1>3. call' = [call EXCEPT ![r] = c] /\ UNCHANGED <<pools, rev, poolCache>>
  BY DEF Pool!RemoveGet, Pool!Answer
<1> HIDE DEF c
<1> QED
  BY <1>1, <1>2, <1>3, PoolBegins

(* A request that goes into a pool operation stays sound. *)
LEMMA PoolingSound ==
  ASSUME NEW q, Sound(q), q.pc \notin DefaultPhases, NEW p \in AnyRequest, Same(p, q),
         p.pc \in PoolPhases, Phased(p)
  PROVE  Sound(p)
<1>1. Checked(p) /\ p.pc \notin DefaultPhases
  BY DEF PoolPhases, Checked, DefaultPhases
<1> QED
  BY <1>1, StaysSound

LEMMA CreatePoolGetStep ==
  ASSUME WInv, NEW r \in Slots, CreatePoolGet(r)
  PROVE  WInv'
<1> DEFINE q == req[r]
           p == Loop(q, "create_pooling", <<>>)
<1>1. Sound(q) /\ q.pc = "create_pool"
  BY DEF CreatePoolGet, WInv, Active, Idle
<1>2. CreateRequest(q) /\ q \in AnyRequest /\ q.new.ann \in AnyAnn
  BY <1>1, CreateKnown DEF CreatePhases
<1>3. "create_pooling" \in Phases
  BY DEF Phases
<1>4. p \in AnyRequest /\ Same(p, q) /\ p.pc = "create_pooling"
  BY <1>2, <1>3, NothingListed, MovesType
<1>5. p.pc \in PoolPhases /\ Phased(p)
  BY <1>2, <1>4 DEF PoolPhases, CreateRequest, Sound, Phased, Same, CreatePhases
<1>6. q.new.ann.zone \in Zones /\ SetOf(q.new.ann.addrs) \in SUBSET Prefix[q.new.ann.zone]
  BY <1>1, <1>2 DEF Sound, Checked, AnyAnn
<1>7. Pool!AddGet(r, q.new.ann.zone, SetOf(q.new.ann.addrs)) /\ Continue(r, p) /\ PoolUnchanged
  BY DEF CreatePoolGet
<1> HIDE DEF p
<1>8. Sound(p)
  BY <1>2, <1>4, <1>5, PoolingSound DEF CreateRequest
<1> QED
  BY <1>5, <1>6, <1>7, <1>8, AddBegins
----------------------------------------------------------------------------
(* ValidateUpdate. *)

LEMMA UpdateKnown ==
  ASSUME NEW q, Sound(q), q.pc \in UpdatePhases \ {"admitted"}
  PROVE  /\ UpdateRequest(q) /\ q \in AnyRequest /\ q.svc \in Services
         /\ q.old.ann \in AnyAnn /\ q.new.ann \in AnyAnn
         /\ NewPrefixes(q) \in Listed /\ RemovePrefixes(q) \in Listed
<1>1. q.op = "update"
  BY WebhookAssumption
  DEF Sound, Phased, AnyRequest, CreatePhases, UpdatePhases, DeletePhases, DefaultPhases
<1>2. q \in AnyRequest /\ q.old \in AnyService /\ q.new \in AnyService
  BY <1>1 DEF Sound, Phased
<1> QED
  BY <1>1, <1>2, Prefixes DEF UpdateRequest, UpdatePhases, DefaultPhases, AnyRequest, AnyService

LEMMA StartUpdateStep ==
  ASSUME WInv, NEW r \in Slots, StartUpdate(r)
  PROVE  WInv'
<1> DEFINE q == req[r]
<1>1. Sound(q) /\ q.pc = "update" /\ q.pc \notin PoolPhases
  BY DEF StartUpdate, WInv, Active, Idle, PoolPhases
<1>2. UpdateRequest(q)
  BY <1>1, UpdateKnown DEF UpdatePhases
<1>3. Onward(Admit(q)) /\ Onward(ToUndoFirst(q)) /\ Onward(ToRegister(q))
  BY <1>2, ToPlain, ToRegisterOnward
<1> QED
  BY <1>1, <1>3, DecideMoves DEF StartUpdate

(* The registration loop ends with every new address validated. *)
LEMMA ValidateNewStep ==
  ASSUME WInv, NEW r \in Slots, ValidateNew(r)
  PROVE  WInv'
<1> DEFINE q == req[r]
<1>1. Sound(q) /\ q.pc = "register" /\ q.pc \notin DefaultPhases \cup PoolPhases
  BY DEF ValidateNew, WInv, Active, Idle, PoolPhases, DefaultPhases
<1>2. UpdateRequest(q) /\ q \in AnyRequest /\ q.svc \in Services /\ q.new.ann \in AnyAnn
  BY <1>1, UpdateKnown DEF UpdatePhases
<1>3. /\ Called
      /\ \/ Continue(r, ToUndoFirst(q))
         \/ Head(q.todo) \in Prefix[q.new.ann.zone] /\ Continue(r, NextOf(q, ToRekey(q)))
  BY <1>2, UpdateAddressEffect DEF ValidateNew
<1>4. CASE Continue(r, ToUndoFirst(q))
  BY <1>1, <1>2, <1>3, <1>4, ToPlain, CalledMoves
<1>5. CASE Head(q.todo) \in Prefix[q.new.ann.zone] /\ Continue(r, NextOf(q, ToRekey(q)))
  <2>1. ASSUME ~(Len(q.todo) > 1) PROVE Onward(ToRekey(q))
    <3>1. SetOf(q.todo) \subseteq {Head(q.todo)}
      BY <1>2, <2>1, SetOfTail DEF AnyRequest
    <3>2. SetOf(NewPrefixes(q)) \subseteq SetOf(q.todo) \cup Prefix[q.new.ann.zone]
      BY <1>1 DEF Sound, Checked
    <3>3. SetOf(NewPrefixes(q)) \subseteq Prefix[q.new.ann.zone]
      BY <1>5, <3>1, <3>2
    <3> QED
      BY <1>2, <3>3, ToChecked
  <2>2. Same(q, q)
    BY DEF Same
  <2>3. Onward(NextOf(q, ToRekey(q)))
    BY <1>1, <1>2, <1>5, <2>1, <2>2, LoopGoesOn
  <2> QED
    BY <1>1, <1>3, <1>5, <2>3, CalledMoves
<1> QED
  BY <1>3, <1>4, <1>5

LEMMA UndoFirstStep ==
  ASSUME WInv, NEW r \in Slots, UndoFirst(r)
  PROVE  WInv'
<1>1. req[r].pc \notin PoolPhases /\ Called /\ Continue(r, Idle)
  BY RemoveAddressEffect DEF UndoFirst, PoolPhases
<1> QED
  BY <1>1, CalledMoves DEF Onward

LEMMA ChangeSecretStep ==
  ASSUME WInv, NEW r \in Slots, ChangeSecret(r)
  PROVE  WInv'
<1> DEFINE q == req[r]
           done == [q EXCEPT !.got = Append(@, Head(q.todo))]
           failed == IF Len(q.got) = 1 THEN At(q, "revert") ELSE ToUndoNew(q)
<1>1. Sound(q) /\ q.pc = "rekey" /\ q.pc \notin DefaultPhases \cup PoolPhases
  BY DEF ChangeSecret, WInv, Active, Idle, PoolPhases, DefaultPhases
<1>2. UpdateRequest(q) /\ q \in AnyRequest /\ q.new.ann \in AnyAnn
  BY <1>1, UpdateKnown DEF UpdatePhases
<1>3. q.new.ann.secret \in Secrets
  BY <1>2 DEF AnyAnn
<1>4. /\ Called
      /\ \/ Continue(r, failed)
         \/ Head(q.todo) \in Addrs /\ Continue(r, NextOf(done, ToReleaseOld(q)))
  BY <1>2, <1>3, UpdateSecretEffect DEF ChangeSecret
<1>5. CASE Continue(r, failed)
  <2>1. "revert" \in Plain \cap UpdatePhases /\ "revert" \in Phases
    BY DEF Plain, Phases, UpdatePhases, PoolPhases, DefaultPhases
  <2>2. Onward(At(q, "revert"))
    BY <1>2, <2>1, NothingListed, MovesType, UpdatePlain
  <2>3. Onward(failed)
    BY <1>2, <2>2, ToPlain
  <2> QED
    BY <1>1, <1>4, <1>5, <2>3, CalledMoves
<1>6. CASE Head(q.todo) \in Addrs /\ Continue(r, NextOf(done, ToReleaseOld(q)))
  <2>1. done \in AnyRequest /\ Same(done, q) /\ done.pc = q.pc /\ done.todo = q.todo
    BY <1>2, <1>6, DoneType
  <2>2. Onward(ToReleaseOld(q))
    BY <1>1, <1>2, ToChecked DEF Sound, Checked
  <2> HIDE DEF done
  <2>3. Onward(NextOf(done, ToReleaseOld(q)))
    BY <1>1, <2>1, <2>2, LoopGoesOn
  <2> QED
    BY <1>1, <1>4, <1>6, <2>3, CalledMoves
<1> QED
  BY <1>4, <1>5, <1>6

LEMMA RevertSecretStep ==
  ASSUME WInv, NEW r \in Slots, RevertSecret(r)
  PROVE  WInv'
<1> DEFINE q == req[r]
<1>1. Sound(q) /\ q.pc = "revert" /\ q.pc \notin PoolPhases
  BY DEF RevertSecret, WInv, Active, Idle, PoolPhases
<1>2. UpdateRequest(q) /\ q.old.ann \in AnyAnn
  BY <1>1, UpdateKnown DEF UpdatePhases
<1>3. q.old.ann.secret \in Secrets
  BY <1>2 DEF AnyAnn
<1>4. Called /\ Continue(r, ToUndoNew(q))
  BY <1>2, <1>3, UpdateSecretEffect DEF RevertSecret
<1> QED
  BY <1>1, <1>2, <1>4, ToPlain, CalledMoves

LEMMA UndoNewStep ==
  ASSUME WInv, NEW r \in Slots, UndoNew(r)
  PROVE  WInv'
<1> DEFINE q == req[r]
<1>1. Sound(q) /\ q.pc = "undo_new"
  BY DEF UndoNew, WInv, Active, Idle
<1>2. Called /\ Continue(r, NextOf(q, Idle))
  BY RemoveAddressEffect DEF UndoNew
<1>3. q.pc \notin DefaultPhases \cup PoolPhases \cup {"validate", "register"}
  BY <1>1 DEF DefaultPhases, PoolPhases
<1>4. Onward(NextOf(q, Idle))
  BY <1>1, <1>3, LoopOnward DEF Onward
<1> QED
  BY <1>2, <1>3, <1>4, CalledMoves

LEMMA ReleaseOldStep ==
  ASSUME WInv, NEW r \in Slots, ReleaseOld(r)
  PROVE  WInv'
<1> DEFINE q == req[r]
<1>1. Sound(q) /\ q.pc = "release_old"
  BY DEF ReleaseOld, WInv, Active, Idle
<1>2. UpdateRequest(q)
  BY <1>1, UpdateKnown DEF UpdatePhases
<1>3. Called /\ Continue(r, NextOf(q, ToPoolAdd(q)))
  BY RemoveAddressEffect DEF ReleaseOld
<1>4. q.pc \notin DefaultPhases \cup PoolPhases \cup {"validate", "register"}
  BY <1>1 DEF DefaultPhases, PoolPhases
<1>5. Onward(ToPoolAdd(q))
  BY <1>1, <1>2, ToChecked DEF Sound, Checked
<1>6. Onward(NextOf(q, ToPoolAdd(q)))
  BY <1>1, <1>4, <1>5, LoopOnward
<1> QED
  BY <1>3, <1>4, <1>6, CalledMoves

LEMMA UpdatePoolGetStep ==
  ASSUME WInv, NEW r \in Slots, UpdatePoolGet(r)
  PROVE  WInv'
<1> DEFINE q == req[r]
           p == At(q, "update_pooling")
<1>1. Sound(q) /\ q.pc = "update_pool"
  BY DEF UpdatePoolGet, WInv, Active, Idle
<1>2. UpdateRequest(q) /\ q \in AnyRequest /\ q.new.ann \in AnyAnn
  BY <1>1, UpdateKnown DEF UpdatePhases
<1>3. "update_pooling" \in Phases
  BY DEF Phases
<1>4. p \in AnyRequest /\ Same(p, q) /\ p.pc = "update_pooling"
  BY <1>2, <1>3, NothingListed, MovesType
<1>5. p.pc \in PoolPhases /\ Phased(p)
  BY <1>2, <1>4 DEF PoolPhases, UpdateRequest, Sound, Phased, Same, UpdatePhases
<1>6. q.new.ann.zone \in Zones /\ SetOf(NewPrefixes(q)) \in SUBSET Prefix[q.new.ann.zone]
  BY <1>1, <1>2 DEF Sound, Checked, AnyAnn
<1>7. Pool!AddGet(r, q.new.ann.zone, SetOf(NewPrefixes(q))) /\ Continue(r, p) /\ PoolUnchanged
  BY DEF UpdatePoolGet
<1> HIDE DEF p
<1>8. Sound(p)
  BY <1>2, <1>4, <1>5, PoolingSound DEF UpdateRequest
<1> QED
  BY <1>5, <1>6, <1>7, <1>8, AddBegins

LEMMA UpdateVerifyStep ==
  ASSUME WInv, NEW r \in Slots, UpdateVerify(r)
  PROVE  WInv'
<1> DEFINE q == req[r]
<1>1. Sound(q) /\ q.pc = "update_verify" /\ q.pc \notin PoolPhases
  BY DEF UpdateVerify, WInv, Active, Idle, PoolPhases
<1>2. UpdateRequest(q) /\ q \in AnyRequest
  BY <1>1, UpdateKnown DEF UpdatePhases
<1>3. "update_remove" \in Plain \cap UpdatePhases /\ "update_remove" \in Phases
  BY DEF Plain, Phases, UpdatePhases, PoolPhases, DefaultPhases
<1>4. Onward(At(q, "update_remove")) /\ Onward(Admit(q))
  BY <1>2, <1>3, NothingListed, MovesType, UpdatePlain, ToPlain
<1> QED
  BY <1>1, <1>4, DecideMoves DEF UpdateVerify

LEMMA UpdateRemoveGetStep ==
  ASSUME WInv, NEW r \in Slots, UpdateRemoveGet(r)
  PROVE  WInv'
<1> DEFINE q == req[r]
           p == At(q, "update_removing")
<1>1. Sound(q) /\ q.pc = "update_remove"
  BY DEF UpdateRemoveGet, WInv, Active, Idle
<1>2. UpdateRequest(q) /\ q \in AnyRequest /\ q.old.ann \in AnyAnn
  BY <1>1, UpdateKnown DEF UpdatePhases
<1>3. "update_removing" \in Phases
  BY DEF Phases
<1>4. p \in AnyRequest /\ Same(p, q) /\ p.pc = "update_removing"
  BY <1>2, <1>3, NothingListed, MovesType
<1>5. p.pc \in PoolPhases /\ Phased(p)
  BY <1>2, <1>4 DEF PoolPhases, UpdateRequest, Sound, Phased, Same, UpdatePhases
<1>6. q.old.ann.zone \in Zones /\ SetOf(RemovePrefixes(q)) \cap Addrs \in SUBSET Addrs
  BY <1>2 DEF AnyAnn
<1>7. /\ Pool!RemoveGet(r, q.old.ann.zone, SetOf(RemovePrefixes(q)) \cap Addrs)
      /\ Continue(r, p) /\ PoolUnchanged
  BY DEF UpdateRemoveGet
<1> HIDE DEF p
<1>8. Sound(p)
  BY <1>2, <1>4, <1>5, PoolingSound DEF UpdateRequest
<1> QED
  BY <1>5, <1>6, <1>7, <1>8, RemoveBegins
----------------------------------------------------------------------------
(* ValidateDelete. *)

DeleteRequest(q) == Sound(q) /\ q.op = "delete" /\ q.pc \notin DefaultPhases

LEMMA DeleteKnown ==
  ASSUME NEW q, Sound(q), q.pc \in DeletePhases \ {"admitted"}
  PROVE  /\ DeleteRequest(q) /\ q \in AnyRequest /\ q.svc \in Services
         /\ q.old.ann \in AnyAnn /\ q.old.ann.addrs \in Seq(Addrs)
         /\ OldAddrs(q) \in Listed
<1>1. q.op = "delete"
  BY WebhookAssumption
  DEF Sound, Phased, AnyRequest, CreatePhases, UpdatePhases, DeletePhases, DefaultPhases
<1>2. q \in AnyRequest /\ q.old.ann \in AnyAnn /\ q.old.ann.addrs \in Seq(Addrs)
  BY <1>1 DEF Sound, Phased, AnyService, AnyAnn
<1>3. OldAddrs(q) \in Listed
  BY <1>2, SetOfSplit DEF OldAddrs, Listed
<1> QED
  BY <1>1, <1>2, <1>3 DEF DeleteRequest, DeletePhases, DefaultPhases, AnyRequest

LEMMA DeletePlain ==
  ASSUME NEW q, DeleteRequest(q), NEW p \in AnyRequest, Same(p, q), p.pc \in Plain \cap DeletePhases
  PROVE  Onward(p)
<1>1. Phased(p)
  BY DEF DeleteRequest, Sound, Phased, Same
<1> QED
  BY <1>1, PlainOnward DEF DeleteRequest

LEMMA DeleteMoves ==
  ASSUME NEW q, DeleteRequest(q), NEW pc \in DeletePhases \ PoolPhases, NEW todo \in Listed
  PROVE  Onward(At(q, pc)) /\ Onward(Loop(q, pc, todo)) /\ Onward(Admit(q))
<1>1. pc \in Plain \cap DeletePhases /\ pc \in Phases /\ "admitted" \in Plain \cap DeletePhases
  BY DEF Plain, Phases, DeletePhases, PoolPhases, DefaultPhases
<1>2. q \in AnyRequest
  BY DEF DeleteRequest, Sound
<1> QED
  BY <1>1, <1>2, MovesType, DeletePlain

LEMMA StartDeleteStep ==
  ASSUME WInv, NEW r \in Slots, StartDelete(r)
  PROVE  WInv'
<1> DEFINE q == req[r]
<1>1. Sound(q) /\ q.pc = "delete" /\ q.pc \notin PoolPhases
  BY DEF StartDelete, WInv, Active, Idle, PoolPhases
<1>2. DeleteRequest(q) /\ OldAddrs(q) \in Listed
  BY <1>1, DeleteKnown DEF DeletePhases
<1>3. "release" \in DeletePhases \ PoolPhases
  BY DEF DeletePhases, PoolPhases
<1>4. Onward(Loop(q, "release", OldAddrs(q))) /\ Onward(Admit(q))
  BY <1>2, <1>3, DeleteMoves
<1> QED
  BY <1>1, <1>4, DecideMoves DEF StartDelete

LEMMA ReleaseAddressStep ==
  ASSUME WInv, NEW r \in Slots, ReleaseAddress(r)
  PROVE  WInv'
<1> DEFINE q == req[r]
           after == Loop(q, "delete_verify", <<>>)
<1>1. Sound(q) /\ q.pc = "release"
  BY DEF ReleaseAddress, WInv, Active, Idle
<1>2. DeleteRequest(q)
  BY <1>1, DeleteKnown DEF DeletePhases
<1>3. Called /\ Continue(r, NextOf(q, after))
  BY RemoveAddressEffect DEF ReleaseAddress
<1>4. q.pc \notin DefaultPhases \cup PoolPhases \cup {"validate", "register"}
  BY <1>1 DEF DefaultPhases, PoolPhases
<1>5. "delete_verify" \in DeletePhases \ PoolPhases
  BY DEF DeletePhases, PoolPhases
<1>6. Onward(after)
  BY <1>2, <1>5, NothingListed, DeleteMoves
<1> HIDE DEF after
<1>7. Onward(NextOf(q, after))
  BY <1>1, <1>4, <1>6, LoopOnward
<1> QED
  BY <1>3, <1>4, <1>7, CalledMoves

LEMMA DeleteVerifyStep ==
  ASSUME WInv, NEW r \in Slots, DeleteVerify(r)
  PROVE  WInv'
<1> DEFINE q == req[r]
<1>1. Sound(q) /\ q.pc = "delete_verify" /\ q.pc \notin PoolPhases
  BY DEF DeleteVerify, WInv, Active, Idle, PoolPhases
<1>2. DeleteRequest(q)
  BY <1>1, DeleteKnown DEF DeletePhases
<1>3. "delete_remove" \in DeletePhases \ PoolPhases
  BY DEF DeletePhases, PoolPhases
<1>4. Onward(At(q, "delete_remove")) /\ Onward(Admit(q))
  BY <1>2, <1>3, NothingListed, DeleteMoves
<1> QED
  BY <1>1, <1>4, DecideMoves DEF DeleteVerify

LEMMA DeleteRemoveGetStep ==
  ASSUME WInv, NEW r \in Slots, DeleteRemoveGet(r)
  PROVE  WInv'
<1> DEFINE q == req[r]
           p == At(q, "delete_removing")
<1>1. Sound(q) /\ q.pc = "delete_remove"
  BY DEF DeleteRemoveGet, WInv, Active, Idle
<1>2. DeleteRequest(q) /\ q \in AnyRequest /\ q.old.ann \in AnyAnn /\ q.old.ann.addrs \in Seq(Addrs)
  BY <1>1, DeleteKnown DEF DeletePhases
<1>3. "delete_removing" \in Phases
  BY DEF Phases
<1>4. p \in AnyRequest /\ Same(p, q) /\ p.pc = "delete_removing"
  BY <1>2, <1>3, NothingListed, MovesType
<1>5. p.pc \in PoolPhases /\ Phased(p)
  BY <1>2, <1>4 DEF PoolPhases, DeleteRequest, Sound, Phased, Same, DeletePhases
<1>6. q.old.ann.zone \in Zones /\ SetOf(q.old.ann.addrs) \in SUBSET Addrs
  BY <1>2, SetOfSplit DEF AnyAnn
<1>7. /\ Pool!RemoveGet(r, q.old.ann.zone, SetOf(q.old.ann.addrs))
      /\ Continue(r, p) /\ PoolUnchanged
  BY DEF DeleteRemoveGet
<1> HIDE DEF p
<1>8. Sound(p)
  BY <1>2, <1>4, <1>5, PoolingSound DEF DeleteRequest
<1> QED
  BY <1>5, <1>6, <1>7, <1>8, RemoveBegins

LEMMA RestoreAddressStep ==
  ASSUME WInv, NEW r \in Slots, RestoreAddress(r)
  PROVE  WInv'
<1> DEFINE q == req[r]
<1>1. Sound(q) /\ q.pc = "restore"
  BY DEF RestoreAddress, WInv, Active, Idle
<1>2. q.svc \in Services /\ q.old.ann \in AnyAnn
  BY <1>1, DeleteKnown DEF DeletePhases
<1>3. Called /\ (Continue(r, Idle) \/ Continue(r, NextOf(q, Idle)))
  BY <1>2, UpdateAddressEffect DEF RestoreAddress
<1>4. q.pc \notin DefaultPhases \cup PoolPhases \cup {"validate", "register"}
  BY <1>1 DEF DefaultPhases, PoolPhases
<1>5. Onward(Idle) /\ Onward(NextOf(q, Idle))
  BY <1>1, <1>4, LoopOnward DEF Onward
<1> QED
  BY <1>3, <1>4, <1>5, CalledMoves
----------------------------------------------------------------------------
(* Pool operations run. *)

(* One of the calls of the operation of r has been answered. *)
LEMMA PoolAnswers ==
  ASSUME WInv, NEW r \in Slots, call[r] # Idle,
         NEW c \in Pool!Call, c # Idle, call' = [call EXCEPT ![r] = c],
         c.pc \in Pool!Running => c.read.addrs \subseteq Prefix[c.zone],
         c.pc = "adding" => c.addrs \subseteq Prefix[c.zone],
         pools' \in [Zones -> Pool!Pool], rev' \in Nat, UNCHANGED poolCache,
         \A z \in Zones : pools'[z].addrs \subseteq Prefix[z],
         faults' \in 0..MaxFaults, UNCHANGED <<store, req, submitted, ipam, lbCache>>
  PROVE  WInv'
<1>1. /\ call' \in [Slots -> Pool!Call]
      /\ \A o \in Slots : call'[o] = IF o = r THEN c ELSE call[o]
  BY DEF WInv, WebhookTypeOK, Pool!PoolTypeOK
<1>2. LbAddrs' = LbAddrs
  BY DEF LbAddrs
<1>3. Pool!PoolTypeOK'
  BY <1>1, <1>2 DEF WInv, WebhookTypeOK, Pool!PoolTypeOK
<1>4. \A o \in Slots : req'[o].pc \in PoolPhases <=> call'[o] # Idle
  BY <1>1 DEF WInv, WebhookTypeOK
<1>5. WebhookTypeOK'
  BY <1>3, <1>4 DEF WInv, WebhookTypeOK
<1>6. \A o \in Slots : Active(o)' => Sound(req'[o])
  BY DEF WInv, Active
<1>7. PoolsInZone'
  BY <1>1 DEF WInv, PoolsInZone
<1>8. \A s \in Services : HasFamilies(store'[s])
  BY DEF WInv
<1> QED
  BY <1>5, <1>6, <1>7, <1>8 DEF WInv

(* What a write may answer its handler. *)
Results == {"ok", "error"}

(* A write answers its handler, and stores nothing outside the zone. *)
Written(r) ==
  /\ \E result \in Results : call' = [call EXCEPT ![r] = [pc |-> result]]
  /\ pools' \in [Zones -> Pool!Pool] /\ rev' \in Nat /\ UNCHANGED poolCache
  /\ \A z \in Zones : pools'[z].addrs \subseteq Prefix[z]

LEMMA WrittenMoves ==
  ASSUME WInv, NEW r \in Slots, call[r] # Idle, Written(r),
         faults' \in 0..MaxFaults, UNCHANGED <<store, req, submitted, ipam, lbCache>>
  PROVE  WInv'
<1>1. PICK result \in Results : call' = [call EXCEPT ![r] = [pc |-> result]]
  BY DEF Written
<1>2. [pc |-> result] \in Pool!Call /\ [pc |-> result] # Idle
      /\ [pc |-> result].pc \notin Pool!Running /\ [pc |-> result].pc # "adding"
  BY <1>1 DEF Results, Pool!Call, Pool!Running, Idle
<1> QED
  BY <1>1, <1>2, PoolAnswers DEF Written

LEMMA StoreWritten ==
  ASSUME WInv, NEW z \in Zones, NEW A \in SUBSET Prefix[z], Pool!Store(z, A)
  PROVE  /\ pools' \in [Zones -> Pool!Pool] /\ rev' \in Nat
         /\ \A y \in Zones : pools'[y].addrs \subseteq Prefix[y]
<1>1. A \in SUBSET Addrs
  BY IpamAssumption
<1>2. rev' \in Nat
  BY DEF WInv, WebhookTypeOK, Pool!PoolTypeOK, Pool!Store
<1> QED
  BY <1>1, <1>2 DEF WInv, WebhookTypeOK, Pool!PoolTypeOK, PoolsInZone, Pool!Store, Pool!Pool

LEMMA UpdateWritten ==
  ASSUME WInv, NEW r \in Slots, NEW z \in Zones, NEW read, NEW A \in SUBSET Prefix[z],
         NEW answer \in Results, Pool!UpdatePool(r, z, read, A, answer), UNCHANGED poolCache
  PROVE  Written(r)
<1>1. CASE UNCHANGED <<pools, rev>>
  BY <1>1 DEF WInv, WebhookTypeOK, Pool!PoolTypeOK, PoolsInZone, Pool!UpdatePool, Pool!Answer, Results, Written
<1>2. CASE Pool!Store(z, A)
  BY <1>2, StoreWritten DEF Pool!UpdatePool, Pool!Answer, Results, Written
<1> QED
  BY <1>1, <1>2 DEF Pool!UpdatePool

LEMMA AddWritten ==
  ASSUME WInv, NEW r \in Slots, NEW answer \in Results, Pool!AddWrite(r, answer)
  PROVE  Written(r)
<1> DEFINE op == call[r]
<1>1. /\ op.pc = "adding" /\ op.zone \in Zones /\ UNCHANGED poolCache
      /\ op.addrs \in SUBSET Prefix[op.zone] /\ op.read.addrs \in SUBSET Prefix[op.zone]
  BY DEF WInv, WebhookTypeOK, Pool!PoolTypeOK, Pool!Call, Pool!Adding, Pool!Removing,
         PoolsInZone, Pool!Running, Pool!AddWrite
<1>2. CASE Pool!CreatePool(r, op.zone, op.addrs, answer)
  <2>1. CASE UNCHANGED <<pools, rev>>
    BY <1>1, <1>2, <2>1
    DEF WInv, WebhookTypeOK, Pool!PoolTypeOK, PoolsInZone, Pool!CreatePool, Pool!Answer, Results, Written
  <2>2. CASE Pool!Store(op.zone, op.addrs)
    BY <1>1, <1>2, <2>2, StoreWritten DEF Pool!CreatePool, Pool!Answer, Results, Written
  <2> QED
    BY <1>2, <2>1, <2>2 DEF Pool!CreatePool
<1>3. CASE Pool!UpdatePool(r, op.zone, op.read, Pool!Extended(op.read, op.addrs), answer)
  <2>1. Pool!Extended(op.read, op.addrs) \in SUBSET Prefix[op.zone]
    BY <1>1 DEF Pool!Extended
  <2> QED
    BY <1>1, <1>3, <2>1, UpdateWritten
<1> QED
  BY <1>2, <1>3 DEF Pool!AddWrite

LEMMA RemoveWritten ==
  ASSUME WInv, NEW r \in Slots, NEW answer \in Results, Pool!RemoveWrite(r, answer)
  PROVE  Written(r)
<1> DEFINE op == call[r]
           rest == Pool!Remaining(op.read, op.unused)
<1>1. /\ op.pc = "removing" /\ op.zone \in Zones /\ UNCHANGED poolCache
      /\ op.read.addrs \in SUBSET Prefix[op.zone]
  BY DEF WInv, WebhookTypeOK, Pool!PoolTypeOK, Pool!Call, Pool!Adding, Pool!Removing,
         PoolsInZone, Pool!Running, Pool!RemoveWrite
<1>2. CASE Pool!DeletePool(r, op.zone, op.read, answer)
  <2>1. pools \in [Zones -> Pool!Pool] /\ rev \in Nat
        /\ \A z \in Zones : pools[z].addrs \subseteq Prefix[z]
    BY DEF WInv, WebhookTypeOK, Pool!PoolTypeOK, PoolsInZone
  <2>2. \E result \in {"ok", "error"} : call' = [call EXCEPT ![r] = [pc |-> result]]
    BY <1>2 DEF Pool!DeletePool, Pool!Answer, Results
  <2>3. \/ UNCHANGED <<pools, rev>>
        \/ pools' = [pools EXCEPT ![op.zone] = Pool!Absent] /\ rev' = rev + 1
    BY <1>2 DEF Pool!DeletePool
  <2>4. Pool!Absent \in Pool!Pool /\ Pool!Absent.addrs = {}
    BY DEF Pool!Absent, Pool!Pool
  <2>5. pools' \in [Zones -> Pool!Pool] /\ rev' \in Nat
    BY <2>1, <2>3, <2>4
  <2>6. \A z \in Zones : pools'[z].addrs \subseteq Prefix[z]
    BY <2>1, <2>3, <2>4
  <2> QED
    BY <1>1, <2>2, <2>5, <2>6 DEF Written, Results
<1>3. CASE Pool!UpdatePool(r, op.zone, op.read, rest, answer)
  <2>1. rest \in SUBSET Prefix[op.zone]
    BY <1>1 DEF Pool!Remaining
  <2> QED
    BY <1>1, <1>3, <2>1, UpdateWritten
<1> QED
  BY <1>2, <1>3 DEF Pool!RemoveWrite

LEMMA PoolStepStep ==
  ASSUME WInv, NEW r \in Slots, PoolStep(r)
  PROVE  WInv'
<1>1. faults' \in 0..MaxFaults /\ UNCHANGED <<store, req, submitted, ipam, lbCache>>
  BY FaultCounted DEF PoolStep, WInv, WebhookTypeOK
<1>2. ASSUME NEW answer \in Results, Pool!AddWrite(r, answer) PROVE WInv'
  <2>1. call[r] # Idle
    BY <1>2 DEF Pool!AddWrite, Idle
  <2> QED
    BY <1>1, <1>2, <2>1, AddWritten, WrittenMoves
<1>3. ASSUME NEW answer \in Results, Pool!RemoveWrite(r, answer) PROVE WInv'
  <2>1. call[r] # Idle
    BY <1>3 DEF Pool!RemoveWrite, Idle
  <2> QED
    BY <1>1, <1>3, <2>1, RemoveWritten, WrittenMoves
<1>4. CASE Pool!CallFails(r)
  <2>1. call[r] # Idle
    BY <1>4 DEF Pool!CallFails, Pool!Running, Idle
  <2>2. Written(r)
    BY <1>4 DEF Pool!CallFails, Pool!Answer, Written, Results, WInv, WebhookTypeOK,
                Pool!PoolTypeOK, PoolsInZone
  <2> QED
    BY <1>1, <2>1, <2>2, WrittenMoves
<1>5. CASE Pool!RemoveList(r)
  <2> DEFINE unused == Pool!NotInUse(call[r].addrs)
             c == [call[r] EXCEPT !.pc = "removing", !.unused = unused]
  <2>1. /\ call[r].pc = "listing" /\ UNCHANGED <<pools, rev, poolCache>>
        /\ call' = [call EXCEPT ![r] = c]
    BY <1>5 DEF Pool!RemoveList
  <2>2. call[r] \in Pool!Removing /\ call[r] # Idle
    BY <2>1 DEF WInv, WebhookTypeOK, Pool!PoolTypeOK, Pool!Call, Pool!Adding, Idle
  <2>3. unused \in SUBSET Addrs
    BY <2>2 DEF Pool!Removing, Pool!NotInUse
  <2> HIDE DEF unused
  <2>4. c \in Pool!Call /\ c # Idle
    BY <2>2, <2>3 DEF Pool!Call, Pool!Removing, Idle
  <2>5. c.pc = "removing" /\ c.read = call[r].read /\ c.zone = call[r].zone
    BY <2>2 DEF Pool!Removing
  <2> HIDE DEF c
  <2>6. c.read.addrs \subseteq Prefix[c.zone]
    BY <2>1, <2>5 DEF WInv, PoolsInZone, Pool!Running
  <2>7. /\ pools' \in [Zones -> Pool!Pool] /\ rev' \in Nat
        /\ \A z \in Zones : pools'[z].addrs \subseteq Prefix[z]
    BY <2>1 DEF WInv, WebhookTypeOK, Pool!PoolTypeOK, PoolsInZone
  <2> QED
    BY <1>1, <2>1, <2>2, <2>4, <2>5, <2>6, <2>7, PoolAnswers
<1> QED
  BY <1>2, <1>3, <1>4, <1>5 DEF PoolStep, Pool!AnswerLost, Results

(* What a handler does with the result of its pool operation. *)
LEMMA AfterPoolOnward ==
  ASSUME NEW q, Sound(q), q.pc \in PoolPhases, NEW result
  PROVE  Onward(AfterPool(q, result))
<1>1. CASE q.pc = "create_pooling"
  <2>1. CreateRequest(q) /\ q \in AnyRequest
    BY <1>1, CreateKnown DEF CreatePhases
  <2>2. "admitted" \in Plain \cap CreatePhases
    BY DEF Plain, Phases, CreatePhases, PoolPhases, DefaultPhases
  <2>3. Onward(Admit(q)) /\ Onward(Idle)
    BY <2>1, <2>2, NothingListed, MovesType, CreatePlain DEF Plain, Onward
  <2> QED
    BY <1>1, <2>3 DEF AfterPool
<1>2. CASE q.pc \in {"update_pooling", "update_removing"}
  <2>1. UpdateRequest(q)
    BY <1>2, UpdateKnown DEF UpdatePhases
  <2>2. Onward(Admit(q)) /\ Onward(ToPoolRemove(q))
    BY <2>1, ToPlain
  <2> QED
    BY <1>2, <2>2 DEF AfterPool
<1>3. CASE q.pc = "delete_removing"
  <2>1. DeleteRequest(q) /\ OldAddrs(q) \in Listed
    BY <1>3, DeleteKnown DEF DeletePhases
  <2>2. "restore" \in DeletePhases \ PoolPhases
    BY DEF DeletePhases, PoolPhases
  <2>3. Onward(Admit(q)) /\ Onward(Loop(q, "restore", OldAddrs(q)))
    BY <2>1, <2>2, DeleteMoves
  <2> QED
    BY <1>3, <2>3 DEF AfterPool
<1> QED
  BY <1>1, <1>2, <1>3 DEF PoolPhases

LEMMA PoolReturnStep ==
  ASSUME WInv, NEW r \in Slots, PoolReturn(r)
  PROVE  WInv'
<1> DEFINE p == AfterPool(req[r], call[r].pc)
<1>1. call[r] # Idle
  BY DEF PoolReturn, Idle
<1>2. req[r].pc \in PoolPhases
  BY <1>1 DEF WInv, WebhookTypeOK
<1>3. Sound(req[r])
  BY <1>2 DEF WInv, Active, PoolPhases
<1>4. Onward(p)
  BY <1>2, <1>3, AfterPoolOnward
<1>5. Continue(r, p) /\ call' = [call EXCEPT ![r] = Idle] /\ PoolUnchanged
      /\ UNCHANGED <<pools, rev, poolCache>>
  BY DEF PoolReturn
<1> HIDE DEF p
<1>6. /\ req' \in [Slots -> AnyRequest \cup {Idle}]
      /\ \A o \in Slots : req'[o] = IF o = r THEN p ELSE req[o]
  BY <1>4, <1>5 DEF WInv, WebhookTypeOK, Continue, Onward, Sound
<1>7. Idle \in Pool!Call /\ Idle.pc \notin PoolPhases /\ Idle.pc \notin Pool!Running
      /\ Idle.pc # "adding"
  BY DEF Idle, Pool!Call, PoolPhases, Pool!Running
<1>8. /\ call' \in [Slots -> Pool!Call]
      /\ \A o \in Slots : call'[o] = IF o = r THEN Idle ELSE call[o]
  BY <1>5, <1>7 DEF WInv, WebhookTypeOK, Pool!PoolTypeOK
<1>9. LbAddrs' = LbAddrs
  BY <1>5 DEF LbAddrs, PoolUnchanged
<1>10. Pool!PoolTypeOK'
  BY <1>5, <1>8, <1>9 DEF WInv, WebhookTypeOK, Pool!PoolTypeOK, PoolUnchanged
<1>11. \A o \in Slots : req'[o].pc \in PoolPhases <=> call'[o] # Idle
  BY <1>4, <1>6, <1>7, <1>8 DEF WInv, WebhookTypeOK, Onward
<1>12. WebhookTypeOK'
  BY <1>5, <1>6, <1>10, <1>11 DEF WInv, WebhookTypeOK, PoolUnchanged
<1>13. \A o \in Slots : Active(o)' => Sound(req'[o])
  BY <1>4, <1>6 DEF WInv, Active, Onward, Idle
<1>14. PoolsInZone'
  BY <1>5, <1>7, <1>8 DEF WInv, PoolsInZone
<1>15. \A s \in Services : HasFamilies(store'[s])
  BY <1>5 DEF WInv, PoolUnchanged
<1> QED
  BY <1>12, <1>13, <1>14, <1>15 DEF WInv
----------------------------------------------------------------------------
(* The API server. *)

LEMMA SubmitStep ==
  ASSUME WInv, NEW r \in Slots, NEW s \in Services, NEW pc, NEW op, NEW old, NEW new,
         Submit(r, pc, op, s, old, new), op \in Ops,
         \/ pc = "default" /\ op = "create" /\ old = NoService /\ new \in AnyService
         \/ pc = "default" /\ op = "update" /\ old \in AnyService /\ new \in AnyService
         \/ pc = "delete" /\ op = "delete" /\ old \in AnyService /\ new = NoService
  PROVE  WInv'
<1> DEFINE q == [pc |-> pc, op |-> op, svc |-> s, old |-> old, new |-> new,
                 todo |-> <<>>, got |-> <<>>, answer |-> "awaited"]
<1>1. q \in AnyRequest
  BY NothingListed DEF AnyRequest, Phases, Listed
<1>2. Phased(q)
  BY DEF Phased, DefaultPhases, DeletePhases
<1>3. Checked(q) /\ Progress(q) /\ q.pc \notin PoolPhases
  BY DEF Checked, Progress, DefaultPhases, HasFamilies, IsLB, NoService, PoolPhases
<1>4. Onward(q)
  BY <1>1, <1>2, <1>3 DEF Onward, Sound
<1>5. /\ Continue(r, q) /\ submitted' = submitted + 1 /\ submitted < MaxRequests /\ ~Active(r)
      /\ UNCHANGED <<store, faults, ipam, poolVars, lbCache>>
  BY DEF Submit, CanSubmit
<1> HIDE DEF q
<1>6. submitted' \in 0..MaxRequests
  BY <1>5, WebhookAssumption DEF WInv, WebhookTypeOK
<1>7. ipam' \in [Addrs -> Binding] /\ faults' \in 0..MaxFaults /\ req[r].pc \notin PoolPhases
  BY <1>5 DEF WInv, WebhookTypeOK, Active, PoolPhases
<1> QED
  BY <1>4, <1>5, <1>6, <1>7, HandlerMoves

LEMMA SubmittableType ==
  /\ Submittable \subseteq AnyService
  /\ \A svc \in Submittable, addrs \in Seq(Addrs) : [svc EXCEPT !.ann.addrs = addrs] \in AnyService
<1>1. Annotations \subseteq AnyAnn
  BY WebhookAssumption DEF Annotations, AnyAnn
<1>2. Submittable \subseteq AnyService
  BY <1>1, WebhookAssumption DEF Submittable, AnyService
<1>3. ASSUME NEW svc \in AnyService, NEW addrs \in Seq(Addrs)
      PROVE  [svc EXCEPT !.ann.addrs = addrs] \in AnyService
  BY DEF AnyService, AnyAnn
<1> QED
  BY <1>2, <1>3

LEMMA SubmitAnyStep ==
  ASSUME WInv, NEW r \in Slots, SubmitAny(r)
  PROVE  WInv'
<1>1. ASSUME NEW s \in Services, store[s] # NoService
      PROVE  store[s] \in AnyService /\ store[s].ann.addrs \in Seq(Addrs)
  BY <1>1 DEF WInv, WebhookTypeOK, AnyService, AnyAnn
<1>2. ASSUME NEW s \in Services, SubmitCreate(r, s) PROVE WInv'
  <2>1. PICK new \in Submittable : Submit(r, "default", "create", s, NoService, new)
    BY <1>2 DEF SubmitCreate
  <2> QED
    BY <1>2, <2>1, SubmittableType, SubmitStep DEF SubmitCreate
<1>3. ASSUME NEW s \in Services, SubmitUpdate(r, s) PROVE WInv'
  <2>1. PICK svc \in Submittable, addrs \in UserAddresses \cup {store[s].ann.addrs} :
          Submit(r, "default", "update", s, store[s], [svc EXCEPT !.ann.addrs = addrs])
    BY <1>3 DEF SubmitUpdate
  <2>2. store[s] \in AnyService /\ addrs \in Seq(Addrs) /\ "update" \in Ops
    BY <1>1, <1>3, WebhookAssumption DEF SubmitUpdate
  <2>3. [svc EXCEPT !.ann.addrs = addrs] \in AnyService
    BY <2>2, SubmittableType
  <2> QED
    BY <2>1, <2>2, <2>3, SubmitStep
<1>4. ASSUME NEW s \in Services, SubmitDelete(r, s) PROVE WInv'
  <2>1. Submit(r, "delete", "delete", s, store[s], NoService) /\ "delete" \in Ops
    BY <1>4 DEF SubmitDelete
  <2>2. store[s] \in AnyService
    BY <1>1, <1>4 DEF SubmitDelete
  <2> QED
    BY <2>1, <2>2, SubmitStep
<1> QED
  BY <1>2, <1>3, <1>4 DEF SubmitAny

(* Requests whose answer, and nothing of whose handler, has changed. *)
LEMMA AnswerSound ==
  ASSUME NEW q, Sound(q), NEW a \in {"awaited", "outdated", "abandoned"}
  PROVE  LET p == [q EXCEPT !.answer = a] IN Sound(p) /\ p.pc = q.pc
<1> DEFINE p == [q EXCEPT !.answer = a]
<1>1. q \in AnyRequest
  BY DEF Sound
<1>2. p \in AnyRequest /\ Same(p, q) /\ p.pc = q.pc /\ p.todo = q.todo
  BY <1>1 DEF AnyRequest, Same
<1> HIDE DEF p
<1>3. Phased(p) /\ Progress(p)
  BY <1>2 DEF Sound, Phased, Progress, Same
<1>4. Checked(p)
  BY <1>2, SamePrefixes DEF Sound, Checked, Same
<1>5. Sound(p) /\ p.pc = q.pc
  BY <1>2, <1>3, <1>4 DEF Sound
<1> QED
  BY <1>5 DEF p

(* Steps that change requests and stored Services, but no pool. *)
LEMMA ServerMoves ==
  ASSUME WInv, req' \in [Slots -> AnyRequest \cup {Idle}],
         \A o \in Slots : req'[o] # Idle => Sound(req'[o]),
         \A o \in Slots : req'[o].pc \in PoolPhases <=> req[o].pc \in PoolPhases,
         store' \in [Services -> AnyService \cup {NoService}],
         \A s \in Services : HasFamilies(store'[s]),
         UNCHANGED <<submitted, faults, ipam, poolVars, lbCache>>
  PROVE  WInv'
<1>1. LbAddrs' \in [Services -> SUBSET Addrs]
  <2> SUFFICES ASSUME NEW s \in Services, IsLB(store'[s]) PROVE SetOf(store'[s].ann.addrs) \subseteq Addrs
    BY DEF LbAddrs
  <2>1. store'[s] \in AnyService
    BY DEF IsLB, NoService
  <2>2. store'[s].ann.addrs \in Seq(Addrs)
    BY <2>1 DEF AnyService, AnyAnn
  <2> QED
    BY <2>2, SetOfSplit
<1>2. Pool!PoolTypeOK'
  BY <1>1 DEF WInv, WebhookTypeOK, Pool!PoolTypeOK, poolVars
<1>3. \A o \in Slots : req'[o].pc \in PoolPhases <=> call'[o] # Idle
  BY DEF WInv, WebhookTypeOK, poolVars
<1>4. WebhookTypeOK'
  BY <1>2, <1>3 DEF WInv, WebhookTypeOK
<1>5. \A o \in Slots : Active(o)' => Sound(req'[o])
  BY DEF Active, Idle
<1>6. PoolsInZone'
  BY DEF WInv, PoolsInZone, poolVars
<1> QED
  BY <1>4, <1>5, <1>6 DEF WInv

LEMMA AbandonStep ==
  ASSUME WInv, NEW r \in Slots, Abandon(r)
  PROVE  WInv'
<1> DEFINE q == req[r]
           p == [q EXCEPT !.answer = "abandoned"]
<1>1. Sound(q) /\ Decide(r, IF Pending(q) THEN Idle ELSE p)
  BY DEF Abandon, WInv
<1>2. CASE Pending(q)
  <2>1. q.pc \notin PoolPhases
    BY <1>2 DEF Pending, PoolPhases
  <2> QED
    BY <1>1, <1>2, <2>1, DecideMoves DEF Onward
<1>3. CASE ~Pending(q)
  <2>1. Sound(p) /\ p.pc = q.pc
    BY <1>1, AnswerSound
  <2> HIDE DEF p
  <2>2. Decide(r, p)
    BY <1>1, <1>3
  <2>3. /\ req' \in [Slots -> AnyRequest \cup {Idle}]
        /\ \A o \in Slots : req'[o] = IF o = r THEN p ELSE req[o]
    BY <2>1, <2>2 DEF WInv, WebhookTypeOK, Decide, Continue, Sound
  <2>4. \A o \in Slots : req'[o] # Idle => Sound(req'[o])
    BY <2>1, <2>3 DEF WInv, WebhookTypeOK, Active, AnyRequest, Phases, Idle
  <2>5. /\ store' \in [Services -> AnyService \cup {NoService}]
        /\ \A s \in Services : HasFamilies(store'[s])
        /\ UNCHANGED <<submitted, faults, ipam, poolVars, lbCache>>
    BY <2>2 DEF WInv, WebhookTypeOK, Decide
  <2>6. \A o \in Slots : req'[o].pc \in PoolPhases <=> req[o].pc \in PoolPhases
    BY <2>1, <2>3
  <2> QED
    BY <2>3, <2>4, <2>5, <2>6, ServerMoves
<1> QED
  BY <1>2, <1>3

(* What is stored has been through the handlers, and has its families. *)
LEMMA CommitStep ==
  ASSUME WInv, NEW r \in Slots, Commit(r)
  PROVE  WInv'
<1> DEFINE q == req[r]
<1>1. Sound(q) /\ q.pc = "admitted"
  BY DEF Commit, WInv, Active, Idle
<1>2. q.new \in AnyService \cup {NoService} /\ q.svc \in Services /\ HasFamilies(q.new)
  BY <1>1 DEF Sound, Progress, DefaultPhases, AnyRequest
<1>3. /\ store' \in [Services -> AnyService \cup {NoService}]
      /\ \A s \in Services : HasFamilies(store'[s])
  BY <1>2 DEF Commit, WInv, WebhookTypeOK
<1>4. ASSUME NEW o \in Slots
      PROVE  /\ req'[o] = Idle \/ Sound(req'[o])
             /\ req'[o].pc \in PoolPhases <=> req[o].pc \in PoolPhases
  <2>1. Idle.pc \notin PoolPhases /\ q.pc \notin PoolPhases
    BY <1>1 DEF Idle, PoolPhases
  <2>2. CASE o = r
    BY <2>1, <2>2 DEF Commit, AfterCommit
  <2>3. CASE o # r /\ req'[o] = req[o]
    BY <2>3 DEF WInv, WebhookTypeOK, Active, AnyRequest, Phases, Idle
  <2>4. CASE o # r /\ Active(o) /\ req'[o] = [req[o] EXCEPT !.answer = "outdated"]
    BY <2>4, AnswerSound DEF WInv
  <2> QED
    BY <2>2, <2>3, <2>4 DEF Commit, AfterCommit, RequestsFor
<1>5. req' \in [Slots -> AnyRequest \cup {Idle}]
  <2>1. req' = [o \in Slots |-> req'[o]]
    BY DEF Commit, AfterCommit
  <2>2. \A o \in Slots : req'[o] \in AnyRequest \cup {Idle}
    BY <1>4 DEF Sound
  <2> QED
    BY <2>1, <2>2
<1>6. UNCHANGED <<submitted, faults, ipam, poolVars, lbCache>>
  BY DEF Commit
<1> QED
  BY <1>3, <1>4, <1>5, <1>6, ServerMoves

LEMMA ConflictStep ==
  ASSUME WInv, NEW r \in Slots, Conflict(r)
  PROVE  WInv'
<1> DEFINE q == req[r]
           again == q.op = "delete" /\ store[q.svc] # NoService
           p == [q EXCEPT !.pc = "delete", !.old = store[q.svc], !.answer = "awaited"]
<1>1. /\ Sound(q) /\ q.pc \in {"default", "admitted"} /\ q.pc \notin PoolPhases
      /\ Decide(r, IF again THEN p ELSE Idle)
  BY DEF Conflict, WInv, Active, Idle, PoolPhases
<1>2. CASE ~again
  BY <1>1, <1>2, DecideMoves DEF Onward
<1>3. CASE again
  <2>1. q \in AnyRequest /\ store[q.svc] \in AnyService /\ q.new = NoService
    BY <1>1, <1>3 DEF Sound, AnyRequest, Phased, WInv, WebhookTypeOK
  <2>2. /\ p \in AnyRequest /\ p.pc = "delete" /\ p.op = "delete"
        /\ p.old = store[q.svc] /\ p.new = NoService
    BY <1>3, <2>1 DEF AnyRequest, Phases
  <2> HIDE DEF p
  <2>3. Phased(p) /\ Checked(p) /\ Progress(p) /\ p.pc \notin PoolPhases
    BY <2>1, <2>2
    DEF Phased, DeletePhases, Checked, Progress, HasFamilies, IsLB, NoService, PoolPhases
  <2> QED
    BY <1>1, <1>3, <2>2, <2>3, DecideMoves DEF Onward, Sound
<1> QED
  BY <1>2, <1>3

LEMMA UnheardStep ==
  ASSUME WInv, NEW r \in Slots, Unheard(r)
  PROVE  WInv'
<1>1. req[r].pc \notin PoolPhases
  BY DEF Unheard, Pending, PoolPhases
<1> QED
  BY <1>1, DecideMoves DEF Unheard, Onward

LEMMA EntryFailsStep ==
  ASSUME WInv, NEW r \in Slots, EntryFails(r)
  PROVE  WInv'
<1>1. req[r].pc \notin PoolPhases /\ Continue(r, Idle)
  BY DEF EntryFails, PoolPhases, Finish
<1>2. Called
  BY FaultCounted DEF EntryFails, Called, WInv, WebhookTypeOK
<1> QED
  BY <1>1, <1>2, CalledMoves DEF Onward
----------------------------------------------------------------------------
(* What else can happen. *)

LEMMA CrashStep == WInv /\ Crash => WInv'
<1> SUFFICES ASSUME WInv, Crash PROVE WInv'
  OBVIOUS
<1>1. /\ req' = [o \in Slots |-> Idle] /\ call' = [o \in Slots |-> Idle]
      /\ UNCHANGED <<store, submitted, ipam, pools, rev>>
      /\ poolCache' \in {pools, poolCache} /\ lbCache' \in {LbAddrs, lbCache}
      /\ faults' \in 0..MaxFaults
  BY FaultCounted DEF Crash
<1>2. Idle \in Pool!Call /\ Idle.pc \notin PoolPhases /\ Idle.pc \notin Pool!Running
      /\ Idle.pc # "adding"
  BY DEF Idle, Pool!Call, PoolPhases, Pool!Running
<1>3. LbAddrs' = LbAddrs /\ LbAddrs \in [Services -> SUBSET Addrs]
  BY <1>1, LbAddrsType DEF LbAddrs, WInv, WebhookTypeOK
<1>4. Pool!PoolTypeOK'
  BY <1>1, <1>2, <1>3 DEF WInv, WebhookTypeOK, Pool!PoolTypeOK
<1>5. WebhookTypeOK'
  BY <1>1, <1>2, <1>4 DEF WInv, WebhookTypeOK
<1>6. PoolsInZone'
  BY <1>1, <1>2 DEF WInv, PoolsInZone
<1>7. \A o \in Slots : Active(o)' => Sound(req'[o])
  BY <1>1 DEF Active, Idle
<1> QED
  BY <1>1, <1>5, <1>6, <1>7 DEF WInv

LEMMA SyncStep == WInv /\ (SyncPools \/ SyncServices) => WInv'
<1> SUFFICES ASSUME WInv, SyncPools \/ SyncServices PROVE WInv'
  OBVIOUS
<1>1. LbAddrs' = LbAddrs /\ LbAddrs \in [Services -> SUBSET Addrs]
  BY LbAddrsType DEF LbAddrs, WInv, WebhookTypeOK, SyncPools, SyncServices
<1>2. UNCHANGED <<store, req, submitted, faults, ipam, pools, rev, call>>
  BY DEF SyncPools, SyncServices, Pool!SyncPool, poolVars
<1>3. /\ poolCache' \in [Zones -> Pool!Pool] /\ lbCache' \in [Services -> SUBSET Addrs]
      /\ \A z \in Zones : poolCache'[z].addrs \subseteq Prefix[z]
  BY <1>1 DEF WInv, WebhookTypeOK, Pool!PoolTypeOK, PoolsInZone, SyncPools, SyncServices,
              Pool!SyncPool, poolVars
<1>4. Pool!PoolTypeOK'
  BY <1>1, <1>2, <1>3 DEF WInv, WebhookTypeOK, Pool!PoolTypeOK
<1>5. WebhookTypeOK' /\ PoolsInZone'
  BY <1>2, <1>3, <1>4 DEF WInv, WebhookTypeOK, PoolsInZone
<1> QED
  BY <1>2, <1>5 DEF WInv, Active

LEMMA StutterStep == WInv /\ UNCHANGED vars => WInv'
<1> SUFFICES ASSUME WInv, UNCHANGED vars PROVE WInv'
  OBVIOUS
<1>1. LbAddrs' = LbAddrs /\ UNCHANGED <<store, req, submitted, faults, ipam, pools, rev, poolCache, call, lbCache>>
  BY DEF vars, LbAddrs
<1>2. Pool!PoolTypeOK'
  BY <1>1 DEF WInv, WebhookTypeOK, Pool!PoolTypeOK
<1>3. WebhookTypeOK' /\ PoolsInZone'
  BY <1>1, <1>2 DEF WInv, WebhookTypeOK, PoolsInZone
<1> QED
  BY <1>1, <1>3 DEF WInv, Active
----------------------------------------------------------------------------
(* The theorems. *)

LEMMA InitInv == Init => WInv
<1> SUFFICES ASSUME Init PROVE WInv
  OBVIOUS
<1>1. \A r \in Slots : req[r] = Idle /\ call[r] = Idle
  BY DEF Init
<1>2. Pool!Absent \in Pool!Pool /\ Pool!Absent.addrs = {} /\ Idle \in Pool!Call
      /\ Idle.pc \notin PoolPhases /\ Idle.pc \notin Pool!Running /\ Idle.pc # "adding"
  BY DEF Pool!Absent, Pool!Pool, Pool!Call, Idle, PoolPhases, Pool!Running
<1>3. store \in [Services -> AnyService \cup {NoService}]
      /\ \A s \in Services : HasFamilies(store[s])
  BY DEF Init, HasFamilies, IsLB, NoService
<1>4. LbAddrs \in [Services -> SUBSET Addrs]
  BY <1>3, LbAddrsType
<1>5. Pool!PoolTypeOK
  BY <1>2, <1>4 DEF Init, Pool!PoolTypeOK
<1>6. ipam \in [Addrs -> Binding]
  BY DEF Init, IpamInit, Binding, Unbound
<1>7. req \in [Slots -> AnyRequest \cup {Idle}] /\ submitted \in 0..MaxRequests /\ faults \in 0..MaxFaults
  BY WebhookAssumption DEF Init
<1>8. WebhookTypeOK
  BY <1>1, <1>2, <1>3, <1>5, <1>6, <1>7 DEF WebhookTypeOK
<1>9. PoolsInZone
  BY <1>1, <1>2 DEF Init, PoolsInZone
<1> QED
  BY <1>1, <1>3, <1>8, <1>9 DEF WInv, Active, Idle

LEMMA HandleStep ==
  ASSUME WInv, NEW r \in Slots, Handle(r)
  PROVE  WInv'
<1>1. CASE Default(r) \/ RequestV4(r) \/ RequestV6(r) \/ UndoV4(r)
  BY <1>1, DefaultStep, RequestV4Step, RequestV6Step, UndoV4Step
<1>2. CASE StartCreate(r) \/ ValidateAddress(r) \/ RollbackCreate(r) \/ CreatePoolGet(r)
  BY <1>2, StartCreateStep, ValidateAddressStep, RollbackCreateStep, CreatePoolGetStep
<1>3. CASE StartUpdate(r) \/ ValidateNew(r) \/ UndoFirst(r) \/ ChangeSecret(r)
           \/ RevertSecret(r) \/ UndoNew(r) \/ ReleaseOld(r) \/ UpdatePoolGet(r)
           \/ UpdateVerify(r) \/ UpdateRemoveGet(r)
  BY <1>3, StartUpdateStep, ValidateNewStep, UndoFirstStep, ChangeSecretStep, RevertSecretStep,
     UndoNewStep, ReleaseOldStep, UpdatePoolGetStep, UpdateVerifyStep, UpdateRemoveGetStep
<1>4. CASE StartDelete(r) \/ ReleaseAddress(r) \/ DeleteVerify(r) \/ DeleteRemoveGet(r)
           \/ RestoreAddress(r)
  BY <1>4, StartDeleteStep, ReleaseAddressStep, DeleteVerifyStep, DeleteRemoveGetStep,
     RestoreAddressStep
<1>5. CASE PoolStep(r) \/ PoolReturn(r)
  BY <1>5, PoolStepStep, PoolReturnStep
<1>6. CASE Commit(r) \/ Conflict(r) \/ Unheard(r)
  BY <1>6, CommitStep, ConflictStep, UnheardStep
<1> QED
  BY <1>1, <1>2, <1>3, <1>4, <1>5, <1>6 DEF Handle

(* WInv is inductive: it holds whatever requests, faults, crashes, timeouts
   and stale reads come in whatever order. *)
THEOREM WebhookInvariance == Spec => []WInv
<1>1. WInv /\ [Next]_vars => WInv'
  <2> SUFFICES ASSUME WInv, [Next]_vars PROVE WInv'
    OBVIOUS
  <2>1. ASSUME NEW r \in Slots, SubmitAny(r) \/ Handle(r) \/ Abandon(r) \/ EntryFails(r)
        PROVE  WInv'
    BY <2>1, SubmitAnyStep, HandleStep, AbandonStep, EntryFailsStep
  <2>2. CASE Crash
    BY <2>2, CrashStep
  <2>3. CASE SyncPools \/ SyncServices
    BY <2>3, SyncStep
  <2>4. CASE Rest \/ UNCHANGED vars
    BY <2>4, StutterStep DEF Rest
  <2> QED
    BY <2>1, <2>2, <2>3, <2>4 DEF Next
<1> QED
  BY <1>1, InitInv, PTL DEF Spec

(* Every variable of the webhooks stays in its type, and a handler runs a pool
   operation exactly while it waits for one. *)
THEOREM WebhookTypeCorrect == Spec => []WebhookTypeOK
<1>1. WInv => WebhookTypeOK
  BY DEF WInv
<1> QED
  BY <1>1, WebhookInvariance, PTL

(* MetalLB is never given an address in the pool of a zone the address is not
   in: every address is validated in its zone before the pool is changed. *)
THEOREM OnlyValidatedPooled == Spec => []PooledIsInZone
<1>1. WInv => PooledIsInZone
  BY DEF WInv, PoolsInZone, PooledIsInZone, InZone
<1> QED
  BY <1>1, WebhookInvariance, PTL

(* A LoadBalancer Service that is stored has the address families it asks for
   and at most one address of each. *)
THEOREM FamiliesStored == Spec => []FamiliesServed
<1>1. WInv => FamiliesServed
  BY DEF WInv, FamiliesServed, HasFamilies, Acceptable, HasV4, HasV6
<1> QED
  BY <1>1, WebhookInvariance, PTL
=============================================================================
