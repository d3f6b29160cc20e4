------------------------ MODULE DefaultSecret_proofs ------------------------
(***************************************************************************)
(* Proofs about the default secret, for every number of handlers,          *)
(* processes, values and faults: handlers agree on the secret, and         *)
(* DefaultSecret implements WriteOnce.                                     *)
(***************************************************************************)
EXTENDS DefaultSecret, TLAPS

(* What a cache has is the stored secret, or nothing yet. *)
CachesAgree == \A p \in Processes : cache[p] \in {NoSecret, secret}

IInv == SecretTypeOK /\ CachesAgree /\ Agreement

(* What a step may do to the API server: store a value where there was none. *)
SecretMoves == \/ UNCHANGED secret
               \/ secret = NoSecret /\ secret' \in Values
----------------------------------------------------------------------------
LEMMA InvInit == Init => IInv
  BY SecretAssumption DEF Init, IInv, SecretTypeOK, CachesAgree, Agreement, Lookup, Idle

LEMMA LookupTypes ==
  ASSUME SecretTypeOK, NEW h \in Handlers, call[h].pc \in {"creating", "holding"}
  PROVE  /\ call[h].value \in Values /\ call[h].process \in Processes
         /\ call[h] = [pc |-> call[h].pc, process |-> call[h].process, value |-> call[h].value]
         /\ Holding(h) = [call[h] EXCEPT !.pc = "holding"]
         /\ Holding(h) \in Lookup /\ Holding(h).pc = "holding" /\ Holding(h).value = call[h].value
  BY DEF SecretTypeOK, Lookup, Holding

(* A step in which one handler moves on, and the API server may store the
   first value, preserves the invariant. *)
LEMMA HandlerPreserves ==
  ASSUME IInv, NEW h \in Handlers, NEW next \in Lookup, Goes(h, next), SecretMoves,
         next.pc = "holding" => next.value = secret',
         UNCHANGED cache, faults' \in 0..MaxFaults
  PROVE  IInv'
<1>1. SecretTypeOK'
  BY DEF IInv, SecretTypeOK, Goes, SecretMoves
<1>2. CachesAgree'
  BY DEF IInv, CachesAgree, SecretMoves
<1>3. Agreement'
  <2> SUFFICES ASSUME NEW g \in Handlers, call'[g].pc = "holding"
               PROVE  call'[g].value = secret'
    BY DEF Agreement
  <2>1. CASE g = h
    BY <2>1 DEF IInv, SecretTypeOK, Goes
  <2>2. CASE g # h
    <3>1. call'[g] = call[g] /\ call[g].value = secret /\ call[g].value \in Values
      BY <2>2, LookupTypes DEF IInv, SecretTypeOK, Agreement, Goes
    <3> QED
      BY <3>1, SecretAssumption DEF SecretMoves
  <2> QED
    BY <2>1, <2>2
<1> QED
  BY <1>1, <1>2, <1>3 DEF IInv

LEMMA InvStep == IInv /\ [Next]_vars => IInv'
<1> SUFFICES ASSUME IInv, [Next]_vars PROVE IInv'
  OBVIOUS
<1>0. /\ Idle \in Lookup /\ Idle.pc # "holding" /\ Denied \in Lookup /\ Denied.pc # "holding"
      /\ faults \in 0..MaxFaults
  BY DEF Idle, Denied, Lookup, IInv, SecretTypeOK
<1>1. ASSUME NEW h \in Handlers, NEW p \in Processes, Get(h, p) PROVE IInv'
  <2>1. CASE cache[p] # NoSecret /\ Goes(h, [pc |-> "holding", process |-> p, value |-> cache[p]])
    <3>1. cache[p] = secret /\ cache[p] \in Values
      BY <2>1 DEF IInv, CachesAgree, SecretTypeOK
    <3>2. [pc |-> "holding", process |-> p, value |-> cache[p]] \in Lookup
      BY <3>1 DEF Lookup
    <3> QED
      BY <1>0, <1>1, <2>1, <3>1, <3>2, HandlerPreserves DEF Get, SecretMoves
  <2>2. ASSUME NEW v \in Values, Goes(h, [pc |-> "creating", process |-> p, value |-> v])
        PROVE  IInv'
    <3>1. [pc |-> "creating", process |-> p, value |-> v] \in Lookup
      BY DEF Lookup
    <3> QED
      BY <1>0, <1>1, <2>2, <3>1, HandlerPreserves DEF Get, SecretMoves
  <2> QED
    BY <1>1, <2>1, <2>2 DEF Get
<1>2. ASSUME NEW h \in Handlers, Create(h) PROVE IInv'
  <2>1. CASE secret = NoSecret /\ secret' = call[h].value /\ Goes(h, Holding(h))
    BY <1>0, <1>2, <2>1, LookupTypes, HandlerPreserves DEF IInv, Create, SecretMoves
  <2>2. CASE Goes(h, Denied) /\ UNCHANGED secret
    BY <1>0, <1>2, <2>2, HandlerPreserves DEF Create, SecretMoves
  <2> QED
    BY <1>2, <2>1, <2>2 DEF Create
<1>3. ASSUME NEW h \in Handlers, CreateFails(h) PROVE IInv'
  <2>1. faults' \in 0..MaxFaults
    BY <1>0, <1>3, SecretAssumption DEF CreateFails
  <2>2. SecretMoves
    BY <1>3, LookupTypes DEF IInv, CreateFails, SecretMoves
  <2> QED
    BY <1>0, <1>3, <2>1, <2>2, HandlerPreserves DEF CreateFails
<1>4. ASSUME NEW h \in Handlers, Return(h) PROVE IInv'
  BY <1>0, <1>4, HandlerPreserves DEF Return, SecretMoves
<1>5. ASSUME NEW p \in Processes, Sync(p) PROVE IInv'
  BY <1>5 DEF IInv, SecretTypeOK, CachesAgree, Agreement, Sync
<1>6. ASSUME NEW p \in Processes, Restart(p) PROVE IInv'
  <2>1. SecretTypeOK'
    <3>1. call' \in [Handlers -> Lookup] /\ faults' \in 0..MaxFaults
      BY <1>0, <1>6, SecretAssumption DEF IInv, SecretTypeOK, Restart
    <3>2. cache' \in [Processes -> Values \cup {NoSecret}] /\ UNCHANGED secret
      BY <1>6 DEF IInv, SecretTypeOK, Restart
    <3> QED
      BY <3>1, <3>2 DEF IInv, SecretTypeOK
  <2>2. CachesAgree'
    BY <1>6 DEF IInv, SecretTypeOK, CachesAgree, Restart
  <2>3. Agreement'
    BY <1>0, <1>6 DEF IInv, SecretTypeOK, Agreement, Restart
  <2> QED
    BY <2>1, <2>2, <2>3 DEF IInv
<1>7. CASE UNCHANGED vars
  BY <1>7 DEF IInv, SecretTypeOK, CachesAgree, Agreement, vars
<1> QED
  BY <1>1, <1>2, <1>3, <1>4, <1>5, <1>6, <1>7 DEF Next, Handle

LEMMA Invariance == Spec => []IInv
  BY InvInit, InvStep, PTL DEF Spec

(* Type correctness: in particular GetDefaultSecret never goes on with an
   empty secret. *)
THEOREM SecretTypeCorrect == Spec => []SecretTypeOK
<1>1. IInv => SecretTypeOK
  BY DEF IInv
<1> QED
  BY <1>1, Invariance, PTL

(* All handlers that go on, in whichever process, have the stored secret. *)
THEOREM HandlersAgree == Spec => []Agreement
<1>1. IInv => Agreement
  BY DEF IInv
<1> QED
  BY <1>1, Invariance, PTL
----------------------------------------------------------------------------
(* A handler that moves to where it holds nothing is one that forgets. *)
LEMMA HoldsNothing ==
  ASSUME SecretTypeOK, NEW h \in Handlers, NEW next, Goes(h, next), next.pc # "holding",
         UNCHANGED secret
  PROVE  Register!Next
<1>1. Learned' = [g \in Handlers |-> IF g \in {h} THEN NoSecret ELSE Learned[g]]
  BY DEF SecretTypeOK, Goes, Learned
<1> QED
  BY <1>1 DEF Register!Next, Register!Forget

(* GetDefaultSecret implements a value that is chosen once. *)
THEOREM Refinement == Spec => ChosenOnce
<1>1. Init => Register!Init
  BY DEF Init, Register!Init, Learned, Idle
<1>2. IInv /\ [Next]_vars => [Register!Next]_<<secret, Learned>>
  <2> SUFFICES ASSUME IInv, [Next]_vars
               PROVE  Register!Next \/ (UNCHANGED secret /\ UNCHANGED Learned)
    OBVIOUS
  <2>0. SecretTypeOK /\ call \in [Handlers -> Lookup]
    BY DEF IInv, SecretTypeOK
  <2>1. ASSUME NEW h \in Handlers, NEW p \in Processes, Get(h, p) PROVE Register!Next
    <3>1. CASE cache[p] # NoSecret /\ Goes(h, [pc |-> "holding", process |-> p, value |-> cache[p]])
      <4>1. cache[p] = secret /\ secret # NoSecret /\ UNCHANGED secret
        BY <2>1, <3>1 DEF IInv, CachesAgree, Get
      <4>2. Learned' = [Learned EXCEPT ![h] = secret]
        BY <2>0, <3>1, <4>1 DEF Goes, Learned
      <4> QED
        BY <4>1, <4>2 DEF Register!Next, Register!Learn
    <3>2. ASSUME NEW v \in Values, Goes(h, [pc |-> "creating", process |-> p, value |-> v])
          PROVE  Register!Next
      BY <2>0, <2>1, <3>2, HoldsNothing DEF Get
    <3> QED
      BY <2>1, <3>1, <3>2 DEF Get
  <2>2. ASSUME NEW h \in Handlers, Create(h) PROVE Register!Next
    <3>1. CASE secret = NoSecret /\ secret' = call[h].value /\ Goes(h, Holding(h))
      <4>1. /\ call[h].value \in Values
            /\ Holding(h).pc = "holding" /\ Holding(h).value = call[h].value
        BY <2>0, <2>2, LookupTypes DEF Create
      <4>2. Learned' = [Learned EXCEPT ![h] = call[h].value]
        BY <2>0, <3>1, <4>1 DEF Goes, Learned
      <4> QED
        BY <3>1, <4>1, <4>2 DEF Register!Next, Register!Choose
    <3>2. CASE Goes(h, Denied) /\ UNCHANGED secret
      BY <2>0, <3>2, HoldsNothing DEF Denied
    <3> QED
      BY <2>2, <3>1, <3>2 DEF Create
  <2>3. ASSUME NEW h \in Handlers, CreateFails(h) PROVE Register!Next
    <3>1. CASE UNCHANGED secret
      BY <2>0, <2>3, <3>1, HoldsNothing DEF CreateFails, Denied
    <3>2. CASE secret = NoSecret /\ secret' = call[h].value
      <4>1. call[h].value \in Values
        BY <2>0, <2>3, LookupTypes DEF CreateFails
      <4>2. Learned' = Learned
        BY <2>0, <2>3 DEF CreateFails, Goes, Learned, Denied
      <4> QED
        BY <3>2, <4>1, <4>2 DEF Register!Next, Register!Choose
    <3> QED
      BY <2>3, <3>1, <3>2 DEF CreateFails
  <2>4. ASSUME NEW h \in Handlers, Return(h) PROVE Register!Next
    BY <2>0, <2>4, HoldsNothing DEF Return, Idle
  <2>5. ASSUME NEW p \in Processes, Sync(p) PROVE UNCHANGED secret /\ UNCHANGED Learned
    BY <2>5 DEF Sync, Learned
  <2>6. ASSUME NEW p \in Processes, Restart(p) PROVE Register!Next
    <3> DEFINE R == {h \in Handlers : call[h].pc \in {"creating", "holding"} /\ call[h].process = p}
    <3>1. Learned' = [h \in Handlers |-> IF h \in R THEN NoSecret ELSE Learned[h]]
      BY <2>6 DEF Restart, Learned, Idle
    <3> QED
      BY <2>6, <3>1 DEF Restart, Register!Next, Register!Forget
  <2>7. CASE UNCHANGED vars
    BY <2>7 DEF vars, Learned
  <2> QED
    BY <2>1, <2>2, <2>3, <2>4, <2>5, <2>6, <2>7 DEF Next, Handle
<1> QED
  BY <1>1, <1>2, Invariance, PTL DEF Spec, ChosenOnce, Register!Spec
=============================================================================
