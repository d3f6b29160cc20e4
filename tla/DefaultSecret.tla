--------------------------- MODULE DefaultSecret ---------------------------
(***************************************************************************)
(* The default secret of internal/utils/secrets.go: the Secret "default"   *)
(* in the operator's namespace, under which the IPAM API holds the         *)
(* addresses of every Service that names no secret of its own.             *)
(*                                                                         *)
(* Nobody creates it beforehand.  Every handler looks it up through the    *)
(* informer cache of its process, and a handler that does not see it draws *)
(* a random value and creates an immutable Secret.  Handlers run at once,  *)
(* in the same process and, while a new version is rolled out, in two; a   *)
(* cache may still miss a Secret that exists, the one its own process has  *)
(* just created included.                                                  *)
(*                                                                         *)
(* A definition placed before another one and named for a slip             *)
(* (CreateOverwrites, CreateAdopts, ...) is a variant of it that nothing   *)
(* uses: with it, one of the properties fails.                             *)
(***************************************************************************)
EXTENDS Naturals

CONSTANTS Handlers,   \* handlers that may be running at once
          Processes,  \* processes of the operator
          Values,     \* random values
          MaxFaults   \* bound: failed calls and restarts

NoSecret == "no secret"
ASSUME SecretAssumption == NoSecret \notin Values /\ MaxFaults \in Nat

VARIABLES secret,  \* the value of the default secret in the API server
          cache,   \* the same as each process's informer cache has it
          call,    \* each handler's lookup
          faults   \* faults so far

vars == <<secret, cache, call, faults>>
----------------------------------------------------------------------------
\* A lookup creates the secret with value, or holds one of this value.
Lookup == [pc : {"idle", "denied"}]
            \cup [pc : {"creating", "holding"}, process : Processes, value : Values]

Idle == [pc |-> "idle"]
Denied == [pc |-> "denied"]
Goes(h, next) == call' = [call EXCEPT ![h] = next]
Holding(h) == [call[h] EXCEPT !.pc = "holding"]

Init == /\ secret = NoSecret
        /\ cache = [p \in Processes |-> NoSecret]
        /\ call = [h \in Handlers |-> Idle]
        /\ faults = 0

GetTrusting(h, p) ==
  /\ call[h].pc = "idle"
  /\ Goes(h, [pc |-> "holding", process |-> p, value |-> cache[p]])
  /\ UNCHANGED <<secret, cache, faults>>
GetAlwaysCreates(h, p) ==
  /\ call[h].pc = "idle"
  /\ \E v \in Values : Goes(h, [pc |-> "creating", process |-> p, value |-> v])
  /\ UNCHANGED <<secret, cache, faults>>
Get(h, p) ==
  /\ call[h].pc = "idle"
  /\ \/ /\ cache[p] # NoSecret
        /\ Goes(h, [pc |-> "holding", process |-> p, value |-> cache[p]])
     \/ /\ cache[p] = NoSecret
        /\ \E v \in Values : Goes(h, [pc |-> "creating", process |-> p, value |-> v])
  /\ UNCHANGED <<secret, cache, faults>>

\* Any error denies the request, "already exists" included.
CreateOverwrites(h) ==
  /\ call[h].pc = "creating"
  /\ secret' = call[h].value /\ Goes(h, Holding(h))
  /\ UNCHANGED <<cache, faults>>
CreateAdopts(h) ==
  /\ call[h].pc = "creating"
  /\ secret' = (IF secret = NoSecret THEN call[h].value ELSE secret)
  /\ Goes(h, Holding(h))
  /\ UNCHANGED <<cache, faults>>
Create(h) ==
  /\ call[h].pc = "creating"
  /\ \/ secret = NoSecret /\ secret' = call[h].value /\ Goes(h, Holding(h))
     \/ secret # NoSecret /\ Goes(h, Denied) /\ UNCHANGED secret
  /\ UNCHANGED <<cache, faults>>

\* The call to the API server fails, before or after its effect.
CreateFails(h) ==
  /\ call[h].pc = "creating"
  /\ faults < MaxFaults /\ faults' = faults + 1
  /\ \/ UNCHANGED secret
     \/ secret = NoSecret /\ secret' = call[h].value
  /\ Goes(h, Denied)
  /\ UNCHANGED cache

\* The handler has gone on with the secret, or has denied its request.
Return(h) == /\ call[h].pc \in {"holding", "denied"}
             /\ Goes(h, Idle)
             /\ UNCHANGED <<secret, cache, faults>>

Sync(p) == /\ cache[p] # secret
           /\ cache' = [cache EXCEPT ![p] = secret]
           /\ UNCHANGED <<secret, call, faults>>

\* A process ends and starts again; the cache it lists may lag behind again.
Restart(p) ==
  /\ faults < MaxFaults /\ faults' = faults + 1
  /\ call' = [h \in Handlers |->
                IF call[h].pc \in {"creating", "holding"} /\ call[h].process = p
                  THEN Idle ELSE call[h]]
  /\ \E seen \in {NoSecret, secret} : cache' = [cache EXCEPT ![p] = seen]
  /\ UNCHANGED secret

Handle(h) == Create(h) \/ Return(h)
Next == \/ \E h \in Handlers, p \in Processes : Get(h, p)
        \/ \E h \in Handlers : Handle(h) \/ CreateFails(h)
        \/ \E p \in Processes : Sync(p) \/ Restart(p)

Spec == Init /\ [][Next]_vars
FairSpec == /\ Spec
            /\ \A h \in Handlers : WF_vars(Handle(h))
            /\ \A p \in Processes : WF_vars(Sync(p))
----------------------------------------------------------------------------
(* Every variable stays in its type; in particular a lookup that goes on
   has a value (GetDefaultSecret returns no empty Secret without an error). *)
SecretTypeOK ==
  /\ secret \in Values \cup {NoSecret}
  /\ cache \in [Processes -> Values \cup {NoSecret}]
  /\ call \in [Handlers -> Lookup]
  /\ faults \in 0..MaxFaults

(* Every handler that goes on has the secret the API server stores, so all
   agree on it: an address registered by one handler can be released by any
   other, although several may have drawn a value of their own. *)
Agreement == \A h \in Handlers : call[h].pc = "holding" => call[h].value = secret

(* GetDefaultSecret implements a value that is chosen once: whichever calls
   race, fail, or take effect unheard, and however stale the caches are. *)
Learned == [h \in Handlers |-> IF call[h].pc = "holding" THEN call[h].value ELSE NoSecret]
Register == INSTANCE WriteOnce WITH Readers <- Handlers, NoValue <- NoSecret,
                                    chosen <- secret, learned <- Learned
ChosenOnce == Register!Spec

(* A request may be denied because another one is creating the secret, or
   because the cache does not have it yet; but this ends: from some time on
   no request is denied for the default secret. *)
DenialsEnd == <>[](\A h \in Handlers : call[h].pc # "denied")
=============================================================================
