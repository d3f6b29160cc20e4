---------------------------- MODULE AtomicPools ----------------------------
(***************************************************************************)
(* What the pool manager promises to the handlers: the addresses of each   *)
(* zone are a set, and an operation that was begun takes effect on it at   *)
(* most once, in one step, exactly and entirely, whatever other handlers   *)
(* do in the meantime.  An operation that answers success did take effect. *)
(* An error leaves open whether it did: the step that takes effect may     *)
(* answer it too, when the API server's own answer was lost.  Once         *)
(* answered, it is over.  A removal that leaves nothing of what it had     *)
(* read deletes the pool as it is then, with what was added since.         *)
(***************************************************************************)
CONSTANTS Callers, Zones, Addrs

VARIABLES served,  \* the addresses MetalLB may announce in each zone
          op       \* each caller's operation, begun or ended

Init == /\ served = [z \in Zones |-> {}]
        /\ op = [c \in Callers |-> [kind |-> "none"]]

Becomes(c, next) == op' = [op EXCEPT ![c] = next]
Serve(z, A) == served' = [served EXCEPT ![z] = A]

\* How an operation that takes effect ends.
Answers(c) == \E kind \in {"ok", "error"} : Becomes(c, [kind |-> kind])

Begin(c) == /\ op[c].kind \in {"none", "ok", "error"}
            /\ \E kind \in {"add", "select"}, z \in Zones, A \in SUBSET Addrs :
                 Becomes(c, [kind |-> kind, zone |-> z, addrs |-> A])
            /\ UNCHANGED served

\* A removal settles on which of its addresses it will take out.
Select(c) == /\ op[c].kind = "select"
             /\ \E A \in SUBSET op[c].addrs :
                  Becomes(c, [kind |-> "remove", zone |-> op[c].zone, addrs |-> A])
             /\ UNCHANGED served

Add(c) == /\ op[c].kind = "add"
          /\ Serve(op[c].zone, served[op[c].zone] \cup op[c].addrs)
          /\ Answers(c)

Remove(c) == /\ op[c].kind = "remove"
             /\ Serve(op[c].zone, served[op[c].zone] \ op[c].addrs)
             /\ Answers(c)

Clear(c) == /\ op[c].kind = "remove"
            /\ Serve(op[c].zone, {})
            /\ Answers(c)

\* Before it began (a removal finds no pool), or on the way, without effect.
Fail(c) == Becomes(c, [kind |-> "error"]) /\ UNCHANGED served

Next == \E c \in Callers : Begin(c) \/ Select(c) \/ Add(c) \/ Remove(c) \/ Clear(c) \/ Fail(c)

Spec == Init /\ [][Next]_<<served, op>>
=============================================================================
