----------------------------- MODULE WriteOnce -----------------------------
(***************************************************************************)
(* A value that is chosen once and never changes, and readers who learn    *)
(* nothing but this value: what the default secret promises to the         *)
(* handlers that ask for it (see DefaultSecret).                           *)
(***************************************************************************)
CONSTANTS Readers, Values, NoValue

VARIABLES chosen,   \* the value, or NoValue while none is chosen
          learned   \* what each reader knows, or NoValue

Init == /\ chosen = NoValue
        /\ learned = [r \in Readers |-> NoValue]

\* The reader whose value is chosen may learn it at once, or never.
Choose(v) == /\ chosen = NoValue
             /\ chosen' = v
             /\ \/ UNCHANGED learned
                \/ \E r \in Readers : learned' = [learned EXCEPT ![r] = v]

Learn(r) == /\ chosen # NoValue
            /\ learned' = [learned EXCEPT ![r] = chosen]
            /\ UNCHANGED chosen

Forget(R) == /\ learned' = [r \in Readers |-> IF r \in R THEN NoValue ELSE learned[r]]
             /\ UNCHANGED chosen

Next == \/ \E v \in Values : Choose(v)
        \/ \E r \in Readers : Learn(r)
        \/ \E R \in SUBSET Readers : Forget(R)

Spec == Init /\ [][Next]_<<chosen, learned>>
=============================================================================
