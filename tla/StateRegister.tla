------------------------------ MODULE StateRegister ------------------------------
(***************************************************************************)
(* What a state file promises (updateJsonLocked of src/src/json-file.ts):      *)
(* every update is applied to the value it finds, whole, and none is lost.     *)
(***************************************************************************)
EXTENDS Naturals

CONSTANT Context

VARIABLE value   \* how many updates of each context the file has

Init == value = [c \in Context |-> 0]
Update(c) == value' = [value EXCEPT ![c] = @ + 1]
Next == \E c \in Context : Update(c)
Spec == Init /\ [][Next]_value
=============================================================================
