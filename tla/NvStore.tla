------------------------------ MODULE NvStore ------------------------------
(***************************************************************************)
(* External: what the users of the NV counters rely on.  A counter is set  *)
(* in one step, it never decreases, and nothing else changes it, whenever  *)
(* the power fails.  The store exists from the first boot on.              *)
(***************************************************************************)
EXTENDS Naturals
CONSTANTS Items, MaxValue
VARIABLES
    exists,
    value

Create == ~exists /\ exists' /\ value' = [i \in Items |-> 0]

Set(i, v) ==
    /\ exists /\ exists'
    /\ v >= value[i]
    /\ value' = [value EXCEPT ![i] = v]

Init == ~exists /\ value = [i \in Items |-> 0]
Next == Create \/ \E i \in Items, v \in 0 .. MaxValue : Set(i, v)
Spec == Init /\ [][Next]_<<exists, value>>

=============================================================================
