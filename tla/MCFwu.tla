------------------------------- MODULE MCFwu -------------------------------
(* Instances of the firmware update service for TLC.                       *)
EXTENDS FwuService

(* The image of component 0 depends on those of all others, and that of    *)
(* the last component on component 0.                                      *)
NeedsCycle == [c \in Comps |-> IF c = 0 THEN Comps \ {0}
                               ELSE IF c = NumComps - 1 THEN {0} ELSE {}]

=============================================================================
