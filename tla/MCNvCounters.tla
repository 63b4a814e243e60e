---------------------------- MODULE MCNvCounters ----------------------------
(* Instances of the NV counters for TLC.                                   *)
EXTENDS NvCountersFlash

(* Item i is in sector i, the last ones in the last sector.                *)
InOrder == [i \in Items |-> IF i < NumSectors THEN i ELSE NumSectors]

=============================================================================
