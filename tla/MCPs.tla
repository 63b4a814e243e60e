-------------------------------- MODULE MCPs --------------------------------
(* Protected Storage implements the store of objects.                      *)
EXTENDS PsObjectTable, TLC

PsSymmetry == Permutations(Uids) \cup Permutations(Vals)

=============================================================================
