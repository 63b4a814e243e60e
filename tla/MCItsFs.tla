------------------------------ MODULE MCItsFs ------------------------------
(* Small file systems for TLC.                                             *)
EXTENDS ItsFlashFs, TLC

FsSymmetry == Permutations(Fids) \cup Permutations(Vals)
=============================================================================
