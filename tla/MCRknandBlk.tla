---------------------------- MODULE MCRknandBlk ----------------------------
(***************************************************************************)
(* Instances of RknandBlk for TLC.                                         *)
(***************************************************************************)
EXTENDS RknandBlk, TLC

Symmetry == Permutations(Submitters)
=============================================================================
