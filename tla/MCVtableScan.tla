----------------------------- MODULE MCVtableScan -----------------------------
(***************************************************************************)
(* Classes are interchangeable: nothing in VtableScan orders them.         *)
(***************************************************************************)
EXTENDS VtableScan, TLC

ClassSymmetry == Permutations(Class)
=============================================================================
