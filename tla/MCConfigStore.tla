------------------------------ MODULE MCConfigStore ------------------------------
(***************************************************************************)
(* ConfigStore with a few interchangeable editors.                         *)
(***************************************************************************)
EXTENDS ConfigStore, TLC

MCSymmetry == Permutations(Editors)
==================================================================================
