------------------------------- MODULE MCShortNames -------------------------------
(***************************************************************************)
(* ShortNames for two guards and two keys.                                *)
(***************************************************************************)
EXTENDS ShortNames
==================================================================================
