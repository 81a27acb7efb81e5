------------------------------- MODULE MCAuditLog -------------------------------
(***************************************************************************)
(* AuditLog with few writers and small files.                              *)
(***************************************************************************)
EXTENDS AuditLog
=================================================================================
