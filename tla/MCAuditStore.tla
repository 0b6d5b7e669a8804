--------------------------- MODULE MCAuditStore ----------------------------
(***************************************************************************)
(* The instances of AuditStore: the numbers are in the .cfg files.         *)
(***************************************************************************)
EXTENDS AuditStore

=============================================================================
