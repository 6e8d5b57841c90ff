------------------------------ MODULE MCPopulate ------------------------------
(***************************************************************************)
(* A few blocks, committed two by two, for Populate.                       *)
(***************************************************************************)
EXTENDS Populate

\* SYNC_END_HEIGHT is not set.
ToTheLatest == -1

AnyFault == Points
=============================================================================
