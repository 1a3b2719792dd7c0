----------------------------- MODULE MCMergeGate -------------------------------
(***************************************************************************)
(* The gate on a small instance: a reviewer, who may also be the author,   *)
(* and a developer.                                                        *)
(***************************************************************************)
EXTENDS MergeGate

CONSTANTS rev, dev

===============================================================================
