-------------------------- MODULE MCPerCaseWorker ---------------------------
(* Small instances of PerCaseWorker for TLC.                                *)
EXTENDS PerCaseWorker

=============================================================================
