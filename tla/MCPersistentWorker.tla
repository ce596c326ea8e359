------------------------- MODULE MCPersistentWorker -------------------------
(* Small instances of PersistentWorker for TLC.                             *)
EXTENDS PersistentWorker

=============================================================================
