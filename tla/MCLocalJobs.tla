----------------------------- MODULE MCLocalJobs -----------------------------
(* Small instances of LocalJobs for TLC.                                    *)
EXTENDS LocalJobs

CONSTANTS j1, j2, d1

TwoJobs   == {j1, j2}
OneDirect == {d1}

=============================================================================
