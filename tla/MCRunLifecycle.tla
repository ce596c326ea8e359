--------------------------- MODULE MCRunLifecycle ---------------------------
(* Small instances of RunLifecycle for TLC.                                *)
EXTENDS RunLifecycle

CONSTANTS p1, p2, c1, c2

OneProcess   == {p1}
TwoProcesses == {p1, p2}
OneCase      == {c1}
TwoCases     == {c1, c2}

=============================================================================
