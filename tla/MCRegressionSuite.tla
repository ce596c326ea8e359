------------------------- MODULE MCRegressionSuite --------------------------
(* Small instances of RegressionSuite for TLC.                              *)
EXTENDS RegressionSuite

CONSTANTS c1, q1

OneCase    == {c1}
OneRequest == {q1}

=============================================================================
