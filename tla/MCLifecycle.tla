---------------------------- MODULE MCLifecycle ----------------------------
(* Model-checking instances of Lifecycle.                                   *)
EXTENDS Lifecycle, TLC

CONSTANTS d1, d2, c1, c2
=============================================================================
