----------------------------- MODULE MCFlusher -----------------------------
(* Model-checking instances of Flusher: the sets of projects and threads    *)
(* and the bounds are given in the .cfg files.                              *)
EXTENDS FlusherSafety
=============================================================================
