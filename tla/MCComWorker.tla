----------------------------- MODULE MCComWorker -----------------------------
(***************************************************************************)
(* Model-checking instance of ComWorker. Callers are interchangeable: no   *)
(* action or safety property names one of them. The run of the liveness    *)
(* properties does not use the symmetry.                                   *)
(***************************************************************************)
EXTENDS ComWorker, TLC

CallerSymmetry == Permutations(Callers)

=============================================================================
