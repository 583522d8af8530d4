---------------------------- MODULE MCWorkerPool ----------------------------
(***************************************************************************)
(* Instances of WorkerPool for TLC.                                        *)
(***************************************************************************)
EXTENDS WorkerPool, TLC

JobSymmetry == Permutations(Jobs) \cup Permutations(Workers)

=============================================================================
