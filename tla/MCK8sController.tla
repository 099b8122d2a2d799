-------------------------- MODULE MCK8sController --------------------------
(* Small instances of K8sController for TLC. *)
EXTENDS K8sController, TLC

WorkerSymmetry == Permutations(Workers)

=============================================================================
