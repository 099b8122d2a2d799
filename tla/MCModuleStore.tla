---------------------------- MODULE MCModuleStore ----------------------------
(* Small instances of ModuleStore for TLC. *)
EXTENDS ModuleStore, TLC

Symmetry == Permutations(Procs) \cup Permutations(Revs)
=============================================================================
