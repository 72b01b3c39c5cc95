---------------------------- MODULE MCModuleCache ----------------------------
(* Two processes and one module. *)
EXTENDS ModuleCache, TLC

Symmetry == Permutations(Proc)
=============================================================================
