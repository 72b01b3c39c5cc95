------------------------------ MODULE MCTraps ------------------------------
(* Two threads, each with its compiler, whose mappings may have each other's *)
(* addresses one after the other.                                            *)
EXTENDS Traps, TLC

MCTrap == [t \in Thread |-> {t}]

Symmetry == Permutations(Thread) \cup Permutations(Map)
=============================================================================
