--------------------------- MODULE MCLinearMemory ---------------------------
(* A memory of at most four pages; host memories are static up to three *)
(* pages, compiled ones up to two; two modules import the memory.       *)
EXTENDS LinearMemory

MCDefault == [bound |-> 3, static_guard |-> 3, dynamic_guard |-> 1]
MCTarget == [bound |-> 2, static_guard |-> 2, dynamic_guard |-> 1]
=============================================================================
