----------------------------- MODULE MCFdTable -----------------------------
(* One standard descriptor, one preopened directory, two callers, and two *)
(* more objects: the table grows from 2 to 4 to 8 slots.                  *)
EXTENDS FdTable, TLC

P(base, inheriting) == [base |-> base, inheriting |-> inheriting]

MCRight == {"open", "io", "sock"}

(* As in rights.h: a directory hands down its own rights and a file's, and *)
(* a device may be used for anything.                                      *)
MCTypeRights ==
    [dir |-> P({"open"}, {"open", "io"}), device |-> P(MCRight, MCRight)]

MCRequests == {P({"open"}, {"io"}), P({"io"}, {"sock"})}

Symmetry == Permutations(Thread) \cup Permutations(Object)
=============================================================================
