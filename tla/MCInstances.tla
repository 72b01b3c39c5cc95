---------------------------- MODULE MCInstances ----------------------------
(* A module that defines everything, one that imports and re-exports       *)
(* everything, one with an unlimited table that re-exports a global, one   *)
(* whose element segments fit only a table that has grown, one whose data  *)
(* segment never fits, and one whose start function traps.                 *)
EXTENDS Instances, TLC

S(at, len) == [at |-> at, len |-> len]

M(imported, n, exported, min, max, elements, data, start) ==
    [from |-> [k \in Kind |-> IF k \in imported THEN n ELSE None], exports |-> exported,
     min |-> min, max |-> max, elements |-> elements, data |-> data, start |-> start]

MCModule ==
    { M({}, None, Kind, 1, 2, << >>, << >>, "none"),
      M(Kind, "n1", Kind, 1, None, <<S(0, 1)>>, <<S(1, 1)>>, "returns"),
      M({"global"}, "n2", {"global", "table"}, 1, None, << >>, <<S(0, 1)>>, "none"),
      M({"table"}, "n1", {"func", "table"}, 1, 2, <<S(0, 1), S(1, 1)>>, << >>, "none"),
      M({"table", "func"}, "n1", {}, 1, None, <<S(0, 1)>>, <<S(1, 2)>>, "none"),
      M({"global"}, "n1", {"func"}, 0, None, << >>, << >>, "traps") }

Symmetry == Permutations(Inst)
=============================================================================
