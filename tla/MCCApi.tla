------------------------------- MODULE MCCApi ------------------------------
(***************************************************************************)
(* A client that makes a few things of a few kinds, one combination of     *)
(* kinds after the other: bounds are by kind, so that the combinations add *)
(* up where they would multiply in one large bound.                        *)
(***************************************************************************)
EXTENDS CApi

Bound(b, o, s) ==
    [boxes |-> [k \in Kinds |-> IF k \in DOMAIN b THEN b[k] ELSE 0],
     objects |-> [k \in Objects |-> IF k \in DOMAIN o THEN o[k] ELSE 1],
     shapes |-> s]

InfoSymmetry == Permutations(Info)

Core == [engine |-> 1, store |-> 1]
Instances == [module |-> 1, instance |-> 1, vec |-> 1] @@ Core
Shape(i, e, s) == [import |-> i, export |-> e, start |-> s]

MCBounds == {
    (* Start functions, callbacks that call and trap *)
    Bound([func |-> 1, extern |-> 1, trap |-> 1, module |-> 1, instance |-> 1] @@ Core,
          [inst |-> 2, trap |-> 2], {Shape("func", None, TRUE)}),
    Bound([trap |-> 2, bytes |-> 1, vec |-> 1], <<>>, {}),
    (* Exported functions that import a function of the client's *)
    Bound([func |-> 2, extern |-> 2] @@ Instances, [inst |-> 3, func |-> 2], {Shape("func", "func", FALSE)}),
    Bound([func |-> 2, extern |-> 2] @@ Instances, [inst |-> 2, func |-> 3], {Shape("func", "import", FALSE)}),
    (* Functions in tables: the client's, and an instance's *)
    Bound([table |-> 1, func |-> 1, ref |-> 2] @@ Core, [inst |-> 2, func |-> 2, anyref |-> 2], {}),
    Bound([table |-> 1, func |-> 1, ref |-> 1, extern |-> 1] @@ Instances, [inst |-> 2],
          {Shape(None, "func", FALSE)}),
    (* Imported, exported and re-exported globals, tables and memories *)
    Bound([global |-> 2, extern |-> 2] @@ Instances, [inst |-> 2, global |-> 2], {Shape("global", "import", FALSE)}),
    Bound([global |-> 1, extern |-> 1] @@ Instances, [inst |-> 2], {Shape(None, "global", FALSE)}),
    Bound([table |-> 2, extern |-> 1] @@ Instances, [inst |-> 2, table |-> 2], {Shape("table", "import", FALSE)}),
    Bound([table |-> 1, extern |-> 1] @@ Instances, [inst |-> 2], {Shape(None, "table", FALSE)}),
    Bound([memory |-> 2, extern |-> 1] @@ Instances, [inst |-> 2, memory |-> 2], {Shape("memory", "import", FALSE)}),
    (* Types *)
    Bound([valtype |-> 2, vec |-> 2, functype |-> 1], <<>>, {}),
    Bound([valtype |-> 2, globaltype |-> 1, tabletype |-> 1, memorytype |-> 1, limits |-> 1], <<>>, {}),
    Bound([module |-> 1, vec |-> 1, importtype |-> 1, exporttype |-> 1, externtype |-> 1, bytes |-> 1,
           functype |-> 1, globaltype |-> 1, tabletype |-> 1, memorytype |-> 1] @@ Core,
          <<>>, {Shape(k, "import", FALSE) : k \in External})}
=============================================================================
