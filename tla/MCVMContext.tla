---------------------------- MODULE MCVMContext ----------------------------
EXTENDS VMContext

NumImports(f, t, m, g) == [func |-> f, table |-> t, memory |-> m, global |-> g]
L(min, max) == [min |-> min, max |-> max]
G(ty, const, get) == [ty |-> ty, const |-> const, get |-> get]
S(base, offset, funcs) == [table |-> 0, base |-> base, offset |-> offset, funcs |-> funcs]

(* Defines everything; its memory is dynamic. *)
Lib == [name |-> "lib", num_imports |-> NumImports(0, 0, 0, 0), signatures |-> <<"s", "t">>,
        func |-> <<0, 1>>, table |-> <<L(1, 2)>>, memory |-> <<L(1, None)>>,
        global |-> <<G(4, 1, None)>>, elements |-> <<S(None, 0, <<1>>)>>]

(* Defines a static memory and, before the others, a wide global. *)
Fixed == [name |-> "fixed", num_imports |-> NumImports(0, 0, 0, 0), signatures |-> << >>,
          func |-> << >>, table |-> << >>, memory |-> <<L(1, 2)>>,
          global |-> <<G(16, 2, None), G(4, 0, None)>>, elements |-> << >>]

(* Imports and re-exports everything, and adds a function and a global. *)
Mid == [name |-> "mid", num_imports |-> NumImports(1, 1, 1, 1), signatures |-> <<"t", "u", "s">>,
        func |-> <<0, 2>>, table |-> <<L(1, None)>>, memory |-> <<L(1, None)>>,
        global |-> <<G(4, 0, None), G(4, 0, 0)>>, elements |-> <<S(0, 0, <<1>>)>>]

(* Needs a memory with a maximum, so that its code has no bounds checks. *)
User == [name |-> "user", num_imports |-> NumImports(0, 0, 1, 0), signatures |-> <<"s">>,
         func |-> <<0>>, table |-> << >>, memory |-> <<L(1, 2)>>,
         global |-> << >>, elements |-> << >>]

MCModule == {Lib, Fixed, Mid, User}
=============================================================================
