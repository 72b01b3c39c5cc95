----------------------------- MODULE WasmStore -----------------------------
(***************************************************************************)
(* What instances of WebAssembly modules promise each other: an index of   *)
(* an instance's function, table, memory or global denotes one entity,     *)
(* the one it defines or the one it was given as an import, however many   *)
(* instances that import came through.  Entities are named by the instance *)
(* that defines them and their number there; nothing is said about where   *)
(* they are in memory.                                                     *)
(***************************************************************************)
EXTENDS Integers, Sequences, SequencesExt

CONSTANTS
    Inst,       \* instances
    Module,     \* the modules there are (ModuleType of VMContext)
    None

Kind == {"func", "table", "memory", "global"}

(* The element of a sequence that has this index. *)
At(s, index) == s[index + 1]

(* The indices of a kind, and those of imports and of definitions. *)
Indices(m, kind) == 0..Len(m[kind]) - 1

NumDefined(m, kind) == Len(m[kind]) - m.num_imports[kind]

VARIABLES
    module,     \* the module an instance was made of, or None
    compiled,   \* a module linked and not instantiated yet, or None
    addrs,      \* addrs[i][kind]: what the indices of i denote, <<instance, number>>
    tables,     \* of the tables that i defines: elements, functions or << >>
    memories,   \* of the memories that i defines: pages
    globals,    \* of the globals that i defines: values
    result      \* the last operation with its arguments, and what it yielded

vars == <<module, compiled, addrs, tables, memories, globals, result>>

Live == {i \in Inst : module[i] # None}

Init ==
    /\ module = [i \in Inst |-> None]
    /\ compiled = None
    /\ addrs = [i \in Inst |-> << >>]
    /\ tables = [i \in Inst |-> << >>]
    /\ memories = [i \in Inst |-> << >>]
    /\ globals = [i \in Inst |-> << >>]
    /\ result = [op |-> << >>, is |-> << >>]

(* The operation yields r. *)
Is(r) == result'.is = r

Denoted(i, kind, index) == At(addrs[i][kind], index)

(* The declaration of an entity, in the module that defines it. *)
Declared(a, kind) ==
    LET m == module[a[1]] IN At(m[kind], m.num_imports[kind] + a[2])

SignatureOf(f) == At(module[f[1]].signatures, Declared(f, "func"))

(* Whether an entity is what an import n of m asks for. *)
Within(have, max) == max # None => (have # None /\ have <= max)

Meets(a, kind, m, n) ==
    CASE kind = "func" -> SignatureOf(a) = At(m.signatures, m.func[n])
      [] kind = "table" -> /\ m.table[n].min <= Len(At(tables[a[1]], a[2]))
                           /\ Within(Declared(a, "table").max, m.table[n].max)
      [] kind = "memory" -> /\ m.memory[n].min <= At(memories[a[1]], a[2])
                            /\ Within(Declared(a, "memory").max, m.memory[n].max)
      [] kind = "global" -> Declared(a, "global").ty = m.global[n].ty

(* Imports were found among the exports: c.from[kind][n] is the instance   *)
(* and the index there.                                                    *)
Link(c) ==
    /\ c # None
    /\ compiled = None
    /\ module[c.inst] = None
    /\ \A kind \in Kind : \A n \in 1..c.module.num_imports[kind] :
        LET from == c.from[kind][n]
        IN  /\ from[1] \in Live
            /\ Meets(Denoted(from[1], kind, from[2]), kind, c.module, n)
    /\ compiled' = c
    /\ Is(<<"ok">>)
    /\ UNCHANGED <<module, addrs, tables, memories, globals>>

(* Either every element segment fits, and then the instance exists and all *)
(* of them are written, or nothing happens.                                *)
Instantiate ==
    LET i == compiled.inst
        m == compiled.module
        here == [kind \in Kind |->
                    [n \in 1..m.num_imports[kind] |->
                        Denoted(compiled.from[kind][n][1], kind, compiled.from[kind][n][2])]
                    \o [n \in 1..NumDefined(m, kind) |-> <<i, n - 1>>]]
        value(g) == At(globals[At(here["global"], g)[1]], At(here["global"], g)[2])
        initial ==
            [n \in 1..NumDefined(m, "global") |->
                LET g == m.global[m.num_imports["global"] + n]
                IN  IF g.get = None THEN g.const ELSE value(g.get)]
        created ==
            [tables EXCEPT ![i] =
                [n \in 1..NumDefined(m, "table") |->
                    [e \in 1..m.table[m.num_imports["table"] + n].min |-> << >>]]]
        start(s) == s.offset + (IF s.base = None THEN 0 ELSE value(s.base))
        fits(s) ==
            LET t == At(here["table"], s.table)
            IN  start(s) + Len(s.funcs) <= Len(At(created[t[1]], t[2]))
        write(ts, s) ==
            LET t == At(here["table"], s.table)
            IN  [ts EXCEPT ![t[1]][t[2] + 1] =
                    [e \in DOMAIN @ |->
                        IF e - start(s) \in DOMAIN s.funcs
                        THEN At(here["func"], s.funcs[e - start(s)]) ELSE @[e]]]
    IN  /\ compiled # None
        /\ compiled' = None
        /\ IF \A n \in DOMAIN m.elements : fits(m.elements[n])
           THEN /\ module' = [module EXCEPT ![i] = m]
                /\ addrs' = [addrs EXCEPT ![i] = here]
                /\ tables' = FoldLeft(write, created, m.elements)
                /\ memories' = [memories EXCEPT ![i] =
                        [n \in 1..NumDefined(m, "memory") |->
                            m.memory[m.num_imports["memory"] + n].min]]
                /\ globals' = [globals EXCEPT ![i] = initial]
                /\ Is(<<"ok">>)
           ELSE /\ Is(<<"link error">>)
                /\ UNCHANGED <<module, addrs, tables, memories, globals>>

GlobalGet(i, index) ==
    LET g == Denoted(i, "global", index)
    IN  /\ Is(<<"num", At(globals[g[1]], g[2])>>)
        /\ UNCHANGED <<module, compiled, addrs, tables, memories, globals>>

GlobalSet(i, index, value) ==
    LET g == Denoted(i, "global", index)
    IN  /\ globals' = [globals EXCEPT ![g[1]][g[2] + 1] = value]
        /\ Is(<<"ok">>)
        /\ UNCHANGED <<module, compiled, addrs, tables, memories>>

(* Within the limits of the definition.  Growing a memory may fail for     *)
(* want of storage too.                                                    *)
MayHave(a, kind, n) == LET max == Declared(a, kind).max IN max # None => n <= max

(* The code gets the former size, or -1 (as unsigned). *)
MemoryGrow(i, index, delta) ==
    LET a == Denoted(i, "memory", index)
        pages == At(memories[a[1]], a[2])
    IN  /\ \/ /\ MayHave(a, "memory", pages + delta)
              /\ memories' = [memories EXCEPT ![a[1]][a[2] + 1] = pages + delta]
              /\ Is(<<"num", pages>>)
           \/ /\ delta > 0
              /\ Is(<<"num", -1>>)
              /\ UNCHANGED memories
        /\ UNCHANGED <<module, compiled, addrs, tables, globals>>

MemorySize(i, index) ==
    LET a == Denoted(i, "memory", index)
    IN  /\ Is(<<"num", At(memories[a[1]], a[2])>>)
        /\ UNCHANGED <<module, compiled, addrs, tables, memories, globals>>

(* A load or store in a page. *)
MemoryAccess(i, index, page) ==
    LET a == Denoted(i, "memory", index)
    IN  /\ Is(IF page < At(memories[a[1]], a[2])
              THEN <<"page", a[1], a[2], page>> ELSE <<"trap">>)
        /\ UNCHANGED <<module, compiled, addrs, tables, memories, globals>>

(* Only the body that is entered, and the instance it runs in. *)
Entered(f) == <<"enter", module[f[1]].name, f[2], f[1]>>

Call(i, index) ==
    /\ Is(Entered(Denoted(i, "func", index)))
    /\ UNCHANGED <<module, compiled, addrs, tables, memories, globals>>

CallIndirect(i, index, element, sig) ==
    LET a == Denoted(i, "table", index)
        t == At(tables[a[1]], a[2])
    IN  /\ Is(IF element >= Len(t) THEN <<"trap">>
              ELSE IF At(t, element) = << >> THEN <<"trap">>
              ELSE IF SignatureOf(At(t, element)) # At(module[i].signatures, sig) THEN <<"trap">>
              ELSE Entered(At(t, element)))
        /\ UNCHANGED <<module, compiled, addrs, tables, memories, globals>>

(* What the host does through an export of i; a function it gives is       *)
(* itself an export, or null.                                              *)
TableGet(i, index, element) ==
    LET a == Denoted(i, "table", index)
        t == At(tables[a[1]], a[2])
    IN  /\ Is(IF element >= Len(t) THEN <<"null">>
              ELSE IF At(t, element) = << >> THEN <<"null">>
              ELSE Entered(At(t, element)))
        /\ UNCHANGED <<module, compiled, addrs, tables, memories, globals>>

Given(f) == IF f = << >> THEN << >> ELSE Denoted(f[1], "func", f[2])

TableSet(i, index, element, f) ==
    LET a == Denoted(i, "table", index)
    IN  /\ IF element < Len(At(tables[a[1]], a[2]))
           THEN /\ tables' = [tables EXCEPT ![a[1]][a[2] + 1][element + 1] = Given(f)]
                /\ Is(<<"ok">>)
           ELSE Is(<<"error">>) /\ UNCHANGED tables
        /\ UNCHANGED <<module, compiled, addrs, memories, globals>>

TableGrow(i, index, delta, f) ==
    LET a == Denoted(i, "table", index)
        t == At(tables[a[1]], a[2])
    IN  /\ IF MayHave(a, "table", Len(t) + delta)
           THEN /\ tables' = [tables EXCEPT ![a[1]][a[2] + 1] =
                                    t \o [n \in 1..delta |-> Given(f)]]
                /\ Is(<<"ok">>)
           ELSE Is(<<"error">>) /\ UNCHANGED tables
        /\ UNCHANGED <<module, compiled, addrs, memories, globals>>

(* result says which operation was asked for. *)
Step(op) ==
    \/ op[1] = "link" /\ Link(compiled')
    \/ op[1] = "instantiate" /\ Instantiate
    \/ /\ op[1] \notin {"link", "instantiate"}
       /\ op[2] \in Live
       /\ CASE op[1] = "global.get" -> GlobalGet(op[2], op[3])
            [] op[1] = "global.set" -> GlobalSet(op[2], op[3], op[4])
            [] op[1] = "memory.size" -> MemorySize(op[2], op[3])
            [] op[1] = "memory.grow" -> MemoryGrow(op[2], op[3], op[4])
            [] op[1] = "memory" -> MemoryAccess(op[2], op[3], op[4])
            [] op[1] = "call" -> Call(op[2], op[3])
            [] op[1] = "call_indirect" -> CallIndirect(op[2], op[3], op[4], op[5])
            [] op[1] = "table.get" -> TableGet(op[2], op[3], op[4])
            [] op[1] = "table.set" -> TableSet(op[2], op[3], op[4], op[5])
            [] op[1] = "table.grow" -> TableGrow(op[2], op[3], op[4], op[5])

Next == Step(result'.op)

Spec == Init /\ [][Next]_vars
=============================================================================
