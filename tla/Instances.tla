----------------------------- MODULE Instances -----------------------------
(***************************************************************************)
(* Instances of modules, and what keeps them in memory.  A module is       *)
(* linked when it is compiled, against the instances that the namespace    *)
(* has names for; the compiled module, and every instance made of it, hold *)
(* counted handles (dependencies) to the instances they import from, and   *)
(* plain pointers to what they import.  InstanceHandle::new initializes    *)
(* tables and memories that may be another instance's, and then runs the   *)
(* start function.                                                         *)
(*                                                                         *)
(* An instance has one function, one table, one memory and one global,     *)
(* each of them its own or imported.  Operations are not concurrent, but   *)
(* an instantiation may fail at several points and dropping one handle may *)
(* drop others, so each of those goes in steps.  instantiate(), which      *)
(* compiles for one instance only, is compile_module, instantiate and      *)
(* drop_compiled_module.                                                   *)
(***************************************************************************)
EXTENDS Naturals, Sequences, FiniteSets

CONSTANTS
    Inst,          \* instances, by the address of their VMContext
    Compiled,      \* compiled modules the host may have at a time
    Name,          \* names in the Namespace
    Module,        \* the modules there are (see ModuleType)
    MemorySize,    \* the size of every memory
    MaxHandles,    \* bound: handles the host has to one instance
    MaxTable,      \* bound: elements of a table
    None

Kind == {"func", "table", "memory", "global"}

(* Where an element segment or a data segment goes. *)
Segment == [at : Nat, len : Nat]

ModuleType ==
    [from : [Kind -> Name \cup {None}],      \* None: defined, not imported
     exports : SUBSET Kind,
     min : Nat, max : Nat \cup {None},       \* of the table, own or imported
     elements : Seq(Segment), data : Seq(Segment),
     start : {"none", "returns", "traps"}]

ASSUME InstancesAssumption ==
    /\ Module \subseteq ModuleType
    /\ \A m \in Module : m.max # None => m.min <= m.max
    /\ {MemorySize, MaxHandles, MaxTable} \subseteq Nat
    /\ None \notin Inst \cup Name \cup Nat

VARIABLES
    state,      \* of every instance: "none", "new", "live", "leaked", "freed"
    module,     \* the module it was made of
    def,        \* def[i][k]: the instance that defines what i has as its k
    deps,       \* Instance::dependencies
    refcount,   \* Instance::refcount
    table,      \* of the table that i defines: who initialized each element
    vmtable,    \* the VMTableDefinition compiled code reads: current_elements
    memory,     \* of the memory that i defines: who initialized each part
    compiled,   \* CompiledModule, each with its Imports
    names,      \* Namespace::names
    global_exports, \* by field: nothing, one Export, or None for several
    host,       \* the number of handles the host has
    dropping,   \* the number of handles that are being dropped
    building    \* the instantiation in progress

vars == <<state, module, def, deps, refcount, table, vmtable, memory,
          compiled, names, global_exports, host, dropping, building>>

Alive == {i \in Inst : state[i] \notin {"none", "freed"}}

(* Nothing else happens while a handle is dropped or a module instantiated. *)
Ready == building = None /\ \A i \in Inst : dropping[i] = 0

Init ==
    /\ state = [i \in Inst |-> "none"]
    /\ module = [i \in Inst |-> None]
    /\ def = [i \in Inst |-> [k \in Kind |-> None]]
    /\ deps = [i \in Inst |-> {}]
    /\ refcount = [i \in Inst |-> 0]
    /\ table = [i \in Inst |-> << >>]
    /\ vmtable = [i \in Inst |-> 0]
    /\ memory = [i \in Inst |-> << >>]
    /\ compiled = [c \in Compiled |-> None]
    /\ names = [n \in Name |-> None]
    /\ global_exports = [k \in Kind |-> "vacant"]
    /\ host = [i \in Inst |-> 0]
    /\ dropping = [i \in Inst |-> 0]
    /\ building = None

(* The refcounts after one more handle to each instance of a set. *)
Acquired(is) == [i \in Inst |-> IF i \in is THEN refcount[i] + 1 ELSE refcount[i]]

-----------------------------------------------------------------------------
(* Linking *)

(* is_table_compatible, of the plan exported and the plan imported. *)
is_table_compatible(e, m) ==
    /\ m.min <= e.min
    /\ m.max # None => e.max # None /\ m.max >= e.max

(* Namespace::resolve and link_module's checks of one import. *)
Resolves(m, k) ==
    LET j == names[m.from[k]]
    IN  /\ j # None
        /\ k \in module[j].exports
        /\ k = "table" => is_table_compatible(module[j], m)

(* lookup_by_declaration: a re-exported function, table or memory comes with *)
(* the vmctx of its definer, a re-exported global with the re-exporter's.    *)
ExportedVmctx(j, k) == IF k = "global" THEN j ELSE def[j][k]

(* link_module: the imports, and handles to the instances they came with. *)
link_module(m) ==
    LET imported == {k \in Kind : m.from[k] # None}
    IN  [module |-> m,
         def |-> [k \in Kind |-> IF k \in imported THEN def[names[m.from[k]]][k] ELSE None],
         deps |-> {ExportedVmctx(names[m.from[k]], k) : k \in imported}]

(* A module that does not link is a LinkError, and nothing has happened. *)
compile_module(c, m) ==
    LET imports == link_module(m)
    IN  /\ Ready
        /\ compiled[c] = None
        /\ \A k \in Kind : m.from[k] # None => Resolves(m, k)
        /\ compiled' = [compiled EXCEPT ![c] = imports]
        /\ refcount' = Acquired(imports.deps)
        /\ UNCHANGED <<state, module, def, deps, table, vmtable, memory, names,
                       global_exports, host, dropping, building>>

-----------------------------------------------------------------------------
(* InstanceHandle::new *)

(* Mutant: the imports are copied without their handles. *)
NewWithoutDependencies(c, i) ==
    LET m == compiled[c].module
    IN  /\ Ready
        /\ compiled[c] # None
        /\ state[i] = "none"
        /\ state' = [state EXCEPT ![i] = "new"]
        /\ module' = [module EXCEPT ![i] = m]
        /\ def' = [def EXCEPT ![i] = [k \in Kind |->
                      IF m.from[k] = None THEN i ELSE compiled[c].def[k]]]
        /\ refcount' = [refcount EXCEPT ![i] = 1]
        /\ table' = [table EXCEPT ![i] = [x \in 1 .. m.min |-> None]]
        /\ vmtable' = [vmtable EXCEPT ![i] = m.min]
        /\ memory' = [memory EXCEPT ![i] = [x \in 1 .. MemorySize |-> None]]
        /\ building' = [inst |-> i, pc |-> "check", done |-> 0]
        /\ UNCHANGED <<deps, compiled, names, global_exports, host, dropping>>

(* The instance with its own table and memory, its imports and a copy of the *)
(* handles; so far nobody has a handle to it, but it counts one.             *)
instantiate(c, i) ==
    LET m == compiled[c].module
    IN  /\ Ready
        /\ compiled[c] # None
        /\ state[i] = "none"
        /\ state' = [state EXCEPT ![i] = "new"]
        /\ module' = [module EXCEPT ![i] = m]
        /\ def' = [def EXCEPT ![i] = [k \in Kind |->
                      IF m.from[k] = None THEN i ELSE compiled[c].def[k]]]
        /\ deps' = [deps EXCEPT ![i] = compiled[c].deps]
        /\ refcount' = [Acquired(compiled[c].deps) EXCEPT ![i] = 1]
        /\ table' = [table EXCEPT ![i] = [x \in 1 .. m.min |-> None]]
        /\ vmtable' = [vmtable EXCEPT ![i] = m.min]
        /\ memory' = [memory EXCEPT ![i] = [x \in 1 .. MemorySize |-> None]]
        /\ building' = [inst |-> i, pc |-> "check", done |-> 0]
        /\ UNCHANGED <<compiled, names, global_exports, host, dropping>>

At(pc) == building # None /\ building.pc = pc /\ \A i \in Inst : dropping[i] = 0

(* An error of InstanceHandle::new: what was allocated stays, with the one *)
(* reference that nobody has, and with its dependencies.                   *)
Fail ==
    /\ state' = [state EXCEPT ![building.inst] = "leaked"]
    /\ building' = None

ElementsFit(i, s) == s.at + s.len <= Len(table[def[i]["table"]])
DataFits(i, s) == s.at + s.len <= Len(memory[def[i]["memory"]])

(* Mutant: a segment is applied as soon as it is found to fit. *)
CheckAndInitialize ==
    LET i == building.inst
        m == module[i]
        t == def[i]["table"]
    IN  /\ At("check")
        /\ IF /\ \A x \in DOMAIN m.elements : ElementsFit(i, m.elements[x])
              /\ \A x \in DOMAIN m.data : DataFits(i, m.data[x])
           THEN building' = [building EXCEPT !.pc = "tables"] /\ UNCHANGED <<state, table>>
           ELSE /\ Fail
                /\ table' = IF m.elements # << >> /\ ElementsFit(i, m.elements[1])
                            THEN [table EXCEPT ![t][m.elements[1].at + 1] = i]
                            ELSE table
        /\ UNCHANGED <<module, def, deps, refcount, vmtable, memory, compiled, names,
                       global_exports, host, dropping>>

(* check_table_init_bounds and check_memory_init_bounds, for all segments *)
(* before any of them is applied.                                         *)
check_init_bounds ==
    LET i == building.inst
        m == module[i]
    IN  /\ At("check")
        /\ IF /\ \A x \in DOMAIN m.elements : ElementsFit(i, m.elements[x])
              /\ \A x \in DOMAIN m.data : DataFits(i, m.data[x])
           THEN building' = [building EXCEPT !.pc = "tables"] /\ UNCHANGED state
           ELSE Fail
        /\ UNCHANGED <<module, def, deps, refcount, table, vmtable, memory, compiled,
                       names, global_exports, host, dropping>>

Written(contents, s, x) ==
    [y \in DOMAIN contents |-> IF s.at < y /\ y <= s.at + s.len THEN x ELSE contents[y]]

(* initialize_tables, one segment. *)
initialize_tables ==
    LET i == building.inst
        m == module[i]
        t == def[i]["table"]
    IN  /\ At("tables")
        /\ IF building.done < Len(m.elements)
           THEN /\ table' = [table EXCEPT ![t] = Written(@, m.elements[building.done + 1], i)]
                /\ building' = [building EXCEPT !.done = @ + 1]
           ELSE /\ building' = [building EXCEPT !.pc = "memories", !.done = 0]
                /\ UNCHANGED table
        /\ UNCHANGED <<state, module, def, deps, refcount, vmtable, memory, compiled,
                       names, global_exports, host, dropping>>

(* initialize_memories, one segment. *)
initialize_memories ==
    LET i == building.inst
        m == module[i]
        mem == def[i]["memory"]
    IN  /\ At("memories")
        /\ IF building.done < Len(m.data)
           THEN /\ memory' = [memory EXCEPT ![mem] = Written(@, m.data[building.done + 1], i)]
                /\ building' = [building EXCEPT !.done = @ + 1]
           ELSE /\ building' = [building EXCEPT !.pc = "exports", !.done = 0]
                /\ UNCHANGED memory
        /\ UNCHANGED <<state, module, def, deps, refcount, table, vmtable, compiled,
                       names, global_exports, host, dropping>>

(* initialize_globals, the instance's entries in the map of all exports by   *)
(* field (which has no entry for a field that two instances export), and the *)
(* signal handlers.                                                          *)
collect_exports ==
    LET i == building.inst
    IN  /\ At("exports")
        /\ global_exports' = [k \in Kind |->
               IF k \notin module[i].exports THEN global_exports[k]
               ELSE IF global_exports[k] = "vacant" THEN i
               ELSE None]
        /\ building' = [building EXCEPT !.pc = "start"]
        /\ UNCHANGED <<state, module, def, deps, refcount, table, vmtable, memory,
                       compiled, names, host, dropping>>

(* invoke_start_function; only then does the caller get its handle. *)
invoke_start_function ==
    LET i == building.inst
    IN  /\ At("start")
        /\ IF module[i].start = "traps"
           THEN Fail /\ UNCHANGED host
           ELSE /\ state' = [state EXCEPT ![i] = "live"]
                /\ host' = [host EXCEPT ![i] = @ + 1]
                /\ building' = None
        /\ UNCHANGED <<module, def, deps, refcount, table, vmtable, memory, compiled,
                       names, global_exports, dropping>>

-----------------------------------------------------------------------------
(* Handles *)

(* Clone for InstanceHandle; the host clones what it or the namespace has. *)
clone(i) ==
    /\ Ready
    /\ host[i] > 0 \/ \E n \in Name : names[n] = i
    /\ host[i] < MaxHandles
    /\ host' = [host EXCEPT ![i] = @ + 1]
    /\ refcount' = [refcount EXCEPT ![i] = @ + 1]
    /\ UNCHANGED <<state, module, def, deps, table, vmtable, memory, compiled, names,
                   global_exports, dropping, building>>

(* Namespace::name_instance takes the handle, and drops the one it replaces. *)
name_instance(n, i) ==
    /\ Ready
    /\ host[i] > 0
    /\ host' = [host EXCEPT ![i] = @ - 1]
    /\ names' = [names EXCEPT ![n] = i]
    /\ dropping' = IF names[n] = None THEN dropping
                   ELSE [dropping EXCEPT ![names[n]] = 1]
    /\ UNCHANGED <<state, module, def, deps, refcount, table, vmtable, memory, compiled,
                   global_exports, building>>

drop_handle(i) ==
    /\ Ready
    /\ host[i] > 0
    /\ host' = [host EXCEPT ![i] = @ - 1]
    /\ dropping' = [dropping EXCEPT ![i] = 1]
    /\ UNCHANGED <<state, module, def, deps, refcount, table, vmtable, memory, compiled,
                   names, global_exports, building>>

drop_compiled_module(c) ==
    /\ Ready
    /\ compiled[c] # None
    /\ compiled' = [compiled EXCEPT ![c] = None]
    /\ dropping' = [i \in Inst |-> IF i \in compiled[c].deps THEN 1 ELSE 0]
    /\ UNCHANGED <<state, module, def, deps, refcount, table, vmtable, memory, names,
                   global_exports, host, building>>

(* The instance's own state once it has been dropped in place. *)
Release(i) ==
    /\ state' = [state EXCEPT ![i] = "freed"]
    /\ module' = [module EXCEPT ![i] = None]
    /\ def' = [def EXCEPT ![i] = [k \in Kind |-> None]]
    /\ deps' = [deps EXCEPT ![i] = {}]
    /\ table' = [table EXCEPT ![i] = << >>]
    /\ vmtable' = [vmtable EXCEPT ![i] = 0]
    /\ memory' = [memory EXCEPT ![i] = << >>]

(* Mutant: the memory is released and dependencies are not dropped. *)
DropShallow(i) ==
    /\ building = None
    /\ dropping[i] > 0
    /\ refcount' = [refcount EXCEPT ![i] = @ - 1]
    /\ IF refcount[i] = 1
       THEN Release(i)
       ELSE UNCHANGED <<state, module, def, deps, table, vmtable, memory>>
    /\ dropping' = [dropping EXCEPT ![i] = @ - 1]
    /\ UNCHANGED <<compiled, names, global_exports, host, building>>

(* Drop for InstanceHandle: the last handle frees the instance, and drops *)
(* the handles of its dependencies.                                       *)
drop(i) ==
    /\ building = None
    /\ dropping[i] > 0
    /\ refcount' = [refcount EXCEPT ![i] = @ - 1]
    /\ \/ /\ refcount[i] # 1
          /\ dropping' = [dropping EXCEPT ![i] = @ - 1]
          /\ UNCHANGED <<state, module, def, deps, table, vmtable, memory>>
       \/ /\ refcount[i] = 1
          /\ Release(i)
          /\ dropping' = [j \in Inst |-> IF j = i THEN dropping[i] - 1
                                         ELSE IF j \in deps[i] THEN dropping[j] + 1
                                         ELSE dropping[j]]
    /\ UNCHANGED <<compiled, names, global_exports, host, building>>

-----------------------------------------------------------------------------
(* Tables *)

(* Table::grow's refusals; MaxTable stands for what memory there is. *)
Growable(i, delta) ==
    /\ module[i].max # None => Len(table[i]) + delta <= module[i].max
    /\ Len(table[i]) + delta <= MaxTable

(* Table::grow of the host, by a handle to the instance that defines the *)
(* table: Instance::table_grow, and the new elements set to a value.      *)
table_grow(i, delta) ==
    /\ Ready
    /\ host[i] > 0 /\ def[i]["table"] = i
    /\ Growable(i, delta)
    /\ table' = [table EXCEPT ![i] = @ \o [x \in 1 .. delta |-> None]]
    /\ vmtable' = [vmtable EXCEPT ![i] = Len(table'[i])]
    /\ UNCHANGED <<state, module, def, deps, refcount, memory, compiled, names,
                   global_exports, host, dropping, building>>

(* Table::set of the host. *)
table_set(i, x) ==
    /\ Ready
    /\ host[i] > 0 /\ def[i]["table"] = i
    /\ x \in DOMAIN table[i]
    /\ table' = [table EXCEPT ![i][x] = None]
    /\ UNCHANGED <<state, module, def, deps, refcount, vmtable, memory, compiled, names,
                   global_exports, host, dropping, building>>

Next ==
    \/ \E c \in Compiled, m \in Module : compile_module(c, m)
    \/ \E c \in Compiled, i \in Inst : instantiate(c, i)
    \/ check_init_bounds
    \/ initialize_tables
    \/ initialize_memories
    \/ collect_exports
    \/ invoke_start_function
    \/ \E i \in Inst : clone(i) \/ drop_handle(i) \/ drop(i)
    \/ \E n \in Name, i \in Inst : name_instance(n, i)
    \/ \E c \in Compiled : drop_compiled_module(c)
    \/ \E i \in Inst : table_grow(i, 1)
    \/ \E i \in Inst, x \in 1 .. MaxTable : table_set(i, x)

Spec == Init /\ [][Next]_vars

-----------------------------------------------------------------------------

TypeOK ==
    /\ state \in [Inst -> {"none", "new", "live", "leaked", "freed"}]
    /\ module \in [Inst -> Module \cup {None}]
    /\ def \in [Inst -> [Kind -> Inst \cup {None}]]
    /\ deps \in [Inst -> SUBSET Inst]
    /\ refcount \in [Inst -> Nat]
    /\ vmtable \in [Inst -> Nat]
    /\ \A i \in Inst : \A x \in DOMAIN table[i] : table[i][x] \in Inst \cup {None}
    /\ names \in [Name -> Inst \cup {None}]
    /\ global_exports \in [Kind -> Inst \cup {"vacant", None}]
    /\ host \in [Inst -> Nat]
    /\ dropping \in [Inst -> Nat]
    /\ building # None => building.inst \in Inst

(* What an instance or a compiled module imports is there as long as they  *)
(* are, whatever handles have been dropped, names rebound and modules      *)
(* re-exported in between, although imports are plain pointers.            *)
ImportsAlive ==
    /\ \A i \in Alive, k \in Kind : def[i][k] \in Alive
    /\ \A c \in Compiled : compiled[c] # None =>
           \A k \in Kind : compiled[c].def[k] # None => compiled[c].def[k] \in Alive

(* The instances somebody has a handle to, or that an error has stranded. *)
Roots ==
    {i \in Inst : host[i] > 0 \/ dropping[i] > 0 \/ state[i] = "leaked"}
        \cup {i \in Inst : \E n \in Name : names[n] = i}
        \cup UNION {compiled[c].deps : c \in {d \in Compiled : compiled[d] # None}}
        \cup (IF building = None THEN {} ELSE {building.inst})

(* Reference counting neither frees an instance that can be reached from a  *)
(* handle nor, as dependencies form no cycle, keeps one that can not.       *)
FreedWhenUnreachable ==
    /\ Roots \subseteq Alive
    /\ \A i \in Alive : deps[i] \subseteq Alive
    /\ \A S \in SUBSET Inst :
           (Roots \subseteq S /\ \A i \in S : deps[i] \subseteq S) => Alive \subseteq S

(* "Check initializer bounds before initializing anything": an instantiation *)
(* that fails to link has written neither to a table nor to a memory.        *)
FailedLinkLeavesNoTrace ==
    \A i \in Inst : (state[i] = "leaked" /\ module[i].start # "traps") =>
        \A j \in Alive : /\ \A x \in DOMAIN table[j] : table[j][x] # i
                         /\ \A x \in DOMAIN memory[j] : memory[j][x] # i
=============================================================================
