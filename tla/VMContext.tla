----------------------------- MODULE VMContext -----------------------------
(***************************************************************************)
(* The memory that compiled code and the runtime share.  InstanceHandle    *)
(* writes an instance's VMContext: signature ids, plain pointers to what   *)
(* it imports, and the definitions of its tables, memories and globals.    *)
(* Compiled code finds everything in it by the offsets of VMOffsets, and   *)
(* the host through the exports of the API.  Memory is modelled by offsets *)
(* and sizes, so a wrong offset reads what is there, or garbage.           *)
(*                                                                         *)
(* Instances are never dropped (Instances models what keeps them alive),   *)
(* a linear memory is its size and whether it moved (LinearMemory), and    *)
(* there is one Store, with one compiler.                                  *)
(***************************************************************************)
EXTENDS VMOffsets, SequencesExt

CONSTANTS
    Inst,           \* instances
    Module,         \* the modules there are
    None,
    Value,          \* values of globals, small numbers
    Delta,          \* by how much a table or a memory is grown at once
    Page,           \* pages that are accessed
    PointerSize,    \* of the host, in bytes
    StaticBound,    \* Tunables::static_memory_bound
    MaxWork,        \* bound: instantiations and changes, see work
    MaxPages,       \* bound: pages of a memory; growing further fails
    MaxTable        \* bound: elements of a table; the host grows no further

VARIABLES
    module,     \* Instance::module, or None
    compiled,   \* a CompiledModule with its Imports, or None
    vmctx,      \* the memory of each context, from offset 0
    memories,   \* Instance::memories
    tables,     \* Instance::tables
    registry,   \* Compiler::signatures: the signature of each shared id
    signature_cache,    \* Store::signature_cache: the shared ids in it
    panicked,   \* the assertion that failed and ended the process, or None
    work,       \* the number of operations so far that may change something
    result      \* the last operation with its arguments, and what it yielded

vars == <<module, compiled, vmctx, memories, tables, registry, signature_cache,
          panicked, work, result>>

Kind == {"func", "table", "memory", "global"}

Limits == [min : Nat, max : Nat \cup {None}]

(* In the index spaces imports come first; num_imports says how many.  A   *)
(* global has a width and starts as a constant or as a copy of an imported *)
(* global.  An element segment is written at a constant, or at the value   *)
(* of an imported global.  Indices are from 0, as in the source.           *)
ModuleType ==
    [name : STRING,
     num_imports : [Kind -> Nat],
     signatures : Seq(STRING),
     func : Seq(Nat),
     table : Seq(Limits),
     memory : Seq(Limits),
     global : Seq([ty : {4, 8, 16}, const : Nat, get : Nat \cup {None}]),
     elements : Seq([table : Nat, base : Nat \cup {None}, offset : Nat, funcs : Seq(Nat)])]

ASSUME VMContextAssumption ==
    /\ Module \subseteq ModuleType
    /\ \A m \in Module, k \in Kind : m.num_imports[k] <= Len(m[k])
    /\ PointerSize \in {4, 8}
    /\ None \notin Inst \cup Nat \cup Module

At(s, index) == s[index + 1]
Indices(m, kind) == 0..Len(m[kind]) - 1
NumDefined(m, kind) == Len(m[kind]) - m.num_imports[kind]
Live == {i \in Inst : module[i] # None}
Yields(op, r) == result' = [op |-> op, is |-> r]

-----------------------------------------------------------------------------
(* Values that memory holds.  A number is itself; the rest are pointers:   *)
(* into a context, to a function's code, to a builtin, to the storage of a *)
(* memory or table (which has another address after it moved).             *)
Num(n) == <<"num", n>>
Null == Num(0)
Ctx(i, offset) == <<"ctx", i, offset>>
Body(m, defined) == <<"body", m.name, defined>>
Builtin(index) == <<"builtin", index>>
Heap(i, defined, moved) == <<"heap", i, defined, moved>>
Elements(i, defined, moved) == <<"elements", i, defined, moved>>
Garbage == <<"garbage">>

(* VMSharedSignatureIndex::default(), and u32::max_value() *)
NoSignature == Num(-1)

(* Memory: its size, and values by the offsets they were written at, the   *)
(* rest being zero as it comes from mmap.                                  *)
Zeroed(size) == [size |-> size, cells |-> << >>]

Overlapped(mem, at, size) ==
    {a \in DOMAIN mem.cells : a < at + size /\ at < a + mem.cells[a].size}

(* A write outside is lost; one that covers a part of a value leaves       *)
(* neither.                                                                *)
Store(mem, w) ==
    LET over == Overlapped(mem, w.at, w.size)
        torn == \E a \in over :
                    /\ mem.cells[a].value # Null
                    /\ a < w.at \/ a + mem.cells[a].size > w.at + w.size
    IN  IF w.at + w.size > mem.size THEN mem
        ELSE [mem EXCEPT !.cells =
                [a \in (DOMAIN @ \ over) \cup {w.at} |->
                    IF a # w.at THEN @[a]
                    ELSE [size |-> w.size, value |-> IF torn THEN Garbage ELSE w.value]]]

(* The low bytes of a number are the number, as none is large. *)
Load(mem, at, size) ==
    IF at + size > mem.size THEN Garbage
    ELSE IF at \in DOMAIN mem.cells
    THEN LET c == mem.cells[at]
         IN  IF c.size = size \/ (c.size > size /\ c.value[1] = "num") THEN c.value ELSE Garbage
    ELSE IF Overlapped(mem, at, size) = {} THEN Null ELSE Garbage

(* A #[repr(C)] structure: its fields' sizes and offsets, and its size.    *)
(* Those are what VMOffsets has to agree with.                             *)
Struct(sizes) == [sizes |-> sizes, at |-> repr_c(sizes), size |-> size_of_repr_c(sizes)]

VMFunctionImport == Struct(<<PointerSize, PointerSize>>)        \* body, vmctx
VMTableImport == Struct(<<PointerSize, PointerSize>>)           \* from, vmctx
VMMemoryImport == Struct(<<PointerSize, PointerSize>>)          \* from, vmctx
VMGlobalImport == Struct(<<PointerSize>>)                       \* from
VMTableDefinition == Struct(<<PointerSize, 4>>)                 \* base, current_elements
VMMemoryDefinition == Struct(<<PointerSize, PointerSize>>)      \* base, current_length
VMGlobalDefinition == Struct(<<16>>)                            \* storage
VMSharedSignatureIndex == Struct(<<4>>)
VMCallerCheckedAnyfunc == Struct(<<PointerSize, 4, PointerSize>>)   \* func_ptr, type_index, vmctx
VMBuiltinFunction == Struct(<<PointerSize>>)

Fields(at, struct, values) ==
    [k \in 1..Len(values) |->
        [at |-> at + struct.at[k], size |-> struct.sizes[k], value |-> values[k]]]

(* ptr::copy of an array of structures. *)
CopyArray(begin, struct, elements) ==
    FlattenSeq([n \in 1..Len(elements) |->
        Fields(begin + (n - 1) * struct.size, struct, elements[n])])

Field(mem, at, struct, k) == Load(mem, at + struct.at[k], struct.sizes[k])

-----------------------------------------------------------------------------
(* VMOffsets::new.  All tables, memories and globals count as defined. *)
Offsets(m) ==
    [pointer_size |-> PointerSize,
     num_signature_ids |-> Len(m.signatures),
     num_imported_functions |-> m.num_imports["func"],
     num_imported_tables |-> m.num_imports["table"],
     num_imported_memories |-> m.num_imports["memory"],
     num_imported_globals |-> m.num_imports["global"],
     num_defined_tables |-> Len(m.table),
     num_defined_memories |-> Len(m.memory),
     num_defined_globals |-> Len(m.global)]

(* The offsets of a module, all of them. *)
layout ==
    [m \in Module |->
        LET o == Offsets(m)
        IN  [pointer_size |-> PointerSize,
             signature_ids_begin |-> vmctx_signature_ids_begin(o),
             imported_functions_begin |-> vmctx_imported_functions_begin(o),
             imported_tables_begin |-> vmctx_imported_tables_begin(o),
             imported_memories_begin |-> vmctx_imported_memories_begin(o),
             imported_globals_begin |-> vmctx_imported_globals_begin(o),
             tables_begin |-> vmctx_tables_begin(o),
             memories_begin |-> vmctx_memories_begin(o),
             globals_begin |-> vmctx_globals_begin(o),
             builtin_functions_begin |-> vmctx_builtin_functions_begin(o),
             size |-> size_of_vmctx(o),
             signature_id |-> [x \in 0..o.num_signature_ids - 1 |-> vmctx_vmshared_signature_id(o, x)],
             function_import |-> [x \in 0..o.num_imported_functions - 1 |-> vmctx_vmfunction_import(o, x)],
             table_import |-> [x \in 0..o.num_imported_tables - 1 |-> vmctx_vmtable_import(o, x)],
             memory_import |-> [x \in 0..o.num_imported_memories - 1 |-> vmctx_vmmemory_import(o, x)],
             global_import |-> [x \in 0..o.num_imported_globals - 1 |-> vmctx_vmglobal_import(o, x)],
             table_definition |-> [x \in 0..o.num_defined_tables - 1 |-> vmctx_vmtable_definition(o, x)],
             memory_definition |-> [x \in 0..o.num_defined_memories - 1 |-> vmctx_vmmemory_definition(o, x)],
             global_definition |-> [x \in 0..o.num_defined_globals - 1 |-> vmctx_vmglobal_definition(o, x)],
             builtin_function |-> [x \in 0..builtin_functions_total_number - 1 |-> vmctx_builtin_function(o, x)]]]

Imported(m, kind, index) == index < m.num_imports[kind]

defined_index(m, kind, index) == index - m.num_imports[kind]

(* MemoryStyle::for_memory *)
Static(limits) == limits.max # None /\ limits.max <= StaticBound

(* lookup_by_declaration: what a context says about an export. *)
lookup(i, kind, index) ==
    LET m == module[i]
        o == layout[m]
        d == defined_index(m, kind, index)
        import(at, struct) == [p |-> Field(vmctx[i], at, struct, 1),
                               vmctx |-> Field(vmctx[i], at, struct, 2)]
    IN  CASE kind = "func" ->
              IF Imported(m, kind, index)
              THEN import(o.function_import[index], VMFunctionImport)
              ELSE [p |-> Body(m, d), vmctx |-> Ctx(i, 0)]
          [] kind = "table" ->
              IF Imported(m, kind, index)
              THEN import(o.table_import[index], VMTableImport)
              ELSE [p |-> Ctx(i, o.table_definition[d]), vmctx |-> Ctx(i, 0)]
          [] kind = "memory" ->
              IF Imported(m, kind, index)
              THEN import(o.memory_import[index], VMMemoryImport)
              ELSE [p |-> Ctx(i, o.memory_definition[d]), vmctx |-> Ctx(i, 0)]
          [] kind = "global" ->
              [p |-> IF Imported(m, kind, index)
                     THEN Field(vmctx[i], o.global_import[index], VMGlobalImport, 1)
                     ELSE Ctx(i, o.global_definition[d]),
               vmctx |-> Ctx(i, 0)]

(* SignatureRegistry::register, for several signatures in order. *)
register(sigs) ==
    LET add(r, s) == IF s \in Range(r) THEN r ELSE Append(r, s)
    IN  FoldLeft(add, registry, sigs)

SharedId(r, sig) == Num((CHOOSE k \in 1..Len(r) : r[k] = sig) - 1)

-----------------------------------------------------------------------------
(* link.rs.  The exporter's plan is the one of the module it comes from,   *)
(* which may itself have imported the entity.                              *)
(* A mutation: maxima are not compared. *)
CompatibleByMinimum(exported, imported) == imported.min <= exported.min

limits_compatible(exported, imported) ==
    /\ imported.min <= exported.min
    /\ imported.max # None => (exported.max # None /\ imported.max >= exported.max)

Compatible(m, kind, n, j, index) ==
    LET exporter == module[j]
        exported == At(exporter[kind], index)
    IN  CASE kind = "func" ->
              At(exporter.signatures, exported) = At(m.signatures, m.func[n])
          [] kind \in {"table", "memory"} -> limits_compatible(exported, m[kind][n])
          [] kind = "global" -> exported.ty = m.global[n].ty

(* RawCompiledModule::new: link_module finds the imports, then shared ids  *)
(* are computed for the signatures.                                        *)
link_module(i, m, from) ==
    /\ compiled = None /\ module[i] = None
    /\ \A kind \in Kind : \A n \in 1..m.num_imports[kind] :
        Compatible(m, kind, n, from[kind][n][1], from[kind][n][2])
    /\ registry' = register(m.signatures)
    /\ compiled' =
        [inst |-> i, module |-> m, from |-> from,
         imports |-> [kind \in Kind |-> [n \in 1..m.num_imports[kind] |->
                        lookup(from[kind][n][1], kind, from[kind][n][2])]],
         signatures |-> [n \in 1..Len(m.signatures) |->
                            SharedId(registry', m.signatures[n])]]
    /\ Yields(<<"link">>, <<"ok">>)
    /\ UNCHANGED <<module, vmctx, memories, tables, signature_cache, panicked>>

-----------------------------------------------------------------------------
(* Tables: a vector of VMCallerCheckedAnyfunc, and what vmtable() says.    *)
ElementSize == VMCallerCheckedAnyfunc.size

Anyfunc(f, sig, ctx) == <<f, sig, ctx>>
default_anyfunc == Anyfunc(Null, NoSignature, Null)

SetElement(vec, element, anyfunc) ==
    FoldLeft(Store, vec, Fields(element * ElementSize, VMCallerCheckedAnyfunc, anyfunc))

(* vec.resize, new elements being the default; it may move. *)
Resized(t, len, moved) ==
    LET fill(vec, e) == SetElement(vec, e, default_anyfunc)
    IN  [t EXCEPT !.len = len, !.moved = moved,
                  !.vec = FoldLeft(fill, [@ EXCEPT !.size = len * ElementSize],
                                   [n \in 1..len - t.len |-> t.len + n - 1])]

new_table(limits) ==
    Resized([len |-> 0, max |-> limits.max, moved |-> 0, vec |-> Zeroed(0)], limits.min, 0)

vmtable(i, defined, t) == <<Elements(i, defined, t.moved), Num(t.len)>>

new_memory(limits) ==
    [pages |-> limits.min, max |-> limits.max, static |-> Static(limits), moved |-> 0]

vmmemory(i, defined, mem) == <<Heap(i, defined, mem.moved), Num(mem.pages)>>

(* Instance::table_index and memory_index: the number of the definition    *)
(* that p points to, if it is one of this instance's.  Contexts are in     *)
(* separate mappings, so a pointer into another one is either below, and   *)
(* the difference wraps, or beyond the last definition: the assertion      *)
(* fails.                                                                  *)
IndexOf(i, p, begin, size, len) ==
    IF p[1] = "ctx" /\ p[2] = i /\ p[3] >= begin /\ (p[3] - begin) \div size < len
    THEN (p[3] - begin) \div size ELSE None

table_index(i, m, ts, p) ==
    IndexOf(i, p, layout[m].tables_begin, VMTableDefinition.size, Len(ts))

memory_index(i, p) ==
    IndexOf(i, p, layout[module[i]].memories_begin, VMMemoryDefinition.size,
            Len(memories[i]))

-----------------------------------------------------------------------------
(* InstanceHandle::new: the arrays, in the order they are copied. *)
Arrays(i, c, ts, ms) ==
    LET o == layout[c.module]
        im == c.imports
        pair(e) == <<e.p, e.vmctx>>
    IN  CopyArray(o.signature_ids_begin, VMSharedSignatureIndex,
                  [n \in 1..Len(c.signatures) |-> <<c.signatures[n]>>])
        \o CopyArray(o.imported_functions_begin, VMFunctionImport,
                     [n \in DOMAIN im["func"] |-> pair(im["func"][n])])
        \o CopyArray(o.imported_tables_begin, VMTableImport,
                     [n \in DOMAIN im["table"] |-> pair(im["table"][n])])
        \o CopyArray(o.imported_memories_begin, VMMemoryImport,
                     [n \in DOMAIN im["memory"] |-> pair(im["memory"][n])])
        \o CopyArray(o.imported_globals_begin, VMGlobalImport,
                     [n \in DOMAIN im["global"] |-> <<im["global"][n].p>>])
        \o CopyArray(o.tables_begin, VMTableDefinition,
                     [n \in DOMAIN ts |-> vmtable(i, n - 1, ts[n])])
        \o CopyArray(o.memories_begin, VMMemoryDefinition,
                     [n \in DOMAIN ms |-> vmmemory(i, n - 1, ms[n])])
        \o CopyArray(o.globals_begin, VMGlobalDefinition,
                     [n \in 1..NumDefined(c.module, "global") |-> <<Null>>])
        \o CopyArray(o.builtin_functions_begin, VMBuiltinFunction,
                     [n \in 1..builtin_functions_total_number |-> <<Builtin(n - 1)>>])

(* Bytes and values behind a pointer into a context. *)
Deref(ctxs, p, size) == IF p[1] = "ctx" THEN Load(ctxs[p[2]], p[3], size) ELSE Garbage

StoreAt(ctxs, p, size, value) ==
    IF p[1] = "ctx"
    THEN [ctxs EXCEPT ![p[2]] = Store(@, [at |-> p[3], size |-> size, value |-> value])]
    ELSE ctxs

CopyBytes(ctxs, to, from, size) ==
    IF from[1] # "ctx" THEN ctxs
    ELSE LET source == ctxs[from[2]]
             dest == ctxs[to[2]]
             old == Overlapped(dest, to[3], size)
             new == {a - from[3] + to[3] : a \in Overlapped(source, from[3], size)}
         IN  [ctxs EXCEPT ![to[2]].cells =
                [a \in (DOMAIN @ \ old) \cup new |->
                    IF a \in new THEN source.cells[a - to[3] + from[3]] ELSE @[a]]]

-----------------------------------------------------------------------------
(* The rest of InstanceHandle::new: bounds of the element segments are     *)
(* checked, then segments are written, then globals get their values.  An  *)
(* instance that fails is never freed, and never reached again.            *)
imported_global(ctxs, i, m, g) ==
    Field(ctxs[i], layout[m].global_import[g], VMGlobalImport, 1)

(* get_table_init_start; None when the global holds no number. *)
init_start(ctxs, i, m, s) ==
    LET v == Deref(ctxs, imported_global(ctxs, i, m, s.base), 4)
    IN  IF s.base = None THEN s.offset
        ELSE IF v[1] = "num" THEN s.offset + v[2] ELSE None

(* get_table_slice: the owner and the number of the table. *)
table_slice(ctxs, i, m, s) ==
    LET at == layout[m].table_import[s.table]
        from == Field(ctxs[i], at, VMTableImport, 1)
        owner == Field(ctxs[i], at, VMTableImport, 2)
    IN  IF ~Imported(m, "table", s.table) THEN <<i, defined_index(m, "table", s.table)>>
        ELSE IF owner[1] # "ctx" THEN <<i, None>>
        ELSE <<owner[2], table_index(owner[2], module[owner[2]], tables[owner[2]], from)>>

(* The VMCallerCheckedAnyfunc for a function of this instance. *)
element_for(ctxs, i, m, f) ==
    LET o == layout[m]
        at == o.function_import[f]
        sig == Field(ctxs[i], o.signature_id[At(m.func, f)],
                     VMSharedSignatureIndex, 1)
    IN  IF Imported(m, "func", f)
        THEN Anyfunc(Field(ctxs[i], at, VMFunctionImport, 1), sig,
                     Field(ctxs[i], at, VMFunctionImport, 2))
        ELSE Anyfunc(Body(m, defined_index(m, "func", f)), sig, Ctx(i, 0))

initialize_tables(ctxs, i, m, ts) ==
    LET segment(acc, s) ==
            LET t == table_slice(ctxs, i, m, s)
                start == init_start(ctxs, i, m, s)
                put(vec, n) ==
                    SetElement(vec, start + n - 1, element_for(ctxs, i, m, s.funcs[n]))
            IN  [acc EXCEPT ![t[1]][t[2] + 1].vec =
                    FoldLeft(put, @, [n \in 1..Len(s.funcs) |-> n])]
    IN  FoldLeft(segment, ts, m.elements)

initialize_globals(ctxs, i, m) ==
    LET init(acc, n) ==
            LET g == m.global[m.num_imports["global"] + n]
                to == Ctx(i, layout[m].global_definition[n - 1])
            IN  IF g.get = None THEN StoreAt(acc, to, g.ty, Num(g.const))
                ELSE CopyBytes(acc, to, imported_global(acc, i, m, g.get), 16)
    IN  FoldLeft(init, ctxs, [n \in 1..NumDefined(m, "global") |-> n])

(* An assertion fails: a definition is not one of the instance's own, or   *)
(* the Store does not know a signature.                                    *)
Panic(assertion) ==
    /\ panicked' = assertion
    /\ UNCHANGED <<module, compiled, vmctx, memories, tables, registry, signature_cache, result>>

instantiate ==
    LET i == compiled.inst
        m == compiled.module
        own == [n \in 1..NumDefined(m, "table") |->
                    new_table(m.table[m.num_imports["table"] + n])]
        mems == [n \in 1..NumDefined(m, "memory") |->
                    new_memory(m.memory[m.num_imports["memory"] + n])]
        ctxs == [vmctx EXCEPT ![i] = FoldLeft(Store, Zeroed(layout[m].size),
                                              Arrays(i, compiled, own, mems))]
        ts == [tables EXCEPT ![i] = own]
        slice(n) == table_slice(ctxs, i, m, m.elements[n])
        start(n) == init_start(ctxs, i, m, m.elements[n])
    IN  /\ compiled # None
        /\ IF \E n \in DOMAIN m.elements : slice(n)[2] = None \/ start(n) = None
           THEN Panic("definition")
           ELSE /\ compiled' = None
                /\ IF \A n \in DOMAIN m.elements :
                        start(n) + Len(m.elements[n].funcs) <= At(ts[slice(n)[1]], slice(n)[2]).len
                   THEN /\ module' = [module EXCEPT ![i] = m]
                        /\ memories' = [memories EXCEPT ![i] = mems]
                        /\ tables' = initialize_tables(ctxs, i, m, ts)
                        /\ vmctx' = initialize_globals(ctxs, i, m)
                        /\ Yields(<<"instantiate">>, <<"ok">>)
                   ELSE /\ Yields(<<"instantiate">>, <<"link error">>)
                        /\ UNCHANGED <<module, vmctx, memories, tables>>
                /\ UNCHANGED <<registry, signature_cache, panicked>>

-----------------------------------------------------------------------------
(* Code that FuncEnvironment generates for module[i], by the offsets of    *)
(* its module, with its vmctx.                                             *)
LoadVmctx(i, at, size) == Load(vmctx[i], at, size)

Add(p, offset) == IF p[1] = "ctx" THEN Ctx(p[2], p[3] + offset) ELSE p

make_global(i, index) ==
    LET m == module[i]
        o == layout[m]
    IN  IF Imported(m, "global", index)
        THEN LoadVmctx(i, o.global_import[index] + vmglobal_import(o).from, PointerSize)
        ELSE Ctx(i, o.global_definition[defined_index(m, "global", index)])

(* A pointer to the VMMemoryDefinition. *)
make_heap(i, index) ==
    LET m == module[i]
        o == layout[m]
    IN  IF Imported(m, "memory", index)
        THEN LoadVmctx(i, o.memory_import[index] + vmmemory_import(o).from, PointerSize)
        ELSE Ctx(i, o.memory_definition[defined_index(m, "memory", index)])

make_table(i, index) ==
    LET m == module[i]
        o == layout[m]
    IN  IF Imported(m, "table", index)
        THEN LoadVmctx(i, o.table_import[index] + vmtable_import(o).from, PointerSize)
        ELSE Ctx(i, o.table_definition[defined_index(m, "table", index)])

(* Entering a function with its callee vmctx. *)
Enter(f, ctx) ==
    IF f[1] = "body" /\ ctx[1] = "ctx" /\ ctx[3] = 0
    THEN <<"enter", f[2], f[3], ctx[2]>> ELSE <<"wild">>

(* What the hardware does with an access to a page from this base. *)
Touch(base, page) ==
    IF base[1] # "heap" THEN <<"wild">>
    ELSE LET mem == At(memories[base[2]], base[3])
         IN  IF base[4] # mem.moved THEN <<"wild">>
             ELSE IF page < mem.pages THEN <<"page", base[2], base[3], page>>
             ELSE IF mem.static THEN <<"trap">>     \* reserved address space
             ELSE <<"wild">>

Returns(op, r) ==
    /\ Yields(op, r)
    /\ UNCHANGED <<module, compiled, vmctx, memories, tables, registry, signature_cache, panicked>>

(* A value held by memory, as the result of an operation. *)
Got(v) == IF v[1] = "num" THEN v ELSE <<"wild">>

global_get(i, index) ==
    Returns(<<"global.get", i, index>>,
            Got(Deref(vmctx, make_global(i, index), At(module[i].global, index).ty)))

global_set(i, index, value) ==
    /\ vmctx' = StoreAt(vmctx, make_global(i, index), At(module[i].global, index).ty, Num(value))
    /\ Yields(<<"global.set", i, index, value>>, <<"ok">>)
    /\ UNCHANGED <<module, compiled, memories, tables, registry, signature_cache, panicked>>

(* A load or store: a memory planned as static is not bounds-checked. *)
memory_access(i, index, page) ==
    LET o == layout[module[i]]
        p == make_heap(i, index)
        base == Deref(vmctx, Add(p, vmmemory_definition(o).base), PointerSize)
        length == Deref(vmctx, Add(p, vmmemory_definition(o).current_length),
                        vmmemory_definition(o).size_of_current_length)
    IN  Returns(<<"memory", i, index, page>>,
                IF Static(At(module[i].memory, index)) THEN Touch(base, page)
                ELSE IF length[1] # "num" THEN <<"wild">>
                ELSE IF page < length[2] THEN Touch(base, page)
                ELSE <<"trap">>)

translate_call(i, index) ==
    LET m == module[i]
        o == layout[m]
        at == o.function_import[index]
    IN  Returns(<<"call", i, index>>,
                IF Imported(m, "func", index)
                THEN Enter(LoadVmctx(i, at + vmfunction_import(o).body, PointerSize),
                           LoadVmctx(i, at + vmfunction_import(o).vmctx, PointerSize))
                ELSE Enter(Body(m, defined_index(m, "func", index)), Ctx(i, 0)))

translate_call_indirect(i, index, element, sig) ==
    LET o == layout[module[i]]
        p == make_table(i, index)
        base == Deref(vmctx, Add(p, vmtable_definition(o).base), PointerSize)
        len == Deref(vmctx, Add(p, vmtable_definition(o).current_elements),
                     vmtable_definition(o).size_of_current_elements)
        any == vmcaller_checked_anyfunc(o)
        t == At(tables[base[2]], base[3])
        entry(field, size) == Load(t.vec, element * any.size + field, size)
        func == entry(any.func_ptr, PointerSize)
    IN  Returns(<<"call_indirect", i, index, element, sig>>,
                IF len[1] # "num" THEN <<"wild">>
                ELSE IF element >= len[2] THEN <<"trap">>
                ELSE IF base[1] # "elements" THEN <<"wild">>
                ELSE IF base[4] # t.moved THEN <<"wild">>
                ELSE IF func = Null THEN <<"trap">>
                ELSE IF entry(any.type_index, size_of_vmshared_signature_index)
                        # LoadVmctx(i, o.signature_id[sig],
                                    size_of_vmshared_signature_index)
                THEN <<"trap">>
                ELSE Enter(func, entry(any.vmctx, PointerSize)))

-----------------------------------------------------------------------------
(* memory.grow and memory.size call a builtin, with the number of the      *)
(* definition or, for an import, the index; the builtin finds the owner.   *)
BuiltinCall(i, index, local, foreign) ==
    LET m == module[i]
        k == IF Imported(m, "memory", index) THEN foreign ELSE local
    IN  [f |-> LoadVmctx(i, layout[m].builtin_function[k], PointerSize),
         arg |-> IF Imported(m, "memory", index) THEN index
                 ELSE defined_index(m, "memory", index)]

(* Instance::imported_memory_grow and imported_memory_size *)
foreign_memory(i, index) ==
    LET at == layout[module[i]].memory_import[index]
        from == Field(vmctx[i], at, VMMemoryImport, 1)
        owner == Field(vmctx[i], at, VMMemoryImport, 2)
    IN  IF owner[1] # "ctx" THEN <<i, None>> ELSE <<owner[2], memory_index(owner[2], from)>>

(* The memory that the builtin works on, <<owner, number>>. *)
BuiltinMemory(i, call, local, foreign) ==
    IF call.f = Builtin(local) THEN <<i, IF call.arg < Len(memories[i]) THEN call.arg ELSE None>>
    ELSE IF call.f = Builtin(foreign) THEN foreign_memory(i, call.arg)
    ELSE <<i, None>>

(* A mutation: the definition is refreshed only when the memory moves. *)
RefreshWhenMoved(i, defined, mem) ==
    IF mem.moved = At(memories[i], defined).moved THEN vmctx
    ELSE [vmctx EXCEPT ![i] = FoldLeft(Store, @,
            Fields(layout[module[i]].memory_definition[defined],
                   VMMemoryDefinition, vmmemory(i, defined, mem)))]

RefreshMemory(i, defined, mem) ==
    [vmctx EXCEPT ![i] = FoldLeft(Store, @,
        Fields(layout[module[i]].memory_definition[defined],
               VMMemoryDefinition, vmmemory(i, defined, mem)))]

(* Instance::memory_grow.  The host is only told whether it did, and op    *)
(* says for whom.  How it ends: a dynamic memory moves. *)
memory_grow(op, i, defined, delta) ==
    LET mem == At(memories[i], defined)
        pages == mem.pages + delta
        within == (mem.max # None => pages <= mem.max) /\ pages <= MaxPages
        Ends(grown, r) ==
            /\ memories' = [memories EXCEPT ![i][defined + 1] = grown]
            /\ vmctx' = RefreshMemory(i, defined, grown)
            /\ Yields(op, r)
            /\ UNCHANGED <<module, compiled, tables, registry, signature_cache, panicked>>
    IN  \/ delta = 0 /\ Ends(mem, Num(mem.pages))
        \/ delta > 0 /\ Ends(mem, Num(-1))
        \/ /\ delta > 0 /\ within
           /\ Ends([mem EXCEPT !.pages = pages,
                               !.moved = IF mem.static THEN @ ELSE 1 - @], Num(mem.pages))

translate_memory_grow(i, index, delta) ==
    LET call == BuiltinCall(i, index, memory32_grow, imported_memory32_grow)
        target == BuiltinMemory(i, call, memory32_grow, imported_memory32_grow)
    IN  IF target[2] = None THEN Panic("definition")
        ELSE memory_grow(<<"memory.grow", i, index, delta>>, target[1], target[2], delta)

translate_memory_size(i, index) ==
    LET call == BuiltinCall(i, index, memory32_size, imported_memory32_size)
        target == BuiltinMemory(i, call, memory32_size, imported_memory32_size)
    IN  IF target[2] = None THEN Panic("definition")
        ELSE Returns(<<"memory.size", i, index>>, Num(At(memories[target[1]], target[2]).pages))

-----------------------------------------------------------------------------
(* wasmtime-api: Global, Memory and Table made of an export of instance i, *)
(* with the definition that lookup found and a handle to i.                *)
Global_get(i, index) ==
    Returns(<<"global.get", i, index>>,
            Got(Deref(vmctx, lookup(i, "global", index).p, At(module[i].global, index).ty)))

Global_set(i, index, value) ==
    /\ vmctx' = StoreAt(vmctx, lookup(i, "global", index).p, At(module[i].global, index).ty,
                        Num(value))
    /\ Yields(<<"global.set", i, index, value>>, <<"ok">>)
    /\ UNCHANGED <<module, compiled, memories, tables, registry, signature_cache, panicked>>

Memory_size(i, index) ==
    Returns(<<"memory.size", i, index>>,
            Got(Deref(vmctx, Add(lookup(i, "memory", index).p, VMMemoryDefinition.at[2]),
                      VMMemoryDefinition.sizes[2])))

Memory_grow(i, index, delta) ==
    LET d == memory_index(i, lookup(i, "memory", index).p)
    IN  IF d = None THEN Panic("definition")
        ELSE memory_grow(<<"memory.grow", i, index, delta>>, i, d, delta)

(* from_checked_anyfunc: the signature must be in the cache of the Store.  *)
Table_get(i, index, element) ==
    LET op == <<"table.get", i, index, element>>
        d == table_index(i, module[i], tables[i], lookup(i, "table", index).p)
        t == At(tables[i], d)
        item(k) == Field(t.vec, element * ElementSize, VMCallerCheckedAnyfunc, k)
    IN  IF d = None THEN Panic("definition")
        ELSE IF element >= t.len THEN Returns(op, <<"null">>)
        ELSE IF item(2) = NoSignature THEN Returns(op, <<"null">>)
        ELSE IF item(2) \notin signature_cache THEN Panic("signature")
        ELSE Returns(op, Enter(item(1), item(3)))

(* into_checked_anyfunc: f is <<instance, index>>, or << >> for null. *)
Checked(f) ==
    IF f = << >> THEN default_anyfunc
    ELSE LET m == module[f[1]]
             e == lookup(f[1], "func", f[2])
         IN  Anyfunc(e.p, SharedId(registry, At(m.signatures, At(m.func, f[2]))), e.vmctx)

Cache(f) == IF f = << >> THEN signature_cache ELSE signature_cache \cup {Checked(f)[2]}

Table_set(i, index, element, f) ==
    LET op == <<"table.set", i, index, element, f>>
        d == table_index(i, module[i], tables[i], lookup(i, "table", index).p)
        t == At(tables[i], d)
    IN  IF d = None THEN Panic("definition")
        ELSE /\ signature_cache' = Cache(f)
             /\ IF element < t.len
                THEN /\ tables' = [tables EXCEPT ![i][d + 1].vec =
                                        SetElement(@, element, Checked(f))]
                     /\ Yields(op, <<"ok">>)
                ELSE Yields(op, <<"error">>) /\ UNCHANGED tables
             /\ UNCHANGED <<module, compiled, vmctx, memories, registry, panicked>>

RefreshTable(i, defined, t) ==
    [vmctx EXCEPT ![i] = FoldLeft(Store, @,
        Fields(layout[module[i]].table_definition[defined],
               VMTableDefinition, vmtable(i, defined, t)))]

(* Instance::table_grow, then the new elements are set one by one. *)
Table_grow(i, index, delta, f) ==
    LET op == <<"table.grow", i, index, delta, f>>
        d == table_index(i, module[i], tables[i], lookup(i, "table", index).p)
        t == At(tables[i], d)
        len == t.len + delta
        put(vec, n) == SetElement(vec, len - (delta - (n - 1)), Checked(f))
    IN  IF d = None THEN Panic("definition")
        ELSE /\ len <= MaxTable
             /\ IF t.max # None /\ len > t.max
                THEN /\ vmctx' = RefreshTable(i, d, t)
                     /\ Yields(op, <<"error">>)
                     /\ UNCHANGED <<tables, signature_cache>>
                ELSE \E moved \in IF delta = 0 THEN {t.moved} ELSE {0, 1} :
                     LET grown == Resized(t, len, moved)
                     IN  /\ tables' = [tables EXCEPT ![i][d + 1] =
                                [grown EXCEPT !.vec =
                                    FoldLeft(put, @, [n \in 1..delta |-> n])]]
                         /\ vmctx' = RefreshTable(i, d, grown)
                         /\ signature_cache' = IF delta = 0 THEN signature_cache ELSE Cache(f)
                         /\ Yields(op, <<"ok">>)
             /\ UNCHANGED <<module, compiled, memories, registry, panicked>>

-----------------------------------------------------------------------------
Init ==
    /\ module = [i \in Inst |-> None]
    /\ compiled = None
    /\ vmctx = [i \in Inst |-> Zeroed(0)]
    /\ memories = [i \in Inst |-> << >>]
    /\ tables = [i \in Inst |-> << >>]
    /\ registry = << >>
    /\ signature_cache = {}
    /\ panicked = None
    /\ work = 0
    /\ result = [op |-> << >>, is |-> << >>]

Exports(kind) == UNION {{i} \X Indices(module[i], kind) : i \in Live}

(* Instances are numbered in the order they are made. *)
Linking ==
    \E i \in Inst, m \in Module :
        /\ \A j \in Inst : j < i => j \in Live
        /\ \E fs \in [1..m.num_imports["func"] -> Exports("func")],
              ts \in [1..m.num_imports["table"] -> Exports("table")],
              ms \in [1..m.num_imports["memory"] -> Exports("memory")],
              gs \in [1..m.num_imports["global"] -> Exports("global")] :
            link_module(i, m, [func |-> fs, table |-> ts, memory |-> ms, global |-> gs])

(* These leave everything as it is and do not depend on compiled, so they  *)
(* are taken only while there is none.                                     *)
Reads(i) ==
    \/ \E x \in Indices(module[i], "global") : global_get(i, x) \/ Global_get(i, x)
    \/ \E x \in Indices(module[i], "memory") :
        \/ translate_memory_size(i, x) \/ Memory_size(i, x)
        \/ \E p \in Page : memory_access(i, x, p)
    \/ \E x \in Indices(module[i], "func") : translate_call(i, x)
    \/ \E x \in Indices(module[i], "table"), e \in 0..MaxTable :
        \/ Table_get(i, x, e)
        \/ \E s \in 0..Len(module[i].signatures) - 1 : translate_call_indirect(i, x, e, s)

Changes(i) ==
    \/ \E x \in Indices(module[i], "global"), v \in Value :
        global_set(i, x, v) \/ Global_set(i, x, v)
    \/ \E x \in Indices(module[i], "memory"), d \in Delta :
        translate_memory_grow(i, x, d) \/ Memory_grow(i, x, d)
    \/ \E x \in Indices(module[i], "table"), f \in {<< >>} \cup Exports("func") :
        \/ \E e \in 0..MaxTable : Table_set(i, x, e, f)
        \/ \E d \in Delta : Table_grow(i, x, d, f)

Next ==
    /\ panicked = None
    /\ \/ Linking /\ UNCHANGED work
       \/ compiled = None /\ (\E i \in Live : Reads(i)) /\ UNCHANGED work
       \/ /\ work < MaxWork
          /\ instantiate \/ \E i \in Live : Changes(i)
          /\ work' = work + 1

Spec == Init /\ [][Next]_vars

(* No step depends on what the last operation yielded. *)
View == <<module, compiled, vmctx, memories, tables, registry, signature_cache, panicked, work>>

-----------------------------------------------------------------------------
MemoryType == [pages : Nat, max : Nat \cup {None}, static : BOOLEAN, moved : {0, 1}]

TypeOK ==
    /\ \A i \in Inst : module[i] \in Module \cup {None}
    /\ \A i \in Live : /\ vmctx[i].size = layout[module[i]].size
                       /\ memories[i] \in Seq(MemoryType)
                       /\ Len(memories[i]) = NumDefined(module[i], "memory")
                       /\ Len(tables[i]) = NumDefined(module[i], "table")
                       /\ \A n \in 1..Len(tables[i]) :
                            tables[i][n].vec.size = tables[i][n].len * ElementSize
    /\ signature_cache \subseteq {Num(n - 1) : n \in 1..Len(registry)}
    /\ panicked \in {None, "definition", "signature"}

(* What the context says, as the entities of WasmStore. *)
Entity(kind, e) ==
    LET inst == IF kind = "func" THEN e.vmctx ELSE e.p
        o == layout[module[inst[2]]]
    IN  IF inst[1] # "ctx" \/ e.p[1] \notin {"ctx", "body"} THEN << >>
        ELSE <<inst[2],
               CASE kind = "func" -> e.p[3]
                 [] kind = "table" ->
                      (e.p[3] - o.tables_begin) \div vmtable_definition(o).size
                 [] kind = "memory" ->
                      (e.p[3] - o.memories_begin) \div vmmemory_definition(o).size
                 [] kind = "global" ->
                      (e.p[3] - o.globals_begin) \div size_of_vmglobal_definition>>

AddrsBar ==
    [i \in Inst |->
        IF module[i] = None THEN << >>
        ELSE [kind \in Kind |->
                [n \in 1..Len(module[i][kind]) |-> Entity(kind, lookup(i, kind, n - 1))]]]

TablesBar ==
    [i \in Inst |->
        [n \in 1..Len(tables[i]) |->
            [e \in 1..tables[i][n].len |->
                LET item(k) == Field(tables[i][n].vec, (e - 1) * ElementSize,
                                     VMCallerCheckedAnyfunc, k)
                IN  IF item(1) = Null THEN << >>
                    ELSE Entity("func", [p |-> item(1), vmctx |-> item(3)])]]]

MemoriesBar == [i \in Inst |-> [n \in 1..Len(memories[i]) |-> memories[i][n].pages]]

(* No value of a global is below 0. *)
GlobalsBar ==
    [i \in Inst |->
        IF module[i] = None THEN << >>
        ELSE LET m == module[i]
             IN  [n \in 1..NumDefined(m, "global") |->
                    LET v == LoadVmctx(i, layout[m].global_definition[n - 1],
                                       m.global[m.num_imports["global"] + n].ty)
                    IN  IF v[1] = "num" THEN v[2] ELSE -1]]

CompiledBar ==
    IF compiled = None THEN None
    ELSE [inst |-> compiled.inst, module |-> compiled.module, from |-> compiled.from]

Promised ==
    INSTANCE WasmStore WITH
        addrs <- AddrsBar, tables <- TablesBar, memories <- MemoriesBar,
        globals <- GlobalsBar, compiled <- CompiledBar

(* Everything that compiled code and the host do through contexts, import  *)
(* pointers and shared signature ids is what the WebAssembly instances     *)
(* promise: each index reaches the entity it denotes, also through chains  *)
(* of re-exports, after tables and memories moved, and with either style   *)
(* of memory; or the process ends.                                         *)
ImplementsStore == Promised!Spec

(* The definitions that compiled code reads are those of the memories and  *)
(* tables the runtime has now: every way of growing one refreshes it.      *)
DefinitionsCurrent ==
    \A i \in Live :
        LET o == layout[module[i]]
            reads(at, struct) == <<Field(vmctx[i], at, struct, 1), Field(vmctx[i], at, struct, 2)>>
        IN  /\ \A n \in 1..Len(memories[i]) :
                reads(o.memory_definition[n - 1], VMMemoryDefinition)
                    = vmmemory(i, n - 1, memories[i][n])
            /\ \A n \in 1..Len(tables[i]) :
                reads(o.table_definition[n - 1], VMTableDefinition)
                    = vmtable(i, n - 1, tables[i][n])
=============================================================================
