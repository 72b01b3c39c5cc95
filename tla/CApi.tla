-------------------------------- MODULE CApi -------------------------------
(***************************************************************************)
(* The C API: stores, modules, instances, what instances export, and what  *)
(* the client makes itself; calls, callbacks and traps.                    *)
(*                                                                         *)
(* There is one engine and one store at a time.  A module has at most one  *)
(* import and one export; its shape says of which kind, whether the export *)
(* is the import, and whether it has a start function, which calls the     *)
(* function it imports.  Types are only cloned by the functions that take  *)
(* one, so they are no arguments here.                                     *)
(***************************************************************************)
EXTENDS CApiTypes

CONSTANTS
    MaxCalls,    \* bound: calls in progress
    MaxItems     \* bound: items of a table

External == {"func", "global", "table", "memory"}

ASSUME CApiAssumption ==
    /\ \A b \in Bounds : \A s \in b.shapes :
          /\ s \in [import : External \cup {None}, export : External \cup {"import", None},
                    start : BOOLEAN]
          /\ (s.start => s.import = "func") /\ (s.export = "import" => s.import # None)
    /\ {MaxCalls, MaxItems} \subseteq Nat

Init ==
    /\ heap = <<>> /\ obj = <<>>
    /\ owned = {} /\ lent = {} /\ calls = <<>>
    /\ finalized = [e \in Info |-> None]
    /\ panicked = FALSE
    /\ bound \in Bounds

wasm_engine_new == Give(Box("engine", NewId("engine")), NewId("engine") :> Object("engine", {}, {}))
wasm_engine_delete(engine) == Drop(engine)

(* Store::new makes the compiler, which instances have references to, too. *)
wasm_store_new(engine) ==
    Give(Box("store", NewId("store")),
         NewId("compiler") :> Object("compiler", {}, {})
         @@ NewId("store") :> [Object("store", {heap[engine].obj}, {NewId("compiler")}) EXCEPT
                                  !.compiler = NewId("compiler")])
wasm_store_delete(store) == Drop(store)

wasm_module_new(store, shape) ==
    Give(Box("module", NewId("module")),
         NewId("module") :> [Object("module", {heap[store].obj}, {}) EXCEPT !.shape = shape])
wasm_module_delete(module) == Drop(module)

ExportKind(shape) == IF shape.export = "import" THEN shape.import ELSE shape.export
TypeVector(k, t) == GiveVector(k, IF t = None THEN <<>> ELSE <<Type(k, t)>>)
wasm_module_imports(module) == TypeVector("importtype", obj[heap[module].obj].shape.import)
wasm_module_exports(module) == TypeVector("exporttype", ExportKind(obj[heap[module].obj].shape))

-----------------------------------------------------------------------------
(* Traps *)
wasm_trap_new == Give(Box("trap", NewId("trap")), NewId("trap") :> Object("trap", {}, {}))
wasm_trap_delete(trap) == Drop(trap)
wasm_trap_message(trap) ==
    IF borrow_fails(heap[trap].obj) THEN Panic ELSE Give(Box("bytes", None), <<>>)
wasm_trap_origin(trap) == UNCHANGED vars
wasm_trap_trace(trap) == GiveVector("frame", <<>>)
wasm_frame_vec_delete(frames) == Drop(frames)

(* Functions of the client's.  The instance made for one runs the callback *)
(* and has a reference to the callable, as the function has; e is what the *)
(* client wants finalized with the callable.                               *)
CallbackWithEnv(e) == [Object("callable", {}, {}) EXCEPT !.info = e]
TrampolineState ==
    [Object("inst", {}, {NewId("callable")}) EXCEPT !.host = TRUE, !.uses = {NewId("callable")}]
NativeCallable(store) ==
    [Object("func", {store}, {NewId("inst"), NewId("callable")}) EXCEPT
        !.uses = {NewId("inst"), NewId("callable")}, !.vmctx = NewId("inst"), !.home = NewId("inst"),
        !.store = store, !.native = TRUE]

(* Registering the signature takes the store and the compiler for itself.  *)
register_fails(store) == borrow_mut_fails(store) \/ borrow_mut_fails(obj[store].compiler)

NewFunc(store, e) ==
    /\ Avoids("start", register_fails(heap[store].obj))
    /\ IF register_fails(heap[store].obj)
       THEN Panic
       ELSE Give(Box("func", NewId("func")),
                 NewId("callable") :> CallbackWithEnv(e) @@ NewId("inst") :> TrampolineState
                 @@ NewId("func") :> NativeCallable(heap[store].obj))

wasm_func_new(store) == NewFunc(store, None)
wasm_func_new_with_env(store, e) == finalized[e] = None /\ NewFunc(store, e)
wasm_func_delete(f) == Drop(f)

wasm_func_as_ref(f) ==
    /\ Avoids("calling", borrow_mut_fails(heap[f].obj))
    /\ IF borrow_mut_fails(heap[f].obj)
       THEN Panic
       ELSE \/ \E r \in AnyRefs(heap[f].obj) : Give(Box("ref", r), <<>>)
            \/ /\ AnyRefs(heap[f].obj) = {}
               /\ Give(Box("ref", NewId("anyref")),
                       NewId("anyref") :> AnyRef(heap[f].obj, KeptBy({heap[f].obj})))
wasm_ref_delete(r) == Drop(r)

-----------------------------------------------------------------------------
(* Globals, tables and memories of the client's.  Each has an instance of  *)
(* its own; the definition of a global is not in it, but in the global.    *)
create_handle(items) == [Object("inst", {}, {}) EXCEPT !.items = items]

create_handle_with_memory == create_handle(<<>>)
create_handle_with_table(items) == create_handle(items)
create_global == create_handle(<<>>)

Own(k, store, home) ==
    [Object(k, {store}, {NewId("inst")}) EXCEPT
        !.uses = {NewId("inst")}, !.vmctx = NewId("inst"), !.home = home, !.handle = NewId("inst"),
        !.store = store]

wasm_global_new(store) ==
    Give(Box("global", NewId("global")),
         NewId("inst") :> create_global
         @@ NewId("global") :> Own("global", heap[store].obj, NewId("global")))

wasm_memory_new(store) ==
    Give(Box("memory", NewId("memory")),
         NewId("inst") :> create_handle_with_memory
         @@ NewId("memory") :> Own("memory", heap[store].obj, NewId("inst")))

(* from_funcref: the item for a table, or None for null. *)
Item(f) == [func |-> f, vmctx |-> obj[f].vmctx]
Referent(r) == obj[heap[r].obj].of
Consume(r) == IF r = None THEN heap ELSE Without(heap, {r})
item_fails(r, store) == r # None /\ register_fails(store)
ItemOf(r) == IF r = None THEN None ELSE Item(Referent(r))

NewTable(store, init) ==
    NewId("inst") :> create_handle_with_table(<<ItemOf(init)>>)
    @@ NewId("table") :> Own("table", heap[store].obj, NewId("inst"))

wasm_table_new(store, init) ==
    /\ Room("table")
    /\ Avoids("start", item_fails(init, heap[store].obj))
    /\ IF item_fails(init, heap[store].obj)
       THEN Panic
       ELSE \E o \in {NewTable(store, init) @@ obj},
               h \in {NewAddr("table") :> Box("table", NewId("table")) @@ Consume(init)} :
               /\ Keeps(h, o, calls)
               /\ owned' = (owned \ {init}) \cup {NewAddr("table")}
               /\ lent' = lent
               /\ Settle(h, o, calls)

(* Objects for what the instance n exports, or for an item of a table: kept *)
(* is what n keeps.  A global has no reference to the instance.            *)
FunctionOfStore(store, n, kept, vmctx) ==
    [Object("func", {store}, {}) EXCEPT
        !.uses = {n, vmctx}, !.vmctx = vmctx, !.home = vmctx, !.handle = n, !.store = store]
from_wasmtime_function(store, n, kept, vmctx) ==
    [Object("func", {store}, kept) EXCEPT
        !.uses = {n, vmctx}, !.vmctx = vmctx, !.home = vmctx, !.handle = n, !.store = store]
from_wasmtime_global(store, instance, vmctx, home) ==
    [Object("global", {store}, {}) EXCEPT
        !.uses = {vmctx, home}, !.vmctx = vmctx, !.home = home, !.store = store, !.from = instance]
from_wasmtime_memory(k, store, n, kept, vmctx, home) ==
    [Object(k, {store}, kept) EXCEPT
        !.uses = {n, vmctx, home}, !.vmctx = vmctx, !.home = home, !.handle = n, !.store = store]

(* Another box for the same object.  What is cached in the first one is    *)
(* cloned with it, and cannot be told from what would be made on demand.   *)
Copy(k, a) == Give(Box(k, heap[a].obj), <<>>)
wasm_global_copy(g) == Copy("global", g)
wasm_table_copy(t) == Copy("table", t)
wasm_memory_copy(m) == Copy("memory", m)
wasm_global_delete(g) == Drop(g)
wasm_table_delete(t) == Drop(t)
wasm_memory_delete(m) == Drop(m)

wasm_global_get(g) == IF borrow_mut_fails(heap[g].obj) THEN Panic ELSE UNCHANGED vars
wasm_global_set(g) == IF borrow_mut_fails(heap[g].obj) THEN Panic ELSE UNCHANGED vars

(* table_index and memory_index look the definition up in the handle that  *)
(* the object has, and assert that it is there.                            *)
index_fails(i) == obj[i].handle # obj[i].home

(* A new function for the item, and an AnyRef for the function. *)
from_checked_anyfunc(item, store) ==
    \/ item = None /\ UNCHANGED vars
    \/ /\ item # None
       /\ Give(Box("ref", NewId("anyref")),
               NewId("func") :> from_wasmtime_function(store, item.vmctx, KeptBy({item.vmctx}), item.vmctx)
               @@ NewId("anyref") :> AnyRef(NewId("func"), {NewId("func")} \cup KeptBy({item.vmctx, store})))

wasm_table_get(t, index) ==
    /\ Avoids("reexports", index_fails(heap[t].obj))
    /\ Avoids("bounds", index > Len(obj[obj[heap[t].obj].home].items))
    /\ IF index_fails(heap[t].obj) \/ index > Len(obj[obj[heap[t].obj].home].items)
       THEN Panic
       ELSE from_checked_anyfunc(obj[obj[heap[t].obj].home].items[index], obj[heap[t].obj].store)

SetItems(t, r, items) ==
    \E o \in {[obj EXCEPT ![obj[heap[t].obj].home].items = items]} :
        /\ Keeps(Consume(r), o, calls)
        /\ owned' = owned \ {r}
        /\ lent' = lent
        /\ Settle(Consume(r), o, calls)

wasm_table_set(t, index, r) ==
    /\ Avoids("start", item_fails(r, obj[heap[t].obj].store))
    /\ Avoids("reexports", index_fails(heap[t].obj))
    /\ IF index_fails(heap[t].obj) \/ item_fails(r, obj[heap[t].obj].store)
       THEN Panic
       ELSE \E items \in {obj[obj[heap[t].obj].home].items} :
               SetItems(t, r, IF index \in DOMAIN items THEN [items EXCEPT ![index] = ItemOf(r)] ELSE items)

Grown(items, item) == IF Len(items) < MaxItems THEN Append(items, item) ELSE items

wasm_table_grow(t, init) ==
    \E items \in {obj[obj[heap[t].obj].home].items} :
    \E fails \in {Len(items) < MaxItems /\ item_fails(init, obj[heap[t].obj].store)} :
        /\ Avoids("start", fails)
        /\ Avoids("reexports", index_fails(heap[t].obj))
        /\ IF borrow_mut_fails(heap[t].obj) \/ index_fails(heap[t].obj) \/ fails
           THEN Panic
           ELSE SetItems(t, init, Grown(items, ItemOf(init)))

wasm_memory_grow(m) ==
    /\ Avoids("reexports", index_fails(heap[m].obj))
    /\ IF index_fails(heap[m].obj) \/ borrow_mut_fails(heap[m].obj) THEN Panic ELSE UNCHANGED vars

-----------------------------------------------------------------------------
(* Externs: a function and the like inside of an extern, and an extern     *)
(* inside of a function and the like.                                      *)
AsExtern(a) == Lend(a, "ext", Box("extern", heap[a].obj), <<>>)
wasm_func_as_extern(f) == AsExtern(f)
wasm_global_as_extern(g) == AsExtern(g)
wasm_table_as_extern(t) == AsExtern(t)
wasm_memory_as_extern(m) == AsExtern(m)

ExternAs(e, k) ==
    /\ Avoids("kinds", obj[heap[e].obj].kind # k)
    /\ IF obj[heap[e].obj].kind # k THEN Panic ELSE Lend(e, "as", Box(k, heap[e].obj), <<>>)
wasm_extern_as_func(e) == ExternAs(e, "func")
wasm_extern_as_global(e) == ExternAs(e, "global")
wasm_extern_as_table(e) == ExternAs(e, "table")
wasm_extern_as_memory(e) == ExternAs(e, "memory")

(* What only reads, through one borrow or none. *)
Reads(a) == IF heap[a].obj # None /\ borrow_fails(heap[a].obj) THEN Panic ELSE UNCHANGED vars
wasm_func_param_arity(f) == Reads(f)
wasm_func_result_arity(f) == Reads(f)
wasm_memory_data(m) == Reads(m)
wasm_memory_data_size(m) == Reads(m)
wasm_memory_size(m) == Reads(m)
wasm_table_size(t) == Reads(t)
wasm_extern_kind(e) == Reads(e)
wasm_global_same(g) == UNCHANGED vars
wasm_table_same(t) == UNCHANGED vars
wasm_memory_same(m) == UNCHANGED vars

wasm_extern_type(e) ==
    IF borrow_fails(heap[e].obj) THEN Panic
    ELSE Give(Type("externtype", obj[heap[e].obj].kind), <<>>)
FreesBuffer(v) ==
    /\ owned' = owned \ {v}
    /\ lent' = lent
    /\ Settle([a \in DOMAIN heap \ {v} |-> [heap[a] EXCEPT !.under = @ \ {v}]], obj, calls)
wasm_extern_vec_delete(v) == Drop(v)

-----------------------------------------------------------------------------
(* Instances.  link_module takes a reference to the instance of what is    *)
(* imported, and a plain pointer to its definition; compiled code is the   *)
(* compiler's.                                                             *)
link(shape, x, compiler) ==
    [Object("inst", IF x = None THEN {} ELSE {obj[x].vmctx}, {}) EXCEPT
        !.shape = shape,
        !.uses = {compiler} \cup (IF x = None THEN {} ELSE {obj[x].vmctx, obj[x].home}),
        !.vmctx = IF x = None THEN None ELSE obj[x].vmctx,
        !.home = IF x = None THEN None ELSE obj[x].home,
        !.items = IF shape.export = "table" THEN <<None>> ELSE <<>>]

(* The object for what inst, at n, exports as a k of the given context and *)
(* owner.                                                                  *)
Exported(k, store, n, inst, vmctx, home) ==
    CASE k = "func" -> from_wasmtime_function(store, n, inst.keeps, vmctx)
      [] k = "global" -> from_wasmtime_global(store, NewId("instance"), vmctx, home)
      [] OTHER -> from_wasmtime_memory(k, store, n, inst.keeps, vmctx, home)

Exports(store, n, inst) ==
    IF inst.shape.export = None THEN <<>>
    ELSE NewId(ExportKind(inst.shape)) :>
            IF inst.shape.export = "import"
            THEN Exported(inst.shape.import, store, n, inst, inst.vmctx, inst.home)
            ELSE Exported(inst.shape.export, store, n, inst, n, n)

(* Instance::new once inst is there: the objects for its exports, and the  *)
(* Instance, which also keeps the compiler.                                *)
Instance(store, inst, exports) ==
    [Object("instance", {obj[store].compiler}, inst.keeps \cup UNION {exports[i].keeps : i \in DOMAIN exports})
        EXCEPT !.exports = SetToSeq(DOMAIN exports)]

Finish(n, inst, store, c) ==
    /\ Room("instance")
    /\ owned' = owned \cup {NewAddr("instance")}
    /\ lent' = lent
    /\ \E exports \in {Exports(store, n, inst)} :
          Settle(NewAddr("instance") :> Box("instance", NewId("instance")) @@ heap,
                 n :> inst @@ NewId("instance") :> Instance(store, inst, exports) @@ exports @@ obj,
                 c)

(* Instantiation fails: the trap is given to the client if it asked. *)
Fail(wanted, c) ==
    \/ /\ wanted /\ Room("trap")
       /\ owned' = owned \cup {NewAddr("trap")}
       /\ lent' = lent
       /\ Settle(NewAddr("trap") :> Box("trap", NewId("trap")) @@ heap,
                 NewId("trap") :> Object("trap", {}, {}) @@ obj, c)
    \/ /\ ~wanted
       /\ UNCHANGED <<owned, lent>>
       /\ Settle(heap, obj, c)

(* While the start function runs, the compiler is borrowed, and the module. *)
Started(n, store, module, x, wanted) ==
    [what |-> "start", box |-> None, fn |-> None, path |-> <<n>>, native |-> FALSE,
     store |-> store, wanted |-> wanted,
     holds |-> {n, module, store, obj[store].compiler} \cup ({x} \ {None}),
     borrows |-> {<<module, "ref">>, <<obj[store].compiler, "mut">>}]

Instantiate(store, module, x, wanted) ==
    \E shape \in {obj[module].shape} :
    \E inst \in {link(shape, x, obj[store].compiler)} :
        \/ /\ ~shape.start
           /\ Finish(NewId("inst"), inst, store, calls)
        \/ /\ shape.start /\ Len(calls) < MaxCalls
           /\ UNCHANGED <<owned, lent>>
           /\ Settle(heap, NewId("inst") :> inst @@ obj,
                     Append(calls, Started(NewId("inst"), store, module, x, wanted)))

(* e is the extern for the import, if there is one; wanted says whether    *)
(* the client gave a place for a trap.                                     *)
wasm_instance_new(store, module, e, wanted) ==
    \E s \in {heap[store].obj}, m \in {heap[module].obj}, x \in {IF e = None THEN None ELSE heap[e].obj} :
        /\ (e = None) <=> (obj[m].shape.import = None)
        /\ Avoids("start", register_fails(s))
        /\ IF register_fails(s) THEN Panic
           ELSE IF e # None /\ obj[x].kind # obj[m].shape.import THEN Fail(wanted, calls)
           ELSE Instantiate(s, m, x, wanted)

wasm_instance_delete(instance) == Drop(instance)

wasm_instance_exports(instance) ==
    \E exports \in {obj[heap[instance].obj].exports} :
        GiveVector("extern", [k \in DOMAIN exports |-> Box("extern", exports[k])])

(* Replaces what was there before, whose finalizer never runs. *)
wasm_instance_set_host_info_with_finalizer(instance, e) ==
    /\ finalized[e] = None
    /\ Avoids("info", obj[heap[instance].obj].info # None)
    /\ IF borrow_mut_fails(heap[instance].obj) THEN Panic
       ELSE /\ UNCHANGED <<owned, lent>>
            /\ Settle(heap, [obj EXCEPT ![heap[instance].obj].info = e], calls)

-----------------------------------------------------------------------------
(* Calls.  A function of the client's is called directly; any other through *)
(* a trampoline, for which the compiler is borrowed for a moment.          *)
call_fails(f) ==
    ~obj[f].native /\ register_fails(obj[f].store)

Called(f, how) ==
    calls' = Append(calls,
        [what |-> "call", box |-> f, fn |-> heap[f].obj, path |-> <<obj[heap[f].obj].vmctx>>,
         native |-> obj[heap[f].obj].native, store |-> None, wanted |-> TRUE,
         holds |-> {}, borrows |-> {<<heap[f].obj, how>>}])

CallBorrows(f, how) ==
    /\ Len(calls) < MaxCalls
    /\ Avoids("start", call_fails(heap[f].obj))
    /\ IF borrow_fails(heap[f].obj) \/ call_fails(heap[f].obj)
       THEN Panic
       ELSE Called(f, how) /\ UNCHANGED <<heap, obj, owned, lent, finalized, panicked, bound>>

BorrowsMutably(f) == CallBorrows(f, "mut")
wasm_func_call(f) == CallBorrows(f, "ref")

Call == Last(calls)
Running == Last(Call.path)

(* The innermost call returns: its last step, or back to the caller. *)
Return ==
    \/ /\ Len(Call.path) > 1
       /\ UNCHANGED <<owned, lent>>
       /\ Settle(heap, obj, [calls EXCEPT ![Len(calls)].path = Front(@),
                                         ![Len(calls)].holds = @ \ {Running}])
    \/ /\ Len(Call.path) = 1 /\ Call.what = "call"
       /\ UNCHANGED <<owned, lent>>
       /\ Settle(heap, obj, Front(calls))
    \/ /\ Len(Call.path) = 1 /\ Call.what = "start"
       /\ Finish(Running, obj[Running], Call.store, Front(calls))

(* Compiled code, and what it imports; stub_fn holds the client's. *)
CodeRuns == ~panicked /\ calls # <<>> /\ ~obj[Running].host

CodeCalls ==
    /\ CodeRuns /\ obj[Running].shape.import = "func"
    /\ \E callee \in {obj[Running].vmctx} :
          calls' = [calls EXCEPT ![Len(calls)].path = Append(@, callee),
                                 ![Len(calls)].holds = @ \cup (IF obj[callee].host THEN {callee} ELSE {})]
    /\ UNCHANGED <<heap, obj, owned, lent, finalized, panicked, bound>>

CodeReturns == CodeRuns /\ Return
CodeTraps == CodeRuns /\ Fail(Call.wanted, Front(calls))

(* The callback: without a trap, or with one, which it hands over.  A       *)
(* trap that goes through compiled code is kept where it came in, and      *)
(* another is made for the caller.                                         *)
CallbackReturns == ClientRuns /\ calls # <<>> /\ Return

CallbackTraps(trap) ==
    /\ ClientRuns /\ calls # <<>>
    /\ lent' = lent
    /\ \/ /\ Call.native
          /\ owned' = (owned \ {trap}) \cup {NewAddr("trap")}
          /\ Settle(NewAddr("trap") :> Box("trap", heap[trap].obj) @@ Without(heap, {trap}),
                    obj, Front(calls))
       \/ /\ ~Call.native
          /\ owned' = (owned \ {trap}) \cup (IF Call.wanted THEN {NewAddr("trap")} ELSE {})
          /\ Settle((IF Call.wanted THEN NewAddr("trap") :> Box("trap", NewId("trap")) ELSE <<>>)
                       @@ Without(heap, {trap}),
                    [NewId("trap") :> Object("trap", {}, {}) @@ obj EXCEPT ![Running].trap = heap[trap].obj],
                    Front(calls))

-----------------------------------------------------------------------------
OrNone(S) == S \cup {None}

TypeFunctions ==
    \/ wasm_byte_vec_new \/ wasm_byte_vec_new_uninitialized
    \/ \E v \in Owned("bytes") : wasm_byte_vec_delete(v)
    \/ wasm_valtype_new \/ wasm_valtype_vec_new_empty
    \/ \E vt \in Owned("valtype") :
          \/ wasm_valtype_delete(vt) \/ wasm_valtype_vec_new({vt})
          \/ wasm_valtype_vec_new_uninitialized({vt})
          \/ wasm_globaltype_new(vt) \/ wasm_tabletype_new(vt)
    \/ \E v \in Owned("vec") :
          \/ /\ heap[v].type = "valtype"
             /\ \/ wasm_valtype_vec_copy(v)
                \/ \E w \in Owned("vec") \ {v} : heap[w].type = "valtype" /\ wasm_functype_new(v, w)
          \/ heap[v].type = "importtype" /\ wasm_importtype_vec_delete(v)
          \/ heap[v].type = "exporttype" /\ wasm_exporttype_vec_delete(v)
    \/ \E ft \in Of("functype") : wasm_functype_params(ft) \/ wasm_functype_results(ft)
    \/ \E gt \in Of("globaltype") : wasm_globaltype_content(gt) \/ wasm_globaltype_mutability(gt)
    \/ \E tt \in Of("tabletype") : wasm_tabletype_element(tt) \/ wasm_tabletype_limits(tt)
    \/ \E mt \in Of("memorytype") : wasm_memorytype_limits(mt)
    \/ wasm_memorytype_new
    \/ \E ft \in Owned("functype") : wasm_functype_delete(ft)
    \/ \E gt \in Owned("globaltype") : wasm_globaltype_delete(gt)
    \/ \E tt \in Owned("tabletype") : wasm_tabletype_delete(tt)
    \/ \E mt \in Owned("memorytype") : wasm_memorytype_delete(mt)
    \/ \E et \in Owned("externtype") : wasm_externtype_delete(et)
    \/ \E vt \in Of("valtype") : wasm_valtype_kind(vt)
    \/ \E et \in Of("externtype") :
          \/ wasm_externtype_kind(et)
          \/ wasm_externtype_as_functype_const(et) \/ wasm_externtype_as_globaltype_const(et)
          \/ wasm_externtype_as_tabletype_const(et) \/ wasm_externtype_as_memorytype_const(et)
    \/ \E it \in Of("importtype") :
          wasm_importtype_module(it) \/ wasm_importtype_name(it) \/ wasm_importtype_type(it)
    \/ \E et \in Of("exporttype") : wasm_exporttype_name(et) \/ wasm_exporttype_type(et)

Constructors ==
    \/ Of("engine") = {} /\ wasm_engine_new
    \/ \E e \in Of("engine") : (\A i \in DOMAIN obj : obj[i].kind # "store") /\ wasm_store_new(e)
    \/ wasm_trap_new
    \/ \E s \in Of("store") :
          \/ \E shape \in bound.shapes : wasm_module_new(s, shape)
          \/ wasm_func_new(s) \/ \E e \in Info : wasm_func_new_with_env(s, e)
          \/ wasm_global_new(s) \/ wasm_memory_new(s)
          \/ \E r \in OrNone(Owned("ref")) : wasm_table_new(s, r)
          \/ \E m \in Of("module"), e \in OrNone(Of("extern")), wanted \in BOOLEAN :
                wasm_instance_new(s, m, e, wanted)
    \/ \E g \in Of("global") : wasm_global_copy(g)
    \/ \E t \in Of("table") : wasm_table_copy(t)
    \/ \E m \in Of("memory") : wasm_memory_copy(m)

Destructors ==
    \/ \E a \in Owned("engine") : wasm_engine_delete(a)
    \/ \E a \in Owned("store") : wasm_store_delete(a)
    \/ \E a \in Owned("module") : wasm_module_delete(a)
    \/ \E a \in Owned("instance") : wasm_instance_delete(a)
    \/ \E a \in Owned("trap") : wasm_trap_delete(a)
    \/ \E a \in Owned("func") : wasm_func_delete(a)
    \/ \E a \in Owned("ref") : wasm_ref_delete(a)
    \/ \E a \in Owned("global") : wasm_global_delete(a)
    \/ \E a \in Owned("table") : wasm_table_delete(a)
    \/ \E a \in Owned("memory") : wasm_memory_delete(a)
    \/ \E a \in Owned("vec") :
          \/ heap[a].type = "extern" /\ wasm_extern_vec_delete(a)
          \/ heap[a].type = "frame" /\ wasm_frame_vec_delete(a)

Accessors ==
    \/ \E m \in Of("module") : wasm_module_imports(m) \/ wasm_module_exports(m)
    \/ \E i \in Of("instance") :
          \/ wasm_instance_exports(i)
          \/ \E e \in Info : wasm_instance_set_host_info_with_finalizer(i, e)
    \/ \E t \in Of("trap") : wasm_trap_message(t) \/ wasm_trap_trace(t) \/ wasm_trap_origin(t)
    \/ \E f \in Of("func") :
          \/ wasm_func_as_ref(f) \/ wasm_func_as_extern(f) \/ wasm_func_call(f)
          \/ wasm_func_param_arity(f) \/ wasm_func_result_arity(f)
    \/ \E g \in Of("global") :
          wasm_global_as_extern(g) \/ wasm_global_get(g) \/ wasm_global_set(g) \/ wasm_global_same(g)
    \/ \E m \in Of("memory") :
          \/ wasm_memory_as_extern(m) \/ wasm_memory_grow(m) \/ wasm_memory_same(m)
          \/ wasm_memory_data(m) \/ wasm_memory_data_size(m) \/ wasm_memory_size(m)
    \/ \E t \in Of("table") :
          \/ wasm_table_as_extern(t) \/ wasm_table_size(t) \/ wasm_table_same(t)
          \/ \E k \in 1 .. MaxItems + 1 : wasm_table_get(t, k)
          \/ \E r \in OrNone(Owned("ref")) :
                wasm_table_grow(t, r) \/ \E k \in 1 .. MaxItems : wasm_table_set(t, k, r)
    \/ \E e \in Of("extern") :
          \/ wasm_extern_as_func(e) \/ wasm_extern_as_global(e)
          \/ wasm_extern_as_table(e) \/ wasm_extern_as_memory(e) \/ wasm_extern_type(e)
          \/ wasm_extern_kind(e)

Next ==
    \/ ClientRuns /\ TypeFunctions
    \/ ClientRuns /\ Constructors
    \/ ClientRuns /\ Destructors
    \/ ClientRuns /\ Accessors
    \/ CodeCalls \/ CodeReturns \/ CodeTraps
    \/ CallbackReturns \/ \E t \in Owned("trap") : CallbackTraps(t)

Spec == Init /\ [][Next]_vars

-----------------------------------------------------------------------------
(* Every pointer that nothing counts leads to something that still exists: *)
(* the client's own, those of objects and instances to contexts,           *)
(* definitions, code and callables, those in tables, and those of calls in *)
(* progress, whatever was deleted meanwhile, by a callback for instance.   *)
NothingDangles ==
    /\ \A a \in owned \cup lent : a \in DOMAIN heap
    /\ \A a \in DOMAIN heap :
          /\ heap[a].elems \subseteq DOMAIN heap
          /\ heap[a].under \subseteq DOMAIN heap
          /\ heap[a].obj \in DOMAIN obj \cup {None}
    /\ \A i \in DOMAIN obj :
          /\ obj[i].uses \subseteq DOMAIN obj
          /\ \A k \in DOMAIN obj[i].items :
                obj[i].items[k] # None => obj[i].items[k].vmctx \in DOMAIN obj
    /\ \A k \in DOMAIN calls :
          /\ calls[k].what = "call" => calls[k].fn \in DOMAIN obj
          /\ Range(calls[k].path) \subseteq DOMAIN obj

(* What the client attached to a function or an instance is not finalized  *)
(* while a box, a call in progress or compiled code can still get to it;   *)
(* it is finalized at most once; and it has been, when the client has      *)
(* deleted all that it owns and no call is in progress.                    *)
FinalizedAtTheEnd ==
    \A e \in Info :
        finalized[e] # None =>
            /\ finalized[e] = IF \E i \in DOMAIN obj : obj[i].info = e THEN 0 ELSE 1
            /\ owned = {} /\ calls = <<>> => finalized[e] = 1

(* RefCells are not borrowed twice, and assertions on handles and kinds    *)
(* hold.                                                                   *)
NoPanic == ~panicked
=============================================================================
