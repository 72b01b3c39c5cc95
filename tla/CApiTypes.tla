---------------------------- MODULE CApiTypes ------------------------------
(***************************************************************************)
(* Types, names and vectors in the C API: which of them the client has to  *)
(* delete, which of them live inside of others, and which are consumed.    *)
(***************************************************************************)
EXTENDS HostRef

(* Vectors of bytes.  The buffer is the box. *)
wasm_byte_vec_new == Give(Box("bytes", None), <<>>)
wasm_byte_vec_new_uninitialized == Give(Box("bytes", None), <<>>)
wasm_byte_vec_delete(v) == Drop(v)

(* Value types, and vectors of them that the client makes: the elements    *)
(* are boxes of the client's, which it hands over with the vector.         *)
wasm_valtype_new == Give(Box("valtype", None), <<>>)
wasm_valtype_delete(vt) == Drop(vt)
wasm_valtype_kind(vt) == UNCHANGED vars

set_from_slice(vts) ==
    /\ Room("vec")
    /\ owned' = (owned \ vts) \cup {NewAddr("vec")}
    /\ lent' = lent \cup vts
    /\ Settle(NewAddr("vec") :> [Type("vec", "valtype") EXCEPT !.elems = vts] @@ heap, obj, calls)

wasm_valtype_vec_new_empty == set_from_slice({})
wasm_valtype_vec_new(vts) == set_from_slice(vts)

(* The client fills the new vector in. *)
wasm_valtype_vec_new_uninitialized(vts) == set_from_slice(vts)

(* Copies the pointers: two vectors with the same elements. *)
wasm_valtype_vec_copy(src) == set_from_slice(heap[src].elems)

(* The two buffers are consumed, their elements are left where they are. *)
wasm_functype_new(params, results) ==
    /\ Room("functype")
    /\ owned' = (owned \ {params, results}) \cup {NewAddr("functype")}
    /\ lent' = lent
    /\ Settle(NewAddr("functype") :> Type("functype", [params |-> Cardinality(heap[params].elems),
                                                       results |-> Cardinality(heap[results].elems)])
              @@ Without(heap, {params, results}), obj, calls)

wasm_functype_delete(ft) == Drop(ft)

ValTypes(n) == IF n = 0 THEN <<>> ELSE <<Box("valtype", None)>>
wasm_functype_params(ft) == Lend(ft, "params", Type("vec", "valtype"), ValTypes(heap[ft].type.params))
wasm_functype_results(ft) == Lend(ft, "results", Type("vec", "valtype"), ValTypes(heap[ft].type.results))

(* The box of the value type is consumed, its content moves into the cache. *)
wasm_globaltype_new(ty) ==
    /\ Room("globaltype")
    /\ owned' = (owned \ {ty}) \cup {NewAddr("globaltype")}
    /\ lent' = lent
    /\ Settle(NewAddr("globaltype") :> Box("globaltype", None)
              @@ NewAddr("valtype") :> Inside(NewAddr("globaltype"), {}, "content", Box("valtype", None))
              @@ Without(heap, {ty}), obj, calls)

wasm_globaltype_delete(gt) == Drop(gt)
wasm_globaltype_content(gt) == Lend(gt, "content", Box("valtype", None), <<>>)
wasm_globaltype_mutability(gt) == UNCHANGED vars

wasm_tabletype_new(ty) ==
    /\ Room("tabletype")
    /\ owned' = (owned \ {ty}) \cup {NewAddr("tabletype")}
    /\ lent' = lent
    /\ Settle(NewAddr("tabletype") :> Box("tabletype", None) @@ Without(heap, {ty}), obj, calls)

wasm_tabletype_delete(tt) == Drop(tt)
wasm_tabletype_element(tt) == Lend(tt, "element", Box("valtype", None), <<>>)
wasm_tabletype_limits(tt) == Lend(tt, "limits", Box("limits", None), <<>>)

wasm_memorytype_new == Give(Box("memorytype", None), <<>>)
wasm_memorytype_delete(mt) == Drop(mt)
wasm_memorytype_limits(mt) == Lend(mt, "limits", Box("limits", None), <<>>)

-----------------------------------------------------------------------------
(* Types of what modules import and export: k is func, global, table or    *)
(* memory.  The conversions panic for another kind than the type's own.    *)
TypeOf(k) ==
    IF k = "func" THEN Type("functype", [params |-> 1, results |-> 0])
    ELSE Box([global |-> "globaltype", table |-> "tabletype", memory |-> "memorytype"][k], None)

AsType(et, k) ==
    /\ Avoids("kinds", heap[et].type # k)
    /\ IF heap[et].type # k THEN Panic ELSE Lend(et, "as", TypeOf(k), <<>>)

wasm_externtype_as_functype_const(et) == AsType(et, "func")
wasm_externtype_as_globaltype_const(et) == AsType(et, "global")
wasm_externtype_as_tabletype_const(et) == AsType(et, "table")
wasm_externtype_as_memorytype_const(et) == AsType(et, "memory")
wasm_externtype_delete(et) == Drop(et)
wasm_externtype_kind(et) == UNCHANGED vars

wasm_importtype_module(it) == Lend(it, "module", Box("bytes", None), <<>>)
wasm_importtype_name(it) == Lend(it, "name", Box("bytes", None), <<>>)

(* A new box every time, the client's to delete... *)
wasm_importtype_type(it) == Give(Type("externtype", heap[it].type), <<>>)

(* ...where the type of an export is inside of it. *)
wasm_exporttype_type(et) == Lend(et, "type", Type("externtype", heap[et].type), <<>>)
wasm_exporttype_name(et) == Lend(et, "name", Box("bytes", None), <<>>)
wasm_importtype_vec_delete(v) == Drop(v)
wasm_exporttype_vec_delete(v) == Drop(v)
=============================================================================
