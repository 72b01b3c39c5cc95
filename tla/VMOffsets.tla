----------------------------- MODULE VMOffsets -----------------------------
(***************************************************************************)
(* The layout of a VMContext: nine arrays, one after the other, whose      *)
(* lengths depend on the module.  The runtime writes them through Rust     *)
(* structures and compiled code reads them at offsets computed here, once  *)
(* when the module is compiled and once when it is instantiated.           *)
(*                                                                         *)
(* Offsets are u32 and every sum is checked, so a context either fits or   *)
(* the instantiation panics; the numbers here are those that fit.          *)
(***************************************************************************)
EXTENDS Integers, Sequences

(* What VMOffsets::new takes from a module, and the target's pointer size. *)
OffsetsType ==
    [pointer_size : {4, 8},
     num_signature_ids : Nat, num_imported_functions : Nat,
     num_imported_tables : Nat, num_imported_memories : Nat, num_imported_globals : Nat,
     num_defined_tables : Nat, num_defined_memories : Nat, num_defined_globals : Nat]

align(offset, width) == ((offset + (width - 1)) \div width) * width

(* Structures, by the offsets of their fields and their size. *)
vmfunction_import(o) == [body |-> 0 * o.pointer_size, vmctx |-> 1 * o.pointer_size,
                         size |-> 2 * o.pointer_size]

vmtable_import(o) == [from |-> 0 * o.pointer_size, vmctx |-> 1 * o.pointer_size,
                      size |-> 2 * o.pointer_size]

vmmemory_import(o) == [from |-> 0 * o.pointer_size, vmctx |-> 1 * o.pointer_size,
                       size |-> 2 * o.pointer_size]

vmglobal_import(o) == [from |-> 0 * o.pointer_size, size |-> 1 * o.pointer_size]

vmtable_definition(o) == [base |-> 0 * o.pointer_size, current_elements |-> 1 * o.pointer_size,
                          size_of_current_elements |-> 4, size |-> 2 * o.pointer_size]

vmmemory_definition(o) == [base |-> 0 * o.pointer_size, current_length |-> 1 * o.pointer_size,
                           size_of_current_length |-> 4, size |-> 2 * o.pointer_size]

size_of_vmglobal_definition == 16

size_of_vmshared_signature_index == 4

vmcaller_checked_anyfunc(o) ==
    [func_ptr |-> 0 * o.pointer_size, type_index |-> 1 * o.pointer_size,
     vmctx |-> 2 * o.pointer_size, size |-> 3 * o.pointer_size]

(* BuiltinFunctionIndex *)
memory32_grow == 0
imported_memory32_grow == 1
memory32_size == 2
imported_memory32_size == 3
builtin_functions_total_number == 4

(* Where each array begins. *)
vmctx_signature_ids_begin(o) == 0

vmctx_imported_functions_begin(o) ==
    vmctx_signature_ids_begin(o) + o.num_signature_ids * size_of_vmshared_signature_index

vmctx_imported_tables_begin(o) ==
    vmctx_imported_functions_begin(o) + o.num_imported_functions * vmfunction_import(o).size

vmctx_imported_memories_begin(o) ==
    vmctx_imported_tables_begin(o) + o.num_imported_tables * vmtable_import(o).size

vmctx_imported_globals_begin(o) ==
    vmctx_imported_memories_begin(o) + o.num_imported_memories * vmmemory_import(o).size

vmctx_tables_begin(o) ==
    vmctx_imported_globals_begin(o) + o.num_imported_globals * vmglobal_import(o).size

vmctx_memories_begin(o) ==
    vmctx_tables_begin(o) + o.num_defined_tables * vmtable_definition(o).size

vmctx_globals_begin(o) ==
    align(vmctx_memories_begin(o) + o.num_defined_memories * vmmemory_definition(o).size, 16)

vmctx_builtin_functions_begin(o) ==
    vmctx_globals_begin(o) + o.num_defined_globals * size_of_vmglobal_definition

size_of_vmctx(o) ==
    vmctx_builtin_functions_begin(o) + builtin_functions_total_number * o.pointer_size

-----------------------------------------------------------------------------
(* The elements of the arrays. *)
vmctx_vmshared_signature_id(o, index) ==
    vmctx_signature_ids_begin(o) + index * size_of_vmshared_signature_index

vmctx_vmfunction_import(o, index) ==
    vmctx_imported_functions_begin(o) + index * vmfunction_import(o).size

vmctx_vmtable_import(o, index) ==
    vmctx_imported_tables_begin(o) + index * vmtable_import(o).size

vmctx_vmmemory_import(o, index) ==
    vmctx_imported_memories_begin(o) + index * vmmemory_import(o).size

vmctx_vmglobal_import(o, index) ==
    vmctx_imported_globals_begin(o) + index * vmglobal_import(o).size

vmctx_vmtable_definition(o, index) ==
    vmctx_tables_begin(o) + index * vmtable_definition(o).size

vmctx_vmmemory_definition(o, index) ==
    vmctx_memories_begin(o) + index * vmmemory_definition(o).size

vmctx_vmglobal_definition(o, index) ==
    vmctx_globals_begin(o) + index * size_of_vmglobal_definition

vmctx_builtin_function(o, index) ==
    vmctx_builtin_functions_begin(o) + index * o.pointer_size

-----------------------------------------------------------------------------
(* How the Rust compiler lays out a #[repr(C)] structure of one to three   *)
(* fields, each aligned to its size: the runtime's view of the same bytes. *)
repr_c(sizes) ==
    LET second == align(sizes[1], sizes[2])
        third == align(second + sizes[2], sizes[3])
    IN  [k \in 1..Len(sizes) |-> CASE k = 1 -> 0 [] k = 2 -> second [] k = 3 -> third]

size_of_repr_c(sizes) ==
    LET last == Len(sizes)
        aligns == {sizes[k] : k \in 1..last}
        widest == CHOOSE w \in aligns : \A v \in aligns : v <= w
    IN  align(repr_c(sizes)[last] + sizes[last], widest)
=============================================================================
