--------------------------- MODULE VMOffsetsProofs ---------------------------
(***************************************************************************)
(* Proofs about the layout of a VMContext, for every number of signatures, *)
(* imports and definitions and for both pointer sizes: the slots that the  *)
(* offsets of VMOffsets give out lie in the context and do not overlap,    *)
(* the 16-byte globals are aligned, and the offsets that compiled code     *)
(* uses inside a structure are those where the Rust compiler puts its      *)
(* fields.                                                                 *)
(*                                                                         *)
(* The argument is one inequality per array (it ends where the next one    *)
(* begins, or before), which makes the order of the arrays total.          *)
(***************************************************************************)
EXTENDS VMOffsets, TLAPS

(* The nine arrays: their slots' number and width, and the offset of one.  *)
Count(o) ==
    <<o.num_signature_ids, o.num_imported_functions, o.num_imported_tables,
      o.num_imported_memories, o.num_imported_globals, o.num_defined_tables,
      o.num_defined_memories, o.num_defined_globals, builtin_functions_total_number>>

Width(o) ==
    <<size_of_vmshared_signature_index, vmfunction_import(o).size, vmtable_import(o).size,
      vmmemory_import(o).size, vmglobal_import(o).size, vmtable_definition(o).size,
      vmmemory_definition(o).size, size_of_vmglobal_definition, o.pointer_size>>

Slot(o, a, index) ==
    CASE a = 1 -> vmctx_vmshared_signature_id(o, index)
      [] a = 2 -> vmctx_vmfunction_import(o, index)
      [] a = 3 -> vmctx_vmtable_import(o, index)
      [] a = 4 -> vmctx_vmmemory_import(o, index)
      [] a = 5 -> vmctx_vmglobal_import(o, index)
      [] a = 6 -> vmctx_vmtable_definition(o, index)
      [] a = 7 -> vmctx_vmmemory_definition(o, index)
      [] a = 8 -> vmctx_vmglobal_definition(o, index)
      [] a = 9 -> vmctx_builtin_function(o, index)

Begin(o) ==
    <<vmctx_signature_ids_begin(o), vmctx_imported_functions_begin(o),
      vmctx_imported_tables_begin(o), vmctx_imported_memories_begin(o),
      vmctx_imported_globals_begin(o), vmctx_tables_begin(o), vmctx_memories_begin(o),
      vmctx_globals_begin(o), vmctx_builtin_functions_begin(o), size_of_vmctx(o)>>

-----------------------------------------------------------------------------

(* align rounds up to a multiple of 16, by less than 16. *)
LEMMA AlignTo16 ==
    ASSUME NEW n \in Nat
    PROVE  /\ align(n, 16) \in Nat
           /\ n <= align(n, 16)
           /\ align(n, 16) < n + 16
           /\ align(n, 16) % 16 = 0
    BY DEF align

(* Products of a count and a width are natural numbers that grow with the  *)
(* count, the widths being four small numbers.                             *)
LEMMA Widths ==
    ASSUME NEW o \in OffsetsType, NEW a \in 1..9
    PROVE  /\ Width(o)[a] \in {4, 8, 16}
           /\ Count(o)[a] \in Nat
    BY DEF OffsetsType, Width, Count, vmfunction_import, vmtable_import, vmmemory_import,
           vmglobal_import, vmtable_definition, vmmemory_definition,
           size_of_vmshared_signature_index, size_of_vmglobal_definition,
           builtin_functions_total_number

LEMMA Products ==
    ASSUME NEW w \in {4, 8, 16}, NEW n \in Nat
    PROVE  n * w \in Nat
    OBVIOUS

(* Every array ends where the next one begins, or before. *)
LEMMA ArraysInOrder ==
    ASSUME NEW o \in OffsetsType
    PROVE  /\ \A a \in 1..10 : Begin(o)[a] \in Nat
           /\ \A a \in 1..9 : Begin(o)[a] + Count(o)[a] * Width(o)[a] <= Begin(o)[a + 1]
<1> DEFINE end(a) == Begin(o)[a] + Count(o)[a] * Width(o)[a]
<1>p. \A a \in 1..9 : Count(o)[a] * Width(o)[a] \in Nat
  BY Widths, Products
<1>1. Begin(o)[1] = 0
  BY DEF Begin, vmctx_signature_ids_begin
<1>2. /\ Begin(o)[2] = end(1) /\ Begin(o)[3] = end(2) /\ Begin(o)[4] = end(3)
      /\ Begin(o)[5] = end(4) /\ Begin(o)[6] = end(5) /\ Begin(o)[7] = end(6)
  BY DEF Begin, Count, Width, vmctx_imported_functions_begin, vmctx_imported_tables_begin,
         vmctx_imported_memories_begin, vmctx_imported_globals_begin, vmctx_tables_begin,
         vmctx_memories_begin
<1>3. Begin(o)[8] = align(end(7), 16)
  BY DEF Begin, Count, Width, vmctx_globals_begin
<1>4. Begin(o)[9] = end(8) /\ Begin(o)[10] = end(9)
  BY DEF Begin, Count, Width, vmctx_builtin_functions_begin, size_of_vmctx
<1> HIDE DEF end
<1>5. \A a \in 1..9 : Begin(o)[a] \in Nat => end(a) \in Nat
  BY <1>p DEF end
<1>6. \A a \in 1..7 : Begin(o)[a] \in Nat /\ end(a) \in Nat
  BY <1>1, <1>2, <1>5
<1>7. Begin(o)[8] \in Nat /\ end(7) <= Begin(o)[8]
  BY <1>3, <1>6, AlignTo16
<1>8. \A a \in 1..10 : Begin(o)[a] \in Nat
  BY <1>4, <1>5, <1>6, <1>7
<1>9. \A a \in 1..9 : end(a) <= Begin(o)[a + 1]
  <2> SUFFICES ASSUME NEW a \in 1..9 PROVE end(a) <= Begin(o)[a + 1]
    OBVIOUS
  <2>1. CASE a = 7
    BY <1>7, <2>1
  <2>2. CASE a # 7
    <3>1. end(a) = Begin(o)[a + 1]
      BY <1>2, <1>4, <2>2
    <3> QED
      BY <1>8, <3>1
  <2> QED
    BY <2>1, <2>2
<1> QED
  BY <1>8, <1>9 DEF end

(* So an array ends before any later one begins. *)
LEMMA ArraysApart ==
    ASSUME NEW o \in OffsetsType, NEW a \in 1..9, NEW b \in 1..10, a < b
    PROVE  Begin(o)[a] + Count(o)[a] * Width(o)[a] <= Begin(o)[b]
<1> DEFINE at(k) == Begin(o)[k]
           end(k) == Begin(o)[k] + Count(o)[k] * Width(o)[k]
<1>1. \A k \in 1..9 : end(k) \in Nat /\ at(k) <= end(k) /\ end(k) <= at(k + 1)
  <2> SUFFICES ASSUME NEW k \in 1..9
               PROVE  end(k) \in Nat /\ at(k) <= end(k) /\ end(k) <= at(k + 1)
    OBVIOUS
  <2>1. Count(o)[k] * Width(o)[k] \in Nat
    BY Widths, Products
  <2>2. at(k) \in Nat /\ end(k) <= at(k + 1)
    BY ArraysInOrder
  <2> HIDE DEF at
  <2>3. end(k) = at(k) + Count(o)[k] * Width(o)[k]
    BY DEF at
  <2> QED
    BY <2>1, <2>2, <2>3
<1>2. \A k \in 1..10 : at(k) \in Nat
  BY ArraysInOrder
<1> HIDE DEF at, end
<1>3. end(a) <= at(b)
  BY <1>1, <1>2, SMTT(60)
<1> QED
  BY <1>3 DEF at, end

(* A slot is where its array begins, plus its index in widths. *)
LEMMA SlotInArray ==
    ASSUME NEW o \in OffsetsType, NEW a \in 1..9, NEW index \in Nat
    PROVE  Slot(o, a, index) = Begin(o)[a] + index * Width(o)[a]
    BY DEF Slot, Begin, Width, vmctx_vmshared_signature_id, vmctx_vmfunction_import,
           vmctx_vmtable_import, vmctx_vmmemory_import, vmctx_vmglobal_import,
           vmctx_vmtable_definition, vmctx_vmmemory_definition, vmctx_vmglobal_definition,
           vmctx_builtin_function

(* A later slot begins after an earlier one ends; also the last slot ends  *)
(* with its array.                                                         *)
LEMMA SlotsOfAnArray ==
    ASSUME NEW w \in {4, 8, 16}, NEW x \in Nat, NEW y \in Nat, x < y
    PROVE  x * w + w <= y * w
    OBVIOUS

(* For every module and both pointer sizes, all slots lie within           *)
(* size_of_vmctx, what InstanceHandle::new allocates, and no two overlap:  *)
(* no write to one array, global or definition changes another.            *)
THEOREM SlotsDisjoint ==
    ASSUME NEW o \in OffsetsType,
           NEW a \in 1..9, NEW x \in 0..Count(o)[a] - 1,
           NEW b \in 1..9, NEW y \in 0..Count(o)[b] - 1
    PROVE  /\ Slot(o, a, x) \in Nat
           /\ Slot(o, a, x) + Width(o)[a] <= size_of_vmctx(o)
           /\ <<a, x>> # <<b, y>> =>
                \/ Slot(o, a, x) + Width(o)[a] <= Slot(o, b, y)
                \/ Slot(o, b, y) + Width(o)[b] <= Slot(o, a, x)
<1>1. \A k \in 1..9 : \A z \in 0..Count(o)[k] - 1 :
        /\ z \in Nat /\ Slot(o, k, z) \in Nat /\ Begin(o)[k] <= Slot(o, k, z)
        /\ Slot(o, k, z) + Width(o)[k] <= Begin(o)[k] + Count(o)[k] * Width(o)[k]
  <2> SUFFICES ASSUME NEW k \in 1..9, NEW z \in 0..Count(o)[k] - 1
               PROVE  /\ z \in Nat /\ Slot(o, k, z) \in Nat /\ Begin(o)[k] <= Slot(o, k, z)
                      /\ Slot(o, k, z) + Width(o)[k]
                            <= Begin(o)[k] + Count(o)[k] * Width(o)[k]
    OBVIOUS
  <2>1. Width(o)[k] \in {4, 8, 16} /\ Count(o)[k] \in Nat
    BY Widths
  <2>2. z \in Nat /\ z < Count(o)[k]
    BY <2>1
  <2>3. z * Width(o)[k] \in Nat /\ Count(o)[k] * Width(o)[k] \in Nat
    BY <2>1, <2>2, Products
  <2>4. z * Width(o)[k] + Width(o)[k] <= Count(o)[k] * Width(o)[k]
    BY <2>1, <2>2, SlotsOfAnArray
  <2>5. Slot(o, k, z) = Begin(o)[k] + z * Width(o)[k]
    BY <2>2, SlotInArray
  <2>6. Begin(o)[k] \in Nat
    BY ArraysInOrder
  <2> QED
    BY <2>1, <2>2, <2>3, <2>4, <2>5, <2>6
<1>2. \A k \in 1..9 : Width(o)[k] \in Nat /\ Count(o)[k] * Width(o)[k] \in Nat
  BY Widths, Products
<1>3. \A k \in 1..10 : Begin(o)[k] \in Nat
  BY ArraysInOrder
<1>4. Begin(o)[10] = size_of_vmctx(o)
  BY DEF Begin
<1>5. Slot(o, a, x) + Width(o)[a] <= size_of_vmctx(o)
  <2>1. Begin(o)[a] + Count(o)[a] * Width(o)[a] <= Begin(o)[10]
    BY ArraysApart
  <2> QED
    BY <1>1, <1>2, <1>3, <1>4, <2>1
<1>6. ASSUME NEW k \in 1..9, NEW l \in 1..9, k < l,
             NEW u \in 0..Count(o)[k] - 1, NEW v \in 0..Count(o)[l] - 1
      PROVE  Slot(o, k, u) + Width(o)[k] <= Slot(o, l, v)
  <2>1. Begin(o)[k] + Count(o)[k] * Width(o)[k] <= Begin(o)[l]
    BY <1>6, ArraysApart
  <2>2. /\ Slot(o, k, u) \in Nat /\ Slot(o, l, v) \in Nat
        /\ Slot(o, k, u) + Width(o)[k] <= Begin(o)[k] + Count(o)[k] * Width(o)[k]
        /\ Begin(o)[l] <= Slot(o, l, v)
    BY <1>1
  <2>3. /\ Width(o)[k] \in Nat /\ Count(o)[k] * Width(o)[k] \in Nat
        /\ Begin(o)[k] \in Nat /\ Begin(o)[l] \in Nat
    BY <1>2, <1>3
  <2> QED
    BY <2>1, <2>2, <2>3
<1>7. ASSUME NEW k \in 1..9, NEW u \in 0..Count(o)[k] - 1, NEW v \in 0..Count(o)[k] - 1, u < v
      PROVE  Slot(o, k, u) + Width(o)[k] <= Slot(o, k, v)
  <2>1. Width(o)[k] \in {4, 8, 16} /\ u \in Nat /\ v \in Nat
    BY <1>1, Widths
  <2>2. u * Width(o)[k] + Width(o)[k] <= v * Width(o)[k]
    BY <1>7, <2>1, SlotsOfAnArray
  <2>3. u * Width(o)[k] \in Nat /\ v * Width(o)[k] \in Nat
    BY <2>1, Products
  <2>4. /\ Slot(o, k, u) = Begin(o)[k] + u * Width(o)[k]
        /\ Slot(o, k, v) = Begin(o)[k] + v * Width(o)[k]
    BY <2>1, SlotInArray
  <2> QED
    BY <1>3, <2>1, <2>2, <2>3, <2>4
<1>8. ASSUME <<a, x>> # <<b, y>>
      PROVE  \/ Slot(o, a, x) + Width(o)[a] <= Slot(o, b, y)
             \/ Slot(o, b, y) + Width(o)[b] <= Slot(o, a, x)
  <2>1. a < b \/ b < a \/ (a = b /\ x < y) \/ (a = b /\ y < x)
    <3>1. x \in Nat /\ y \in Nat
      BY <1>1
    <3> QED
      BY <1>8, <3>1
  <2>2. CASE a < b
    BY <1>6, <2>2
  <2>3. CASE b < a
    BY <1>6, <2>3
  <2>4. CASE a = b /\ x < y
    BY <1>7, <2>4
  <2>5. CASE a = b /\ y < x
    BY <1>7, <2>5
  <2> QED
    BY <2>1, <2>2, <2>3, <2>4, <2>5
<1> QED
  BY <1>1, <1>5, <1>8

(* VMGlobalDefinition is #[repr(C, align(16))]: from a context that is     *)
(* aligned, every global is, however many pointers precede the array.      *)
THEOREM GlobalsAligned ==
    ASSUME NEW o \in OffsetsType, NEW index \in Nat
    PROVE  vmctx_vmglobal_definition(o, index) % 16 = 0
<1> DEFINE n == vmctx_memories_begin(o) + o.num_defined_memories * vmmemory_definition(o).size
<1>1. n \in Nat
  <2>1. Begin(o)[7] \in Nat /\ Count(o)[7] * Width(o)[7] \in Nat
    BY ArraysInOrder, Widths, Products
  <2> QED
    BY <2>1 DEF Begin, Count, Width
<1>2. vmctx_vmglobal_definition(o, index) = align(n, 16) + index * 16
  BY DEF vmctx_vmglobal_definition, vmctx_globals_begin, size_of_vmglobal_definition
<1> HIDE DEF n
<1>3. align(n, 16) \in Nat /\ align(n, 16) % 16 = 0
  BY <1>1, AlignTo16
<1> QED
  BY <1>2, <1>3

-----------------------------------------------------------------------------

(* Where repr(C) puts the fields of the structures of vmcontext.rs is      *)
(* where compiled code looks for them, and the arrays' widths are the      *)
(* structures' sizes; what the tests of vmcontext.rs compare on the host   *)
(* they run on, for both pointer sizes.  current_length is a usize of      *)
(* which compiled code reads the low four bytes.                           *)
THEOREM StructuresAgree ==
    ASSUME NEW o \in OffsetsType
    PROVE  LET p == o.pointer_size
               pair == <<p, p>>
               table == <<p, 4>>
               anyfunc == <<p, 4, p>>
           IN  /\ repr_c(pair)[1] = vmfunction_import(o).body
               /\ repr_c(pair)[2] = vmfunction_import(o).vmctx
               /\ size_of_repr_c(pair) = vmfunction_import(o).size
               /\ repr_c(pair)[1] = vmtable_import(o).from
               /\ repr_c(pair)[2] = vmtable_import(o).vmctx
               /\ size_of_repr_c(pair) = vmtable_import(o).size
               /\ repr_c(pair)[1] = vmmemory_import(o).from
               /\ repr_c(pair)[2] = vmmemory_import(o).vmctx
               /\ size_of_repr_c(pair) = vmmemory_import(o).size
               /\ repr_c(pair)[1] = vmmemory_definition(o).base
               /\ repr_c(pair)[2] = vmmemory_definition(o).current_length
               /\ size_of_repr_c(pair) = vmmemory_definition(o).size
               /\ repr_c(table)[1] = vmtable_definition(o).base
               /\ repr_c(table)[2] = vmtable_definition(o).current_elements
               /\ size_of_repr_c(table) = vmtable_definition(o).size
               /\ repr_c(anyfunc)[1] = vmcaller_checked_anyfunc(o).func_ptr
               /\ repr_c(anyfunc)[2] = vmcaller_checked_anyfunc(o).type_index
               /\ repr_c(anyfunc)[3] = vmcaller_checked_anyfunc(o).vmctx
               /\ size_of_repr_c(anyfunc) = vmcaller_checked_anyfunc(o).size
               /\ size_of_repr_c(<<p>>) = vmglobal_import(o).size
<1> DEFINE p == o.pointer_size
<1>1. p \in {4, 8}
  BY DEF OffsetsType
<1> HIDE DEF p
<1>2. /\ align(p, p) = p /\ align(p, 4) = p /\ align(2 * p, p) = 2 * p
      /\ align(p + 4, p) = 2 * p /\ align(3 * p, p) = 3 * p
  BY <1>1 DEF align
<1>3. repr_c(<<p, p>>)[1] = 0 /\ repr_c(<<p, p>>)[2] = p
  BY <1>2 DEF repr_c
<1>4. repr_c(<<p, 4>>)[1] = 0 /\ repr_c(<<p, 4>>)[2] = p
  BY <1>2 DEF repr_c
<1>5. /\ repr_c(<<p, 4, p>>)[1] = 0 /\ repr_c(<<p, 4, p>>)[2] = p
      /\ repr_c(<<p, 4, p>>)[3] = 2 * p
  BY <1>2 DEF repr_c
<1>6. repr_c(<<p>>)[1] = 0
  BY DEF repr_c
<1>7. ASSUME NEW aligns, aligns = {p} \/ aligns = {p, 4}
      PROVE  (CHOOSE w \in aligns : \A v \in aligns : v <= w) = p
  <2>1. p \in aligns /\ \A v \in aligns : v <= p
    BY <1>1, <1>7
  <2>2. \A w \in aligns : (\A v \in aligns : v <= w) => w = p
    BY <1>1, <1>7
  <2> QED
    BY <2>1, <2>2
<1>8. size_of_repr_c(<<p, p>>) = 2 * p
  <2>1. Len(<<p, p>>) = 2 /\ 1..2 = {1, 2}
    OBVIOUS
  <2>2. {<<p, p>>[k] : k \in 1..Len(<<p, p>>)} = {p}
    BY <2>1
  <2> QED
    BY <1>1, <1>2, <1>3, <1>7, <2>1, <2>2 DEF size_of_repr_c
<1>9. size_of_repr_c(<<p, 4>>) = 2 * p
  <2>1. Len(<<p, 4>>) = 2 /\ 1..2 = {1, 2}
    OBVIOUS
  <2>2. {<<p, 4>>[k] : k \in 1..Len(<<p, 4>>)} = {p, 4}
    BY <2>1
  <2> QED
    BY <1>1, <1>2, <1>4, <1>7, <2>1, <2>2 DEF size_of_repr_c
<1>10. size_of_repr_c(<<p, 4, p>>) = 3 * p
  <2>1. Len(<<p, 4, p>>) = 3 /\ 1..3 = {1, 2, 3}
    OBVIOUS
  <2>2. {<<p, 4, p>>[k] : k \in 1..Len(<<p, 4, p>>)} = {p, 4}
    BY <2>1
  <2> QED
    BY <1>1, <1>2, <1>5, <1>7, <2>1, <2>2 DEF size_of_repr_c
<1>11. size_of_repr_c(<<p>>) = p
  <2>1. Len(<<p>>) = 1 /\ 1..1 = {1}
    OBVIOUS
  <2>2. {<<p>>[k] : k \in 1..Len(<<p>>)} = {p}
    BY <2>1
  <2> QED
    BY <1>1, <1>2, <1>6, <1>7, <2>1, <2>2 DEF size_of_repr_c
<1> QED
  BY <1>1, <1>3, <1>4, <1>5, <1>8, <1>9, <1>10, <1>11
     DEF p, vmfunction_import, vmtable_import, vmmemory_import, vmglobal_import,
         vmtable_definition, vmmemory_definition, vmcaller_checked_anyfunc
=============================================================================
