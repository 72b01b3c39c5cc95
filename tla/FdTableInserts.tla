--------------------------- MODULE FdTableInserts ---------------------------
(***************************************************************************)
(* Proofs about FdTable, second part: the operations that attach a new     *)
(* object to an unused descriptor of a table that may grow.                *)
(***************************************************************************)
EXTENDS FdTableCalls

LEMMA GrowDoes ==
    ASSUME TypeOK, NEW s \in 0 .. SizeMax, NEW min \in Nat, fd_table_grow(s, min, 1)
    PROVE  s \in Nat /\ size <= s /\ s > min /\ s >= (used + 1) * 2
<1>t. size \in Nat /\ used \in Nat /\ SizeMax \in Nat
  BY FdAssumption DEF TypeOK
<1>1. CASE Enough(size, min, 1)
  BY <1>1, <1>t DEF fd_table_grow, Enough
<1>2. CASE ~Enough(size, min, 1)
  <2>1. s \in Doublings /\ Enough(s, min, 1)
    BY <1>2 DEF fd_table_grow
  <2>2. s \in size .. SizeMax
    BY <2>1 DEF Doublings
  <2> QED BY <2>1, <2>2, <1>t DEF Enough
<1> QED BY <1>1, <1>2

(* A new object o of type ty, attached to an unused descriptor. *)
Inserts(s, fd, o, rights, ty, n) ==
    /\ fd_table_attach(s, fd, o, rights)
    /\ refcount' = [refcount EXCEPT ![o] = 1]
    /\ type' = [type EXCEPT ![o] = ty]
    /\ number' = [number EXCEPT ![o] = n]
    /\ UNCHANGED <<fos, renumbered>>

LEMMA AttachDoes ==
    ASSUME TypeOK, NEW s \in Nat, size <= s, NEW fd \in 0 .. s - 1, NEW o \in Object,
           NEW rights \in RightsPair, fd_table_attach(s, fd, o, rights), Grown(s)[fd] = None
    PROVE  /\ size' = s /\ used' = used + 1
           /\ entries' \in [0 .. size' - 1 -> Entry \cup {None}]
           /\ entries'[fd] \in Entry /\ entries'[fd].object = o
           /\ entries'[fd].base = rights.base /\ entries'[fd].inheriting = rights.inheriting
           /\ fd < size => entries[fd] = None
           /\ TablesDifferAt(size, entries, size', entries', fd)
           /\ failure' = IF s >= (used + 1) * 2 THEN failure ELSE "assert"
<1> DEFINE e == [object |-> o, base |-> rights.base, inheriting |-> rights.inheriting]
<1>t. size \in Nat /\ entries \in [0 .. size - 1 -> Entry \cup {None}]
  BY DEF TypeOK
<1>e. /\ e \in Entry /\ e.object = o /\ e.base = rights.base /\ e.inheriting = rights.inheriting
  BY DEF Entry, RightsPair
<1>g. /\ Grown(s) \in [0 .. s - 1 -> Entry \cup {None}]
      /\ \A k \in 0 .. s - 1 : Grown(s)[k] = IF k < size THEN entries[k] ELSE None
  BY <1>t DEF Grown
<1>a. /\ entries' = [Grown(s) EXCEPT ![fd] = e] /\ size' = s /\ used' = used + 1
      /\ failure' = IF s >= (used + 1) * 2 THEN failure ELSE "assert"
  BY DEF fd_table_attach
<1> HIDE DEF e
<1>1. /\ entries' \in [0 .. s - 1 -> Entry \cup {None}] /\ entries'[fd] = e
      /\ \A k \in (0 .. s - 1) \ {fd} : entries'[k] = IF k < size THEN entries[k] ELSE None
  BY <1>e, <1>g, <1>a
<1>2. \A k \in 0 .. size - 1 : k \in 0 .. s - 1 /\ k < size
  BY <1>t
<1>3. \A k \in size .. s - 1 : k \in 0 .. s - 1 /\ ~(k < size)
  BY <1>t
<1>4. TablesDifferAt(size, entries, s, entries', fd)
  BY <1>1, <1>2, <1>3 DEF TablesDifferAt
<1> QED BY <1>1, <1>4, <1>a, <1>e, <1>g

LEMMA InsertDoes ==
    ASSUME IInv, failure = "no", NEW s \in Nat, size <= s, s >= (used + 1) * 2,
           NEW fd \in 0 .. s - 1, Grown(s)[fd] = None, NEW o \in Unallocated,
           NEW rights \in RightsPair, NEW ty \in Type, NEW n \in {"stdio", "preopen", "opened"},
           Inserts(s, fd, o, rights, ty, n),
           rights.base \subseteq TypeRights[ty].base,
           rights.inheriting \subseteq TypeRights[ty].inheriting,
           n # "stdio" => Within(rights, TypeRights[Directory].inheriting)
    PROVE  /\ size' \in Nat /\ size <= size' /\ used' \in Nat /\ failure' = "no"
           /\ entries' \in [0 .. size' - 1 -> Entry \cup {None}]
           /\ refcount' \in [Object -> Nat] /\ type' \in [Object -> Type]
           /\ number' \in [Object -> {"stdio", "preopen", "opened"}]
           /\ RefcountExact' /\ RightsInv' /\ NoAssertionFails'
           /\ \A k \in Occupied' : k # fd => k \in Occupied
           /\ \A u \in Thread : (pc'[u] = pc[u] /\ request'[u] = request[u]) => CallerInv(u)'
<1>i. TypeOK /\ ControlInv /\ RightsInv /\ RefcountExact /\ NoAssertionFails
  BY DEF IInv
<1>t. /\ size \in Nat /\ used \in Nat /\ refcount \in [Object -> Nat] /\ type \in [Object -> Type]
      /\ number \in [Object -> {"stdio", "preopen", "opened"}]
      /\ fos \in [Thread \X Slot -> Object \cup {None}]
  BY <1>i DEF TypeOK
<1>o. o \in Object /\ refcount[o] = 0
  BY DEF Unallocated
<1>x. /\ refcount' = [refcount EXCEPT ![o] = 1] /\ type' = [type EXCEPT ![o] = ty]
      /\ number' = [number EXCEPT ![o] = n] /\ fos' = fos /\ renumbered' = renumbered
      /\ fd_table_attach(s, fd, o, rights)
  BY DEF Inserts
<1>r. /\ refcount' \in [Object -> Nat] /\ refcount'[o] = 1
      /\ \A p \in Object \ {o} : refcount'[p] = refcount[p]
  BY <1>t, <1>o, <1>x
<1>y. /\ type' \in [Object -> Type] /\ type'[o] = ty
      /\ \A p \in Object \ {o} : type'[p] = type[p]
  BY <1>t, <1>o, <1>x
<1>n. /\ number' \in [Object -> {"stdio", "preopen", "opened"}] /\ number'[o] = n
      /\ \A p \in Object \ {o} : number'[p] = number[p]
  BY <1>t, <1>o, <1>x
<1>a. /\ size' = s /\ used' = used + 1
      /\ entries' \in [0 .. size' - 1 -> Entry \cup {None}]
      /\ entries'[fd] \in Entry /\ entries'[fd].object = o
      /\ entries'[fd].base = rights.base /\ entries'[fd].inheriting = rights.inheriting
      /\ fd < size => entries[fd] = None
      /\ TablesDifferAt(size, entries, size', entries', fd)
      /\ failure' = "no"
  BY <1>i, <1>o, <1>x, AttachDoes
<1>e. None \notin Entry
  BY FdAssumption
<1>c. /\ \A p : Cardinality(Naming(size', entries', p)) =
              Cardinality(Naming(size, entries, p))
                  + NamesAt(size', entries', fd, p) - NamesAt(size, entries, fd, p)
      /\ Cardinality(Occupied') =
              Cardinality(Occupied) + UsedAt(size', entries', fd) - UsedAt(size, entries, fd)
      /\ \A k \in Occupied' : k # fd => k \in Occupied /\ entries'[k] = entries[k]
  BY <1>i, <1>a, TableCounts
<1>d. /\ \A p : NamesAt(size, entries, fd, p) = 0 /\ NamesAt(size', entries', fd, p) = One(p = o)
      /\ UsedAt(size, entries, fd) = 0 /\ UsedAt(size', entries', fd) = 1
  <2>1. fd < size'
    BY <1>a
  <2> QED BY <2>1, <1>a, <1>e DEF NamesAt, UsedAt, One
<1>1. RefcountExact'
  <2> SUFFICES ASSUME NEW p \in Object
               PROVE  refcount'[p] = Cardinality(Naming(size', entries', p))
                                         + Cardinality(Holding(fos', p))
    BY ExactMeans
  <2>1. /\ refcount[p] = Cardinality(Naming(size, entries, p)) + Cardinality(Holding(fos, p))
        /\ Cardinality(Naming(size, entries, p)) \in Nat /\ Cardinality(Holding(fos, p)) \in Nat
    BY <1>i, <1>t, ExactMeans, Finite
  <2>2. Cardinality(Naming(size', entries', p)) =
            Cardinality(Naming(size, entries, p)) + One(p = o)
    BY <1>c, <1>d, <2>1 DEF One
  <2>3. refcount'[p] = refcount[p] + One(p = o)
    BY <1>o, <1>r, <1>t DEF One
  <2>4. fos' = fos
    BY <1>x
  <2>5. One(p = o) \in Int
    BY DEF One
  <2> HIDE DEF One
  <2> QED BY <2>1, <2>2, <2>3, <2>4, <2>5
<1>l. /\ \A k \in Occupied : entries[k] \in Entry /\ entries[k].object \in Object \ {o}
      /\ \A z \in Thread \X Slot : fos[z] # None => fos[z] \in Object \ {o}
  BY <1>i, <1>o, Allocated
<1>2. RightsInv'
  <2> SUFFICES ASSUME NEW k \in Occupied'
               PROVE  GoodEntry(entries[k])'
    BY DEF RightsInv
  <2>1. CASE k = fd
    <3>1. /\ entries'[k].base \subseteq TypeRights[type'[entries'[k].object]].base
          /\ entries'[k].inheriting \subseteq TypeRights[type'[entries'[k].object]].inheriting
      BY <2>1, <1>a, <1>y
    <3>2. number'[entries'[k].object] # "stdio" =>
              /\ entries'[k].base \subseteq TypeRights[Directory].inheriting
              /\ entries'[k].inheriting \subseteq TypeRights[Directory].inheriting
      BY <2>1, <1>a, <1>n DEF Within
    <3> QED BY <3>1, <3>2 DEF GoodEntry, Within
  <2>2. CASE k # fd
    <3>1. k \in Occupied /\ entries'[k] = entries[k] /\ entries[k].object \in Object \ {o}
      BY <2>2, <1>c, <1>l
    <3>2. /\ type'[entries[k].object] = type[entries[k].object]
          /\ number'[entries[k].object] = number[entries[k].object]
      BY <3>1, <1>y, <1>n
    <3>3. GoodEntry(entries[k])
      BY <3>1, <1>i DEF RightsInv
    <3> QED BY <3>1, <3>2, <3>3 DEF GoodEntry, Within
  <2> QED BY <2>1, <2>2
<1>3. NoAssertionFails'
  <2> SUFFICES ASSUME renumbered' = 0
               PROVE  used' = Cardinality(Occupied') /\ 2 * used' <= size' /\ failure' # "assert"
    BY DEF NoAssertionFails
  <2>1. used = Cardinality(Occupied)
    BY <1>i, <1>x DEF NoAssertionFails
  <2>2. Cardinality(Occupied') = Cardinality(Occupied) + 1
    BY <1>c, <1>d, <1>t, <2>1
  <2> QED BY <2>1, <2>2, <1>a, <1>t
<1>4. ASSUME NEW u \in Thread, pc'[u] = pc[u], request'[u] = request[u]
      PROVE  CallerInv(u)'
  <2>1. CallerInv(u)
    BY <1>i DEF ControlInv
  <2>2. <<u, 1>> \in Thread \X Slot
    BY Sizes
  <2>3. fos[<<u, 1>>] # None => type'[fos[<<u, 1>>]] = type[fos[<<u, 1>>]]
    BY <2>2, <1>l, <1>y
  <2>4. \A i \in Slot : fos'[<<u, i>>] = fos[<<u, i>>]
    BY <1>x
  <2> QED BY <2>1, <2>3, <2>4, <1>4, <1>a, <1>t, <1>x, CallerFrame
<1> QED BY <1>1, <1>2, <1>3, <1>4, <1>a, <1>c, <1>n, <1>r, <1>t, <1>y

LEMMA InsertExistingStep ==
    ASSUME IInv, NEW o \in Object, NEW s \in 0 .. SizeMax,
           fd_table_insert_existing(o, s), renumbered' = renumbered
    PROVE  IInv'
<1> DEFINE fd == inserted
           ty == IF fd >= Stdio THEN Directory ELSE StdioType
           n == IF fd >= Stdio THEN "preopen" ELSE "stdio"
           rights == TypeRights[ty]
<1>i. TypeOK /\ ControlInv
  BY DEF IInv
<1>a. /\ failure = "no" /\ inserted < Stdio + Preopens /\ o \in Unallocated
      /\ fd_table_grow(s, fd, 1) /\ inserted' = inserted + 1
      /\ Inserts(s, fd, o, rights, ty, n)
      /\ UNCHANGED <<pc, request, fos, renumbered>>
  BY DEF fd_table_insert_existing, Inserts
<1>t. /\ size \in Nat /\ inserted \in Nat /\ Stdio \in Nat /\ Preopens \in Nat
      /\ inserted \in 0 .. Stdio + Preopens
  BY <1>i, FdAssumption DEF TypeOK
<1>g. s \in Nat /\ size <= s /\ s > fd /\ s >= (used + 1) * 2
  BY <1>i, <1>a, <1>t, GrowDoes
<1>f. fd \in 0 .. s - 1
  BY <1>t, <1>g
<1>e. Grown(s)[fd] = None
  <2>1. fd < size => entries[fd] = None
    BY <1>i, <1>a, <1>t DEF ControlInv, Occupied
  <2> QED BY <2>1, <1>f DEF Grown
<1>y. ty \in Type /\ rights \in RightsPair /\ n \in {"stdio", "preopen", "opened"}
  BY FdAssumption
<1>w. n # "stdio" => Within(rights, TypeRights[Directory].inheriting)
  BY FdAssumption DEF Within
<1>r. rights.base \subseteq TypeRights[ty].base /\ rights.inheriting \subseteq TypeRights[ty].inheriting
  OBVIOUS
<1> HIDE DEF fd, ty, n, rights
<1>1. /\ size' \in Nat /\ size <= size' /\ used' \in Nat /\ failure' = "no"
      /\ entries' \in [0 .. size' - 1 -> Entry \cup {None}]
      /\ refcount' \in [Object -> Nat] /\ type' \in [Object -> Type]
      /\ number' \in [Object -> {"stdio", "preopen", "opened"}]
      /\ RefcountExact' /\ RightsInv' /\ NoAssertionFails'
      /\ \A k \in Occupied' : k # fd => k \in Occupied
      /\ \A u \in Thread : (pc'[u] = pc[u] /\ request'[u] = request[u]) => CallerInv(u)'
  BY <1>a, <1>e, <1>f, <1>g, <1>r, <1>w, <1>y, InsertDoes
<1>2. inserted' \in 0 .. Stdio + Preopens
  BY <1>a, <1>t
<1>3. TypeOK'
  BY <1>1, <1>2, <1>a, <1>i DEF TypeOK
<1>4. \A k \in Occupied' : k < inserted'
  <2>1. \A k \in Occupied : k < inserted
    BY <1>i, <1>a DEF ControlInv
  <2>2. \A k \in Occupied' : k \in Nat
    BY <1>1 DEF Occupied
  <2> QED BY <2>1, <2>2, <1>1, <1>a, <1>t DEF fd
<1>5. ControlInv'
  BY <1>1, <1>4, <1>a DEF ControlInv
<1> QED BY <1>1, <1>3, <1>5 DEF IInv

LEMMA InsertStep ==
    ASSUME IInv, NEW t \in Thread, NEW ty \in Type, fd_table_insert(t, ty), renumbered' = renumbered
    PROVE  IInv'
<1> DEFINE rights == [base |-> request[t].base \cap TypeRights[ty].base,
                      inheriting |-> request[t].inheriting \cap TypeRights[ty].inheriting]
<1>a. /\ At(t, "insert") /\ request' = [request EXCEPT ![t] = None] /\ Goto(t, "idle")
      /\ UNCHANGED <<inserted, fos>>
  BY DEF fd_table_insert
<1>p. PICK o \in Unallocated, s \in 0 .. SizeMax :
          /\ fd_table_grow(s, 0, 1)
          /\ \E fd \in 0 .. s - 1 : Grown(s)[fd] = None /\ fd_table_attach(s, fd, o, rights)
          /\ refcount' = [refcount EXCEPT ![o] = 1]
          /\ type' = [type EXCEPT ![o] = ty]
          /\ number' = [number EXCEPT ![o] = "opened"]
  BY DEF fd_table_insert
<1>q. PICK fd \in 0 .. s - 1 : Grown(s)[fd] = None /\ Inserts(s, fd, o, rights, ty, "opened")
  BY <1>a, <1>p DEF Inserts
<1>i. /\ TypeOK /\ failure = "no" /\ pc[t] = "insert" /\ CallerInv(t)
      /\ inserted = Stdio + Preopens /\ inserted \in 0 .. Stdio + Preopens
  BY <1>a, Turn DEF TypeOK
<1>g. s \in Nat /\ size <= s /\ s >= (used + 1) * 2 /\ fd_table_grow(s, 0, 1)
  BY <1>i, <1>p, GrowDoes
<1>c. request[t] \in RightsPair /\ Within(request[t], TypeRights[Directory].inheriting)
  BY <1>i DEF CallerInv
<1>r. /\ rights \in RightsPair /\ rights.base \subseteq TypeRights[ty].base
      /\ rights.inheriting \subseteq TypeRights[ty].inheriting
      /\ Within(rights, TypeRights[Directory].inheriting)
  BY <1>c DEF RightsPair, Within
<1> HIDE DEF rights
<1>1. /\ size' \in Nat /\ size <= size' /\ used' \in Nat /\ failure' = "no"
      /\ entries' \in [0 .. size' - 1 -> Entry \cup {None}]
      /\ refcount' \in [Object -> Nat] /\ type' \in [Object -> Type]
      /\ number' \in [Object -> {"stdio", "preopen", "opened"}]
      /\ RefcountExact' /\ RightsInv' /\ NoAssertionFails'
      /\ \A u \in Thread : (pc'[u] = pc[u] /\ request'[u] = request[u]) => CallerInv(u)'
  BY <1>g, <1>i, <1>q, <1>r, InsertDoes
<1>2. /\ request' \in [Thread -> RightsPair \cup [from : Nat] \cup {None}]
      /\ \A u \in Thread \ {t} : request'[u] = request[u]
  BY <1>a, <1>i, RequestDoes
<1>3. /\ pc' \in [Thread -> {"idle", "use", "link", "open", "insert", "renumber",
                             "renumber_detach"}]
      /\ pc'[t] = "idle" /\ \A u \in Thread \ {t} : pc'[u] = pc[u]
  BY <1>a, <1>i, GotoDoes
<1>4. TypeOK'
  <2>1. /\ fos' \in [Thread \X Slot -> Object \cup {None}] /\ inserted' \in 0 .. Stdio + Preopens
        /\ renumbered' \in 0 .. Renumbers
    BY <1>a, <1>i DEF TypeOK
  <2> QED BY <2>1, <1>1, <1>2, <1>3 DEF TypeOK
<1>5. CallerInv(t)'
  <2>1. \A j \in Slot : fos'[<<t, j>>] = None
    BY <1>a, <1>i DEF CallerInv
  <2> QED BY <2>1, <1>3 DEF CallerInv
<1>6. ControlInv'
  <2>1. \A u \in Thread : CallerInv(u)'
    BY <1>1, <1>2, <1>3, <1>5
  <2>2. ~(inserted' < Stdio + Preopens)
    BY <1>a, <1>i, FdAssumption
  <2> QED BY <2>1, <2>2 DEF ControlInv
<1> QED BY <1>1, <1>4, <1>6 DEF IInv
=============================================================================
