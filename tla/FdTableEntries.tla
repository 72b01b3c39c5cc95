--------------------------- MODULE FdTableEntries ---------------------------
(***************************************************************************)
(* Proofs about FdTable, third part: the operations that change the entry  *)
(* of a descriptor in use, closing it or restricting its rights.           *)
(***************************************************************************)
EXTENDS FdTableCalls

(* A step of caller t that changes the entry of one descriptor in use. *)
LEMMA EntryStep ==
    ASSUME IInv, NEW t \in Thread, NEW fd \in Occupied, failure = "no",
           inserted = Stdio + Preopens,
           UNCHANGED <<size, type, number, inserted>>,
           TablesDifferAt(size, entries, size', entries', fd),
           entries' \in [0 .. size' - 1 -> Entry \cup {None}],
           entries'[fd] # None => GoodEntry(entries'[fd]),
           used' \in Nat, refcount' \in [Object -> Nat],
           fos' \in [Thread \X Slot -> Object \cup {None}],
           pc' \in [Thread -> {"idle", "use", "link", "open", "insert", "renumber",
                               "renumber_detach"}],
           request' \in [Thread -> RightsPair \cup [from : Nat] \cup {None}],
           failure' \in {"no", "assert", "segv"}, renumbered' \in 0 .. Renumbers,
           renumbered # 0 => renumbered' # 0,
           \A u \in Thread \ {t} : /\ pc'[u] = pc[u] /\ request'[u] = request[u]
                                   /\ \A i \in Slot : fos'[<<u, i>>] = fos[<<u, i>>],
           failure' = "no" => CallerInv(t)',
           RefcountExact', NoAssertionFails'
    PROVE  IInv'
<1>i. TypeOK /\ ControlInv /\ RightsInv
  BY DEF IInv
<1>t. size \in Nat /\ size' \in Nat /\ size <= size'
  BY <1>i DEF TypeOK
<1>f. fd \in 0 .. size' - 1
  BY DEF Occupied
<1>1. TypeOK'
  BY <1>i DEF TypeOK
<1>c. \A k \in Occupied' : k # fd => k \in Occupied /\ entries'[k] = entries[k]
  BY <1>i, <1>t, <1>f, TableCounts
<1>2. ControlInv'
  <2> SUFFICES ASSUME failure' = "no"
               PROVE  (\A u \in Thread : CallerInv(u)') /\ ~(inserted' < Stdio + Preopens)
    BY DEF ControlInv
  <2>1. ASSUME NEW u \in Thread
        PROVE  CallerInv(u)'
    <3>1. CASE u = t
      BY <3>1
    <3>2. CASE u # t
      <4>1. CallerInv(u) /\ type' = type
        BY <1>i DEF ControlInv
      <4> QED BY <3>2, <4>1, <1>t, CallerFrame
    <3> QED BY <3>1, <3>2
  <2>2. ~(inserted' < Stdio + Preopens)
    BY FdAssumption
  <2> QED BY <2>1, <2>2
<1>3. RightsInv'
  <2> SUFFICES ASSUME NEW k \in Occupied'
               PROVE  GoodEntry(entries[k])'
    BY DEF RightsInv
  <2>1. GoodEntry(entries'[k])
    <3>1. CASE k = fd
      BY <3>1 DEF Occupied
    <3>2. CASE k # fd
      BY <3>2, <1>c, <1>i DEF RightsInv
    <3> QED BY <3>1, <3>2
  <2> QED BY <2>1 DEF GoodEntry, Within
<1> QED BY <1>1, <1>2, <1>3 DEF IInv

LEMMA HoldingGains ==
    ASSUME NEW F, NEW G, NEW x \in Thread \X Slot, NEW p \in Object, F[x] = None, G[x] = p,
           DifferAt(F, G, x)
    PROVE  \A o \in Object : Cardinality(Holding(G, o)) = Cardinality(Holding(F, o)) + One(o = p)
<1> SUFFICES ASSUME NEW o \in Object
             PROVE  Cardinality(Holding(G, o)) = Cardinality(Holding(F, o)) + One(o = p)
  OBVIOUS
<1>1. One(G[x] = o) = One(o = p) /\ One(F[x] = o) = 0 /\ One(o = p) \in Int
  BY FdAssumption DEF One
<1>2. Cardinality(Holding(F, o)) \in Nat
  BY Finite
<1>3. Cardinality(Holding(G, o)) = Cardinality(Holding(F, o)) + One(G[x] = o) - One(F[x] = o)
  BY HoldingOne
<1> QED BY <1>1, <1>2, <1>3

(* Caller t is given the reference to an object. *)
Handed(t, p) == fos' = [fos EXCEPT ![<<t, 1>>] = p]

LEMMA HoldsOneMore ==
    ASSUME TypeOK, NEW t \in Thread, fos[<<t, 1>>] = None, NEW p \in Object,
           Handed(t, p)
    PROVE  /\ fos' \in [Thread \X Slot -> Object \cup {None}] /\ fos'[<<t, 1>>] = p
           /\ \A i \in Slot \ {1} : fos'[<<t, i>>] = fos[<<t, i>>]
           /\ \A u \in Thread \ {t} : \A i \in Slot : fos'[<<u, i>>] = fos[<<u, i>>]
           /\ \A o \in Object : Cardinality(Holding(fos', o)) = Cardinality(Holding(fos, o)) + One(o = p)
<1> DEFINE x == <<t, 1>>
<1>x. x \in Thread \X Slot
  BY Sizes
<1>t. fos \in [Thread \X Slot -> Object \cup {None}]
  BY DEF TypeOK
<1>1. /\ fos' \in [Thread \X Slot -> Object \cup {None}] /\ fos'[x] = p
      /\ \A y \in (Thread \X Slot) \ {x} : fos'[y] = fos[y]
  BY <1>x, <1>t DEF Handed
<1>2. DifferAt(fos, fos', x)
  BY <1>1 DEF DifferAt
<1>f. fos[x] = None
  OBVIOUS
<1> HIDE DEF x
<1>3. \A o \in Object : Cardinality(Holding(fos', o)) = Cardinality(Holding(fos, o)) + One(o = p)
  BY <1>x, <1>1, <1>2, <1>f, HoldingGains
<1>4. \A i \in Slot \ {1} : <<t, i>> \in (Thread \X Slot) \ {x}
  BY DEF x
<1>5. \A u \in Thread \ {t} : \A i \in Slot : <<u, i>> \in (Thread \X Slot) \ {x}
  BY DEF x
<1> QED BY <1>1, <1>3, <1>4, <1>5 DEF x

(* The entry of descriptor f is set to v. *)
Set(f, v) == [entries EXCEPT ![f] = v]

LEMMA EntrySet ==
    ASSUME NEW f \in 0 .. size - 1, TypeOK, NEW v \in Entry \cup {None}, NEW H, H = Set(f, v)
    PROVE  /\ H \in [0 .. size - 1 -> Entry \cup {None}] /\ H[f] = v
           /\ TablesDifferAt(size, entries, size, H, f)
           /\ \A o : NamesAt(size, H, f, o) = One(v # None /\ v.object = o)
           /\ UsedAt(size, H, f) = One(v # None)
           /\ \A o : NamesAt(size, entries, f, o) = One(entries[f] # None /\ entries[f].object = o)
           /\ UsedAt(size, entries, f) = One(entries[f] # None)
<1>t. size \in Nat /\ entries \in [0 .. size - 1 -> Entry \cup {None}]
  BY DEF TypeOK
<1>1. /\ H \in [0 .. size - 1 -> Entry \cup {None}] /\ H[f] = v
      /\ \A k \in (0 .. size - 1) \ {f} : H[k] = entries[k]
  BY <1>t DEF Set
<1>2. f < size /\ size .. size - 1 = {}
  BY <1>t
<1>3. TablesDifferAt(size, entries, size, H, f)
  BY <1>1, <1>2 DEF TablesDifferAt
<1>4. /\ \A o : NamesAt(size, H, f, o) = One(v # None /\ v.object = o)
      /\ UsedAt(size, H, f) = One(v # None)
  BY <1>1, <1>2 DEF NamesAt, UsedAt, One
<1>5. /\ \A o : NamesAt(size, entries, f, o) = One(entries[f] # None /\ entries[f].object = o)
      /\ UsedAt(size, entries, f) = One(entries[f] # None)
  BY <1>2 DEF NamesAt, UsedAt, One
<1> QED BY <1>1, <1>3, <1>4, <1>5

LEMMA SetCounts ==
    ASSUME TypeOK, NEW fd \in Occupied, NEW v \in Entry \cup {None}, size' = size,
           entries' = Set(fd, v)
    PROVE  /\ entries' \in [0 .. size' - 1 -> Entry \cup {None}] /\ entries'[fd] = v
           /\ TablesDifferAt(size, entries, size', entries', fd)
           /\ \A o : Cardinality(Naming(size', entries', o)) =
                  Cardinality(Naming(size, entries, o))
                      + One(v # None /\ v.object = o) - One(entries[fd].object = o)
           /\ Cardinality(Occupied') = Cardinality(Occupied) + One(v # None) - 1
<1>t. size \in Nat /\ size' \in Nat /\ size <= size'
  BY DEF TypeOK
<1>f. fd \in 0 .. size - 1 /\ fd \in 0 .. size' - 1 /\ entries[fd] # None
  BY DEF Occupied
<1> DEFINE H == entries'
<1>h. H = Set(fd, v)
  OBVIOUS
<1> HIDE DEF H
<1>1. /\ H \in [0 .. size - 1 -> Entry \cup {None}] /\ H[fd] = v
      /\ TablesDifferAt(size, entries, size, H, fd)
      /\ \A o : NamesAt(size, H, fd, o) = One(v # None /\ v.object = o)
      /\ UsedAt(size, H, fd) = One(v # None)
      /\ \A o : NamesAt(size, entries, fd, o) = One(entries[fd] # None /\ entries[fd].object = o)
      /\ UsedAt(size, entries, fd) = One(entries[fd] # None)
  BY <1>h, <1>f, EntrySet
<1>2. TablesDifferAt(size, entries, size', entries', fd)
  BY <1>1 DEF H
<1>3. /\ \A o : Cardinality(Naming(size', entries', o)) =
             Cardinality(Naming(size, entries, o))
                 + NamesAt(size', entries', fd, o) - NamesAt(size, entries, fd, o)
      /\ Cardinality(Occupied') =
             Cardinality(Occupied) + UsedAt(size', entries', fd) - UsedAt(size, entries, fd)
  BY <1>t, <1>f, <1>2, TableCounts
<1>4. /\ entries' \in [0 .. size' - 1 -> Entry \cup {None}] /\ entries'[fd] = v
      /\ \A o : NamesAt(size', entries', fd, o) = One(v # None /\ v.object = o)
      /\ UsedAt(size', entries', fd) = One(v # None)
  BY <1>1 DEF H
<1>5. /\ \A o : NamesAt(size, entries, fd, o) = One(entries[fd].object = o)
      /\ UsedAt(size, entries, fd) = 1
  BY <1>1, <1>f DEF One
<1>6. \A o : Cardinality(Naming(size', entries', o)) =
             Cardinality(Naming(size, entries, o))
                 + One(v # None /\ v.object = o) - One(entries[fd].object = o)
  BY <1>3, <1>4, <1>5
<1>7. Cardinality(Occupied') = Cardinality(Occupied) + One(v # None) - 1
  BY <1>3, <1>4, <1>5
<1> QED BY <1>2, <1>4, <1>6, <1>7

(* fd_table_detach passes the reference of the table on. *)
LEMMA DetachDoes ==
    ASSUME IInv, NEW t \in Thread, At(t, "idle"), NEW fd \in Occupied,
           fd_table_detach(t, fd), size' = size
    PROVE  /\ entries' \in [0 .. size' - 1 -> Entry \cup {None}] /\ entries'[fd] = None
           /\ TablesDifferAt(size, entries, size', entries', fd)
           /\ used' \in Nat
           /\ fos' \in [Thread \X Slot -> Object \cup {None}]
           /\ \A u \in Thread \ {t} : \A i \in Slot : fos'[<<u, i>>] = fos[<<u, i>>]
           /\ failure' \in {"no", "assert", "segv"}
           /\ \A o \in Object :
                  Cardinality(Naming(size', entries', o)) + Cardinality(Holding(fos', o)) =
                      Cardinality(Naming(size, entries, o)) + Cardinality(Holding(fos, o))
           /\ renumbered = 0 =>
                  used' = Cardinality(Occupied') /\ 2 * used' <= size' /\ failure' # "assert"
<1>t. /\ TypeOK /\ RefcountExact /\ NoAssertionFails /\ failure = "no" /\ fos[<<t, 1>>] = None
      /\ size \in Nat /\ used \in Nat
  <2>1. TypeOK /\ RefcountExact /\ NoAssertionFails /\ failure = "no" /\ CallerInv(t) /\ pc[t] = "idle"
    BY Turn
  <2> QED BY <2>1, Sizes DEF CallerInv, TypeOK
<1>p. PICK p \in Object : p = entries[fd].object
  BY <1>t, Allocated
<1>d. /\ entries' = Set(fd, None) /\ Handed(t, p)
      /\ used' = (IF used = 0 THEN SizeMax ELSE used - 1)
      /\ failure' = (IF used = 0 THEN "assert" ELSE failure)
  BY <1>p DEF fd_table_detach, Set, Handed
<1>1. /\ entries' \in [0 .. size' - 1 -> Entry \cup {None}] /\ entries'[fd] = None
      /\ TablesDifferAt(size, entries, size', entries', fd)
      /\ \A o : Cardinality(Naming(size', entries', o)) =
             Cardinality(Naming(size, entries, o))
                 + One(None # None /\ None.object = o) - One(p = o)
      /\ Cardinality(Occupied') = Cardinality(Occupied) + One(None # None) - 1
  <2> DEFINE v == None
  <2>1. v \in Entry \cup {None} /\ entries' = Set(fd, v)
    BY <1>d
  <2> HIDE DEF v
  <2>2. /\ entries' \in [0 .. size' - 1 -> Entry \cup {None}] /\ entries'[fd] = v
        /\ TablesDifferAt(size, entries, size', entries', fd)
        /\ \A o : Cardinality(Naming(size', entries', o)) =
               Cardinality(Naming(size, entries, o))
                   + One(v # None /\ v.object = o) - One(entries[fd].object = o)
        /\ Cardinality(Occupied') = Cardinality(Occupied) + One(v # None) - 1
    BY <2>1, <1>t, SetCounts
  <2> QED BY <2>2, <1>p DEF v
<1>2. /\ fos' \in [Thread \X Slot -> Object \cup {None}]
      /\ \A u \in Thread \ {t} : \A i \in Slot : fos'[<<u, i>>] = fos[<<u, i>>]
      /\ \A o \in Object : Cardinality(Holding(fos', o)) = Cardinality(Holding(fos, o)) + One(o = p)
  <2>1. TypeOK /\ fos[<<t, 1>>] = None /\ p \in Object /\ Handed(t, p)
    BY <1>d, <1>t, <1>p
  <2>2. /\ fos' \in [Thread \X Slot -> Object \cup {None}] /\ fos'[<<t, 1>>] = p
        /\ \A i \in Slot \ {1} : fos'[<<t, i>>] = fos[<<t, i>>]
        /\ \A u \in Thread \ {t} : \A i \in Slot : fos'[<<u, i>>] = fos[<<u, i>>]
        /\ \A o \in Object : Cardinality(Holding(fos', o)) = Cardinality(Holding(fos, o)) + One(o = p)
    BY <2>1, HoldsOneMore
  <2> QED BY <2>2
<1>3. used' \in Nat /\ failure' \in {"no", "assert", "segv"}
  BY <1>t, <1>d, FdAssumption
<1>4. ASSUME NEW o \in Object
      PROVE  Cardinality(Naming(size', entries', o)) + Cardinality(Holding(fos', o)) =
                 Cardinality(Naming(size, entries, o)) + Cardinality(Holding(fos, o))
  <2>1. One(None # None /\ None.object = o) = 0 /\ One(p = o) = One(o = p) /\ One(o = p) \in Int
    BY DEF One
  <2>2. Cardinality(Naming(size, entries, o)) \in Nat /\ Cardinality(Holding(fos, o)) \in Nat
    BY <1>t, Finite
  <2>3. Cardinality(Naming(size', entries', o)) =
            Cardinality(Naming(size, entries, o)) + 0 - One(o = p)
    BY <1>1, <2>1
  <2>4. Cardinality(Holding(fos', o)) = Cardinality(Holding(fos, o)) + One(o = p)
    BY <1>2
  <2> QED BY <2>1, <2>2, <2>3, <2>4
<1>5. ASSUME renumbered = 0
      PROVE  used' = Cardinality(Occupied') /\ 2 * used' <= size' /\ failure' # "assert"
  <2>1. used = Cardinality(Occupied) /\ 2 * used <= size
    BY <1>5, <1>t DEF NoAssertionFails
  <2>2. used # 0
    <3>1. IsFiniteSet(Occupied)
      BY <1>t, Finite, OccupiedIs
    <3> QED BY <3>1, <2>1, FS_EmptySet
  <2>3. One(None # None) = 0
    BY DEF One
  <2>4. Cardinality(Occupied') = used + 0 - 1
    BY <1>1, <2>1, <2>3
  <2> QED BY <2>1, <2>2, <2>4, <1>d, <1>t
<1> QED BY <1>1, <1>2, <1>3, <1>4, <1>5

LEMMA CloseStep ==
    ASSUME IInv, NEW t \in Thread, NEW fd \in Nat, fd_close(t, fd), renumbered' = renumbered
    PROVE  IInv'
<1>c. /\ At(t, "idle") /\ fd_table_get_entry(fd, {}, {}) /\ fd_table_detach(t, fd)
      /\ Goto(t, "use") /\ UNCHANGED <<size, refcount, type, number, inserted, request>>
  BY DEF fd_close
<1>i. /\ TypeOK /\ RefcountExact /\ failure = "no" /\ inserted = Stdio + Preopens
  BY <1>c, Turn
<1>f. fd \in Occupied
  BY <1>c, <1>i, FoundEntry
<1>1. /\ entries' \in [0 .. size' - 1 -> Entry \cup {None}] /\ entries'[fd] = None
      /\ TablesDifferAt(size, entries, size', entries', fd)
      /\ used' \in Nat
      /\ fos' \in [Thread \X Slot -> Object \cup {None}]
      /\ \A u \in Thread \ {t} : \A i \in Slot : fos'[<<u, i>>] = fos[<<u, i>>]
      /\ failure' \in {"no", "assert", "segv"}
      /\ \A o \in Object :
             Cardinality(Naming(size', entries', o)) + Cardinality(Holding(fos', o)) =
                 Cardinality(Naming(size, entries, o)) + Cardinality(Holding(fos, o))
      /\ renumbered = 0 =>
             used' = Cardinality(Occupied') /\ 2 * used' <= size' /\ failure' # "assert"
  BY <1>c, <1>f, DetachDoes
<1>2. /\ pc' \in [Thread -> {"idle", "use", "link", "open", "insert", "renumber", "renumber_detach"}]
      /\ pc'[t] = "use" /\ \A u \in Thread \ {t} : pc'[u] = pc[u]
  BY <1>c, <1>i, GotoDoes
<1>3. CallerInv(t)'
  BY <1>2 DEF CallerInv
<1>4. RefcountExact'
  <2>1. \A o \in Object : refcount[o] = Cardinality(Naming(size, entries, o))
                                            + Cardinality(Holding(fos, o))
    BY <1>i, ExactMeans
  <2>2. \A o \in Object : refcount'[o] = Cardinality(Naming(size', entries', o))
                                             + Cardinality(Holding(fos', o))
    BY <2>1, <1>1, <1>c
  <2> QED BY <2>2, ExactMeans
<1>5. NoAssertionFails'
  BY <1>1 DEF NoAssertionFails
<1>6. /\ refcount' \in [Object -> Nat] /\ renumbered' \in 0 .. Renumbers
      /\ request' \in [Thread -> RightsPair \cup [from : Nat] \cup {None}]
      /\ \A u \in Thread : request'[u] = request[u]
      /\ UNCHANGED <<size, type, number, inserted>>
  BY <1>c, <1>i DEF TypeOK
<1> QED BY <1>i, <1>f, <1>1, <1>2, <1>3, <1>4, <1>5, <1>6, EntryStep

LEMMA SetRightsStep ==
    ASSUME IInv, NEW t \in Thread, NEW fd \in Nat, NEW rights \in Requests,
           fd_fdstat_set_rights(t, fd, rights), renumbered' = renumbered
    PROVE  IInv'
<1>c. /\ At(t, "idle") /\ fd_table_get_entry(fd, rights.base, rights.inheriting)
      /\ entries' = [entries EXCEPT ![fd].base = rights.base,
                                    ![fd].inheriting = rights.inheriting]
      /\ UNCHANGED <<size, used, refcount, type, number, inserted, pc, fos, request, failure>>
  BY DEF fd_fdstat_set_rights
<1>i. /\ TypeOK /\ RefcountExact /\ RightsInv /\ NoAssertionFails /\ failure = "no"
      /\ inserted = Stdio + Preopens /\ \A u \in Thread : CallerInv(u)
  BY <1>c, Turn
<1>t. size \in Nat /\ entries \in [0 .. size - 1 -> Entry \cup {None}]
  BY <1>i DEF TypeOK
<1>f. /\ fd \in Occupied /\ entries[fd] \in Entry /\ entries[fd].object \in Object
      /\ rights.base \subseteq entries[fd].base /\ rights.inheriting \subseteq entries[fd].inheriting
  BY <1>c, <1>i, FoundEntry
<1>s. fd \in 0 .. size - 1
  BY <1>f DEF Occupied
<1>r. rights.base \in SUBSET Right /\ rights.inheriting \in SUBSET Right
  BY FdAssumption DEF RightsPair
<1>g. GoodEntry(entries[fd])
  BY <1>i, <1>f DEF RightsInv
<1>v. PICK v \in Entry : v = [entries[fd] EXCEPT !.base = rights.base, !.inheriting = rights.inheriting]
  BY <1>f, <1>r DEF Entry
<1>w. /\ v.object = entries[fd].object /\ v.base = rights.base
      /\ v.inheriting = rights.inheriting /\ v # None
  BY <1>v, <1>f, FdAssumption DEF Entry
<1>e. entries' = Set(fd, v)
  BY <1>c, <1>v, <1>t, <1>s DEF Set
<1>1. /\ entries' \in [0 .. size' - 1 -> Entry \cup {None}] /\ entries'[fd] = v
      /\ TablesDifferAt(size, entries, size', entries', fd)
      /\ \A o : Cardinality(Naming(size', entries', o)) =
             Cardinality(Naming(size, entries, o))
                 + One(v # None /\ v.object = o) - One(entries[fd].object = o)
      /\ Cardinality(Occupied') = Cardinality(Occupied) + One(v # None) - 1
  <2>1. size' = size
    BY <1>c
  <2> QED BY <2>1, <1>e, <1>i, <1>f, SetCounts
<1>2. ASSUME NEW o \in Object
      PROVE  Cardinality(Naming(size', entries', o)) = Cardinality(Naming(size, entries, o))
  <2>1. One(v # None /\ v.object = o) = One(entries[fd].object = o) /\ One(entries[fd].object = o) \in Int
    BY <1>w DEF One
  <2>2. Cardinality(Naming(size, entries, o)) \in Nat
    BY <1>t, Finite
  <2> QED BY <2>1, <2>2, <1>1
<1>3. Cardinality(Occupied') = Cardinality(Occupied)
  <2>1. One(v # None) = 1
    BY <1>w DEF One
  <2>2. Cardinality(Occupied) \in Nat
    BY <1>t, Finite, OccupiedIs
  <2> QED BY <2>1, <2>2, <1>1
<1>4. RefcountExact'
  <2>1. \A o \in Object : refcount[o] = Cardinality(Naming(size, entries, o))
                                            + Cardinality(Holding(fos, o))
    BY <1>i, ExactMeans
  <2>u. refcount' = refcount /\ fos' = fos
    BY <1>c
  <2>2. \A o \in Object : refcount'[o] = Cardinality(Naming(size', entries', o))
                                             + Cardinality(Holding(fos', o))
    BY <2>1, <2>u, <1>2
  <2> QED BY <2>2, ExactMeans
<1>u. /\ UNCHANGED <<size, type, number, inserted>>
      /\ UNCHANGED <<used, refcount, pc, fos, request, failure>>
  BY <1>c
<1>5. NoAssertionFails'
  BY <1>3, <1>u, <1>i DEF NoAssertionFails
<1>6. GoodEntry(entries'[fd])
  BY <1>1, <1>g, <1>w, <1>f DEF GoodEntry, Within
<1>7. /\ used' \in Nat /\ refcount' \in [Object -> Nat]
      /\ fos' \in [Thread \X Slot -> Object \cup {None}]
      /\ pc' \in [Thread -> {"idle", "use", "link", "open", "insert", "renumber", "renumber_detach"}]
      /\ request' \in [Thread -> RightsPair \cup [from : Nat] \cup {None}]
      /\ failure' \in {"no", "assert", "segv"} /\ renumbered' \in 0 .. Renumbers
  BY <1>u, <1>i DEF TypeOK
<1>8. CallerInv(t)'
  <2>1. CallerInv(t) /\ size' = size /\ type' = type
    BY <1>i, <1>u
  <2> QED BY <2>1, <1>t, <1>u, CallerFrame
<1>9. \A u \in Thread \ {t} : /\ pc'[u] = pc[u] /\ request'[u] = request[u]
                              /\ \A i \in Slot : fos'[<<u, i>>] = fos[<<u, i>>]
  BY <1>u
<1>10. /\ UNCHANGED <<size, type, number, inserted>>
       /\ entries' \in [0 .. size' - 1 -> Entry \cup {None}]
       /\ TablesDifferAt(size, entries, size', entries', fd)
  BY <1>u, <1>1
<1> QED BY <1>i, <1>f, <1>10, <1>4, <1>5, <1>6, <1>7, <1>8, <1>9, EntryStep
=============================================================================
