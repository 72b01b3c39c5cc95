---------------------------- MODULE FdTableCalls ----------------------------
(***************************************************************************)
(* Proofs about FdTable, first part: what a change of one place does to the*)
(* numbers of descriptors and of callers that have an object; the inductive*)
(* invariant; and the operations that leave the table alone.               *)
(***************************************************************************)
EXTENDS FdTable, TLAPS, FiniteSetTheorems

(* The places of F that hold o; the descriptors of a table E of n entries  *)
(* that name o; those that are in use.                                     *)
Holding(F, o) == {x \in Thread \X Slot : F[x] = o}
Naming(n, E, o) == {fd \in 0 .. n - 1 : E[fd] # None /\ E[fd].object = o}
InUse(n, E) == {fd \in 0 .. n - 1 : E[fd] # None}
One(b) == IF b THEN 1 ELSE 0
NamesAt(n, E, fd, o) == IF fd < n /\ E[fd] # None /\ E[fd].object = o THEN 1 ELSE 0
UsedAt(n, E, fd) == IF fd < n /\ E[fd] # None THEN 1 ELSE 0

(* F and G differ in one place at most; so do two tables, the second of    *)
(* which may be longer.                                                    *)
DifferAt(F, G, x) == \A y \in (Thread \X Slot) \ {x} : G[y] = F[y]
TablesDifferAt(n, E, m, H, fd) ==
    /\ \A k \in (0 .. n - 1) \ {fd} : H[k] = E[k]
    /\ \A k \in (n .. m - 1) \ {fd} : H[k] = None

LEMMA Sizes ==
    /\ Slots \in Nat /\ Slots >= 2 /\ 1 \in Slot /\ 2 \in Slot
    /\ IsFiniteSet(Thread \X Slot)
<1>1. Slots \in Nat /\ Slots >= 2 /\ 1 \in Slot /\ 2 \in Slot
  BY FdAssumption DEF Slot
<1>2. IsFiniteSet(Slot)
  BY <1>1, FS_Interval DEF Slot
<1>3. IsFiniteSet(Thread)
  BY FdAssumption
<1> QED BY <1>1, <1>2, <1>3, FS_Product

LEMMA Finite ==
    ASSUME NEW o
    PROVE  /\ \A F : IsFiniteSet(Holding(F, o)) /\ Cardinality(Holding(F, o)) \in Nat
           /\ \A n \in Nat : \A E : /\ IsFiniteSet(Naming(n, E, o))
                                    /\ Cardinality(Naming(n, E, o)) \in Nat
                                    /\ IsFiniteSet(InUse(n, E))
                                    /\ Cardinality(InUse(n, E)) \in Nat
<1>1. \A F : Holding(F, o) \in SUBSET (Thread \X Slot)
  BY DEF Holding
<1>2. \A n \in Nat : \A E : Naming(n, E, o) \in SUBSET (0 .. n - 1)
  BY DEF Naming
<1>3. \A n \in Nat : \A E : InUse(n, E) \in SUBSET (0 .. n - 1)
  BY DEF InUse
<1>4. \A n \in Nat : IsFiniteSet(0 .. n - 1)
  BY FS_Interval
<1>5. \A F : IsFiniteSet(Holding(F, o))
  BY <1>1, Sizes, FS_Subset
<1>6. \A n \in Nat : \A E : IsFiniteSet(Naming(n, E, o)) /\ IsFiniteSet(InUse(n, E))
  BY <1>2, <1>3, <1>4, FS_Subset
<1> QED BY <1>5, <1>6, FS_CardinalityType

(* One place of F changes. *)
LEMMA HoldingOne ==
    ASSUME NEW F, NEW G, NEW x \in Thread \X Slot, NEW o, DifferAt(F, G, x)
    PROVE  Cardinality(Holding(G, o)) =
               Cardinality(Holding(F, o)) + One(G[x] = o) - One(F[x] = o)
<1> DEFINE R == Holding(F, o) \ {x}
<1>f. IsFiniteSet(Holding(F, o)) /\ Cardinality(Holding(F, o)) \in Nat
  BY Finite
<1>1. IsFiniteSet(R) /\ Cardinality(R) = Cardinality(Holding(F, o)) - One(F[x] = o)
  <2>1. x \in Holding(F, o) <=> F[x] = o
    BY DEF Holding
  <2> QED BY <2>1, <1>f, FS_RemoveElement DEF One
<1>2. CASE G[x] = o
  <2>1. Holding(G, o) = R \cup {x}
    BY <1>2 DEF Holding, DifferAt
  <2>2. x \notin R
    OBVIOUS
  <2>3. Cardinality(Holding(G, o)) = Cardinality(R) + 1
    BY <1>1, <2>1, <2>2, FS_AddElement
  <2> HIDE DEF R
  <2> QED BY <1>1, <1>2, <1>f, <2>3 DEF One
<1>3. CASE G[x] # o
  <2>1. Holding(G, o) = R
    BY <1>3 DEF Holding, DifferAt
  <2> HIDE DEF R
  <2> QED BY <1>1, <1>3, <1>f, <2>1 DEF One
<1> QED BY <1>2, <1>3

(* One entry of a table changes, which may grow. *)
LEMMA NamingOne ==
    ASSUME NEW n \in Nat, NEW m \in Nat, n <= m, NEW E, NEW H, NEW fd \in 0 .. m - 1, NEW o,
           TablesDifferAt(n, E, m, H, fd)
    PROVE  /\ Cardinality(Naming(m, H, o)) =
                  Cardinality(Naming(n, E, o)) + NamesAt(m, H, fd, o) - NamesAt(n, E, fd, o)
           /\ Cardinality(InUse(m, H)) =
                  Cardinality(InUse(n, E)) + UsedAt(m, H, fd) - UsedAt(n, E, fd)
<1>k. \A k \in (0 .. m - 1) \ {fd} : H[k] = IF k < n THEN E[k] ELSE None
  BY DEF TablesDifferAt
<1>n. 0 .. n - 1 \subseteq 0 .. m - 1 /\ \A k \in 0 .. m - 1 : k < n <=> k \in 0 .. n - 1
  OBVIOUS
<1>m. fd < m
  OBVIOUS
<1> DEFINE R == Naming(n, E, o) \ {fd}
           Q == InUse(n, E) \ {fd}
<1>f. /\ IsFiniteSet(Naming(n, E, o)) /\ Cardinality(Naming(n, E, o)) \in Nat
      /\ IsFiniteSet(InUse(n, E)) /\ Cardinality(InUse(n, E)) \in Nat
  BY Finite
<1>1. IsFiniteSet(R) /\ Cardinality(R) = Cardinality(Naming(n, E, o)) - NamesAt(n, E, fd, o)
  <2>1. fd \in Naming(n, E, o) <=> fd < n /\ E[fd] # None /\ E[fd].object = o
    BY <1>n DEF Naming
  <2> QED BY <2>1, <1>f, FS_RemoveElement DEF NamesAt
<1>2. IsFiniteSet(Q) /\ Cardinality(Q) = Cardinality(InUse(n, E)) - UsedAt(n, E, fd)
  <2>1. fd \in InUse(n, E) <=> fd < n /\ E[fd] # None
    BY <1>n DEF InUse
  <2> QED BY <2>1, <1>f, FS_RemoveElement DEF UsedAt
<1>3. Naming(m, H, o) = IF H[fd] # None /\ H[fd].object = o THEN R \cup {fd} ELSE R
  BY <1>k, <1>n DEF Naming
<1>4. InUse(m, H) = IF H[fd] # None THEN Q \cup {fd} ELSE Q
  BY <1>k, <1>n DEF InUse
<1>5. fd \notin R /\ fd \notin Q
  OBVIOUS
<1>6. Cardinality(R \cup {fd}) = Cardinality(R) + 1 /\ Cardinality(Q \cup {fd}) = Cardinality(Q) + 1
  BY <1>1, <1>2, <1>5, FS_AddElement
<1>7. Cardinality(R) \in Nat /\ Cardinality(Q) \in Nat
  BY <1>1, <1>2, FS_CardinalityType
<1> HIDE DEF R, Q
<1>8. Cardinality(Naming(m, H, o)) = Cardinality(R) + NamesAt(m, H, fd, o)
  BY <1>3, <1>6, <1>7, <1>m DEF NamesAt
<1>9. Cardinality(InUse(m, H)) = Cardinality(Q) + UsedAt(m, H, fd)
  BY <1>4, <1>6, <1>7, <1>m DEF UsedAt
<1>10. /\ NamesAt(m, H, fd, o) \in Int /\ NamesAt(n, E, fd, o) \in Int
       /\ UsedAt(m, H, fd) \in Int /\ UsedAt(n, E, fd) \in Int
  BY DEF NamesAt, UsedAt
<1> QED BY <1>1, <1>2, <1>8, <1>9, <1>10, <1>f

-----------------------------------------------------------------------------
(* The inductive invariant *)

Within(r, S) == r.base \subseteq S /\ r.inheriting \subseteq S

(* What a caller has, and has asked for, by where it is. *)
CallerInv(t) ==
    /\ pc[t] \in {"idle", "insert", "renumber_detach"} =>
           \A i \in Slot : fos[<<t, i>>] = None
    /\ pc[t] \in {"link", "open", "renumber"} =>
           fos[<<t, 1>>] # None /\ \A i \in Slot \ {1} : fos[<<t, i>>] = None
    /\ pc[t] = "open" =>
           /\ request[t] \in RightsPair
           /\ Within(request[t], TypeRights[type[fos[<<t, 1>>]]].inheriting)
    /\ pc[t] = "insert" =>
           /\ request[t] \in RightsPair
           /\ Within(request[t], TypeRights[Directory].inheriting)
    /\ pc[t] \in {"renumber", "renumber_detach"} =>
           request[t] \in [from : 0 .. size - 1] /\ renumbered # 0

ControlInv ==
    failure = "no" =>
        /\ \A t \in Thread : CallerInv(t)
        /\ inserted < Stdio + Preopens => \A fd \in Occupied : fd < inserted

(* No descriptor has more rights than fit its type, and none that was     *)
(* opened has more than preopened directories hand down.                  *)
GoodEntry(e) ==
    /\ e.base \subseteq TypeRights[type[e.object]].base
    /\ e.inheriting \subseteq TypeRights[type[e.object]].inheriting
    /\ number[e.object] # "stdio" => Within(e, TypeRights[Directory].inheriting)

RightsInv == \A fd \in Occupied : GoodEntry(entries[fd])

IInv == TypeOK /\ ControlInv /\ RightsInv /\ RefcountExact /\ NoAssertionFails

LEMMA ExactMeans ==
    /\ RefcountExact <=>
           \A o \in Object : refcount[o] = Cardinality(Naming(size, entries, o))
                                               + Cardinality(Holding(fos, o))
    /\ RefcountExact' <=>
           \A o \in Object : refcount'[o] = Cardinality(Naming(size', entries', o))
                                                + Cardinality(Holding(fos', o))
<1>1. \A o : NamedBy(o) = Naming(size, entries, o) /\ HeldBy(o) = Holding(fos, o)
  BY DEF NamedBy, Occupied, HeldBy, Naming, Holding
<1>2. \A o : NamedBy(o)' = Naming(size', entries', o) /\ HeldBy(o)' = Holding(fos', o)
  BY DEF NamedBy, Occupied, HeldBy, Naming, Holding
<1> QED BY <1>1, <1>2 DEF RefcountExact

LEMMA OccupiedIs == Occupied = InUse(size, entries) /\ Occupied' = InUse(size', entries')
BY DEF Occupied, InUse

(* What is named or held has been allocated. *)
LEMMA Allocated ==
    ASSUME TypeOK, RefcountExact
    PROVE  /\ \A fd \in Occupied : /\ entries[fd] \in Entry
                                   /\ entries[fd].object \in Object
                                   /\ refcount[entries[fd].object] > 0
           /\ \A x \in Thread \X Slot : fos[x] # None => fos[x] \in Object /\ refcount[fos[x]] > 0
<1>t. /\ size \in Nat /\ entries \in [0 .. size - 1 -> Entry \cup {None}]
      /\ fos \in [Thread \X Slot -> Object \cup {None}]
  BY DEF TypeOK
<1>c. \A o \in Object : /\ refcount[o] = Cardinality(Naming(size, entries, o))
                                             + Cardinality(Holding(fos, o))
                        /\ Cardinality(Naming(size, entries, o)) \in Nat
                        /\ Cardinality(Holding(fos, o)) \in Nat
                        /\ IsFiniteSet(Naming(size, entries, o))
                        /\ IsFiniteSet(Holding(fos, o))
  BY <1>t, ExactMeans, Finite
<1>1. ASSUME NEW fd \in Occupied
      PROVE  /\ entries[fd] \in Entry /\ entries[fd].object \in Object
             /\ refcount[entries[fd].object] > 0
  <2>1. fd \in 0 .. size - 1 /\ entries[fd] # None /\ entries[fd] \in Entry
    BY <1>t DEF Occupied
  <2>2. entries[fd].object \in Object
    BY <2>1 DEF Entry
  <2> DEFINE o == entries[fd].object
  <2>3. Naming(size, entries, o) # {}
    BY <2>1 DEF Naming
  <2> HIDE DEF o
  <2>4. Cardinality(Naming(size, entries, o)) # 0
    BY <2>2, <2>3, <1>c, FS_EmptySet DEF o
  <2>5. refcount[o] > 0
    BY <2>2, <2>4, <1>c DEF o
  <2> QED BY <2>1, <2>2, <2>5 DEF o
<1>2. ASSUME NEW x \in Thread \X Slot, fos[x] # None
      PROVE  fos[x] \in Object /\ refcount[fos[x]] > 0
  <2> DEFINE o == fos[x]
  <2>1. o \in Object
    BY <1>2, <1>t
  <2>2. Holding(fos, o) # {}
    BY DEF Holding
  <2> HIDE DEF o
  <2>3. Cardinality(Holding(fos, o)) # 0
    BY <2>1, <2>2, <1>c, FS_EmptySet
  <2>4. refcount[o] > 0
    BY <2>1, <2>3, <1>c
  <2> QED BY <2>1, <2>4 DEF o
<1> QED BY <1>1, <1>2

LEMMA Longer ==
    \A a, b \in Nat : a <= b =>
        /\ 0 .. a - 1 \subseteq 0 .. b - 1
        /\ \A k \in 0 .. b - 1 : k \notin 0 .. a - 1 => k \in a .. b - 1
OBVIOUS

(* A caller that takes no part in a step. *)
LEMMA CallerFrame ==
    ASSUME NEW u \in Thread, CallerInv(u), size \in Nat, size' \in Nat, size <= size',
           pc'[u] = pc[u], request'[u] = request[u],
           \A i \in Slot : fos'[<<u, i>>] = fos[<<u, i>>],
           fos[<<u, 1>>] # None => type'[fos[<<u, 1>>]] = type[fos[<<u, 1>>]],
           renumbered # 0 => renumbered' # 0
    PROVE  CallerInv(u)'
<1>1. 1 \in Slot
  BY Sizes
<1>2. 0 .. size - 1 \subseteq 0 .. size' - 1
  BY Longer
<1>3. request[u] \in [from : 0 .. size - 1] => request[u] \in [from : 0 .. size' - 1]
  BY <1>2
<1>4. /\ pc'[u] \in {"idle", "insert", "renumber_detach"} => \A i \in Slot : fos'[<<u, i>>] = None
      /\ pc'[u] \in {"link", "open", "renumber"} =>
             fos'[<<u, 1>>] # None /\ \A i \in Slot \ {1} : fos'[<<u, i>>] = None
  BY <1>1 DEF CallerInv
<1>5. pc'[u] = "open" =>
          /\ request'[u] \in RightsPair
          /\ Within(request'[u], TypeRights[type'[fos'[<<u, 1>>]]].inheriting)
  BY <1>1 DEF CallerInv
<1>6. /\ pc'[u] = "insert" =>
             /\ request'[u] \in RightsPair
             /\ Within(request'[u], TypeRights[Directory].inheriting)
      /\ pc'[u] \in {"renumber", "renumber_detach"} =>
             request'[u] \in [from : 0 .. size' - 1] /\ renumbered' # 0
  BY <1>3 DEF CallerInv
<1> QED BY <1>4, <1>5, <1>6 DEF CallerInv, Within

(* Steps of a call that leave the table alone. *)
LEMMA CallStep ==
    ASSUME IInv, NEW t \in Thread, failure = "no",
           UNCHANGED <<entries, size, used, type, number, inserted, failure, renumbered>>,
           refcount' \in [Object -> Nat],
           fos' \in [Thread \X Slot -> Object \cup {None}],
           pc' \in [Thread -> {"idle", "use", "link", "open", "insert", "renumber",
                               "renumber_detach"}],
           request' \in [Thread -> RightsPair \cup [from : Nat] \cup {None}],
           \A u \in Thread \ {t} : /\ pc'[u] = pc[u] /\ request'[u] = request[u]
                                   /\ \A i \in Slot : fos'[<<u, i>>] = fos[<<u, i>>],
           CallerInv(t)',
           RefcountExact'
    PROVE  IInv'
<1>i. TypeOK /\ ControlInv /\ RightsInv /\ NoAssertionFails
  BY DEF IInv
<1>1. TypeOK'
  BY <1>i DEF TypeOK
<1>o. Occupied' = Occupied
  BY DEF Occupied
<1>2. ControlInv'
  <2>1. ASSUME NEW u \in Thread
        PROVE  CallerInv(u)'
    <3>1. CASE u = t
      BY <3>1
    <3>2. CASE u # t
      <4>1. CallerInv(u) /\ size \in Nat /\ size' = size /\ type' = type
        BY <1>i DEF ControlInv, TypeOK
      <4>2. size <= size'
        BY <4>1
      <4> QED BY <3>2, <4>1, <4>2, CallerFrame
    <3> QED BY <3>1, <3>2
  <2> QED BY <2>1, <1>i, <1>o DEF ControlInv
<1>3. RightsInv'
  BY <1>i, <1>o DEF RightsInv, GoodEntry, Within
<1>4. NoAssertionFails'
  BY <1>i, <1>o DEF NoAssertionFails
<1> QED BY <1>1, <1>2, <1>3, <1>4 DEF IInv

-----------------------------------------------------------------------------
(* References *)

LEMMA FoundEntry ==
    ASSUME TypeOK, RefcountExact, NEW fd \in Nat, NEW base, NEW inheriting,
           fd_table_get_entry(fd, base, inheriting)
    PROVE  /\ fd \in Occupied /\ entries[fd] \in Entry /\ entries[fd].object \in Object
           /\ base \subseteq entries[fd].base /\ inheriting \subseteq entries[fd].inheriting
<1>1. /\ fd < size /\ entries[fd] # None
      /\ base \subseteq entries[fd].base /\ inheriting \subseteq entries[fd].inheriting
  BY DEF fd_table_get_entry
<1>2. fd \in Occupied
  BY <1>1 DEF Occupied, TypeOK
<1> QED BY <1>1, <1>2, Allocated

LEMMA GetExact ==
    ASSUME TypeOK, RefcountExact, NEW t \in Thread, NEW i \in Slot, fos[<<t, i>>] = None,
           NEW fd \in Nat, NEW base, NEW inheriting, fd_object_get(t, i, fd, base, inheriting),
           entries' = entries, size' = size
    PROVE  /\ RefcountExact'
           /\ refcount' \in [Object -> Nat]
           /\ fos' \in [Thread \X Slot -> Object \cup {None}]
           /\ fos'[<<t, i>>] = entries[fd].object
           /\ \A y \in (Thread \X Slot) \ {<<t, i>>} : fos'[y] = fos[y]
<1> DEFINE x == <<t, i>>
           p == entries[fd].object
<1>t. /\ size \in Nat /\ refcount \in [Object -> Nat]
      /\ fos \in [Thread \X Slot -> Object \cup {None}]
  BY DEF TypeOK
<1>x. x \in Thread \X Slot /\ p \in Object /\ fos[x] = None
  BY FoundEntry DEF fd_object_get
<1>r. fos' = [fos EXCEPT ![x] = p] /\ refcount' = [refcount EXCEPT ![p] = @ + 1]
  BY DEF fd_object_get
<1>0. None \notin Object
  BY FdAssumption
<1> HIDE DEF x, p
<1>1. /\ refcount' \in [Object -> Nat]
      /\ \A o \in Object : refcount'[o] = refcount[o] + One(o = p)
  BY <1>t, <1>x, <1>r DEF One
<1>2. /\ fos' \in [Thread \X Slot -> Object \cup {None}] /\ fos'[x] = p
      /\ \A y \in (Thread \X Slot) \ {x} : fos'[y] = fos[y]
  BY <1>t, <1>x, <1>r
<1>d. DifferAt(fos, fos', x)
  BY <1>2 DEF DifferAt
<1>3. ASSUME NEW o \in Object
      PROVE  refcount'[o] = Cardinality(Naming(size', entries', o)) + Cardinality(Holding(fos', o))
  <2>1. Cardinality(Holding(fos', o)) =
            Cardinality(Holding(fos, o)) + One(fos'[x] = o) - One(fos[x] = o)
    BY <1>x, <1>d, HoldingOne
  <2>2. One(fos'[x] = o) = One(o = p) /\ One(fos[x] = o) = 0
    BY <1>2, <1>x, <1>0 DEF One
  <2>3. refcount[o] = Cardinality(Naming(size, entries, o)) + Cardinality(Holding(fos, o))
    BY ExactMeans
  <2>4. Cardinality(Naming(size, entries, o)) \in Nat /\ Cardinality(Holding(fos, o)) \in Nat
    BY <1>t, Finite
  <2>5. One(o = p) \in Int
    BY DEF One
  <2> QED BY <1>1, <2>1, <2>2, <2>3, <2>4, <2>5
<1>4. RefcountExact'
  BY <1>3, ExactMeans
<1> QED BY <1>1, <1>2, <1>4 DEF x, p

LEMMA ReleaseExact ==
    ASSUME TypeOK, RefcountExact, NEW t \in Thread, NEW i \in Slot, fos[<<t, i>>] # None,
           fd_object_release(t, i),
           entries' = entries, size' = size
    PROVE  /\ RefcountExact' /\ failure' = failure
           /\ refcount' \in [Object -> Nat]
           /\ fos' \in [Thread \X Slot -> Object \cup {None}]
           /\ fos'[<<t, i>>] = None
           /\ \A y \in (Thread \X Slot) \ {<<t, i>>} : fos'[y] = fos[y]
<1> DEFINE x == <<t, i>>
           p == fos[x]
<1>t. /\ size \in Nat /\ refcount \in [Object -> Nat]
      /\ fos \in [Thread \X Slot -> Object \cup {None}]
  BY DEF TypeOK
<1>x. x \in Thread \X Slot /\ p \in Object /\ refcount[p] > 0 /\ refcount[p] \in Nat
  BY <1>t, Allocated
<1>r. /\ fos' = [fos EXCEPT ![x] = None]
      /\ refcount' = [refcount EXCEPT ![p] = IF @ = 0 THEN 0 ELSE @ - 1]
      /\ failure' = IF refcount[p] = 0 THEN "assert" ELSE failure
  BY DEF fd_object_release
<1>p. p = fos[x]
  OBVIOUS
<1>0. None \notin Object
  BY FdAssumption
<1> HIDE DEF x, p
<1>1. /\ refcount' \in [Object -> Nat] /\ failure' = failure
      /\ \A o \in Object : refcount'[o] = refcount[o] - One(o = p)
  BY <1>t, <1>x, <1>r DEF One
<1>2. /\ fos' \in [Thread \X Slot -> Object \cup {None}] /\ fos'[x] = None
      /\ \A y \in (Thread \X Slot) \ {x} : fos'[y] = fos[y]
  BY <1>t, <1>x, <1>r
<1>d. DifferAt(fos, fos', x)
  BY <1>2 DEF DifferAt
<1>3. ASSUME NEW o \in Object
      PROVE  refcount'[o] = Cardinality(Naming(size', entries', o)) + Cardinality(Holding(fos', o))
  <2>1. Cardinality(Holding(fos', o)) =
            Cardinality(Holding(fos, o)) + One(fos'[x] = o) - One(fos[x] = o)
    BY <1>x, <1>d, HoldingOne
  <2>2. One(fos'[x] = o) = 0 /\ One(fos[x] = o) = One(o = p)
    BY <1>2, <1>0, <1>p DEF One
  <2>3. refcount[o] = Cardinality(Naming(size, entries, o)) + Cardinality(Holding(fos, o))
    BY ExactMeans
  <2>4. Cardinality(Naming(size, entries, o)) \in Nat /\ Cardinality(Holding(fos, o)) \in Nat
    BY <1>t, Finite
  <2>5. One(o = p) \in Int
    BY DEF One
  <2> QED BY <1>1, <2>1, <2>2, <2>3, <2>4, <2>5
<1>4. RefcountExact'
  BY <1>3, ExactMeans
<1> QED BY <1>1, <1>2, <1>4 DEF x

LEMMA GotoDoes ==
    ASSUME TypeOK, NEW t \in Thread,
           NEW step \in {"idle", "use", "link", "open", "insert", "renumber", "renumber_detach"},
           Goto(t, step)
    PROVE  /\ pc' \in [Thread -> {"idle", "use", "link", "open", "insert", "renumber",
                                  "renumber_detach"}]
           /\ pc'[t] = step
           /\ \A u \in Thread \ {t} : pc'[u] = pc[u]
BY DEF Goto, TypeOK

LEMMA RequestDoes ==
    ASSUME TypeOK, NEW t \in Thread, NEW r \in RightsPair \cup [from : Nat] \cup {None},
           request' = [request EXCEPT ![t] = r]
    PROVE  /\ request' \in [Thread -> RightsPair \cup [from : Nat] \cup {None}]
           /\ request'[t] = r
           /\ \A u \in Thread \ {t} : request'[u] = request[u]
<1>1. request \in [Thread -> RightsPair \cup [from : Nat] \cup {None}]
  BY DEF TypeOK
<1> QED BY <1>1

(* What is known of a caller whose turn it is. *)
LEMMA Turn ==
    ASSUME IInv, NEW t \in Thread, NEW step, At(t, step)
    PROVE  /\ TypeOK /\ RefcountExact /\ RightsInv /\ NoAssertionFails
           /\ failure = "no" /\ pc[t] = step /\ inserted = Stdio + Preopens
           /\ \A u \in Thread : CallerInv(u)
           /\ \A i \in Slot : <<t, i>> \in Thread \X Slot
BY DEF IInv, ControlInv, At

-----------------------------------------------------------------------------
(* Calls that look up, use and release *)

LEMMA GetStep ==
    ASSUME IInv, NEW t \in Thread, NEW fd \in Nat, NEW r \in Right,
           fd_call(t, fd, r) \/ path_link(t, fd, r), renumbered' = renumbered
    PROVE  IInv'
<1>1. /\ At(t, "idle") /\ fd_object_get(t, 1, fd, {r}, {})
      /\ UNCHANGED <<entries, size, used, type, number, inserted, request, failure>>
      /\ Goto(t, "use") \/ Goto(t, "link")
  BY DEF fd_call, path_link
<1>2. /\ TypeOK /\ RefcountExact /\ failure = "no" /\ pc[t] = "idle" /\ CallerInv(t)
      /\ request \in [Thread -> RightsPair \cup [from : Nat] \cup {None}]
  BY <1>1, Turn DEF TypeOK
<1>s. 1 \in Slot
  BY Sizes
<1>3. \A i \in Slot : fos[<<t, i>>] = None
  BY <1>2 DEF CallerInv
<1>4. /\ RefcountExact' /\ refcount' \in [Object -> Nat]
      /\ fos' \in [Thread \X Slot -> Object \cup {None}]
      /\ fos'[<<t, 1>>] = entries[fd].object
      /\ \A y \in (Thread \X Slot) \ {<<t, 1>>} : fos'[y] = fos[y]
  BY <1>1, <1>2, <1>3, <1>s, GetExact
<1>5. entries[fd].object # None
  BY <1>1, <1>2, FoundEntry, FdAssumption DEF fd_object_get
<1>6. /\ pc' \in [Thread -> {"idle", "use", "link", "open", "insert", "renumber",
                             "renumber_detach"}]
      /\ pc'[t] \in {"use", "link"} /\ \A u \in Thread \ {t} : pc'[u] = pc[u]
  BY <1>1, <1>2, GotoDoes
<1>7. \A u \in Thread \ {t} : \A i \in Slot : fos'[<<u, i>>] = fos[<<u, i>>]
  BY <1>4
<1>8. \A i \in Slot \ {1} : fos'[<<t, i>>] = None
  BY <1>3, <1>4
<1>9. CallerInv(t)'
  BY <1>4, <1>5, <1>6, <1>8 DEF CallerInv
<1> QED BY <1>1, <1>2, <1>4, <1>6, <1>7, <1>9, CallStep

LEMMA LinkTargetStep ==
    ASSUME IInv, NEW t \in Thread, NEW fd \in Nat, NEW r \in Right,
           path_link_target(t, fd, r), renumbered' = renumbered
    PROVE  IInv'
<1>1. /\ At(t, "link") /\ Goto(t, "use")
      /\ UNCHANGED <<entries, size, used, type, number, inserted, request, failure>>
      /\ fd_object_get(t, 2, fd, {r}, {}) \/ UNCHANGED <<fos, refcount>>
  BY DEF path_link_target
<1>2. /\ TypeOK /\ RefcountExact /\ failure = "no" /\ pc[t] = "link" /\ CallerInv(t)
      /\ request \in [Thread -> RightsPair \cup [from : Nat] \cup {None}]
  BY <1>1, Turn DEF TypeOK
<1>s. 2 \in Slot /\ 2 \in Slot \ {1}
  BY Sizes
<1>3. fos[<<t, 2>>] = None
  BY <1>2, <1>s DEF CallerInv
<1>6. /\ pc' \in [Thread -> {"idle", "use", "link", "open", "insert", "renumber",
                             "renumber_detach"}]
      /\ pc'[t] = "use" /\ \A u \in Thread \ {t} : pc'[u] = pc[u]
  BY <1>1, <1>2, GotoDoes
<1>9. CallerInv(t)'
  BY <1>6 DEF CallerInv
<1>4. CASE fd_object_get(t, 2, fd, {r}, {})
  <2>1. /\ RefcountExact' /\ refcount' \in [Object -> Nat]
        /\ fos' \in [Thread \X Slot -> Object \cup {None}]
        /\ \A y \in (Thread \X Slot) \ {<<t, 2>>} : fos'[y] = fos[y]
    BY <1>1, <1>2, <1>3, <1>4, <1>s, GetExact
  <2>2. \A u \in Thread \ {t} : \A i \in Slot : fos'[<<u, i>>] = fos[<<u, i>>]
    BY <2>1
  <2> QED BY <1>1, <1>2, <1>6, <1>9, <2>1, <2>2, CallStep
<1>5. CASE UNCHANGED <<fos, refcount>>
  <2>1. /\ refcount' \in [Object -> Nat]
        /\ fos' \in [Thread \X Slot -> Object \cup {None}]
    BY <1>2, <1>5 DEF TypeOK
  <2>2. RefcountExact'
    BY <1>1, <1>2, <1>5, ExactMeans
  <2> QED BY <1>1, <1>2, <1>5, <1>6, <1>9, <2>1, <2>2, CallStep
<1> QED BY <1>1, <1>4, <1>5

LEMMA ReleaseStep ==
    ASSUME IInv, NEW t \in Thread, NEW i \in Slot, release(t, i), renumbered' = renumbered
    PROVE  IInv'
<1>1. /\ At(t, "use") /\ i \in Held(t) /\ fd_object_release(t, i)
      /\ UNCHANGED <<entries, size, used, type, number, inserted, request>>
      /\ IF Held(t) = {i} THEN Goto(t, "idle") ELSE UNCHANGED pc
  BY DEF release
<1>2. /\ TypeOK /\ RefcountExact /\ failure = "no" /\ pc[t] = "use"
      /\ request \in [Thread -> RightsPair \cup [from : Nat] \cup {None}]
      /\ pc \in [Thread -> {"idle", "use", "link", "open", "insert", "renumber",
                            "renumber_detach"}]
  BY <1>1, Turn DEF TypeOK
<1>3. fos[<<t, i>>] # None
  BY <1>1 DEF Held
<1>4. /\ RefcountExact' /\ failure' = failure /\ refcount' \in [Object -> Nat]
      /\ fos' \in [Thread \X Slot -> Object \cup {None}]
      /\ fos'[<<t, i>>] = None
      /\ \A y \in (Thread \X Slot) \ {<<t, i>>} : fos'[y] = fos[y]
  BY <1>1, <1>2, <1>3, ReleaseExact
<1>5. /\ pc' \in [Thread -> {"idle", "use", "link", "open", "insert", "renumber",
                             "renumber_detach"}]
      /\ pc'[t] = IF Held(t) = {i} THEN "idle" ELSE "use"
      /\ \A u \in Thread \ {t} : pc'[u] = pc[u]
  BY <1>1, <1>2, GotoDoes
<1>6. \A u \in Thread \ {t} : \A j \in Slot : fos'[<<u, j>>] = fos[<<u, j>>]
  BY <1>4
<1>7. Held(t) = {i} => \A j \in Slot : fos'[<<t, j>>] = None
  BY <1>4 DEF Held
<1>8. CallerInv(t)'
  BY <1>5, <1>7 DEF CallerInv
<1> QED BY <1>1, <1>2, <1>4, <1>5, <1>6, <1>8, CallStep, Zenon

LEMMA OpenStep ==
    ASSUME IInv, NEW t \in Thread, NEW fd \in Nat, NEW rights \in Requests,
           path_open(t, fd, rights), renumbered' = renumbered
    PROVE  IInv'
<1>1. /\ At(t, "idle") /\ Goto(t, "open")
      /\ fd_object_get(t, 1, fd, {OpenRight}, rights.base \cup rights.inheriting)
      /\ UNCHANGED <<entries, size, used, type, number, inserted, failure>>
      /\ request' = [request EXCEPT ![t] = rights]
  BY DEF path_open
<1>2. TypeOK /\ RefcountExact /\ RightsInv /\ failure = "no" /\ pc[t] = "idle" /\ CallerInv(t)
  BY <1>1, Turn
<1>s. 1 \in Slot
  BY Sizes
<1>3. \A i \in Slot : fos[<<t, i>>] = None
  BY <1>2 DEF CallerInv
<1>r. rights \in RightsPair
  BY FdAssumption
<1>4. /\ RefcountExact' /\ refcount' \in [Object -> Nat]
      /\ fos' \in [Thread \X Slot -> Object \cup {None}]
      /\ fos'[<<t, 1>>] = entries[fd].object
      /\ \A y \in (Thread \X Slot) \ {<<t, 1>>} : fos'[y] = fos[y]
  BY <1>1, <1>2, <1>3, <1>s, GetExact
<1>5. /\ fd \in Occupied /\ entries[fd].object # None
      /\ Within(rights, entries[fd].inheriting)
  BY <1>1, <1>2, FoundEntry, FdAssumption DEF fd_object_get, Within
<1>w. Within(rights, TypeRights[type[entries[fd].object]].inheriting)
  BY <1>2, <1>5 DEF RightsInv, GoodEntry, Within
<1>6. /\ pc' \in [Thread -> {"idle", "use", "link", "open", "insert", "renumber",
                             "renumber_detach"}]
      /\ pc'[t] = "open" /\ \A u \in Thread \ {t} : pc'[u] = pc[u]
  BY <1>1, <1>2, GotoDoes
<1>q. /\ request' \in [Thread -> RightsPair \cup [from : Nat] \cup {None}]
      /\ request'[t] = rights /\ \A u \in Thread \ {t} : request'[u] = request[u]
  BY <1>1, <1>2, <1>r, RequestDoes
<1>7. \A u \in Thread \ {t} : \A i \in Slot : fos'[<<u, i>>] = fos[<<u, i>>]
  BY <1>4
<1>8. \A i \in Slot \ {1} : fos'[<<t, i>>] = None
  BY <1>3, <1>4
<1>9. CallerInv(t)'
  <2>1. Within(request'[t], TypeRights[type'[fos'[<<t, 1>>]]].inheriting)
    BY <1>1, <1>4, <1>q, <1>w
  <2>2. Within(request[t], TypeRights[type[fos[<<t, 1>>]]].inheriting)'
    BY <2>1 DEF Within
  <2> QED BY <1>4, <1>5, <1>6, <1>8, <1>q, <1>r, <2>2 DEF CallerInv
<1> QED BY <1>1, <1>2, <1>4, <1>6, <1>7, <1>9, <1>q, CallStep

(* openat has succeeded, or fd_renumber has replaced an entry: the caller  *)
(* releases the one object it has.                                         *)
LEMMA ReleaseOnlyStep ==
    ASSUME IInv, NEW t \in Thread,
           path_open_openat(t) \/ renumber_release(t), renumbered' = renumbered
    PROVE  IInv'
<1>1. /\ At(t, "open") \/ At(t, "renumber")
      /\ fd_object_release(t, 1)
      /\ UNCHANGED <<entries, size, used, type, number, inserted, request>>
      /\ At(t, "open") => type[fos[<<t, 1>>]] = Directory /\ Goto(t, "insert")
      /\ At(t, "renumber") => Goto(t, "renumber_detach")
  BY DEF path_open_openat, renumber_release, At
<1>2. /\ TypeOK /\ RefcountExact /\ failure = "no" /\ CallerInv(t)
      /\ pc[t] \in {"open", "renumber"}
      /\ request \in [Thread -> RightsPair \cup [from : Nat] \cup {None}]
  BY <1>1, Turn DEF TypeOK
<1>s. 1 \in Slot
  BY Sizes
<1>3. fos[<<t, 1>>] # None /\ \A i \in Slot \ {1} : fos[<<t, i>>] = None
  BY <1>2 DEF CallerInv
<1>4. /\ RefcountExact' /\ failure' = failure /\ refcount' \in [Object -> Nat]
      /\ fos' \in [Thread \X Slot -> Object \cup {None}]
      /\ fos'[<<t, 1>>] = None
      /\ \A y \in (Thread \X Slot) \ {<<t, 1>>} : fos'[y] = fos[y]
  BY <1>1, <1>2, <1>3, <1>s, ReleaseExact
<1>p. \/ At(t, "open") /\ pc[t] = "open" /\ Goto(t, "insert")
      \/ At(t, "renumber") /\ pc[t] = "renumber" /\ Goto(t, "renumber_detach")
  BY <1>1 DEF At
<1>5. /\ pc' \in [Thread -> {"idle", "use", "link", "open", "insert", "renumber",
                             "renumber_detach"}]
      /\ \/ pc[t] = "open" /\ pc'[t] = "insert"
         \/ pc[t] = "renumber" /\ pc'[t] = "renumber_detach"
      /\ \A u \in Thread \ {t} : pc'[u] = pc[u]
  BY <1>p, <1>2, GotoDoes
<1>6. \A u \in Thread \ {t} : \A j \in Slot : fos'[<<u, j>>] = fos[<<u, j>>]
  BY <1>4
<1>7. \A j \in Slot : fos'[<<t, j>>] = None
  BY <1>3, <1>4
<1>8. pc'[t] = "insert" =>
          request[t] \in RightsPair /\ Within(request[t], TypeRights[Directory].inheriting)
  BY <1>1, <1>2, <1>5 DEF CallerInv, At
<1>9. pc'[t] = "renumber_detach" => request[t] \in [from : 0 .. size - 1] /\ renumbered # 0
  BY <1>2, <1>5 DEF CallerInv
<1>10. CallerInv(t)'
  BY <1>1, <1>5, <1>7, <1>8, <1>9, Zenon DEF CallerInv, Within
<1> QED BY <1>1, <1>2, <1>4, <1>5, <1>6, <1>10, CallStep

LEMMA FailsStep ==
    ASSUME IInv, NEW t \in Thread,
           path_open_fails(t) \/ fd_table_insert_fails(t), renumbered' = renumbered
    PROVE  IInv'
<1>1. /\ \/ At(t, "open") /\ Goto(t, "use")
         \/ At(t, "insert") /\ Goto(t, "idle")
      /\ request' = [request EXCEPT ![t] = None]
      /\ UNCHANGED <<entries, size, used, refcount, type, number, inserted, fos, failure>>
  BY DEF path_open_fails, fd_table_insert_fails
<1>2. /\ TypeOK /\ RefcountExact /\ failure = "no" /\ CallerInv(t)
      /\ \/ pc[t] = "open" /\ Goto(t, "use")
         \/ pc[t] = "insert" /\ Goto(t, "idle")
  BY <1>1, Turn
<1>3. /\ request' \in [Thread -> RightsPair \cup [from : Nat] \cup {None}]
      /\ \A u \in Thread \ {t} : request'[u] = request[u]
  BY <1>1, <1>2, RequestDoes
<1>4. /\ pc' \in [Thread -> {"idle", "use", "link", "open", "insert", "renumber",
                             "renumber_detach"}]
      /\ \/ pc'[t] = "use"
         \/ pc[t] = "insert" /\ pc'[t] = "idle"
      /\ \A u \in Thread \ {t} : pc'[u] = pc[u]
  BY <1>2, GotoDoes
<1>5. CallerInv(t)'
  BY <1>1, <1>2, <1>4 DEF CallerInv
<1>6. /\ refcount' \in [Object -> Nat]
      /\ fos' \in [Thread \X Slot -> Object \cup {None}]
  BY <1>1, <1>2 DEF TypeOK
<1>7. RefcountExact'
  BY <1>1, <1>2, ExactMeans
<1>8. \A u \in Thread \ {t} : \A j \in Slot : fos'[<<u, j>>] = fos[<<u, j>>]
  BY <1>1
<1>9. UNCHANGED <<entries, size, used, type, number, inserted, failure, renumbered>>
  BY <1>1
<1> QED BY <1>2, <1>3, <1>4, <1>5, <1>6, <1>7, <1>8, <1>9, CallStep, Zenon

(* As many places as there are numbers of places. *)
LEMMA Places ==
    ASSUME NEW t, NEW S, IsFiniteSet(S)
    PROVE  /\ IsFiniteSet({t} \X S)
           /\ Cardinality({t} \X S) = Cardinality(S)
<1> DEFINE f == [i \in S |-> <<t, i>>]
<1>1. f \in Bijection(S, {t} \X S)
  <2>1. f \in [S -> {t} \X S] /\ DOMAIN f = S
    OBVIOUS
  <2>2. \A a, b \in S : f[a] = f[b] => a = b
    OBVIOUS
  <2>3. \A y \in {t} \X S : \E i \in S : f[i] = y
    OBVIOUS
  <2> HIDE DEF f
  <2> QED BY <2>1, <2>2, <2>3 DEF Bijection, Injection, Surjection, IsInjective
<1> QED BY <1>1, FS_Bijection DEF ExistsBijection

LEMMA PollStep ==
    ASSUME IInv, NEW t \in Thread, poll_oneoff(t), renumbered' = renumbered
    PROVE  IInv'
<1>1. /\ At(t, "idle") /\ Goto(t, "use")
      /\ UNCHANGED <<entries, size, used, type, number, inserted, request, failure>>
  BY DEF poll_oneoff
<1>2. /\ TypeOK /\ RefcountExact /\ failure = "no" /\ pc[t] = "idle" /\ CallerInv(t)
      /\ request \in [Thread -> RightsPair \cup [from : Nat] \cup {None}]
      /\ fos \in [Thread \X Slot -> Object \cup {None}]
      /\ refcount \in [Object -> Nat] /\ size \in Nat
  BY <1>1, Turn DEF TypeOK
<1>p. PICK fds \in [Slot -> 0 .. size] :
        LET valid == {i \in Slot : fd_table_get_entry(fds[i], {PollRight}, {})}
        IN  /\ fos' = [x \in Thread \X Slot |->
                          IF x[1] = t /\ x[2] \in valid THEN entries[fds[x[2]]].object
                          ELSE fos[x]]
            /\ refcount' = [o \in Object |->
                   refcount[o] + Cardinality({i \in valid : entries[fds[i]].object = o})]
  BY DEF poll_oneoff
<1> DEFINE valid == {i \in Slot : fd_table_get_entry(fds[i], {PollRight}, {})}
           Same(o) == {i \in valid : entries[fds[i]].object = o}
<1>3. /\ fos' = [x \in Thread \X Slot |->
                    IF x[1] = t /\ x[2] \in valid THEN entries[fds[x[2]]].object ELSE fos[x]]
      /\ refcount' = [o \in Object |-> refcount[o] + Cardinality(Same(o))]
  BY <1>p
<1>4. \A i \in valid : i \in Slot /\ entries[fds[i]].object \in Object
  <2> SUFFICES ASSUME NEW i \in valid
               PROVE  entries[fds[i]].object \in Object
    OBVIOUS
  <2>1. fds[i] \in Nat /\ fd_table_get_entry(fds[i], {PollRight}, {})
    BY <1>2
  <2> QED BY <2>1, <1>2, FoundEntry
<1>5. \A i \in Slot : fos[<<t, i>>] = None
  BY <1>2 DEF CallerInv
<1>6. IsFiniteSet(Slot)
  BY Sizes, FS_Interval DEF Slot
<1>7. \A o : /\ Same(o) \in SUBSET Slot /\ IsFiniteSet(Same(o))
             /\ Cardinality(Same(o)) \in Nat
  <2>1. \A o : Same(o) \in SUBSET Slot
    OBVIOUS
  <2> HIDE DEF Same
  <2> QED BY <2>1, <1>6, FS_Subset, FS_CardinalityType
<1>s. \A o : \A i \in Slot : i \in Same(o) <=> i \in valid /\ entries[fds[i]].object = o
  OBVIOUS
<1> HIDE DEF valid, Same
<1>8. refcount' \in [Object -> Nat] /\ \A o \in Object : refcount'[o] = refcount[o] + Cardinality(Same(o))
  BY <1>2, <1>3, <1>7
<1>9. /\ fos' \in [Thread \X Slot -> Object \cup {None}]
      /\ \A u \in Thread \ {t} : \A i \in Slot : fos'[<<u, i>>] = fos[<<u, i>>]
      /\ \A i \in Slot : fos'[<<t, i>>] = IF i \in valid THEN entries[fds[i]].object ELSE None
  <2>1. \A u \in Thread, i \in Slot :
            fos'[<<u, i>>] = IF u = t /\ i \in valid THEN entries[fds[i]].object ELSE fos[<<u, i>>]
    BY <1>3
  <2>2. fos' \in [Thread \X Slot -> Object \cup {None}]
    BY <1>2, <1>3, <1>4
  <2> QED BY <2>1, <2>2, <1>5
<1>10. RefcountExact'
  <2> SUFFICES ASSUME NEW o \in Object
               PROVE  refcount'[o] = Cardinality(Naming(size', entries', o))
                                         + Cardinality(Holding(fos', o))
    BY ExactMeans
  <2>0. None \notin Object
    BY FdAssumption
  <2>1. Holding(fos', o) = Holding(fos, o) \cup ({t} \X Same(o))
    <3>1. ASSUME NEW u \in Thread, NEW i \in Slot
          PROVE  <<u, i>> \in Holding(fos', o) <=>
                     <<u, i>> \in Holding(fos, o) \/ <<u, i>> \in {t} \X Same(o)
      <4>1. CASE u = t
        BY <4>1, <1>5, <1>9, <1>s, <2>0 DEF Holding
      <4>2. CASE u # t
        BY <4>2, <1>9 DEF Holding
      <4> QED BY <4>1, <4>2
    <3>2. {t} \X Same(o) \subseteq Thread \X Slot
      BY <1>7
    <3>3. Holding(fos', o) \subseteq Thread \X Slot /\ Holding(fos, o) \subseteq Thread \X Slot
      BY DEF Holding
    <3>4. ASSUME NEW x \in Thread \X Slot
          PROVE  x \in Holding(fos', o) <=> x \in Holding(fos, o) \/ x \in {t} \X Same(o)
      <4>1. PICK u \in Thread, i \in Slot : x = <<u, i>>
        OBVIOUS
      <4> QED BY <4>1, <3>1
    <3> QED BY <3>2, <3>3, <3>4
  <2>2. Holding(fos, o) \cap ({t} \X Same(o)) = {}
    BY <1>5, <1>7, <2>0 DEF Holding
  <2>3. IsFiniteSet({t} \X Same(o)) /\ Cardinality({t} \X Same(o)) = Cardinality(Same(o))
    BY <1>7, Places
  <2>4. IsFiniteSet(Holding(fos, o)) /\ Cardinality(Holding(fos, o)) \in Nat
    BY Finite
  <2>5. Cardinality(Holding(fos', o)) = Cardinality(Holding(fos, o)) + Cardinality(Same(o))
                                            - Cardinality(Holding(fos, o) \cap ({t} \X Same(o)))
    BY <2>1, <2>3, <2>4, FS_Union
  <2>6. Cardinality(Holding(fos', o)) = Cardinality(Holding(fos, o)) + Cardinality(Same(o))
    BY <2>2, <2>4, <2>5, <1>7, FS_EmptySet, SMTT(20)
  <2>7. /\ refcount[o] = Cardinality(Naming(size, entries, o)) + Cardinality(Holding(fos, o))
        /\ Cardinality(Naming(size, entries, o)) \in Nat
    BY <1>2, ExactMeans, Finite
  <2>8. Naming(size', entries', o) = Naming(size, entries, o)
    BY <1>1
  <2> QED BY <2>4, <2>6, <2>7, <2>8, <1>7, <1>8
<1>11. /\ pc' \in [Thread -> {"idle", "use", "link", "open", "insert", "renumber",
                              "renumber_detach"}]
       /\ pc'[t] = "use" /\ \A u \in Thread \ {t} : pc'[u] = pc[u]
  BY <1>1, <1>2, GotoDoes
<1>12. CallerInv(t)'
  BY <1>11 DEF CallerInv
<1> QED BY <1>1, <1>2, <1>8, <1>9, <1>10, <1>11, <1>12, CallStep, SMTT(20)

-----------------------------------------------------------------------------

(* The counts of a table of which one entry has changed. *)
LEMMA TableCounts ==
    ASSUME TypeOK, size' \in Nat, size <= size', NEW fd \in 0 .. size' - 1,
           TablesDifferAt(size, entries, size', entries', fd)
    PROVE  /\ \A o : Cardinality(Naming(size', entries', o)) =
                  Cardinality(Naming(size, entries, o))
                      + NamesAt(size', entries', fd, o) - NamesAt(size, entries, fd, o)
           /\ Cardinality(Occupied') =
                  Cardinality(Occupied) + UsedAt(size', entries', fd) - UsedAt(size, entries, fd)
           /\ \A k \in Occupied' : k # fd => k \in Occupied /\ entries'[k] = entries[k]
           /\ \A k \in Occupied : k # fd => k \in Occupied' /\ entries'[k] = entries[k]
<1>t. size \in Nat
  BY DEF TypeOK
<1>a. ASSUME NEW o
      PROVE  /\ Cardinality(Naming(size', entries', o)) =
                    Cardinality(Naming(size, entries, o))
                        + NamesAt(size', entries', fd, o) - NamesAt(size, entries, fd, o)
             /\ Cardinality(InUse(size', entries')) =
                    Cardinality(InUse(size, entries)) + UsedAt(size', entries', fd)
                        - UsedAt(size, entries, fd)
  <2> DEFINE n == size
             m == size'
             E == entries
             H == entries'
  <2>1. n \in Nat /\ m \in Nat /\ n <= m /\ fd \in 0 .. m - 1 /\ TablesDifferAt(n, E, m, H, fd)
    BY <1>t
  <2> HIDE DEF n, m, E, H
  <2>2. /\ Cardinality(Naming(m, H, o)) =
               Cardinality(Naming(n, E, o)) + NamesAt(m, H, fd, o) - NamesAt(n, E, fd, o)
        /\ Cardinality(InUse(m, H)) =
               Cardinality(InUse(n, E)) + UsedAt(m, H, fd) - UsedAt(n, E, fd)
    BY <2>1, NamingOne
  <2> QED BY <2>2 DEF n, m, E, H
<1>1. \A o : Cardinality(Naming(size', entries', o)) =
                  Cardinality(Naming(size, entries, o))
                      + NamesAt(size', entries', fd, o) - NamesAt(size, entries, fd, o)
  BY <1>a
<1>2. Cardinality(InUse(size', entries')) =
          Cardinality(InUse(size, entries)) + UsedAt(size', entries', fd)
              - UsedAt(size, entries, fd)
  BY <1>a
<1>3. \A k \in 0 .. size' - 1 : k # fd => IF k \in 0 .. size - 1 THEN entries'[k] = entries[k]
                                          ELSE entries'[k] = None
  <2>1. \A k \in 0 .. size' - 1 : k \notin 0 .. size - 1 => k \in size .. size' - 1
    BY <1>t, Longer
  <2> QED BY <2>1 DEF TablesDifferAt
<1>4. 0 .. size - 1 \subseteq 0 .. size' - 1
  BY <1>t, Longer
<1> QED BY <1>1, <1>2, <1>3, <1>4, OccupiedIs DEF InUse
=============================================================================
