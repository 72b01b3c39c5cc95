--------------------------- MODULE FdTableProofs ----------------------------
(***************************************************************************)
(* Proofs about FdTable, for any callers, objects, rights and types, any   *)
(* table size and any number of renumberings: reference counts are exact,  *)
(* rights come from the preopened directories, and, until a descriptor is  *)
(* renumbered, no assertion fails.                                         *)
(*                                                                         *)
(* This part deals with renumbering and puts the operations together; the  *)
(* invariant and the other operations are in the modules it extends.       *)
(***************************************************************************)
EXTENDS FdTableInserts, FdTableEntries

(* A reference to an object is added or dropped; what caller t asks for. *)
Counted(p) == refcount' = [refcount EXCEPT ![p] = @ + 1]
Uncounted(p) == refcount' = [refcount EXCEPT ![p] = @ - 1]
Asked(t, r) == request' = [request EXCEPT ![t] = r]

LEMMA CountedDoes ==
    ASSUME TypeOK, NEW p \in Object, Counted(p)
    PROVE  /\ refcount' \in [Object -> Nat]
           /\ \A o \in Object : refcount'[o] = refcount[o] + One(o = p)
<1>1. refcount \in [Object -> Nat]
  BY DEF TypeOK
<1> QED BY <1>1 DEF Counted, One

LEMMA UncountedDoes ==
    ASSUME TypeOK, NEW p \in Object, refcount[p] > 0, Uncounted(p)
    PROVE  /\ refcount' \in [Object -> Nat]
           /\ \A o \in Object : refcount'[o] = refcount[o] - One(o = p)
<1>1. refcount \in [Object -> Nat]
  BY DEF TypeOK
<1> QED BY <1>1 DEF Uncounted, One

LEMMA RenumberSameStep ==
    ASSUME IInv, NEW t \in Thread, NEW fd \in Occupied, At(t, "idle"),
           renumbered < Renumbers, renumbered' = renumbered + 1,
           fd_table_detach(t, fd), failure' = "segv",
           UNCHANGED <<refcount, pc, request, size, type, number, inserted>>
    PROVE  IInv'
<1>i. /\ TypeOK /\ RefcountExact /\ failure = "no" /\ inserted = Stdio + Preopens
  BY Turn
<1>1. /\ entries' \in [0 .. size' - 1 -> Entry \cup {None}] /\ entries'[fd] = None
      /\ TablesDifferAt(size, entries, size', entries', fd)
      /\ used' \in Nat
      /\ fos' \in [Thread \X Slot -> Object \cup {None}]
      /\ \A u \in Thread \ {t} : \A i \in Slot : fos'[<<u, i>>] = fos[<<u, i>>]
      /\ \A o \in Object :
             Cardinality(Naming(size', entries', o)) + Cardinality(Holding(fos', o)) =
                 Cardinality(Naming(size, entries, o)) + Cardinality(Holding(fos, o))
  <2>1. size' = size
    OBVIOUS
  <2> QED BY <2>1, DetachDoes
<1>2. RefcountExact'
  <2>1. \A o \in Object : refcount[o] = Cardinality(Naming(size, entries, o))
                                            + Cardinality(Holding(fos, o))
    BY <1>i, ExactMeans
  <2>2. \A o \in Object : refcount'[o] = Cardinality(Naming(size', entries', o))
                                             + Cardinality(Holding(fos', o))
    BY <2>1, <1>1
  <2> QED BY <2>2, ExactMeans
<1>3. renumbered' \in 0 .. Renumbers /\ renumbered' # 0
  BY <1>i, FdAssumption DEF TypeOK
<1>4. NoAssertionFails'
  BY <1>3 DEF NoAssertionFails
<1>5. /\ refcount' \in [Object -> Nat]
      /\ pc' \in [Thread -> {"idle", "use", "link", "open", "insert", "renumber", "renumber_detach"}]
      /\ request' \in [Thread -> RightsPair \cup [from : Nat] \cup {None}]
      /\ \A u \in Thread : pc'[u] = pc[u] /\ request'[u] = request[u]
      /\ failure' \in {"no", "assert", "segv"} /\ failure' # "no"
      /\ UNCHANGED <<size, type, number, inserted>>
  BY <1>i DEF TypeOK
<1> QED BY <1>i, <1>1, <1>2, <1>3, <1>4, <1>5, EntryStep

LEMMA RenumberOtherStep ==
    ASSUME IInv, NEW t \in Thread, NEW from \in Occupied, NEW to \in Occupied, At(t, "idle"),
           renumbered < Renumbers, renumbered' = renumbered + 1,
           NEW v \in Entry, v = entries[from], NEW p \in Object, p = v.object,
           NEW q \in Object, q = entries[to].object,
           entries' = Set(to, v), Counted(p), Handed(t, q),
           NEW r \in [from : Nat], r \in [from : 0 .. size - 1], Asked(t, r),
           failure' \in {"no", "assert", "segv"}, Goto(t, "renumber"),
           UNCHANGED <<used, size, type, number, inserted>>
    PROVE  IInv'
<1>i. /\ TypeOK /\ RefcountExact /\ RightsInv /\ failure = "no" /\ inserted = Stdio + Preopens
      /\ \A i \in Slot : fos[<<t, i>>] = None
  <2>1. CallerInv(t) /\ pc[t] = "idle"
    BY Turn
  <2> QED BY <2>1, Turn DEF CallerInv
<1>t. size \in Nat /\ from \in 0 .. size - 1 /\ from \in Nat /\ size' = size
  BY <1>i DEF TypeOK, Occupied
<1>v. v # None
  BY FdAssumption
<1>1. /\ entries' \in [0 .. size' - 1 -> Entry \cup {None}] /\ entries'[to] = v
      /\ TablesDifferAt(size, entries, size', entries', to)
      /\ \A o : Cardinality(Naming(size', entries', o)) =
             Cardinality(Naming(size, entries, o))
                 + One(v # None /\ v.object = o) - One(entries[to].object = o)
  BY <1>i, <1>t, SetCounts
<1>2. /\ fos' \in [Thread \X Slot -> Object \cup {None}] /\ fos'[<<t, 1>>] = q
      /\ \A i \in Slot \ {1} : fos'[<<t, i>>] = fos[<<t, i>>]
      /\ \A u \in Thread \ {t} : \A i \in Slot : fos'[<<u, i>>] = fos[<<u, i>>]
      /\ \A o \in Object : Cardinality(Holding(fos', o)) = Cardinality(Holding(fos, o)) + One(o = q)
  <2>1. fos[<<t, 1>>] = None
    BY <1>i, Sizes
  <2>2. t \in Thread /\ q \in Object /\ Handed(t, q) /\ TypeOK
    BY <1>i
  <2> QED BY ONLY <2>1, <2>2, HoldsOneMore
<1>3. /\ refcount' \in [Object -> Nat]
      /\ \A o \in Object : refcount'[o] = refcount[o] + One(o = p)
  BY <1>i, CountedDoes
<1>4. RefcountExact'
  <2>1. ASSUME NEW o \in Object
        PROVE  refcount'[o] = Cardinality(Naming(size', entries', o))
                                  + Cardinality(Holding(fos', o))
    <3>1. refcount[o] = Cardinality(Naming(size, entries, o)) + Cardinality(Holding(fos, o))
      BY <1>i, ExactMeans
    <3>2. Cardinality(Naming(size, entries, o)) \in Nat /\ Cardinality(Holding(fos, o)) \in Nat
      BY <1>t, Finite
    <3>3. /\ One(v # None /\ v.object = o) = One(o = p) /\ One(entries[to].object = o) = One(o = q)
          /\ One(o = p) \in Int /\ One(o = q) \in Int
      BY <1>v DEF One
    <3>4. Cardinality(Naming(size', entries', o)) =
              Cardinality(Naming(size, entries, o)) + One(o = p) - One(o = q)
      BY <1>1, <3>3
    <3>5. /\ Cardinality(Holding(fos', o)) = Cardinality(Holding(fos, o)) + One(o = q)
          /\ refcount'[o] = refcount[o] + One(o = p)
      BY <1>2, <1>3
    <3> QED BY ONLY <3>1, <3>2, <3>3, <3>4, <3>5
  <2> QED BY <2>1, ExactMeans
<1>5. renumbered' \in 0 .. Renumbers /\ renumbered' # 0
  BY <1>i, FdAssumption DEF TypeOK
<1>6. NoAssertionFails'
  BY <1>5 DEF NoAssertionFails
<1>7. /\ pc' \in [Thread -> {"idle", "use", "link", "open", "insert", "renumber", "renumber_detach"}]
      /\ pc'[t] = "renumber" /\ \A u \in Thread \ {t} : pc'[u] = pc[u]
  BY <1>i, GotoDoes
<1>8. /\ request' \in [Thread -> RightsPair \cup [from : Nat] \cup {None}]
      /\ request'[t] = r /\ \A u \in Thread \ {t} : request'[u] = request[u]
  <2>1. request' = [request EXCEPT ![t] = r]
    BY DEF Asked
  <2> QED BY <2>1, <1>i, RequestDoes
<1>9. CallerInv(t)'
  <2>1. fos'[<<t, 1>>] # None /\ \A i \in Slot \ {1} : fos'[<<t, i>>] = None
    BY <1>2, <1>i, FdAssumption
  <2>2. request'[t] \in [from : 0 .. size' - 1]
    BY <1>8, <1>t
  <2> QED BY <2>1, <2>2, <1>5, <1>7 DEF CallerInv
<1>10. GoodEntry(entries'[to])
  BY <1>1, <1>i DEF RightsInv
<1>11. used' \in Nat /\ UNCHANGED <<size, type, number, inserted>>
  BY <1>i DEF TypeOK
<1>12. /\ entries' \in [0 .. size' - 1 -> Entry \cup {None}]
       /\ TablesDifferAt(size, entries, size', entries', to)
       /\ fos' \in [Thread \X Slot -> Object \cup {None}]
       /\ \A u \in Thread \ {t} : /\ pc'[u] = pc[u] /\ request'[u] = request[u]
                                  /\ \A i \in Slot : fos'[<<u, i>>] = fos[<<u, i>>]
  BY <1>1, <1>2, <1>7, <1>8
<1> QED BY <1>i, <1>3, <1>4, <1>5, <1>6, <1>7, <1>8, <1>9, <1>10, <1>11, <1>12, EntryStep, SMTT(20)

LEMMA RenumberStep ==
    ASSUME IInv, NEW t \in Thread, NEW from \in Nat, NEW to \in Nat, fd_renumber(t, from, to)
    PROVE  IInv'
<1>c. /\ At(t, "idle") /\ renumbered < Renumbers /\ renumbered' = renumbered + 1
      /\ fd_table_get_entry(from, {}, {}) /\ fd_table_get_entry(to, {}, {})
      /\ UNCHANGED <<size, type, number, inserted>>
  BY DEF fd_renumber
<1>i. TypeOK /\ RefcountExact /\ failure = "no"
  BY <1>c, Turn
<1>f. /\ from \in Occupied /\ entries[from] \in Entry /\ entries[from].object \in Object
      /\ to \in Occupied /\ entries[to] \in Entry /\ entries[to].object \in Object
  BY <1>c, <1>i, FoundEntry
<1>1. CASE from = to
  <2>1. /\ fd_table_detach(t, to) /\ failure' = "segv"
        /\ UNCHANGED <<refcount, pc, request>>
    BY <1>1 DEF fd_renumber
  <2> QED BY <2>1, <1>c, <1>f, RenumberSameStep
<1>2. CASE from # to
  <2>v. PICK v \in Entry : v = entries[from]
    BY <1>f
  <2>p. PICK p \in Object : p = v.object
    BY <1>f, <2>v
  <2>q. PICK q \in Object : q = entries[to].object
    BY <1>f
  <2>r. PICK r \in [from : Nat] : r = [from |-> from] /\ r \in [from : 0 .. size - 1]
    <3> DEFINE r == [from |-> from]
    <3>1. from \in 0 .. size - 1
      BY <1>f DEF Occupied
    <3>2. r \in [from : Nat] /\ r \in [from : 0 .. size - 1]
      BY <3>1
    <3> HIDE DEF r
    <3>3. \E x \in [from : Nat] : x = r /\ x \in [from : 0 .. size - 1]
      BY <3>2
    <3> QED BY <3>3 DEF r
  <2>0. /\ entries' = [entries EXCEPT ![to] = entries[from]]
        /\ refcount' = [refcount EXCEPT ![entries[from].object] = @ + 1]
        /\ fos' = [fos EXCEPT ![<<t, 1>>] = entries[to].object]
        /\ request' = [request EXCEPT ![t] = [from |-> from]]
        /\ Goto(t, "renumber") /\ used' = used
    BY <1>2 DEF fd_renumber
  <2>1. /\ entries' = Set(to, v) /\ Counted(p) /\ Handed(t, q) /\ Asked(t, r)
        /\ Goto(t, "renumber") /\ UNCHANGED used
    BY <2>0, <2>v, <2>p, <2>q, <2>r DEF Set, Counted, Handed, Asked
  <2>2. failure' \in {"no", "assert", "segv"}
    BY <1>2, <1>i DEF fd_renumber
  <2>3. UNCHANGED <<used, size, type, number, inserted>>
    BY <2>1, <1>c
  <2> QED BY <1>c, <1>f, <2>v, <2>p, <2>q, <2>r, <2>1, <2>2, <2>3, RenumberOtherStep
<1> QED BY <1>1, <1>2

LEMMA RenumberDetachStep ==
    ASSUME IInv, NEW t \in Thread, renumber_detach(t)
    PROVE  IInv'
<1>c. /\ At(t, "renumber_detach") /\ Goto(t, "idle") /\ Asked(t, None)
      /\ UNCHANGED <<size, type, number, inserted, fos, renumbered>>
  BY DEF renumber_detach, Asked
<1>i. /\ TypeOK /\ RefcountExact /\ RightsInv /\ failure = "no" /\ inserted = Stdio + Preopens
      /\ pc[t] = "renumber_detach" /\ CallerInv(t)
  BY <1>c, Turn
<1>n. renumbered # 0 /\ \A i \in Slot : fos[<<t, i>>] = None
  BY <1>i DEF CallerInv
<1>f. PICK from \in 0 .. size - 1 : from = request[t].from
  <2>1. request[t] \in [from : 0 .. size - 1]
    BY <1>i DEF CallerInv
  <2> QED BY <2>1
<1>1. NoAssertionFails'
  BY <1>c, <1>n DEF NoAssertionFails
<1>2. /\ pc' \in [Thread -> {"idle", "use", "link", "open", "insert", "renumber", "renumber_detach"}]
      /\ pc'[t] = "idle" /\ \A u \in Thread \ {t} : pc'[u] = pc[u]
  BY <1>c, <1>i, GotoDoes
<1>3. /\ request' \in [Thread -> RightsPair \cup [from : Nat] \cup {None}]
      /\ \A u \in Thread \ {t} : request'[u] = request[u]
  <2>1. request' = [request EXCEPT ![t] = None]
    BY <1>c DEF Asked
  <2> QED BY <2>1, <1>i, RequestDoes
<1>4. CallerInv(t)'
  <2>1. \A i \in Slot : fos'[<<t, i>>] = None
    BY <1>c, <1>n
  <2> QED BY <2>1, <1>2 DEF CallerInv
<1>5. CASE entries[from] = None \/ used = 0
  <2>1. failure' = "assert" /\ UNCHANGED <<entries, used, refcount>>
    BY <1>5, <1>f DEF renumber_detach
  <2>2. TypeOK'
    BY <2>1, <1>i, <1>c, <1>2, <1>3 DEF TypeOK
  <2>3. ControlInv'
    BY <2>1 DEF ControlInv
  <2>4. Occupied' = Occupied
    BY <2>1, <1>c DEF Occupied
  <2>5. RightsInv'
    BY <2>1, <2>4, <1>c, <1>i DEF RightsInv, GoodEntry, Within
  <2>6. RefcountExact'
    <3>1. entries' = entries /\ refcount' = refcount /\ size' = size /\ fos' = fos
      BY <2>1, <1>c
    <3> QED BY <3>1, <1>i, ExactMeans
  <2> QED BY <2>2, <2>3, <2>5, <2>6, <1>1 DEF IInv
<1>6. CASE ~(entries[from] = None \/ used = 0)
  <2>f. from \in Occupied
    BY <1>6 DEF Occupied
  <2>p. PICK p \in Object : p = entries[from].object /\ refcount[p] > 0
    BY <2>f, <1>i, Allocated
  <2>1. /\ entries' = [entries EXCEPT ![from] = None]
        /\ used' = (IF used = 1 THEN SizeMax ELSE used - 2)
        /\ refcount' = [refcount EXCEPT ![entries[from].object] = @ - 1]
        /\ failure' = failure
    BY <1>6, <1>f DEF renumber_detach
  <2>2. entries' = Set(from, None) /\ Uncounted(p)
    BY <2>1, <2>p DEF Set, Uncounted
  <2>3. used' \in Nat
    BY <2>1, <1>6, <1>i, FdAssumption DEF TypeOK
  <2>4. /\ refcount' \in [Object -> Nat]
        /\ \A o \in Object : refcount'[o] = refcount[o] - One(o = p)
    BY <2>2, <2>p, <1>i, UncountedDoes
  <2> DEFINE v == None
  <2>v. v \in Entry \cup {None} /\ entries' = Set(from, v) /\ size' = size
    BY <2>2, <1>c
  <2> HIDE DEF v
  <2>5. /\ entries' \in [0 .. size' - 1 -> Entry \cup {None}] /\ entries'[from] = v
        /\ TablesDifferAt(size, entries, size', entries', from)
        /\ \A o : Cardinality(Naming(size', entries', o)) =
               Cardinality(Naming(size, entries, o))
                   + One(v # None /\ v.object = o) - One(entries[from].object = o)
    BY <2>v, <2>f, <1>i, SetCounts
  <2>6. entries'[from] = None
    BY <2>5 DEF v
  <2>7. RefcountExact'
    <3>1. ASSUME NEW o \in Object
          PROVE  refcount'[o] = Cardinality(Naming(size', entries', o))
                                    + Cardinality(Holding(fos', o))
      <4>1. refcount[o] = Cardinality(Naming(size, entries, o)) + Cardinality(Holding(fos, o))
        BY <1>i, ExactMeans
      <4>2. Cardinality(Naming(size, entries, o)) \in Nat /\ Cardinality(Holding(fos, o)) \in Nat
        BY <1>i, Finite DEF TypeOK
      <4>3. /\ One(v # None /\ v.object = o) = 0 /\ One(entries[from].object = o) = One(o = p)
            /\ One(o = p) \in Int
        BY <2>p DEF One, v
      <4>4. Cardinality(Naming(size', entries', o)) =
                Cardinality(Naming(size, entries, o)) + 0 - One(o = p)
        BY <2>5, <4>3
      <4>5. fos' = fos /\ refcount'[o] = refcount[o] - One(o = p)
        BY <1>c, <2>4
      <4> QED BY ONLY <4>1, <4>2, <4>3, <4>4, <4>5
    <3> QED BY <3>1, ExactMeans
  <2>8. /\ UNCHANGED <<size, type, number, inserted>>
        /\ fos' \in [Thread \X Slot -> Object \cup {None}]
        /\ failure' \in {"no", "assert", "segv"} /\ renumbered' \in 0 .. Renumbers
        /\ renumbered # 0 => renumbered' # 0
        /\ \A u \in Thread \ {t} : \A i \in Slot : fos'[<<u, i>>] = fos[<<u, i>>]
    BY <1>c, <1>i, <2>1 DEF TypeOK
  <2>9. /\ entries' \in [0 .. size' - 1 -> Entry \cup {None}]
        /\ TablesDifferAt(size, entries, size', entries', from)
    BY <2>5
  <2> QED BY <1>i, <1>1, <1>2, <1>3, <1>4, <2>f, <2>3, <2>4, <2>6, <2>7, <2>8, <2>9, EntryStep
<1> QED BY <1>5, <1>6

-----------------------------------------------------------------------------

LEMMA IInvInit == Init => IInv
<1> SUFFICES ASSUME Init PROVE IInv
  OBVIOUS
<1>i. /\ entries = [fd \in {} |-> None] /\ size = 0 /\ used = 0
      /\ refcount = [o \in Object |-> 0] /\ type = [o \in Object |-> Directory]
      /\ number = [o \in Object |-> "opened"] /\ inserted = 0
      /\ pc = [t \in Thread |-> "idle"] /\ fos = [x \in Thread \X Slot |-> None]
      /\ request = [t \in Thread |-> None] /\ failure = "no" /\ renumbered = 0
  BY DEF Init
<1>0. 0 .. size - 1 = {} /\ Occupied = {}
  BY <1>i DEF Occupied
<1>1. TypeOK
  <2>1. /\ entries \in [0 .. size - 1 -> Entry \cup {None}]
        /\ size \in Nat /\ used \in Nat
    BY <1>i, <1>0
  <2>2. refcount \in [Object -> Nat] /\ type \in [Object -> Type]
        /\ number \in [Object -> {"stdio", "preopen", "opened"}]
    BY <1>i, FdAssumption
  <2>3. inserted \in 0 .. Stdio + Preopens /\ renumbered \in 0 .. Renumbers
    BY <1>i, FdAssumption
  <2>4. /\ pc \in [Thread -> {"idle", "use", "link", "open", "insert", "renumber", "renumber_detach"}]
        /\ fos \in [Thread \X Slot -> Object \cup {None}]
        /\ request \in [Thread -> RightsPair \cup [from : Nat] \cup {None}]
        /\ failure \in {"no", "assert", "segv"}
    BY <1>i
  <2> QED BY <2>1, <2>2, <2>3, <2>4 DEF TypeOK
<1>2. ControlInv
  <2>1. ASSUME NEW t \in Thread PROVE CallerInv(t)
    <3>1. pc[t] = "idle" /\ \A i \in Slot : fos[<<t, i>>] = None
      BY <1>i
    <3> QED BY <3>1 DEF CallerInv
  <2> QED BY <2>1, <1>0 DEF ControlInv
<1>3. RightsInv
  BY <1>0 DEF RightsInv
<1>4. RefcountExact
  <2>1. ASSUME NEW o \in Object
        PROVE  refcount[o] = Cardinality(NamedBy(o)) + Cardinality(HeldBy(o))
    <3>1. NamedBy(o) = {}
      BY <1>0 DEF NamedBy
    <3>2. HeldBy(o) = {}
      BY <1>i, FdAssumption DEF HeldBy
    <3>3. Cardinality({}) = 0
      BY FS_EmptySet
    <3> QED BY <3>1, <3>2, <3>3, <1>i
  <2> QED BY <2>1 DEF RefcountExact
<1>5. NoAssertionFails
  BY <1>i, <1>0, FS_EmptySet DEF NoAssertionFails
<1> QED BY <1>1, <1>2, <1>3, <1>4, <1>5 DEF IInv

LEMMA IInvStep == IInv /\ [Next]_vars => IInv'
<1> SUFFICES ASSUME IInv, [Next]_vars PROVE IInv'
  OBVIOUS
<1>d. \A fd \in DOMAIN entries : fd \in Nat
  BY DEF IInv, TypeOK
<1>s. \A fd \in 0 .. size : fd \in Nat
  BY DEF IInv, TypeOK
<1>1. ASSUME Calls, renumbered' = renumbered
      PROVE  IInv'
  <2>1. CASE \E o \in Object, s \in 0 .. SizeMax : fd_table_insert_existing(o, s)
    BY <2>1, <1>1, InsertExistingStep
  <2>2. ASSUME NEW t \in Thread, NEW fd \in DOMAIN entries, NEW r \in Right,
               \/ fd_call(t, fd, r) \/ path_call(t, fd, r)
               \/ sock_call(t, fd, r) \/ path_link(t, fd, r)
        PROVE  IInv'
    <3>1. fd_call(t, fd, r) \/ path_link(t, fd, r)
      BY <2>2 DEF path_call, sock_call
    <3> QED BY <3>1, <1>1, <1>d, GetStep
  <2>3. ASSUME NEW t \in Thread, NEW fd \in DOMAIN entries, NEW rs \in Requests,
               path_open(t, fd, rs) \/ fd_fdstat_set_rights(t, fd, rs)
        PROVE  IInv'
    BY <2>3, <1>1, <1>d, OpenStep, SetRightsStep
  <2>4. ASSUME NEW t \in Thread, NEW fd \in DOMAIN entries, fd_close(t, fd)
        PROVE  IInv'
    BY <2>4, <1>1, <1>d, CloseStep
  <2>5. CASE \E t \in Thread, fd \in 0 .. size, r \in Right : path_link_target(t, fd, r)
    BY <2>5, <1>1, <1>s, LinkTargetStep
  <2>6. CASE \E t \in Thread : poll_oneoff(t)
    BY <2>6, <1>1, PollStep
  <2>7. CASE \E t \in Thread, i \in Slot : release(t, i)
    BY <2>7, <1>1, ReleaseStep
  <2>8. ASSUME NEW t \in Thread,
               path_open_openat(t) \/ path_open_fails(t) \/ fd_table_insert_fails(t)
        PROVE  IInv'
    BY <2>8, <1>1, ReleaseOnlyStep, FailsStep
  <2>9. CASE \E t \in Thread, ty \in Type : fd_table_insert(t, ty)
    BY <2>9, <1>1, InsertStep
  <2> QED BY <1>1, <2>1, <2>2, <2>3, <2>4, <2>5, <2>6, <2>7, <2>8, <2>9 DEF Calls
<1>2. ASSUME NEW t \in Thread, NEW from \in DOMAIN entries, NEW to \in DOMAIN entries,
             fd_renumber(t, from, to)
      PROVE  IInv'
  BY <1>2, <1>d, RenumberStep
<1>3. ASSUME NEW t \in Thread, renumber_release(t)
      PROVE  IInv'
  <2>1. renumbered' = renumbered
    BY <1>3 DEF renumber_release
  <2> QED BY <2>1, <1>3, ReleaseOnlyStep
<1>4. ASSUME NEW t \in Thread, renumber_detach(t)
      PROVE  IInv'
  BY <1>4, RenumberDetachStep
<1>5. CASE UNCHANGED vars
  <2>1. /\ entries' = entries /\ size' = size /\ used' = used /\ refcount' = refcount
        /\ type' = type /\ number' = number /\ inserted' = inserted /\ pc' = pc
        /\ fos' = fos /\ request' = request /\ failure' = failure
        /\ renumbered' = renumbered
    BY <1>5 DEF vars
  <2>2. TypeOK /\ ControlInv /\ RightsInv /\ RefcountExact /\ NoAssertionFails
    BY DEF IInv
  <2>3. TypeOK'
    BY <2>1, <2>2 DEF TypeOK
  <2>4. Occupied' = Occupied
    BY <2>1 DEF Occupied
  <2>5. ControlInv'
    <3>1. \A t \in Thread : CallerInv(t)' <=> CallerInv(t)
      BY <2>1 DEF CallerInv, Within
    <3> QED BY <2>1, <2>2, <2>4, <3>1 DEF ControlInv
  <2>6. RightsInv'
    BY <2>1, <2>2, <2>4 DEF RightsInv, GoodEntry, Within
  <2>7. RefcountExact'
    BY <2>1, <2>2, ExactMeans
  <2>8. NoAssertionFails'
    BY <2>1, <2>2, <2>4 DEF NoAssertionFails
  <2> QED BY <2>3, <2>5, <2>6, <2>7, <2>8 DEF IInv
<1> QED BY <1>1, <1>2, <1>3, <1>4, <1>5 DEF Next

(* In whatever order callers open, use, renumber and close descriptors of  *)
(* posix.c, an object's reference count is the number of descriptors that  *)
(* name it and of calls in progress that use it: no call has its host      *)
(* descriptor closed under it, and none stays open that nobody can reach.  *)
THEOREM RefcountExactAlways == Spec => []RefcountExact
<1>1. IInv => RefcountExact
  BY DEF IInv
<1> QED BY <1>1, IInvInit, IInvStep, PTL DEF Spec

(* Until fd_renumber is first called, the assertions of fd_table_attach,   *)
(* fd_table_detach and refcount_release hold, for any number of callers    *)
(* and descriptors: ft->used is the number of entries in use, and at least *)
(* half of the table is free for fd_table_unused to find a slot in.        *)
THEOREM NoAssertionFailsAlways == Spec => []NoAssertionFails
<1>1. IInv => NoAssertionFails
  BY DEF IInv
<1> QED BY <1>1, IInvInit, IInvStep, PTL DEF Spec

(* A descriptor opened by path_open, directly or below another that was    *)
(* opened so, never has a right that the preopened directories do not hand *)
(* down, whatever fd_fdstat_set_rights, fd_close and fd_renumber do while  *)
(* it is being opened.                                                     *)
THEOREM RightsComeFromPreopensAlways == Spec => []RightsComeFromPreopens
<1>1. IInv => RightsComeFromPreopens
  BY DEF IInv, RightsInv, GoodEntry, Within, RightsComeFromPreopens
<1> QED BY <1>1, IInvInit, IInvStep, PTL DEF Spec
=============================================================================
