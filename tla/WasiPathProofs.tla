--------------------------- MODULE WasiPathProofs ---------------------------
(***************************************************************************)
(* Proofs about WasiPath, for every file system, every set of links and    *)
(* requests and all limits: calls stay confined, and leave nothing open.   *)
(*                                                                         *)
(* The inductive invariant says of each call, on its own, what it holds    *)
(* (GoodCall: the stacks are within bounds and confined, and the counts of *)
(* descriptors and strings are exactly those of the stacks and leases),    *)
(* and of the file system that no entry leads from a directory that is not *)
(* outside to one that is.                                                 *)
(***************************************************************************)
EXTENDS WasiPath, FiniteSetTheorems, SequenceTheorems, TLAPS

Owned(pas) == {n \in DOMAIN pas : pas[n].own}
Texts(pas) == {n \in DOMAIN pas : pas[n].path # "."}

(* What holds of every call. *)
Held0(k) ==
    /\ k \in CallState
    /\ Len(k.fds) <= MaxFds /\ Len(k.paths) <= MaxPaths
    /\ \A n \in DOMAIN k.fds : k.fds[n] \notin Outside
    /\ \A n \in DOMAIN k.pas : k.pas[n].dir \notin Outside

(* What holds while path_get walks. *)
Walker(k) ==
    /\ Held0(k)
    /\ k.request \in Request
    /\ k.fds # << >> /\ k.paths # << >>
    /\ k.expansions < MaxExpansions
    /\ k.opened = Len(k.fds) - 1 + Cardinality(Owned(k.pas))
    /\ k.strings = Len(k.paths) + Cardinality(Texts(k.pas))

(* What holds between walks. *)
Holder(k) ==
    /\ Held0(k)
    /\ k.request \in Request
    /\ k.opened = Cardinality(Owned(k.pas))
    /\ k.strings = Cardinality(Texts(k.pas))

GoodCall(k) ==
    /\ Held0(k)
    /\ k.pc = "idle" => k.pas = << >> /\ k.opened = 0 /\ k.strings = 0
    /\ k.pc \in {"walk", "readlink"} => Walker(k)
    /\ k.pc = "readlink" => k.file.name \in Name
    /\ k.pc \in {"failed", "leased", "next"} => Holder(k)
    /\ k.pc = "next" => Len(k.pas) < Len(k.request.paths)

(* What is outside is as it was, and nothing leads there. *)
Closed(e) ==
    /\ e \in [Dir -> [Name -> Node \cup {None}]]
    /\ \A d \in Outside : e[d] = InitialEntry[d]
    /\ \A d \in Dir \ Outside, n \in Name : e[d][n] \notin Outside

Inv ==
    /\ Closed(entry)
    /\ changes \in 0 .. MaxChanges
    /\ dirs \subseteq Dir \ Outside
    /\ call \in [Call -> CallState]
    /\ \A c \in Call : GoodCall(call[c])

-----------------------------------------------------------------------------
(* Counting leases *)

LEMMA CountsFinite ==
    ASSUME NEW pas \in Seq(PathAccess)
    PROVE  /\ IsFiniteSet(Owned(pas)) /\ Cardinality(Owned(pas)) \in Nat
           /\ IsFiniteSet(Texts(pas)) /\ Cardinality(Texts(pas)) \in Nat
<1>1. IsFiniteSet(1 .. Len(pas))
    BY FS_Interval
<1>2. Owned(pas) \in SUBSET (1 .. Len(pas)) /\ Texts(pas) \in SUBSET (1 .. Len(pas))
    BY DEF Owned, Texts
<1>3. IsFiniteSet(Owned(pas)) /\ IsFiniteSet(Texts(pas))
    BY <1>1, <1>2, FS_Subset
<1> QED BY <1>3, FS_CardinalityType

LEMMA CountAppend ==
    ASSUME NEW pas \in Seq(PathAccess), NEW pa \in PathAccess
    PROVE  /\ Cardinality(Owned(Append(pas, pa))) =
                  Cardinality(Owned(pas)) + (IF pa.own THEN 1 ELSE 0)
           /\ Cardinality(Texts(Append(pas, pa))) =
                  Cardinality(Texts(pas)) + (IF pa.path # "." THEN 1 ELSE 0)
<1> DEFINE n == Len(pas) + 1
<1>1. n \notin Owned(pas) /\ n \notin Texts(pas)
    BY DEF Owned, Texts
<1>2. Cardinality(Owned(pas) \cup {n}) = Cardinality(Owned(pas)) + 1
    BY <1>1, CountsFinite, FS_AddElement
<1>3. Cardinality(Texts(pas) \cup {n}) = Cardinality(Texts(pas)) + 1
    BY <1>1, CountsFinite, FS_AddElement
<1>4. Cardinality(Owned(Append(pas, pa))) = Cardinality(Owned(pas)) + (IF pa.own THEN 1 ELSE 0)
    <2>1. pa.own => Owned(Append(pas, pa)) = Owned(pas) \cup {n}
        BY DEF Owned
    <2>2. ~pa.own => Owned(Append(pas, pa)) = Owned(pas)
        BY DEF Owned
    <2>3. Cardinality(Owned(pas)) \in Nat
        BY CountsFinite
    <2>4. CASE pa.own
        BY <2>1, <2>4, <1>2
    <2>5. CASE ~pa.own
        BY <2>2, <2>3, <2>5
    <2> QED BY <2>4, <2>5
<1>5. Cardinality(Texts(Append(pas, pa))) =
          Cardinality(Texts(pas)) + (IF pa.path # "." THEN 1 ELSE 0)
    <2>1. pa.path # "." => Texts(Append(pas, pa)) = Texts(pas) \cup {n}
        BY DEF Texts
    <2>2. pa.path = "." => Texts(Append(pas, pa)) = Texts(pas)
        BY DEF Texts
    <2>3. Cardinality(Texts(pas)) \in Nat
        BY CountsFinite
    <2>4. CASE pa.path # "."
        BY <2>1, <2>4, <1>3
    <2>5. CASE pa.path = "."
        BY <2>2, <2>3, <2>5
    <2> QED BY <2>4, <2>5
<1> QED BY <1>4, <1>5

LEMMA CountEmpty == Cardinality(Owned(<< >>)) = 0 /\ Cardinality(Texts(<< >>)) = 0
<1>1. Owned(<< >>) = {} /\ Texts(<< >>) = {}
    BY DEF Owned, Texts
<1> QED BY <1>1, FS_EmptySet

-----------------------------------------------------------------------------
(* The steps of a walk *)

LEMMA Sizes ==
    /\ MaxFds \in Nat /\ 1 <= MaxFds
    /\ MaxPaths \in Nat /\ 1 <= MaxPaths
    /\ MaxExpansions \in Nat /\ 1 <= MaxExpansions
<1>1. MaxFds \in Nat \ {0} /\ MaxPaths \in Nat \ {0} /\ MaxExpansions \in Nat \ {0}
    BY PathAssumption
<1> QED BY <1>1

LEMMA FailGood ==
    ASSUME NEW k, Walker(k), NEW e \in Errno
    PROVE  GoodCall(Fail(k, e)) /\ Fail(k, e).pc = "failed"
<1> DEFINE o == k.opened - (Len(k.fds) - 1)
           s == k.strings - Len(k.paths)
           d == <<k.fds[1]>>
           f == [k EXCEPT !.pc = "failed", !.error = e, !.opened = o, !.strings = s, !.fds = d,
                          !.paths = << >>, !.file = NoFile]
<1>1. o = Cardinality(Owned(k.pas)) /\ s = Cardinality(Texts(k.pas))
    BY CountsFinite DEF Walker, Held0, CallState
<1>2. o \in Nat /\ s \in Nat
    BY <1>1, CountsFinite DEF Walker, Held0, CallState
<1>3. d \in Seq(Dir) /\ Len(d) = 1 /\ d[1] \notin Outside /\ DOMAIN d = {1}
    BY DEF Walker, Held0, CallState
<1>4. k \in CallState /\ NoFile \in FileName /\ "failed" \in Pc /\ << >> \in Seq(Path)
    BY DEF Walker, Held0, NoFile, FileName, Component, Pc
<1>5. Fail(k, e) = f
    BY DEF Fail
<1> HIDE DEF o, s, d
<1>6. f \in CallState
    BY <1>2, <1>3, <1>4 DEF CallState
<1>7. /\ f.pc = "failed" /\ f.request = k.request /\ f.fds = d /\ f.paths = << >>
      /\ f.pas = k.pas /\ f.opened = o /\ f.strings = s
    BY <1>4 DEF CallState
<1> HIDE DEF f
<1>8. Held0(f)
    <2>0. Len(f.fds) = 1 /\ Len(f.paths) = 0
        BY <1>3, <1>7
    <2>1. Len(f.fds) <= MaxFds /\ Len(f.paths) <= MaxPaths
        BY <2>0, Sizes
    <2>2. \A n \in DOMAIN f.fds : f.fds[n] \notin Outside
        BY <1>3, <1>7
    <2>3. \A n \in DOMAIN f.pas : f.pas[n].dir \notin Outside
        BY <1>7 DEF Walker, Held0
    <2> QED BY <1>6, <2>1, <2>2, <2>3 DEF Held0
<1> QED BY <1>1, <1>5, <1>7, <1>8 DEF GoodCall, Holder, Walker

LEMMA SuccessGood ==
    ASSUME NEW k, Held0(k), k.request \in Request, k.fds # << >>,
           NEW path \in Name \cup {"."}, NEW slash \in BOOLEAN,
           k.opened = Len(k.fds) - 1 + Cardinality(Owned(k.pas)),
           k.strings = Cardinality(Texts(k.pas)) + (IF path # "." THEN 1 ELSE 0)
    PROVE  GoodCall(Success(k, path, slash)) /\ Success(k, path, slash).pc = "leased"
<1> DEFINE pa == [dir |-> Top(k.fds), path |-> path, slash |-> slash, own |-> Len(k.fds) > 1]
           pas == Append(k.pas, pa)
           o == IF Len(k.fds) > 2 THEN k.opened - (Len(k.fds) - 2) ELSE k.opened
           d == <<k.fds[1]>>
           f == [k EXCEPT !.pc = "leased", !.pas = pas, !.opened = o, !.fds = d,
                          !.paths = << >>, !.file = NoFile]
<1>1. k \in CallState /\ k.pas \in Seq(PathAccess) /\ k.fds \in Seq(Dir) /\ k.strings \in Nat
    BY DEF Held0, CallState
<1>2. Top(k.fds) \in Dir /\ Top(k.fds) \notin Outside
    BY <1>1 DEF Held0, Top
<1>3. pa \in PathAccess /\ pa.dir \notin Outside /\ pa.path = path /\ pa.own = (Len(k.fds) > 1)
    BY <1>2 DEF PathAccess
<1> HIDE DEF pa
<1>4. pas \in Seq(PathAccess) /\ \A n \in DOMAIN pas : pas[n].dir \notin Outside
    BY <1>1, <1>3 DEF Held0
<1>5. /\ Cardinality(Owned(pas)) = Cardinality(Owned(k.pas)) + (IF Len(k.fds) > 1 THEN 1 ELSE 0)
      /\ Cardinality(Texts(pas)) = Cardinality(Texts(k.pas)) + (IF path # "." THEN 1 ELSE 0)
    BY <1>1, <1>3, CountAppend
<1>6. o = Cardinality(Owned(pas)) /\ k.strings = Cardinality(Texts(pas)) /\ o \in Nat
    BY <1>1, <1>5, CountsFinite
<1>7. d \in Seq(Dir) /\ Len(d) = 1 /\ d[1] \notin Outside /\ DOMAIN d = {1}
    BY <1>1 DEF Held0
<1>8. NoFile \in FileName /\ "leased" \in Pc /\ << >> \in Seq(Path)
    BY DEF NoFile, FileName, Component, Pc
<1>9. Success(k, path, slash) = f
    BY DEF Success, pa
<1> HIDE DEF o, pas, d
<1>10. f \in CallState
    BY <1>1, <1>4, <1>6, <1>7, <1>8 DEF CallState
<1>11. /\ f.pc = "leased" /\ f.request = k.request /\ f.fds = d /\ f.paths = << >>
       /\ f.pas = pas /\ f.opened = o /\ f.strings = k.strings
    BY <1>1 DEF CallState
<1> HIDE DEF f
<1>12. Held0(f)
    <2>0. Len(f.fds) = 1 /\ Len(f.paths) = 0
        BY <1>7, <1>11
    <2>1. Len(f.fds) <= MaxFds /\ Len(f.paths) <= MaxPaths
        BY <2>0, Sizes
    <2>2. \A n \in DOMAIN f.fds : f.fds[n] \notin Outside
        BY <1>7, <1>11
    <2>3. \A n \in DOMAIN f.pas : f.pas[n].dir \notin Outside
        BY <1>4, <1>11
    <2> QED BY <1>10, <2>1, <2>2, <2>3 DEF Held0
<1> QED BY <1>6, <1>9, <1>11, <1>12 DEF GoodCall, Holder

LEMMA PathTypes ==
    ASSUME NEW p \in Path
    PROVE  /\ p.names \in Seq(Component) /\ p.slash \in BOOLEAN
           /\ \A names \in Seq(Component), slash \in BOOLEAN :
                  [names |-> names, slash |-> slash] \in Path
BY DEF Path

LEMMA TopTypes ==
    ASSUME NEW k, Walker(k)
    PROVE  /\ Top(k.paths) \in Path /\ Top(k.fds) \in Dir /\ Top(k.fds) \notin Outside
           /\ Len(k.paths) \in 1 .. MaxPaths /\ Len(k.fds) \in 1 .. MaxFds
BY Sizes DEF Walker, Held0, CallState, Top

LEMMA TakeComponentWalker ==
    ASSUME NEW k, Walker(k), Top(k.paths).names # << >>
    PROVE  LET t == TakeComponent(k)
           IN  /\ Walker(t)
               /\ t.pc = k.pc /\ t.fds = k.fds /\ t.pas = k.pas /\ t.opened = k.opened
               /\ t.file.name = FirstComponent(k) /\ t.file.slash \in BOOLEAN
               /\ Len(t.paths) = Len(k.paths)
<1> DEFINE p == Top(k.paths)
           q == [names |-> Tail(p.names), slash |-> p.slash]
           ps == [k.paths EXCEPT ![Len(k.paths)] = q]
           fl == [name |-> Head(p.names), slash |-> Len(p.names) > 1 \/ p.slash]
           t == [k EXCEPT !.paths = ps, !.file = fl]
<1>1. k \in CallState /\ k.paths \in Seq(Path) /\ p \in Path /\ Len(k.paths) \in 1 .. MaxPaths
    BY TopTypes DEF Walker, Held0, CallState
<1>2. p.names \in Seq(Component) /\ p.slash \in BOOLEAN
    BY <1>1, PathTypes
<1>3. Tail(p.names) \in Seq(Component) /\ Head(p.names) \in Component
    BY <1>2
<1>4. q \in Path
    BY <1>1, <1>2, <1>3, PathTypes
<1> HIDE DEF q
<1>5. ps \in Seq(Path) /\ Len(ps) = Len(k.paths) /\ ps # << >>
    BY <1>1, <1>4
<1>6. fl \in FileName /\ fl.name = Head(p.names) /\ fl.slash \in BOOLEAN
    BY <1>2, <1>3 DEF FileName
<1>7. TakeComponent(k) = t
    BY DEF TakeComponent, q
<1> HIDE DEF p, ps, fl
<1>8. t \in CallState
    BY <1>1, <1>5, <1>6 DEF CallState
<1>9. /\ t.pc = k.pc /\ t.request = k.request /\ t.fds = k.fds /\ t.paths = ps /\ t.file = fl
      /\ t.expansions = k.expansions /\ t.pas = k.pas /\ t.opened = k.opened
      /\ t.strings = k.strings
    BY <1>1 DEF CallState
<1> HIDE DEF t
<1>10. Walker(t)
    BY <1>5, <1>8, <1>9 DEF Walker, Held0
<1> QED BY <1>5, <1>6, <1>7, <1>9, <1>10 DEF FirstComponent, p

LEMMA Constants ==
    /\ NoFile \in FileName /\ << >> \in Seq(Path) /\ "walk" \in Pc /\ "readlink" \in Pc
    /\ "next" \in Pc
BY DEF NoFile, FileName, Component, Pc

LEMMA PopTypes ==
    ASSUME NEW S, NEW s \in Seq(S), Len(s) \in Nat \ {0}
    PROVE  /\ Pop(s) \in Seq(S)
           /\ Len(Pop(s)) = Len(s) - 1
           /\ \A i \in DOMAIN Pop(s) : i \in DOMAIN s /\ Pop(s)[i] = s[i]
<1> DEFINE n == Len(s) - 1
<1>1. 1 \in Int /\ n \in Nat
    OBVIOUS
<1>2. \A i \in 1 .. n : s[i] \in S
    OBVIOUS
<1> HIDE DEF n
<1>3. /\ SubSeq(s, 1, n) \in Seq(S)
      /\ Len(SubSeq(s, 1, n)) = IF 1 <= n THEN n - 1 + 1 ELSE 0
      /\ \A i \in 1 .. n - 1 + 1 : SubSeq(s, 1, n)[i] = s[1 + i - 1]
    BY <1>1, <1>2, SubSeqProperties
<1>4. Len(SubSeq(s, 1, n)) = n
    BY <1>1, <1>3
<1>5. \A i \in 1 .. n : SubSeq(s, 1, n)[i] = s[i]
    BY <1>1, <1>3
<1>6. DOMAIN SubSeq(s, 1, n) = 1 .. n
    BY <1>3, <1>4
<1>7. \A i \in 1 .. n : i \in DOMAIN s
    BY DEF n
<1>8. Pop(s) = SubSeq(s, 1, n)
    BY DEF Pop, n
<1> QED BY <1>3, <1>4, <1>5, <1>6, <1>7, <1>8 DEF n

LEMMA AdvanceGood ==
    ASSUME NEW k, Walker(k)
    PROVE  GoodCall(Advance(k)) /\ Advance(k).pc \in {"walk", "leased"}
<1>1. /\ k \in CallState /\ k.paths \in Seq(Path) /\ Len(k.paths) \in 1 .. MaxPaths
      /\ k.strings \in Nat /\ k.opened \in Nat
    BY TopTypes DEF Walker, Held0, CallState
<1>2. CASE Top(k.paths).names # << >>
    <2> DEFINE t == [k EXCEPT !.pc = "walk", !.file = NoFile]
    <2>1. t \in CallState
        BY <1>1, Constants DEF CallState
    <2>2. /\ t.pc = "walk" /\ t.request = k.request /\ t.fds = k.fds /\ t.paths = k.paths
          /\ t.expansions = k.expansions /\ t.pas = k.pas /\ t.opened = k.opened
          /\ t.strings = k.strings
        BY <1>1 DEF CallState
    <2>3. Advance(k) = t
        BY <1>2 DEF Advance
    <2> HIDE DEF t
    <2>4. Walker(t)
        BY <2>1, <2>2 DEF Walker, Held0
    <2> QED BY <2>2, <2>3, <2>4 DEF GoodCall, Walker
<1>3. CASE Top(k.paths).names = << >> /\ Len(k.paths) = 1
    <2> DEFINE n == k.strings - 1
               t == [k EXCEPT !.strings = n]
    <2>1. n = Cardinality(Texts(k.pas)) /\ n \in Nat
        BY <1>1, <1>3, CountsFinite DEF Walker, Held0, CallState
    <2>2. Advance(k) = Success(t, ".", FALSE)
        BY <1>3 DEF Advance
    <2> HIDE DEF n
    <2>3. t \in CallState
        BY <1>1, <2>1 DEF CallState
    <2>4. /\ t.request = k.request /\ t.fds = k.fds /\ t.paths = k.paths
          /\ t.pas = k.pas /\ t.opened = k.opened /\ t.strings = n
        BY <1>1 DEF CallState
    <2> HIDE DEF t
    <2>5. Held0(t)
        BY <2>3, <2>4 DEF Walker, Held0
    <2>6. t.strings = Cardinality(Texts(t.pas)) + (IF "." # "." THEN 1 ELSE 0)
        BY <2>1, <2>4
    <2>7. GoodCall(Success(t, ".", FALSE)) /\ Success(t, ".", FALSE).pc = "leased"
        BY <2>4, <2>5, <2>6, SuccessGood DEF Walker
    <2> QED BY <2>2, <2>7
<1>4. CASE Top(k.paths).names = << >> /\ Len(k.paths) # 1
    <2> DEFINE n == k.strings - 1
               ps == Pop(k.paths)
               t == [k EXCEPT !.pc = "walk", !.file = NoFile, !.paths = ps, !.strings = n]
    <2>1. ps \in Seq(Path) /\ Len(ps) = Len(k.paths) - 1 /\ ps # << >>
        <3>1. Len(k.paths) \in Nat \ {0} /\ Len(k.paths) - 1 # 0
            BY <1>1, <1>4, Sizes
        <3>2. Pop(k.paths) \in Seq(Path) /\ Len(Pop(k.paths)) = Len(k.paths) - 1
            BY <1>1, <3>1, PopTypes
        <3>3. Len(<< >>) = 0
            OBVIOUS
        <3> QED BY <3>1, <3>2, <3>3
    <2>2. n = Len(ps) + Cardinality(Texts(k.pas)) /\ n \in Nat
        BY <1>1, <2>1, CountsFinite DEF Walker, Held0, CallState
    <2>3. Advance(k) = t
        BY <1>4 DEF Advance
    <2> HIDE DEF n, ps
    <2>4. t \in CallState
        BY <1>1, <2>1, <2>2, Constants DEF CallState
    <2>5. /\ t.pc = "walk" /\ t.request = k.request /\ t.fds = k.fds /\ t.paths = ps
          /\ t.expansions = k.expansions /\ t.pas = k.pas /\ t.opened = k.opened
          /\ t.strings = n
        BY <1>1 DEF CallState
    <2> HIDE DEF t
    <2>6. Len(t.paths) <= MaxPaths
        BY <1>1, <2>1, <2>5, Sizes
    <2>7. Walker(t)
        BY <2>1, <2>2, <2>4, <2>5, <2>6 DEF Walker, Held0
    <2> QED BY <2>3, <2>5, <2>7 DEF GoodCall, Walker
<1> QED BY <1>2, <1>3, <1>4

LEMMA PushSymlinkGood ==
    ASSUME NEW k, Walker(k), NEW l \in Link
    PROVE  GoodCall(PushSymlink(k, l)) /\ PushSymlink(k, l).pc \in {"walk", "failed"}
<1> DEFINE x == k.expansions + 1
           symlink == [names |-> Contents[l].names, slash |-> Contents[l].slash \/ k.file.slash]
<1>1. /\ k \in CallState /\ k.paths \in Seq(Path) /\ Len(k.paths) \in 1 .. MaxPaths
      /\ k.strings \in Nat /\ k.opened \in Nat /\ k.expansions \in Nat
      /\ k.file.slash \in BOOLEAN
    BY TopTypes DEF Walker, Held0, CallState, FileName
<1>2. symlink \in Path
    <2>1. Contents[l] \in Path
        BY PathAssumption
    <2> QED BY <2>1, <1>1, PathTypes
<1>3. Expanded(k) = x
    BY DEF Expanded
<1>4. CASE x = MaxExpansions
    BY <1>3, <1>4, FailGood DEF PushSymlink, Errno
<1>5. CASE x # MaxExpansions /\ Top(k.paths).names = << >>
    <2> DEFINE ps == Append(Pop(k.paths), symlink)
               t == [k EXCEPT !.pc = "walk", !.file = NoFile, !.expansions = x, !.paths = ps]
    <2>1. ps \in Seq(Path) /\ Len(ps) = Len(k.paths) /\ ps # << >>
        <3>1. Pop(k.paths) \in Seq(Path) /\ Len(Pop(k.paths)) = Len(k.paths) - 1
            BY <1>1, PopTypes
        <3> HIDE DEF symlink
        <3> QED BY <1>1, <1>2, <3>1
    <2>2. x \in 0 .. MaxExpansions /\ x < MaxExpansions
        BY <1>1, <1>5, Sizes DEF Walker
    <2>3. PushSymlink(k, l) = t
        BY <1>3, <1>5 DEF PushSymlink
    <2> HIDE DEF ps, x, symlink
    <2>4. t \in CallState
        BY <1>1, <2>1, <2>2, Constants DEF CallState
    <2>5. /\ t.pc = "walk" /\ t.request = k.request /\ t.fds = k.fds /\ t.paths = ps
          /\ t.expansions = x /\ t.pas = k.pas /\ t.opened = k.opened
          /\ t.strings = k.strings
        BY <1>1 DEF CallState
    <2> HIDE DEF t
    <2>6. Walker(t)
        BY <2>1, <2>2, <2>4, <2>5 DEF Walker, Held0
    <2> QED BY <2>3, <2>5, <2>6 DEF GoodCall, Walker
<1>6. CASE x # MaxExpansions /\ Top(k.paths).names # << >> /\ PathsFull(k)
    BY <1>3, <1>6, FailGood DEF PushSymlink, Errno
<1>7. CASE x # MaxExpansions /\ Top(k.paths).names # << >> /\ ~PathsFull(k)
    <2> DEFINE ps == Append(k.paths, symlink)
               n == k.strings + 1
               t == [k EXCEPT !.pc = "walk", !.file = NoFile, !.expansions = x, !.paths = ps,
                              !.strings = n]
    <2>1. ps \in Seq(Path) /\ Len(ps) = Len(k.paths) + 1 /\ ps # << >>
        BY <1>1, <1>2
    <2>2. x \in 0 .. MaxExpansions /\ x < MaxExpansions
        BY <1>1, <1>7, Sizes DEF Walker
    <2>3. n = Len(ps) + Cardinality(Texts(k.pas)) /\ n \in Nat
        BY <1>1, <2>1, CountsFinite DEF Walker, Held0, CallState
    <2>4. Len(ps) <= MaxPaths
        BY <1>1, <1>7, <2>1, Sizes DEF PathsFull
    <2>5. PushSymlink(k, l) = t
        BY <1>3, <1>7 DEF PushSymlink
    <2> HIDE DEF ps, x, symlink, n
    <2>6. t \in CallState
        BY <1>1, <2>1, <2>2, <2>3, Constants DEF CallState
    <2>7. /\ t.pc = "walk" /\ t.request = k.request /\ t.fds = k.fds /\ t.paths = ps
          /\ t.expansions = x /\ t.pas = k.pas /\ t.opened = k.opened
          /\ t.strings = n
        BY <1>1 DEF CallState
    <2> HIDE DEF t
    <2>8. Walker(t)
        BY <2>1, <2>2, <2>3, <2>4, <2>6, <2>7 DEF Walker, Held0
    <2> QED BY <2>5, <2>7, <2>8 DEF GoodCall, Walker
<1> QED BY <1>4, <1>5, <1>6, <1>7

LEMMA PushDirectory ==
    ASSUME NEW k, Walker(k), NEW d \in Dir \ Outside, Len(k.fds) # MaxFds
    PROVE  Walker([k EXCEPT !.fds = Append(k.fds, d), !.opened = k.opened + 1])
<1> DEFINE ds == Append(k.fds, d)
           n == k.opened + 1
           t == [k EXCEPT !.fds = ds, !.opened = n]
<1>1. /\ k \in CallState /\ k.fds \in Seq(Dir) /\ Len(k.fds) \in Nat /\ k.opened \in Nat
      /\ k.pas \in Seq(PathAccess)
    BY DEF Walker, Held0, CallState
<1>2. ds \in Seq(Dir) /\ Len(ds) = Len(k.fds) + 1 /\ ds # << >>
    BY <1>1
<1>3. \A i \in DOMAIN ds : ds[i] \notin Outside
    BY <1>1 DEF Walker, Held0
<1>4. Len(ds) <= MaxFds
    BY <1>1, <1>2, Sizes DEF Walker, Held0
<1>5. n \in Nat /\ n = Len(ds) - 1 + Cardinality(Owned(k.pas))
    BY <1>1, <1>2, CountsFinite DEF Walker
<1> HIDE DEF ds, n
<1>6. t \in CallState
    BY <1>1, <1>2, <1>5 DEF CallState
<1>7. /\ t.request = k.request /\ t.fds = ds /\ t.paths = k.paths
      /\ t.expansions = k.expansions /\ t.pas = k.pas /\ t.opened = n
      /\ t.strings = k.strings
    BY <1>1 DEF CallState
<1> HIDE DEF t
<1>8. Walker(t)
    BY <1>2, <1>3, <1>4, <1>5, <1>6, <1>7 DEF Walker, Held0
<1> QED BY <1>8 DEF t, ds, n

LEMMA PopDirectory ==
    ASSUME NEW k, Walker(k), Len(k.fds) # 1
    PROVE  Walker([k EXCEPT !.fds = Pop(k.fds), !.opened = k.opened - 1])
<1> DEFINE ds == Pop(k.fds)
           n == k.opened - 1
           t == [k EXCEPT !.fds = ds, !.opened = n]
<1>1. /\ k \in CallState /\ k.fds \in Seq(Dir) /\ Len(k.fds) \in Nat /\ k.opened \in Nat
      /\ k.pas \in Seq(PathAccess)
    BY DEF Walker, Held0, CallState
<1>2. Len(k.fds) \in Nat \ {0, 1}
    BY <1>1 DEF Walker
<1>3. /\ ds \in Seq(Dir) /\ Len(ds) = Len(k.fds) - 1
      /\ \A i \in DOMAIN ds : i \in DOMAIN k.fds /\ ds[i] = k.fds[i]
    BY <1>1, <1>2, PopTypes
<1>4. ds # << >> /\ Len(ds) <= MaxFds
    <2>1. Len(<< >>) = 0
        OBVIOUS
    <2>2. Len(k.fds) <= MaxFds
        BY DEF Walker, Held0
    <2> HIDE DEF ds
    <2>3. Len(ds) # 0 /\ Len(ds) <= MaxFds
        BY <1>2, <1>3, <2>2, Sizes
    <2> QED BY <2>1, <2>3
<1>5. \A i \in DOMAIN ds : ds[i] \notin Outside
    BY <1>3 DEF Walker, Held0
<1>6. n \in Nat /\ n = Len(ds) - 1 + Cardinality(Owned(k.pas))
    <2>1. Cardinality(Owned(k.pas)) \in Nat
        BY <1>1, CountsFinite
    <2>2. k.opened = Len(k.fds) - 1 + Cardinality(Owned(k.pas))
        BY DEF Walker
    <2>3. ASSUME NEW l \in Nat \ {0, 1}, NEW o \in Nat, NEW c \in Nat, o = l - 1 + c
          PROVE  o - 1 \in Nat /\ o - 1 = (l - 1) - 1 + c
        BY <2>3
    <2>4. Len(ds) = Len(k.fds) - 1
        BY <1>3
    <2>5. /\ k.opened - 1 \in Nat
          /\ k.opened - 1 = (Len(k.fds) - 1) - 1 + Cardinality(Owned(k.pas))
        <3> HIDE DEF ds, n
        <3> QED BY <1>1, <1>2, <2>1, <2>2, <2>3
    <2> HIDE DEF ds
    <2> QED BY <2>4, <2>5, Zenon
<1> HIDE DEF ds, n
<1>7. t \in CallState
    BY <1>1, <1>3, <1>6 DEF CallState
<1>8. /\ t.request = k.request /\ t.fds = ds /\ t.paths = k.paths
      /\ t.expansions = k.expansions /\ t.pas = k.pas /\ t.opened = n
      /\ t.strings = k.strings
    BY <1>1 DEF CallState
<1> HIDE DEF t
<1>9. Walker(t)
    BY <1>3, <1>4, <1>5, <1>6, <1>7, <1>8 DEF Walker, Held0
<1> QED BY <1>9 DEF t, ds, n

LEMMA IdleGood == GoodCall(Idle)
<1>1. Idle \in CallState
    <2>1. 0 \in 0 .. MaxExpansions
        BY Sizes
    <2>2. "idle" \in Pc /\ "no" \in Errno
        BY DEF Pc, Errno
    <2> QED BY <2>1, <2>2, Constants DEF Idle, CallState
<1>2. Len(Idle.fds) = 0 /\ Len(Idle.paths) = 0
    BY DEF Idle
<1>3. DOMAIN Idle.fds = {} /\ DOMAIN Idle.pas = {}
    BY DEF Idle
<1>4. Idle.pc = "idle" /\ Idle.pas = << >> /\ Idle.opened = 0 /\ Idle.strings = 0
    BY DEF Idle
<1>5. Len(Idle.fds) <= MaxFds /\ Len(Idle.paths) <= MaxPaths
    BY <1>2, Sizes
<1> QED BY <1>1, <1>3, <1>4, <1>5 DEF GoodCall, Held0

LEMMA ReturnedGood ==
    ASSUME NEW k, Holder(k)
    PROVE  Returned(k) = Idle
<1>1. k \in CallState /\ k.pas \in Seq(PathAccess)
    BY DEF Holder, Held0, CallState
<1>2. k.opened - Cardinality(Owned(k.pas)) = 0 /\ k.strings - Cardinality(Texts(k.pas)) = 0
    BY <1>1, CountsFinite DEF Holder
<1>3. Returned(k) = [Idle EXCEPT !.opened = 0, !.strings = 0]
    BY <1>2 DEF Returned, Owned, Texts
<1> QED BY <1>3 DEF Idle

(* Another call's change of the file system. *)
LEMMA DisturbedGood ==
    ASSUME NEW k, GoodCall(k)
    PROVE  GoodCall([k EXCEPT !.quiet = FALSE])
<1> DEFINE t == [k EXCEPT !.quiet = FALSE]
<1>1. k \in CallState
    BY DEF GoodCall, Held0
<1>2. t \in CallState
    BY <1>1 DEF CallState
<1>3. /\ t.pc = k.pc /\ t.request = k.request /\ t.fds = k.fds /\ t.paths = k.paths
      /\ t.expansions = k.expansions /\ t.pas = k.pas /\ t.opened = k.opened
      /\ t.strings = k.strings /\ t.file = k.file
    BY <1>1 DEF CallState
<1> HIDE DEF t
<1>4. Held0(t)
    BY <1>2, <1>3 DEF GoodCall, Held0
<1>5. Walker(k) => Walker(t)
    BY <1>3, <1>4 DEF Walker
<1>6. Holder(k) => Holder(t)
    BY <1>3, <1>4 DEF Holder
<1>7. GoodCall(t)
    BY <1>3, <1>4, <1>5, <1>6 DEF GoodCall
<1> QED BY <1>7 DEF t

LEMMA StartGood ==
    ASSUME NEW k, GoodCall(k), k.pc \in {"idle", "next"},
           NEW r \in Request, NEW fd \in Dir \ Outside, NEW path \in Path
    PROVE  GoodCall([k EXCEPT !.pc = "walk", !.request = r, !.fds = <<fd>>,
                              !.paths = <<path>>, !.expansions = 0,
                              !.strings = k.strings + 1, !.quiet = TRUE])
<1> DEFINE fds == <<fd>>
           paths == <<path>>
           n == k.strings + 1
           t == [k EXCEPT !.pc = "walk", !.request = r, !.fds = fds, !.paths = paths,
                          !.expansions = 0, !.strings = n, !.quiet = TRUE]
<1>1. /\ k \in CallState /\ k.strings \in Nat /\ k.opened \in Nat
      /\ k.pas \in Seq(PathAccess) /\ Held0(k)
    BY DEF GoodCall, Held0, CallState
<1>2. k.opened = Cardinality(Owned(k.pas)) /\ k.strings = Cardinality(Texts(k.pas))
    BY CountEmpty DEF GoodCall, Holder
<1>3. /\ fds \in Seq(Dir) /\ Len(fds) = 1 /\ fds # << >>
      /\ \A i \in DOMAIN fds : fds[i] \notin Outside
    OBVIOUS
<1>4. paths \in Seq(Path) /\ Len(paths) = 1 /\ paths # << >>
    OBVIOUS
<1>5. n \in Nat /\ n = 1 + Cardinality(Texts(k.pas))
    BY <1>1, <1>2
<1>6. 0 \in 0 .. MaxExpansions /\ 0 < MaxExpansions /\ 1 <= MaxFds /\ 1 <= MaxPaths
    BY Sizes
<1>7. 1 - 1 + Cardinality(Owned(k.pas)) = Cardinality(Owned(k.pas))
    BY <1>1, CountsFinite
<1> HIDE DEF fds, paths, n
<1>8. t \in CallState
    BY <1>1, <1>3, <1>4, <1>5, <1>6, Constants DEF CallState
<1>9. /\ t.pc = "walk" /\ t.request = r /\ t.fds = fds /\ t.paths = paths
      /\ t.expansions = 0 /\ t.pas = k.pas /\ t.opened = k.opened /\ t.strings = n
    BY <1>1 DEF CallState
<1> HIDE DEF t
<1>10. Held0(t)
    BY <1>1, <1>3, <1>4, <1>6, <1>8, <1>9 DEF Held0
<1>11. Walker(t)
    BY <1>2, <1>3, <1>4, <1>5, <1>6, <1>7, <1>9, <1>10 DEF Walker
<1>12. GoodCall(t)
    BY <1>9, <1>10, <1>11 DEF GoodCall
<1> QED BY <1>12 DEF t, fds, paths, n

-----------------------------------------------------------------------------
(* Steps *)

(* A step of one call, which leaves the file system alone. *)
LEMMA CallStep ==
    ASSUME Inv, NEW c \in Call, NEW t, GoodCall(t), call' = [call EXCEPT ![c] = t],
           dirs' \subseteq Dir \ Outside, UNCHANGED <<entry, changes>>
    PROVE  Inv'
<1>1. t \in CallState
    BY DEF GoodCall, Held0
<1>2. call' \in [Call -> CallState]
    BY <1>1 DEF Inv
<1>3. \A b \in Call : call'[b] = IF b = c THEN t ELSE call[b]
    BY DEF Inv
<1>4. \A b \in Call : GoodCall(call'[b])
    BY <1>3 DEF Inv
<1>5. Closed(entry') /\ changes' \in 0 .. MaxChanges
    BY DEF Inv
<1> QED BY <1>2, <1>4, <1>5 DEF Inv

(* A system call's change of the file system, and its return. *)
LEMMA ChangeStep ==
    ASSUME Inv, NEW c \in Call, Holder(call[c]), NEW e, Closed(e), ReturnChanging(c, e),
           UNCHANGED dirs
    PROVE  Inv'
<1>1. Returned(call[c]) = Idle
    BY ReturnedGood
<1>2. call' = [b \in Call |-> IF b = c THEN Idle ELSE [call[b] EXCEPT !.quiet = FALSE]]
    BY <1>1 DEF ReturnChanging
<1>3. \A b \in Call : GoodCall([call[b] EXCEPT !.quiet = FALSE])
    BY DisturbedGood DEF Inv
<1>4. \A b \in Call : GoodCall(call'[b])
    BY <1>2, <1>3, IdleGood
<1>5. \A b \in Call : call'[b] \in CallState
    BY <1>4 DEF GoodCall, Held0
<1>6. call' \in [Call -> CallState]
    BY <1>2, <1>5
<1>7. changes' \in 0 .. MaxChanges
    <2>1. changes \in 0 .. MaxChanges /\ changes < MaxChanges /\ changes' = changes + 1
        BY DEF Inv, ReturnChanging
    <2>2. MaxChanges \in Nat
        BY PathAssumption
    <2> QED BY <2>1, <2>2
<1>8. Closed(entry')
    <2>1. entry' = e
        BY DEF ReturnChanging
    <2> QED BY <2>1
<1> QED BY <1>4, <1>6, <1>7, <1>8 DEF Inv

(* An entry of a directory that is not outside is replaced. *)
LEMMA PutClosed ==
    ASSUME NEW e, Closed(e), NEW d \in Dir \ Outside, NEW n \in Name,
           NEW node \in (Node \cup {None}) \ Outside
    PROVE  Closed([e EXCEPT ![d][n] = node])
<1> DEFINE f == [e EXCEPT ![d][n] = node]
<1>1. e \in [Dir -> [Name -> Node \cup {None}]]
    BY DEF Closed
<1>2. f \in [Dir -> [Name -> Node \cup {None}]]
    BY <1>1
<1>3. \A a \in Dir : a # d => f[a] = e[a]
    BY <1>1
<1>4. f[d] = [e[d] EXCEPT ![n] = node]
    BY <1>1
<1>5. e[d] \in [Name -> Node \cup {None}]
    BY <1>1
<1>6. Outside \subseteq Dir
    BY PathAssumption
<1> HIDE DEF f
<1>7. \A a \in Outside : f[a] = InitialEntry[a]
    BY <1>3, <1>6 DEF Closed
<1>8. ASSUME NEW a \in Dir \ Outside, NEW m \in Name
      PROVE  f[a][m] \notin Outside
    <2>1. CASE a = d
        BY <2>1, <1>4, <1>5 DEF Closed
    <2>2. CASE a # d
        BY <2>2, <1>3 DEF Closed
    <2> QED BY <2>1, <2>2
<1>9. Closed(f)
    BY <1>2, <1>7, <1>8 DEF Closed
<1> QED BY <1>9 DEF f

LEMMA RequestTypes ==
    ASSUME NEW r \in Request, NEW n \in 1 .. Len(r.paths)
    PROVE  r.paths[n].fd \in Dir /\ r.paths[n].path \in Path
<1>1. r.paths \in Seq([fd : Dir, path : Path])
    BY DEF Request
<1>2. ASSUME NEW S, NEW s \in Seq(S), NEW i \in 1 .. Len(s)
      PROVE  s[i] \in S
    OBVIOUS
<1>3. r.paths[n] \in [fd : Dir, path : Path]
    BY <1>1, <1>2, Zenon
<1> QED BY <1>3

LEMMA PathGetStep ==
    ASSUME Inv, NEW c \in Call, path_get(c)
    PROVE  Inv'
<1> DEFINE k == call[c]
<1>1. GoodCall(k)
    BY DEF Inv
<1>2. ASSUME NEW r \in Request, Len(k.pas) + 1 \in 1 .. Len(r.paths), Start(c, r),
             k.pc \in {"idle", "next"}
      PROVE  Inv'
    <2> DEFINE fd == r.paths[Len(k.pas) + 1].fd
               path == r.paths[Len(k.pas) + 1].path
    <2>1. fd \in Dir \ Outside /\ path \in Path
        BY <1>2, RequestTypes DEF Start, Inv
    <2>2. call' = [call EXCEPT ![c] =
                      [k EXCEPT !.pc = "walk", !.request = r, !.fds = <<fd>>,
                                !.paths = <<path>>, !.expansions = 0,
                                !.strings = k.strings + 1, !.quiet = TRUE]]
        BY <1>2 DEF Start
    <2>3. UNCHANGED <<entry, changes>> /\ dirs' \subseteq Dir \ Outside
        BY DEF path_get, Inv
    <2> HIDE DEF fd, path, k
    <2>4. GoodCall([k EXCEPT !.pc = "walk", !.request = r, !.fds = <<fd>>,
                             !.paths = <<path>>, !.expansions = 0,
                             !.strings = k.strings + 1, !.quiet = TRUE])
        BY <1>1, <1>2, <2>1, StartGood
    <2> QED BY <2>2, <2>3, <2>4, CallStep
<1>3. CASE k.pc = "idle" /\ \E r \in Requests[c] : Start(c, r)
    <2>1. PICK r \in Requests[c] : Start(c, r)
        BY <1>3
    <2>2. r \in Request /\ Len(r.paths) \in {1, 2}
        <3>1. r \in Request
            BY PathAssumption
        <3> QED BY <3>1 DEF Request, Arity
    <2>3. Len(k.pas) = 0
        <3>1. k.pas = << >>
            BY <1>1, <1>3 DEF GoodCall
        <3> QED BY <3>1
    <2>4. Len(k.pas) + 1 \in 1 .. Len(r.paths)
        <3>1. 0 + 1 \in 1 .. 1 /\ 0 + 1 \in 1 .. 2
            OBVIOUS
        <3> QED BY <2>2, <2>3, <3>1, Zenon
    <2> QED BY <1>2, <1>3, <2>1, <2>2, <2>4
<1>4. CASE k.pc = "next" /\ Start(c, k.request)
    <2>1. k.request \in Request /\ Len(k.pas) < Len(k.request.paths)
        BY <1>1, <1>4 DEF GoodCall, Holder
    <2>2. Len(k.pas) \in Nat /\ Len(k.request.paths) \in Nat
        <3>1. k.pas \in Seq(PathAccess)
            BY <1>1 DEF GoodCall, Held0, CallState
        <3>2. k.request.paths \in Seq([fd : Dir, path : Path])
            BY <2>1 DEF Request
        <3> QED BY <3>1, <3>2
    <2>3. Len(k.pas) + 1 \in 1 .. Len(k.request.paths)
        BY <2>1, <2>2
    <2> QED BY <1>2, <1>4, <2>1, <2>3
<1> QED BY <1>3, <1>4 DEF path_get

(* What path_get takes from the front of a path. *)
LEMMA ComponentTypes ==
    ASSUME NEW k, Walker(k), Top(k.paths).names # << >>
    PROVE  /\ Walker(TakeComponent(k))
           /\ TakeComponent(k).file.name = FirstComponent(k)
           /\ TakeComponent(k).file.slash \in BOOLEAN
           /\ TakeComponent(k).pc = k.pc
<1>1. Walker(TakeComponent(k)) /\ TakeComponent(k).pc = k.pc
    BY TakeComponentWalker
<1>2. TakeComponent(k).file.slash \in BOOLEAN
    BY <1>1 DEF Walker, Held0, CallState, FileName
<1>3. TakeComponent(k).file.name = FirstComponent(k)
    <2>1. k \in CallState
        BY DEF Walker, Held0
    <2> QED BY <2>1 DEF TakeComponent, FirstComponent, CallState
<1> QED BY <1>1, <1>2, <1>3

LEMMA ReadlinkGood ==
    ASSUME NEW k, Walker(k), k.file.name \in Name
    PROVE  GoodCall([k EXCEPT !.pc = "readlink"])
<1> DEFINE t == [k EXCEPT !.pc = "readlink"]
<1>1. k \in CallState
    BY DEF Walker, Held0
<1>2. t \in CallState
    BY <1>1, Constants DEF CallState
<1>3. /\ t.pc = "readlink" /\ t.request = k.request /\ t.fds = k.fds /\ t.paths = k.paths
      /\ t.expansions = k.expansions /\ t.pas = k.pas /\ t.opened = k.opened
      /\ t.strings = k.strings /\ t.file = k.file
    BY <1>1 DEF CallState
<1> HIDE DEF t
<1>4. Walker(t)
    BY <1>2, <1>3 DEF Walker, Held0
<1>5. GoodCall(t)
    BY <1>3, <1>4 DEF GoodCall, Walker
<1> QED BY <1>5 DEF t

LEMMA NextGood ==
    ASSUME NEW k, Holder(k), Len(k.pas) < Len(k.request.paths)
    PROVE  GoodCall([k EXCEPT !.pc = "next"])
<1> DEFINE t == [k EXCEPT !.pc = "next"]
<1>1. k \in CallState
    BY DEF Holder, Held0
<1>2. t \in CallState
    BY <1>1, Constants DEF CallState
<1>3. /\ t.pc = "next" /\ t.request = k.request /\ t.fds = k.fds /\ t.paths = k.paths
      /\ t.pas = k.pas /\ t.opened = k.opened /\ t.strings = k.strings
    BY <1>1 DEF CallState
<1> HIDE DEF t
<1>4. Holder(t)
    BY <1>2, <1>3 DEF Holder, Held0
<1>5. GoodCall(t)
    BY <1>3, <1>4 DEF GoodCall, Holder
<1> QED BY <1>5 DEF t

LEMMA WalkStep ==
    ASSUME Inv, NEW c \in Call, Walk(c)
    PROVE  Inv'
<1> DEFINE k == call[c]
           t == TakeComponent(k)
<1>1. GoodCall(k)
    BY DEF Inv
<1>2. k.pc \in {"walk", "readlink"} => Walker(k)
    BY <1>1 DEF GoodCall
<1>3. Walking(c) => /\ Walker(t) /\ t.file.name = FirstComponent(k)
                    /\ t.file.slash \in BOOLEAN /\ t.pc = "walk"
    BY <1>2, ComponentTypes DEF Walking
<1>4. ASSUME NEW s, GoodCall(s), call' = [call EXCEPT ![c] = s],
             UNCHANGED <<entry, changes, dirs>>
      PROVE  Inv'
    <2>1. UNCHANGED <<entry, changes>> /\ dirs' \subseteq Dir \ Outside
        BY <1>4 DEF Inv
    <2> QED BY <1>4, <2>1, CallStep
<1>5. {"ENOENT", "ENOTCAPABLE", "ENAMETOOLONG", "ELOOP", "ENOTDIR", "EIO"} \subseteq Errno
    BY DEF Errno
<1>6. ASSUME NEW d \in Dir \ Outside, NEW n \in Name
      PROVE  entry[d][n] \in (Node \cup {None}) \ Outside
    BY DEF Inv, Closed
<1>7. None \notin Dir /\ None \notin Link
    BY PathAssumption DEF Node
<1>8. CASE empty_component(c)
    <2>1. Walker(k)
        BY <1>2, <1>8 DEF empty_component
    <2>2. PICK e \in Errno : call' = [call EXCEPT ![c] = Fail(k, e)]
        BY <1>5, <1>8 DEF empty_component
    <2>3. GoodCall(Fail(k, e))
        BY <2>1, FailGood
    <2> QED BY <1>4, <1>8, <2>2, <2>3 DEF empty_component
<1>9. CASE skip_component(c)
    <2>1. Walker(t) /\ call' = [call EXCEPT ![c] = Advance(t)]
        BY <1>3, <1>9 DEF skip_component
    <2>2. GoodCall(Advance(t))
        BY <2>1, AdvanceGood
    <2> QED BY <1>4, <1>9, <2>1, <2>2 DEF skip_component
<1>10. CASE pop_directory(c)
    <2> DEFINE u == [t EXCEPT !.fds = Pop(t.fds), !.opened = t.opened - 1]
               s == IF Len(t.fds) = 1 THEN Fail(t, "ENOTCAPABLE") ELSE Advance(u)
    <2>1. Walker(t) /\ call' = [call EXCEPT ![c] = s]
        BY <1>3, <1>10 DEF pop_directory
    <2> HIDE DEF t
    <2>2. GoodCall(s)
        <3>1. CASE Len(t.fds) = 1
            BY <1>5, <2>1, <3>1, FailGood
        <3>2. CASE Len(t.fds) # 1
            <4>1. Walker(u)
                BY <2>1, <3>2, PopDirectory
            <4>2. GoodCall(Advance(u))
                BY <4>1, AdvanceGood
            <4> QED BY <3>2, <4>2
        <3> QED BY <3>1, <3>2
    <2> QED BY <1>4, <1>10, <2>1, <2>2 DEF pop_directory
<1>11. CASE open_directory(c)
    <2> DEFINE node == entry[Top(t.fds)][t.file.name]
               u == [t EXCEPT !.fds = Append(t.fds, node), !.opened = t.opened + 1]
               s == CASE node = None -> Fail(t, "ENOENT")
                      [] node \in Dir -> IF Len(t.fds) = MaxFds THEN Fail(t, "ENAMETOOLONG")
                                         ELSE Advance(u)
                      [] OTHER -> [t EXCEPT !.pc = "readlink"]
    <2>1. Walker(t) /\ t.file.name \in Name /\ call' = [call EXCEPT ![c] = s]
        BY <1>3, <1>11 DEF open_directory
    <2>2. Top(t.fds) \in Dir \ Outside
        BY <2>1, TopTypes
    <2>3. node \in (Node \cup {None}) \ Outside
        BY <1>6, <2>1, <2>2
    <2> HIDE DEF t, node
    <2>4. GoodCall(s)
        <3>1. CASE node = None
            BY <1>5, <1>7, <2>1, <3>1, FailGood
        <3>2. CASE node # None /\ node \in Dir /\ Len(t.fds) = MaxFds
            BY <1>5, <2>1, <3>2, FailGood
        <3>3. CASE node # None /\ node \in Dir /\ Len(t.fds) # MaxFds
            <4>1. Walker(u)
                BY <2>1, <2>3, <3>3, PushDirectory
            <4>2. GoodCall(Advance(u))
                BY <4>1, AdvanceGood
            <4> QED BY <3>3, <4>2
        <3>4. CASE node # None /\ node \notin Dir
            <4>1. s = [t EXCEPT !.pc = "readlink"]
                BY <3>4
            <4> HIDE DEF s
            <4> QED BY <2>1, <4>1, ReadlinkGood
        <3> QED BY <3>1, <3>2, <3>3, <3>4
    <2> QED BY <1>4, <1>11, <2>1, <2>4 DEF open_directory
<1>12. CASE read_link(c)
    <2> DEFINE node == entry[Top(k.fds)][k.file.name]
               s == CASE node = None -> Fail(k, "ENOENT")
                      [] node \in Link -> PushSymlink(k, node)
                      [] OTHER -> Fail(k, "ENOTDIR")
    <2>1. Walker(k) /\ call' = [call EXCEPT ![c] = s]
        BY <1>2, <1>12 DEF read_link
    <2> HIDE DEF k, node
    <2>2. GoodCall(s)
        <3>1. CASE node = None
            BY <1>5, <1>7, <2>1, <3>1, FailGood
        <3>2. CASE node # None /\ node \in Link
            BY <2>1, <3>2, PushSymlinkGood
        <3>3. CASE node # None /\ node \notin Link
            <4>1. s = Fail(k, "ENOTDIR")
                BY <3>3
            <4> HIDE DEF s
            <4> QED BY <1>5, <2>1, <4>1, FailGood
        <3> QED BY <3>1, <3>2, <3>3
    <2> QED BY <1>4, <1>12, <2>1, <2>2 DEF read_link
<1>13. CASE final_component(c)
    <2> DEFINE node == entry[Top(t.fds)][t.file.name]
               s == IF node \in Link /\ (t.file.slash \/ follow(t)) THEN PushSymlink(t, node)
                    ELSE Success(t, t.file.name, t.file.slash)
    <2>1. /\ Walker(t) /\ t.file.name \in Name /\ t.file.slash \in BOOLEAN
          /\ call' = [call EXCEPT ![c] = s] /\ ~MustBeDirectory(t)
        BY <1>3, <1>13 DEF final_component
    <2> HIDE DEF t, node
    <2>2. t.strings = Cardinality(Texts(t.pas)) + (IF t.file.name # "." THEN 1 ELSE 0)
        <3>1. t.file.name # "."
            BY <2>1, PathAssumption
        <3>2. Len(t.paths) = 1
            <4>1. Len(t.paths) \in 1 .. MaxPaths /\ MaxPaths \in Nat
                BY <2>1, TopTypes, Sizes
            <4>2. ~(Len(t.paths) > 1)
                BY <2>1 DEF MustBeDirectory
            <4>3. ASSUME NEW m \in Nat, NEW l \in 1 .. m, ~(l > 1)
                  PROVE  l = 1
                BY <4>3
            <4> QED BY <4>1, <4>2, <4>3, Zenon
        <3>3. t.strings = 1 + Cardinality(Texts(t.pas))
            BY <2>1, <3>2 DEF Walker
        <3>4. Cardinality(Texts(t.pas)) \in Nat
            BY <2>1, CountsFinite DEF Walker, Held0, CallState
        <3> QED BY <3>1, <3>3, <3>4
    <2>3. GoodCall(s)
        <3>1. CASE node \in Link /\ (t.file.slash \/ follow(t))
            BY <2>1, <3>1, PushSymlinkGood
        <3>2. CASE ~(node \in Link /\ (t.file.slash \/ follow(t)))
            <4>1. GoodCall(Success(t, t.file.name, t.file.slash))
                BY <2>1, <2>2, SuccessGood DEF Walker
            <4> QED BY <3>2, <4>1
        <3> QED BY <3>1, <3>2
    <2> QED BY <1>4, <1>13, <2>1, <2>3 DEF final_component
<1>14. CASE host_error(c)
    <2>1. Walker(k) /\ call' = [call EXCEPT ![c] = Fail(k, "EIO")]
        BY <1>2, <1>14 DEF host_error
    <2>2. GoodCall(Fail(k, "EIO"))
        BY <1>5, <2>1, FailGood
    <2> QED BY <1>4, <1>14, <2>1, <2>2 DEF host_error
<1>15. CASE return_error(c)
    <2>1. Returned(k) = Idle
        BY <1>1, <1>15, ReturnedGood DEF return_error, GoodCall
    <2> QED BY <1>4, <1>15, <2>1, IdleGood DEF return_error
<1>16. CASE next_path(c)
    <2>1. Holder(k) /\ Len(k.pas) < Len(k.request.paths)
        BY <1>1, <1>16 DEF next_path, GoodCall
    <2>2. call' = [call EXCEPT ![c] = [k EXCEPT !.pc = "next"]]
        BY <1>16 DEF next_path
    <2>3. GoodCall([k EXCEPT !.pc = "next"])
        BY <2>1, NextGood
    <2> QED BY <1>4, <1>16, <2>2, <2>3 DEF next_path
<1> QED BY <1>8, <1>9, <1>10, <1>11, <1>12, <1>13, <1>14, <1>15, <1>16 DEF Walk

(* What a lease names. *)
LEMMA LeaseTypes ==
    ASSUME Inv, NEW c \in Call, Holder(call[c]), NEW i \in 1 .. Len(call[c].pas)
    PROVE  /\ call[c].pas[i].dir \in Dir \ Outside
           /\ call[c].pas[i].path \in Name \cup {"."}
           /\ Named(call[c].pas[i]) \in (Node \cup {None}) \ Outside
<1> DEFINE pas == call[c].pas
<1>1. pas \in Seq(PathAccess) /\ \A n \in DOMAIN pas : pas[n].dir \notin Outside
    BY DEF Holder, Held0, CallState
<1>2. pas[i] \in PathAccess /\ i \in DOMAIN pas
    BY <1>1
<1>3. pas[i].dir \in Dir \ Outside /\ pas[i].path \in Name \cup {"."}
    BY <1>1, <1>2 DEF PathAccess
<1> HIDE DEF pas
<1>4. Named(pas[i]) \in (Node \cup {None}) \ Outside
    <2>1. CASE pas[i].path = "."
        BY <1>3, <2>1 DEF Named, Node
    <2>2. CASE pas[i].path # "."
        BY <1>3, <2>2 DEF Named, Inv, Closed
    <2> QED BY <2>1, <2>2
<1> QED BY <1>3, <1>4 DEF pas

(* A directory outside has its place there for good. *)
LEMMA OutsideLinked ==
    ASSUME Inv, NEW d \in Outside
    PROVE  Linked(d)
<1>1. CASE d = Root
    BY <1>1 DEF Linked
<1>2. CASE d # Root
    <2>1. PICK e \in Outside, n \in Name : InitialEntry[e][n] = d
        BY <1>2, OutsideAssumption
    <2>2. entry[e] = InitialEntry[e] /\ e \in Dir
        BY PathAssumption DEF Inv, Closed
    <2> QED BY <2>1, <2>2 DEF Linked
<1> QED BY <1>1, <1>2

LEMMA SystemCallStep ==
    ASSUME Inv, NEW c \in Call, SystemCall(c)
    PROVE  Inv'
<1> DEFINE k == call[c]
           pa == k.pas[1]
<1>1. GoodCall(k)
    BY DEF Inv
<1>2. ASSUME NEW op, Leased(c, op)
      PROVE  /\ Holder(k) /\ k.request \in Request /\ k.request.op = op
             /\ Len(k.pas) = Len(k.request.paths)
    BY <1>1, <1>2 DEF Leased, GoodCall, Holder
<1>3. ASSUME NEW op, PathOp(c, op)
      PROVE  Inv'
    <2>1. Returned(k) = Idle
        BY <1>2, <1>3, ReturnedGood DEF PathOp
    <2>2. /\ call' = [call EXCEPT ![c] = Idle] /\ UNCHANGED <<entry, changes>>
          /\ dirs' \subseteq Dir \ Outside
        BY <1>3, <2>1 DEF PathOp, Return, Inv
    <2> QED BY <2>2, IdleGood, CallStep
<1>4. Closed(entry)
    BY DEF Inv
<1>5. ASSUME NEW op, Leased(c, op), NEW i \in 1 .. Len(k.pas), k.pas[i].path # ".",
             NEW node \in (Node \cup {None}) \ Outside, ReturnChanging(c, Put(k.pas[i], node)),
             UNCHANGED dirs
      PROVE  Inv'
    <2>1. Holder(k)
        BY <1>2, <1>5
    <2>2. k.pas[i].dir \in Dir \ Outside /\ k.pas[i].path \in Name
        BY <1>5, <2>1, LeaseTypes
    <2>3. Closed(Put(k.pas[i], node))
        BY <1>4, <2>2, PutClosed DEF Put
    <2> QED BY <1>5, <2>1, <2>3, ChangeStep
<1>6. Dir \cup File \cup Link \cup {None} = Node \cup {None}
    BY DEF Node
<1>7. (File \cup Link \cup {None}) \cap Outside = {}
    BY PathAssumption DEF Node
<1>8. ASSUME NEW op, Leased(c, op)
      PROVE  1 \in 1 .. Len(k.pas) /\ (op \in {"path_link", "path_rename"} => 2 \in 1 .. Len(k.pas))
    <2>1. Len(k.pas) = Arity(op)
        BY <1>2, <1>8 DEF Request
    <2> QED BY <2>1 DEF Arity
<1>9. CASE path_create_directory(c)
    <2>1. CASE PathOp(c, "path_create_directory")
        BY <1>3, <2>1
    <2>2. CASE ~PathOp(c, "path_create_directory")
        <3>1. /\ Leased(c, "path_create_directory") /\ pa.path # "." /\ UNCHANGED dirs
              /\ \E d \in Dir : ~Linked(d) /\ ReturnChanging(c, Put(pa, d))
            BY <1>9, <2>2 DEF path_create_directory, Free
        <3>2. PICK d \in Dir : ~Linked(d) /\ ReturnChanging(c, Put(pa, d))
            BY <3>1
        <3>3. d \in (Node \cup {None}) \ Outside
            BY <3>2, OutsideLinked DEF Node
        <3> QED BY <1>5, <1>8, <3>1, <3>2, <3>3
    <2> QED BY <2>1, <2>2
<1>10. CASE path_link(c)
    <2>1. CASE PathOp(c, "path_link")
        BY <1>3, <2>1
    <2>2. CASE ~PathOp(c, "path_link")
        <3> DEFINE node == Named(k.pas[1])
        <3>1. /\ Leased(c, "path_link") /\ k.pas[2].path # "." /\ UNCHANGED dirs
              /\ node \in File \cup Link /\ ReturnChanging(c, Put(k.pas[2], node))
            BY <1>10, <2>2 DEF path_link, Free
        <3>2. node \in (Node \cup {None}) \ Outside
            BY <1>6, <1>7, <3>1
        <3> HIDE DEF node
        <3> QED BY <1>5, <1>8, <3>1, <3>2
    <2> QED BY <2>1, <2>2
<1>11. CASE path_open(c)
    <2>1. CASE PathOp(c, "path_open")
        BY <1>3, <2>1
    <2>2. CASE /\ Leased(c, "path_open") /\ Named(pa) \in Dir
               /\ dirs' = dirs \cup {Named(pa)} /\ Return(c)
        <3>1. Holder(k)
            BY <1>2, <2>2
        <3>2. Named(pa) \notin Outside
            BY <1>8, <2>2, <3>1, LeaseTypes
        <3>3. dirs' \subseteq Dir \ Outside
            BY <2>2, <3>2 DEF Inv
        <3>4. Returned(k) = Idle
            BY <3>1, ReturnedGood
        <3>5. call' = [call EXCEPT ![c] = Idle] /\ UNCHANGED <<entry, changes>>
            BY <2>2, <3>4 DEF Return
        <3> QED BY <3>3, <3>5, IdleGood, CallStep
    <2>3. CASE /\ Leased(c, "path_open") /\ pa.path # "." /\ UNCHANGED dirs
               /\ \E f \in File : ReturnChanging(c, Put(pa, f))
        <3>1. PICK f \in File : ReturnChanging(c, Put(pa, f))
            BY <2>3
        <3>2. f \in (Node \cup {None}) \ Outside
            BY <1>6, <1>7
        <3> QED BY <1>5, <1>8, <2>3, <3>1, <3>2
    <2> QED BY <1>11, <2>1, <2>2, <2>3 DEF path_open, Free
<1>12. CASE path_readlink(c) \/ path_filestat_get(c) \/ path_filestat_set_times(c)
    BY <1>3, <1>12 DEF path_readlink, path_filestat_get, path_filestat_set_times
<1>13. CASE path_rename(c)
    <2>1. CASE PathOp(c, "path_rename")
        BY <1>3, <2>1
    <2>2. CASE ~PathOp(c, "path_rename")
        <3> DEFINE old == k.pas[1]
                   new == k.pas[2]
                   node == Named(old)
                   e == [Put(new, node) EXCEPT ![old.dir][old.path] = None]
        <3>1. /\ Leased(c, "path_rename") /\ old.path # "." /\ new.path # "."
              /\ ReturnChanging(c, e) /\ UNCHANGED dirs
            BY <1>13, <2>2 DEF path_rename
        <3>2. Holder(k)
            BY <1>2, <3>1
        <3>3. 1 \in 1 .. Len(k.pas) /\ 2 \in 1 .. Len(k.pas)
            BY <1>8, <3>1
        <3>4. /\ old.dir \in Dir \ Outside /\ old.path \in Name
              /\ node \in (Node \cup {None}) \ Outside
            BY <3>1, <3>2, <3>3, LeaseTypes
        <3>5. new.dir \in Dir \ Outside /\ new.path \in Name
            BY <3>1, <3>2, <3>3, LeaseTypes
        <3> HIDE DEF old, new, node
        <3>6. Closed(Put(new, node))
            BY <1>4, <3>4, <3>5, PutClosed DEF Put
        <3>7. None \in (Node \cup {None}) \ Outside
            BY <1>7
        <3>8. Closed(e)
            BY <3>4, <3>6, <3>7, PutClosed
        <3> HIDE DEF e
        <3> QED BY <3>1, <3>2, <3>8, ChangeStep
    <2> QED BY <2>1, <2>2
<1>14. CASE path_symlink(c)
    <2>1. CASE PathOp(c, "path_symlink")
        BY <1>3, <2>1
    <2>2. CASE ~PathOp(c, "path_symlink")
        <3>1. /\ Leased(c, "path_symlink") /\ pa.path # "." /\ UNCHANGED dirs
              /\ \E l \in Link : ReturnChanging(c, Put(pa, l))
            BY <1>14, <2>2 DEF path_symlink, Free
        <3>2. PICK l \in Link : ReturnChanging(c, Put(pa, l))
            BY <3>1
        <3>3. l \in (Node \cup {None}) \ Outside
            BY <1>6, <1>7
        <3> QED BY <1>5, <1>8, <3>1, <3>2, <3>3
    <2> QED BY <2>1, <2>2
<1>15. ASSUME NEW op, Leased(c, op), pa.path # ".", ReturnChanging(c, Put(pa, None)),
              UNCHANGED dirs
       PROVE  Inv'
    <2>1. None \in (Node \cup {None}) \ Outside
        BY <1>7
    <2> QED BY <1>5, <1>8, <1>15, <2>1
<1>16. CASE path_unlink_file(c)
    <2>1. CASE PathOp(c, "path_unlink_file")
        BY <1>3, <2>1
    <2>2. CASE ~PathOp(c, "path_unlink_file")
        <3>1. /\ Leased(c, "path_unlink_file") /\ Named(pa) \in File \cup Link
              /\ ReturnChanging(c, Put(pa, None)) /\ UNCHANGED dirs
            BY <1>16, <2>2 DEF path_unlink_file
        <3>2. pa.path # "."
            <4>1. pa.dir \in Dir
                BY <1>2, <1>8, <3>1, LeaseTypes
            <4> QED BY <3>1, <4>1, PathAssumption DEF Named
        <3> QED BY <1>15, <3>1, <3>2
    <2> QED BY <2>1, <2>2
<1>17. CASE path_remove_directory(c)
    <2>1. CASE PathOp(c, "path_remove_directory")
        BY <1>3, <2>1
    <2>2. CASE ~PathOp(c, "path_remove_directory")
        BY <1>15, <1>17, <2>2 DEF path_remove_directory
    <2> QED BY <2>1, <2>2
<1> QED
    BY <1>9, <1>10, <1>11, <1>12, <1>13, <1>14, <1>16, <1>17 DEF SystemCall

-----------------------------------------------------------------------------
(* Theorems *)

(* The inductive invariant holds: every step of every system call, however *)
(* the calls of several threads interleave, keeps it.                      *)
THEOREM Invariance == Spec => []Inv
<1>1. Init => Inv
  <2> SUFFICES ASSUME Init PROVE Inv
      OBVIOUS
  <2>1. Closed(entry)
      BY PathAssumption, OutsideAssumption DEF Init, Closed
  <2>2. changes \in 0 .. MaxChanges
    <3>1. changes = 0 /\ MaxChanges \in Nat
        BY PathAssumption DEF Init
    <3> QED
        BY <3>1
  <2>3. dirs \subseteq Dir \ Outside
      BY PathAssumption, OutsideAssumption DEF Init
  <2>4. \A c \in Call : call[c] = Idle /\ GoodCall(call[c])
      BY IdleGood DEF Init
  <2>5. Idle \in CallState
      BY IdleGood DEF GoodCall, Held0
  <2>6. call \in [Call -> CallState]
      BY <2>5 DEF Init
  <2> QED
      BY <2>1, <2>2, <2>3, <2>4, <2>6 DEF Inv
<1>2. Inv /\ [Next]_vars => Inv'
  <2> SUFFICES ASSUME Inv, [Next]_vars PROVE Inv'
      OBVIOUS
  <2>1. CASE Next
      BY <2>1, PathGetStep, WalkStep, SystemCallStep DEF Next
  <2>2. CASE UNCHANGED vars
      BY <2>2 DEF vars, Inv
  <2> QED
      BY <2>1, <2>2
<1> QED
    BY <1>1, <1>2, PTL DEF Spec

(* The types; path_get never runs past the arrays fds and paths. *)
THEOREM TypeCorrect == Spec => []TypeOK
<1>1. Inv => TypeOK
  <2> SUFFICES ASSUME Inv PROVE TypeOK
      OBVIOUS
  <2>1. entry \in [Dir -> [Name -> Node \cup {None}]]
      BY DEF Inv, Closed
  <2>2. \A c \in Call : Len(call[c].fds) <= MaxFds /\ Len(call[c].paths) <= MaxPaths
      BY DEF Inv, GoodCall, Held0
  <2> QED
      BY <2>1, <2>2 DEF Inv, TypeOK
<1> QED
    BY <1>1, Invariance, PTL

(* No system call reaches or changes what is outside of the preopened      *)
(* directories, for any contents of links and any number of threads.       *)
THEOREM Confinement == Spec => []Confined
<1>1. Inv => Confined
  <2> SUFFICES ASSUME Inv PROVE Confined
      OBVIOUS
  <2>1. dirs \cap Outside = {}
      BY DEF Inv
  <2>2. \A c \in Call : /\ \A n \in DOMAIN call[c].fds : call[c].fds[n] \notin Outside
                        /\ \A n \in DOMAIN call[c].pas : call[c].pas[n].dir \notin Outside
      BY DEF Inv, GoodCall, Held0
  <2>3. \A d \in Outside : entry[d] = InitialEntry[d]
      BY DEF Inv, Closed
  <2> QED
      BY <2>1, <2>2, <2>3 DEF Confined
<1> QED
    BY <1>1, Invariance, PTL

(* A system call that has returned has closed the descriptors and freed the *)
(* strings that path_get opened and allocated, on every path through it.    *)
THEOREM NoLeaks == Spec => []NothingLeaks
<1>1. Inv => NothingLeaks
    BY DEF Inv, GoodCall, NothingLeaks
<1> QED
    BY <1>1, Invariance, PTL
=============================================================================
