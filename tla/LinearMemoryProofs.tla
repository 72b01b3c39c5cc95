------------------------- MODULE LinearMemoryProofs -------------------------
(***************************************************************************)
(* Proofs about LinearMemory, for every choice of tunables that satisfies  *)
(* TunablesAssumption, every number of importers and every declared type.  *)
(*                                                                         *)
(* The inductive invariant Inv ties the reservation to the owner's plan    *)
(* (a Static memory has its whole bound reserved; a Dynamic one exactly    *)
(* its pages) and every importer's plan to the owner's, although a link    *)
(* compares it with the plan of the re-exporter only: compatibility of     *)
(* limits is transitive, and what a plan derives from its limits is        *)
(* monotone in them.                                                       *)
(***************************************************************************)
EXTENDS LinearMemory, TLAPS

(* Plan p was drawn up with tunables t for limits a module may declare. *)
IsPlan(p, t) == p.limits \in Limits /\ p = PlanFor(p.limits, t)

Backed ==
    LET p == plan[Owner]
    IN  /\ mmap.len = (IF p.style = "Static" THEN p.bound ELSE current) + p.guard
        /\ mmap.accessible = current
        /\ vmdef = [base |-> mmap.base, length |-> current]
        /\ p.limits.min <= current
        /\ p.limits.max # None => current <= p.limits.max
        /\ \A q \in current .. MaxPages - 1 : data[q] = 0

Inv ==
    /\ TypeOK
    /\ state # "panicked"
    /\ state = "none" => data = Zeroed /\ \A h \in Holder : plan[h] = None
    /\ state = "live" =>
        /\ plan[Owner] # None
        /\ IsPlan(plan[Owner], DefaultTunables) \/ IsPlan(plan[Owner], TargetTunables)
        /\ \A i \in Importer : plan[i] # None =>
               IsPlan(plan[i], TargetTunables) /\ is_memory_compatible(plan[Owner], plan[i])
        /\ Backed

-----------------------------------------------------------------------------

(* PlanFor yields a plan: its style, bound and guard are those of its type. *)
LEMMA PlanForType ==
    ASSUME NEW l \in Limits, NEW t \in {DefaultTunables, TargetTunables}
    PROVE  /\ PlanFor(l, t) \in Plans
           /\ PlanFor(l, t).limits = l
           /\ IsPlan(PlanFor(l, t), t)
           /\ PlanFor(l, t).style = "Static" =>
                  /\ l.max # None /\ l.max <= PlanFor(l, t).bound
                  /\ PlanFor(l, t).bound = t.bound
                  /\ PlanFor(l, t).guard = t.static_guard
           /\ PlanFor(l, t).style = "Dynamic" =>
                  /\ PlanFor(l, t).guard = t.dynamic_guard
                  /\ l.max # None => ~(l.max <= t.bound)
           /\ PlanFor(l, t).guard > 0
    BY TunablesAssumption DEF PlanFor, Plans, Tunables, IsPlan, Limits, Pages

(* Compatibility of memory types is transitive, so a re-export of a re-export *)
(* is compatible with the memory itself.                                      *)
LEMMA CompatibleTransitive ==
    ASSUME NEW a \in Plans, NEW b \in Plans, NEW c \in Plans,
           is_memory_compatible(a, b), is_memory_compatible(b, c)
    PROVE  is_memory_compatible(a, c)
    BY TunablesAssumption DEF is_memory_compatible, Plans, Limits, Pages

LEMMA CompatibleReflexive ==
    ASSUME NEW a \in Plans
    PROVE  is_memory_compatible(a, a)
    BY TunablesAssumption DEF is_memory_compatible, Plans, Limits, Pages

(* An import that is compatible with an export satisfies what link_module   *)
(* asserts of the two plans, whichever tunables the export was planned with. *)
LEMMA CompatibleImpliesAssertions ==
    ASSUME NEW e \in Plans, NEW i \in Plans,
           IsPlan(e, DefaultTunables) \/ IsPlan(e, TargetTunables),
           IsPlan(i, TargetTunables),
           is_memory_compatible(e, i)
    PROVE  /\ LinkAssertions(e, i)
           /\ i.style = "Static" => e.style = "Static"
    BY TunablesAssumption
    DEF is_memory_compatible, LinkAssertions, IsPlan, PlanFor, Plans, Limits, Pages, Tunables

-----------------------------------------------------------------------------

LEMMA InitInv == Init => Inv
    BY TunablesAssumption
    DEF Init, Inv, TypeOK, Zeroed, Holder, Pages, Plans

LEMMA NewInv ==
    ASSUME Inv, NEW l \in Limits, NEW t \in {DefaultTunables, TargetTunables}, New(l, t)
    PROVE  Inv'
<1> DEFINE p == PlanFor(l, t)
           minimum == IF p.style = "Static" THEN p.bound ELSE l.min
<1>1. /\ p \in Plans /\ IsPlan(p, t) /\ p.limits = l /\ p.guard > 0
      /\ p.style = "Static" => l.max # None /\ l.max <= p.bound
    BY PlanForType
<1>2. l.min \in Pages /\ l.min \in Nat /\ (l.max # None => l.max \in Nat /\ l.min <= l.max)
    BY TunablesAssumption DEF Limits, Pages
<1>3. minimum \in Nat /\ l.min <= minimum
    BY <1>1, <1>2 DEF Plans
<1>4. Reservable(l.min, minimum + p.guard)
    BY <1>1, <1>2, <1>3 DEF Reservable, Plans
<1>5. /\ plan' = [plan EXCEPT ![Owner] = p]
      /\ state' = "live"
      /\ mmap' = [base |-> 1, len |-> minimum + p.guard, accessible |-> l.min]
      /\ current' = l.min
      /\ vmdef' = [base |-> 1, length |-> l.min]
      /\ data' = data
    BY <1>3, <1>4 DEF New, vmmemory
<1>6. state = "none" /\ data = Zeroed /\ (\A h \in Holder : plan[h] = None)
    BY DEF New, Inv
<1>7. plan'[Owner] = p /\ (\A i \in Importer : plan'[i] = None)
    BY <1>5, <1>6, TunablesAssumption DEF Inv, TypeOK, Holder
<1>8. TypeOK'
  <2>1. plan' \in [Holder -> Plans \cup {None}]
      BY <1>1, <1>5 DEF Inv, TypeOK
  <2>2. mmap' \in [base : Nat, len : Nat, accessible : Nat]
      BY <1>1, <1>2, <1>3, <1>5 DEF Plans
  <2> QED
      BY <1>2, <1>5, <2>1, <2>2 DEF Inv, TypeOK
<1>9. Backed'
    BY <1>1, <1>2, <1>3, <1>5, <1>6, <1>7, TunablesAssumption DEF Backed, Zeroed, Pages
<1>10. p # None
    BY <1>1, TunablesAssumption
<1> QED
    BY <1>1, <1>5, <1>7, <1>8, <1>9, <1>10 DEF Inv

LEMMA LinkInv ==
    ASSUME Inv, NEW i \in Importer, NEW s \in Holder, NEW l \in Limits, Link(i, s, l)
    PROVE  Inv'
<1> DEFINE p == PlanFor(l, TargetTunables)
<1>1. p \in Plans /\ IsPlan(p, TargetTunables)
    BY PlanForType
<1>2. /\ state = "live" /\ s \in Linked /\ is_memory_compatible(plan[s], p)
      /\ plan[s] \in Plans /\ plan[Owner] \in Plans /\ plan[Owner] # None
    BY TunablesAssumption DEF Link, Linked, Inv, TypeOK, Holder
<1>3. IsPlan(plan[Owner], DefaultTunables) \/ IsPlan(plan[Owner], TargetTunables)
    BY <1>2 DEF Inv
<1>4. is_memory_compatible(plan[Owner], plan[s])
  <2>1. CASE s = Owner
      BY <1>2, <2>1, CompatibleReflexive
  <2>2. CASE s # Owner
      BY <1>2, <2>2 DEF Inv, Linked, Holder
  <2> QED
      BY <2>1, <2>2
<1>5. is_memory_compatible(plan[Owner], p)
    BY <1>1, <1>2, <1>4, CompatibleTransitive
<1>6. LinkAssertions(plan[s], p)
  <2>1. IsPlan(plan[s], DefaultTunables) \/ IsPlan(plan[s], TargetTunables)
      BY <1>2, <1>3 DEF Inv, Linked, Holder
  <2> QED
      BY <1>1, <1>2, <2>1, CompatibleImpliesAssertions
<1>7. plan' = [plan EXCEPT ![i] = p] /\ UNCHANGED <<state, current, mmap, data, vmdef>>
    BY <1>6 DEF Link
<1>8. plan'[Owner] = plan[Owner] /\ plan'[i] = p
    BY <1>7, TunablesAssumption DEF Inv, TypeOK, Holder
<1>9. \A j \in Importer : j # i => plan'[j] = plan[j]
    BY <1>7 DEF Inv, TypeOK, Holder
<1>10. TypeOK'
    BY <1>1, <1>7 DEF Inv, TypeOK
<1>11. Backed'
    BY <1>2, <1>7, <1>8 DEF Inv, Backed
<1>12. \A j \in Importer : plan'[j] # None =>
           IsPlan(plan'[j], TargetTunables) /\ is_memory_compatible(plan'[Owner], plan'[j])
    BY <1>1, <1>2, <1>5, <1>8, <1>9 DEF Inv
<1> QED
    BY <1>2, <1>3, <1>7, <1>8, <1>10, <1>11, <1>12 DEF Inv

(* What a successful growth does to a memory that satisfies the invariant:  *)
(* a Static one unprotects pages of its reservation, a Dynamic one moves.   *)
LEMMA GrowthSteps ==
    ASSUME Inv, NEW d \in Pages, NEW ok \in BOOLEAN, memory_grow(d, ok)
    PROVE  /\ state' = state /\ plan' = plan
           /\ current' = IF d > 0 /\ Growable(d) /\ ok THEN current + d ELSE current
           /\ vmdef' = [base |-> mmap'.base, length |-> current']
           /\ (d > 0 /\ Growable(d) /\ ok /\ plan[Owner].style = "Static") =>
                  mmap' = [mmap EXCEPT !.accessible = current + d] /\ data' = data
           /\ (d > 0 /\ Growable(d) /\ ok /\ plan[Owner].style = "Dynamic") =>
                  /\ mmap' = [base |-> mmap.base + 1,
                              len |-> current + d + plan[Owner].guard,
                              accessible |-> current + d]
                  /\ data' = [q \in DOMAIN data |-> IF q < current THEN data[q] ELSE 0]
           /\ ~(d > 0 /\ Growable(d) /\ ok) => mmap' = mmap /\ data' = data
<1> DEFINE p == plan[Owner]
           grows == d > 0 /\ Growable(d) /\ ok
<1>1. /\ state = "live" /\ p \in Plans /\ Backed
      /\ IsPlan(p, DefaultTunables) \/ IsPlan(p, TargetTunables)
      /\ current \in Nat /\ d \in Nat /\ mmap.len \in Nat
    BY TunablesAssumption DEF memory_grow, Inv, TypeOK, Holder, Pages
<1>2. /\ p.guard \in Nat /\ p.guard > 0 /\ p.bound \in Nat
      /\ p.style = "Static" => p.limits.max # None /\ p.limits.max <= p.bound
                                /\ p.limits.max \in Nat
      /\ p.style \in {"Static", "Dynamic"}
    BY <1>1, TunablesAssumption DEF IsPlan, PlanFor, Plans, Limits, Pages, Tunables
<1>3. plan' = plan /\ vmdef' = [base |-> mmap'.base, length |-> current']
    BY DEF memory_grow, vmmemory
<1>4. CASE ~grows
    BY <1>3, <1>4 DEF memory_grow
<1>5. CASE grows /\ p.style = "Static"
  <2>1. current + d <= p.bound /\ mmap.len = p.bound + p.guard
      BY <1>1, <1>2, <1>5 DEF Growable, Backed
  <2>2. ~(current + d > mmap.len - p.guard)
      BY <1>1, <1>2, <2>1
  <2>3. ProtectAssertions(current, d)
      BY <1>1, <1>2, <2>1 DEF ProtectAssertions
  <2> QED
      BY <1>3, <1>5, <2>2, <2>3 DEF memory_grow, Unprotect
<1>6. CASE grows /\ p.style = "Dynamic"
  <2>1. mmap.len = current + p.guard /\ mmap.len - p.guard = current
      BY <1>1, <1>2, <1>6 DEF Backed
  <2>2. current + d > mmap.len - p.guard
      BY <1>1, <1>2, <1>6, <2>1
  <2> QED
      BY <1>3, <1>6, <2>1, <2>2 DEF memory_grow, Move
<1> QED
    BY <1>2, <1>4, <1>5, <1>6

LEMMA GrowInv ==
    ASSUME Inv, NEW d \in Pages, NEW ok \in BOOLEAN, memory_grow(d, ok)
    PROVE  Inv'
<1> DEFINE p == plan[Owner]
           grows == d > 0 /\ Growable(d) /\ ok
<1>1. /\ state = "live" /\ p \in Plans /\ p # None /\ Backed
      /\ current \in Nat /\ d \in Nat /\ MaxPages \in Nat
      /\ mmap \in [base : Nat, len : Nat, accessible : Nat]
      /\ data \in [0 .. MaxPages - 1 -> {0, 1}]
      /\ p.guard \in Nat /\ p.style \in {"Static", "Dynamic"}
      /\ p.limits.min \in Nat /\ (p.limits.max # None => p.limits.max \in Nat)
    BY TunablesAssumption DEF memory_grow, Inv, TypeOK, Holder, Pages, Plans, Limits
<1>2. state' = state /\ plan' = plan
    BY GrowthSteps
<1>3. CASE ~grows
  <2>1. current' = current /\ mmap' = mmap /\ data' = data
        /\ vmdef' = [base |-> mmap.base, length |-> current]
      BY <1>3, GrowthSteps
  <2>2. vmdef' = vmdef
      BY <1>1, <2>1 DEF Backed
  <2> QED
      BY <1>1, <1>2, <2>1, <2>2 DEF Inv, TypeOK, Backed
<1>4. CASE grows
  <2>1. /\ current' = current + d
        /\ vmdef' = [base |-> mmap'.base, length |-> current']
        /\ p.style = "Static" =>
               mmap' = [mmap EXCEPT !.accessible = current + d] /\ data' = data
        /\ p.style = "Dynamic" =>
               /\ mmap' = [base |-> mmap.base + 1, len |-> current + d + p.guard,
                           accessible |-> current + d]
               /\ data' = [q \in DOMAIN data |-> IF q < current THEN data[q] ELSE 0]
      BY <1>4, GrowthSteps
  <2>2. current' \in Pages /\ (p.limits.max # None => current' <= p.limits.max)
        /\ p.limits.min <= current'
      BY <1>1, <1>4, <2>1 DEF Growable, Pages, Backed
  <2>3. mmap' \in [base : Nat, len : Nat, accessible : Nat]
    <3>1. CASE p.style = "Static"
      <4>1. mmap' = [mmap EXCEPT !.accessible = current + d] /\ current + d \in Nat
          BY <1>1, <2>1, <3>1
      <4> QED
          BY <1>1, <4>1
    <3>2. CASE p.style = "Dynamic"
      <4>1. mmap.base + 1 \in Nat /\ current + d + p.guard \in Nat /\ current + d \in Nat
          BY <1>1
      <4> QED
          BY <2>1, <3>2, <4>1
    <3> QED
        BY <1>1, <3>1, <3>2
  <2>4. data' \in [0 .. MaxPages - 1 -> {0, 1}]
      BY <1>1, <2>1
  <2>5. vmdef' \in [base : Nat, length : Nat]
      BY <1>1, <2>1, <2>3
  <2>6. TypeOK'
      BY <1>1, <1>2, <2>2, <2>3, <2>4, <2>5 DEF Inv, TypeOK
  <2>7. \A q \in current' .. MaxPages - 1 : data'[q] = 0
      BY <1>1, <2>1 DEF Backed
  <2>8. mmap'.len = (IF p.style = "Static" THEN p.bound ELSE current') + p.guard
        /\ mmap'.accessible = current'
      BY <1>1, <2>1 DEF Backed
  <2> QED
      BY <1>1, <1>2, <2>1, <2>2, <2>6, <2>7, <2>8 DEF Inv, Backed
<1> QED
    BY <1>3, <1>4

LEMMA StoreInv ==
    ASSUME Inv, NEW q \in 0 .. MaxPages - 1, Store(q)
    PROVE  Inv'
<1>1. /\ state = "live" /\ Backed /\ q < current /\ q \in Nat /\ current \in Nat
      /\ data \in [0 .. MaxPages - 1 -> {0, 1}] /\ MaxPages \in Nat
    BY TunablesAssumption DEF Store, Inv, TypeOK, Backed, Pages
<1>2. data' \in [0 .. MaxPages - 1 -> {0, 1}]
    BY <1>1 DEF Store
<1>3. \A r \in current .. MaxPages - 1 : data'[r] = 0
    BY <1>1 DEF Store, Backed
<1> QED
    BY <1>1, <1>2, <1>3 DEF Store, Inv, TypeOK, Backed

LEMMA StepInv == Inv /\ [Next]_vars => Inv'
<1> SUFFICES ASSUME Inv, [Next]_vars PROVE Inv'
    OBVIOUS
<1>1. CASE \E l \in Limits, t \in {DefaultTunables, TargetTunables} : New(l, t)
    BY <1>1, NewInv
<1>2. CASE \E i \in Importer, s \in Holder, l \in Limits : Link(i, s, l)
    BY <1>2, LinkInv
<1>3. CASE \E d \in Pages, ok \in BOOLEAN : memory_grow(d, ok)
    BY <1>3, GrowInv
<1>4. CASE \E q \in 0 .. MaxPages - 1 : Store(q)
    BY <1>4, StoreInv
<1>5. CASE UNCHANGED vars
    BY <1>5 DEF vars, Inv, TypeOK, Backed
<1> QED
    BY <1>1, <1>2, <1>3, <1>4, <1>5 DEF Next

(* The inductive invariant holds of every reachable state. *)
THEOREM Invariance == Spec => []Inv
    BY InitInv, StepInv, PTL DEF Spec

-----------------------------------------------------------------------------

(* Every plan, size, reservation and page of contents keeps its type. *)
THEOREM TypeCorrect == Spec => []TypeOK
<1>1. Inv => TypeOK
    BY DEF Inv
<1> QED
    BY <1>1, Invariance, PTL

(* No assertion of for_memory, LinearMemory::new, link_module or of the     *)
(* mapping it grows into ever fails.                                        *)
THEOREM NeverPanics == Spec => []NoPanic
<1>1. Inv => NoPanic
    BY DEF Inv, NoPanic
<1> QED
    BY <1>1, Invariance, PTL

(* However long the chain of re-exports, the code of every importer reaches *)
(* no further than the reservation, and what it can reach beyond the pages  *)
(* of the memory is not accessible.                                         *)
THEOREM Containment == Spec => []AccessesContained
<1>1. Inv => AccessesContained
  <2> SUFFICES ASSUME Inv, state = "live" PROVE
          /\ vmdef = [base |-> mmap.base, length |-> current]
          /\ mmap.accessible = current
          /\ \A h \in Linked : Reach(plan[h]) <= mmap.len
      BY DEF AccessesContained
  <2>1. /\ plan[Owner] \in Plans /\ Backed /\ current \in Nat
        /\ IsPlan(plan[Owner], DefaultTunables) \/ IsPlan(plan[Owner], TargetTunables)
      BY TunablesAssumption DEF Inv, TypeOK, Holder, Pages
  <2>2. ASSUME NEW h \in Linked PROVE Reach(plan[h]) <= mmap.len
    <3>1. plan[h] \in Plans /\ h \in Holder /\ plan[h] # None
        BY <2>2 DEF Linked, Inv, TypeOK
    <3>2. vmdef.length = current
        BY <2>1 DEF Backed
    <3>3. CASE h = Owner
        BY <2>1, <3>2, <3>3 DEF Reach, Backed, Plans
    <3>4. CASE h \in Importer
      <4>1. /\ LinkAssertions(plan[Owner], plan[h])
            /\ plan[h].style = "Static" => plan[Owner].style = "Static"
          BY <2>1, <3>1, <3>4, CompatibleImpliesAssertions DEF Inv
      <4>2. plan[Owner].style = "Static" => current <= plan[Owner].bound
          BY <2>1, TunablesAssumption
          DEF Backed, IsPlan, PlanFor, Plans, Limits, Pages, Tunables
      <4> QED
          BY <2>1, <3>1, <3>2, <4>1, <4>2 DEF Reach, Backed, LinkAssertions, Plans
    <3> QED
        BY <3>1, <3>3, <3>4 DEF Holder
  <2> QED
      BY <2>1, <2>2 DEF Backed
<1> QED
    BY <1>1, Invariance, PTL

(* Every holder of the memory sees it within the limits it declared. *)
THEOREM DeclaredLimits == Spec => []WithinDeclaredLimits
<1>1. Inv => WithinDeclaredLimits
    BY TunablesAssumption
    DEF Inv, WithinDeclaredLimits, Backed, Linked, Holder, TypeOK, is_memory_compatible,
        Plans, Limits, Pages
<1> QED
    BY <1>1, Invariance, PTL

(* A memory does not move while code compiled for a fixed base can be linked *)
(* to it: an importer's Static plan implies that the owner's is Static.      *)
THEOREM FixedBase == Spec => StaticBaseIsFixed
<1> DEFINE A == (\E h \in Linked : plan[h].style = "Static") /\ state = "live"
                    => mmap'.base = mmap.base
<1>1. ASSUME Inv, [Next]_vars PROVE [A]_vars
  <2> SUFFICES ASSUME NEW h \in Linked, plan[h].style = "Static", state = "live", Next
               PROVE  mmap'.base = mmap.base
      BY <1>1
  <2>1. plan[Owner].style = "Static"
    <3>1. plan[h] \in Plans /\ plan[Owner] \in Plans /\ h \in Holder /\ plan[h] # None
        BY <1>1, TunablesAssumption DEF Linked, Inv, TypeOK, Holder
    <3>2. CASE h \in Importer
        BY <1>1, <3>1, <3>2, CompatibleImpliesAssertions DEF Inv
    <3> QED
        BY <3>1, <3>2 DEF Holder
  <2>2. mmap \in [base : Nat, len : Nat, accessible : Nat]
      BY <1>1 DEF Inv, TypeOK
  <2>3. ASSUME NEW d \in Pages, NEW ok \in BOOLEAN, memory_grow(d, ok)
        PROVE  mmap'.base = mmap.base
      BY <1>1, <2>1, <2>2, <2>3, GrowthSteps
  <2>4. CASE \E i \in Importer, s \in Holder, l \in Limits : Link(i, s, l)
      BY <2>4 DEF Link
  <2>5. CASE \E q \in 0 .. MaxPages - 1 : Store(q)
      BY <2>5 DEF Store
  <2> QED
      BY <2>3, <2>4, <2>5 DEF Next, New
<1> QED
    BY <1>1, Invariance, PTL DEF Spec, StaticBaseIsFixed

(* Growth loses no page, and adds pages that read as zero, whether the       *)
(* memory is extended in place or moved.                                     *)
THEOREM ContentsKept == Spec => GrowthKeepsContents
<1> DEFINE A == (state = "live" /\ current' # current)
                    => /\ current < current'
                       /\ \A p \in 0 .. current - 1 : data'[p] = data[p]
                       /\ \A p \in current .. current' - 1 : data'[p] = 0
<1>1. ASSUME Inv, [Next]_vars PROVE [A]_vars
  <2> SUFFICES ASSUME Next, state = "live", current' # current
               PROVE  /\ current < current'
                      /\ \A p \in 0 .. current - 1 : data'[p] = data[p]
                      /\ \A p \in current .. current' - 1 : data'[p] = 0
      BY <1>1
  <2>1. PICK d \in Pages, ok \in BOOLEAN : memory_grow(d, ok)
      BY DEF Next, New, Link, Store
  <2>2. /\ d > 0 /\ Growable(d) /\ ok /\ current' = current + d
        /\ plan[Owner].style = "Static" => data' = data
        /\ plan[Owner].style = "Dynamic" =>
               data' = [q \in DOMAIN data |-> IF q < current THEN data[q] ELSE 0]
      BY <1>1, <2>1, GrowthSteps
  <2>3. /\ data \in [0 .. MaxPages - 1 -> {0, 1}] /\ current \in Nat /\ d \in Nat
        /\ MaxPages \in Nat /\ plan[Owner].style \in {"Static", "Dynamic"}
        /\ \A q \in current .. MaxPages - 1 : data[q] = 0
        /\ current + d < MaxPages
      BY <1>1, <2>2, TunablesAssumption
      DEF Inv, TypeOK, Pages, Holder, Plans, Backed, Growable
  <2> QED
      BY <2>2, <2>3
<1> QED
    BY <1>1, Invariance, PTL DEF Spec, GrowthKeepsContents
=============================================================================
