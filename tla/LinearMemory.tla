---------------------------- MODULE LinearMemory ----------------------------
(***************************************************************************)
(* One WebAssembly linear memory: the plan that is drawn up for it         *)
(* (wasmtime-environ), the reservation that backs it and its growth        *)
(* (wasmtime-runtime), and the modules that import it, directly or through *)
(* the re-export of another importer (wasmtime-jit's linker).              *)
(*                                                                         *)
(* Sizes are in wasm pages: every bound and every guard of Tunables is a   *)
(* multiple of 64 KiB, and so of the host's page size.                     *)
(***************************************************************************)
EXTENDS Naturals

CONSTANTS
    MaxPages,          \* WASM_MAX_PAGES (65536)
    DefaultTunables,   \* Tunables::default(), used for memories the host makes
    TargetTunables,    \* target_tunables(), used for every compiled module
    Importer,          \* the modules that may import the memory
    Owner,             \* the instance that defines it
    None               \* Rust's None: no maximum, or not linked

Tunables == [bound : Nat, static_guard : Nat, dynamic_guard : Nat]

Pages == 0 .. MaxPages

(* A validated memory type: what a module declares, or imports. *)
Limits == {l \in [min : Pages, max : Pages \cup {None}] :
               l.max # None => l.min <= l.max}

(* MemoryStyle::for_memory and MemoryPlan::for_memory.  A Dynamic style *)
(* has no bound of its own.                                             *)
PlanFor(limits, tunables) ==
    IF limits.max # None /\ limits.max <= tunables.bound
    THEN [limits |-> limits, style |-> "Static", bound |-> tunables.bound,
          guard |-> tunables.static_guard]
    ELSE [limits |-> limits, style |-> "Dynamic", bound |-> 0,
          guard |-> tunables.dynamic_guard]

Plans == [limits : Limits, style : {"Static", "Dynamic"},
          bound : Nat, guard : Nat]

(* Windows only shrinks the defaults, and leaves the dynamic guard alone; *)
(* a guard is never empty and a static one is never the smaller.          *)
ASSUME TunablesAssumption ==
    /\ MaxPages \in Nat \ {0}
    /\ DefaultTunables \in Tunables
    /\ TargetTunables \in Tunables
    /\ TargetTunables.bound <= DefaultTunables.bound
    /\ TargetTunables.static_guard <= DefaultTunables.static_guard
    /\ TargetTunables.dynamic_guard = DefaultTunables.dynamic_guard
    /\ 0 < TargetTunables.dynamic_guard
    /\ TargetTunables.dynamic_guard <= TargetTunables.static_guard
    /\ Owner \notin Importer
    /\ None \notin Nat /\ None \notin Plans

(* Mutant: only the minimum is compared. *)
CompatibleByMinimum(e, i) == i.limits.min <= e.limits.min

(* Whether an export of plan e may satisfy an import of plan i. *)
is_memory_compatible(e, i) ==
    /\ i.limits.min <= e.limits.min
    /\ i.limits.max # None =>
           e.limits.max # None /\ i.limits.max >= e.limits.max

(* The assertions link_module makes of a compatible pair. *)
LinkAssertions(e, i) ==
    /\ (e.style = "Static" /\ i.style = "Static") => e.bound >= i.bound
    /\ e.guard >= i.guard

VARIABLES
    state,     \* "none", "live", or "panicked" once an assertion has failed
    plan,      \* plan[h]: what instance h believes about the memory
    current,   \* LinearMemory::current
    mmap,      \* the reservation: its base, its length, the accessible prefix
    data,      \* one value per page: 0 as mapped, 1 once stored to
    vmdef      \* the VMMemoryDefinition compiled code reads

vars == <<state, plan, current, mmap, data, vmdef>>

Holder == Importer \cup {Owner}

Linked == {h \in Holder : plan[h] # None}

Zeroed == [p \in 0 .. MaxPages - 1 |-> 0]

(* accessible_reserved: its one assertion that depends on the request. *)
Reservable(accessible, mapping) == accessible <= mapping

(* make_accessible's assertions on the range it is given.  Both are strict. *)
ProtectAssertions(start, len) ==
    /\ len < mmap.len
    /\ start < mmap.len - len

(* LinearMemory::vmmemory *)
vmmemory(m, pages) == [base |-> m.base, length |-> pages]

Init ==
    /\ state = "none"
    /\ plan = [h \in Holder |-> None]
    /\ current = 0
    /\ mmap = [base |-> 0, len |-> 0, accessible |-> 0]
    /\ data = Zeroed
    /\ vmdef = [base |-> 0, length |-> 0]

(* LinearMemory::new, called with a plan the host or a compiled module drew *)
(* up, and the VMMemoryDefinition that InstanceHandle::new takes from it.   *)
New(limits, tunables) ==
    LET p == PlanFor(limits, tunables)
        minimum == IF p.style = "Static" THEN p.bound ELSE limits.min
        request == minimum + p.guard
        m == [base |-> 1, len |-> request, accessible |-> limits.min]
    IN  /\ state = "none"
        /\ plan' = [plan EXCEPT ![Owner] = p]
        /\ IF limits.min <= minimum /\ Reservable(limits.min, request)
           THEN /\ state' = "live"
                /\ mmap' = m
                /\ current' = limits.min
                /\ vmdef' = vmmemory(m, limits.min)
           ELSE /\ state' = "panicked"
                /\ UNCHANGED <<mmap, current, vmdef>>
        /\ UNCHANGED data

(* link_module's memory imports: module i resolves its import to the export *)
(* of s.  A re-export carries the re-exporter's own plan, not the owner's.  *)
(* An incompatible import is a LinkError and changes nothing.               *)
Link(i, s, limits) ==
    LET p == PlanFor(limits, TargetTunables)
    IN  /\ state = "live"
        /\ plan[i] = None
        /\ s \in Linked
        /\ is_memory_compatible(plan[s], p)
        /\ IF LinkAssertions(plan[s], p)
           THEN plan' = [plan EXCEPT ![i] = p] /\ UNCHANGED state
           ELSE state' = "panicked" /\ UNCHANGED plan
        /\ UNCHANGED <<current, mmap, data, vmdef>>

(* Mutant: one of the two refusals is missing. *)
GrowableWithoutMaximum(delta) == current + delta < MaxPages

(* The pages a growth must reach, and the refusals of LinearMemory::grow. *)
Growable(delta) ==
    LET new_pages == current + delta
    IN  /\ plan[Owner].limits.max # None => new_pages <= plan[Owner].limits.max
        /\ new_pages < MaxPages

(* Mutants: the new mapping has no guard; the contents are not copied. *)
MoveWithoutGuard(new_pages) ==
    /\ mmap' = [base |-> mmap.base + 1, len |-> new_pages, accessible |-> new_pages]
    /\ UNCHANGED <<data, state>>
MoveWithoutCopy(new_pages) ==
    /\ mmap' = [base |-> mmap.base + 1, len |-> new_pages + plan[Owner].guard,
                accessible |-> new_pages]
    /\ data' = Zeroed
    /\ UNCHANGED state

(* The branch that needs more than is reserved: map afresh and copy. *)
Move(new_pages) ==
    LET copy_len == mmap.len - plan[Owner].guard
    IN  /\ mmap' = [base |-> mmap.base + 1,
                    len |-> new_pages + plan[Owner].guard,
                    accessible |-> new_pages]
        /\ data' = [p \in DOMAIN data |-> IF p < copy_len THEN data[p] ELSE 0]
        /\ UNCHANGED state

(* Mutant: every growth maps afresh. *)
MoveAlways(delta) == Move(current + delta)

(* The branch that has the pages reserved already: unprotect them. *)
Unprotect(delta) ==
    /\ IF ProtectAssertions(current, delta)
       THEN mmap' = [mmap EXCEPT !.accessible = current + delta] /\ UNCHANGED state
       ELSE state' = "panicked" /\ UNCHANGED mmap
    /\ UNCHANGED data

(* Instance::memory_grow, reached from the owner or, through the import's *)
(* vmctx, from an importer; the definition is refreshed whatever happens. *)
(* The host may refuse the mapping or the protection (ok = FALSE).        *)
memory_grow(delta, ok) ==
    LET new_pages == current + delta
        grows == delta > 0 /\ Growable(delta) /\ ok
    IN  /\ state = "live"
        /\ IF grows
           THEN /\ IF new_pages > mmap.len - plan[Owner].guard
                   THEN Move(new_pages) ELSE Unprotect(delta)
                /\ current' = new_pages
           ELSE UNCHANGED <<mmap, data, state, current>>
        /\ vmdef' = vmmemory(mmap', current')
        /\ UNCHANGED plan

(* A store of compiled code that passed its bounds check. *)
Store(p) ==
    /\ state = "live"
    /\ p < vmdef.length
    /\ data' = [data EXCEPT ![p] = 1]
    /\ UNCHANGED <<state, plan, current, mmap, vmdef>>

Next ==
    \/ \E l \in Limits, t \in {DefaultTunables, TargetTunables} : New(l, t)
    \/ \E i \in Importer, s \in Holder, l \in Limits : Link(i, s, l)
    \/ \E d \in Pages, ok \in BOOLEAN : memory_grow(d, ok)
    \/ \E p \in 0 .. MaxPages - 1 : Store(p)

Spec == Init /\ [][Next]_vars

-----------------------------------------------------------------------------

TypeOK ==
    /\ state \in {"none", "live", "panicked"}
    /\ plan \in [Holder -> Plans \cup {None}]
    /\ current \in Pages
    /\ mmap \in [base : Nat, len : Nat, accessible : Nat]
    /\ data \in [0 .. MaxPages - 1 -> {0, 1}]
    /\ vmdef \in [base : Nat, length : Nat]

(* None of the assertions of for_memory, LinearMemory::new, link_module,   *)
(* accessible_reserved and make_accessible can fail, whatever is declared, *)
(* linked and grown.                                                       *)
NoPanic == state # "panicked"

(* How far past the base the code compiled against plan p can reach: up to *)
(* the limit its bounds check compares with, and a guard further.          *)
Reach(p) == (IF p.style = "Static" THEN p.bound ELSE vmdef.length) + p.guard

(* Whatever plan an instance compiled its accesses against (its own, which *)
(* is not the owner's), everything they can reach lies in the reservation  *)
(* they are based at, of which exactly the current pages are accessible:   *)
(* an access is in bounds or it faults.                                    *)
AccessesContained ==
    state = "live" =>
        /\ vmdef = [base |-> mmap.base, length |-> current]
        /\ mmap.accessible = current
        /\ \A h \in Linked : Reach(plan[h]) <= mmap.len

(* Every instance that holds the memory, however it came by it, sees it    *)
(* between the minimum and the maximum that it declared for its import.    *)
WithinDeclaredLimits ==
    state = "live" =>
        \A h \in Linked :
            /\ plan[h].limits.min <= current
            /\ plan[h].limits.max # None => current <= plan[h].limits.max

(* Code compiled against a Static plan loads the base once (make_heap marks *)
(* it read-only), so the memory may not move while such code is linked.     *)
StaticBaseIsFixed ==
    [][(\E h \in Linked : plan[h].style = "Static") /\ state = "live"
            => mmap'.base = mmap.base]_vars

(* Growth neither shrinks the memory nor loses a page of it, and the pages *)
(* it adds read as zero.                                                   *)
GrowthKeepsContents ==
    [][(state = "live" /\ current' # current)
            => /\ current < current'
               /\ \A p \in 0 .. current - 1 : data'[p] = data[p]
               /\ \A p \in current .. current' - 1 : data'[p] = 0]_vars
=============================================================================
