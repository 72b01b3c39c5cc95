-------------------------------- MODULE Jit --------------------------------
(***************************************************************************)
(* A JIT compiler per thread: the memory it puts code in, the traps it     *)
(* registers for that code in a registry all threads share, and the        *)
(* trampolines it makes to call functions.  A host function has a          *)
(* trampoline too, with a code memory of its own that its instance owns.   *)
(*                                                                         *)
(* A mapping holds MapSize pieces of code of one size; the operating       *)
(* system may give a new mapping the address of one that was freed.  A     *)
(* module has one function with one trap.                                  *)
(***************************************************************************)
EXTENDS Naturals, Sequences, FiniteSets

CONSTANTS
    Thread,
    Map,           \* addresses a mapping can have
    MapSize,       \* pieces of code a mapping has room for
    Signature,
    ValueSize,     \* bytes for each value of values_vec: of API calls, of invoke
    Trap,          \* the descriptions of traps in what each thread compiles
    None

TrapCode == UNION {Trap[t] : t \in Thread}

ASSUME JitAssumption ==
    /\ MapSize \in Nat \ {0}
    /\ DOMAIN Trap = Thread
    /\ None \notin Thread \cup Map \cup Signature \cup TrapCode
    /\ "overflow" \notin TrapCode

Address == Map \X (1 .. MapSize)

VARIABLES
    maps,       \* the mappings: [owner, host, used, exec], or None
    current,    \* CodeMemory::current of every thread's compiler
    code,       \* what is at an address: [kind, sig, trap, linked, size], or None
    park,       \* Compiler::trampoline_park
    guards,     \* Compiler::trap_registration_guards
    registry,   \* TrapRegistry::traps, of the process
    jit,        \* what each thread's compiler is doing: [pc, at]
    failure     \* the first assertion that failed, or "no"

jitVars == <<maps, current, code, park, guards, registry, jit, failure>>

JitInit ==
    /\ maps = [m \in Map |-> None]
    /\ current = [t \in Thread |-> None]
    /\ code = [a \in Address |-> None]
    /\ park = [t \in Thread |-> [a \in Address |-> None]]
    /\ guards = [t \in Thread |-> {}]
    /\ registry = [a \in Address |-> None]
    /\ jit = [t \in Thread |-> [pc |-> "idle", at |-> None]]
    /\ failure = "no"

Expect(claim, name) == failure' = IF failure = "no" /\ ~claim THEN name ELSE failure

JitIdle(t) == jit[t].pc = "idle"

-----------------------------------------------------------------------------
(* CodeMemory *)

Room(t) == current[t] # None /\ maps[current[t]].used < MapSize

(* CodeMemory::allocate: room in the current mapping, or a new mapping that *)
(* becomes current.                                                         *)
Allocations(t) ==
    IF Room(t) THEN {<<current[t], maps[current[t]].used + 1>>}
    ELSE {<<m, 1>> : m \in {n \in Map : maps[n] = None}}

Allocated(t, a) ==
    [maps EXCEPT ![a[1]] = [owner |-> t, host |-> FALSE, used |-> a[2], exec |-> FALSE]]

(* CodeMemory::publish: every mapping of the compiler is executable, and no *)
(* mapping is current any more, so that none of them is written again.      *)
Published(t, ms) ==
    [m \in Map |-> IF ms[m] # None /\ ms[m].owner = t THEN [ms[m] EXCEPT !.exec = TRUE]
                   ELSE ms[m]]

-----------------------------------------------------------------------------
(* RawCompiledModule::new *)

compile(t, s, d) ==
    /\ JitIdle(t)
    /\ \E a \in Allocations(t) :
           /\ maps' = Allocated(t, a)
           /\ current' = [current EXCEPT ![t] = a[1]]
           /\ code' = [code EXCEPT ![a] =
                  [kind |-> "wasm", sig |-> s, trap |-> d, linked |-> FALSE, size |-> None]]
           /\ jit' = [jit EXCEPT ![t] = [pc |-> "register", at |-> a]]
    /\ UNCHANGED <<park, guards, registry, failure>>

(* register_traps, under the registry's lock. *)
register_traps(t) ==
    LET a == jit[t].at
    IN  /\ jit[t].pc = "register"
        /\ Expect(registry[a] = None, "register_trap")
        /\ registry' = [registry EXCEPT ![a] = code[a].trap]
        /\ guards' = [guards EXCEPT ![t] = @ \cup {a}]
        /\ jit' = [jit EXCEPT ![t].pc = "link"]
        /\ UNCHANGED <<maps, current, code, park>>

(* link_module: relocations are applied to the code; or a LinkError, and the *)
(* code stays as it is until the compiler is dropped.                        *)
link_module(t) ==
    LET a == jit[t].at
    IN  /\ jit[t].pc = "link"
        /\ \/ /\ Expect(~maps[a[1]].exec, "relocate")
              /\ code' = [code EXCEPT ![a].linked = TRUE]
              /\ jit' = [jit EXCEPT ![t].pc = "publish"]
           \/ /\ jit' = [jit EXCEPT ![t] = [pc |-> "idle", at |-> None]]
              /\ UNCHANGED <<code, failure>>
        /\ UNCHANGED <<maps, current, park, guards, registry>>

publish_compiled_code(t) ==
    /\ jit[t].pc = "publish"
    /\ maps' = Published(t, maps)
    /\ current' = [current EXCEPT ![t] = None]
    /\ jit' = [jit EXCEPT ![t] = [pc |-> "idle", at |-> None]]
    /\ UNCHANGED <<code, park, guards, registry, failure>>

-----------------------------------------------------------------------------
(* Trampolines *)

(* get_trampoline: the one that is parked for the callee's address, *)
(* whatever it was made for, or a new one.                           *)
Trampolines(t, a) ==
    IF park[t][a] # None THEN {park[t][a]} ELSE Allocations(t)

(* Mutant: a parked trampoline is thought to be published, and so a new one *)
(* is not.                                                                   *)
GetTrampolineOnly(t, a, size, tr) ==
    /\ tr \in Trampolines(t, a)
    /\ \/ /\ park[t][a] = None
          /\ maps' = Allocated(t, tr)
          /\ code' = [code EXCEPT ![tr] = [kind |-> "trampoline", sig |-> code[a].sig,
                                           trap |-> None, linked |-> TRUE, size |-> size]]
          /\ park' = [park EXCEPT ![t][a] = tr]
          /\ current' = [current EXCEPT ![t] = tr[1]]
       \/ /\ park[t][a] # None
          /\ UNCHANGED <<maps, code, park, current>>
    /\ UNCHANGED <<guards, registry, jit, failure>>

(* get_published_trampoline *)
get_published_trampoline(t, a, size, tr) ==
    /\ tr \in Trampolines(t, a)
    /\ \/ /\ park[t][a] = None
          /\ maps' = Published(t, Allocated(t, tr))
          /\ code' = [code EXCEPT ![tr] = [kind |-> "trampoline", sig |-> code[a].sig,
                                           trap |-> None, linked |-> TRUE, size |-> size]]
          /\ park' = [park EXCEPT ![t][a] = tr]
       \/ /\ park[t][a] # None
          /\ maps' = Published(t, maps)
          /\ UNCHANGED <<code, park>>
    /\ current' = [current EXCEPT ![t] = None]
    /\ UNCHANGED <<guards, registry, jit, failure>>

(* create_handle_with_function: its trap, User(0), is not registered. *)
make_host_trampoline(t, s) ==
    /\ JitIdle(t)
    /\ \E m \in Map :
           /\ maps[m] = None
           /\ maps' = [maps EXCEPT ![m] = [owner |-> None, host |-> t, used |-> 1, exec |-> TRUE]]
           /\ code' = [code EXCEPT ![<<m, 1>>] =
                  [kind |-> "host", sig |-> s, trap |-> None, linked |-> TRUE, size |-> None]]
    /\ UNCHANGED <<current, park, guards, registry, jit, failure>>

(* The last handle to the host function's instance is dropped. *)
drop_host_function(t, a) ==
    /\ JitIdle(t)
    /\ code[a] # None /\ code[a].kind = "host" /\ maps[a[1]].host = t
    /\ maps' = [maps EXCEPT ![a[1]] = None]
    /\ code' = [code EXCEPT ![a] = None]
    /\ UNCHANGED <<current, park, guards, registry, jit, failure>>

-----------------------------------------------------------------------------
(* Drop for Compiler *)

drop_compiler(t) ==
    /\ JitIdle(t)
    /\ \E m \in Map : maps[m] # None /\ maps[m].owner = t
    /\ jit' = [jit EXCEPT ![t] = [pc |-> "deregister", at |-> None]]
    /\ UNCHANGED <<maps, current, code, park, guards, registry, failure>>

(* Drop for TrapRegistrationGuard, under the registry's lock. *)
deregister_trap(t) ==
    /\ jit[t].pc = "deregister"
    /\ \E a \in guards[t] :
           /\ Expect(registry[a] # None, "deregister_trap")
           /\ registry' = [registry EXCEPT ![a] = None]
           /\ guards' = [guards EXCEPT ![t] = @ \ {a}]
    /\ UNCHANGED <<maps, current, code, park, jit>>

(* Mutant: the fields are dropped in order, code memory first. *)
FreeBeforeDeregistering(t) == jit[t].pc = "deregister"

(* The memory goes after the last of the guards. *)
Deregistered(t) == jit[t].pc = "deregister" /\ guards[t] = {}

free_code_memory(t) ==
    /\ Deregistered(t)
    /\ maps' = [m \in Map |-> IF maps[m] # None /\ maps[m].owner = t THEN None ELSE maps[m]]
    /\ code' = [a \in Address |-> IF maps[a[1]] # None /\ maps[a[1]].owner = t THEN None
                                  ELSE code[a]]
    /\ current' = [current EXCEPT ![t] = None]
    /\ park' = [park EXCEPT ![t] = [a \in Address |-> None]]
    /\ jit' = [jit EXCEPT ![t].pc = IF guards[t] = {} THEN "idle" ELSE "deregister"]
    /\ UNCHANGED <<guards, registry, failure>>
=============================================================================
