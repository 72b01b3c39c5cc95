------------------------------- MODULE Traps -------------------------------
(***************************************************************************)
(* Calls of compiled code, and traps in it.  A call saves a jump buffer    *)
(* (setjmp) and makes it the thread's scope; compiled code may call a host *)
(* function, which may call compiled code in turn.  A trap raises a signal *)
(* whose handler records the trap and jumps to the scope's buffer, where   *)
(* the call returns the recorded trap as an error.                         *)
(*                                                                         *)
(* As a comment at CheckIfTrapAtAddress has it, host code called from      *)
(* compiled code does not fault.  A host function that returns an error    *)
(* makes its trampoline trap.                                              *)
(***************************************************************************)
EXTENDS Jit

CONSTANTS
    MaxFrames,     \* bound: calls and host functions on a thread's stack
    InstallFails   \* whether installing a signal handler may fail

ASSUME TrapsAssumption == MaxFrames \in Nat /\ InstallFails \in BOOLEAN

VARIABLES
    eager,      \* EAGER_INSTALL_STATE: "untried", "success" or "failed"
    handlers,   \* TRAP_CONTEXT of every thread: "untried", "have" or "none"
    callable,   \* the functions of a thread's instances
    frames,     \* the stack: calls [kind, at, via, size, prev], host functions
    jmp_buf,    \* JMP_BUF: which frame has the scope's buffer, 0 for none
    handling,   \* sAlreadyHandlingTrap
    recorded,   \* RECORDED_TRAP
    signal      \* the signal being handled: [pc, at, was]

trapVars == <<eager, handlers, callable, frames, jmp_buf, handling, recorded, signal>>
vars == <<jitVars, trapVars>>

NoSignal == [pc |-> "none", at |-> None, was |-> None]

Init ==
    /\ JitInit
    /\ eager = "untried"
    /\ handlers = [t \in Thread |-> "untried"]
    /\ callable = [t \in Thread |-> {}]
    /\ frames = [t \in Thread |-> << >>]
    /\ jmp_buf = [t \in Thread |-> 0]
    /\ handling = [t \in Thread |-> FALSE]
    /\ recorded = [t \in Thread |-> None]
    /\ signal = [t \in Thread |-> NoSignal]

Top(t) == frames[t][Len(frames[t])]
Pop(t) == SubSeq(frames[t], 1, Len(frames[t]) - 1)
InCall(t) == frames[t] # << >> /\ Top(t).kind = "call" /\ signal[t].pc = "none"
InHostFunction(t) == frames[t] # << >> /\ Top(t).kind = "host" /\ signal[t].pc = "none"

(* The thread runs the host's own code, at the bottom of the stack or in a *)
(* host function.                                                          *)
InHost(t) == (frames[t] = << >> /\ signal[t].pc = "none") \/ InHostFunction(t)

-----------------------------------------------------------------------------
(* Instances, as far as they need signal handlers *)

EnsureEagerSignalHandlers == {"success"} \cup (IF InstallFails THEN {"failed"} ELSE {})

(* wasmtime_init_eager: the first call installs them, for the process. *)
EagerOutcomes == IF eager = "untried" THEN EnsureEagerSignalHandlers ELSE {eager}

(* wasmtime_init_finish, on a thread's first instance. *)
InitHandlers(t) ==
    /\ eager' \in EagerOutcomes
    /\ handlers' = [handlers EXCEPT ![t] = IF @ # "untried" THEN @
                                          ELSE IF eager' = "success" THEN "have" ELSE "none"]

(* A thread's first instance that finds that installing has failed is made, *)
(* the later ones panic.  Every instance here needs the handlers, as those  *)
(* with a static memory do.                                                 *)
instantiate(t, a) ==
    /\ InHost(t) /\ JitIdle(t)
    /\ code[a] # None /\ code[a].kind = "wasm" /\ code[a].linked /\ maps[a[1]].owner = t
    /\ InitHandlers(t)
    /\ handlers[t] # "none"
    /\ callable' = [callable EXCEPT ![t] = @ \cup {a}]
    /\ UNCHANGED <<jitVars, frames, jmp_buf, handling, recorded, signal>>

(* The instance of a host function, which needs no handlers. *)
create_host_function(t, s) ==
    /\ InHost(t)
    /\ make_host_trampoline(t, s)
    /\ InitHandlers(t)
    /\ UNCHANGED <<callable, frames, jmp_buf, handling, recorded, signal>>

-----------------------------------------------------------------------------
(* Calls *)

Callable(t) ==
    callable[t] \cup {a \in Address : code[a] # None /\ code[a].kind = "host" /\ maps[a[1]].host = t}

(* Mutant: the previous scope is not saved. *)
EnterScopeForgetting(t) == 0

(* EnterScope's result, which the call keeps in prev. *)
EnterScope(t) == jmp_buf[t]

(* invoke, WasmtimeFn::call: wasmtime_call_trampoline up to the callee. *)
wasmtime_call_trampoline(t, a, size) ==
    /\ InHost(t) /\ JitIdle(t)
    /\ a \in Callable(t)
    /\ Len(frames[t]) < MaxFrames
    /\ \E tr \in Trampolines(t, a) :
           /\ get_published_trampoline(t, a, size, tr)
           /\ frames' = [frames EXCEPT ![t] = Append(@,
                  [kind |-> "call", at |-> a, via |-> tr, size |-> size, prev |-> EnterScope(t)])]
    /\ jmp_buf' = [jmp_buf EXCEPT ![t] = Len(frames[t]) + 1]
    /\ UNCHANGED <<eager, handlers, callable, handling, recorded, signal>>

(* The callee returns; LeaveScope(prev). *)
return(t) ==
    /\ InCall(t)
    /\ jmp_buf' = [jmp_buf EXCEPT ![t] = Top(t).prev]
    /\ frames' = [frames EXCEPT ![t] = Pop(t)]
    /\ UNCHANGED <<jitVars, eager, handlers, callable, handling, recorded, signal>>

(* stub_fn, called by compiled code. *)
stub_fn(t, a) ==
    /\ InCall(t)
    /\ Len(frames[t]) < MaxFrames
    /\ code[a] # None /\ code[a].kind = "host" /\ maps[a[1]].host = t
    /\ frames' = [frames EXCEPT ![t] = Append(@,
           [kind |-> "host", at |-> a, via |-> None, size |-> 0, prev |-> 0])]
    /\ UNCHANGED <<jitVars, eager, handlers, callable, jmp_buf, handling, recorded, signal>>

stub_fn_returns(t) ==
    /\ InHostFunction(t)
    /\ JitIdle(t)
    /\ frames' = [frames EXCEPT ![t] = Pop(t)]
    /\ UNCHANGED <<jitVars, eager, handlers, callable, jmp_buf, handling, recorded, signal>>

-----------------------------------------------------------------------------
(* Traps *)

Signal(t, a, was) == signal' = [signal EXCEPT ![t] = [pc |-> "raised", at |-> a, was |-> was]]

(* Compiled code executes the trap that the compiler put there, or exhausts *)
(* the stack, at an address without a description.                          *)
trap(t) ==
    /\ InCall(t)
    /\ \/ code[Top(t).at].kind = "wasm" /\ Signal(t, Top(t).at, code[Top(t).at].trap)
       \/ Signal(t, None, "overflow")
    /\ UNCHANGED <<jitVars, eager, handlers, callable, frames, jmp_buf, handling, recorded>>

(* stub_fn returns 1, and the trampoline that called it traps. *)
stub_fn_fails(t) ==
    /\ InHostFunction(t)
    /\ JitIdle(t)
    /\ frames' = [frames EXCEPT ![t] = Pop(t)]
    /\ Signal(t, Top(t).at, "user")
    /\ UNCHANGED <<jitVars, eager, handlers, callable, jmp_buf, handling, recorded>>

(* A fault of the host's, outside any call. *)
native_fault(t) ==
    /\ InHost(t) /\ frames[t] = << >>
    /\ JitIdle(t)
    /\ Signal(t, None, "native")
    /\ UNCHANGED <<jitVars, eager, handlers, callable, frames, jmp_buf, handling, recorded>>

Claim(claim, name) ==
    /\ Expect(claim, name)
    /\ UNCHANGED <<maps, current, code, park, guards, registry, jit>>

(* WasmTrapHandler: a signal while another is handled, or outside any call    *)
(* (CheckIfTrapAtAddress), goes to the handler that was there before, which   *)
(* ends the process; without WasmTrapHandler every signal does.               *)
IsTrap(t) == eager = "success" /\ ~handling[t] /\ jmp_buf[t] # 0

HandleTrap(t) ==
    /\ signal[t].pc = "raised"
    /\ IF IsTrap(t)
       THEN /\ handling' = [handling EXCEPT ![t] = TRUE]
            /\ signal' = [signal EXCEPT ![t].pc = "record"]
       ELSE /\ signal' = [signal EXCEPT ![t].pc = "forwarded"]
            /\ UNCHANGED handling
    /\ UNCHANGED <<jitVars, eager, handlers, callable, frames, jmp_buf, recorded>>

(* Mutant: the flag is left to the destructors that longjmp skips. *)
RecordTrapStillHandling(t) ==
    /\ signal[t].pc = "record"
    /\ Claim(recorded[t] = None, "RecordTrap")
    /\ recorded' = [recorded EXCEPT ![t] =
           IF signal[t].at # None /\ registry[signal[t].at] # None THEN registry[signal[t].at]
           ELSE "overflow"]
    /\ signal' = [signal EXCEPT ![t].pc = "unwind"]
    /\ UNCHANGED <<eager, handlers, callable, handling, frames, jmp_buf>>

(* RecordTrap: what has no description is a stack overflow. *)
RecordTrap(t) ==
    /\ signal[t].pc = "record"
    /\ Claim(recorded[t] = None, "RecordTrap")
    /\ recorded' = [recorded EXCEPT ![t] =
           IF signal[t].at # None /\ registry[signal[t].at] # None THEN registry[signal[t].at]
           ELSE "overflow"]
    /\ handling' = [handling EXCEPT ![t] = FALSE]
    /\ signal' = [signal EXCEPT ![t].pc = "unwind"]
    /\ UNCHANGED <<eager, handlers, callable, frames, jmp_buf>>

(* Unwind: the frames above the scope's call are gone; LeaveScope(prev). *)
Unwind(t) ==
    LET n == jmp_buf[t]
    IN  /\ signal[t].pc = "unwind"
        /\ frames' = [frames EXCEPT ![t] = SubSeq(@, 1, n - 1)]
        /\ jmp_buf' = [jmp_buf EXCEPT ![t] = frames[t][n].prev]
        /\ signal' = [signal EXCEPT ![t].pc = "message"]
        /\ UNCHANGED <<jitVars, eager, handlers, callable, handling, recorded>>

(* trap_message: the call's error. *)
trap_message(t) ==
    /\ signal[t].pc = "message"
    /\ Claim(recorded[t] # None, "trap_message")
    /\ recorded' = [recorded EXCEPT ![t] = None]
    /\ signal' = [signal EXCEPT ![t] = NoSignal]
    /\ UNCHANGED <<eager, handlers, callable, frames, jmp_buf, handling>>

-----------------------------------------------------------------------------

(* The code of a frame: its function and the trampoline it was called by. *)
OnStack(t) == UNION {{f.at, f.via} \ {None} : f \in {frames[t][n] : n \in DOMAIN frames[t]}}

Compile(t) ==
    /\ InHost(t)
    /\ \/ \E s \in Signature, d \in Trap[t] : compile(t, s, d)
       \/ register_traps(t)
       \/ link_module(t)
       \/ publish_compiled_code(t)
       \/ \E a \in Address : a \notin OnStack(t) /\ drop_host_function(t, a)
    /\ UNCHANGED trapVars

(* The compiler outlives the instances of its functions. *)
Drop(t) ==
    /\ InHost(t) /\ frames[t] = << >>
    /\ \/ drop_compiler(t) /\ callable' = [callable EXCEPT ![t] = {}]
       \/ deregister_trap(t) /\ UNCHANGED callable
       \/ free_code_memory(t) /\ UNCHANGED callable
    /\ UNCHANGED <<eager, handlers, frames, jmp_buf, handling, recorded, signal>>

Call(t) ==
    \/ \E a \in Address : instantiate(t, a)
    \/ \E s \in Signature : create_host_function(t, s)
    \/ \E a \in Address, size \in ValueSize : wasmtime_call_trampoline(t, a, size)
    \/ return(t)
    \/ \E a \in Address : stub_fn(t, a)
    \/ stub_fn_returns(t)

Trapping(t) ==
    \/ trap(t) \/ stub_fn_fails(t) \/ native_fault(t)
    \/ HandleTrap(t) \/ RecordTrap(t) \/ Unwind(t) \/ trap_message(t)

Running == \A t \in Thread : signal[t].pc # "forwarded"

Next == Running /\ \E t \in Thread : Compile(t) \/ Drop(t) \/ Call(t) \/ Trapping(t)

Spec == Init /\ [][Next]_vars

-----------------------------------------------------------------------------

(* The types; and the mapping a compiler writes code to is its own and not *)
(* executable.                                                             *)
TypeOK ==
    /\ current \in [Thread -> Map \cup {None}]
    /\ \A t \in Thread : current[t] # None =>
           maps[current[t]].owner = t /\ ~maps[current[t]].exec
    /\ park \in [Thread -> [Address -> Address \cup {None}]]
    /\ guards \in [Thread -> SUBSET Address]
    /\ registry \in [Address -> TrapCode \cup {None}]
    /\ callable \in [Thread -> SUBSET Address]
    /\ jmp_buf \in [Thread -> 0 .. MaxFrames]
    /\ handling \in [Thread -> BOOLEAN]
    /\ recorded \in [Thread -> TrapCode \cup {"overflow", None}]

(* None of the assertions fails: a trap is never registered twice at an     *)
(* address nor deregistered twice, relocations never go to executable       *)
(* memory, and there is one recorded trap exactly where one is expected,    *)
(* however compilers of several threads come and go.                        *)
NoAssertionFails == failure = "no"

(* The thread's scope is the innermost call on its stack, and nothing when  *)
(* there is none: a trap never jumps to a frame that has returned, and      *)
(* never skips a call.                                                      *)
ScopeIsInnermostCall ==
    \A t \in Thread : LET calls == {n \in DOMAIN frames[t] : frames[t][n].kind = "call"}
                      IN  IF calls = {} THEN jmp_buf[t] = 0
                          ELSE /\ jmp_buf[t] \in calls
                               /\ \A n \in calls : n <= jmp_buf[t]

(* A trap of a compiled function is reported with its own description, and  *)
(* is forwarded only if it was none: not when another thread's compiler has *)
(* the address next, nor after other traps of the thread.                   *)
TrapsReportedExactly ==
    \A t \in Thread :
        /\ signal[t].pc \in {"unwind", "message"} /\ signal[t].was # "user" =>
               recorded[t] = signal[t].was
        /\ signal[t].pc = "forwarded" /\ eager = "success" => signal[t].was = "native"

(* What a thread is executing is in memory, linked and executable. *)
RunsPublishedCode ==
    \A t \in Thread : \A a \in OnStack(t) :
        code[a] # None /\ code[a].linked /\ maps[a[1]].exec
=============================================================================
