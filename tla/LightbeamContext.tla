-------------------------- MODULE LightbeamContext --------------------------
(***************************************************************************)
(* Lightbeam's backend: the Context that a function is compiled in, and    *)
(* the machine its code runs on.  While compiling, the Context knows a     *)
(* location for every value on the Microwasm stack; here a step also does  *)
(* to the registers, the stack and the flags what the instructions it      *)
(* emits will do, so that the two can be compared.                         *)
(*                                                                         *)
(* A context c has                                                         *)
(*     stack, uses, depth      block_state: the locations, the usage       *)
(*                             counts of the registers, the words pushed   *)
(*     reg, mem, flags         what the machine holds, as tokens; 0 is     *)
(*                             anything                                    *)
(*     tested                  the value that a branch or an indirect call *)
(*                             last went by, or that was stored in a       *)
(*                             global                                      *)
(*     panic                   whether an assertion of the compiler failed *)
(* Only integer registers are modelled, and parameters fit into them.      *)
(***************************************************************************)
EXTENDS Integers, SequencesExt

CONSTANTS
    Scratch,        \* SCRATCH_REGS, the numbers of the registers
    IntegerArgs,    \* INTEGER_ARGS_IN_GPRS
    ReturnReg,      \* the first of INTEGER_RETURN_GPRS
    MaxDepth        \* bound: words on the machine's stack between two operators

\* the words that one operator may push besides
Slots == 1..MaxDepth + Cardinality(Scratch) + 3

Reg(r) == [at |-> "reg", n |-> r]
Stack(k) == [at |-> "stack", n |-> k]      \* k words below the frame's start
Imm(t) == [at |-> "imm", n |-> t]
Cond == [at |-> "cond", n |-> 0]

NoReg == -1
IsReg(l) == l.at = "reg"

Content(c, l) ==
    CASE l.at = "reg" -> c.reg[l.n]
      [] l.at = "stack" -> c.mem[l.n]
      [] l.at = "imm" -> l.n
      [] l.at = "cond" -> c.flags

-----------------------------------------------------------------------------
(* Registers.  A register is free when nothing uses it.                    *)
is_free(c, r) == c.uses[r] = 0
num_usages(c, r) == c.uses[r]
mark_used(c, r) == [c EXCEPT !.uses[r] = @ + 1]

\* "Double-freed register"
release(c, r) ==
    IF c.uses[r] = 0 THEN [c EXCEPT !.panic = TRUE] ELSE [c EXCEPT !.uses[r] = @ - 1]

free_value(c, l) == IF IsReg(l) THEN release(c, l.n) ELSE c

CountUses(locs) == [r \in Scratch |-> Cardinality({i \in DOMAIN locs : locs[i] = Reg(r)})]

-----------------------------------------------------------------------------
(* Moving values.  A slot is addressed relative to the stack pointer, so   *)
(* an offset that was computed before a push means another slot after it.  *)
adjusted_offset(c, k) == c.depth - k
SlotAt(c, offset) == c.depth - offset

PushWord(c, t) == [c EXCEPT !.mem[c.depth + 1] = t, !.depth = @ + 1]

(* push_physical of a register: its value is pushed, and the use is gone.  *)
PushReg(c, r) == release(PushWord(c, c.reg[r]), r)

(* Spills the lowest register on the stack, wherever else it is in use.    *)
free_reg(c) ==
    LET pos == CHOOSE p \in DOMAIN c.stack : IsReg(c.stack[p]) /\ \A q \in 1..p - 1 : ~IsReg(c.stack[q])
        old == c.stack[pos]
        pushed == PushReg(c, old.n)
        others == {p \in pos + 1..Len(c.stack) : c.stack[p] = old}
    IN  [pushed EXCEPT
            !.stack = [p \in DOMAIN @ |-> IF p \in others \cup {pos} THEN Stack(pushed.depth) ELSE @[p]],
            !.uses[old.n] = @ - Cardinality(others)]

Free(c) == {r \in Scratch : is_free(c, r)}

RECURSIVE take_reg(_)
take_reg(c) ==
    IF Free(c) # {}
    THEN LET r == CHOOSE r \in Free(c) : \A s \in Free(c) : r <= s
         IN  [c |-> mark_used(c, r), r |-> r]
    ELSE IF \A p \in DOMAIN c.stack : ~IsReg(c.stack[p]) THEN [c |-> c, r |-> NoReg]
    ELSE take_reg(free_reg(c))

(* Between two slots a value goes through a register, which may have to be *)
(* spilled first, or else through one that is saved around the move.       *)
Through(t, in, out) ==
    LET v == t.c.mem[SlotAt(t.c, in)]
    IN  IF t.r = NoReg THEN [t.c EXCEPT !.mem[SlotAt(t.c, out)] = v]
        ELSE release([t.c EXCEPT !.reg[t.r] = v, !.mem[SlotAt(t.c, out)] = v], t.r)

copy_value(c, src, dst) ==
    IF src = dst THEN c
    ELSE IF IsReg(dst) THEN [c EXCEPT !.reg[dst.n] = Content(c, src)]
    ELSE IF src.at = "stack"
    THEN Through(take_reg(c), adjusted_offset(c, src.n), adjusted_offset(c, dst.n))
    ELSE [c EXCEPT !.mem[dst.n] = Content(c, src)]

(* These yield [c, r]: the value is in the register r, or nowhere new if   *)
(* there is none.  A temporary register is used by nothing else.           *)
Loaded(t, l) ==
    IF t.r = NoReg THEN t ELSE [t EXCEPT !.c.reg[t.r] = Content(t.c, l)]

to_reg(c, l) ==
    IF IsReg(l) THEN [c |-> mark_used(c, l.n), r |-> l.n] ELSE Loaded(take_reg(c), l)

to_temp_reg(c, l) ==
    IF IsReg(l) /\ num_usages(c, l.n) > 1 THEN Loaded(take_reg(c), l) ELSE to_reg(c, l)

into(t, l) == IF t.r = NoReg THEN t ELSE [c |-> free_value(t.c, l), r |-> t.r]
into_reg(c, l) == into(to_reg(c, l), l)
into_temp_reg(c, l) == into(to_temp_reg(c, l), l)

(* Yields [c, l].  The new slot's offset is computed first: it is another  *)
(* slot if a register is spilled to push the value.  Without a register,   *)
(* rax is pushed and the value written at that offset, which is now one    *)
(* word below the stack pointer.                                           *)
Pushed(t, l, out) ==
    IF t.r # NoReg THEN PushReg(t.c, t.r)
    ELSE [PushWord(t.c, t.c.reg[ReturnReg]) EXCEPT !.mem[out + 1] = Content(t.c, l)]

push_physical(c, l) ==
    [c |-> IF l.at = "stack" THEN PushWord(c, c.mem[l.n]) ELSE Pushed(into_reg(c, l), l, c.depth + 1),
     l |-> Stack(c.depth + 1)]

Temporary(t, l) ==
    IF t.r = NoReg THEN push_physical(t.c, l) ELSE [c |-> t.c, l |-> Reg(t.r)]

into_temp_loc(c, l) == Temporary(into_temp_reg(c, l), l)

-----------------------------------------------------------------------------
(* The stack of locations.  A condition code is put into a register when   *)
(* something is pushed on it.                                              *)
TopOf(c) == Last(c.stack)

Popped(c) == IF c.stack = <<>> THEN [c EXCEPT !.panic = TRUE] ELSE [c EXCEPT !.stack = Front(@)]

Over(t, l) ==
    IF t.r = NoReg THEN [t.c EXCEPT !.panic = TRUE] ELSE [t.c EXCEPT !.stack = @ \o <<Reg(t.r), l>>]

push(c, l) ==
    IF c.stack # <<>> /\ TopOf(c) = Cond
    THEN Over(into_reg(Popped(c), Cond), l)
    ELSE [c EXCEPT !.stack = Append(@, l)]

const_(c, new) == push(c, Imm(new))

pick(c, d) ==
    LET l == c.stack[Len(c.stack) - d]
    IN  [(IF IsReg(l) THEN mark_used(c, l.n) ELSE c) EXCEPT !.stack = Append(@, l)]

swap(c, d) ==
    LET last == Len(c.stack)
    IN  [c EXCEPT !.stack = [@ EXCEPT ![last] = c.stack[last - d], ![last - d] = c.stack[last]]]

(* The elements above the range are pushed again.                          *)
drop(c, range) ==
    LET len == Len(c.stack)
        above == SubSeq(c.stack, len - range[1] + 1, len)
        dropped == SubSeq(c.stack, len - range[2], len - range[1])
        below == [c EXCEPT !.stack = SubSeq(@, 1, len - range[2] - 1)]
    IN  FoldLeft(push, FoldLeft(free_value, below, dropped), above)

-----------------------------------------------------------------------------
(* Operators.  new is the value that comes out.                            *)
Releasing(t, r) == [t EXCEPT !.c = release(@, r)]

Finished(t) == IF t.r = NoReg THEN t.c ELSE release(t.c, t.r)

(* The operand that is only read: it stays where it is unless it is in a   *)
(* register or the flags.                                                  *)
Operand(c, l) == IF IsReg(l) \/ l = Cond THEN into_reg(c, l) ELSE [c |-> c, r |-> NoReg]

(* commutative_binop: two constants are folded; otherwise the left operand *)
(* is overwritten, unless only the right one is in a register.             *)
BinOp(t, r, new) ==
    IF t.r = NoReg THEN [t.c EXCEPT !.panic = TRUE]
    ELSE push([Finished(Operand(t.c, r)) EXCEPT !.reg[t.r] = new, !.flags = 0], Reg(t.r))

add(c, new) ==
    LET right == TopOf(c)
        left == TopOf(Popped(c))
        rest == Popped(Popped(c))
        keep == IsReg(left) \/ right.at = "imm"
    IN  IF left.at = "imm" /\ right.at = "imm" THEN [rest EXCEPT !.stack = Append(@, Imm(new))]
        ELSE BinOp(into_temp_reg(rest, IF keep THEN left ELSE right), IF keep THEN right ELSE left, new)

(* cmp_i32: the result is a condition code.                                *)
Compared(l, r, new) == push([Finished([r |-> l.r, c |-> Finished(r)]) EXCEPT !.flags = new], Cond)
Compare(l, right, new) == Compared(l, Operand(l.c, right), new)

eq(c, new) ==
    LET right == TopOf(c)
        left == TopOf(Popped(c))
        rest == Popped(Popped(c))
    IN  IF left.at = "imm" /\ right.at = "imm" THEN push(rest, Imm(new))
        ELSE Compare(IF left.at = "imm" THEN [c |-> rest, r |-> NoReg] ELSE into_reg(rest, left), right, new)

(* Globals.  That of another instance is reached through a register.       *)
Got(t, new) ==
    IF t.r = NoReg THEN [t.c EXCEPT !.panic = TRUE]
    ELSE push([t.c EXCEPT !.reg[t.r] = new], Reg(t.r))

GotThrough(a, new) ==
    IF a.r = NoReg THEN [a.c EXCEPT !.panic = TRUE] ELSE Got(Releasing(take_reg(a.c), a.r), new)

get_global(c, imported, new) ==
    IF imported THEN GotThrough(take_reg(c), new) ELSE Got(take_reg(c), new)

SetFrom(t) ==
    IF t.r = NoReg THEN [t.c EXCEPT !.panic = TRUE]
    ELSE release([t.c EXCEPT !.tested = t.c.reg[t.r]], t.r)

SetThrough(a, l) ==
    IF a.r = NoReg THEN [a.c EXCEPT !.panic = TRUE] ELSE SetFrom(Releasing(into_reg(a.c, l), a.r))

set_global(c, imported) ==
    IF imported THEN SetThrough(take_reg(Popped(c)), TopOf(c))
    ELSE SetFrom(into_reg(Popped(c), TopOf(c)))

-----------------------------------------------------------------------------
(* Block arguments.  A convention is [depth, args].                        *)
PoppedInto(t, depth) ==
    IF t.r = NoReg THEN [t.c EXCEPT !.depth = depth]
    ELSE release([t.c EXCEPT !.reg[t.r] = 0, !.depth = depth], t.r)

set_stack_depth(c, depth) ==
    IF depth = c.depth - 1 THEN PoppedInto(take_reg(c), depth) ELSE [c EXCEPT !.depth = depth]

(* The registers that hold elements of the stack are pushed.               *)
save_regs(c, regs) ==
    LET Save(x, i) ==
            LET old == x.locs[i]
                same == {j \in i + 1..Len(x.locs) : x.locs[j] = old}
                p == PushReg(x.c, old.n)
            IN  IF IsReg(old) /\ old.n \in regs
                THEN [c |-> [p EXCEPT !.uses[old.n] = @ - Cardinality(same)],
                      locs |-> [j \in DOMAIN x.locs |-> IF j \in same \cup {i} THEN Stack(p.depth)
                                                        ELSE x.locs[j]]]
                ELSE x
        saved == FoldLeft(Save, [c |-> [c EXCEPT !.stack = <<>>], locs |-> c.stack],
                          [i \in DOMAIN c.stack |-> i])
    IN  [saved.c EXCEPT !.stack = saved.locs]

pop_into(c, dst) == free_value(copy_value(Popped(c), TopOf(c), dst), TopOf(c))

(* Mutant: a register that still holds another value is overwritten. *)
PassOverwriting(c, args) ==
    LET n == IF Len(args) < Len(c.stack) THEN Len(args) ELSE Len(c.stack)
        Pass(x, dst) == pop_into(IF IsReg(dst) THEN mark_used(x, dst.n) ELSE x, dst)
    IN  FoldLeft(Pass, c, SubSeq(Reverse(args), 1, n))

do_pass_block_args(c, args) ==
    LET n == IF Len(args) < Len(c.stack) THEN Len(args) ELSE Len(c.stack)
        Pass(x, dst) ==
            LET taken == IsReg(dst) /\ ~is_free(x, dst.n) /\ TopOf(x) # dst
                y == IF taken THEN save_regs(x, {dst.n}) ELSE x
            IN  pop_into(IF IsReg(dst) THEN mark_used(y, dst.n) ELSE y, dst)
    IN  FoldLeft(Pass, c, SubSeq(Reverse(args), 1, n))

pass_block_args(c, cc) == set_stack_depth(do_pass_block_args(c, cc.args), cc.depth)

(* n values are popped into locations of their own; the first is the last  *)
(* of args.                                                                *)
RECURSIVE PopIntoTemps(_, _)
PopOne(t, args, n) == PopIntoTemps([c |-> t.c, args |-> <<t.l>> \o args], n - 1)
PopIntoTemps(p, n) ==
    IF n <= 0 \/ p.c.panic THEN p
    ELSE IF p.c.stack = <<>> THEN [p EXCEPT !.c = Popped(@)]
    ELSE PopOne(into_temp_loc(Popped(p.c), TopOf(p.c)), p.args, n)

(* These yield [c, cc].                                                    *)
Passing(t, depth) == [c |-> set_stack_depth(t.c, depth), cc |-> [depth |-> depth, args |-> t.args]]

serialize_block_args(c, cc, params) ==
    Passing(PopIntoTemps([c |-> do_pass_block_args(c, cc.args), args |-> cc.args], params - Len(cc.args)),
            cc.depth)

Serialized(t) == [c |-> t.c, cc |-> [depth |-> t.c.depth, args |-> t.args]]

serialize_args(c, count) == Serialized(PopIntoTemps([c |-> c, args |-> <<>>], count))

-----------------------------------------------------------------------------
(* Calls.  The callee uses the stack below its caller's, and all scratch   *)
(* registers are caller-saved.                                             *)
Called(c, new) ==
    [c EXCEPT !.reg = [r \in Scratch |-> IF r = ReturnReg THEN new ELSE 0],
              !.mem = [k \in Slots |-> IF k > c.depth THEN 0 ELSE @[k]],
              !.flags = 0]

arg_locs(n) == [i \in 1..n |-> Reg(IntegerArgs[i])]
Args(o) == arg_locs(IF o.name = "call_indirect" THEN o.pops - 1 ELSE o.pops)
ret_locs(n) == [i \in 1..n |-> Reg(ReturnReg)]

(* Mutant: the register of the result is taken for one that is preserved. *)
SaveAllButResult(c) == save_regs(c, Scratch \ {ReturnReg})

save_volatile(c) == save_regs(c, Scratch)

(* The stack is aligned to two words.  Nothing is in a register by now but *)
(* a callee, which is kept off those of the arguments, so that an argument *)
(* never has to wait for its register.                                     *)
pass_outgoing_args(c, locs) ==
    LET depth == c.depth + (c.depth % 2)
        Pass(x, dst) ==
            IF TopOf(x) = dst THEN Popped(x)
            ELSE IF ~is_free(x, dst.n) THEN [x EXCEPT !.panic = TRUE]
            ELSE pop_into(mark_used(x, dst.n), dst)
    IN  set_stack_depth(FoldLeft(Pass, set_stack_depth(c, depth), Reverse(locs)), depth)

push_function_returns(c, locs) ==
    FoldLeft(LAMBDA x, l : push(mark_used(x, l.n), l), c, locs)

(* A register for an address or an intermediate result of the call.        *)
Borrowed(t) == IF t.r = NoReg THEN [t.c EXCEPT !.panic = TRUE] ELSE release(t.c, t.r)
BorrowTwo(t) == IF t.r = NoReg THEN [t.c EXCEPT !.panic = TRUE] ELSE release(Borrowed(take_reg(t.c)), t.r)

Call(c, o, new) ==
    push_function_returns(FoldLeft(free_value, Called(c, new), Args(o)), ret_locs(o.pushes))

call_direct(c, o, new) ==
    Call(Borrowed(take_reg(pass_outgoing_args(save_volatile(c), Args(o)))), o, new)

push_vmctx(c) == PushWord(c, 0)
pop_vmctx(c, depth) == [set_stack_depth(c, depth) EXCEPT !.depth = depth - 1]

call_direct_imported(c, o, new) ==
    pop_vmctx(Call(Borrowed(take_reg(pass_outgoing_args(save_volatile(push_vmctx(c)), Args(o)))), o, new),
              c.depth + 1)

(* The argument registers are in use while one is found for the callee.    *)
(* The index is compared, and then the signature of the callee.            *)
Checked(c, callee) ==
    release([BorrowTwo(take_reg(c)) EXCEPT !.tested = c.reg[callee]], callee)

CallPushed(c, callee, o, new) ==
    pop_vmctx(Call(Checked(pass_outgoing_args(c, Args(o)), callee), o, new), c.depth)

CallCallee(t, o, new) ==
    IF t.r = NoReg THEN [t.c EXCEPT !.panic = TRUE]
    ELSE CallPushed(push_vmctx(save_volatile(FoldLeft(free_value, t.c, Args(o)))), t.r, o, new)

call_indirect(c, o, new) ==
    CallCallee(into_temp_reg(FoldLeft(LAMBDA x, l : mark_used(x, l.n), Popped(c), Args(o)), TopOf(c)),
               o, new)

-----------------------------------------------------------------------------
(* Branches.  pass_args puts the arguments in place, after the condition   *)
(* is tested but before the selector of a table is.                        *)
Tested(t) ==
    IF t.r = NoReg THEN [t.c EXCEPT !.panic = TRUE]
    ELSE release([t.c EXCEPT !.tested = t.c.reg[t.r], !.flags = t.c.reg[t.r]], t.r)

test(c) ==
    IF TopOf(c) = Cond THEN [Popped(c) EXCEPT !.tested = c.flags]
    ELSE Tested(into_reg(Popped(c), TopOf(c)))

(* Only the case with registers for the selector and a temporary.          *)
Jumped(t, selector) ==
    IF t.r = NoReg THEN [t.c EXCEPT !.panic = TRUE]
    ELSE release(release([t.c EXCEPT !.tested = t.c.reg[selector], !.flags = 0,
                                     !.reg[t.r] = 0, !.reg[selector] = 0], t.r), selector)

Selected(t) == IF t.r = NoReg THEN [t.c EXCEPT !.panic = TRUE] ELSE Jumped(take_reg(t.c), t.r)

select_target(c, selector) ==
    IF selector.at = "imm" THEN [c EXCEPT !.tested = selector.n]
    ELSE Selected(into_temp_reg(c, selector))

-----------------------------------------------------------------------------
(* Labels.                                                                 *)
virtual_calling_convention(c) == [stack |-> c.stack, depth |-> c.depth]

(* set_state and apply_cc.                                                 *)
Enter(c, locs, depth) == [c EXCEPT !.stack = locs, !.uses = CountUses(locs), !.depth = depth]
=============================================================================
