----------------------------- MODULE Microwasm -----------------------------
(***************************************************************************)
(* The first half of Lightbeam: MicrowasmConv turns the operators of a     *)
(* wasm function, one at a time, into Microwasm, a language without        *)
(* locals and without nesting.  Locals become the bottom of the stack and  *)
(* every structured block becomes labels that are branched to.             *)
(*                                                                         *)
(* Whatever a valid function may contain next is read next, so the module  *)
(* ranges over all functions within the bounds.  The converter keeps the   *)
(* types of its stack; here the stack is its length.                       *)
(***************************************************************************)
EXTENDS Integers, SequencesExt

CONSTANTS
    NumParams,      \* parameters of the function
    NumDeclared,    \* locals that it declares
    NumReturns,     \* its results, 0 or 1
    BlockReturns,   \* results a block or an if may have
    LoopReturns,    \* results a loop may have
    Plain,          \* the operators that only pop and push
    Untidy,         \* <<operator, kind, results>>: branches that may leave operands
    TableDepths,    \* the depths a br_table may have
    MaxFrames,      \* bound: nested blocks, the function's included
    MaxOperands     \* bounds: operands on the stack, by how many frames are open

VARIABLES
    op,             \* the wasm operator that was read last
    ops,            \* what Iterator::next yielded for it
    stack,          \* MicrowasmConv::stack, its length
    control_frames, \* MicrowasmConv::control_frames
    unreachable,    \* MicrowasmConv::unreachable
    depth,          \* nesting inside the code that is skipped
    consts_to_emit, \* MicrowasmConv::consts_to_emit, how many; -1 once taken
    is_done,        \* MicrowasmConv::is_done
    ctrl,           \* wasm: the blocks around the next operator
    height          \* wasm: the operands there are

conv == <<stack, control_frames, unreachable, depth, consts_to_emit, is_done>>
wasm == <<ctrl, height>>
vars == <<op, ops, conv, wasm>>

NumLocals == NumParams + NumDeclared

(* An operator that only pops and pushes: how many, and one of them calls. *)
PlainType == [name : STRING, pops : Nat, pushes : {0, 1}]

ASSUME MicrowasmAssumption ==
    /\ NumParams \in Nat /\ NumDeclared \in Nat /\ NumReturns \in {0, 1}
    /\ BlockReturns \subseteq {0, 1} /\ LoopReturns \subseteq {0, 1}
    /\ Plain \subseteq PlainType
    /\ MaxFrames \in Nat /\ MaxOperands \in [1 .. MaxFrames -> Nat]

-----------------------------------------------------------------------------
(* Valid wasm.  A block remembers how many operands it found.  After a     *)
(* branch the rest of the block is dead, nested blocks included.           *)
Top == Last(ctrl)
Dead == Top.dead
Nth(n) == ctrl[Len(ctrl) - n]
Above == height - Top.height

(* What a branch to the block takes along.                                 *)
Arity(f) == IF f.kind = "loop" THEN 0 ELSE f.results

(* With h operands, a branch out of n blocks is valid.                     *)
Branch(o, n, h) ==
    /\ n < Len(ctrl)
    /\ h - Top.height >= Arity(Nth(n))
    /\ h - Nth(n).height > Arity(Nth(n)) => <<o, Nth(n).kind, Nth(n).results>> \in Untidy

(* A block begins, with h operands.                                        *)
Open(kind, results, h) ==
    /\ Len(ctrl) < MaxFrames
    /\ h + results <= MaxOperands[Len(ctrl) + 1]
    /\ ctrl' = Append(ctrl, [kind |-> kind, height |-> h, results |-> results, dead |-> Dead])
    /\ height' = h

(* The rest of the block is never reached.                                 *)
Die ==
    /\ ctrl' = [ctrl EXCEPT ![Len(ctrl)].dead = TRUE]
    /\ height' = Top.height

(* The end of a block: it was left with just its results, or not at all.   *)
(* An if without else has no results.                                      *)
Close ==
    /\ Dead \/ Above = Top.results
    /\ Top.kind = "if" => Top.results = 0
    /\ ctrl' = Front(ctrl)
    /\ height' = Top.height + Top.results

Otherwise ==
    /\ Top.kind = "if"
    /\ Dead \/ Above = Top.results
    /\ ctrl' = [ctrl EXCEPT ![Len(ctrl)].kind = "else",
                            ![Len(ctrl)].dead = Len(ctrl) > 1 /\ Nth(1).dead]
    /\ height' = Top.height

-----------------------------------------------------------------------------
(* Labels, and the operators of Microwasm that the converter puts together *)
(* itself.  A target of a branch may drop a range of depths: <<>> or       *)
(* <<first, last>>.                                                        *)
Return == <<0, "Return">>

BlockOp(label, params, backwards, callers) ==
    [op |-> "block", label |-> label, params |-> params,
     has_backwards_callers |-> backwards, num_callers |-> callers]

\* num_callers: 0 stands for unknown
end_(params, label) == BlockOp(label, params, FALSE, 0)
block_(params, label) == BlockOp(label, params, FALSE, 1)
loop_(params, label) == BlockOp(label, params, TRUE, 0)

Label(l) == [op |-> "label", label |-> l]
Br(t) == [op |-> "br", target |-> t]
To(t, drop) == [target |-> t, to_drop |-> drop]
BrIf(then, else) == [op |-> "br_if", then |-> then, else |-> else]
BrTable(targets, default) == [op |-> "br_table", targets |-> targets, default |-> default]
Drop(range) == [op |-> "drop", range |-> range]
Drops(range) == IF range = <<>> THEN <<>> ELSE <<Drop(range)>>
Pick(d) == [op |-> "pick", depth |-> d]
Swap(d) == [op |-> "swap", depth |-> d]
Plainly(p) == [op |-> "plain", name |-> p.name, pops |-> p.pops, pushes |-> p.pushes]
Const == Plainly([name |-> "const", pops |-> 0, pushes |-> 1])

(* What they do to a stack, by the comments on them: a branch pops its     *)
(* target's parameters, after what it drops, and discards the rest.        *)
Positions(n) == [i \in 1..n |-> i]
TakeTop(s, n) == SubSeq(s, Len(s) - n + 1, Len(s))
DropTop(s, n) == SubSeq(s, 1, Len(s) - n)

DropRange(s, range) ==
    IF range = <<>> THEN s
    ELSE DropTop(s, range[2] + 1) \o TakeTop(s, range[1])

Passed(s, to, params) == TakeTop(DropRange(s, to.to_drop), params)

Effect(s, o, new) ==
    LET at == Len(s) - o.depth
    IN  CASE o.op = "drop" -> DropRange(s, o.range)
          [] o.op = "pick" -> Append(s, s[at])
          [] o.op = "swap" -> [s EXCEPT ![Len(s)] = s[at], ![at] = s[Len(s)]]
          [] o.op = "plain" -> DropTop(s, o.pops) \o [i \in 1..o.pushes |-> new]

Targets(o) ==
    CASE o.op = "br" -> {To(o.target, <<>>)}
      [] o.op = "br_if" -> {o.then, o.else}
      [] o.op = "br_table" -> Range(o.targets) \cup {o.default}

-----------------------------------------------------------------------------
(* ControlFrame.                                                           *)
needs_end_label(frame) ==
    \/ frame.kind = "block" /\ frame.needs_end_label
    \/ frame.kind = "if"

(* Mutant: the innermost block is marked, not the target. *)
MarkInnermost(n, frames) ==
    [frames EXCEPT ![Len(frames)].needs_end_label = @ \/ frames[Len(frames)].kind = "block"]

mark_branched_to(n, frames) ==
    LET k == Len(frames) - n
    IN  [frames EXCEPT ![k].needs_end_label = @ \/ frames[k].kind = "block"]

br_target(frame) ==
    CASE frame.kind = "loop" -> <<frame.id, "Header">>
      [] frame.kind = "function" -> Return
      [] OTHER -> <<frame.id, "End">>

nth_block(n) == control_frames[Len(control_frames) - n]

function_block == control_frames[1]

(* The counter never repeats an id; here an id is free again once no       *)
(* frame has it, which keeps them few.                                     *)
next_id ==
    CHOOSE id \in 1..MaxFrames :
        /\ \A k \in DOMAIN control_frames : control_frames[k].id # id
        /\ \A other \in 1..id - 1 : \E k \in DOMAIN control_frames : control_frames[k].id = other

PushFrame(id, kind, arguments, returns) ==
    control_frames' = Append(control_frames,
        [id |-> id, arguments |-> arguments, returns |-> returns, kind |-> kind,
         needs_end_label |-> FALSE, has_else |-> FALSE])

(* Mutant: one of the values below the block is dropped too. *)
ToDropOneMore(frame, len) ==
    IF frame.returns <= len - frame.arguments THEN <<frame.returns, len - frame.arguments>> ELSE <<>>

(* The depths between what a branch keeps and what the block started with. *)
to_drop(frame, len) ==
    IF frame.returns <= len - 1 - frame.arguments
    THEN <<frame.returns, len - 1 - frame.arguments>>
    ELSE <<>>

(* Mutant: depths counted from one. *)
LocalDepthFromOne(len, idx) == len - idx

local_depth(len, idx) == len - 1 - idx

-----------------------------------------------------------------------------
(* MicrowasmConv::new: the parameters and the declared locals are on the   *)
(* stack, and zeroes for the latter are to be emitted.                     *)
Init ==
    /\ op = [op |-> "none"]
    /\ ops = <<>>
    /\ stack = NumLocals
    /\ control_frames = <<[id |-> 0, arguments |-> NumLocals, returns |-> NumReturns,
                           kind |-> "function", needs_end_label |-> FALSE, has_else |-> FALSE]>>
    /\ unreachable = FALSE
    /\ depth = 0
    /\ consts_to_emit = NumDeclared
    /\ is_done = FALSE
    /\ ctrl = <<[kind |-> "function", height |-> 0, results |-> NumReturns, dead |-> FALSE]>>
    /\ height = 0

EmitConsts ==
    /\ consts_to_emit >= 0
    /\ consts_to_emit' = -1
    /\ op' = [op |-> "locals"]
    /\ ops' = [i \in 1..consts_to_emit |-> Const]
    /\ UNCHANGED <<stack, control_frames, unreachable, depth, is_done, wasm>>

(* Reading an operator that control reaches: it is well typed, and the     *)
(* stack difference is applied before it is translated.                    *)
Read(o) ==
    /\ consts_to_emit = -1 /\ ~is_done /\ ~unreachable
    /\ ~Dead /\ Above >= o.pops
    /\ op' = o
    /\ UNCHANGED <<depth, consts_to_emit>>

Operands(o) == height' = height - o.pops + o.pushes

PlainOp(p) ==
    LET o == Plainly(p)
    IN  /\ Read(o) /\ Operands(o) /\ height' <= MaxOperands[Len(ctrl)]
        /\ stack' = stack - o.pops + o.pushes
        /\ ops' = <<o>>
        /\ UNCHANGED <<control_frames, unreachable, is_done, ctrl>>

DropOp ==
    LET o == [op |-> "drop", pops |-> 1, pushes |-> 0]
    IN  /\ Read(o) /\ Operands(o)
        /\ stack' = stack - 1
        /\ ops' = <<Drop(<<0, 0>>)>>
        /\ UNCHANGED <<control_frames, unreachable, is_done, ctrl>>

(* - 1 and + 1 since the stack difference has been applied; TeeLocal picks *)
(* before it swaps.                                                        *)
LocalOp(name, idx) ==
    LET pops == IF name = "get" THEN 0 ELSE 1
        pushes == IF name = "set" THEN 0 ELSE 1
        len == stack - pops + pushes
        o == [op |-> name, local |-> idx, pops |-> pops, pushes |-> pushes]
    IN  /\ Read(o) /\ Operands(o) /\ height' <= MaxOperands[Len(ctrl)]
        /\ stack' = len
        /\ ops' = CASE name = "get" -> <<Pick(local_depth(len, idx) - 1)>>
                    [] name = "set" -> <<Swap(local_depth(len, idx) + 1), Drop(<<0, 0>>)>>
                    [] name = "tee" -> <<Pick(0), Swap(local_depth(len, idx) + 1), Drop(<<0, 0>>)>>
        /\ UNCHANGED <<control_frames, unreachable, is_done, ctrl>>

UnreachableOp ==
    /\ Read([op |-> "unreachable", pops |-> 0])
    /\ Die
    /\ unreachable' = TRUE
    /\ ops' = <<[op |-> "unreachable"]>>
    /\ UNCHANGED <<stack, control_frames, is_done>>

Block(results) ==
    LET id == next_id
    IN  /\ Read([op |-> "block", pops |-> 0])
        /\ Open("block", results, height)
        /\ PushFrame(id, "block", stack, results)
        /\ ops' = <<end_(stack + results, <<id, "End">>)>>
        /\ UNCHANGED <<stack, unreachable, is_done>>

Loop(results) ==
    LET id == next_id
        label == <<id, "Header">>
    IN  /\ Read([op |-> "loop", pops |-> 0])
        /\ Open("loop", results, height)
        /\ PushFrame(id, "loop", stack, results)
        /\ ops' = <<loop_(stack, label), end_(stack + results, <<id, "End">>),
                    Br(label), Label(label)>>
        /\ UNCHANGED <<stack, unreachable, is_done>>

If(results) ==
    LET id == next_id
        len == stack - 1
    IN  /\ Read([op |-> "if", pops |-> 1])
        /\ Open("if", results, height - 1)
        /\ stack' = len
        /\ PushFrame(id, "if", len, results)
        /\ ops' = <<block_(len, <<id, "Header">>), block_(len, <<id, "Else">>),
                    end_(len + results, <<id, "End">>),
                    BrIf(To(<<id, "Header">>, <<>>), To(<<id, "Else">>, <<>>)),
                    Label(<<id, "Header">>)>>
        /\ UNCHANGED <<unreachable, is_done>>

Else ==
    LET frame == Last(control_frames)
    IN  /\ Read([op |-> "else", pops |-> 0])
        /\ Otherwise
        /\ control_frames' = [control_frames EXCEPT ![Len(control_frames)].has_else = TRUE]
        /\ stack' = frame.arguments
        /\ ops' = Drops(to_drop(frame, stack))
                  \o <<Br(<<frame.id, "End">>), Label(<<frame.id, "Else">>)>>
        /\ UNCHANGED <<unreachable, is_done>>

EndOps(frame, drop) ==
    LET end == <<frame.id, "End">>
    IN  CASE frame.kind = "if" /\ ~frame.has_else ->
               Drops(drop) \o <<Br(end), Label(<<frame.id, "Else">>), Br(end), Label(end)>>
          [] frame.kind = "function" -> <<Br(Return)>>
          [] (frame.kind = "if" /\ frame.has_else) \/ frame.kind \in {"block", "loop"} ->
               Drops(drop) \o IF needs_end_label(frame) THEN <<Br(end), Label(end)>> ELSE <<>>

End ==
    LET frame == Last(control_frames)
    IN  /\ Read([op |-> "end", pops |-> 0])
        /\ Close
        /\ control_frames' = Front(control_frames)
        /\ stack' = frame.arguments + frame.returns
        /\ is_done' = (Len(control_frames) = 1)
        /\ ops' = EndOps(frame, to_drop(frame, stack))
        /\ UNCHANGED unreachable

BrOp(n) ==
    /\ Read([op |-> "br", to |-> n, pops |-> 0])
    /\ Branch("br", n, height)
    /\ Die
    /\ unreachable' = TRUE
    /\ control_frames' = mark_branched_to(n, control_frames)
    /\ ops' = Drops(to_drop(nth_block(n), stack)) \o <<Br(br_target(nth_block(n)))>>
    /\ UNCHANGED <<stack, is_done>>

(* What follows a conditional branch is a block with one caller.           *)
BrIfOp(n) ==
    LET label == <<next_id, "Header">>
        len == stack - 1
    IN  /\ Read([op |-> "br_if", to |-> n, pops |-> 1])
        /\ Branch("br_if", n, height - 1)
        /\ height' = height - 1
        /\ stack' = len
        /\ control_frames' = mark_branched_to(n, control_frames)
        /\ ops' = <<block_(len, label),
                    BrIf(To(br_target(nth_block(n)), to_drop(nth_block(n), len)), To(label, <<>>)),
                    Label(label)>>
        /\ UNCHANGED <<unreachable, is_done, ctrl>>

(* A table with one entry besides the default.                             *)
BrTableOp(n, default) ==
    LET len == stack - 1
        Target(k) == To(br_target(nth_block(k)), to_drop(nth_block(k), len))
    IN  /\ Read([op |-> "br_table", to |-> n, default |-> default, pops |-> 1])
        /\ Branch("br_table", n, height - 1) /\ Branch("br_table", default, height - 1)
        /\ Arity(Nth(n)) = Arity(Nth(default))
        /\ Die
        /\ unreachable' = TRUE
        /\ stack' = len
        /\ control_frames' = mark_branched_to(default, mark_branched_to(n, control_frames))
        /\ ops' = <<BrTable(<<Target(n)>>, Target(default))>>
        /\ UNCHANGED is_done

ReturnOp ==
    /\ Read([op |-> "return", pops |-> 0])
    /\ Branch("br", Len(ctrl) - 1, height)
    /\ Die
    /\ unreachable' = TRUE
    /\ ops' = Drops(to_drop(function_block, stack)) \o <<Br(br_target(function_block))>>
    /\ UNCHANGED <<stack, control_frames, is_done>>

-----------------------------------------------------------------------------
(* After a branch everything is skipped up to the Else or the End that     *)
(* belongs to the innermost frame; depth counts the blocks in between.     *)
(* There, a block stands for a loop too.                                   *)
Skip(o) ==
    /\ ~is_done /\ unreachable
    /\ op' = [op |-> o]
    /\ UNCHANGED consts_to_emit

SkipOpen(kind) ==
    /\ Skip("dead") /\ Open(kind, 0, height)
    /\ depth' = depth + 1
    /\ ops' = <<>>
    /\ UNCHANGED <<stack, control_frames, unreachable, is_done>>

SkipElse ==
    LET frame == Last(control_frames)
    IN  /\ Skip(IF depth = 0 THEN "else" ELSE "dead") /\ Otherwise
        /\ IF depth = 0
           THEN /\ unreachable' = FALSE
                /\ stack' = frame.arguments
                /\ control_frames' = [control_frames EXCEPT ![Len(control_frames)].has_else = TRUE]
                /\ ops' = <<Label(<<frame.id, "Else">>)>>
           ELSE /\ ops' = <<>>
                /\ UNCHANGED <<stack, control_frames, unreachable>>
        /\ UNCHANGED <<depth, is_done>>

SkippedEndOps(frame) ==
    LET end == <<frame.id, "End">>
    IN  CASE frame.kind = "function" -> <<>>
          [] frame.kind = "if" /\ ~frame.has_else ->
               <<Label(<<frame.id, "Else">>), Br(end), Label(end)>>
          [] frame.kind # "function" /\ ~(frame.kind = "if" /\ ~frame.has_else) -> <<Label(end)>>

SkipEnd ==
    LET frame == Last(control_frames)
    IN  /\ Skip(IF depth = 0 THEN "end" ELSE "dead") /\ Close
        /\ IF depth = 0
           THEN /\ unreachable' = FALSE
                /\ control_frames' = Front(control_frames)
                /\ is_done' = (Len(control_frames) = 1)
                /\ stack' = IF is_done' THEN stack ELSE frame.arguments + frame.returns
                /\ ops' = SkippedEndOps(frame)
                /\ UNCHANGED depth
           ELSE /\ depth' = depth - 1
                /\ ops' = <<>>
                /\ UNCHANGED <<stack, control_frames, unreachable, is_done>>

-----------------------------------------------------------------------------
Depths == 0..MaxFrames - 1

Next ==
    \/ EmitConsts
    \/ \E p \in Plain : PlainOp(p)
    \/ DropOp
    \/ \E name \in {"get", "set", "tee"}, idx \in 0..NumLocals - 1 : LocalOp(name, idx)
    \/ UnreachableOp
    \/ \E r \in BlockReturns : Block(r) \/ If(r)
    \/ \E r \in LoopReturns : Loop(r)
    \/ Else
    \/ End
    \/ \E n \in Depths : BrOp(n) \/ BrIfOp(n)
    \/ \E n, default \in Depths \cap TableDepths : BrTableOp(n, default)
    \/ ReturnOp
    \/ \E kind \in {"block", "if"} : SkipOpen(kind)
    \/ SkipElse
    \/ SkipEnd

Spec == Init /\ [][Next]_vars
=============================================================================
