-------------------------- MODULE MicrowasmMeaning --------------------------
(***************************************************************************)
(* What the conversion to Microwasm preserves.  The wasm function and the  *)
(* Microwasm it becomes are followed side by side, over tokens that stand  *)
(* for values: an operator that produces a value gives both sides the same *)
(* new token, and at a label, where control comes from several places, the *)
(* state is forgotten and both sides get a token per position.             *)
(*                                                                         *)
(* So a function is covered path by path between two labels, and it is     *)
(* translated correctly if both sides agree on every stretch and on what   *)
(* every branch hands to its label.                                        *)
(***************************************************************************)
EXTENDS Microwasm

VARIABLES
    locals,     \* wasm: the locals
    operands,   \* wasm: the operand stack
    micro       \* Microwasm: whether control is here, its stack, its blocks

meaning == <<locals, operands, micro>>

(* A token that neither side knows; 0 is the value of a declared local.    *)
NewToken ==
    LET used == Range(locals) \cup Range(operands) \cup Range(micro.stack)
    IN  IF op'.op = "locals" THEN 0
        ELSE CHOOSE t \in 1..Cardinality(used) + 1 :
            t \notin used /\ \A other \in 1..t - 1 : other \in used

-----------------------------------------------------------------------------
(* Microwasm.  ok turns FALSE when an operator is used in a way that the   *)
(* comments on Operator call an error.                                     *)
ParamsOf(m, target) == IF target = Return THEN NumReturns ELSE m.blocks[target].params

Send(m, s, to) ==
    IF /\ to.target \in DOMAIN m.blocks \cup {Return}
       /\ Len(DropRange(s, to.to_drop)) >= ParamsOf(m, to.target)
    THEN [m EXCEPT !.sent = @ \cup {<<to.target, Passed(s, to, ParamsOf(m, to.target))>>},
                   !.blocks = [l \in DOMAIN @ |-> IF l = to.target
                                                  THEN [@[l] EXCEPT !.due = ~m.blocks[l].placed]
                                                  ELSE @[l]]]
    ELSE [m EXCEPT !.ok = FALSE]

(* The deepest element that an operator reaches.                           *)
Reach(o) ==
    CASE o.op = "drop" -> o.range[2]
      [] o.op \in {"pick", "swap"} -> o.depth
      [] o.op = "plain" -> o.pops - 1

Exec(new, m, o) ==
    LET s == m.stack
        rest == IF o.op = "br" THEN s ELSE DropTop(s, 1)
        Leave(n) == [n EXCEPT !.live = FALSE, !.stack = <<>>]
    IN  CASE o.op = "block" ->
               [m EXCEPT !.blocks = [l \in DOMAIN @ \cup {o.label} |->
                                        IF l = o.label
                                        THEN [params |-> o.params, due |-> FALSE, placed |-> FALSE]
                                        ELSE @[l]]]
          [] o.op = "label" ->
               IF ~m.live /\ o.label \in DOMAIN m.blocks /\ ~m.blocks[o.label].placed
               THEN [m EXCEPT !.live = TRUE, !.stack = Positions(m.blocks[o.label].params),
                              !.blocks[o.label].placed = TRUE, !.blocks[o.label].due = FALSE]
               ELSE [m EXCEPT !.ok = FALSE]
          [] o.op = "unreachable" -> Leave(m)
          [] o.op \in {"br", "br_if", "br_table"} ->
               Leave(FoldSet(LAMBDA t, n : Send(n, rest, t), m, Targets(o)))
          [] o.op \in {"drop", "pick", "swap", "plain"} ->
               IF Reach(o) < Len(s) THEN [m EXCEPT !.stack = Effect(s, o, new)]
               ELSE [m EXCEPT !.ok = FALSE]

(* What the operators of this step do.                                     *)
Executed ==
    LET new == NewToken
    IN  FoldLeft(LAMBDA m, o : Exec(new, m, o), micro, ops')

(* The labels that they may go to, and with what.                          *)
Sent == Executed.sent

(* A block that no frame can name any more is forgotten; by then its label *)
(* is in the code if anything branches to it.                              *)
Microwasm ==
    LET ids == {control_frames'[k].id : k \in DOMAIN control_frames'}
        Forget(m, known) ==
            [m EXCEPT !.sent = {},
                      !.ok = @ /\ \A l \in DOMAIN m.blocks \ known : ~m.blocks[l].due,
                      !.blocks = [l \in known |-> m.blocks[l]]]
    IN  \E m \in {Executed} : micro' = Forget(m, {l \in DOMAIN m.blocks : l[1] \in ids})

-----------------------------------------------------------------------------
(* Wasm.  A label is named like the frame at the same place.               *)
LabelAt(k) == br_target(control_frames[k])

(* What a branch to the k-th block takes along, from the operands s.       *)
Taken(k, s) ==
    IF ctrl[k].kind = "function" THEN TakeTop(s, NumReturns)
    ELSE locals \o SubSeq(s, 1, ctrl[k].height) \o TakeTop(s, Arity(ctrl[k]))

Goes(n, s) == <<br_target(nth_block(n)), Taken(Len(ctrl) - n, s)>>

(* The labels that the operator of this step may go to, and with what.     *)
Owed ==
    LET o == op'
        inner == Last(control_frames).id
        rest == DropTop(operands, 1)
        all == locals \o operands
    IN  CASE o.op = "loop" -> {<<<<next_id, "Header">>, all>>}
          [] o.op = "if" -> {<<<<next_id, tag>>, locals \o rest>> : tag \in {"Header", "Else"}}
          [] o.op = "br" -> {Goes(o.to, operands)}
          [] o.op = "br_if" -> {Goes(o.to, rest), <<<<next_id, "Header">>, locals \o rest>>}
          [] o.op = "br_table" -> {Goes(o.to, rest), Goes(o.default, rest)}
          [] o.op = "return" -> {Goes(Len(ctrl) - 1, operands)}
          [] o.op = "else" -> IF Dead THEN {} ELSE {Goes(0, operands)}
          [] o.op = "end" ->
               \* leaving a block may be a jump, or just going on; an if without
               \* else is also left from the else that is not there
               (IF Dead \/ Sent = {} THEN {} ELSE {Goes(0, operands)})
               \cup IF Top.kind = "if"
                    THEN {<<<<inner, "End">>, Positions(NumLocals + Top.height)>>} ELSE {}
          [] OTHER -> {}

AtLabel == \E k \in DOMAIN ops' : ops'[k].op = "label"

Wasm ==
    LET o == op'
        Set == [locals EXCEPT ![o.local + 1] = Last(operands)]
    IN  IF AtLabel
        THEN /\ locals' = Positions(NumLocals)
             /\ operands' = [i \in 1..height' |-> NumLocals + i]
        ELSE IF unreachable' \/ is_done'
        THEN locals' = <<>> /\ operands' = <<>>
        ELSE /\ locals' = IF o.op \in {"set", "tee"} THEN Set ELSE locals
             /\ operands' =
                    CASE o.op = "plain" -> DropTop(operands, o.pops) \o [i \in 1..o.pushes |-> NewToken]
                      [] o.op \in {"drop", "set"} -> DropTop(operands, 1)
                      [] o.op = "get" -> Append(operands, locals[o.local + 1])
                      [] o.op \in {"locals", "tee", "block", "end"} -> operands

-----------------------------------------------------------------------------
Start ==
    /\ Init
    /\ locals = Positions(NumParams) \o [i \in 1..NumDeclared |-> 0]
    /\ operands = <<>>
    /\ micro = [live |-> TRUE, stack |-> Positions(NumParams), blocks |-> <<>>, ok |-> TRUE, sent |-> {}]

Follow == Next /\ Microwasm /\ Wasm

MeaningSpec == Start /\ [][Follow]_<<vars, meaning>>

-----------------------------------------------------------------------------
(* Where control is, the stack of Microwasm is the locals with the         *)
(* operands on top, and the converter's own stack is as long: the depths   *)
(* that it computes for locals and drops are depths of the right values.   *)
StackIsState ==
    micro.live /\ consts_to_emit = -1 =>
        /\ micro.stack = locals \o operands
        /\ stack = Len(micro.stack)

(* Every operator of wasm that leaves a block goes to the same labels in   *)
(* Microwasm, and hands each of them the locals, the operands from before  *)
(* the block and the block's results, without what it leaves behind.       *)
BranchesHandOver == [][Sent = Owed]_<<vars, meaning>>

(* The Microwasm is in order, as the comments on Operator ask for it: no   *)
(* branch to a block that is not declared or whose label never comes, no   *)
(* label inside a block that was not closed, no depth beyond the stack.    *)
WellFormed == micro.ok
=============================================================================
