----------------------------- MODULE Lightbeam -----------------------------
(***************************************************************************)
(* The second half of Lightbeam: `translate` turns the Microwasm that the  *)
(* converter yields into code, in one pass.  It keeps for every label a    *)
(* calling convention, the locations that the values are in at the label:  *)
(* the first branch to the label chooses it, and later branches move their *)
(* values there.  The code also looks one operator ahead, to leave out a   *)
(* jump to what comes next; the model has no jumps to leave out.           *)
(*                                                                         *)
(* vals is the stack of Microwasm, in tokens.  At a label the values are   *)
(* forgotten: there is a new token for every location.  What a cell of the *)
(* machine holds is forgotten when no value is said to be there.           *)
(***************************************************************************)
EXTENDS Microwasm, LightbeamContext

VARIABLES
    code        \* [ctx, blocks, vals, live, skipping, delivered, unsupported]

all_vars == <<vars, code>>

-----------------------------------------------------------------------------
(* Blocks.  A convention is Left, locations for all callers, or Right, the *)
(* state of the only one.  Of actual_num_callers, whether it is 0.         *)
NoCC == [kind |-> "none", depth |-> 0, locs |-> <<>>]
Left(cc) == [kind |-> "left", depth |-> cc.depth, locs |-> cc.args]
Right(cc) == [kind |-> "right", depth |-> cc.depth, locs |-> cc.stack]
LeftOf(cc) == [depth |-> cc.depth, args |-> cc.locs]

NewBlock(o) ==
    [params |-> o.params, cc |-> NoCC, num_callers |-> o.num_callers,
     has_backwards_callers |-> o.has_backwards_callers, called |-> FALSE]

ReturnBlock ==
    [params |-> NumReturns, cc |-> Left([depth |-> 1, args |-> ret_locs(NumReturns)]),
     num_callers |-> 0, has_backwards_callers |-> FALSE, called |-> FALSE]

should_serialize_args(block) ==
    block.cc = NoCC /\ (block.num_callers # 1 \/ block.has_backwards_callers)

drop_elements(cc, range) ==
    IF range # <<>> /\ range[2] < Len(cc.locs) THEN [cc EXCEPT !.locs = DropRange(@, range)] ELSE cc

-----------------------------------------------------------------------------
(* A branch delivers when its target finds in the locations of its         *)
(* convention the values that Microwasm passes, at the depth it expects,   *)
(* and earlier callers of the target used the same locations.              *)
Delivers(s, blocks, o, vals) ==
    \A to \in Targets(o) :
        LET block == blocks[to.target]
            was == s.blocks[to.target].cc
            values == Passed(vals, to, block.params)
            locs == TakeTop(block.cc.locs, block.params)
        IN  /\ block.cc # NoCC
            /\ Len(block.cc.locs) >= block.params
            /\ [i \in DOMAIN locs |-> Content(s.ctx, locs[i])] = values
            /\ s.ctx.depth = block.cc.depth
            /\ s.blocks[to.target].called =>
                   was.depth = block.cc.depth /\ TakeTop(was.locs, block.params) = locs

(* After a branch the context means nothing until the next label.          *)
NoContext ==
    [stack |-> <<>>, uses |-> CountUses(<<>>), depth |-> 1, reg |-> [r \in Scratch |-> 0],
     mem |-> [k \in Slots |-> 0], flags |-> 0, tested |-> 0, panic |-> FALSE]

Away(s) == [s EXCEPT !.live = FALSE, !.vals = <<>>, !.ctx = [NoContext EXCEPT !.panic = s.ctx.panic]]

(* s with the code for a branch: c is the context after it, blocks are the *)
(* blocks with their conventions, vals what the branch passes on.          *)
Branched(s, c, blocks, o, vals) ==
    Away([s EXCEPT
              !.ctx = c,
              !.blocks = [l \in DOMAIN blocks |->
                             IF \E to \in Targets(o) : to.target = l
                             THEN [blocks[l] EXCEPT !.called = TRUE] ELSE blocks[l]],
              !.delivered = @ /\ Delivers([s EXCEPT !.ctx = c], blocks, o, vals)])

Br_(s, o) ==
    LET block == s.blocks[o.target]
        Serialize(t) == Branched(s, t.c, [s.blocks EXCEPT ![o.target].cc = Left(t.cc)], o, s.vals)
    IN  IF should_serialize_args(block) THEN Serialize(serialize_args(s.ctx, block.params))
        ELSE Branched(s, IF block.cc.kind = "left" THEN pass_block_args(s.ctx, LeftOf(block.cc)) ELSE s.ctx,
                      s.blocks, o, s.vals)

(* One side has a convention: it is used for both, and only the other side *)
(* drops.  Neither has: each takes the current state, if it has no other   *)
(* callers, or else all values in locations of their own.                  *)
BrIf_(s, o) ==
    LET then == s.blocks[o.then.target]
        else == s.blocks[o.else.target]
        max_params == IF then.params > else.params THEN then.params ELSE else.params
        known == {then.cc, else.cc} \ {NoCC}
        serialize == should_serialize_args(then) \/ should_serialize_args(else)
        Own(c, k, block, to) ==
            IF block.cc # NoCC THEN block.cc
            ELSE drop_elements(IF known # {} \/ should_serialize_args(block) THEN Left(k.cc)
                               ELSE Right(virtual_calling_convention(c)), to.to_drop)
        \* c: the condition is tested; k: the arguments are in place
        Done(c, k) ==
            Branched([s EXCEPT !.delivered = @ /\ c.tested = Last(s.vals)], k.c,
                     [s.blocks EXCEPT ![o.then.target].cc = Own(c, k, then, o.then),
                                      ![o.else.target].cc = Own(c, k, else, o.else)],
                     o, Front(s.vals))
        Pass(c) ==
            Done(c, IF known # {} THEN serialize_block_args(c, LeftOf(CHOOSE cc \in known : TRUE), max_params)
                    ELSE IF serialize THEN serialize_args(c, max_params)
                    ELSE [c |-> c, cc |-> NoCC])
    IN  IF (then.cc # NoCC /\ else.cc # NoCC) \/ \E cc \in known : cc.kind = "right"
        THEN [s EXCEPT !.unsupported = TRUE]
        ELSE Pass(test(s.ctx))

(* All targets that have a convention must have the same.                  *)
BrTable_(s, o) ==
    LET c == Popped(s.ctx)
        targets == Targets(o)
        Count(to) == IF to.to_drop = <<>> THEN 0 ELSE to.to_drop[2] - to.to_drop[1] + 1
        max_params == Max({s.blocks[to.target].params + Count(to) : to \in targets})
        known == {s.blocks[to.target].cc : to \in targets} \ {NoCC}
        single == \A to \in targets : s.blocks[to.target].num_callers = 1
        Agreed(cc) == [l \in DOMAIN s.blocks |->
                          IF \E to \in targets : to.target = l
                          THEN [s.blocks[l] EXCEPT
                                   !.cc = drop_elements(cc, (CHOOSE to \in targets : to.target = l).to_drop)]
                          ELSE s.blocks[l]]
        WithLeft(k) == [c |-> k.c, cc |-> Left(k.cc)]
        Pass(cc) ==
            IF cc.kind = "left" THEN WithLeft(serialize_block_args(c, LeftOf(cc), max_params))
            ELSE [c |-> c, cc |-> cc]
        Done(jump, cc) ==
            Branched([s EXCEPT !.delivered = @ /\ jump.tested = Last(s.vals)], jump, Agreed(cc), o,
                     Front(s.vals))
        Jump(k) == Done(select_target(k.c, TopOf(s.ctx)), k.cc)
    IN  IF Cardinality(known) > 1 THEN [s EXCEPT !.unsupported = TRUE]
        ELSE Jump(IF known # {} THEN Pass(CHOOSE cc \in known : TRUE)
                  ELSE IF single THEN [c |-> c, cc |-> Right(virtual_calling_convention(c))]
                  ELSE WithLeft(serialize_args(c, max_params)))

-----------------------------------------------------------------------------
(* A label that nothing goes to: what follows is skipped up to the next    *)
(* label, but for the declarations of blocks.                              *)
First(locs, i) == SelectInSeq(locs, LAMBDA l : l = locs[i])

(* The locations at a label, each with a token of its own.                 *)
AtLabel(s, locs, depth_) ==
    LET c == Enter(s.ctx, [i \in DOMAIN locs |-> IF locs[i].at = "imm" THEN Imm(First(locs, i))
                                                 ELSE locs[i]], depth_)
        Token(l) == IF \E i \in DOMAIN locs : locs[i] = l THEN SelectInSeq(locs, LAMBDA x : x = l) ELSE 0
    IN  [s EXCEPT !.ctx = [c EXCEPT !.reg = [r \in Scratch |-> Token(Reg(r))],
                                    !.mem = [k \in Slots |-> Token(Stack(k))],
                                    !.flags = Token(Cond)],
                  !.vals = [i \in DOMAIN locs |-> First(locs, i)]]

Label_(s, o) ==
    LET block == s.blocks[o.label]
        blocks == IF block.has_backwards_callers
                  THEN s.blocks ELSE [l \in DOMAIN s.blocks \ {o.label} |-> s.blocks[l]]
    IN  IF ~block.called THEN [s EXCEPT !.skipping = TRUE]
        \* an assertion; and a convention there is, or BranchesDeliver fails
        ELSE IF Len(block.cc.locs) < block.params THEN [s EXCEPT !.ctx.panic = TRUE]
        ELSE [AtLabel(s, block.cc.locs, block.cc.depth)
                 EXCEPT !.live = TRUE, !.skipping = FALSE, !.blocks = blocks]

Declare(s, o) ==
    [s EXCEPT !.blocks = [l \in DOMAIN @ \cup {o.label} |-> IF l = o.label THEN NewBlock(o) ELSE @[l]]]

-----------------------------------------------------------------------------
(* An operator that is no branch.                                          *)
Plain_(c, o, new) ==
    CASE o.name = "const" -> const_(c, new)
      [] o.name = "add" -> add(c, new)
      [] o.name = "eq" -> eq(c, new)
      [] o.name = "get_global" -> get_global(c, FALSE, new)
      [] o.name = "get_global_imported" -> get_global(c, TRUE, new)
      [] o.name = "set_global" -> set_global(c, FALSE)
      [] o.name = "set_global_imported" -> set_global(c, TRUE)
      [] o.name = "call" -> call_direct(c, o, new)
      [] o.name = "call_imported" -> call_direct_imported(c, o, new)
      [] o.name = "call_indirect" -> call_indirect(c, o, new)

Forget(c) ==
    [c EXCEPT !.reg = [r \in Scratch |-> IF Contains(c.stack, Reg(r)) THEN @[r] ELSE 0],
              !.mem = [k \in Slots |-> IF Contains(c.stack, Stack(k)) THEN @[k] ELSE 0],
              !.flags = IF Contains(c.stack, Cond) THEN @ ELSE 0,
              !.tested = 0]

\* the operators that are about the value on top
ByValue == {"call_indirect", "set_global", "set_global_imported"}

Compute(s, o) ==
    LET new == CHOOSE t \in 1..Len(s.vals) + 1 :
                   ~Contains(s.vals, t) /\ \A u \in 1..t - 1 : Contains(s.vals, u)
        Done(c) ==
            [s EXCEPT !.ctx = c, !.vals = Effect(s.vals, o, new),
                      !.delivered = @ /\ (o.op = "plain" /\ o.name \in ByValue => c.tested = Last(s.vals))]
    IN  Done(CASE o.op = "plain" -> Plain_(s.ctx, o, new)
               [] o.op = "drop" -> drop(s.ctx, o.range)
               [] o.op = "pick" -> pick(s.ctx, o.depth)
               [] o.op = "swap" -> swap(s.ctx, o.depth))

Translated(s, o) ==
    CASE o.op = "block" -> Declare(s, o)
      [] o.op = "label" -> Label_(s, o)
      [] o.op = "unreachable" -> Away(s)
      [] o.op = "br" -> Br_(s, o)
      [] o.op = "br_if" -> BrIf_(s, o)
      [] o.op = "br_table" -> BrTable_(s, o)
      [] o.op \in {"plain", "drop", "pick", "swap"} -> Compute(s, o)

Step(s, o) ==
    IF s.ctx.panic \/ s.unsupported THEN s
    ELSE IF s.skipping /\ o.op # "label" THEN IF o.op = "block" THEN Declare(s, o) ELSE s
    ELSE IF o.op # "label" /\ CountUses(s.ctx.stack) # s.ctx.uses THEN [s EXCEPT !.ctx.panic = TRUE]
    ELSE [Translated(s, o) EXCEPT !.ctx = Forget(@)]

-----------------------------------------------------------------------------
(* A block that no frame can name any more is forgotten.                   *)
Translate ==
    LET ids == {control_frames'[k].id : k \in DOMAIN control_frames'}
        Named(l) == l = Return \/ l[1] \in ids
    IN  \E s \in {FoldLeft(Step, code, ops')} :
            code' = [s EXCEPT !.blocks = [l \in {l \in DOMAIN @ : Named(l)} |-> @[l]]]

start_function ==
    AtLabel([ctx |-> NoContext, blocks |-> (Return :> ReturnBlock), vals |-> <<>>, live |-> TRUE,
             skipping |-> FALSE, delivered |-> TRUE, unsupported |-> FALSE],
            arg_locs(NumParams), 1)

Start == Init /\ code = start_function

Compile ==
    /\ ~code.unsupported /\ ~code.ctx.panic
    /\ Next /\ Translate
    /\ code'.ctx.depth <= MaxDepth

CompileSpec == Start /\ [][Compile]_all_vars

-----------------------------------------------------------------------------
(* Every value is where the compiler believes it is: a value that was      *)
(* moved, spilled, shared with a local or left in the flags is not         *)
(* overwritten as long as the location is in use.  Nor does an assertion   *)
(* of the compiler fail, the one that the usage counts of the registers    *)
(* are those of the stack among them.                                      *)
LocationsHold ==
    LET locs == code.ctx.stack
        skip == Len(locs) - Len(code.vals)
    IN  /\ ~code.ctx.panic
        /\ code.live =>
               /\ skip >= 0
               /\ \A i \in DOMAIN code.vals : Content(code.ctx, locs[i + skip]) = code.vals[i]

(* All branches to a label deliver what Microwasm passes, in the locations *)
(* that the label has for all its callers, and go by the right condition;  *)
(* indirect calls and stores to globals use the right value.               *)
BranchesDeliver == code.delivered
=============================================================================
