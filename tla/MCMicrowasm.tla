---------------------------- MODULE MCMicrowasm ----------------------------
EXTENDS MicrowasmMeaning

MCPlain == {[name |-> "const", pops |-> 0, pushes |-> 1],
            [name |-> "add", pops |-> 2, pushes |-> 1]}

MCMaxOperands == <<3, 3, 3>>

AllBranches ==
    {"br", "br_if", "br_table"} \X {"function", "block", "loop", "if", "else"} \X {0, 1}

(* All but those to loops that have results. *)
MCUntidy == {b \in AllBranches : <<b[2], b[3]>> # <<"loop", 1>>}

(* Which tokens are equal; their names make no difference. *)
Pattern(s) == [i \in DOMAIN s |-> SelectInSeq(s, LAMBDA t : t = s[i])]

(* The operator and its translation are determined by the step. *)
View == <<conv, wasm, Pattern(locals \o operands \o micro.stack), Len(locals), Len(operands),
          micro.live, micro.blocks, micro.ok>>
=============================================================================
