---------------------------- MODULE MCLightbeam ----------------------------
EXTENDS Lightbeam

Op(name, pops, pushes) == [name |-> name, pops |-> pops, pushes |-> pushes]

MCPlain ==
    {Op("get_global", 0, 1), Op("add", 2, 1), Op("set_global_imported", 1, 0), Op("call", 1, 1),
     Op("call_indirect", 2, 0)}

(* Two locals and three operands are more than the registers hold. *)
MCMaxOperands == <<3, 1>>

AllBranches ==
    {"br", "br_if", "br_table"} \X {"function", "block", "loop", "if", "else"} \X {0, 1}

(* All but conditional branches to a label inside the function. *)
MCUntidy == {b \in AllBranches : b[1] = "br" \/ b[2] = "function"}

(* Which tokens are equal; their names make no difference. *)
Pattern(s) == [i \in DOMAIN s |-> SelectInSeq(s, LAMBDA t : t = s[i])]

(* Constants are known by the values they are. *)
Known(locs) == [i \in DOMAIN locs |-> IF locs[i].at = "imm" THEN Imm(First(locs, i)) ELSE locs[i]]

(* What the machine holds is what the locations say, as long as LocationsHold *)
(* does.                                                                      *)
View == <<code = code, ops = ops, op = op, LocationsHold, conv, wasm, Known(code.ctx.stack), code.ctx.depth, Pattern(code.vals),
          [l \in DOMAIN code.blocks |-> [code.blocks[l] EXCEPT !.cc.locs = Known(@)]],
          code.live, code.skipping, code.delivered, code.unsupported, code.ctx.panic>>

IntegerArgsInGprs == <<6, 2, 1>>
=============================================================================
