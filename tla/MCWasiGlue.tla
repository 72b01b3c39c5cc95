---------------------------- MODULE MCWasiGlue -----------------------------
(* A scale model of the types: cells of two bytes or so, 64-bit numbers and *)
(* structures aligned to four cells, a memory of 8 cells that may grow to   *)
(* 12, and what lies beyond it.                                             *)
EXTENDS WasiGlue

MCSizeOf == [t \in Type |->
    CASE t \in {"char", "roflags"} -> 1 [] t = "u32" -> 2 [] OTHER -> 4]

MCAlignOf == [t \in Type |->
    CASE t \in {"char", "roflags"} -> 1 [] t \in {"u32", "prestat", "iovec"} -> 2 [] OTHER -> 4]

MCPtr == 0 .. 10
MCLength == {8, 12}
MCAddress == 0 .. 27

MCIovecs == {<< >>, <<Region(1, 3)>>, <<Region(7, 2)>>, <<Region(20, 0), Region(4, 2)>>,
             <<Region(2, 2), Region(11, 1)>>}

MCArgv == <<1, 0>>
MCEnviron == <<1>>
=============================================================================
