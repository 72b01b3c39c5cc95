------------------------------ MODULE HostRef ------------------------------
(***************************************************************************)
(* The memory of the C API (wasmtime-api/src/wasm.rs, ref.rs).  The client *)
(* has pointers to boxes; a box has a HostRef, a counted reference, to an  *)
(* object; objects have counted references to other objects, and plain     *)
(* pointers, which nothing counts, to what other objects own.              *)
(*                                                                         *)
(* References are fixed when an object is made and never go round in a     *)
(* circle, so an object lives as long as some box or some call in progress *)
(* reaches it; what it reaches is recorded once, as "keeps".  The weak     *)
(* reference from an object back to its AnyRef is the AnyRef that exists.  *)
(***************************************************************************)
EXTENDS Naturals, Sequences, FiniteSets, TLC, SequencesExt

CONSTANTS
    Info,      \* what the client attaches with a finalizer
    Bounds,    \* how many boxes and objects of a kind there may be, and which modules
    Rules,     \* what the client keeps to: see RuleNames
    None

(* What the code needs of its client, beyond deleting only what it owns.   *)
RuleNames ==
    {"functions",  \* keeps a function, by itself, while it is in a table
     "definitions",\* keeps a global it made while an instance imports it
     "globals",    \* keeps the instance whose exported global it uses
     "arguments",  \* deletes no function while it is being called
     "start",      \* from a start function, makes and calls no function
     "calling",    \* makes no reference to a function that is being called
     "reexports",  \* leaves tables and memories alone that were re-exported
     "bounds",     \* gets no item beyond the end of a table
     "info",       \* sets the host info of an instance once
     "kinds"}      \* asks for what an extern or a type really is

Kinds == {"engine", "store", "module", "instance", "func", "global", "table", "memory",
          "extern", "trap", "ref", "vec", "bytes", "valtype", "functype", "globaltype",
          "tabletype", "memorytype", "limits", "externtype", "importtype", "exporttype"}

Objects == {"engine", "store", "compiler", "module", "instance", "func", "global", "table",
            "memory", "trap", "anyref", "callable", "inst"}

ASSUME HostRefAssumption ==
    /\ \A b \in Bounds : b.boxes \in [Kinds -> Nat] /\ b.objects \in [Objects -> Nat]
    /\ Rules \subseteq RuleNames
    /\ None \notin Nat \cup Info \cup Kinds

VARIABLES
    heap,       \* by address, the boxes and what is cached inside of them
    obj,        \* by address, the objects: ContentBox, runtime Instance, Rc
    owned,      \* the client's pointers to boxes it has to delete
    lent,       \* the client's pointers into boxes, or into vectors
    calls,      \* calls in progress, the innermost last
    finalized,  \* how often its finalizer has run; None: not given yet
    panicked,
    bound

vars == <<heap, obj, owned, lent, calls, finalized, panicked, bound>>

Without(f, gone) == [a \in DOMAIN f \ gone |-> f[a]]

(* An address that is free.  Which one is of no consequence. *)
Fresh(f, k) ==
    <<k, CHOOSE n \in 1 .. Cardinality(DOMAIN f) + 1 :
            <<k, n>> \notin DOMAIN f /\ \A m \in 1 .. n - 1 : <<k, m>> \in DOMAIN f>>
NewAddr(k) == Fresh(heap, k)
NewId(k) == Fresh(obj, k)

(* A box of kind k: the object it refers to, the boxes it is inside of, the *)
(* place it has in the innermost of them, the elements of a vector that    *)
(* are boxes of their own, and what there is to know about a type.         *)
Box(k, i) == [kind |-> k, obj |-> i, under |-> {}, slot |-> None, elems |-> {}, type |-> None]
Type(k, t) == [Box(k, None) EXCEPT !.type = t]
Inside(a, outer, s, box) == [box EXCEPT !.under = {a} \cup outer, !.slot = <<a, s>>]

(* The objects that the boxes h and the calls c reach among the objects o. *)
Reached(h, o, c) ==
    UNION {o[i].keeps : i \in ({h[a].obj : a \in DOMAIN h} \ {None})
                                 \cup UNION {c[k].holds : k \in DOMAIN c}}

(* Those, and the traps that host functions have kept. *)
Lives(o, r) == r \cup ({o[i].trap : i \in r} \ {None})

(* Everything a step does to memory: what is reached by no one is dropped, *)
(* and the finalizer of what was attached to it runs.                      *)
Settle(h, o, c) ==
    \E live \in {Lives(o, Reached(h, o, c))} :
        /\ \A k \in Objects : Cardinality({i \in live : o[i].kind = k}) <= bound.objects[k]
        /\ heap' = h
        /\ calls' = c
        /\ obj' = Without(o, DOMAIN o \ live)
        /\ finalized' = [e \in Info |->
              IF finalized[e] # None
              THEN finalized[e] + Cardinality({i \in DOMAIN o \ live : o[i].info = e})
              ELSE IF \E i \in live : o[i].info = e THEN 0 ELSE None]
        /\ UNCHANGED <<panicked, bound>>

Panic ==
    /\ panicked' = TRUE
    /\ UNCHANGED <<heap, obj, owned, lent, calls, finalized, bound>>

(* A client that keeps to the rule does not get here when it is bad. *)
Avoids(rule, bad) == rule \in Rules => ~bad

(* The client keeps what the code does not, once it has only the boxes h.  *)
Has(h, o, i) ==
    \E a \in DOMAIN h : h[a].obj = i \/ (h[a].obj # None /\ o[h[a].obj].of = i)

Keeps(h, o, c) ==
    \A i \in Reached(h, o, c) :
        /\ "functions" \in Rules =>
              (\A k \in DOMAIN o[i].items : o[i].items[k] # None => Has(h, o, o[i].items[k].func))
        /\ "definitions" \in Rules =>
              (\A g \in o[i].uses : o[i].kind = "inst" /\ g \in DOMAIN o /\ o[g].kind = "global" => Has(h, o, g))
        /\ "globals" \in Rules =>
              (o[i].from # None => Has(h, o, o[i].from))

-----------------------------------------------------------------------------
(* The client calls, from outside or from a callback. *)
ClientRuns ==
    /\ ~panicked
    /\ calls # <<>> => obj[Last(Last(calls).path)].host

Pointers == owned \cup lent
Of(k) == {a \in Pointers : heap[a].kind = k}
Owned(k) == {a \in owned : heap[a].kind = k}

Room(k) == Cardinality({a \in DOMAIN heap : heap[a].kind = k}) < bound.boxes[k]

(* Box::into_raw: the client owns one more box. *)
Give(box, new) ==
    /\ Room(box.kind)
    /\ owned' = owned \cup {NewAddr(box.kind)}
    /\ lent' = lent
    /\ Settle(NewAddr(box.kind) :> box @@ heap, new @@ obj, calls)

(* set_buffer: a vector that owns its elements.  Bound: one element. *)
Element(boxes, a, outer) ==
    IF boxes = <<>> THEN <<>> ELSE NewAddr(boxes[1].kind) :> Inside(a, outer, "element", boxes[1])
RoomFor(boxes) == \A n \in DOMAIN boxes : Room(boxes[n].kind)
GiveVector(k, boxes) ==
    /\ Room("vec") /\ RoomFor(boxes)
    /\ owned' = owned \cup {NewAddr("vec")}
    /\ lent' = lent \cup DOMAIN Element(boxes, NewAddr("vec"), {})
    /\ Settle(NewAddr("vec") :> Type("vec", k) @@ Element(boxes, NewAddr("vec"), {}) @@ heap, obj, calls)

(* Box::from_raw, and the end of its scope: the box goes with all in it. *)
Within(a) == {b \in DOMAIN heap : b = a \/ a \in heap[b].under}
Take(a, o) ==
    /\ Keeps(Without(heap, Within(a)), o, calls)
    /\ Avoids("arguments", \E k \in DOMAIN calls : calls[k].box \in Within(a))
    /\ owned' = owned \ {a}
    /\ lent' = lent \ Within(a)
    /\ Settle(Without(heap, Within(a)), o, calls)
Drop(a) == Take(a, obj)

(* A cache in the box a: made when first asked for, then always the same;  *)
(* boxes are the elements of a vector that is cached.                      *)
Cached(a, s) == {b \in DOMAIN heap : heap[b].slot = <<a, s>>}
Lend(a, s, box, boxes) ==
    \/ /\ Cached(a, s) # {}
       /\ lent' = lent \cup Cached(a, s) \cup UNION {Within(b) : b \in Cached(a, s)}
       /\ UNCHANGED <<heap, obj, owned, calls, finalized, panicked, bound>>
    \/ /\ Cached(a, s) = {}
       /\ Room(box.kind) /\ RoomFor(boxes)
       /\ owned' = owned
       /\ \E new \in {NewAddr(box.kind) :> Inside(a, heap[a].under, s, box)
                      @@ Element(boxes, NewAddr(box.kind), {a} \cup heap[a].under)} :
             /\ lent' = lent \cup DOMAIN new
             /\ Settle(new @@ heap, obj, calls)

-----------------------------------------------------------------------------
(* RefCell: what calls in progress have borrowed. *)
Borrowed == UNION {calls[k].borrows : k \in DOMAIN calls}
borrow_fails(i) == <<i, "mut">> \in Borrowed
borrow_mut_fails(i) == \E m \in {"ref", "mut"} : <<i, m>> \in Borrowed

Blank ==
    [kind |-> None, keeps |-> {}, uses |-> {}, info |-> None, trap |-> None, items |-> <<>>,
     of |-> None, from |-> None, vmctx |-> None, home |-> None, handle |-> None,
     store |-> None, native |-> FALSE, host |-> FALSE, compiler |-> None, shape |-> None,
     exports |-> <<>>]

KeptBy(held) == UNION {obj[i].keeps : i \in held}

(* A new object of kind k, with references to held and to the new ones. *)
Object(k, held, new) ==
    [Blank EXCEPT !.kind = k, !.keeps = {NewId(k)} \cup KeptBy(held) \cup new]

(* HostRef::anyref: the one there is, or a new one. *)
AnyRefs(i) == {r \in DOMAIN obj : obj[r].kind = "anyref" /\ obj[r].of = i}
AnyRef(i, kept) == [Object("anyref", {}, kept) EXCEPT !.of = i]
=============================================================================
