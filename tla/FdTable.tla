------------------------------ MODULE FdTable ------------------------------
(***************************************************************************)
(* The file descriptor table of the C implementation of WASI (posix.c):    *)
(* slots that map a WASI descriptor to a reference-counted object with     *)
(* rights, a lock around the table, and system calls that look an object   *)
(* up under the lock, use its host descriptor with no lock held, and drop  *)
(* their reference.                                                        *)
(*                                                                         *)
(* Everything done between taking the table's lock and releasing it is one *)
(* step, and so is every change of a reference count (an atomic counter).  *)
(* The host's answers, and whether malloc and realloc succeed, are chosen  *)
(* freely.  A call that fails its look-up changes nothing and is no step.  *)
(***************************************************************************)
EXTENDS Integers, FiniteSets

CONSTANTS
    Thread,         \* callers of the library
    Object,         \* fd_objects that can be allocated at a time
    Right,          \* __wasi_rights_t is a subset of these
    OpenRight,      \* __WASI_RIGHT_PATH_OPEN
    PollRight,      \* __WASI_RIGHT_POLL_FD_READWRITE
    Type,           \* what a descriptor may turn out to be, access mode included
    TypeRights,     \* fd_determine_type_rights: the most it may be used for
    Directory,      \* the type of a preopened directory
    StdioType,      \* the type of standard input, output and error
    Stdio,          \* how many of those there are
    Preopens,       \* how many directories are preopened
    Requests,       \* the rights a program asks for
    Slots,          \* how many objects one call can use at a time
    Renumbers,      \* bound: how often descriptors are renumbered
    SizeMax,        \* SIZE_MAX; also the most slots realloc can provide
    None            \* NULL

RightsPair == [base : SUBSET Right, inheriting : SUBSET Right]
Entry == [object : Object, base : SUBSET Right, inheriting : SUBSET Right]

ASSUME FdAssumption ==
    /\ OpenRight \in Right /\ PollRight \in Right
    /\ Directory \in Type /\ StdioType \in Type
    /\ TypeRights \in [Type -> RightsPair]
    /\ TypeRights[Directory].base \subseteq TypeRights[Directory].inheriting
    /\ Stdio \in Nat /\ Preopens \in Nat /\ SizeMax \in Nat /\ Renumbers \in Nat
    /\ Slots \in Nat /\ Slots >= 2
    /\ Requests \subseteq RightsPair
    /\ None \notin Object /\ None \notin Entry /\ None \notin RightsPair
    /\ IsFiniteSet(Thread)

VARIABLES
    entries,   \* ft->entries
    size,      \* ft->size
    used,      \* ft->used
    refcount,  \* of every object; 0 when it is not allocated
    type,      \* fo->type
    number,    \* fo->number, the host descriptor: "stdio", "preopen", "opened"
    inserted,  \* how many descriptors instantiate_wasi_c has inserted
    pc,        \* the step each caller is at
    fos,       \* fos[t, i]: the objects caller t has references to
    request,   \* the rights the descriptor that t opens will have; what it renumbers
    failure,   \* "no", "assert" or "segv"
    renumbered \* history: how often fd_renumber has been called

vars == <<entries, size, used, refcount, type, number, inserted, pc, fos, request, failure,
          renumbered>>

Slot == 1 .. Slots
Held(t) == {i \in Slot : fos[<<t, i>>] # None}

(* The table of preopened resources: filled by instantiate_wasi_c, in *)
(* order, and never changed after that.                               *)
prestats == {fd \in Stdio .. Stdio + Preopens - 1 : fd < inserted}

At(t, step) == failure = "no" /\ inserted = Stdio + Preopens /\ pc[t] = step

fd_table_get_entry(fd, base, inheriting) ==
    /\ fd < size
    /\ entries[fd] # None
    /\ base \subseteq entries[fd].base
    /\ inheriting \subseteq entries[fd].inheriting

(* fd_table_grow: the size is doubled until min fits and, once incr more *)
(* entries are used, no more than half the table is.                     *)
Enough(s, min, incr) == s > min /\ s >= (used + incr) * 2
Doublings ==
    LET first == IF size = 0 THEN 1 ELSE size
    IN  {s \in size .. SizeMax : \E i \in 0 .. SizeMax : s = first * 2 ^ i}

fd_table_grow(s, min, incr) ==
    IF Enough(size, min, incr) THEN s = size
    ELSE /\ s \in Doublings
         /\ Enough(s, min, incr)
         /\ \A r \in Doublings : Enough(r, min, incr) => s <= r

Grown(s) == [fd \in 0 .. s - 1 |-> IF fd < size THEN entries[fd] ELSE None]

Unallocated == {o \in Object : refcount[o] = 0}

(* fd_table_attach, to a table of s slots, with its assertions. *)
fd_table_attach(s, fd, o, rights) ==
    /\ entries' = [Grown(s) EXCEPT ![fd] = [object |-> o, base |-> rights.base,
                                            inheriting |-> rights.inheriting]]
    /\ size' = s
    /\ used' = used + 1
    /\ failure' = IF Grown(s)[fd] = None /\ s >= (used + 1) * 2 THEN failure ELSE "assert"

Init ==
    /\ entries = [fd \in {} |-> None]
    /\ size = 0
    /\ used = 0
    /\ refcount = [o \in Object |-> 0]
    /\ type = [o \in Object |-> Directory]
    /\ number = [o \in Object |-> "opened"]
    /\ inserted = 0
    /\ pc = [t \in Thread |-> "idle"]
    /\ fos = [x \in Thread \X Slot |-> None]
    /\ request = [t \in Thread |-> None]
    /\ failure = "no"
    /\ renumbered = 0

-----------------------------------------------------------------------------
(* instantiate_wasi_c inserts the standard descriptors and the preopened *)
(* directories under the first numbers, before there is any call.        *)
fd_table_insert_existing(o, s) ==
    LET fd == inserted
        preopen == fd >= Stdio
        ty == IF preopen THEN Directory ELSE StdioType
    IN  /\ failure = "no"
        /\ inserted < Stdio + Preopens
        /\ o \in Unallocated
        /\ fd_table_grow(s, fd, 1)
        /\ fd_table_attach(s, fd, o, TypeRights[ty])
        /\ refcount' = [refcount EXCEPT ![o] = 1]
        /\ type' = [type EXCEPT ![o] = ty]
        /\ number' = [number EXCEPT ![o] = IF preopen THEN "preopen" ELSE "stdio"]
        /\ inserted' = inserted + 1
        /\ UNCHANGED <<pc, fos, request>>

-----------------------------------------------------------------------------
(* Mutant: no reference is taken. *)
GetWithoutReference(t, i, fd, base, inheriting) ==
    /\ fd_table_get_entry(fd, base, inheriting)
    /\ fos' = [fos EXCEPT ![<<t, i>>] = entries[fd].object]
    /\ UNCHANGED refcount

(* fd_object_get: look up, take a reference and drop the lock again. *)
fd_object_get(t, i, fd, base, inheriting) ==
    /\ fd_table_get_entry(fd, base, inheriting)
    /\ fos' = [fos EXCEPT ![<<t, i>>] = entries[fd].object]
    /\ refcount' = [refcount EXCEPT ![entries[fd].object] = @ + 1]

(* fd_object_release of what caller t has in place i.  The last reference *)
(* closes the host descriptor and frees the object.                       *)
fd_object_release(t, i) ==
    LET o == fos[<<t, i>>]
    IN  /\ fos' = [fos EXCEPT ![<<t, i>>] = None]
        /\ refcount' = [refcount EXCEPT ![o] = IF @ = 0 THEN 0 ELSE @ - 1]
        /\ failure' = IF refcount[o] = 0 THEN "assert" ELSE failure

Goto(t, step) == pc' = [pc EXCEPT ![t] = step]

(* Every call that uses one descriptor: it gets the object, talks to the *)
(* host and releases the object, whatever the host answered.             *)
fd_call(t, fd, right) ==
    /\ At(t, "idle")
    /\ fd_object_get(t, 1, fd, {right}, {})
    /\ Goto(t, "use")
    /\ UNCHANGED <<entries, size, used, type, number, inserted, request, failure>>

(* So do the calls that resolve one path (path_get holds the directory till *)
(* path_put) and those on sockets.                                          *)
path_call(t, fd, right) == fd_call(t, fd, right)
sock_call(t, fd, right) == fd_call(t, fd, right)

(* path_link and path_rename: two directories, one after the other; when *)
(* the second look-up fails the first is put back.                       *)
path_link(t, fd, right) ==
    /\ At(t, "idle")
    /\ fd_object_get(t, 1, fd, {right}, {})
    /\ Goto(t, "link")
    /\ UNCHANGED <<entries, size, used, type, number, inserted, request, failure>>

path_link_target(t, fd, right) ==
    /\ At(t, "link")
    /\ IF fd_table_get_entry(fd, {right}, {})
       THEN fd_object_get(t, 2, fd, {right}, {}) ELSE UNCHANGED <<fos, refcount>>
    /\ Goto(t, "use")
    /\ UNCHANGED <<entries, size, used, type, number, inserted, request, failure>>

(* poll_oneoff: references to all descriptors subscribed to, under one *)
(* lock; one that is not valid is an event and no reference.           *)
poll_oneoff(t) ==
    /\ At(t, "idle")
    /\ \E fds \in [Slot -> 0 .. size] :
        LET valid == {i \in Slot : fd_table_get_entry(fds[i], {PollRight}, {})}
        IN  /\ valid # {}
            /\ fos' = [x \in Thread \X Slot |->
                          IF x[1] = t /\ x[2] \in valid THEN entries[fds[x[2]]].object
                          ELSE fos[x]]
            /\ refcount' = [o \in Object |->
                   refcount[o] + Cardinality({i \in valid : entries[fds[i]].object = o})]
    /\ Goto(t, "use")
    /\ UNCHANGED <<entries, size, used, type, number, inserted, request, failure>>

(* The end of a call: its references go, one by one, in order. *)
release(t, i) ==
    /\ At(t, "use")
    /\ i \in Held(t) /\ \A j \in Held(t) : i <= j
    /\ fd_object_release(t, i)
    /\ IF Held(t) = {i} THEN Goto(t, "idle") ELSE UNCHANGED pc
    /\ UNCHANGED <<entries, size, used, type, number, inserted, request>>

-----------------------------------------------------------------------------
(* Mutant: the rights to hand down further are not checked. *)
OpenCheckingBaseOnly(t, fd, rights) ==
    /\ At(t, "idle")
    /\ fd_object_get(t, 1, fd, {OpenRight}, rights.base)
    /\ request' = [request EXCEPT ![t] = rights]
    /\ Goto(t, "open")
    /\ UNCHANGED <<entries, size, used, type, number, inserted, failure>>

(* path_open: the rights asked for must be inheritable from the directory. *)
(* (Open flags only add to what the directory must have.)                  *)
path_open(t, fd, rights) ==
    /\ At(t, "idle")
    /\ fd_object_get(t, 1, fd, {OpenRight}, rights.base \cup rights.inheriting)
    /\ request' = [request EXCEPT ![t] = rights]
    /\ Goto(t, "open")
    /\ UNCHANGED <<entries, size, used, type, number, inserted, failure>>

(* openat, which the host refuses below anything but a directory, and *)
(* path_put.                                                          *)
path_open_openat(t) ==
    /\ At(t, "open")
    /\ type[fos[<<t, 1>>]] = Directory
    /\ fd_object_release(t, 1)
    /\ Goto(t, "insert")
    /\ UNCHANGED <<entries, size, used, type, number, inserted, request>>

(* path_get or openat fails: the directory is put back. *)
path_open_fails(t) ==
    /\ At(t, "open")
    /\ request' = [request EXCEPT ![t] = None]
    /\ Goto(t, "use")
    /\ UNCHANGED <<entries, size, used, refcount, type, number, inserted, fos, failure>>

(* fd_table_insert_fd: a new object, in an unused slot picked at random. *)
(* Rights that do not fit the type of what was opened are dropped.       *)
fd_table_insert(t, ty) ==
    /\ At(t, "insert")
    /\ \E o \in Unallocated, s \in 0 .. SizeMax :
        /\ fd_table_grow(s, 0, 1)
        /\ \E fd \in 0 .. s - 1 :
            /\ Grown(s)[fd] = None
            /\ fd_table_attach(s, fd, o,
                   [base |-> request[t].base \cap TypeRights[ty].base,
                    inheriting |-> request[t].inheriting \cap TypeRights[ty].inheriting])
        /\ refcount' = [refcount EXCEPT ![o] = 1]
        /\ type' = [type EXCEPT ![o] = ty]
        /\ number' = [number EXCEPT ![o] = "opened"]
    /\ request' = [request EXCEPT ![t] = None]
    /\ Goto(t, "idle")
    /\ UNCHANGED <<inserted, fos>>

(* fstat, malloc or realloc fails: the host descriptor is closed again. *)
fd_table_insert_fails(t) ==
    /\ At(t, "insert")
    /\ request' = [request EXCEPT ![t] = None]
    /\ Goto(t, "idle")
    /\ UNCHANGED <<entries, size, used, refcount, type, number, inserted, fos, failure>>

-----------------------------------------------------------------------------
(* Mutant: the count of used entries is lowered twice. *)
DetachTwice(t, fd) ==
    /\ entries' = [entries EXCEPT ![fd] = None]
    /\ used' = IF used < 2 THEN SizeMax ELSE used - 2
    /\ fos' = [fos EXCEPT ![<<t, 1>>] = entries[fd].object]
    /\ failure' = IF used = 0 THEN "assert" ELSE failure

(* fd_table_detach: the table's reference passes to caller t. *)
fd_table_detach(t, fd) ==
    /\ entries' = [entries EXCEPT ![fd] = None]
    /\ used' = IF used = 0 THEN SizeMax ELSE used - 1
    /\ fos' = [fos EXCEPT ![<<t, 1>>] = entries[fd].object]
    /\ failure' = IF used = 0 THEN "assert" ELSE failure

(* A preopened descriptor cannot be closed. *)
fd_close(t, fd) ==
    /\ At(t, "idle")
    /\ fd \notin prestats
    /\ fd_table_get_entry(fd, {}, {})
    /\ fd_table_detach(t, fd)
    /\ Goto(t, "use")
    /\ UNCHANGED <<size, refcount, type, number, inserted, request>>

fd_fdstat_set_rights(t, fd, rights) ==
    /\ At(t, "idle")
    /\ fd_table_get_entry(fd, rights.base, rights.inheriting)
    /\ entries' = [entries EXCEPT ![fd].base = rights.base,
                                  ![fd].inheriting = rights.inheriting]
    /\ UNCHANGED <<size, used, refcount, type, number, inserted, pc, fos, request, failure>>

(* fd_renumber, up to the first time it releases the table's lock.  When  *)
(* from and to are the same, the look-up has been undone by the detaching *)
(* and a null pointer is followed.                                        *)
fd_renumber(t, from, to) ==
    LET o == entries[from].object
    IN  /\ At(t, "idle")
        /\ renumbered < Renumbers
        /\ renumbered' = renumbered + 1
        /\ {from, to} \cap prestats = {}
        /\ fd_table_get_entry(from, {}, {})
        /\ fd_table_get_entry(to, {}, {})
        /\ IF from = to
           THEN /\ fd_table_detach(t, to) /\ failure' = "segv"
                /\ UNCHANGED <<refcount, pc, request>>
           ELSE /\ entries' = [entries EXCEPT ![to] = entries[from]]
                /\ refcount' = [refcount EXCEPT ![o] = @ + 1]
                /\ fos' = [fos EXCEPT ![<<t, 1>>] = entries[to].object]
                /\ request' = [request EXCEPT ![t] = [from |-> from]]
                /\ failure' = IF used > 0 /\ size >= used * 2 THEN failure ELSE "assert"
                /\ Goto(t, "renumber")
                /\ UNCHANGED used
        /\ UNCHANGED <<size, type, number, inserted>>

renumber_release(t) ==
    /\ At(t, "renumber")
    /\ fd_object_release(t, 1)
    /\ Goto(t, "renumber_detach")
    /\ UNCHANGED <<entries, size, used, type, number, inserted, request, renumbered>>

(* The rest, which runs with the lock released: the slot is emptied, the  *)
(* count of used slots is lowered by detaching and once more, and the     *)
(* lock is released again, taken here to have no effect.                  *)
renumber_detach(t) ==
    LET from == request[t].from
        o == entries[from].object
    IN  /\ At(t, "renumber_detach")
        /\ request' = [request EXCEPT ![t] = None]
        /\ Goto(t, "idle")
        /\ IF entries[from] = None \/ used = 0
           THEN failure' = "assert" /\ UNCHANGED <<entries, used, refcount>>
           ELSE /\ entries' = [entries EXCEPT ![from] = None]
                /\ used' = IF used = 1 THEN SizeMax ELSE used - 2
                /\ refcount' = [refcount EXCEPT ![o] = @ - 1]
                /\ UNCHANGED failure
        /\ UNCHANGED <<size, type, number, inserted, fos, renumbered>>

(* A descriptor beyond the table fails its look-up. *)
Calls ==
    \/ \E o \in Object, s \in 0 .. SizeMax : fd_table_insert_existing(o, s)
    \/ \E t \in Thread : /\ At(t, "idle")
                        /\ \E fd \in DOMAIN entries :
                               \/ \E r \in Right : \/ fd_call(t, fd, r) \/ path_call(t, fd, r)
                                                   \/ sock_call(t, fd, r) \/ path_link(t, fd, r)
                               \/ \E rs \in Requests : \/ path_open(t, fd, rs)
                                                       \/ fd_fdstat_set_rights(t, fd, rs)
                               \/ fd_close(t, fd)
    \/ \E t \in Thread, fd \in 0 .. size, r \in Right : path_link_target(t, fd, r)
    \/ \E t \in Thread : poll_oneoff(t)
    \/ \E t \in Thread, i \in Slot : release(t, i)
    \/ \E t \in Thread : path_open_openat(t) \/ path_open_fails(t) \/ fd_table_insert_fails(t)
    \/ \E t \in Thread, ty \in Type : fd_table_insert(t, ty)

Next ==
    \/ Calls /\ UNCHANGED renumbered
    \/ \E t \in Thread : /\ At(t, "idle")
                        /\ \E from, to \in DOMAIN entries : fd_renumber(t, from, to)
    \/ \E t \in Thread : renumber_release(t) \/ renumber_detach(t)

Spec == Init /\ [][Next]_vars

-----------------------------------------------------------------------------

TypeOK ==
    /\ size \in Nat
    /\ entries \in [0 .. size - 1 -> Entry \cup {None}]
    /\ used \in Nat
    /\ refcount \in [Object -> Nat]
    /\ type \in [Object -> Type]
    /\ number \in [Object -> {"stdio", "preopen", "opened"}]
    /\ inserted \in 0 .. Stdio + Preopens
    /\ pc \in [Thread -> {"idle", "use", "link", "open", "insert", "renumber",
                         "renumber_detach"}]
    /\ fos \in [Thread \X Slot -> Object \cup {None}]
    /\ request \in [Thread -> RightsPair \cup [from : Nat] \cup {None}]
    /\ failure \in {"no", "assert", "segv"}
    /\ renumbered \in 0 .. Renumbers

Occupied == {fd \in 0 .. size - 1 : entries[fd] # None}
NamedBy(o) == {fd \in Occupied : entries[fd].object = o}
HeldBy(o) == {x \in Thread \X Slot : fos[x] = o}

(* The reference count of an object is the number of descriptors that name  *)
(* it and of calls that use it: a call never uses a host descriptor that    *)
(* another caller's fd_close or fd_renumber has closed, and none is left    *)
(* open unreachable.                                                        *)
RefcountExact ==
    \A o \in Object : refcount[o] = Cardinality(NamedBy(o)) + Cardinality(HeldBy(o))

(* In whatever order callers open, use, close and poll descriptors, the     *)
(* table's count of used entries is right, at least half of the table is    *)
(* free, so that picking a slot at random comes to an end, and no assertion *)
(* of fd_table_attach, fd_table_detach or refcount_release fails.  That is  *)
(* so until the first fd_renumber, which counts the entry it frees twice.   *)
NoAssertionFails ==
    renumbered = 0 => /\ used = Cardinality(Occupied) /\ 2 * used <= size
                      /\ failure # "assert"

(* A descriptor that was opened by path has no right that the preopened    *)
(* directories did not hand down, even when rights are restricted or the   *)
(* directory is closed while it is being opened.                           *)
RightsComeFromPreopens ==
    \A fd \in Occupied :
        number[entries[fd].object] # "stdio" =>
            /\ entries[fd].base \subseteq TypeRights[Directory].inheriting
            /\ entries[fd].inheriting \subseteq TypeRights[Directory].inheriting

=============================================================================
