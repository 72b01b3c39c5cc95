------------------------------ MODULE WasiGlue ------------------------------
(***************************************************************************)
(* The system calls of wasmtime-wasi-c, between the guest's 32-bit         *)
(* pointers and the host functions.  A system call decodes its arguments   *)
(* one after the other, and returns the first error; then it calls the     *)
(* host, which may fill buffers of the guest through the pointers it got;  *)
(* then it encodes the results, most of them only when the host succeeded. *)
(* Each is here the sequence of its steps, in the order of the source.     *)
(*                                                                         *)
(* Memory is counted in cells, of which SizeOf says how many a type takes. *)
(* Addresses start at the memory's base; those from current_length on are  *)
(* the host's.  Numbers, flags, rights and file descriptors only pass      *)
(* through and are left out.  A cell has what the guest had there, what    *)
(* the host filled in, a result, or a guest pointer.                       *)
(***************************************************************************)
EXTENDS Naturals, Sequences

CONSTANTS
    SizeOf, AlignOf,  \* of the types in guest memory
    Ptr,              \* bound: the pointers the guest passes
    Length,           \* bound: the lengths a memory may have
    MaxLen,           \* bound: the length of strings and arrays passed
    Iovecs,           \* bound: the arrays of iovec_t the guest has in memory
    MaxEvents,        \* bound: the events poll_oneoff reports
    Address,          \* bound: the cells there are, the guest's and others
    Argv, Environ,    \* the lengths of the arguments, and of the variables
    None

Type == {"char", "u32", "u64", "roflags", "prestat", "fdstat", "filestat",
         "iovec", "subscription", "event"}

ASSUME WasiGlueAssumption ==
    /\ SizeOf \in [Type -> Nat \ {0}] /\ AlignOf \in [Type -> Nat \ {0}]
    /\ \A t \in Type : SizeOf[t] % AlignOf[t] = 0
    /\ Ptr \cup Length \cup Address \cup {MaxLen, MaxEvents} \subseteq Nat
    /\ \A n \in Length : \A a \in 0 .. n - 1 : a \in Address
    /\ {Argv, Environ} \subseteq Seq(Nat)

VARIABLES
    mem,             \* the cells
    current_length,  \* of the VMMemoryDefinition
    export,          \* lookup_global_export("memory"): "none", "one", "ambiguous"
    call             \* the system call in progress

vars == <<mem, current_length, export, call>>

Old == <<"guest">>           \* what the guest had there
Filled == <<"host">>         \* what the host wrote into a buffer
Result(k) == <<"result", k>> \* the k-th result
Default(k) == <<"default", k>> \* what it was initialized to
Pointer(p) == <<"pointer", p>>

Region(p, n) == [at |-> p, len |-> n]
ObjectAt(p, t) == Region(p, SizeOf[t])
Array(p, n, t) == Region(p, n * SizeOf[t])
Cells(r) == r.at .. r.at + r.len - 1

Init ==
    /\ mem = [a \in Address |-> Old]
    /\ current_length \in Length
    /\ export \in {"none", "one"}
    /\ call = None

-----------------------------------------------------------------------------
(* translate.rs *)

(* Mutant: the end of the access may be one past the end. *)
DecodeOffByOne(p, len, align) ==
    IF export # "one" THEN "EINVAL"
    ELSE IF len > 0 /\ p + (len - 1) > current_length THEN "EFAULT"
    ELSE IF p % align # 0 THEN "EINVAL"
    ELSE "ok"

(* The sum of a 32-bit pointer and a length does not overflow a usize. *)
decode_ptr(p, len, align) ==
    IF export # "one" THEN "EINVAL"
    ELSE IF len > 0 /\ p + (len - 1) >= current_length THEN "EFAULT"
    ELSE IF p % align # 0 THEN "EINVAL"
    ELSE "ok"

Decode(r, align) == [op |-> "decode", r |-> r, align |-> align]

decode_pointee(p, t) == <<Decode(ObjectAt(p, t), AlignOf[t])>>

decode_slice_of(p, n, t) == <<Decode(Array(p, n, t), AlignOf[t])>>

decode_char_slice(s) == decode_slice_of(s.at, s.len, "char")

decode_charstar_slice(p, n) == decode_slice_of(p, n, "u32")

(* decode_iovec, of one element: the buffer it points to. *)
decode_iovec(iov) == Decode(iov, 1)

decode_iovec_slice(p, iovs) ==
    decode_slice_of(p, Len(iovs), "iovec") \o [i \in DOMAIN iovs |-> decode_iovec(iovs[i])]

(* Mutant: the array is checked, and not what it points to. *)
DecodeArrayOnly(p, iovs) == decode_slice_of(p, Len(iovs), "iovec")

decode_ciovec_slice(p, iovs) ==
    decode_slice_of(p, Len(iovs), "iovec") \o [i \in DOMAIN iovs |-> decode_iovec(iovs[i])]

(* decode_subscription knows three types of events. *)
decode_subscription(known) == [op |-> "subscription", known |-> known]

decode_subscription_slice(p, subs) ==
    decode_slice_of(p, Len(subs), "subscription")
        \o [i \in DOMAIN subs |-> decode_subscription(subs[i])]

decode_event_slice(p, n) == decode_slice_of(p, n, "event")

(* encode_pointee decodes the pointer again, and unwraps. *)
Encode(p, t, k, always) ==
    <<[op |-> "encode", r |-> ObjectAt(p, t), align |-> AlignOf[t], k |-> k,
       always |-> always]>>

(* The encode_*_byref functions, under "if e == ESUCCESS", and without. *)
encode_byref(p, t, k) == Encode(p, t, k, FALSE)
encode_byref_always(p, t, k) == Encode(p, t, k, TRUE)

(* encode_charstar_slice: pointers into the host's copy of the buffer become *)
(* pointers into the guest's, and the NULL at the end becomes 0.             *)
encode_charstar_slice(p, offsets, base) ==
    [i \in 1 .. Len(offsets) + 1 |->
        [op |-> "write", r |-> ObjectAt(p + (i - 1) * SizeOf["u32"], "u32"),
         value |-> Pointer(IF i <= Len(offsets) THEN base + offsets[i] ELSE 0)]]

(* encode_event_slice: add(), on a pointer to an event, counts in events. *)
encode_event_slice(p, n, k) ==
    [i \in 1 .. n |->
        [op |-> "event", i |-> i, k |-> k + i,
         r |-> ObjectAt(p + (i - 1) * SizeOf["event"] * SizeOf["event"], "event")]]

-----------------------------------------------------------------------------
(* The arguments and the environment *)

(* allocate_argv_environ: where each string starts, after the strings before *)
(* it and their ends; `extra` counts the characters added to each.           *)
Offset[strings \in Seq(Nat), extra \in Nat, i \in Nat] ==
    IF i = 1 THEN 0 ELSE Offset[strings, extra, i - 1] + strings[i - 1] + extra

allocate_argv_environ(strings, extra) ==
    [offsets |-> [i \in DOMAIN strings |-> Offset[strings, extra, i]],
     size |-> Offset[strings, extra, Len(strings) + 1]]

argv == allocate_argv_environ(Argv, 1)
environ == allocate_argv_environ(Environ, 2)

-----------------------------------------------------------------------------
(* syscalls.rs.  A region is a pointer with the length passed beside it.     *)

(* A call of the host, with the memory it gets to read and to fill. *)
Host(reads, fills) == <<[op |-> "host", reads |-> reads, fills |-> fills, events |-> 0]>>

args_get(p, buf) ==
    decode_char_slice(Region(buf, argv.size))
        \o decode_charstar_slice(p, Len(Argv) + 1)
        \o Host(<< >>, <<Region(buf, argv.size)>>)
        \o encode_charstar_slice(p, argv.offsets, buf)

args_sizes_get(argc, size) ==
    decode_pointee(argc, "u32") \o decode_pointee(size, "u32") \o Host(<< >>, << >>)
        \o encode_byref(argc, "u32", 1) \o encode_byref(size, "u32", 2)

clock_res_get(p) ==
    decode_pointee(p, "u64") \o Host(<< >>, << >>) \o encode_byref(p, "u64", 1)

clock_time_get(p) ==
    decode_pointee(p, "u64") \o Host(<< >>, << >>) \o encode_byref(p, "u64", 1)

environ_get(p, buf) ==
    decode_char_slice(Region(buf, environ.size))
        \o decode_charstar_slice(p, Len(Environ) + 1)
        \o Host(<< >>, <<Region(buf, environ.size)>>)
        \o encode_charstar_slice(p, environ.offsets, buf)

environ_sizes_get(count, size) ==
    decode_pointee(count, "u32") \o decode_pointee(size, "u32") \o Host(<< >>, << >>)
        \o encode_byref(count, "u32", 1) \o encode_byref(size, "u32", 2)

fd_prestat_get(p) ==
    decode_pointee(p, "prestat") \o Host(<< >>, << >>) \o encode_byref_always(p, "prestat", 1)

fd_prestat_dir_name(path) == decode_char_slice(path) \o Host(<< >>, <<path>>)

fd_pread(p, iovs, nread) ==
    decode_iovec_slice(p, iovs) \o decode_pointee(nread, "u32")
        \o Host(<< >>, iovs) \o encode_byref(nread, "u32", 1)

fd_pwrite(p, iovs, nwritten) ==
    decode_ciovec_slice(p, iovs) \o decode_pointee(nwritten, "u32")
        \o Host(iovs, << >>) \o encode_byref(nwritten, "u32", 1)

(* Mutant: the place of the result is looked at when there is a result. *)
ReadThenDecode(p, iovs, nread) ==
    decode_iovec_slice(p, iovs) \o Host(<< >>, iovs)
        \o decode_pointee(nread, "u32") \o encode_byref(nread, "u32", 1)

fd_read(p, iovs, nread) ==
    decode_iovec_slice(p, iovs) \o decode_pointee(nread, "u32")
        \o Host(<< >>, iovs) \o encode_byref(nread, "u32", 1)

fd_seek(p) ==
    decode_pointee(p, "u64") \o Host(<< >>, << >>) \o encode_byref(p, "u64", 1)

fd_tell(p) ==
    decode_pointee(p, "u64") \o Host(<< >>, << >>) \o encode_byref(p, "u64", 1)

fd_fdstat_get(p) ==
    decode_pointee(p, "fdstat") \o Host(<< >>, << >>) \o encode_byref(p, "fdstat", 1)

fd_write(p, iovs, nwritten) ==
    decode_ciovec_slice(p, iovs) \o decode_pointee(nwritten, "u32")
        \o Host(iovs, << >>) \o encode_byref(nwritten, "u32", 1)

path_create_directory(path) == decode_char_slice(path) \o Host(<<path>>, << >>)

path_link(path0, path1) ==
    decode_char_slice(path0) \o decode_char_slice(path1) \o Host(<<path0, path1>>, << >>)

path_open(path, fd) ==
    decode_char_slice(path) \o decode_pointee(fd, "u32") \o Host(<<path>>, << >>)
        \o encode_byref_always(fd, "u32", 1)

fd_readdir(buf, buf_used) ==
    decode_char_slice(buf) \o decode_pointee(buf_used, "u32")
        \o Host(<< >>, <<buf>>) \o encode_byref(buf_used, "u32", 1)

path_readlink(path, buf, buf_used) ==
    decode_char_slice(path) \o decode_char_slice(buf) \o decode_pointee(buf_used, "u32")
        \o Host(<<path>>, <<buf>>) \o encode_byref(buf_used, "u32", 1)

path_rename(path0, path1) ==
    decode_char_slice(path0) \o decode_char_slice(path1) \o Host(<<path0, path1>>, << >>)

fd_filestat_get(p) ==
    decode_pointee(p, "filestat") \o Host(<< >>, << >>) \o encode_byref(p, "filestat", 1)

path_filestat_get(path, p) ==
    decode_char_slice(path) \o decode_pointee(p, "filestat")
        \o Host(<<path>>, << >>) \o encode_byref(p, "filestat", 1)

path_filestat_set_times(path) == decode_char_slice(path) \o Host(<<path>>, << >>)

path_symlink(path0, path1) ==
    decode_char_slice(path0) \o decode_char_slice(path1) \o Host(<<path0, path1>>, << >>)

path_unlink_file(path) == decode_char_slice(path) \o Host(<<path>>, << >>)

path_remove_directory(path) == decode_char_slice(path) \o Host(<<path>>, << >>)

(* As many events as subscriptions; the host reports the first nevents. *)
poll_oneoff(in, out, subs, nevents) ==
    decode_subscription_slice(in, subs) \o decode_event_slice(out, Len(subs))
        \o decode_pointee(nevents, "u32")
        \o <<[op |-> "host", reads |-> << >>, fills |-> << >>, events |-> Len(subs)]>>
        \o encode_byref(nevents, "u32", 1) \o encode_event_slice(out, Len(subs), 1)

random_get(buf) == decode_char_slice(buf) \o Host(<< >>, <<buf>>)

(* Mutant: the two results are swapped. *)
RecvSwapped(p, iovs, datalen, flags) ==
    decode_iovec_slice(p, iovs) \o decode_pointee(datalen, "u32")
        \o decode_pointee(flags, "roflags") \o Host(<< >>, iovs)
        \o encode_byref(datalen, "roflags", 2) \o encode_byref(flags, "roflags", 1)

sock_recv(p, iovs, datalen, flags) ==
    decode_iovec_slice(p, iovs) \o decode_pointee(datalen, "u32")
        \o decode_pointee(flags, "roflags") \o Host(<< >>, iovs)
        \o encode_byref(datalen, "u32", 1) \o encode_byref(flags, "roflags", 2)

sock_send(p, iovs, datalen) ==
    decode_ciovec_slice(p, iovs) \o decode_pointee(datalen, "u32")
        \o Host(iovs, << >>) \o encode_byref(datalen, "u32", 1)

(* The calls without pointers. *)
fd_close == Host(<< >>, << >>)
fd_datasync == Host(<< >>, << >>)
fd_renumber == Host(<< >>, << >>)
fd_fdstat_set_flags == Host(<< >>, << >>)
fd_fdstat_set_rights == Host(<< >>, << >>)
fd_sync == Host(<< >>, << >>)
fd_advise == Host(<< >>, << >>)
fd_allocate == Host(<< >>, << >>)
fd_filestat_set_times == Host(<< >>, << >>)
fd_filestat_set_size == Host(<< >>, << >>)
sched_yield == Host(<< >>, << >>)
sock_shutdown == Host(<< >>, << >>)

-----------------------------------------------------------------------------
(* What the interface says of a call's outputs: the buffers the host fills   *)
(* and the results, in the order in which they are stored.  An event i is a  *)
(* result if the host reports that many (i = 0 for what is always there).    *)

Out(p, t, k) == [r |-> ObjectAt(p, t), value |-> Result(k), event |-> 0]

OutEvents(p, n, k) ==
    [i \in 1 .. n |-> [r |-> ObjectAt(p + (i - 1) * SizeOf["event"], "event"),
                       value |-> Result(k + i), event |-> i]]

OutPointers(p, offsets, base) ==
    [i \in 1 .. Len(offsets) + 1 |->
        [r |-> ObjectAt(p + (i - 1) * SizeOf["u32"], "u32"),
         value |-> Pointer(IF i <= Len(offsets) THEN base + offsets[i] ELSE 0),
         event |-> 0]]

(* The cells a call may change. *)
Outputs(c) ==
    UNION ({Cells(c.fills[i]) : i \in DOMAIN c.fills}
               \cup {Cells(c.results[i].r) : i \in DOMAIN c.results})

(* The guest calls, with its memory as it has left it. *)
Enter(fills, results, steps) ==
    /\ call' = [fills |-> fills, results |-> results, steps |-> steps, pc |-> 1,
                errno |-> "ESUCCESS", outcome |-> "running", host |-> FALSE, events |-> 0]
    /\ UNCHANGED <<mem, current_length, export>>

Strings == [at : Ptr, len : 0 .. MaxLen]
Subscriptions == UNION {[1 .. n -> BOOLEAN] : n \in 0 .. MaxLen}

Syscall ==
    /\ call = None
    /\ \/ \E p, q \in Ptr :
             \/ Enter(<<Region(q, argv.size)>>, OutPointers(p, argv.offsets, q), args_get(p, q))
             \/ Enter(<<Region(q, environ.size)>>, OutPointers(p, environ.offsets, q),
                      environ_get(p, q))
             \/ Enter(<< >>, <<Out(p, "u32", 1), Out(q, "u32", 2)>>, args_sizes_get(p, q))
             \/ Enter(<< >>, <<Out(p, "u32", 1), Out(q, "u32", 2)>>, environ_sizes_get(p, q))
       \/ \E p \in Ptr :
             \/ \E s \in {clock_res_get(p), clock_time_get(p), fd_seek(p), fd_tell(p)} :
                    Enter(<< >>, <<Out(p, "u64", 1)>>, s)
             \/ Enter(<< >>, <<Out(p, "prestat", 1)>>, fd_prestat_get(p))
             \/ Enter(<< >>, <<Out(p, "fdstat", 1)>>, fd_fdstat_get(p))
             \/ Enter(<< >>, <<Out(p, "filestat", 1)>>, fd_filestat_get(p))
       \/ \E p, q \in Ptr, iovs \in Iovecs :
             \/ \E s \in {fd_read(p, iovs, q), fd_pread(p, iovs, q)} :
                    Enter(iovs, <<Out(q, "u32", 1)>>, s)
             \/ \E s \in {fd_write(p, iovs, q), fd_pwrite(p, iovs, q), sock_send(p, iovs, q)} :
                    Enter(<< >>, <<Out(q, "u32", 1)>>, s)
             \/ \E r \in Ptr : Enter(iovs, <<Out(q, "u32", 1), Out(r, "roflags", 2)>>,
                                     sock_recv(p, iovs, q, r))
       \/ \E path \in Strings :
             \/ \E s \in {path_create_directory(path), path_filestat_set_times(path),
                          path_unlink_file(path), path_remove_directory(path)} :
                    Enter(<< >>, << >>, s)
             \/ \E s \in {fd_prestat_dir_name(path), random_get(path)} : Enter(<<path>>, << >>, s)
             \/ \E p \in Ptr :
                   \/ Enter(<< >>, <<Out(p, "u32", 1)>>, path_open(path, p))
                   \/ Enter(<< >>, <<Out(p, "filestat", 1)>>, path_filestat_get(path, p))
                   \/ Enter(<<path>>, <<Out(p, "u32", 1)>>, fd_readdir(path, p))
             \/ \E path1 \in Strings :
                   \/ \E s \in {path_link(path, path1), path_rename(path, path1),
                                path_symlink(path, path1)} : Enter(<< >>, << >>, s)
                   \/ \E p \in Ptr : Enter(<<path1>>, <<Out(p, "u32", 1)>>,
                                           path_readlink(path, path1, p))
       \/ \E in, out, p \in Ptr, subs \in Subscriptions :
             Enter(<< >>, <<Out(p, "u32", 1)>> \o OutEvents(out, Len(subs), 1),
                   poll_oneoff(in, out, subs, p))
       \/ \E s \in {fd_close, fd_datasync, fd_renumber, fd_fdstat_set_flags,
                    fd_fdstat_set_rights, fd_sync, fd_advise, fd_allocate,
                    fd_filestat_set_times, fd_filestat_set_size, sched_yield, sock_shutdown} :
             Enter(<< >>, << >>, s)

-----------------------------------------------------------------------------
(* The steps of a call *)

At(op) ==
    /\ call # None
    /\ call.outcome = "running"
    /\ call.pc <= Len(call.steps)
    /\ call.steps[call.pc].op = op

Now == call.steps[call.pc]

Continue(c) == call' = [c EXCEPT !.pc = @ + 1]

Fault(e) == call' = [call EXCEPT !.errno = e, !.outcome = "returned"]

Store(r, value) == mem' = [a \in Address |-> IF a \in Cells(r) THEN value ELSE mem[a]]

(* A pointer is checked; an error of decode_ptr is returned at once. *)
DecodePointer ==
    /\ At("decode")
    /\ \E e \in {decode_ptr(Now.r.at, Now.r.len, Now.align)} :
           IF e = "ok" THEN Continue(call) ELSE Fault(e)
    /\ UNCHANGED <<mem, current_length, export>>

DecodeSubscription ==
    /\ At("subscription")
    /\ IF Now.known THEN Continue(call) ELSE Fault("EINVAL")
    /\ UNCHANGED <<mem, current_length, export>>

(* The host succeeds or fails, and has filled some of the buffers. *)
CallHost ==
    /\ At("host")
    /\ \E e \in {"ESUCCESS", "error"}, n \in 0 .. Now.events :
           /\ n <= MaxEvents
           /\ Continue([call EXCEPT !.host = TRUE, !.errno = e, !.events = n])
    /\ \E n \in 0 .. Len(Now.fills) :
           mem' = [a \in Address |->
                     IF \E i \in 1 .. n : a \in Cells(Now.fills[i]) THEN Filled ELSE mem[a]]
    /\ UNCHANGED <<current_length, export>>

(* encode_pointee: the second decoding is unwrapped. *)
EncodeResult ==
    /\ At("encode")
    /\ IF call.errno # "ESUCCESS" /\ ~Now.always
       THEN Continue(call) /\ UNCHANGED mem
       ELSE IF decode_ptr(Now.r.at, Now.r.len, Now.align) # "ok"
       THEN call' = [call EXCEPT !.outcome = "panic"] /\ UNCHANGED mem
       ELSE /\ Continue(call)
            /\ Store(Now.r, IF call.errno = "ESUCCESS" THEN Result(Now.k) ELSE Default(Now.k))
    /\ UNCHANGED <<current_length, export>>

WritePointer ==
    /\ At("write")
    /\ Continue(call)
    /\ Store(Now.r, Now.value)
    /\ UNCHANGED <<current_length, export>>

(* host_out was truncated to the events there are. *)
WriteEvent ==
    /\ At("event")
    /\ Continue(call)
    /\ IF call.errno = "ESUCCESS" /\ Now.i <= call.events
       THEN Store(Now.r, Result(Now.k))
       ELSE UNCHANGED mem
    /\ UNCHANGED <<current_length, export>>

(* return_encoded_errno *)
Return ==
    /\ call # None
    /\ call.outcome = "running"
    /\ call.pc > Len(call.steps)
    /\ call' = [call EXCEPT !.outcome = "returned"]
    /\ UNCHANGED <<mem, current_length, export>>

(* The guest goes on; what it does to its memory does not matter. *)
Resume ==
    /\ call # None
    /\ call.outcome = "returned"
    /\ call' = None
    /\ mem' = [a \in Address |-> Old]
    /\ UNCHANGED <<current_length, export>>

(* Between calls the memory grows, or an instance is made that exports it, *)
(* or a second one that exports another memory under the same name.        *)
memory_grow ==
    /\ call = None
    /\ \E n \in Length : n > current_length /\ current_length' = n
    /\ UNCHANGED <<mem, export, call>>

instantiate ==
    /\ call = None
    /\ export' = IF export = "none" THEN "one" ELSE "ambiguous"
    /\ UNCHANGED <<mem, current_length, call>>

Next ==
    \/ Syscall
    \/ DecodePointer \/ DecodeSubscription \/ CallHost
    \/ EncodeResult \/ WritePointer \/ WriteEvent
    \/ Return \/ Resume \/ memory_grow \/ instantiate

Spec == Init /\ [][Next]_vars

-----------------------------------------------------------------------------

TypeOK ==
    /\ DOMAIN mem = Address
    /\ current_length \in Length
    /\ export \in {"none", "one", "ambiguous"}
    /\ call # None => /\ call.pc \in 1 .. Len(call.steps) + 1
                      /\ call.outcome \in {"running", "returned", "panic"}

(* A call changes only cells of the guest's memory, and of those only the   *)
(* ones the interface gives as its outputs, whatever pointers and lengths   *)
(* the guest passed and however they overlap, wrap or hang over the end.    *)
WritesWhereAsked ==
    [][call # None /\ call' # None =>
          {a \in Address : mem'[a] # mem[a]}
              \subseteq {a \in Outputs(call) : a < current_length}]_vars

(* The memory that a host function gets to read and to fill lies within the *)
(* guest's: all of every path, every buffer of an iovec and every string    *)
(* buffer, unless it is empty.                                              *)
HostGetsGuestMemory ==
    At("host") => \A regions \in {Now.reads, Now.fills} : \A i \in DOMAIN regions :
                      Cells(regions[i]) \subseteq 0 .. current_length - 1

(* A call that returns an error of its arguments has not had any effect: no *)
(* host function ran before all arguments were decoded, and memory is as    *)
(* the guest left it.                                                       *)
BadArgumentsHaveNoEffect ==
    (call # None /\ call.outcome = "returned" /\ call.errno \in {"EFAULT", "EINVAL"}) =>
        ~call.host /\ \A a \in Address : mem[a] = Old

(* When a call succeeds each of its results is in memory where the guest    *)
(* wanted it, except for what the guest had a later result stored over.  On *)
(* the way no second decoding of a pointer fails, which encode_pointee      *)
(* unwraps: "Bounds and alignment are checked in decode_pointee".           *)
ResultsArrive ==
    call # None =>
        /\ call.outcome # "panic"
        /\ (call.outcome = "returned" /\ call.errno = "ESUCCESS") =>
               \A i \in DOMAIN call.results :
                   call.results[i].event <= call.events =>
                       \A a \in Cells(call.results[i].r) :
                           \/ mem[a] = call.results[i].value
                           \/ \E j \in i + 1 .. Len(call.results) :
                                  a \in Cells(call.results[j].r)
=============================================================================
