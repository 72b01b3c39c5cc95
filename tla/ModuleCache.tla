----------------------------- MODULE ModuleCache -----------------------------
(***************************************************************************)
(* The on-disk cache of compiled modules, shared by several processes with *)
(* no lock but the file system's own: ModuleCacheEntry's GET and UPDATE on *)
(* the compiling thread of each process, and its cache worker, which keeps *)
(* the statistics, recompresses modules in use and cleans the cache up.    *)
(*                                                                         *)
(* Every file-system call is a step.  Time is abstracted to one bit: a     *)
(* "wip-" file becomes old when its task's timeout has passed since it was *)
(* written (or when its mtime is too far in the future), as               *)
(* is_fs_lock_expired decides.  Key is the set of modules compiled without *)
(* debug information; sizes and mtimes of modules are abstracted to a free *)
(* choice of the modules a clean-up evicts (see CacheCleanup).             *)
(***************************************************************************)
EXTENDS Naturals, Sequences, FiniteSets

CONSTANTS
    Proc,        \* process identifiers
    Key,         \* modules, by the hash in their file name
    Threshold,   \* optimized_compression_usage_counter_threshold
    QueueSize,   \* worker_event_queue_size
    MaxCalls,    \* bound: GET and UPDATE requests made in a behaviour
    MaxFaults,   \* bound: crashes, failed writes and expiries in a behaviour
    None

ASSUME CacheAssumption ==
    /\ Threshold \in Nat \ {0}
    /\ QueueSize \in Nat \ {0}    \* 0 would be a rendezvous
    /\ MaxCalls \in Nat
    /\ MaxFaults \in Nat

Thread == Proc \X {"main", "worker"}

(* File names.  Both temporaries of fs_write_atomic, and every lock, have *)
(* a "wip-" extension after the stem of the module's own file.            *)
Mod(k) == <<"mod", k>>
Stats(k) == <<"stats", k>>
TmpMod(k) == <<"wip-atomic-write-mod", k>>
TmpStats(k) == <<"wip-atomic-write-stats", k>>
Lock(k, p) == <<"wip", k, p>>
Cleanup(p) == <<".cleanup.wip", p>>

ModuleWips(k) == {TmpMod(k), TmpStats(k)} \cup {Lock(k, p) : p \in Proc}
CleanupLocks == {Cleanup(p) : p \in Proc}
Path == UNION {ModuleWips(k) \cup {Mod(k), Stats(k)} : k \in Key} \cup CleanupLocks

Level == {"baseline", "optimized"}

(* What a file holds: a module or statistics, compressed or counted. *)
Body == [level : Level, usages : 0 .. Threshold]

(* open: the thread that still writes the file; whole: all of it is there. *)
File == [open : Thread \cup {None}, whole : BOOLEAN, body : Body, old : BOOLEAN]

Fresh == [level |-> "baseline", usages |-> 1]
Default == [level |-> "baseline", usages |-> 0]
ModBody(level) == [level |-> level, usages |-> 0]

(* A thread's local state: the step it is at, the module it works on, the  *)
(* phase of its fs_write_atomic, what it writes, what it is to delete.     *)
Idle == [pc |-> "idle", key |-> None, phase |-> "none", body |-> Default, list |-> {}]

VARIABLES
    files,    \* the cache directory
    dir,      \* whether the module directory has been created
    thread,   \* local state of every thread
    queue,    \* the events each worker has still to handle
    alive,    \* the processes that have not been killed
    calls,    \* requests made so far
    faults,   \* crashes, failed writes and expiries so far
    reaped    \* history: a clean-up deleted the file of a write in progress

vars == <<files, dir, thread, queue, alive, calls, faults, reaped>>

Exists(f) == files[f] # None
Whole(f) == Exists(f) /\ files[f].whole

Create(f, t) ==
    [files EXCEPT ![f] = [open |-> t, whole |-> FALSE, body |-> Default, old |-> FALSE]]

(* Everything thread t has open gets its contents, wherever it is by now. *)
Filled(t, whole, body) ==
    [f \in Path |->
        IF files[f] # None /\ files[f].open = t
        THEN [open |-> None, whole |-> whole, old |-> FALSE,
              body |-> IF whole THEN body ELSE files[f].body]
        ELSE files[f]]

Renamed(from, to) ==
    [files EXCEPT ![to] = [files[from] EXCEPT !.old = FALSE], ![from] = None]

Goto(t, pc) == thread' = [thread EXCEPT ![t].pc = pc]
Finish(t) == thread' = [thread EXCEPT ![t] = Idle]
StartWrite(t, pc, k, body) ==
    thread' = [thread EXCEPT ![t] = [pc |-> pc, key |-> k, phase |-> "create",
                                     body |-> body, list |-> {}]]

(* Worker::send_cache_event: try_send drops the event when the queue is full. *)
send_cache_event(p, event) ==
    queue' = IF Len(queue[p]) < QueueSize
             THEN [queue EXCEPT ![p] = Append(@, event)] ELSE queue

Init ==
    /\ files = [f \in Path |-> None]
    /\ dir = FALSE
    /\ thread = [t \in Thread |-> Idle]
    /\ queue = [p \in Proc |-> << >>]
    /\ alive = Proc
    /\ calls = 0
    /\ faults = 0
    /\ reaped = FALSE

-----------------------------------------------------------------------------
(* The compiling thread: ModuleCacheEntry. *)

(* get_data: a file that is absent, or that does not decode, is a miss. *)
get_data(p, k) ==
    /\ p \in alive
    /\ thread[<<p, "main">>].pc = "idle"
    /\ calls < MaxCalls
    /\ calls' = calls + 1
    /\ IF Whole(Mod(k)) THEN send_cache_event(p, <<"get", k>>) ELSE UNCHANGED queue
    /\ UNCHANGED <<files, dir, thread, alive, faults, reaped>>

(* Mutant: the module that is to be replaced is removed first. *)
UpdateRemovingFirst(p, k) ==
    /\ p \in alive
    /\ thread[<<p, "main">>].pc = "idle"
    /\ calls < MaxCalls
    /\ calls' = calls + 1
    /\ files' = [files EXCEPT ![Mod(k)] = None]
    /\ StartWrite(<<p, "main">>, "update", k, ModBody("baseline"))
    /\ UNCHANGED <<dir, queue, alive, faults, reaped>>

(* update_data, up to its first fs_write_atomic. *)
update_data(p, k) ==
    /\ p \in alive
    /\ thread[<<p, "main">>].pc = "idle"
    /\ calls < MaxCalls
    /\ calls' = calls + 1
    /\ StartWrite(<<p, "main">>, "update", k, ModBody("baseline"))
    /\ UNCHANGED <<files, dir, queue, alive, faults, reaped>>

-----------------------------------------------------------------------------
(* fs_write_atomic, which each writer below goes through step by step. *)

WritesMod(t) == thread[t].pc \in {"update", "retry"}
TmpOf(t) == IF WritesMod(t) THEN TmpMod(thread[t].key) ELSE TmpStats(thread[t].key)
TargetOf(t) == IF WritesMod(t) THEN Mod(thread[t].key) ELSE Stats(thread[t].key)

NeedsRecompression(stats) == stats.level # "optimized" /\ stats.usages >= Threshold

(* What each caller does once fs_write_atomic has returned ok. *)
AfterWrite(t, ok) ==
    LET p == t[1]
        k == thread[t].key
        pc == thread[t].pc
    IN  \/ /\ pc = "update" /\ ~ok
           /\ dir' = TRUE
           /\ StartWrite(t, "retry", k, ModBody("baseline"))
           /\ UNCHANGED queue
        \/ /\ WritesMod(t) /\ ok
           /\ send_cache_event(p, <<"update", k>>)
           /\ Finish(t)
           /\ UNCHANGED dir
        \/ /\ pc = "retry" /\ ~ok
           /\ Finish(t)
           /\ UNCHANGED <<queue, dir>>
        \/ /\ pc = "count"
           /\ IF ok /\ NeedsRecompression(thread[t].body)
              THEN thread' = [thread EXCEPT ![t].pc = "scan", ![t].phase = "none"]
              ELSE Finish(t)
           /\ UNCHANGED <<queue, dir>>
        \/ /\ pc = "fresh"
           /\ thread' = [thread EXCEPT ![t].pc = "cleanup_scan", ![t].phase = "none"]
           /\ UNCHANGED <<queue, dir>>
        \/ /\ pc = "level"
           /\ Finish(t)
           /\ UNCHANGED <<queue, dir>>

(* open(create_new): fails when the temporary exists, or has no directory. *)
AtomicCreate(t) ==
    /\ t[1] \in alive
    /\ thread[t].phase = "create"
    /\ IF dir /\ ~Exists(TmpOf(t))
       THEN /\ files' = Create(TmpOf(t), t)
            /\ thread' = [thread EXCEPT ![t].phase = "write"]
            /\ UNCHANGED <<dir, queue>>
       ELSE UNCHANGED files /\ AfterWrite(t, FALSE)
    /\ UNCHANGED <<alive, calls, faults, reaped>>

Fault(n) == faults + n <= MaxFaults /\ faults' = faults + n

(* Mutant: an error of write_all is ignored. *)
WriteIgnoringErrors(t, ok) ==
    /\ t[1] \in alive
    /\ thread[t].phase = "write"
    /\ Fault(IF ok THEN 0 ELSE 1)
    /\ files' = Filled(t, ok, thread[t].body)
    /\ thread' = [thread EXCEPT ![t].phase = "rename"]
    /\ UNCHANGED <<dir, queue, alive, calls, reaped>>

(* write_all, which may fail half way; the temporary is left where it is. *)
AtomicWrite(t, ok) ==
    /\ t[1] \in alive
    /\ thread[t].phase = "write"
    /\ Fault(IF ok THEN 0 ELSE 1)
    /\ files' = Filled(t, ok, thread[t].body)
    /\ IF ok
       THEN thread' = [thread EXCEPT ![t].phase = "rename"] /\ UNCHANGED <<dir, queue>>
       ELSE AfterWrite(t, FALSE)
    /\ UNCHANGED <<alive, calls, reaped>>

(* rename moves whatever file has the temporary's name by now. *)
AtomicRename(t) ==
    /\ t[1] \in alive
    /\ thread[t].phase = "rename"
    /\ IF Exists(TmpOf(t))
       THEN files' = Renamed(TmpOf(t), TargetOf(t)) /\ AfterWrite(t, TRUE)
       ELSE UNCHANGED files /\ AfterWrite(t, FALSE)
    /\ UNCHANGED <<alive, calls, faults, reaped>>

-----------------------------------------------------------------------------
(* The cache worker. *)

At(p, pc) == p \in alive /\ thread[<<p, "worker">>].pc = pc

read_stats_file(k) == IF Whole(Stats(k)) THEN files[Stats(k)].body ELSE None

Counted(stats) ==
    LET s == IF stats = None THEN Default ELSE stats
    IN  [s EXCEPT !.usages = IF @ < Threshold THEN @ + 1 ELSE @]

(* WorkerThread::run takes the next event, and its handler starts: with the *)
(* counter it will write back, or with fresh statistics.                    *)
run(p) ==
    LET t == <<p, "worker">>
        event == Head(queue[p])
        k == event[2]
    IN  /\ At(p, "idle")
        /\ queue[p] # << >>
        /\ queue' = [queue EXCEPT ![p] = Tail(@)]
        /\ IF event[1] = "get"
           THEN StartWrite(t, "count", k, Counted(read_stats_file(k)))
           ELSE StartWrite(t, "fresh", k, Fresh)
        /\ UNCHANGED <<files, dir, alive, calls, faults, reaped>>

(* acquire_task_fs_lock, in its two parts: look for a lock that has not *)
(* expired, then create one's own, which must not exist.                *)
Unexpired(locks) == {f \in locks : Exists(f) /\ ~files[f].old}

Scan(p, from, locks, to) ==
    /\ At(p, from)
    /\ IF Unexpired(locks) = {} THEN Goto(<<p, "worker">>, to) ELSE Finish(<<p, "worker">>)
    /\ UNCHANGED <<files, dir, queue, alive, calls, faults, reaped>>

Acquire(p, from, lock, to) ==
    /\ At(p, from)
    /\ IF Exists(lock)
       THEN Finish(<<p, "worker">>) /\ UNCHANGED files
       ELSE /\ files' = Create(lock, None)
            /\ Goto(<<p, "worker">>, to)
    /\ UNCHANGED <<dir, queue, alive, calls, faults, reaped>>

WorkerKey(p) == thread[<<p, "worker">>].key

scan_recompress(p) == Scan(p, "scan", ModuleWips(WorkerKey(p)), "lock")
lock_recompress(p) == Acquire(p, "lock", Lock(WorkerKey(p), p), "read")
scan_cleanup(p) == Scan(p, "cleanup_scan", CleanupLocks, "cleanup_lock")
lock_cleanup(p) == Acquire(p, "cleanup_lock", Cleanup(p), "list")

(* Recompression: read and decode the module, or leave the lock behind. *)
recompress_read(p) ==
    /\ At(p, "read")
    /\ IF Whole(Mod(WorkerKey(p))) THEN Goto(<<p, "worker">>, "swap") ELSE Finish(<<p, "worker">>)
    /\ UNCHANGED <<files, dir, queue, alive, calls, faults, reaped>>

(* fs::write creates or truncates the lock file; it may fail. *)
recompress_write(p, ok) ==
    LET lock == Lock(WorkerKey(p), p)
    IN  /\ At(p, "swap")
        /\ Fault(IF ok THEN 0 ELSE 1)
        /\ files' = [files EXCEPT ![lock] =
                        [open |-> None, whole |-> ok, old |-> FALSE,
                         body |-> ModBody("optimized")]]
        /\ IF ok THEN Goto(<<p, "worker">>, "swap_rename") ELSE Finish(<<p, "worker">>)
        /\ UNCHANGED <<dir, queue, alive, calls, reaped>>

recompress_rename(p) ==
    LET lock == Lock(WorkerKey(p), p)
    IN  /\ At(p, "swap_rename")
        /\ IF Exists(lock)
           THEN files' = Renamed(lock, Mod(WorkerKey(p))) /\ Goto(<<p, "worker">>, "reload")
           ELSE UNCHANGED files /\ Finish(<<p, "worker">>)
        /\ UNCHANGED <<dir, queue, alive, calls, faults, reaped>>

(* The statistics are reloaded, and rewritten unless already up to date. *)
recompress_reload(p) ==
    LET k == WorkerKey(p)
        stats == read_stats_file(k)
    IN  /\ At(p, "reload")
        /\ IF stats # None /\ stats.level # "optimized"
           THEN StartWrite(<<p, "worker">>, "level", k, [stats EXCEPT !.level = "optimized"])
           ELSE Finish(<<p, "worker">>)
        /\ UNCHANGED <<files, dir, queue, alive, calls, faults, reaped>>

(* Listing: expired wip files and statistics without a module always go; *)
(* evicted are the modules past the cut.                                 *)
Unrecognized ==
    {f \in UNION {ModuleWips(k) : k \in Key} \cup CleanupLocks : Exists(f) /\ files[f].old}
        \cup {Stats(k) : k \in {j \in Key : Exists(Stats(j)) /\ ~Exists(Mod(j))}}

list_cache_contents(p, evicted) ==
    LET list == Unrecognized \cup {Mod(k) : k \in evicted}
    IN  /\ At(p, "list")
        /\ \A k \in evicted : Exists(Mod(k))
        /\ thread' = [thread EXCEPT ![<<p, "worker">>] =
                         IF list = {} THEN Idle
                         ELSE [@ EXCEPT !.pc = "delete", !.list = list]]
        /\ UNCHANGED <<files, dir, queue, alive, calls, faults, reaped>>

(* remove_file, one path at a time, modules before what is not recognized; *)
(* a path that is gone is not an error.                                    *)
cleanup_delete(p, f) ==
    LET t == <<p, "worker">>
        mods == thread[t].list \cap {Mod(k) : k \in Key}
    IN  /\ At(p, "delete")
        /\ f \in IF mods # {} THEN mods ELSE thread[t].list
        /\ files' = [files EXCEPT ![f] = None]
        /\ reaped' = (reaped \/ \E u \in Thread :
                          thread[u].phase \in {"write", "rename"} /\ TmpOf(u) = f)
        /\ thread' = [thread EXCEPT ![t] =
                         IF @.list = {f} THEN Idle ELSE [@ EXCEPT !.list = @ \ {f}]]
        /\ UNCHANGED <<dir, queue, alive, calls, faults>>

-----------------------------------------------------------------------------
(* The environment. *)

(* The process dies: its threads and its queue are gone, its files stay. *)
Crash(p) ==
    /\ p \in alive
    /\ Fault(1)
    /\ alive' = alive \ {p}
    /\ thread' = [t \in Thread |-> IF t[1] = p THEN Idle ELSE thread[t]]
    /\ queue' = [queue EXCEPT ![p] = << >>]
    /\ files' = [f \in Path |->
                    IF files[f] # None /\ files[f].open # None /\ files[f].open[1] = p
                    THEN [files[f] EXCEPT !.open = None] ELSE files[f]]
    /\ UNCHANGED <<dir, calls, reaped>>

(* is_fs_lock_expired begins to hold of a wip file. *)
Expire(f) ==
    /\ Exists(f)
    /\ ~files[f].old
    /\ Fault(1)
    /\ files' = [files EXCEPT ![f].old = TRUE]
    /\ UNCHANGED <<dir, thread, queue, alive, calls, reaped>>

Next ==
    \/ \E p \in Proc, k \in Key : get_data(p, k) \/ update_data(p, k)
    \/ \E t \in Thread : AtomicCreate(t) \/ AtomicRename(t)
    \/ \E t \in Thread, ok \in BOOLEAN : AtomicWrite(t, ok)
    \/ \E p \in Proc : run(p) \/ scan_recompress(p) \/ lock_recompress(p)
    \/ \E p \in Proc : recompress_read(p) \/ recompress_rename(p) \/ recompress_reload(p)
    \/ \E p \in Proc, ok \in BOOLEAN : recompress_write(p, ok)
    \/ \E p \in Proc : scan_cleanup(p) \/ lock_cleanup(p)
    \/ \E p \in Proc, ks \in SUBSET Key : list_cache_contents(p, ks)
    \/ \E p \in Proc, f \in Path : cleanup_delete(p, f)
    \/ \E p \in Proc : Crash(p)
    \/ \E f \in UNION {ModuleWips(k) : k \in Key} \cup CleanupLocks : Expire(f)

Spec == Init /\ [][Next]_vars

-----------------------------------------------------------------------------

TypeOK ==
    /\ files \in [Path -> File \cup {None}]
    /\ dir \in BOOLEAN
    /\ \A t \in Thread :
        /\ thread[t].key \in Key \cup {None}
        /\ thread[t].phase \in {"none", "create", "write", "rename"}
        /\ thread[t].body \in Body
        /\ thread[t].list \subseteq Path
    /\ \A p \in Proc : Len(queue[p]) <= QueueSize
    /\ alive \subseteq Proc
    /\ calls \in 0 .. MaxCalls
    /\ faults \in 0 .. MaxFaults
    /\ reaped \in BOOLEAN

(* A module's file and its statistics are only ever seen whole, although    *)
(* processes write them with no lock held and die at any step, as long as   *)
(* no clean-up has taken the temporary of a write still in progress away.   *)
WholeUnlessReaped ==
    ~reaped => \A k \in Key : /\ Exists(Mod(k)) => files[Mod(k)].whole
                              /\ Exists(Stats(k)) => files[Stats(k)].whole

(* Only a clean-up removes a module from the cache: a crash, a failed write, *)
(* a recompression or a racing UPDATE never loses one that was there.        *)
LostOnlyByCleanup ==
    [][\A k \in Key : Exists(Mod(k)) /\ files'[Mod(k)] = None =>
           \E p \in Proc : Mod(k) \in thread[<<p, "worker">>].list]_vars
=============================================================================
