----------------------------- MODULE CacheCleanup -----------------------------
(***************************************************************************)
(* The clean-up task of the cache worker, with the configuration the       *)
(* process was started with: what it recognizes among the files of the     *)
(* cache directory, the age order it considers modules in, the loop that   *)
(* finds the cut and the deletions that follow.  The directory is fixed    *)
(* while the task runs; ModuleCache has the races.  The task shares no     *)
(* state with the threads of CacheConfig but its configuration, of which   *)
(* it has a copy: it runs here when they have returned.                    *)
(***************************************************************************)
EXTENDS CacheConfig, SequencesExt

CONSTANT
    Now  \* SystemTime::now() during the task

ASSUME CleanupAssumption == Now \in Nat

(* WorkerThread.cache_config *)
config == WORKER.settings
Drift == config["allowed_clock_drift_for_files_from_future"]
Interval == config["cleanup_interval"]
Timeout == config["optimizing_compression_task_timeout"]
size_limit == config["files_total_size_soft_limit"]
size_percent == config["files_total_size_limit_percent_if_deleting"]
count_limit == config["file_count_soft_limit"]
count_percent == config["file_count_limit_percent_if_deleting"]

(* level: how deep below the cache directory; modules and their files are  *)
(* at level 2.  ext is the extension: none for a module, "stats", "wip"    *)
(* for any "wip-" one, "d" for a module with debug information.  stem and  *)
(* ext together are the name.                                              *)
CacheDirFile(Stem) == [level : 0 .. 2, is_dir : BOOLEAN, stem : Stem,
               ext : {"", "stats", "wip", "d", "other"}, mtime : Nat, size : Nat]

VARIABLES
    files,       \* the files the task finds
    deleted,     \* those it has deleted
    remaining,   \* entries of the listing the loop has not reached
    seen,        \* entries the cut loop has gone through, in order
    total_size,  \* of the entries seen
    start_delete_idx_if_deleting_recognized_items,
    pc

vars == <<configVars, files, deleted, remaining, seen, total_size,
          start_delete_idx_if_deleting_recognized_items, pc>>

(* is_fs_lock_expired *)
is_fs_lock_expired(f, threshold) ==
    IF f.mtime <= Now THEN Now - f.mtime >= threshold ELSE f.mtime - Now > Drift

-----------------------------------------------------------------------------
(* list_cache_contents *)

(* Locks that are in use are no entries at all. *)
ActiveLock(f) ==
    /\ ~f.is_dir
    /\ \/ f.level = 0 /\ f.stem = ".cleanup" /\ f.ext # "" /\ ~is_fs_lock_expired(f, Interval)
       \/ f.level = 2 /\ f.ext = "wip" /\ ~is_fs_lock_expired(f, Timeout)

(* cache_files: what counts as a module or as statistics. *)
CacheFile(f) == f.level = 2 /\ ~f.is_dir /\ f.ext \in {"", "stats"}
ModuleFiles(fs) == {f \in fs : CacheFile(f) /\ f.ext = ""}
StatsOf(m, fs) == {f \in fs : CacheFile(f) /\ f.ext = "stats" /\ f.stem = m.stem}
Orphan(f, fs) == f.ext = "stats" /\ \A m \in ModuleFiles(fs) : m.stem # f.stem

(* A module is as old as its statistics, when it has any. *)
Recognized(fs) ==
    {[recognized |-> TRUE, file |-> m, size |-> m.size,
      mtime |-> IF StatsOf(m, fs) = {} THEN m.mtime
                ELSE (CHOOSE s \in StatsOf(m, fs) : TRUE).mtime] : m \in ModuleFiles(fs)}

(* Mutant: locks in use are entries too. *)
UnrecognizedEvenIfActive(f, fs) == CacheFile(f) => Orphan(f, fs)

UnrecognizedFile(f, fs) ==
    /\ ~ActiveLock(f)
    /\ CacheFile(f) => Orphan(f, fs)

list_cache_contents(fs) ==
    Recognized(fs) \cup
    {[recognized |-> FALSE, file |-> f, size |-> f.size, mtime |-> f.mtime] :
         f \in {g \in fs : UnrecognizedFile(g, fs)}}

-----------------------------------------------------------------------------
(* The order of the listing: younger first, files from the far future as   *)
(* the oldest modules, what is not recognized last.                        *)
FarFuture(e) == e.mtime > Now + Drift

Less(l, r) ==
    IF l.recognized /\ r.recognized
    THEN IF ~FarFuture(l) /\ ~FarFuture(r) THEN r.mtime < l.mtime
         ELSE ~FarFuture(l) /\ FarFuture(r)
    ELSE l.recognized /\ ~r.recognized

(* Mutant: the order is reversed. *)
IsNextReversed(e) == e \in remaining /\ \A x \in remaining : ~Less(e, x)

(* sort_unstable_by leaves equal entries in any order. *)
IsNext(e) == e \in remaining /\ \A x \in remaining : ~Less(x, e)

(* checked_mul(..).unwrap() / 100 *)
LimitsOverflow ==
    size_limit * size_percent > U64Max \/ count_limit * count_percent > U64Max
tsl_if_deleting == (size_limit * size_percent) \div 100
fcl_if_deleting == (count_limit * count_percent) \div 100

-----------------------------------------------------------------------------

Init ==
    /\ ConfigInit
    /\ files = {}
    /\ deleted = {}
    /\ remaining = {}
    /\ seen = << >>
    /\ total_size = 0
    /\ start_delete_idx_if_deleting_recognized_items = None
    /\ pc = "idle"

(* handle_on_cache_update: the worker has the lock of a clean-up. *)
Start ==
    /\ pc = "idle"
    /\ WORKER # None
    /\ \A t \in Thread : thread[t].at \in {"returned", "panicked"}
    /\ files' \in Scenarios[bound].directories
    /\ pc' = "list"
    /\ UNCHANGED <<configVars, deleted, remaining, seen, total_size,
                   start_delete_idx_if_deleting_recognized_items>>

List ==
    /\ pc = "list"
    /\ IF LimitsOverflow
       THEN pc' = "panicked" /\ UNCHANGED remaining
       ELSE pc' = "scan" /\ remaining' = list_cache_contents(files)
    /\ UNCHANGED <<configVars, files, deleted, seen, total_size,
                   start_delete_idx_if_deleting_recognized_items>>

(* Mutant: one module too many is kept. *)
ScanOneTooMany(e) ==
    /\ pc = "scan"
    /\ IsNext(e)
    /\ IF ~e.recognized \/ total_size > size_limit \/ Len(seen) > count_limit
       THEN pc' = "delete" /\ UNCHANGED <<total_size, seen, remaining>>
       ELSE /\ total_size' = total_size + e.size
            /\ seen' = Append(seen, e)
            /\ remaining' = remaining \ {e}
            /\ UNCHANGED pc
    /\ UNCHANGED <<configVars, files, deleted, start_delete_idx_if_deleting_recognized_items>>

(* One iteration of the loop that looks for the cut.  idx is 0-based. *)
Scan(e) ==
    LET idx == Len(seen)
        size == total_size + e.size
        first == IF /\ start_delete_idx_if_deleting_recognized_items = None
                    /\ size > tsl_if_deleting \/ idx + 1 > fcl_if_deleting
                 THEN idx ELSE start_delete_idx_if_deleting_recognized_items
    IN  /\ pc = "scan"
        /\ IsNext(e)
        /\ IF ~e.recognized
           THEN (* break with start_delete_idx = idx *)
                /\ pc' = "delete"
                /\ UNCHANGED <<remaining, seen, total_size,
                               start_delete_idx_if_deleting_recognized_items>>
           ELSE /\ total_size' = size
                /\ start_delete_idx_if_deleting_recognized_items' = first
                /\ IF size > size_limit \/ idx + 1 > count_limit
                   THEN (* break with start_delete_idx = first *)
                        /\ pc' = "delete"
                        /\ seen' = SubSeq(seen, 1, first)
                        /\ remaining' = remaining \cup
                               {seen[i] : i \in first + 1 .. Len(seen)}
                   ELSE /\ seen' = Append(seen, e)
                        /\ remaining' = remaining \ {e}
                        /\ UNCHANGED pc
        /\ UNCHANGED <<configVars, files, deleted>>

(* The loop ran to its end: within the limits, and nothing unrecognized. *)
NothingToDelete ==
    /\ pc = "scan"
    /\ remaining = {}
    /\ pc' = "done"
    /\ UNCHANGED <<configVars, files, deleted, remaining, seen, total_size,
                   start_delete_idx_if_deleting_recognized_items>>

(* Mutant: an entry is tried again and again. *)
DeleteRetrying(e) ==
    /\ pc = "delete"
    /\ IsNext(e)
    /\ deleted' = deleted \cup {e.file}
    /\ UNCHANGED <<configVars, files, remaining, seen, total_size,
                   start_delete_idx_if_deleting_recognized_items, pc>>

(* &cache_index[idx..], one entry after the other.  Only the module's own *)
(* file is removed: its statistics are an orphan for the next clean-up.   *)
Delete(e) ==
    /\ pc = "delete"
    /\ IsNext(e)
    /\ deleted' = deleted \cup {e.file}
    /\ remaining' = remaining \ {e}
    /\ pc' = IF remaining = {e} THEN "done" ELSE "delete"
    /\ UNCHANGED <<configVars, files, seen, total_size,
                   start_delete_idx_if_deleting_recognized_items>>

Configure ==
    /\ pc = "idle"
    /\ ConfigNext
    /\ UNCHANGED <<files, deleted, remaining, seen, total_size,
                   start_delete_idx_if_deleting_recognized_items, pc>>

CleanupNext ==
    \/ List
    \/ \E e \in remaining : Scan(e)
    \/ NothingToDelete
    \/ \E e \in remaining : Delete(e)

Next == Configure \/ Start \/ CleanupNext

Spec == Init /\ [][Next]_vars /\ WF_vars(CleanupNext)

-----------------------------------------------------------------------------

(* Compiled modules are cached with debug information or without. *)
CachedModules == {f \in files : f.level = 2 /\ ~f.is_dir /\ f.ext \in {"", "d"}}
Evicted == CachedModules \cap deleted
Kept == CachedModules \ deleted
SizeOf(ms) == MapThenSumSet(LAMBDA m : m.size, ms)

TypeOK ==
    /\ deleted \subseteq files
    /\ remaining \subseteq list_cache_contents(files)
    /\ ToSet(seen) \subseteq Recognized(files)
    /\ total_size \in Nat
    /\ start_delete_idx_if_deleting_recognized_items \in Nat \cup {None}
    /\ pc \in {"idle", "list", "scan", "delete", "done", "panicked"}

(* The number and the total size of the modules left by a clean-up are    *)
(* within the soft limits and, when it evicted a module, within the lower *)
(* limits that the percent-if-deleting settings set for that case.        *)
WithinLimits ==
    pc = "done" =>
        /\ Cardinality(Kept) <= count_limit
        /\ SizeOf(Kept) <= size_limit
        /\ Evicted # {} =>
               /\ Cardinality(Kept) <= fcl_if_deleting
               /\ SizeOf(Kept) <= tsl_if_deleting

(* No module is evicted while the number and the total size of the modules *)
(* found are within the soft limits, and then the least recently used go:  *)
(* one that is kept was used no earlier than any that is evicted, where    *)
(* one dated in the far future counts as never used.                       *)
EvictsOldest ==
    /\ Evicted # {} => \/ Cardinality(CachedModules) > count_limit
                       \/ SizeOf(CachedModules) > size_limit
    /\ pc = "done" =>
           \A k, e \in Recognized(files) :
               k.file \notin deleted /\ e.file \in deleted => ~Less(e, k)

(* A clean-up leaves nothing but modules, their statistics and the locks in *)
(* use, and it takes neither a lock in use nor the statistics of a module.  *)
LeavesOnlyWhatIsInUse ==
    /\ \A f \in deleted : ~ActiveLock(f) /\ (f.ext = "stats" /\ f.level = 2 => Orphan(f, files))
    /\ pc = "done" =>
           \A f \in files \ deleted : ActiveLock(f) \/ (CacheFile(f) /\ ~Orphan(f, files))

Begun == IF pc = "list" THEN ~LimitsOverflow ELSE FALSE

(* A clean-up that has begun comes to an end, whatever it finds and whatever *)
(* the settings are, as long as no limit multiplied by its percentage        *)
(* exceeds a u64: then the worker panics, though the settings are validated. *)
Terminates == Begun ~> pc = "done"
=============================================================================
