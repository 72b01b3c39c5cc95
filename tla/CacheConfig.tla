----------------------------- MODULE CacheConfig -----------------------------
(***************************************************************************)
(* The configuration of the cache and the start of the cache system in one *)
(* process: what a configuration file means, how it is validated and       *)
(* defaulted, and the statics CONFIG, INIT_CALLED and WORKER, which any    *)
(* thread may reach through init() and ModuleCacheEntry::new().            *)
(*                                                                         *)
(* Numbers and units are scaled: Factor has the units of each kind of      *)
(* setting and U64Max the largest number.                                  *)
(***************************************************************************)
EXTENDS Integers

CONSTANTS
    U64Max,          \* u64::MAX
    Factor,          \* the units of each kind of setting, and their values
    DefaultSetting,  \* the DEFAULT_ constants
    ProjectDirs,     \* whether there are default places (PROJECT_DIRS)
    Scenarios,       \* bound: the threads there are, the files they configure
                     \* the cache with, the processes that create such a file,
                     \* and the directories a clean-up finds
    Invalid, None

(* The settings and the deserializers of their values. *)
Kind ==
    [worker_event_queue_size |-> "si_prefix",
     baseline_compression_level |-> "i32",
     optimized_compression_level |-> "i32",
     optimized_compression_usage_counter_threshold |-> "si_prefix",
     cleanup_interval |-> "duration",
     optimizing_compression_task_timeout |-> "duration",
     allowed_clock_drift_for_files_from_future |-> "duration",
     file_count_soft_limit |-> "si_prefix",
     files_total_size_soft_limit |-> "disk_space",
     file_count_limit_percent_if_deleting |-> "percent",
     files_total_size_limit_percent_if_deleting |-> "percent"]

Setting == DOMAIN Kind
ZSTD_COMPRESSION_LEVELS == 0 .. 21

(* A file is missing, unreadable, malformed, created and still empty, or has *)
(* texts for settings, each a number and a unit.  A directory is relative,   *)
(* cannot be created, cannot be resolved, or can.                            *)
Text == [num : Int, unit : STRING]
Directory == {"relative", "uncreatable", "unresolvable", "good"}

File ==
    [state : {"missing", "unreadable", "malformed", "created"}]
    \cup [state : {"settings"}, enabled : BOOLEAN, directory : Directory \cup {None},
          settings : [Setting -> Text \cup {None}]]

Configuration ==
    [errors : SUBSET (Setting \cup {"directory", "file"}), enabled : BOOLEAN,
     directory : Directory \cup {"canonical", None}, settings : [Setting -> Int \cup {None}]]

ASSUME ConfigAssumption ==
    /\ U64Max \in Nat /\ U64Max >= 255
    /\ {Kind[s] : s \in Setting} \subseteq DOMAIN Factor
    /\ \A k \in DOMAIN Factor : \A u \in DOMAIN Factor[k] : Factor[k][u] \in Nat
    /\ DefaultSetting \in [Setting -> 0 .. U64Max]
    /\ ProjectDirs \in BOOLEAN
    /\ \A b \in DOMAIN Scenarios : Scenarios[b].files \subseteq File /\ Scenarios[b].creators \in Nat
    /\ None \notin Configuration \cup Int \cup {"init", "use", "canonical"}

VARIABLES
    bound,        \* the scenario of this behaviour
    file,         \* what is at the path of the configuration file
    creators,     \* how many processes are where in create_new_config()
    INIT_CALLED,  \* of config.rs; the one of worker.rs agrees with WORKER
    CONFIG,       \* None until the Once is complete
    WORKER,       \* the worker's copy of the configuration, or None
    thread        \* the call each thread makes

Thread == Scenarios[bound].threads

configVars == <<bound, file, creators, INIT_CALLED, CONFIG, WORKER, thread>>

-----------------------------------------------------------------------------
(* Deserializers *)

(* num * 60 is not checked: it wraps in a release build.  The others are     *)
(* checked_mul; a percentage is an u8 and has one unit; a level is a number. *)
deserialize_duration(t) ==
    IF t.num \notin 0 .. U64Max \/ t.unit \notin DOMAIN Factor["duration"] THEN Invalid
    ELSE (t.num * Factor["duration"][t.unit]) % (U64Max + 1)

CheckedMul(kind, t) ==
    IF t.num \notin 0 .. U64Max \/ t.unit \notin DOMAIN Factor[kind] THEN Invalid
    ELSE IF t.num * Factor[kind][t.unit] > U64Max THEN Invalid
    ELSE t.num * Factor[kind][t.unit]

deserialize_si_prefix(t) == CheckedMul("si_prefix", t)
deserialize_disk_space(t) == CheckedMul("disk_space", t)

deserialize_percent(t) ==
    IF t.num \notin 0 .. 255 \/ t.unit \notin DOMAIN Factor["percent"] THEN Invalid ELSE t.num

deserialize(s, t) ==
    IF t = None THEN None
    ELSE CASE Kind[s] = "duration" -> deserialize_duration(t)
           [] Kind[s] = "si_prefix" -> deserialize_si_prefix(t)
           [] Kind[s] = "disk_space" -> deserialize_disk_space(t)
           [] Kind[s] = "percent" -> deserialize_percent(t)
           [] Kind[s] = "i32" -> t.num

-----------------------------------------------------------------------------
(* CacheConfig *)

new_cache_disabled ==
    [errors |-> {}, enabled |-> FALSE, directory |-> None, settings |-> [s \in Setting |-> None]]

new_cache_enabled_template == [new_cache_disabled EXCEPT !.enabled = TRUE]
new_cache_with_errors(errors) == [new_cache_disabled EXCEPT !.errors = errors]

Parsed(f) == [s \in Setting |-> deserialize(s, f.settings[s])]

(* Result: a configuration or Invalid.  custom: a path was given. *)
load_and_parse_file(f, custom) ==
    IF ~custom /\ ~ProjectDirs THEN Invalid
    ELSE IF ~custom /\ f.state = "missing" THEN new_cache_enabled_template
    ELSE IF f.state # "settings" THEN Invalid
    ELSE IF \E s \in Setting : Parsed(f)[s] = Invalid THEN Invalid
    ELSE [errors |-> {}, enabled |-> f.enabled, directory |-> f.directory, settings |-> Parsed(f)]

Error(c, s) == [c EXCEPT !.errors = @ \cup {s}]

Resolved(c, d) ==
    IF d = "good" THEN [c EXCEPT !.directory = "canonical"]
    ELSE Error([c EXCEPT !.directory = d], "directory")

validate_directory_or_default(c) ==
    IF c.directory # None THEN Resolved(c, c.directory)
    ELSE IF ProjectDirs THEN Resolved(c, "good")
    ELSE Error(c, "directory")

(* The validations that only fill in the default. *)
OrDefault(c, s) ==
    IF c.settings[s] = None THEN [c EXCEPT !.settings[s] = DefaultSetting[s]] ELSE c

(* Those that also check what they find. *)
Checked(c, s, ok) == IF ok THEN c ELSE Error(c, s)

CheckLevel(c, s, least) ==
    Checked(c, s, c.settings[s] \in ZSTD_COMPRESSION_LEVELS /\ c.settings[s] >= least)

validate_baseline_compression_level_or_default(c) ==
    CheckLevel(OrDefault(c, "baseline_compression_level"), "baseline_compression_level", 0)

(* The baseline level has been validated or has its default. *)
validate_optimized_compression_level_or_default(c) ==
    CheckLevel(OrDefault(c, "optimized_compression_level"), "optimized_compression_level",
               c.settings["baseline_compression_level"])

CheckPercent(c, s) == Checked(c, s, c.settings[s] <= 100)

validate_file_count_limit_percent_if_deleting_or_default(c) ==
    CheckPercent(OrDefault(c, "file_count_limit_percent_if_deleting"),
                 "file_count_limit_percent_if_deleting")

validate_files_total_size_limit_percent_if_deleting_or_default(c) ==
    CheckPercent(OrDefault(c, "files_total_size_limit_percent_if_deleting"),
                 "files_total_size_limit_percent_if_deleting")

(* Mutant: the configuration stays as it is, with its errors. *)
KeepErrors(c) == c

disable_if_any_error(c) == IF c.errors = {} THEN c ELSE new_cache_with_errors(c.errors)

DefaultedOnly ==
    Setting \ {"baseline_compression_level", "optimized_compression_level",
               "file_count_limit_percent_if_deleting",
               "files_total_size_limit_percent_if_deleting"}

OthersOrDefault(c) ==
    [c EXCEPT !.settings = [s \in Setting |->
        IF s \in DefaultedOnly THEN OrDefault(c, s).settings[s] ELSE @[s]]]

Validated(c) ==
    validate_files_total_size_limit_percent_if_deleting_or_default(
        validate_file_count_limit_percent_if_deleting_or_default(
            OthersOrDefault(
                validate_optimized_compression_level_or_default(
                    validate_baseline_compression_level_or_default(
                        validate_directory_or_default(c))))))

from_file(enabled, f, custom) ==
    IF ~enabled THEN new_cache_disabled
    ELSE IF load_and_parse_file(f, custom) = Invalid THEN new_cache_with_errors({"file"})
    ELSE disable_if_any_error(Validated(load_and_parse_file(f, custom)))

-----------------------------------------------------------------------------
(* The statics.  Each thread makes one call: init(), with some arguments, or *)
(* ModuleCacheEntry::new().  A thread that has panicked stays so.            *)

Ready == [call |-> None, at |-> "ready", early |-> FALSE, enabled |-> FALSE]

Goto(t, at) == thread' = [thread EXCEPT ![t].at = at]

Template ==
    [state |-> "settings", enabled |-> TRUE, directory |-> None,
     settings |-> [s \in Setting |-> None]]

ConfigInit ==
    /\ bound \in DOMAIN Scenarios
    /\ file \in Scenarios[bound].files
    /\ creators = [checking |-> Scenarios[bound].creators, opening |-> 0, writing |-> 0]
    /\ INIT_CALLED = FALSE
    /\ CONFIG = None
    /\ WORKER = None
    /\ thread = [t \in Thread |-> Ready]

Initialized == \E t \in Thread : thread[t].call = "init" /\ thread[t].at = "returned"

(* compare_exchange(false, true).expect(..) *)
init(t) ==
    /\ thread[t].at = "ready"
    /\ \E enabled \in BOOLEAN :
           thread' = [thread EXCEPT ![t] =
               [call |-> "init", at |-> IF INIT_CALLED THEN "panicked" ELSE "try",
                early |-> FALSE, enabled |-> enabled]]
    /\ INIT_CALLED' = TRUE
    /\ UNCHANGED <<bound, file, creators, CONFIG, WORKER>>

(* assert!(CONFIG.try().is_none()) *)
TryConfig(t) ==
    /\ thread[t].at = "try"
    /\ Goto(t, IF CONFIG = None THEN "once" ELSE "panicked")
    /\ UNCHANGED <<bound, file, creators, INIT_CALLED, CONFIG, WORKER>>

(* call_once: others wait while from_file runs, and the first one wins. *)
Once(c) == IF CONFIG = None THEN c ELSE CONFIG

OnceConfig(t) ==
    /\ thread[t].at = "once"
    /\ \E custom \in BOOLEAN :
           CONFIG' = Once(from_file(thread[t].enabled, file, custom))
    /\ Goto(t, IF CONFIG'.errors = {} /\ CONFIG'.enabled THEN "worker" ELSE "returned")
    /\ UNCHANGED <<bound, file, creators, INIT_CALLED, WORKER>>

(* worker::init: the channel, the thread with a copy of the configuration,   *)
(* and the static.                                                           *)
WorkerInit(t) ==
    /\ thread[t].at = "worker"
    /\ IF WORKER # None \/ CONFIG.settings["worker_event_queue_size"] = None
       THEN Goto(t, "panicked") /\ UNCHANGED WORKER
       ELSE Goto(t, "returned") /\ WORKER' = CONFIG
    /\ UNCHANGED <<bound, file, creators, INIT_CALLED, CONFIG>>

(* ModuleCacheEntry::new: cache_config() disables what is not initialized. *)
cache_config(t) ==
    /\ thread[t].at = "ready"
    /\ CONFIG' = Once(new_cache_disabled)
    /\ thread' = [thread EXCEPT ![t] =
           [call |-> "use", at |-> IF CONFIG'.enabled THEN "entry" ELSE "returned",
            early |-> ~Initialized, enabled |-> CONFIG'.enabled]]
    /\ UNCHANGED <<bound, file, creators, INIT_CALLED, WORKER>>

(* worker(), directory() and the level that update_data takes: each expect()s *)
(* to find it.                                                               *)
worker(t) ==
    /\ thread[t].at = "entry"
    /\ Goto(t, IF \/ WORKER = None \/ CONFIG.directory = None
                  \/ CONFIG.settings["baseline_compression_level"] = None
               THEN "panicked" ELSE "returned")
    /\ UNCHANGED <<bound, file, creators, INIT_CALLED, CONFIG, WORKER>>

(* Processes that create the configuration file: each finds that it does    *)
(* not exist, opens it, which empties it, and writes it.                     *)
create_new_config ==
    /\ creators.checking > 0
    /\ creators' = [creators EXCEPT !.checking = @ - 1,
                                    !.opening = IF file.state = "missing" THEN @ + 1 ELSE @]
    /\ UNCHANGED <<bound, file, INIT_CALLED, CONFIG, WORKER, thread>>

open_new_config ==
    /\ creators.opening > 0
    /\ creators' = [creators EXCEPT !.opening = @ - 1, !.writing = @ + 1]
    /\ file' = [state |-> "created"]
    /\ UNCHANGED <<bound, INIT_CALLED, CONFIG, WORKER, thread>>

write_new_config ==
    /\ creators.writing > 0
    /\ creators' = [creators EXCEPT !.writing = @ - 1]
    /\ file' = Template
    /\ UNCHANGED <<bound, INIT_CALLED, CONFIG, WORKER, thread>>

ConfigNext ==
    \/ \E t \in Thread :
          \/ init(t) \/ TryConfig(t) \/ OnceConfig(t) \/ WorkerInit(t)
          \/ cache_config(t) \/ worker(t)
    \/ create_new_config \/ open_new_config \/ write_new_config

ConfigSpec == ConfigInit /\ [][ConfigNext]_configVars

-----------------------------------------------------------------------------

(* "Should be called exactly once, and before using the cache system.        *)
(* Otherwise it can panic."                                                  *)
Calls(c) == {t \in Thread : thread[t].call = c}
AsDocumented ==
    /\ \A t, u \in Calls("init") : t = u
    /\ Calls("init") # {} => \A t \in Calls("use") : ~thread[t].early

Usable(c) ==
    /\ c.directory = "canonical"
    /\ \A s \in Setting : c.settings[s] \in 0 .. U64Max
    /\ c.settings["baseline_compression_level"] <= c.settings["optimized_compression_level"]
    /\ c.settings["optimized_compression_level"] <= 21
    /\ c.settings["file_count_limit_percent_if_deleting"] <= 100
    /\ c.settings["files_total_size_limit_percent_if_deleting"] <= 100

(* Threads that use the cache system as documented never panic, whatever     *)
(* is in the configuration file and whoever writes it meanwhile.  Those that *)
(* find the cache enabled have a worker, whose settings are complete and in  *)
(* range; those that find it disabled after an init() that was to enable it  *)
(* and reported no errors, were told so by the file.                         *)
EnabledMeansUsable ==
    AsDocumented =>
        \A t \in Thread :
            /\ thread[t].at # "panicked"
            /\ (thread[t].call = "use" /\ thread[t].at = "returned") =>
                   IF thread[t].enabled THEN WORKER = CONFIG /\ Usable(WORKER)
                   ELSE \A i \in Calls("init") :
                            thread[i].enabled /\ CONFIG.errors = {} =>
                                file.state = "settings" /\ ~file.enabled
=============================================================================
