--------------------------- MODULE MCCacheCleanup ---------------------------
(* Three threads with configuration files of every kind, and one thread   *)
(* with the limits that matter to a clean-up of directories of up to      *)
(* three modules, with or without statistics, of two sizes and three ages *)
(* (one in the far future), and of stray files of every kind the listing  *)
(* tells apart.                                                           *)
EXTENDS CacheCleanup

F(level, is_dir, stem, ext, mtime, size) ==
    [level |-> level, is_dir |-> is_dir, stem |-> stem, ext |-> ext,
     mtime |-> mtime, size |-> size]

Ages == {4, 9, 20}

(* A module file alone, with statistics that date it, or statistics alone. *)
ModuleChoices(m) ==
    {{}} \cup {{F(2, FALSE, m, "", t, s)} : t \in {9}, s \in {1, 3}}
         \cup {{F(2, FALSE, m, "", 2, s), F(2, FALSE, m, "stats", t, 1)} : t \in Ages, s \in {1, 3}}

ThirdModule ==
    {{}, {F(2, FALSE, "m3", "", 4, 1)}, {F(2, FALSE, "m3", "", 2, 3), F(2, FALSE, "m3", "stats", 20, 1)}}

Strays ==
    { {},
      {F(2, FALSE, "a", "stats", 9, 1), F(2, FALSE, "a", "wip", 9, 0)},
      {F(2, FALSE, "a", "wip", 3, 0), F(0, FALSE, ".cleanup", "wip", 9, 0)},
      {F(2, FALSE, "a", "wip", 12, 0), F(0, FALSE, ".cleanup", "wip", 4, 0)},
      {F(2, FALSE, "a", "wip", 20, 0), F(1, FALSE, "x", "other", 9, 1), F(2, TRUE, "y", "", 9, 1)} }

MCDirectories ==
    {a \cup b \cup c \cup s :
        a \in ModuleChoices("m1"), b \in ModuleChoices("m2"), c \in ThirdModule, s \in Strays}

MCFactor ==
    [si_prefix |-> [none |-> 1, K |-> 10, M |-> 100],
     disk_space |-> [none |-> 1, K |-> 10, Ki |-> 16],
     duration |-> [s |-> 1, m |-> 6],
     percent |-> [percent |-> 1],
     i32 |-> [none |-> 1]]

MCDefaultSetting ==
    [worker_event_queue_size |-> 16,
     baseline_compression_level |-> 3,
     optimized_compression_level |-> 20,
     optimized_compression_usage_counter_threshold |-> 256,
     cleanup_interval |-> 5,
     optimizing_compression_task_timeout |-> 5,
     allowed_clock_drift_for_files_from_future |-> 3,
     file_count_soft_limit |-> 9,
     files_total_size_soft_limit |-> 99,
     file_count_limit_percent_if_deleting |-> 70,
     files_total_size_limit_percent_if_deleting |-> 70]

(* A file with some settings: texts is a record of numbers and units. *)
Contents(enabled, directory, texts) ==
    [state |-> "settings", enabled |-> enabled, directory |-> directory,
     settings |-> [s \in Setting |-> IF s \in DOMAIN texts
                                     THEN [num |-> texts[s][1], unit |-> texts[s][2]]
                                     ELSE None]]

Limits(size, sp, count, cp) ==
    Contents(TRUE, "good",
        [files_total_size_soft_limit |-> <<size, "none">>,
         files_total_size_limit_percent_if_deleting |-> <<sp, "percent">>,
         file_count_soft_limit |-> <<count, "none">>,
         file_count_limit_percent_if_deleting |-> <<cp, "percent">>])

LimitFiles == {Limits(5, 70, 9, 70), Limits(99, 70, 2, 50), Limits(5, 100, 2, 100),
               Limits(6, 30, 3, 0), Limits(99, 70, 9, 70)}

AnyFile ==
    {[state |-> s] : s \in {"missing", "unreadable", "malformed"}}
    \cup {Contents(e, d, << >>) :
             e \in BOOLEAN, d \in {None, "relative", "uncreatable", "unresolvable", "good"}}
    \cup {Contents(TRUE, "good", [file_count_soft_limit |-> <<n, u>>]) :
             n \in {0, 5, U64Max, U64Max + 1}, u \in {"none", "K", "Ki"}}
    \cup {Contents(TRUE, "good", [files_total_size_soft_limit |-> <<n, u>>]) :
             n \in {5, U64Max}, u \in {"Ki", "M"}}
    \cup {Contents(TRUE, "good", [cleanup_interval |-> <<n, u>>]) :
             n \in {1, U64Max}, u \in {"s", "m", "none"}}
    \cup {Contents(TRUE, "good", [files_total_size_limit_percent_if_deleting |-> <<n, "percent">>]) :
             n \in {100, 101, 256}}
    \cup {Contents(TRUE, "good", [file_count_limit_percent_if_deleting |-> <<n, "percent">>]) :
             n \in {100, 101}}
    \cup {Contents(TRUE, "good", [baseline_compression_level |-> <<n, "none">>]) :
             n \in {0, 20, 21, 22}}
    \cup {Contents(TRUE, "good", [baseline_compression_level |-> <<b, "none">>,
                                  optimized_compression_level |-> <<o, "none">>]) :
             b \in {21, 22}, o \in {20, 21, 22}}

MCScenarios ==
    <<[threads |-> {"t1"}, files |-> LimitFiles, creators |-> 0, directories |-> MCDirectories],
      [threads |-> {"t1", "t2", "t3"}, files |-> AnyFile, creators |-> 2, directories |-> {{}}]>>
=============================================================================
