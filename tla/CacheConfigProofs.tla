-------------------------- MODULE CacheConfigProofs --------------------------
(***************************************************************************)
(* Proofs about CacheConfig, for every configuration file, all units and   *)
(* defaults, and any set of threads: whoever finds the cache enabled has a *)
(* worker with complete settings in range.                                 *)
(*                                                                         *)
(* The first part follows a configuration through the validations; each    *)
(* stage keeps what the earlier ones established as long as there are no   *)
(* errors.  The second part is about the race of init() with the first use *)
(* of the cache.                                                           *)
(***************************************************************************)
EXTENDS CacheConfig, TLAPS

Levels == {"baseline_compression_level", "optimized_compression_level"}

(* Before validation: levels are any numbers, the rest fits. *)
Unvalidated ==
    {c \in Configuration :
        \A s \in Setting \ Levels : c.settings[s] \in (0 .. U64Max) \cup {None}}

LEMMA SettingNames ==
    /\ Setting = {"worker_event_queue_size", "baseline_compression_level",
                  "optimized_compression_level",
                  "optimized_compression_usage_counter_threshold", "cleanup_interval",
                  "optimizing_compression_task_timeout",
                  "allowed_clock_drift_for_files_from_future", "file_count_soft_limit",
                  "files_total_size_soft_limit", "file_count_limit_percent_if_deleting",
                  "files_total_size_limit_percent_if_deleting"}
    /\ Levels \subseteq Setting
BY DEF Setting, Kind, Levels

(* A deserialized value fits, a level being any number. *)
LEMMA DeserializeType ==
    ASSUME NEW s \in Setting, NEW t \in Text \cup {None}, deserialize(s, t) # Invalid
    PROVE  /\ deserialize(s, t) \in Int \cup {None}
           /\ s \notin Levels => deserialize(s, t) \in (0 .. U64Max) \cup {None}
<1>u. U64Max \in Nat /\ U64Max >= 255
  BY ConfigAssumption
<1>1. CASE t = None
  BY <1>1 DEF deserialize
<1>2. CASE t # None
  <2>t. t \in Text /\ t.num \in Int
    BY <1>2 DEF Text
  <2>k. Kind[s] \in DOMAIN Factor
    BY ConfigAssumption
  <2>f. \A k \in DOMAIN Factor : \A u \in DOMAIN Factor[k] : Factor[k][u] \in Nat
    BY ConfigAssumption
  <2>mul. \A a, b \in Nat : a * b \in Nat
    OBVIOUS
  <2>mod. \A a \in Nat : a % (U64Max + 1) \in 0 .. U64Max
    BY <1>u
  <2>nat. 0 .. U64Max \subseteq Nat
    BY <1>u
  <2>1. CASE Kind[s] = "duration"
    <3>1. deserialize(s, t) = deserialize_duration(t)
      BY <1>2, <2>1 DEF deserialize
    <3>2. /\ t.num \in 0 .. U64Max
          /\ t.unit \in DOMAIN Factor["duration"]
          /\ deserialize(s, t) = (t.num * Factor["duration"][t.unit]) % (U64Max + 1)
      BY <3>1 DEF deserialize_duration
    <3>3. t.num \in Nat /\ Factor["duration"][t.unit] \in Nat
      BY <3>2, <2>1, <2>k, <2>f, <2>nat
    <3>4. t.num * Factor["duration"][t.unit] \in Nat
      BY <3>3, <2>mul
    <3>5. deserialize(s, t) \in 0 .. U64Max
      BY <3>2, <3>4, <2>mod
    <3> QED BY <3>5, <2>nat
  <2>2. CASE Kind[s] \in {"si_prefix", "disk_space"}
    <3>1. deserialize(s, t) = CheckedMul(Kind[s], t)
      BY <1>2, <2>2 DEF deserialize, deserialize_si_prefix, deserialize_disk_space
    <3>2. /\ t.num \in 0 .. U64Max
          /\ t.unit \in DOMAIN Factor[Kind[s]]
          /\ deserialize(s, t) = t.num * Factor[Kind[s]][t.unit]
          /\ ~(t.num * Factor[Kind[s]][t.unit] > U64Max)
      BY <3>1 DEF CheckedMul
    <3>3. t.num \in Nat /\ Factor[Kind[s]][t.unit] \in Nat
      BY <3>2, <2>k, <2>f, <2>nat
    <3>4. t.num * Factor[Kind[s]][t.unit] \in Nat
      BY <3>3, <2>mul
    <3>5. deserialize(s, t) \in 0 .. U64Max
      BY <3>2, <3>4, <1>u
    <3> QED BY <3>5, <2>nat
  <2>3. CASE Kind[s] = "percent"
    <3>1. deserialize(s, t) = deserialize_percent(t)
      BY <1>2, <2>3 DEF deserialize
    <3>2. t.num \in 0 .. 255 /\ deserialize(s, t) = t.num
      BY <3>1 DEF deserialize_percent
    <3>3. deserialize(s, t) \in 0 .. U64Max
      BY <3>2, <1>u
    <3> QED BY <3>3, <2>nat
  <2>4. CASE Kind[s] = "i32"
    <3>1. deserialize(s, t) = t.num
      BY <1>2, <2>4 DEF deserialize
    <3>2. s \in Levels
      BY <2>4, SettingNames DEF Kind, Levels
    <3> QED BY <3>1, <3>2, <2>t
  <2>5. Kind[s] \in {"duration", "si_prefix", "disk_space", "percent", "i32"}
    BY DEF Kind, Setting
  <2> QED BY <2>1, <2>2, <2>3, <2>4, <2>5
<1> QED BY <1>1, <1>2

(* Changes of one field. *)
LEMMA Changed ==
    ASSUME NEW c \in Configuration
    PROVE  /\ \A e \in SUBSET (Setting \cup {"directory", "file"}) :
                  /\ [c EXCEPT !.errors = e] \in Configuration
                  /\ [c EXCEPT !.errors = e].errors = e
                  /\ [c EXCEPT !.errors = e].enabled = c.enabled
                  /\ [c EXCEPT !.errors = e].directory = c.directory
                  /\ [c EXCEPT !.errors = e].settings = c.settings
           /\ \A b \in BOOLEAN :
                  /\ [c EXCEPT !.enabled = b] \in Configuration
                  /\ [c EXCEPT !.enabled = b].errors = c.errors
                  /\ [c EXCEPT !.enabled = b].enabled = b
                  /\ [c EXCEPT !.enabled = b].directory = c.directory
                  /\ [c EXCEPT !.enabled = b].settings = c.settings
           /\ \A d \in Directory \cup {"canonical", None} :
                  /\ [c EXCEPT !.directory = d] \in Configuration
                  /\ [c EXCEPT !.directory = d].errors = c.errors
                  /\ [c EXCEPT !.directory = d].enabled = c.enabled
                  /\ [c EXCEPT !.directory = d].directory = d
                  /\ [c EXCEPT !.directory = d].settings = c.settings
           /\ \A v \in [Setting -> Int \cup {None}] :
                  /\ [c EXCEPT !.settings = v] \in Configuration
                  /\ [c EXCEPT !.settings = v].errors = c.errors
                  /\ [c EXCEPT !.settings = v].enabled = c.enabled
                  /\ [c EXCEPT !.settings = v].directory = c.directory
                  /\ [c EXCEPT !.settings = v].settings = v
<1> DEFINE E == SUBSET (Setting \cup {"directory", "file"})
           D == Directory \cup {"canonical", None}
           V == [Setting -> Int \cup {None}]
<1>1. Configuration = [errors : E, enabled : BOOLEAN, directory : D, settings : V]
  BY DEF Configuration
<1> HIDE DEF E, D, V
<1> QED BY <1>1 DEF E, D, V

LEMMA Disabled ==
    /\ new_cache_disabled \in Unvalidated
    /\ new_cache_disabled.errors = {} /\ new_cache_disabled.enabled = FALSE
<1> DEFINE none == [s \in Setting |-> None]
<1>1. none \in [Setting -> Int \cup {None}] /\ \A s \in Setting : none[s] = None
  OBVIOUS
<1>2. new_cache_disabled = [errors |-> {}, enabled |-> FALSE, directory |-> None, settings |-> none]
  BY DEF new_cache_disabled
<1> HIDE DEF none
<1> QED BY <1>1, <1>2 DEF Unvalidated, Configuration

(* What is read from a file, or made up for want of one. *)
LEMMA LoadedType ==
    ASSUME NEW f \in File, NEW custom \in BOOLEAN, load_and_parse_file(f, custom) # Invalid
    PROVE  /\ load_and_parse_file(f, custom) \in Unvalidated
           /\ load_and_parse_file(f, custom).errors = {}
           /\ ~load_and_parse_file(f, custom).enabled => f.state = "settings" /\ ~f.enabled
<1>t. /\ new_cache_enabled_template \in Unvalidated
      /\ new_cache_enabled_template.errors = {} /\ new_cache_enabled_template.enabled
  BY Disabled, Changed DEF new_cache_enabled_template, Unvalidated
<1>1. CASE f.state = "missing"
  <2>1. load_and_parse_file(f, custom) = new_cache_enabled_template
    BY <1>1 DEF load_and_parse_file
  <2> QED BY <2>1, <1>t
<1>2. CASE f.state # "missing"
  <2>1. /\ f.state = "settings"
        /\ \A s \in Setting : Parsed(f)[s] # Invalid
        /\ load_and_parse_file(f, custom) =
               [errors |-> {}, enabled |-> f.enabled, directory |-> f.directory,
                settings |-> Parsed(f)]
    BY <1>2 DEF load_and_parse_file
  <2>2. /\ f.state = "settings" /\ f.enabled \in BOOLEAN
        /\ f.directory \in Directory \cup {None}
        /\ f.settings \in [Setting -> Text \cup {None}]
    BY <1>2, <2>1 DEF File
  <2>3. \A s \in Setting : /\ Parsed(f)[s] \in Int \cup {None}
                           /\ s \notin Levels => Parsed(f)[s] \in (0 .. U64Max) \cup {None}
    BY <2>1, <2>2, DeserializeType DEF Parsed
  <2>4. Parsed(f) \in [Setting -> Int \cup {None}]
    BY <2>3 DEF Parsed
  <2>5. load_and_parse_file(f, custom) \in Unvalidated
    BY <2>1, <2>2, <2>3, <2>4 DEF Unvalidated, Configuration
  <2> QED BY <2>1, <2>2, <2>5
<1> QED BY <1>1, <1>2

(* Filling in a default settles one setting and leaves the others. *)
LEMMA OrDefaultDoes ==
    ASSUME NEW c \in Unvalidated, NEW s \in Setting
    PROVE  /\ OrDefault(c, s) \in Unvalidated
           /\ OrDefault(c, s).errors = c.errors
           /\ OrDefault(c, s).enabled = c.enabled
           /\ OrDefault(c, s).directory = c.directory
           /\ OrDefault(c, s).settings[s] \in Int
           /\ s \notin Levels => OrDefault(c, s).settings[s] \in 0 .. U64Max
           /\ \A x \in Setting \ {s} : OrDefault(c, s).settings[x] = c.settings[x]
<1>c. c \in Configuration /\ c.settings \in [Setting -> Int \cup {None}]
  BY DEF Unvalidated, Configuration
<1>d. DefaultSetting[s] \in 0 .. U64Max /\ DefaultSetting[s] \in Int
  BY ConfigAssumption
<1>1. CASE c.settings[s] = None
  <2> DEFINE v == [c.settings EXCEPT ![s] = DefaultSetting[s]]
  <2>1. /\ v \in [Setting -> Int \cup {None}]
        /\ v[s] = DefaultSetting[s]
        /\ \A x \in Setting \ {s} : v[x] = c.settings[x]
    BY <1>c, <1>d
  <2>2. OrDefault(c, s) = [c EXCEPT !.settings = v]
    BY <1>1 DEF OrDefault
  <2> HIDE DEF v
  <2>3. /\ OrDefault(c, s) \in Configuration
        /\ OrDefault(c, s).errors = c.errors
        /\ OrDefault(c, s).enabled = c.enabled
        /\ OrDefault(c, s).directory = c.directory
        /\ OrDefault(c, s).settings = v
    BY <1>c, <2>1, <2>2, Changed
  <2>4. \A x \in Setting \ Levels : v[x] \in (0 .. U64Max) \cup {None}
    BY <1>d, <2>1 DEF Unvalidated
  <2> QED BY <1>d, <2>1, <2>3, <2>4 DEF Unvalidated
<1>2. CASE c.settings[s] # None
  <2>1. OrDefault(c, s) = c
    BY <1>2 DEF OrDefault
  <2> QED BY <1>2, <1>c, <2>1 DEF Unvalidated
<1> QED BY <1>1, <1>2

LEMMA SameSettings ==
    ASSUME NEW c \in Unvalidated, NEW r \in Configuration, r.settings = c.settings
    PROVE  r \in Unvalidated
BY DEF Unvalidated

LEMMA ErrorDoes ==
    ASSUME NEW c \in Unvalidated, NEW s \in Setting \cup {"directory", "file"}
    PROVE  /\ Error(c, s) \in Unvalidated
           /\ Error(c, s).errors # {}
           /\ Error(c, s).enabled = c.enabled
           /\ Error(c, s).directory = c.directory
           /\ Error(c, s).settings = c.settings
<1> DEFINE e == c.errors \cup {s}
<1>1. c \in Configuration /\ e \in SUBSET (Setting \cup {"directory", "file"}) /\ e # {}
  BY DEF Unvalidated, Configuration
<1>2. Error(c, s) = [c EXCEPT !.errors = e]
  BY DEF Error
<1> HIDE DEF e
<1>3. /\ Error(c, s) \in Configuration /\ Error(c, s).errors = e
      /\ Error(c, s).enabled = c.enabled
      /\ Error(c, s).directory = c.directory
      /\ Error(c, s).settings = c.settings
  BY <1>1, <1>2, Changed
<1> QED BY <1>1, <1>3, SameSettings

(* Without errors, what was checked is so. *)
LEMMA CheckedDoes ==
    ASSUME NEW c \in Unvalidated, NEW s \in Setting, NEW ok \in BOOLEAN
    PROVE  /\ Checked(c, s, ok) \in Unvalidated
           /\ Checked(c, s, ok).errors = {} => c.errors = {} /\ ok
           /\ Checked(c, s, ok).enabled = c.enabled
           /\ Checked(c, s, ok).directory = c.directory
           /\ Checked(c, s, ok).settings = c.settings
BY ErrorDoes DEF Checked

LEMMA DirectoryDoes ==
    ASSUME NEW c \in Unvalidated
    PROVE  /\ validate_directory_or_default(c) \in Unvalidated
           /\ validate_directory_or_default(c).enabled = c.enabled
           /\ validate_directory_or_default(c).errors = {} =>
                  validate_directory_or_default(c).directory = "canonical"
<1>c. c \in Configuration /\ c.directory \in Directory \cup {"canonical", None}
  BY DEF Unvalidated, Configuration
<1>1. \A d \in Directory \cup {"canonical"} :
          /\ Resolved(c, d) \in Unvalidated
          /\ Resolved(c, d).enabled = c.enabled
          /\ Resolved(c, d).errors = {} => Resolved(c, d).directory = "canonical"
  <2> SUFFICES ASSUME NEW d \in Directory \cup {"canonical"}
               PROVE  /\ Resolved(c, d) \in Unvalidated
                      /\ Resolved(c, d).enabled = c.enabled
                      /\ Resolved(c, d).errors = {} => Resolved(c, d).directory = "canonical"
    OBVIOUS
  <2> DEFINE g == [c EXCEPT !.directory = "canonical"]
             b == [c EXCEPT !.directory = d]
  <2>g. /\ g \in Configuration /\ g.settings = c.settings
        /\ g.enabled = c.enabled /\ g.directory = "canonical"
    BY <1>c, Changed
  <2>b. b \in Configuration /\ b.settings = c.settings /\ b.enabled = c.enabled
    BY <1>c, Changed
  <2>2. Resolved(c, d) = IF d = "good" THEN g ELSE Error(b, "directory")
    BY DEF Resolved
  <2> HIDE DEF g, b
  <2>1. g \in Unvalidated /\ b \in Unvalidated
    BY <2>g, <2>b, SameSettings
  <2> QED BY <2>g, <2>b, <2>1, <2>2, ErrorDoes
<1>2. "good" \in Directory
  BY DEF Directory
<1>3. /\ Error(c, "directory") \in Unvalidated
      /\ Error(c, "directory").enabled = c.enabled
      /\ Error(c, "directory").errors # {}
  BY ErrorDoes
<1> QED BY <1>c, <1>1, <1>2, <1>3 DEF validate_directory_or_default

LEMMA BaselineDoes ==
    ASSUME NEW c \in Unvalidated
    PROVE  LET r == validate_baseline_compression_level_or_default(c)
           IN  /\ r \in Unvalidated /\ r.enabled = c.enabled
               /\ r.settings["baseline_compression_level"] \in Int
               /\ r.errors = {} => /\ c.errors = {}
                                   /\ r.directory = c.directory
                                   /\ r.settings["baseline_compression_level"] \in 0 .. 21
<1> DEFINE s == "baseline_compression_level"
           o == OrDefault(c, s)
           ok == o.settings[s] \in ZSTD_COMPRESSION_LEVELS /\ o.settings[s] >= 0
<1>s. s \in Setting
  BY SettingNames
<1>1. /\ o \in Unvalidated /\ o.errors = c.errors /\ o.enabled = c.enabled
      /\ o.directory = c.directory /\ o.settings[s] \in Int
  BY <1>s, OrDefaultDoes
<1>2. validate_baseline_compression_level_or_default(c) = Checked(o, s, ok)
  BY DEF validate_baseline_compression_level_or_default, CheckLevel
<1>3. ok \in BOOLEAN /\ (ok => o.settings[s] \in 0 .. 21)
  BY DEF ZSTD_COMPRESSION_LEVELS
<1> HIDE DEF o, ok, s
<1> QED BY <1>s, <1>1, <1>2, <1>3, CheckedDoes DEF s

LEMMA OptimizedDoes ==
    ASSUME NEW c \in Unvalidated, c.settings["baseline_compression_level"] \in Int
    PROVE  LET r == validate_optimized_compression_level_or_default(c)
           IN  /\ r \in Unvalidated /\ r.enabled = c.enabled
               /\ r.errors = {} =>
                      /\ c.errors = {} /\ r.directory = c.directory
                      /\ r.settings["baseline_compression_level"] =
                             c.settings["baseline_compression_level"]
                      /\ r.settings["optimized_compression_level"] \in 0 .. 21
                      /\ c.settings["baseline_compression_level"]
                             <= r.settings["optimized_compression_level"]
<1> DEFINE s == "optimized_compression_level"
           o == OrDefault(c, s)
           ok == /\ o.settings[s] \in ZSTD_COMPRESSION_LEVELS
                 /\ o.settings[s] >= c.settings["baseline_compression_level"]
<1>s. s \in Setting /\ "baseline_compression_level" \in Setting \ {s}
  BY SettingNames
<1>1. /\ o \in Unvalidated /\ o.errors = c.errors /\ o.enabled = c.enabled
      /\ o.directory = c.directory /\ o.settings[s] \in Int
      /\ o.settings["baseline_compression_level"] = c.settings["baseline_compression_level"]
  BY <1>s, OrDefaultDoes
<1>2. validate_optimized_compression_level_or_default(c) = Checked(o, s, ok)
  BY DEF validate_optimized_compression_level_or_default, CheckLevel
<1>3. /\ ok \in BOOLEAN
      /\ ok => /\ o.settings[s] \in 0 .. 21
               /\ c.settings["baseline_compression_level"] <= o.settings[s]
  BY <1>1 DEF ZSTD_COMPRESSION_LEVELS
<1> HIDE DEF o, ok, s
<1> QED BY <1>s, <1>1, <1>2, <1>3, CheckedDoes DEF s

LEMMA OthersDoes ==
    ASSUME NEW c \in Unvalidated
    PROVE  /\ OthersOrDefault(c) \in Unvalidated
           /\ OthersOrDefault(c).errors = c.errors
           /\ OthersOrDefault(c).enabled = c.enabled
           /\ OthersOrDefault(c).directory = c.directory
           /\ \A s \in DefaultedOnly : OthersOrDefault(c).settings[s] \in 0 .. U64Max
           /\ \A s \in Setting \ DefaultedOnly : OthersOrDefault(c).settings[s] = c.settings[s]
<1> DEFINE v == [s \in Setting |-> IF s \in DefaultedOnly THEN OrDefault(c, s).settings[s]
                                   ELSE c.settings[s]]
<1>c. c \in Configuration /\ c.settings \in [Setting -> Int \cup {None}]
  BY DEF Unvalidated, Configuration
<1>d. DefaultedOnly \subseteq Setting \ Levels
  BY DEF DefaultedOnly, Levels
<1>1. \A s \in DefaultedOnly : v[s] \in 0 .. U64Max /\ v[s] \in Int
  BY <1>d, OrDefaultDoes
<1>2. \A s \in Setting \ DefaultedOnly : v[s] = c.settings[s]
  OBVIOUS
<1>3. v \in [Setting -> Int \cup {None}]
  BY <1>c, <1>1, <1>2
<1>4. OthersOrDefault(c) = [c EXCEPT !.settings = v]
  BY DEF OthersOrDefault
<1> HIDE DEF v
<1>5. /\ OthersOrDefault(c) \in Configuration
      /\ OthersOrDefault(c).errors = c.errors
      /\ OthersOrDefault(c).enabled = c.enabled
      /\ OthersOrDefault(c).directory = c.directory
      /\ OthersOrDefault(c).settings = v
  BY <1>c, <1>3, <1>4, Changed
<1>6. \A s \in Setting \ Levels : v[s] \in (0 .. U64Max) \cup {None}
  BY <1>1, <1>2 DEF Unvalidated
<1> QED BY <1>1, <1>2, <1>5, <1>6 DEF Unvalidated

(* Either percentage. *)
LEMMA PercentDoes ==
    ASSUME NEW c \in Unvalidated, NEW s \in Setting \ Levels
    PROVE  LET r == CheckPercent(OrDefault(c, s), s)
           IN  /\ r \in Unvalidated /\ r.enabled = c.enabled
               /\ r.errors = {} =>
                      /\ c.errors = {} /\ r.directory = c.directory
                      /\ r.settings[s] \in 0 .. U64Max /\ r.settings[s] <= 100
                      /\ \A x \in Setting \ {s} : r.settings[x] = c.settings[x]
<1> DEFINE o == OrDefault(c, s)
           ok == o.settings[s] <= 100
<1>1. /\ o \in Unvalidated /\ o.errors = c.errors /\ o.enabled = c.enabled
      /\ o.directory = c.directory /\ o.settings[s] \in 0 .. U64Max
      /\ \A x \in Setting \ {s} : o.settings[x] = c.settings[x]
  BY OrDefaultDoes
<1>2. CheckPercent(OrDefault(c, s), s) = Checked(o, s, ok)
  BY DEF CheckPercent
<1>3. ok \in BOOLEAN
  OBVIOUS
<1>4. ok => o.settings[s] <= 100
  OBVIOUS
<1> HIDE DEF o, ok
<1> QED BY <1>1, <1>2, <1>3, <1>4, CheckedDoes

(* A configuration without errors is complete and in range. *)
LEMMA ValidatedDoes ==
    ASSUME NEW c \in Unvalidated
    PROVE  /\ Validated(c) \in Configuration
           /\ Validated(c).enabled = c.enabled
           /\ Validated(c).errors = {} => Usable(Validated(c))
<1> DEFINE p == "file_count_limit_percent_if_deleting"
           q == "files_total_size_limit_percent_if_deleting"
           b == "baseline_compression_level"
           z == "optimized_compression_level"
           c1 == validate_directory_or_default(c)
           c2 == validate_baseline_compression_level_or_default(c1)
           c3 == validate_optimized_compression_level_or_default(c2)
           c4 == OthersOrDefault(c3)
           c5 == CheckPercent(OrDefault(c4, p), p)
           c6 == CheckPercent(OrDefault(c5, q), q)
<1>s. /\ {p, q} \subseteq Setting \ Levels /\ p # q
      /\ {b, z} \subseteq Setting /\ {b, z} \cap {p, q} = {}
      /\ Setting = DefaultedOnly \cup {b, z, p, q}
      /\ {b, z, p, q} \cap DefaultedOnly = {}
  BY SettingNames DEF Levels, DefaultedOnly
<1>6. Validated(c) = c6
  BY DEF Validated, validate_file_count_limit_percent_if_deleting_or_default,
         validate_files_total_size_limit_percent_if_deleting_or_default
<1> HIDE DEF c1, c2, c3, c4, c5, c6, p, q, b, z
<1>c1. /\ c1 \in Unvalidated /\ c1.enabled = c.enabled
       /\ c1.errors = {} => c1.directory = "canonical"
  BY DirectoryDoes DEF c1
<1>c2. /\ c2 \in Unvalidated /\ c2.enabled = c.enabled /\ c2.settings[b] \in Int
       /\ c2.errors = {} => c2.directory = "canonical" /\ c2.settings[b] \in 0 .. 21
  BY <1>c1, BaselineDoes DEF c2, b
<1>c3. /\ c3 \in Unvalidated /\ c3.enabled = c.enabled
       /\ c3.errors = {} => /\ c3.directory = "canonical" /\ c3.settings[b] \in 0 .. 21
                            /\ c3.settings[z] \in 0 .. 21 /\ c3.settings[b] <= c3.settings[z]
  BY <1>c2, OptimizedDoes DEF c3, b, z
<1>c4. /\ c4 \in Unvalidated /\ c4.enabled = c.enabled
       /\ c4.errors = {} => /\ c4.directory = "canonical" /\ c4.settings[b] \in 0 .. 21
                            /\ c4.settings[z] \in 0 .. 21 /\ c4.settings[b] <= c4.settings[z]
       /\ \A s \in DefaultedOnly : c4.settings[s] \in 0 .. U64Max
  BY <1>c3, <1>s, OthersDoes DEF c4
<1>c5. /\ c5 \in Unvalidated /\ c5.enabled = c.enabled
       /\ c5.errors = {} =>
              /\ c4.errors = {} /\ c5.directory = c4.directory
              /\ c5.settings[p] \in 0 .. U64Max /\ c5.settings[p] <= 100
              /\ \A s \in Setting \ {p} : c5.settings[s] = c4.settings[s]
  BY <1>c4, <1>s, PercentDoes DEF c5
<1>c6. /\ c6 \in Unvalidated /\ c6.enabled = c.enabled
       /\ c6.errors = {} =>
              /\ c5.errors = {} /\ c6.directory = c5.directory
              /\ c6.settings[q] \in 0 .. U64Max /\ c6.settings[q] <= 100
              /\ \A s \in Setting \ {q} : c6.settings[s] = c5.settings[s]
  BY <1>c5, <1>s, PercentDoes DEF c6
<1>7. ASSUME c6.errors = {}
      PROVE  Usable(c6)
  <2>1. /\ c6.directory = "canonical" /\ c6.settings[b] \in 0 .. 21
        /\ c6.settings[z] \in 0 .. 21 /\ c6.settings[b] <= c6.settings[z]
    BY <1>7, <1>s, <1>c4, <1>c5, <1>c6
  <2>2. \A s \in DefaultedOnly : c6.settings[s] \in 0 .. U64Max
    BY <1>7, <1>s, <1>c4, <1>c5, <1>c6
  <2>3. c6.settings[p] \in 0 .. U64Max /\ c6.settings[p] <= 100
    BY <1>7, <1>s, <1>c5, <1>c6
  <2>4. c6.settings[q] \in 0 .. U64Max /\ c6.settings[q] <= 100
    BY <1>7, <1>c6
  <2>5. c6.settings[b] \in 0 .. U64Max /\ c6.settings[z] \in 0 .. U64Max
    BY <2>1, ConfigAssumption
  <2>6. \A s \in Setting : c6.settings[s] \in 0 .. U64Max
    BY <1>s, <2>2, <2>3, <2>4, <2>5
  <2>7. c6.settings[z] <= 21
    BY <2>1
  <2> QED BY <2>1, <2>3, <2>4, <2>6, <2>7 DEF Usable, p, q, b, z
<1> QED BY <1>6, <1>7, <1>c6 DEF Unvalidated

(* What the configuration of a process may be. *)
Sound(c) == c \in Configuration /\ (c.enabled => c.errors = {} /\ Usable(c))

LEMMA DisabledSound == Sound(new_cache_disabled)
BY Disabled DEF Sound, Unvalidated

LEMMA FromFile ==
    ASSUME NEW enabled \in BOOLEAN, NEW f \in File, NEW custom \in BOOLEAN
    PROVE  /\ Sound(from_file(enabled, f, custom))
           /\ (enabled /\ from_file(enabled, f, custom).errors = {}
                       /\ ~from_file(enabled, f, custom).enabled) =>
                  f.state = "settings" /\ ~f.enabled
           /\ from_file(enabled, f, custom).enabled => enabled
<1>e. ASSUME NEW e \in SUBSET (Setting \cup {"directory", "file"})
      PROVE  /\ new_cache_with_errors(e) \in Configuration
             /\ new_cache_with_errors(e).errors = e
             /\ new_cache_with_errors(e).enabled = FALSE
  <2>1. new_cache_disabled \in Configuration /\ new_cache_disabled.enabled = FALSE
    BY Disabled DEF Unvalidated
  <2>2. new_cache_with_errors(e) = [new_cache_disabled EXCEPT !.errors = e]
    BY DEF new_cache_with_errors
  <2> QED BY <2>1, <2>2, Changed
<1>1. CASE ~enabled
  <2>1. from_file(enabled, f, custom) = new_cache_disabled
    BY <1>1 DEF from_file
  <2> QED BY <1>1, <2>1, DisabledSound, Disabled
<1>2. CASE enabled /\ load_and_parse_file(f, custom) = Invalid
  <2>1. from_file(enabled, f, custom) = new_cache_with_errors({"file"})
    BY <1>2 DEF from_file
  <2>2. {"file"} \in SUBSET (Setting \cup {"directory", "file"}) /\ {"file"} # {}
    OBVIOUS
  <2> QED BY <1>2, <2>1, <2>2, <1>e DEF Sound
<1>3. CASE enabled /\ load_and_parse_file(f, custom) # Invalid
  <2> DEFINE c == load_and_parse_file(f, custom)
             v == Validated(c)
             r == from_file(enabled, f, custom)
  <2>1. c \in Unvalidated /\ (~c.enabled => f.state = "settings" /\ ~f.enabled)
    BY <1>3, LoadedType
  <2>2. r = IF v.errors = {} THEN v ELSE new_cache_with_errors(v.errors)
    BY <1>3 DEF from_file, disable_if_any_error
  <2> HIDE DEF c
  <2>3. v \in Configuration /\ v.enabled = c.enabled /\ (v.errors = {} => Usable(v))
    BY <2>1, ValidatedDoes
  <2> HIDE DEF v, r
  <2>4. CASE v.errors = {}
    <3>1. r = v
      BY <2>2, <2>4
    <3>2. Sound(r)
      BY <3>1, <2>3, <2>4 DEF Sound
    <3> QED BY <3>1, <3>2, <2>1, <2>3, <1>3 DEF r
  <2>5. CASE v.errors # {}
    <3>1. v.errors \in SUBSET (Setting \cup {"directory", "file"})
      BY <2>3 DEF Configuration
    <3>2. r \in Configuration /\ r.errors # {} /\ r.enabled = FALSE
      BY <3>1, <2>2, <2>5, <1>e
    <3>3. Sound(r)
      BY <3>2 DEF Sound
    <3> QED BY <3>2, <3>3 DEF r
  <2> QED BY <2>4, <2>5
<1> QED BY <1>1, <1>2, <1>3

-----------------------------------------------------------------------------
(* The inductive invariant *)

Call ==
    [call : {None, "init", "use"},
     at : {"ready", "try", "once", "worker", "entry", "returned", "panicked"},
     early : BOOLEAN, enabled : BOOLEAN]

TypeInv ==
    /\ bound \in DOMAIN Scenarios
    /\ file \in File
    /\ creators \in [checking : Nat, opening : Nat, writing : Nat]
    /\ INIT_CALLED \in BOOLEAN
    /\ CONFIG # None => Sound(CONFIG)
    /\ thread \in [Thread -> Call]
    /\ \A t \in Thread :
           /\ thread[t].at = "ready" <=> thread[t].call = None
           /\ thread[t].at \in {"try", "once", "worker"} => thread[t].call = "init"
           /\ thread[t].at = "entry" => thread[t].call = "use" /\ thread[t].enabled

(* Who set the statics: init() is called by a thread, CONFIG set by one that *)
(* is past its Once or by an early use, WORKER by one that returned.         *)
SetBy ==
    /\ INIT_CALLED => \E t \in Thread : thread[t].call = "init"
    /\ CONFIG # None =>
           \E t \in Thread :
               \/ thread[t].call = "init" /\ thread[t].at \in {"worker", "returned", "panicked"}
               \/ thread[t].call = "use" /\ thread[t].early
    /\ (CONFIG # None /\ CONFIG.enabled) => \E t \in Thread : thread[t].call = "init"
    /\ WORKER # None => CONFIG # None /\ WORKER = CONFIG /\ Initialized

(* What a thread knows of the statics from where it is. *)
Knows ==
    \A t \in Thread :
        /\ thread[t].at = "worker" => CONFIG # None /\ CONFIG.enabled
        /\ (thread[t].call = "init" /\ thread[t].at = "returned") =>
               CONFIG # None /\ (CONFIG.enabled => WORKER = CONFIG)
        /\ thread[t].call = "use" =>
               /\ CONFIG # None /\ thread[t].enabled = CONFIG.enabled
               /\ ~thread[t].early => Initialized

(* Only a file that is missing is created. *)
CreatedOnly ==
    (creators.opening > 0 \/ creators.writing > 0) =>
        file.state \in {"missing", "created"} \/ file = Template

PanicIsMisuse ==
    AsDocumented => \A t \in Thread : thread[t].at # "panicked"

DisabledByFile ==
    AsDocumented =>
        \A t \in Thread :
            (/\ thread[t].call = "init" /\ thread[t].at = "returned"
             /\ thread[t].enabled /\ CONFIG.errors = {} /\ ~CONFIG.enabled) =>
                file.state = "settings" /\ ~file.enabled

IInv == TypeInv /\ SetBy /\ Knows /\ CreatedOnly /\ PanicIsMisuse /\ DisabledByFile

LEMMA Distinct ==
    /\ None \notin Configuration /\ None \notin Int
    /\ None # "init" /\ None # "use" /\ None # "canonical"
BY ConfigAssumption

LEMMA GotoDoes ==
    ASSUME TypeInv, NEW t \in Thread, NEW a \in {"worker", "once", "returned", "panicked"},
           Goto(t, a)
    PROVE  /\ thread' \in [Thread -> Call]
           /\ thread'[t].at = a
           /\ thread'[t].call = thread[t].call
           /\ thread'[t].early = thread[t].early
           /\ thread'[t].enabled = thread[t].enabled
           /\ \A x \in Thread \ {t} : thread'[x] = thread[x]
<1>1. thread[t] \in Call /\ thread \in [Thread -> Call]
  BY DEF TypeInv
<1>2. thread' = [thread EXCEPT ![t] = [thread[t] EXCEPT !.at = a]]
  BY DEF Goto
<1>3. /\ [thread[t] EXCEPT !.at = a] \in Call
      /\ [thread[t] EXCEPT !.at = a].at = a
      /\ [thread[t] EXCEPT !.at = a].call = thread[t].call
      /\ [thread[t] EXCEPT !.at = a].early = thread[t].early
      /\ [thread[t] EXCEPT !.at = a].enabled = thread[t].enabled
  BY <1>1 DEF Call
<1> HIDE DEF Call
<1> QED BY <1>1, <1>2, <1>3

(* Use as documented was so before the step. *)
LEMMA DocumentedBefore ==
    ASSUME NEW t \in Thread, bound' = bound,
           \A x \in Thread \ {t} : thread'[x] = thread[x],
           thread[t].call \in {"init", "use"} =>
               thread'[t].call = thread[t].call /\ thread'[t].early = thread[t].early,
           AsDocumented'
    PROVE  AsDocumented
<1>1. Thread' = Thread
  BY DEF Thread
<1>2. \A x \in Thread : thread[x].call \in {"init", "use"} =>
          thread'[x].call = thread[x].call /\ thread'[x].early = thread[x].early
  OBVIOUS
<1>3. /\ \A x, y \in Thread : thread'[x].call = "init" /\ thread'[y].call = "init" => x = y
      /\ (\E x \in Thread : thread'[x].call = "init") =>
             \A y \in Thread : thread'[y].call = "use" => ~thread'[y].early
  BY <1>1 DEF AsDocumented, Calls
<1>4. /\ \A x, y \in Thread : thread[x].call = "init" /\ thread[y].call = "init" => x = y
      /\ (\E x \in Thread : thread[x].call = "init") =>
             \A y \in Thread : thread[y].call = "use" => ~thread[y].early
  BY <1>2, <1>3
<1> QED BY <1>4 DEF AsDocumented, Calls

(* The two ways of misuse. *)
LEMMA Misuse ==
    /\ \A x, y \in Thread :
           (thread[x].call = "init" /\ thread[y].call = "init" /\ x # y) => ~AsDocumented
    /\ \A x, y \in Thread :
           (thread[x].call = "init" /\ thread[y].call = "use" /\ thread[y].early) => ~AsDocumented
BY DEF AsDocumented, Calls

LEMMA IInvInit == ConfigInit => IInv
<1> SUFFICES ASSUME ConfigInit PROVE IInv
  OBVIOUS
<1>1. /\ bound \in DOMAIN Scenarios
      /\ file \in Scenarios[bound].files
      /\ creators = [checking |-> Scenarios[bound].creators, opening |-> 0, writing |-> 0]
      /\ INIT_CALLED = FALSE /\ CONFIG = None /\ WORKER = None
      /\ thread = [t \in Thread |-> Ready]
  BY DEF ConfigInit
<1>2. file \in File /\ creators \in [checking : Nat, opening : Nat, writing : Nat]
  BY <1>1, ConfigAssumption
<1>3. Ready \in Call /\ Ready.call = None /\ Ready.at = "ready"
  BY DEF Ready, Call
<1>4. /\ thread \in [Thread -> Call]
      /\ \A t \in Thread : thread[t].call = None /\ thread[t].at = "ready"
  BY <1>1, <1>3
<1>5. None # "init" /\ None # "use"
  BY Distinct
<1>6. TypeInv
  BY <1>1, <1>2, <1>4 DEF TypeInv
<1>7. SetBy /\ Knows
  BY <1>1, <1>4, <1>5 DEF SetBy, Knows
<1>8. CreatedOnly
  BY <1>1 DEF CreatedOnly
<1>9. PanicIsMisuse /\ DisabledByFile
  BY <1>4, <1>5 DEF PanicIsMisuse, DisabledByFile
<1> QED BY <1>6, <1>7, <1>8, <1>9 DEF IInv

LEMMA InitStep ==
    ASSUME IInv, NEW t \in Thread, init(t)
    PROVE  IInv'
<1>i. TypeInv /\ SetBy /\ Knows /\ CreatedOnly /\ PanicIsMisuse /\ DisabledByFile
  BY DEF IInv
<1>u. /\ bound' = bound /\ file' = file /\ creators' = creators
      /\ CONFIG' = CONFIG /\ WORKER' = WORKER
  BY DEF init
<1>T. Thread' = Thread
  BY <1>u DEF Thread
<1> DEFINE r(e) == [call |-> "init", at |-> IF INIT_CALLED THEN "panicked" ELSE "try",
                    early |-> FALSE, enabled |-> e]
<1>p. PICK e \in BOOLEAN : thread' = [thread EXCEPT ![t] = r(e)]
  BY DEF init
<1>r. /\ r(e) \in Call /\ r(e).call = "init"
      /\ r(e).at = IF INIT_CALLED THEN "panicked" ELSE "try"
  BY DEF Call
<1> HIDE DEF r
<1>t. thread \in [Thread -> Call] /\ thread[t].at = "ready" /\ thread[t].call = None
  BY <1>i DEF TypeInv, init
<1>th. /\ thread' \in [Thread -> Call]
       /\ thread'[t].call = "init"
       /\ thread'[t].at = IF INIT_CALLED THEN "panicked" ELSE "try"
       /\ \A x \in Thread \ {t} : thread'[x] = thread[x]
  BY <1>p, <1>r, <1>t
<1>n. None # "init" /\ None # "use"
  BY Distinct
<1>a. AsDocumented' => AsDocumented
  BY <1>u, <1>th, <1>t, <1>n, DocumentedBefore
<1>I. Initialized => Initialized'
  BY <1>T, <1>t, <1>th DEF Initialized
<1>1. TypeInv'
  <2>1. INIT_CALLED' = TRUE
    BY DEF init
  <2> QED BY <1>i, <1>u, <1>T, <1>th, <1>n, <2>1 DEF TypeInv
<1>2. SetBy'
  <2>1. \E x \in Thread : thread'[x].call = "init"
    BY <1>th
  <2>2. \A x \in Thread : thread[x].call # None => thread'[x] = thread[x]
    BY <1>th, <1>t
  <2> QED BY <1>i, <1>u, <1>T, <1>I, <1>n, <2>1, <2>2 DEF SetBy
<1>3. Knows'
  BY <1>i, <1>u, <1>T, <1>I, <1>th DEF Knows
<1>4. CreatedOnly'
  BY <1>i, <1>u DEF CreatedOnly, Template
<1>5. PanicIsMisuse'
  <2> SUFFICES ASSUME AsDocumented', NEW x \in Thread, thread'[x].at = "panicked"
               PROVE  FALSE
    BY <1>T DEF PanicIsMisuse
  <2>1. x = t
    BY <1>a, <1>i, <1>th DEF PanicIsMisuse
  <2>2. INIT_CALLED
    BY <2>1, <1>th
  <2>3. PICK y \in Thread : thread[y].call = "init"
    BY <2>2, <1>i DEF SetBy
  <2>4. y # t /\ thread'[y].call = "init"
    BY <2>3, <1>t, <1>th, <1>n
  <2> QED BY <2>4, <1>th, <1>T DEF AsDocumented, Calls
<1>6. DisabledByFile'
  BY <1>a, <1>i, <1>u, <1>T, <1>th DEF DisabledByFile
<1> QED BY <1>1, <1>2, <1>3, <1>4, <1>5, <1>6 DEF IInv

LEMMA TryConfigStep ==
    ASSUME IInv, NEW t \in Thread, TryConfig(t)
    PROVE  IInv'
<1>i. TypeInv /\ SetBy /\ Knows /\ CreatedOnly /\ PanicIsMisuse /\ DisabledByFile
  BY DEF IInv
<1>u. /\ bound' = bound /\ file' = file /\ creators' = creators /\ INIT_CALLED' = INIT_CALLED
      /\ CONFIG' = CONFIG /\ WORKER' = WORKER /\ thread[t].at = "try"
  BY DEF TryConfig
<1>T. Thread' = Thread
  BY <1>u DEF Thread
<1>th. /\ thread' \in [Thread -> Call]
       /\ thread'[t].at = IF CONFIG = None THEN "once" ELSE "panicked"
       /\ thread'[t].call = thread[t].call /\ thread'[t].early = thread[t].early
       /\ thread'[t].enabled = thread[t].enabled
       /\ \A x \in Thread \ {t} : thread'[x] = thread[x]
  BY <1>i, GotoDoes DEF TryConfig
<1>t. thread[t].call = "init"
  BY <1>i, <1>u DEF TypeInv
<1>n. None # "init" /\ None # "use"
  BY Distinct
<1>a. AsDocumented' => AsDocumented
  BY <1>u, <1>th, DocumentedBefore
<1>I. Initialized => Initialized'
  BY <1>T, <1>u, <1>th DEF Initialized
<1>1. TypeInv'
  BY <1>i, <1>u, <1>T, <1>th, <1>t, <1>n DEF TypeInv
<1>2. SetBy'
  <2>1. \E x \in Thread : thread'[x].call = "init"
    BY <1>th, <1>t
  <2>2. \A x \in Thread : x # t => thread'[x] = thread[x]
    BY <1>th
  <2> QED BY <1>i, <1>u, <1>T, <1>I, <1>t, <2>1, <2>2 DEF SetBy
<1>3. Knows'
  BY <1>i, <1>u, <1>T, <1>I, <1>th, <1>t DEF Knows
<1>4. CreatedOnly'
  BY <1>i, <1>u DEF CreatedOnly, Template
<1>5. PanicIsMisuse'
  <2> SUFFICES ASSUME AsDocumented', NEW x \in Thread, thread'[x].at = "panicked"
               PROVE  FALSE
    BY <1>T DEF PanicIsMisuse
  <2>0. AsDocumented
    BY <1>a
  <2>1. x = t
    BY <2>0, <1>i, <1>th DEF PanicIsMisuse
  <2>2. CONFIG # None
    BY <2>1, <1>th
  <2>3. PICK y \in Thread :
            \/ thread[y].call = "init" /\ thread[y].at \in {"worker", "returned", "panicked"}
            \/ thread[y].call = "use" /\ thread[y].early
    BY <2>2, <1>i DEF SetBy
  <2> QED BY <2>0, <2>3, <1>t, <1>u, Misuse
<1>6. DisabledByFile'
  BY <1>a, <1>i, <1>u, <1>T, <1>th DEF DisabledByFile
<1> QED BY <1>1, <1>2, <1>3, <1>4, <1>5, <1>6 DEF IInv

LEMMA OnceConfigStep ==
    ASSUME IInv, NEW t \in Thread, OnceConfig(t)
    PROVE  IInv'
<1>i. TypeInv /\ SetBy /\ Knows /\ CreatedOnly /\ PanicIsMisuse /\ DisabledByFile
  BY DEF IInv
<1>u. /\ bound' = bound /\ file' = file /\ creators' = creators /\ INIT_CALLED' = INIT_CALLED
      /\ WORKER' = WORKER /\ thread[t].at = "once"
  BY DEF OnceConfig
<1>T. Thread' = Thread
  BY <1>u DEF Thread
<1>t. thread[t].call = "init" /\ thread[t].enabled \in BOOLEAN
  BY <1>i, <1>u DEF TypeInv, Call
<1>p. PICK custom \in BOOLEAN :
          CONFIG' = IF CONFIG = None THEN from_file(thread[t].enabled, file, custom) ELSE CONFIG
  BY DEF OnceConfig, Once
<1>f. /\ file \in File
      /\ CONFIG = None =>
             /\ Sound(CONFIG')
             /\ (thread[t].enabled /\ CONFIG'.errors = {} /\ ~CONFIG'.enabled) =>
                    file.state = "settings" /\ ~file.enabled
  <2>1. file \in File
    BY <1>i DEF TypeInv
  <2> QED BY <2>1, <1>p, <1>t, FromFile
<1>s. Sound(CONFIG') /\ CONFIG' # None
  <2>1. Sound(CONFIG')
    BY <1>f, <1>p, <1>i DEF TypeInv
  <2> QED BY <2>1, Distinct DEF Sound
<1>th. /\ thread' \in [Thread -> Call]
       /\ thread'[t].at = IF CONFIG'.errors = {} /\ CONFIG'.enabled THEN "worker" ELSE "returned"
       /\ thread'[t].call = thread[t].call /\ thread'[t].early = thread[t].early
       /\ thread'[t].enabled = thread[t].enabled
       /\ \A x \in Thread \ {t} : thread'[x] = thread[x]
  BY <1>i, GotoDoes DEF OnceConfig
<1>at. thread'[t].at = IF CONFIG'.enabled THEN "worker" ELSE "returned"
  BY <1>th, <1>s DEF Sound
<1>n. None # "init" /\ None # "use"
  BY Distinct
<1>a. AsDocumented' => AsDocumented
  BY <1>u, <1>th, DocumentedBefore
<1>I. Initialized => Initialized'
  BY <1>T, <1>u, <1>th DEF Initialized
<1>k. CONFIG # None => CONFIG' = CONFIG
  BY <1>p
<1>1. TypeInv'
  BY <1>i, <1>u, <1>s, <1>T, <1>th, <1>t, <1>n DEF TypeInv
<1>2. SetBy'
  <2>1. thread'[t].call = "init" /\ thread'[t].at \in {"worker", "returned", "panicked"}
    BY <1>at, <1>th, <1>t
  <2> QED BY <1>i, <1>u, <1>k, <1>T, <1>I, <2>1 DEF SetBy
<1>3. Knows'
  <2> SUFFICES ASSUME NEW x \in Thread
               PROVE  /\ thread'[x].at = "worker" => CONFIG' # None /\ CONFIG'.enabled
                      /\ (thread'[x].call = "init" /\ thread'[x].at = "returned") =>
                             CONFIG' # None /\ (CONFIG'.enabled => WORKER' = CONFIG')
                      /\ thread'[x].call = "use" =>
                             /\ CONFIG' # None /\ thread'[x].enabled = CONFIG'.enabled
                             /\ ~thread'[x].early => Initialized'
    BY <1>T DEF Knows
  <2>1. CASE x = t
    BY <2>1, <1>at, <1>s, <1>th, <1>t
  <2>2. CASE x # t
    BY <2>2, <1>th, <1>u, <1>i, <1>k, <1>I DEF Knows
  <2> QED BY <2>1, <2>2
<1>4. CreatedOnly'
  BY <1>i, <1>u DEF CreatedOnly, Template
<1>5. PanicIsMisuse'
  BY <1>a, <1>i, <1>T, <1>th DEF PanicIsMisuse
<1>6. DisabledByFile'
  <2> SUFFICES ASSUME AsDocumented', NEW x \in Thread,
                      thread'[x].call = "init" /\ thread'[x].at = "returned",
                      thread'[x].enabled /\ CONFIG'.errors = {} /\ ~CONFIG'.enabled
               PROVE  file.state = "settings" /\ ~file.enabled
    BY <1>u, <1>T DEF DisabledByFile
  <2>0. AsDocumented
    BY <1>a
  <2>1. x = t
    BY <2>0, <1>t, <1>th, Misuse
  <2>2. CONFIG = None
    <3> SUFFICES ASSUME CONFIG # None PROVE FALSE
      OBVIOUS
    <3>1. PICK y \in Thread :
              \/ thread[y].call = "init" /\ thread[y].at \in {"worker", "returned", "panicked"}
              \/ thread[y].call = "use" /\ thread[y].early
      BY <1>i DEF SetBy
    <3> QED BY <2>0, <3>1, <1>t, <1>u, Misuse
  <2> QED BY <2>1, <2>2, <1>f, <1>th
<1> QED BY <1>1, <1>2, <1>3, <1>4, <1>5, <1>6 DEF IInv

LEMMA WorkerInitStep ==
    ASSUME IInv, NEW t \in Thread, WorkerInit(t)
    PROVE  IInv'
<1>i. TypeInv /\ SetBy /\ Knows /\ CreatedOnly /\ PanicIsMisuse /\ DisabledByFile
  BY DEF IInv
<1>u. /\ bound' = bound /\ file' = file /\ creators' = creators /\ INIT_CALLED' = INIT_CALLED
      /\ CONFIG' = CONFIG /\ thread[t].at = "worker"
  BY DEF WorkerInit
<1>T. Thread' = Thread
  BY <1>u DEF Thread
<1>t. thread[t].call = "init"
  BY <1>i, <1>u DEF TypeInv
<1>c. CONFIG # None /\ CONFIG.enabled /\ Usable(CONFIG)
  BY <1>i, <1>u DEF Knows, TypeInv, Sound
<1>q. CONFIG.settings["worker_event_queue_size"] # None
  <2>1. CONFIG.settings["worker_event_queue_size"] \in 0 .. U64Max
    BY <1>c, SettingNames DEF Usable
  <2>2. 0 .. U64Max \subseteq Int
    BY ConfigAssumption
  <2> QED BY <2>1, <2>2, Distinct
<1>w. /\ WORKER # None => Goto(t, "panicked") /\ WORKER' = WORKER
      /\ WORKER = None => Goto(t, "returned") /\ WORKER' = CONFIG
  BY <1>q DEF WorkerInit
<1>th. /\ thread' \in [Thread -> Call]
       /\ thread'[t].at = IF WORKER # None THEN "panicked" ELSE "returned"
       /\ thread'[t].call = thread[t].call /\ thread'[t].early = thread[t].early
       /\ thread'[t].enabled = thread[t].enabled
       /\ \A x \in Thread \ {t} : thread'[x] = thread[x]
  BY <1>i, <1>w, GotoDoes
<1>n. None # "init" /\ None # "use"
  BY Distinct
<1>a. AsDocumented' => AsDocumented
  BY <1>u, <1>th, DocumentedBefore
<1>W. WORKER' = CONFIG /\ Initialized'
  <2>1. CASE WORKER = None
    BY <2>1, <1>w, <1>th, <1>t, <1>T DEF Initialized
  <2>2. CASE WORKER # None
    <3>1. WORKER = CONFIG /\ Initialized
      BY <2>2, <1>i DEF SetBy
    <3>2. Initialized'
      BY <3>1, <1>T, <1>u, <1>th DEF Initialized
    <3> QED BY <2>2, <3>1, <3>2, <1>w
  <2> QED BY <2>1, <2>2
<1>1. TypeInv'
  BY <1>i, <1>u, <1>T, <1>th, <1>t, <1>n DEF TypeInv
<1>2. SetBy'
  <2>1. thread'[t].call = "init" /\ thread'[t].at \in {"worker", "returned", "panicked"}
    BY <1>th, <1>t
  <2> QED BY <1>u, <1>c, <1>T, <1>W, <2>1 DEF SetBy
<1>3. Knows'
  BY <1>i, <1>u, <1>c, <1>T, <1>W, <1>th, <1>t DEF Knows
<1>4. CreatedOnly'
  BY <1>i, <1>u DEF CreatedOnly, Template
<1>5. PanicIsMisuse'
  <2> SUFFICES ASSUME AsDocumented', NEW x \in Thread, thread'[x].at = "panicked"
               PROVE  FALSE
    BY <1>T DEF PanicIsMisuse
  <2>0. AsDocumented
    BY <1>a
  <2>1. x = t
    BY <2>0, <1>i, <1>th DEF PanicIsMisuse
  <2>2. Initialized
    BY <2>1, <1>th, <1>i DEF SetBy
  <2>3. PICK y \in Thread : thread[y].call = "init" /\ thread[y].at = "returned"
    BY <2>2 DEF Initialized
  <2> QED BY <2>0, <2>3, <1>t, <1>u, Misuse
<1>6. DisabledByFile'
  BY <1>u, <1>c DEF DisabledByFile
<1> QED BY <1>1, <1>2, <1>3, <1>4, <1>5, <1>6 DEF IInv

LEMMA CacheConfigStep ==
    ASSUME IInv, NEW t \in Thread, cache_config(t)
    PROVE  IInv'
<1>i. TypeInv /\ SetBy /\ Knows /\ CreatedOnly /\ PanicIsMisuse /\ DisabledByFile
  BY DEF IInv
<1>u. /\ bound' = bound /\ file' = file /\ creators' = creators /\ INIT_CALLED' = INIT_CALLED
      /\ WORKER' = WORKER /\ thread[t].at = "ready"
      /\ CONFIG' = IF CONFIG = None THEN new_cache_disabled ELSE CONFIG
  BY DEF cache_config, Once
<1>T. Thread' = Thread
  BY <1>u DEF Thread
<1>s. Sound(CONFIG') /\ CONFIG' # None /\ CONFIG'.enabled \in BOOLEAN
  <2>1. Sound(CONFIG')
    BY <1>u, <1>i, DisabledSound DEF TypeInv
  <2> QED BY <2>1, Distinct DEF Sound, Configuration
<1>d. CONFIG = None => CONFIG'.enabled = FALSE
  BY <1>u, Disabled
<1> DEFINE r == [call |-> "use", at |-> IF CONFIG'.enabled THEN "entry" ELSE "returned",
                 early |-> ~Initialized, enabled |-> CONFIG'.enabled]
<1>p. thread' = [thread EXCEPT ![t] = r]
  BY DEF cache_config
<1>b. (~Initialized) \in BOOLEAN
  BY DEF Initialized
<1>r. /\ r \in Call /\ r.call = "use" /\ r.early = ~Initialized /\ r.enabled = CONFIG'.enabled
      /\ r.at = IF CONFIG'.enabled THEN "entry" ELSE "returned"
  BY <1>b, <1>s DEF Call
<1> HIDE DEF r
<1>t. thread \in [Thread -> Call] /\ thread[t].call = None
  BY <1>i, <1>u DEF TypeInv
<1>th. /\ thread' \in [Thread -> Call]
       /\ thread'[t].call = "use" /\ thread'[t].early = ~Initialized
       /\ thread'[t].enabled = CONFIG'.enabled
       /\ thread'[t].at = IF CONFIG'.enabled THEN "entry" ELSE "returned"
       /\ \A x \in Thread \ {t} : thread'[x] = thread[x]
  BY <1>p, <1>r, <1>t
<1>n. None # "init" /\ None # "use"
  BY Distinct
<1>a. AsDocumented' => AsDocumented
  BY <1>u, <1>th, <1>t, <1>n, DocumentedBefore
<1>I. Initialized => Initialized'
  BY <1>T, <1>u, <1>th DEF Initialized
<1>k. CONFIG # None => CONFIG' = CONFIG
  BY <1>u
<1>o. \A x \in Thread : thread[x].call = "init" => thread'[x] = thread[x] /\ x # t
  BY <1>th, <1>t, <1>n
<1>1. TypeInv'
  BY <1>i, <1>u, <1>s, <1>T, <1>th, <1>n DEF TypeInv
<1>2. SetBy'
  <2>1. INIT_CALLED' => \E x \in Thread : thread'[x].call = "init"
    BY <1>u, <1>i, <1>o DEF SetBy
  <2>2. \E x \in Thread :
            \/ thread'[x].call = "init" /\ thread'[x].at \in {"worker", "returned", "panicked"}
            \/ thread'[x].call = "use" /\ thread'[x].early
    <3>1. CASE Initialized
      BY <3>1, <1>o DEF Initialized
    <3>2. CASE ~Initialized
      BY <3>2, <1>th
    <3> QED BY <3>1, <3>2
  <2>3. CONFIG'.enabled => \E x \in Thread : thread'[x].call = "init"
    BY <1>d, <1>k, <1>i, <1>o DEF SetBy
  <2>4. WORKER' # None => CONFIG' # None /\ WORKER' = CONFIG' /\ Initialized'
    BY <1>u, <1>k, <1>i, <1>I DEF SetBy
  <2> QED BY <1>T, <2>1, <2>2, <2>3, <2>4 DEF SetBy
<1>3. Knows'
  <2> SUFFICES ASSUME NEW x \in Thread
               PROVE  /\ thread'[x].at = "worker" => CONFIG' # None /\ CONFIG'.enabled
                      /\ (thread'[x].call = "init" /\ thread'[x].at = "returned") =>
                             CONFIG' # None /\ (CONFIG'.enabled => WORKER' = CONFIG')
                      /\ thread'[x].call = "use" =>
                             /\ CONFIG' # None /\ thread'[x].enabled = CONFIG'.enabled
                             /\ ~thread'[x].early => Initialized'
    BY <1>T DEF Knows
  <2>1. CASE x = t
    BY <2>1, <1>s, <1>th, <1>I
  <2>2. CASE x # t
    BY <2>2, <1>th, <1>u, <1>i, <1>k, <1>I DEF Knows
  <2> QED BY <2>1, <2>2
<1>4. CreatedOnly'
  BY <1>i, <1>u DEF CreatedOnly, Template
<1>5. PanicIsMisuse'
  BY <1>a, <1>i, <1>T, <1>th DEF PanicIsMisuse
<1>6. DisabledByFile'
  <2> SUFFICES ASSUME AsDocumented', NEW x \in Thread,
                      thread'[x].call = "init" /\ thread'[x].at = "returned",
                      thread'[x].enabled /\ CONFIG'.errors = {} /\ ~CONFIG'.enabled
               PROVE  file.state = "settings" /\ ~file.enabled
    BY <1>u, <1>T DEF DisabledByFile
  <2>1. x # t /\ thread'[x] = thread[x]
    BY <1>th
  <2>2. CONFIG' = CONFIG
    BY <2>1, <1>i, <1>k DEF Knows
  <2> QED BY <2>1, <2>2, <1>a, <1>i DEF DisabledByFile
<1> QED BY <1>1, <1>2, <1>3, <1>4, <1>5, <1>6 DEF IInv

LEMMA WorkerStep ==
    ASSUME IInv, NEW t \in Thread, worker(t)
    PROVE  IInv'
<1>i. TypeInv /\ SetBy /\ Knows /\ CreatedOnly /\ PanicIsMisuse /\ DisabledByFile
  BY DEF IInv
<1>u. /\ bound' = bound /\ file' = file /\ creators' = creators /\ INIT_CALLED' = INIT_CALLED
      /\ CONFIG' = CONFIG /\ WORKER' = WORKER /\ thread[t].at = "entry"
  BY DEF worker
<1>T. Thread' = Thread
  BY <1>u DEF Thread
<1>t. thread[t].call = "use" /\ thread[t].enabled
  BY <1>i, <1>u DEF TypeInv
<1>c. CONFIG # None /\ CONFIG.enabled /\ Usable(CONFIG)
  BY <1>i, <1>t DEF Knows, TypeInv, Sound
<1>q. CONFIG.directory # None /\ CONFIG.settings["baseline_compression_level"] # None
  <2>1. /\ CONFIG.settings["baseline_compression_level"] \in 0 .. U64Max
        /\ CONFIG.directory = "canonical"
    BY <1>c, SettingNames DEF Usable
  <2>2. 0 .. U64Max \subseteq Int
    BY ConfigAssumption
  <2> QED BY <2>1, <2>2, Distinct
<1>th. /\ thread' \in [Thread -> Call]
       /\ thread'[t].at = IF WORKER = None THEN "panicked" ELSE "returned"
       /\ thread'[t].call = thread[t].call /\ thread'[t].early = thread[t].early
       /\ thread'[t].enabled = thread[t].enabled
       /\ \A x \in Thread \ {t} : thread'[x] = thread[x]
  <2>1. Goto(t, IF WORKER = None THEN "panicked" ELSE "returned")
    BY <1>q DEF worker
  <2> QED BY <2>1, <1>i, GotoDoes
<1>n. None # "init" /\ None # "use"
  BY Distinct
<1>a. AsDocumented' => AsDocumented
  BY <1>u, <1>th, DocumentedBefore
<1>I. Initialized => Initialized'
  BY <1>T, <1>u, <1>th DEF Initialized
<1>o. \A x \in Thread : thread[x].call = "init" => thread'[x] = thread[x]
  BY <1>th, <1>t
<1>1. TypeInv'
  BY <1>i, <1>u, <1>T, <1>th, <1>t, <1>n DEF TypeInv
<1>2. SetBy'
  <2>1. \A x \in Thread : thread'[x].call = thread[x].call /\ thread'[x].early = thread[x].early
    BY <1>th
  <2> QED BY <1>i, <1>u, <1>T, <1>I, <1>o, <2>1 DEF SetBy
<1>3. Knows'
  BY <1>i, <1>u, <1>T, <1>I, <1>th, <1>t DEF Knows
<1>4. CreatedOnly'
  BY <1>i, <1>u DEF CreatedOnly, Template
<1>5. PanicIsMisuse'
  <2> SUFFICES ASSUME AsDocumented', NEW x \in Thread, thread'[x].at = "panicked"
               PROVE  FALSE
    BY <1>T DEF PanicIsMisuse
  <2>0. AsDocumented
    BY <1>a
  <2>1. x = t
    BY <2>0, <1>i, <1>th DEF PanicIsMisuse
  <2>2. WORKER = None
    BY <2>1, <1>th
  <2>3. PICK y \in Thread : thread[y].call = "init"
    BY <1>c, <1>i DEF SetBy
  <2>4. ~thread[t].early
    BY <2>0, <2>3, <1>t, Misuse
  <2>5. PICK z \in Thread : thread[z].call = "init" /\ thread[z].at = "returned"
    BY <2>4, <1>t, <1>i DEF Knows, Initialized
  <2>6. WORKER = CONFIG
    BY <2>5, <1>c, <1>i DEF Knows
  <2> QED BY <2>2, <2>6, <1>c
<1>6. DisabledByFile'
  BY <1>u, <1>c DEF DisabledByFile
<1> QED BY <1>1, <1>2, <1>3, <1>4, <1>5, <1>6 DEF IInv

(* Steps of the processes that create the file, and stuttering. *)
LEMMA CreatorStep ==
    ASSUME IInv,
           create_new_config \/ open_new_config \/ write_new_config \/ UNCHANGED configVars
    PROVE  IInv'
<1>i. TypeInv /\ SetBy /\ Knows /\ CreatedOnly /\ PanicIsMisuse /\ DisabledByFile
  BY DEF IInv
<1>u. /\ bound' = bound /\ INIT_CALLED' = INIT_CALLED
      /\ CONFIG' = CONFIG /\ WORKER' = WORKER /\ thread' = thread
  BY DEF create_new_config, open_new_config, write_new_config, configVars
<1>T. Thread' = Thread
  BY <1>u DEF Thread
<1>a. AsDocumented' = AsDocumented
  BY <1>u, <1>T DEF AsDocumented, Calls
<1>I. Initialized' = Initialized
  BY <1>u, <1>T DEF Initialized
<1>c. /\ creators \in [checking : Nat, opening : Nat, writing : Nat] /\ file \in File
  BY <1>i DEF TypeInv
<1>p. Template \in File /\ Template.state = "settings" /\ Template.enabled
  <2> DEFINE none == [s \in Setting |-> None]
  <2>1. none \in [Setting -> Text \cup {None}]
    OBVIOUS
  <2>2. Template = [state |-> "settings", enabled |-> TRUE, directory |-> None, settings |-> none]
    BY DEF Template
  <2> HIDE DEF none
  <2> QED BY <2>1, <2>2 DEF File
<1>f. /\ creators' \in [checking : Nat, opening : Nat, writing : Nat] /\ file' \in File
      /\ CreatedOnly'
      /\ (file.state = "settings" /\ ~file.enabled) => file' = file
  <2>T. Template' = Template
    BY DEF Template
  <2>1. CASE create_new_config
    <3>1. /\ file' = file
          /\ creators' = [creators EXCEPT !.checking = @ - 1,
                              !.opening = IF file.state = "missing" THEN @ + 1 ELSE @]
          /\ creators.checking > 0
      BY <2>1 DEF create_new_config
    <3>2. /\ creators' \in [checking : Nat, opening : Nat, writing : Nat]
          /\ creators'.writing = creators.writing
          /\ creators'.opening = IF file.state = "missing" THEN creators.opening + 1
                                 ELSE creators.opening
      <4> DEFINE k == creators.checking - 1
                 o == IF file.state = "missing" THEN creators.opening + 1 ELSE creators.opening
      <4>1. k \in Nat /\ o \in Nat
        BY <3>1, <1>c
      <4>2. creators' = [creators EXCEPT !.checking = k, !.opening = o]
        BY <3>1
      <4>3. o = IF file.state = "missing" THEN creators.opening + 1 ELSE creators.opening
        OBVIOUS
      <4> HIDE DEF k, o
      <4>4. /\ creators' \in [checking : Nat, opening : Nat, writing : Nat]
            /\ creators'.writing = creators.writing /\ creators'.opening = o
        BY <4>1, <4>2, <1>c
      <4> QED BY <4>3, <4>4
    <3> QED BY <3>1, <3>2, <2>T, <1>c, <1>i DEF CreatedOnly
  <2>2. CASE open_new_config
    <3>1. /\ file' = [state |-> "created"]
          /\ creators' = [creators EXCEPT !.opening = @ - 1, !.writing = @ + 1]
          /\ creators.opening > 0
      BY <2>2 DEF open_new_config
    <3>2. creators' \in [checking : Nat, opening : Nat, writing : Nat]
      <4> DEFINE o == creators.opening - 1
                 w == creators.writing + 1
      <4>1. o \in Nat /\ w \in Nat
        BY <3>1, <1>c
      <4>2. creators' = [creators EXCEPT !.opening = o, !.writing = w]
        BY <3>1
      <4> HIDE DEF o, w
      <4> QED BY <4>1, <4>2, <1>c
    <3>3. file' \in File /\ file'.state = "created"
      BY <3>1 DEF File
    <3>4. ~(file.state = "settings" /\ ~file.enabled)
      BY <3>1, <1>i, <1>p DEF CreatedOnly
    <3> QED BY <3>2, <3>3, <3>4 DEF CreatedOnly
  <2>3. CASE write_new_config
    <3>1. /\ file' = Template /\ creators.writing > 0
          /\ creators' = [creators EXCEPT !.writing = @ - 1]
      BY <2>3 DEF write_new_config
    <3>2. creators' \in [checking : Nat, opening : Nat, writing : Nat]
      BY <3>1, <1>c
    <3>3. ~(file.state = "settings" /\ ~file.enabled)
      BY <3>1, <1>i, <1>p DEF CreatedOnly
    <3> QED BY <3>1, <3>2, <3>3, <2>T, <1>p DEF CreatedOnly
  <2>4. CASE UNCHANGED configVars
    <3>1. file' = file /\ creators' = creators
      BY <2>4 DEF configVars
    <3> QED BY <3>1, <2>T, <1>c, <1>i DEF CreatedOnly
  <2> QED BY <2>1, <2>2, <2>3, <2>4
<1>1. TypeInv'
  BY <1>i, <1>u, <1>T, <1>f DEF TypeInv
<1>2. SetBy' /\ Knows'
  BY <1>i, <1>u, <1>T, <1>I DEF SetBy, Knows
<1>3. PanicIsMisuse'
  BY <1>i, <1>u, <1>T, <1>a DEF PanicIsMisuse
<1>4. DisabledByFile'
  BY <1>i, <1>u, <1>T, <1>a, <1>f DEF DisabledByFile
<1> QED BY <1>1, <1>2, <1>3, <1>4, <1>f DEF IInv

LEMMA Suffices == IInv => EnabledMeansUsable
<1> SUFFICES ASSUME IInv, AsDocumented, NEW t \in Thread
             PROVE  /\ thread[t].at # "panicked"
                    /\ (thread[t].call = "use" /\ thread[t].at = "returned") =>
                           IF thread[t].enabled THEN WORKER = CONFIG /\ Usable(WORKER)
                           ELSE \A i \in Calls("init") :
                                    thread[i].enabled /\ CONFIG.errors = {} =>
                                        file.state = "settings" /\ ~file.enabled
  BY DEF EnabledMeansUsable
<1>i. TypeInv /\ SetBy /\ Knows /\ PanicIsMisuse /\ DisabledByFile
  BY DEF IInv
<1>1. thread[t].at # "panicked"
  BY <1>i DEF PanicIsMisuse
<1>2. ASSUME thread[t].call = "use"
      PROVE  /\ CONFIG # None /\ thread[t].enabled = CONFIG.enabled
             /\ \A i \in Thread : thread[i].call = "init" => thread[i].at = "returned"
  <2>1. CONFIG # None /\ thread[t].enabled = CONFIG.enabled /\ (~thread[t].early => Initialized)
    BY <1>2, <1>i DEF Knows
  <2>2. ASSUME NEW i \in Thread, thread[i].call = "init"
        PROVE  thread[i].at = "returned"
    <3>1. ~thread[t].early
      BY <1>2, <2>2, Misuse
    <3>2. PICK y \in Thread : thread[y].call = "init" /\ thread[y].at = "returned"
      BY <3>1, <2>1 DEF Initialized
    <3> QED BY <2>2, <3>2, Misuse
  <2> QED BY <2>1, <2>2
<1>3. ASSUME thread[t].call = "use", thread[t].enabled
      PROVE  WORKER = CONFIG /\ Usable(WORKER)
  <2>1. CONFIG # None /\ CONFIG.enabled /\ Usable(CONFIG)
    BY <1>2, <1>3, <1>i DEF TypeInv, Sound
  <2>2. PICK i \in Thread : thread[i].call = "init"
    BY <2>1, <1>i DEF SetBy
  <2>3. WORKER = CONFIG
    BY <2>1, <2>2, <1>2, <1>3, <1>i DEF Knows
  <2> QED BY <2>1, <2>3
<1>4. ASSUME thread[t].call = "use", ~thread[t].enabled, NEW i \in Calls("init"),
             thread[i].enabled, CONFIG.errors = {}
      PROVE  file.state = "settings" /\ ~file.enabled
  <2>1. i \in Thread /\ thread[i].call = "init"
    BY <1>4 DEF Calls
  <2>2. thread[i].at = "returned" /\ ~CONFIG.enabled
    BY <2>1, <1>2, <1>4
  <2> QED BY <2>1, <2>2, <1>4, <1>i DEF DisabledByFile
<1> QED BY <1>1, <1>3, <1>4

(* Whatever the configuration file holds and whoever creates it meanwhile,   *)
(* for any threads, units and defaults: threads that call init() once and    *)
(* before they use the cache never panic, and a thread that finds the cache  *)
(* enabled has a worker with complete settings in range (config.rs,          *)
(* worker.rs).                                                               *)
THEOREM EnabledMeansUsableAlways == ConfigSpec => []EnabledMeansUsable
<1>1. ConfigInit => IInv
  BY IInvInit
<1>2. IInv /\ [ConfigNext]_configVars => IInv'
  <2> SUFFICES ASSUME IInv, [ConfigNext]_configVars PROVE IInv'
    OBVIOUS
  <2>1. ASSUME NEW t \in Thread,
               \/ init(t) \/ TryConfig(t) \/ OnceConfig(t) \/ WorkerInit(t)
               \/ cache_config(t) \/ worker(t)
        PROVE  IInv'
    BY <2>1, InitStep, TryConfigStep, OnceConfigStep, WorkerInitStep, CacheConfigStep, WorkerStep
  <2>2. CASE create_new_config \/ open_new_config \/ write_new_config \/ UNCHANGED configVars
    BY <2>2, CreatorStep
  <2> QED BY <2>1, <2>2 DEF ConfigNext
<1>3. IInv => EnabledMeansUsable
  BY Suffices
<1> QED BY <1>1, <1>2, <1>3, PTL DEF ConfigSpec
=============================================================================
