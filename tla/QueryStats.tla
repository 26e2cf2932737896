------------------------------ MODULE QueryStats ------------------------------
(***************************************************************************)
(* What one DNS test makes of its answers: the noise, duplicate and cache  *)
(* heuristics of the runner (app/dns_runner.py) and the counters of the    *)
(* store (app/stats_store.py).  Lookups and search probes of several query *)
(* tasks end in any order; the code from the end of a lookup to its last   *)
(* counter does not suspend and is one action.  How the tasks are started, *)
(* limited and cancelled is the subject of DnsTestLifecycle.               *)
(*                                                                         *)
(* The definitions named Faulty... are not part of the model: each is a    *)
(* plausible slip in the definition after it, and breaks a property below. *)
(***************************************************************************)
EXTENDS Integers, Sequences, FiniteSets, Functions

CONSTANTS
  RecordList,      \* config["records"]: names [host, dots, dot], dot: ends with a dot,
                   \*   dots: those before it, which only the summary counts
  ModeList,        \* labels of the resolve specs
  TypeList,        \* config["query_types"]
  Concurrency,     \* permits of the semaphore
  Suffixes,        \* length of the search list
  Outcomes,        \* how lookups may end: a subset of AllOutcomes
  Latencies,       \* latencies of lookups (ms)
  Window,          \* DUPLICATE_WINDOW_SECONDS
  CacheThreshold,  \* CACHE_LATENCY_THRESHOLD_MS; CACHE_LATENCY_RATIO is one half
  MaxQueries,      \* bound: query tasks of the test
  MaxFailures,     \* bound: lookups and probes that fail
  MaxTime          \* bound: the clock

\* "empty": SUCCESS without an answer, which dnspython reports as an error unless
\* it is told otherwise.
AllOutcomes == {"success", "empty", "nxdomain", "timeout", "error"}

ASSUME ConstantsAssumption ==
  /\ RecordList \in Seq(Range(RecordList)) /\ RecordList # <<>>
  /\ ModeList \in Seq(Range(ModeList)) /\ ModeList # <<>>
  /\ TypeList \in Seq(Range(TypeList)) /\ TypeList # <<>>
  /\ Concurrency \in Nat \ {0}
  /\ Suffixes \in Nat
  /\ Outcomes \subseteq AllOutcomes
  /\ Latencies \subseteq Nat
  /\ {Window, CacheThreshold, MaxQueries, MaxFailures, MaxTime} \subseteq Nat

Queries == 1..MaxQueries
Records == Range(RecordList)
Modes == Range(ModeList)
Types == Range(TypeList)

VARIABLES
  now,             \* time.monotonic()
  stage,           \* stage[q]: progress of the q-th query task
  left,            \* left[q]: search probes it still has to make
  window,          \* _duplicate_window
  firstLatency,    \* _cache_tracker
  aSuccess,        \* _a_success_records
  counters,        \* TestCounters
  noiseCounts,     \* TestState.noise_counts
  perRecord,       \* numbers in RecordStats
  lookups,         \* RecordStats.mode_query_counts
  timeouts,        \* RecordStats.timeouts_by_mode
  systemFailures,  \* RecordStats.system_failures of all records
  fqdnSuccesses,   \* RecordStats.fqdn_successes of all records
  log              \* all attempts so far, in order: TestState.events before it is cut

heuristicVars == <<window, firstLatency, aSuccess>>
storeVars == <<counters, noiseCounts, perRecord, lookups, timeouts, systemFailures,
               fqdnSuccesses, log>>
vars == <<now, stage, left, heuristicVars, storeVars>>

NoiseTypes == {"search_suffix_query", "search_suffix_nxdomain", "duplicate_query",
               "empty_answer", "aaaa_noise"}
CounterNames == {"total", "success", "nxdomain", "timeout", "error", "noisy",
                 "possible_cache_hits"} \cup Types \cup Modes
RecordCounterNames == {"total_queries", "errors", "nxdomains", "noisy_system_resolves",
                       "search_suffix_nxdomain_count"} \cup ({"A", "AAAA"} \cap Types)
Attempts == [record : Records, type : Types, mode : Modes, probe : BOOLEAN,
             outcome : Outcomes, noise : NoiseTypes \cup {"none"},
             latency : Nat, at : Nat]

\* Each dict of the code, by type, by mode or with fields of its own, is a part of one
\* function here: the names in them differ.
ASSUME NamesAssumption ==
  /\ Types \cap Modes = {}
  /\ (Types \cup Modes) \cap {"total", "success", "nxdomain", "timeout", "error", "noisy",
                              "possible_cache_hits"} = {}
  /\ Types \cap {"total_queries", "errors", "nxdomains", "noisy_system_resolves",
                 "search_suffix_nxdomain_count"} = {}

-----------------------------------------------------------------------------
(* Work items: every record with every mode with every type, over and over. *)

WorkItem(q) ==
  LET types == Len(TypeList)
      modes == Len(ModeList)
      At(list, k) == list[1 + (k % Len(list))]
  IN  [record |-> At(RecordList, (q - 1) \div (types * modes)),
       mode   |-> At(ModeList, (q - 1) \div types),
       type   |-> At(TypeList, q - 1)]

UsesSearch(mode) == mode # "absolute_fqdn"

\* ensure_trailing_dot in absolute_fqdn mode.
EffectiveName(item) ==
  IF UsesSearch(item.mode) THEN item.record ELSE [item.record EXCEPT !.dot = TRUE]

Init ==
  /\ now = 0
  /\ stage = [q \in Queries |-> "none"]
  /\ left = [q \in Queries |-> 0]
  /\ window = <<>>
  /\ firstLatency = <<>>
  /\ aSuccess = {}
  /\ counters = [c \in CounterNames |-> 0]
  /\ noiseCounts = [n \in NoiseTypes |-> 0]
  /\ perRecord = [r \in Records |-> [c \in RecordCounterNames |-> 0]]
  /\ lookups = [r \in Records |-> [m \in Modes |-> 0]]
  /\ timeouts = [r \in Records |-> [m \in Modes |-> 0]]
  /\ systemFailures = {}
  /\ fqdnSuccesses = {}
  /\ log = <<>>

-----------------------------------------------------------------------------
(* The duplicate window.                                                    *)

FaultyLiveWindow == window

\* Entries are dropped from the left while they are older than the window.
LiveWindow ==
  LET old == {i \in DOMAIN window : \A j \in 1..i : window[j].at < now - Window}
  IN  SubSeq(window, Cardinality(old) + 1, Len(window))

IsDuplicate(item) == \E i \in DOMAIN LiveWindow : LiveWindow[i].item = item

\* _check_duplicate: a duplicate does not renew the entry it was found by.
Remember(item) ==
  window' = IF IsDuplicate(item) THEN LiveWindow
            ELSE Append(LiveWindow, [item |-> item, at |-> now])

-----------------------------------------------------------------------------
(* The cache heuristic: the first latency of a name is the yardstick.       *)

CacheKey(item) == <<EffectiveName(item), item.type, item.mode>>

IsCacheHit(item, latency) ==
  /\ CacheKey(item) \in DOMAIN firstLatency
  /\ latency < CacheThreshold
  /\ 2 * latency < firstLatency[CacheKey(item)]

FaultyTrack(item, latency) ==
  firstLatency' = [k \in DOMAIN firstLatency \cup {CacheKey(item)} |->
    IF k = CacheKey(item) THEN latency ELSE firstLatency[k]]

Track(item, latency) ==
  firstLatency' = [k \in DOMAIN firstLatency \cup {CacheKey(item)} |->
    IF k \in DOMAIN firstLatency THEN firstLatency[k] ELSE latency]

-----------------------------------------------------------------------------
(* _classify_noise.                                                         *)

FaultyProbeNoise(outcome) == "search_suffix_" \o outcome

ProbeNoise(outcome) ==
  IF outcome = "nxdomain" THEN "search_suffix_nxdomain" ELSE "search_suffix_query"

LookupNoise(item, outcome) ==
  CASE IsDuplicate(item)                               -> "duplicate_query"
    [] ~IsDuplicate(item) /\ outcome = "empty"         -> "empty_answer"
    [] /\ ~IsDuplicate(item) /\ outcome # "empty"
       /\ item.type = "AAAA" /\ item.record \in aSuccess -> "aaaa_noise"
    [] OTHER                                           -> "none"

IsSuccess(outcome) == outcome \in {"success", "empty"}

FaultyNoteSuccess(item, outcome) ==
  aSuccess' = IF item.type = "A" THEN aSuccess \cup {item.record} ELSE aSuccess

\* _resolve remembers the records whose A lookup succeeded.
NoteSuccess(item, outcome) ==
  aSuccess' = IF item.type = "A" /\ IsSuccess(outcome)
              THEN aSuccess \cup {item.record} ELSE aSuccess

-----------------------------------------------------------------------------
(* record_attempt.                                                          *)

Bump(f, S) == [x \in DOMAIN f |-> IF x \in S THEN f[x] + 1 ELSE f[x]]

CountersOf(a) ==
  {"total", a.type, a.mode}
    \cup {IF IsSuccess(a.outcome) THEN "success" ELSE a.outcome}
    \cup (IF a.noise # "none" THEN {"noisy"} ELSE {})

FaultyErrorOutcomes == {"error"}

\* What RecordStats.errors counts.
ErrorOutcomes == {"error", "timeout"}

RecordCountersOf(a) ==
  {"total_queries", a.type}
    \cup (IF a.outcome \in ErrorOutcomes THEN {"errors"} ELSE {})
    \cup (IF a.outcome = "nxdomain" THEN {"nxdomains"} ELSE {})
    \cup (IF a.noise # "none" /\ UsesSearch(a.mode) THEN {"noisy_system_resolves"} ELSE {})
    \cup (IF a.noise = "search_suffix_nxdomain" THEN {"search_suffix_nxdomain_count"} ELSE {})

\* What makes a lookup in a search mode a failure.
FailedOutcomes == {"nxdomain", "timeout", "error"}

\* The attempt a, which is a possible cache hit or not.
RecordAttempt(a, hit) ==
  /\ counters' = Bump(counters, CountersOf(a) \cup
                      (IF hit THEN {"possible_cache_hits"} ELSE {}))
  /\ noiseCounts' = Bump(noiseCounts, {a.noise})
  /\ perRecord' = [perRecord EXCEPT ![a.record] = Bump(@, RecordCountersOf(a))]
  /\ lookups' = IF a.probe THEN lookups ELSE [lookups EXCEPT ![a.record][a.mode] = @ + 1]
  /\ timeouts' = IF a.probe \/ a.outcome # "timeout" THEN timeouts
                 ELSE [timeouts EXCEPT ![a.record][a.mode] = @ + 1]
  /\ systemFailures' = IF UsesSearch(a.mode) /\ a.outcome \in FailedOutcomes
                       THEN systemFailures \cup {<<a.type, a.record>>} ELSE systemFailures
  /\ fqdnSuccesses' = IF ~UsesSearch(a.mode) /\ IsSuccess(a.outcome)
                      THEN fqdnSuccesses \cup {<<a.type, a.record>>} ELSE fqdnSuccesses
  /\ log' = Append(log, a)

\* build_summary, and fqdn_wins summed over the records.
EventualFqdnSuccessCount == Cardinality(systemFailures \cap fqdnSuccesses)

-----------------------------------------------------------------------------
(* The query tasks.                                                         *)

\* The next work item gets a permit of the semaphore.
Ask(q) ==
  /\ stage[q] = "none"
  /\ \A p \in 1..(q - 1) : stage[p] # "none"
  /\ Cardinality({p \in Queries : stage[p] \in {"lookup", "probing"}}) < Concurrency
  /\ stage' = [stage EXCEPT ![q] = "lookup"]
  /\ UNCHANGED <<now, left, heuristicVars, storeVars>>

MayEnd(outcome) ==
  IsSuccess(outcome) \/ Cardinality({i \in DOMAIN log : ~IsSuccess(log[i].outcome)}) < MaxFailures

\* After its lookup a task makes its search probes, if it has any to make.
Proceed(q, probes) ==
  /\ stage' = [stage EXCEPT ![q] = IF probes > 0 THEN "probing" ELSE "done"]
  /\ left' = [left EXCEPT ![q] = probes]

AnswerLookup(q, outcome, latency) ==
  LET item == WorkItem(q) IN
  /\ stage[q] = "lookup" /\ MayEnd(outcome)
  /\ NoteSuccess(item, outcome)
  /\ Remember(item)
  /\ Track(item, latency)
  /\ RecordAttempt([record |-> item.record, type |-> item.type, mode |-> item.mode,
                    probe |-> FALSE, outcome |-> outcome,
                    noise |-> LookupNoise(item, outcome),
                    latency |-> latency, at |-> now],
                   IsCacheHit(item, latency))
  /\ Proceed(q, IF UsesSearch(item.mode) /\ ~item.record.dot THEN Suffixes ELSE 0)
  /\ UNCHANGED now

AnswerProbe(q, outcome) ==
  LET item == WorkItem(q) IN
  /\ stage[q] = "probing" /\ MayEnd(outcome)
  /\ RecordAttempt([record |-> item.record, type |-> item.type, mode |-> item.mode,
                    probe |-> TRUE, outcome |-> outcome, noise |-> ProbeNoise(outcome),
                    latency |-> 0, at |-> now], FALSE)
  /\ Proceed(q, left[q] - 1)
  /\ UNCHANGED <<now, heuristicVars>>

Tick ==
  /\ now < MaxTime
  /\ now' = now + 1
  /\ UNCHANGED <<stage, left, heuristicVars, storeVars>>

Next ==
  \/ \E q \in Queries : Ask(q)
  \/ \E q \in Queries, outcome \in Outcomes, latency \in Latencies :
       AnswerLookup(q, outcome, latency)
  \/ \E q \in Queries, outcome \in Outcomes : AnswerProbe(q, outcome)
  \/ Tick

Spec == Init /\ [][Next]_vars

-----------------------------------------------------------------------------
(* Properties.                                                              *)

\* Tasks, heuristics and store stay within their types.
TypeOK ==
  /\ now \in 0..MaxTime
  /\ stage \in [Queries -> {"none", "lookup", "probing", "done"}]
  /\ left \in [Queries -> 0..Suffixes]
  /\ window \in Seq([item : [record : Records, mode : Modes, type : Types], at : Nat])
  /\ \A k \in DOMAIN firstLatency : firstLatency[k] \in Latencies
  /\ aSuccess \subseteq Records
  /\ counters \in [CounterNames -> Nat]
  /\ noiseCounts \in [NoiseTypes -> Nat]
  /\ perRecord \in [Records -> [RecordCounterNames -> Nat]]
  /\ {lookups, timeouts} \subseteq [Records -> [Modes -> Nat]]
  /\ systemFailures \cup fqdnSuccesses \subseteq Types \X Records
  /\ log \in Seq(Attempts)

SumOf(f) == FoldFunction(+, 0, f)
Summed(name) == SumOf([r \in Records |-> perRecord[r][name]])
CountersFor(names) == SumOf([c \in names |-> counters[c]])

\* The numbers GET /tests/{id} shows add up, although they are kept in separate
\* counters: outcomes, types and modes partition the attempts, the records share
\* them out, each noisy attempt has one noise type, the attempts are the lookups
\* and the probes, and no mode times out more often than it looks up.
StoreAddsUp ==
  /\ counters["total"] = CountersFor({"success", "nxdomain", "timeout", "error"})
  /\ counters["total"] = CountersFor(Types)
  /\ counters["total"] = CountersFor(Modes)
  /\ counters["total"] = Summed("total_queries")
  /\ counters["nxdomain"] = Summed("nxdomains")
  /\ counters["timeout"] + counters["error"] = Summed("errors")
  /\ counters["noisy"] = SumOf(noiseCounts)
  /\ noiseCounts["search_suffix_nxdomain"] = Summed("search_suffix_nxdomain_count")
  /\ counters["total"] = SumOf([r \in Records |-> SumOf(lookups[r])])
       + noiseCounts["search_suffix_query"] + noiseCounts["search_suffix_nxdomain"]
  /\ \A r \in Records, m \in Modes : timeouts[r][m] <= lookups[r][m]

\* The duplicate window does not grow with the rate of queries: it is in the order
\* of time, which the expiry from the left relies on, and has one entry per work item.
WindowIsSparse ==
  \A i, j \in DOMAIN window : i < j =>
    /\ window[i].at <= window[j].at
    /\ window[i].item # window[j].item

Lookup(i) == i \in DOMAIN log /\ ~log[i].probe
SameQuery(i, j) ==
  log[i].record = log[j].record /\ log[i].type = log[j].type /\ log[i].mode = log[j].mode
RepeatsWithinWindow(i) ==
  \E j \in 1..(i - 1) : Lookup(j) /\ SameQuery(i, j) /\ log[i].at - log[j].at <= Window

\* An attempt marked duplicate_query repeats a lookup of the same record, type and
\* mode that ended within the window.
DuplicatesAreRepeats ==
  \A i \in DOMAIN log : log[i].noise = "duplicate_query" => Lookup(i) /\ RepeatsWithinWindow(i)

ASucceededBefore(i) ==
  \E j \in 1..(i - 1) : Lookup(j) /\ log[j].type = "A" /\ log[j].record = log[i].record
                        /\ IsSuccess(log[j].outcome)

\* "AAAA query when A already resolved successfully" (README.md:262), in any order in which
\* concurrent lookups end: aaaa_noise is given only then, and then an AAAA lookup
\* never counts as useful.
AaaaNoiseIsRedundant ==
  \A i \in DOMAIN log :
    /\ log[i].noise = "aaaa_noise" => log[i].type = "AAAA" /\ ASucceededBefore(i)
    /\ Lookup(i) /\ log[i].type = "AAAA" /\ ASucceededBefore(i) => log[i].noise # "none"

\* Lookups with the key of attempt i in the cache heuristic.
SameCacheKey(i, j) == CacheKey(log[i]) = CacheKey(log[j])

\* "if a repeat query to the same name is noticeably faster than the first"
\* (README.md:338): exactly those are counted, however many lookups of the name were
\* in flight at the same time.
CacheHitsBeatFirst ==
  counters["possible_cache_hits"] = Cardinality({i \in DOMAIN log :
    /\ Lookup(i)
    /\ log[i].latency < CacheThreshold
    /\ \E j \in 1..(i - 1) :
         /\ Lookup(j) /\ SameCacheKey(i, j)
         /\ \A k \in 1..(j - 1) : Lookup(k) => ~SameCacheKey(i, k)
         /\ 2 * log[i].latency < log[j].latency})

\* "search mode failed but absolute_fqdn for the same name succeeded" (README.md:263):
\* names are counted by their lookups in both modes.
EventualFqdnCountsLookups ==
  EventualFqdnSuccessCount = Cardinality({key \in Types \X Records :
    \E i, j \in DOMAIN log :
      /\ Lookup(i) /\ <<log[i].type, log[i].record>> = key
      /\ UsesSearch(log[i].mode) /\ log[i].outcome \in {"nxdomain", "timeout", "error"}
      /\ Lookup(j) /\ <<log[j].type, log[j].record>> = key
      /\ ~UsesSearch(log[j].mode) /\ log[j].outcome \in {"success", "empty"}})

=============================================================================
