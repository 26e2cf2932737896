------------------------------- MODULE UiPanels -------------------------------
(***************************************************************************)
(* What the Web UI makes of a test (app/ui/aggregator.py, ui/filters.py,   *)
(* ui/compare.py) and what its summary says (app/stats_store.py,           *)
(* app/ndots_analytics.py): functions of the state of QueryStats.  A panel *)
(* reads the attempts in the event buffer first, then awaits the list of   *)
(* snapshots, and reads the counters of the store after that: "seen" is    *)
(* the length of the log when the attempts were read.                      *)
(*                                                                         *)
(* There is one test, and lists are shorter than the limits of 10, 15 and  *)
(* 20 rows.  A ratio is a pair of its numbers.  A list of attempts is the  *)
(* set of their places in the log, as nothing a panel shows depends on     *)
(* their order.                                                            *)
(*                                                                         *)
(* The definitions named Faulty... are not part of the model: each is a    *)
(* plausible slip in the definition after it, and breaks a property below. *)
(***************************************************************************)
EXTENDS QueryStats

CONSTANTS
  BufferSize,      \* EVENT_BUFFER_SIZE
  Ndots,           \* ndots of the resolver snapshot
  ErrorPercent,    \* DIAGNOSIS_ERROR_RATE_THRESHOLD
  GarbagePercent,  \* _GARBAGE_RATIO_DEGRADED
  SlowMs,          \* _LATENCY_P95_DEGRADED_MS
  StormQps,        \* _ERROR_STORM_QPS
  BucketSeconds    \* bucket_seconds

ASSUME PanelsAssumption ==
  /\ {BufferSize, BucketSeconds, StormQps} \subseteq Nat \ {0}
  /\ {Ndots, ErrorPercent, GarbagePercent, SlowMs} \subseteq Nat

-----------------------------------------------------------------------------
(* The attempts a panel looks at.                                           *)

Any == "any"
Filters == [mode : Modes \cup {Any}, type : Types \cup {Any}, from : Nat, to : Nat]
NoFilter == [mode |-> Any, type |-> Any, from |-> 0, to |-> MaxTime]

Passes(a, f) ==
  /\ f.from <= a.at /\ a.at <= f.to
  /\ f.mode \in {Any, a.mode} /\ f.type \in {Any, a.type}

\* A deque of at most BufferSize attempts.
Events(seen) == (IF seen > BufferSize THEN seen - BufferSize + 1 ELSE 1)..seen

FilterAttempts(f, seen) == {i \in Events(seen) : Passes(log[i], f)}

\* The warning event_buffer_truncated.
Truncated(seen) == Cardinality(Events(seen)) >= BufferSize

Primary(s) == {i \in s : ~log[i].probe}
Failed(a) == ~IsSuccess(a.outcome)
IsGarbage(a) == a.noise # "none" \/ a.probe

Failures(s) == {i \in s : Failed(log[i])}
Garbage(s) == {i \in s : IsGarbage(log[i])}
Latency(s) == FoldFunction(+, 0, [i \in s |-> log[i].latency])

\* The attempts of s by their key.
Groups(s, key) == [k \in {key[i] : i \in s} |-> {i \in s : key[i] = k}]
Tally(groups) == [k \in DOMAIN groups |-> Cardinality(groups[k])]

ByMode(s) == Groups(s, [i \in s |-> log[i].mode])
ByType(s) == Groups(s, [i \in s |-> log[i].type])
ByRecord(s) == Groups(s, [i \in s |-> log[i].record])

\* From the start of the test, but at least a second.
Duration == IF now > 1 THEN now ELSE 1

-----------------------------------------------------------------------------
(* Percentiles.                                                             *)

\* round((p / 100) * (n - 1)): ties go to the even number.
PercentileIndex(n, p) ==
  LET x == p * (n - 1) IN
  IF x % 100 > 50 \/ (x % 100 = 50 /\ (x \div 100) % 2 = 1)
  THEN x \div 100 + 1 ELSE x \div 100

FaultyPercentile(s, p) ==
  IF s = {} THEN 0
  ELSE LET k == PercentileIndex(Cardinality(s), p) IN
       log[CHOOSE i \in s : Cardinality({j \in s : j < i}) = k].latency

\* k is the index of v in the sorted latencies of s.
HasIndex(v, k, s) ==
  /\ Cardinality({i \in s : log[i].latency < v}) <= k
  /\ k < Cardinality({i \in s : log[i].latency <= v})

\* The element with that index in the sorted latencies.
Percentile(s, p) ==
  IF s = {} THEN 0
  ELSE CHOOSE v \in {log[i].latency : i \in s} : HasIndex(v, PercentileIndex(Cardinality(s), p), s)

Percentiles(s) == [p \in {50, 95, 99} |-> Percentile(s, p)]

ByBucket(s) == Groups(s, [i \in s |-> log[i].at \div BucketSeconds])

TimeBuckets(s) ==
  LET buckets == ByBucket(s) IN
  [b \in DOMAIN buckets |-> [count |-> Cardinality(buckets[b]),
                             failed |-> Cardinality(Failures(buckets[b])),
                             latency |-> Percentiles(buckets[b])]]

-----------------------------------------------------------------------------
(* The panels.                                                              *)

LatencyRows(groups) ==
  [k \in DOMAIN groups |-> [count |-> Cardinality(groups[k]), latency |-> Percentiles(groups[k])]]

DnsLatencyPanel(s) ==
  LET p == Primary(s) IN
  [sample_count |-> Cardinality(p), latency |-> Percentiles(p), time_buckets |-> TimeBuckets(p),
   by_resolve_mode |-> LatencyRows(ByMode(p)), by_query_type |-> LatencyRows(ByType(p))]

\* Level 0; the others have no queries.
EdnsPanel(s) ==
  LET p == Primary(s) IN
  [queries |-> Cardinality(p), errors |-> Cardinality(Failures(p)),
   latency |-> <<Latency(p), Cardinality(p)>>]

ErrorClass(a) == IF IsSuccess(a.outcome) THEN "success" ELSE a.outcome

FaultyErrorAttempts(s) == Failures(s)

ErrorAttempts(s) == Failures(Primary(s))

ByClass(s) == Groups(s, [i \in s |-> ErrorClass(log[i])])

ErrorsPanel(s) ==
  LET errors == ErrorAttempts(s)
      modes == ByMode(errors)
  IN  [total_errors |-> Cardinality(errors), error_qps |-> <<Cardinality(errors), Duration>>,
       by_resolver |-> Tally(modes), by_domain |-> Tally(ByRecord(errors)),
       by_query_type |-> Tally(ByType(errors)), by_error_class |-> Tally(ByClass(errors)),
       resolver_error_matrix |-> [m \in DOMAIN modes |-> Tally(ByClass(modes[m]))]]

GarbagePanel(s) ==
  [noise_counts |-> noiseCounts, total_noisy |-> SumOf(noiseCounts),
   useful |-> Cardinality(s \ Garbage(s)), garbage |-> Cardinality(Garbage(s)),
   top_noisy_domains |-> Tally(ByRecord(Garbage(s)))]

CachePanel(s) ==
  LET p == Primary(s)
      repeats == Groups(p, [i \in p |-> <<log[i].record, log[i].type, log[i].mode>>])
  IN  [possible_cache_hits |-> counters["possible_cache_hits"], total_queries |-> counters["total"],
       repeat_query_keys |-> Cardinality({k \in DOMAIN repeats : Cardinality(repeats[k]) > 1}),
       by_resolve_mode |-> [m \in {m \in Modes : counters[m] > 0} |-> counters[m]]]

RecordRow(items) ==
  [queries |-> Cardinality(items), errors |-> Cardinality(Failures(items)),
   latency |-> <<Latency(items), Cardinality(items)>>]
RecordRows(groups) == [k \in DOMAIN groups |-> RecordRow(groups[k])]

RecordsPanel(s) == RecordRows(ByRecord(Primary(s)))

LoadPanel(s) ==
  LET p == Primary(s) IN
  [success_rate |-> <<Cardinality(p \ Failures(p)), Cardinality(p)>>,
   error_rate |-> <<Cardinality(Failures(p)), Cardinality(p)>>,
   actual_qps |-> <<Cardinality(p), Duration>>, latency |-> Percentiles(p),
   time_series |-> TimeBuckets(p)]

RankingsPanel(s) ==
  LET p == Primary(s) IN
  [resolvers |-> RecordRows(ByMode(p)), domains |-> RecordRows(ByRecord(p)),
   query_types |-> RecordRows(ByType(p))]

\* verdict: of the latest mtr run; "packet_loss_suspected" is never given.
LossVerdicts == {"destination_issue", "upstream_issue", "local_issue"}
Verdicts == LossVerdicts \cup {"unknown", "ok", "unstable_path"}

\* loss and jitter say of each hop whether 5 per cent are lost and whether its standard
\* deviation is over 50 ms.
MtrVerdict(hops) ==
  LET n == Len(hops) IN
  CASE n = 0                                           -> "unknown"
    [] n > 0 /\ hops[n].loss                           -> "destination_issue"
    [] n > 0 /\ ~hops[n].loss /\ \E i \in 2..(n - 1) : hops[i].loss -> "upstream_issue"
    [] n > 1 /\ hops[1].loss /\ \A i \in 2..n : ~hops[i].loss       -> "local_issue"
    [] OTHER -> IF \E i \in 1..n : hops[i].jitter THEN "unstable_path" ELSE "ok"

\* safe_ratio(part, whole) >= percent / 100
AtLeast(part, whole, percent) ==
  IF whole = 0 THEN percent = 0 ELSE part * 100 >= percent * whole

\* derive_ui_health, in the order of its tests.
Health(o, verdict) ==
  LET failed == o.total_queries - o.success_count
      storm == o.failed_lookups >= StormQps * Duration /\ o.error_count > 0
  IN  IF verdict \in LossVerdicts \/ storm THEN "critical"
      ELSE IF AtLeast(failed, o.total_queries, 2 * ErrorPercent) THEN "critical"
      ELSE IF AtLeast(failed, o.total_queries, ErrorPercent) THEN "degraded"
      ELSE IF o.latency[95] >= SlowMs THEN "degraded"
      ELSE IF AtLeast(o.garbage, o.total_queries, GarbagePercent) THEN "degraded"
      ELSE IF verdict = "unstable_path" THEN "degraded" ELSE "ok"

OverviewPanel(s) ==
  LET p == Primary(s) IN
  [total_queries |-> Cardinality(s), success_count |-> Cardinality(s \ Failures(s)),
   error_count |-> Cardinality({i \in s : log[i].outcome \in ErrorOutcomes}),
   nxdomain_count |-> Cardinality({i \in s : log[i].outcome = "nxdomain"}),
   latency |-> Percentiles(p), garbage |-> Cardinality(Garbage(s)),
   failed_lookups |-> Cardinality(Failures(p)),
   cache_hit_ratio |-> <<counters["possible_cache_hits"], counters["total"]>>]

-----------------------------------------------------------------------------
(* Comparison of two scopes.                                                *)

\* A value that may be missing is a sequence of at most one number.
ValueAt(f, k) == IF k \in DOMAIN f THEN <<f[k]>> ELSE <<>>

\* compute_delta; the percentage follows from these.
Delta(base, comp) == IF <<>> \in {base, comp} THEN <<>> ELSE <<comp[1] - base[1]>>

\* by_error_class, and each row of the matrix: over the labels of both sides.
Deltas(base, comp) ==
  [k \in DOMAIN base \cup DOMAIN comp |-> Delta(ValueAt(base, k), ValueAt(comp, k))]

\* The other compare_* functions do the same with the fields of their panels.
CompareErrors(base, comp) ==
  LET Row(panel, m) == IF m \in DOMAIN panel.resolver_error_matrix
                       THEN panel.resolver_error_matrix[m] ELSE <<>>
  IN  [total_errors |-> Delta(<<base.total_errors>>, <<comp.total_errors>>),
       by_error_class |-> Deltas(base.by_error_class, comp.by_error_class),
       resolver_error_matrix |->
         [m \in DOMAIN base.resolver_error_matrix \cup DOMAIN comp.resolver_error_matrix |->
            Deltas(Row(base, m), Row(comp, m))]]

-----------------------------------------------------------------------------
(* The summary of the test.                                                 *)

Summary ==
  [total_queries |-> counters["total"], success |-> counters["success"],
   errors |-> counters["error"] + counters["timeout"], nxdomains |-> counters["nxdomain"],
   noisy |-> counters["noisy"], duplicates |-> noiseCounts["duplicate_query"],
   latency |-> Latency(DOMAIN log), p95_latency_ms |-> Percentile(DOMAIN log, 95),
   eventual_fqdn_success_count |-> EventualFqdnSuccessCount]

\* resolves_search_first: what the resolver does with a name.  The runner does not ask, it
\* probes every name without a trailing dot.
SearchFirst(r) == r.dots < Ndots

SearchAttempts(r) == IF SearchFirst(r) THEN Suffixes ELSE 0

FaultyQueriesPerLookup(r) == SearchAttempts(r) * Len(TypeList)

QueriesPerLookup(r) == (SearchAttempts(r) + 1) * Len(TypeList)

\* A record has statistics once one of its attempts is recorded.
Estimate(r) == IF perRecord[r]["total_queries"] > 0 THEN QueriesPerLookup(r) ELSE 0

\* query_amplification_ratio: all attempts, over the estimates of the records.
Amplification == <<counters["total"], SumOf([r \in Records |-> Estimate(r)])>>

-----------------------------------------------------------------------------
(* Properties.                                                              *)

RowSum(rows, field) == SumOf([k \in DOMAIN rows |-> rows[k][field]])

\* e, d, g and k are the error, EDNS, garbage and rankings panel of s.
SumsUp(s) ==
  LET o == OverviewPanel(s)
      e == ErrorsPanel(s)
      d == EdnsPanel(s)
      g == GarbagePanel(s)
      k == RankingsPanel(s)
      Sum(part) == SumOf(part) = d.errors
      Rows(rows) == RowSum(rows, "queries") = d.queries /\ RowSum(rows, "errors") = d.errors
  IN  /\ o.total_queries = o.success_count + o.error_count + o.nxdomain_count
      /\ o.total_queries = g.useful + g.garbage
      /\ e.total_errors = d.errors /\ LoadPanel(s).error_rate[1] = d.errors
      /\ Sum(e.by_resolver) /\ Sum(e.by_domain) /\ Sum(e.by_query_type) /\ Sum(e.by_error_class)
      /\ Sum([m \in DOMAIN e.resolver_error_matrix |-> SumOf(e.resolver_error_matrix[m])])
      /\ Rows(RecordsPanel(s)) /\ Rows(k.resolvers) /\ Rows(k.query_types)

MatchesCounters(s) ==
  LET o == OverviewPanel(s)
      g == GarbagePanel(s)
      records == RecordsPanel(s)
  IN  /\ o.total_queries = CachePanel(s).total_queries /\ o.success_count = Summary.success
      /\ o.error_count = Summary.errors /\ o.nxdomain_count = Summary.nxdomains
      /\ g.garbage = g.total_noisy
      /\ \A r \in DOMAIN records : records[r].queries = SumOf(lookups[r])

\* An "ok" badge is never shown above a latency or a garbage panel with a number over its
\* threshold, or a bad path.  Of errors the badge and the load panel may differ: the badge
\* divides them by all attempts, the panel by the lookups (aggregator.py:654), so that probes
\* that succeed dilute the rate of the badge.  As more garbage would not be "ok", the rate the
\* panel shows is below ErrorPercent / (1 - GarbagePercent / 100) all the same: 5.9 per cent
\* for the thresholds of 5 and 15, as with one failure in 20 lookups and two probes.
BadgeMatches(s) ==
  LET o == OverviewPanel(s)
      load == LoadPanel(s)
      errors == load.error_rate[1]
      queries == load.error_rate[2]
  IN  \A verdict \in Verdicts : Health(o, verdict) = "ok" =>
        /\ queries > 0 => errors * (100 - GarbagePercent) < ErrorPercent * queries
        /\ load.latency[95] < SlowMs
        /\ ~AtLeast(GarbagePanel(s).garbage, o.total_queries, GarbagePercent)
        /\ verdict \notin LossVerdicts \cup {"unstable_path"}

\* A class that only one side has gets no delta, and the rest adds up to the total.
DeltasAddUp(base, comp) ==
  LET b == base.by_error_class
      c == comp.by_error_class
      compared == CompareErrors(base, comp)
      deltas == compared.by_error_class
      Only(f, g) == SumOf([k \in DOMAIN f \ DOMAIN g |-> f[k]])
  IN  /\ {k \in DOMAIN deltas : deltas[k] # <<>>} = DOMAIN b \cap DOMAIN c
      /\ compared.total_errors[1] = Only(c, b) - Only(b, c)
           + SumOf([k \in DOMAIN b \cap DOMAIN c |-> deltas[k][1]])

\* "ok" means that no hop has a problem, any loss gets a verdict, and it is blamed on the
\* destination exactly if the last hop has some, on the first hop only if no other has.
HopsExplainVerdict ==
  \A n \in 0..3 : \A hops \in [1..n -> [loss : BOOLEAN, jitter : BOOLEAN]] :
    LET verdict == MtrVerdict(hops)
        lossy == {i \in 1..n : hops[i].loss}
    IN  /\ verdict \in Verdicts
        /\ (verdict \in LossVerdicts) <=> (lossy # {})
        /\ verdict = "ok" => n > 0 /\ \A i \in 1..n : ~hops[i].jitter
        /\ verdict = "local_issue" => lossy = {1}
        /\ verdict = "destination_issue" <=> n \in lossy

TypeFilters == {NoFilter} \cup {[NoFilter EXCEPT !.type = t] : t \in Types}

\* The panels of one refresh tell one story, though each counts the attempts anew and some
\* read counters of the store: under every filter the parts add up, without a filter the
\* attempts match the counters unless the page warns that the buffer is truncated, and a panel
\* that was suspended while attempts were recorded (aggregator.py:232) shows counters that
\* are at least what it counted.
PanelsAgree ==
  LET all == FilterAttempts(NoFilter, Len(log))
      errors == ErrorsPanel(all)
  IN  /\ \A f \in TypeFilters :
           LET s == FilterAttempts(f, Len(log)) IN
           SumsUp(s) /\ BadgeMatches(s) /\ DeltasAddUp(ErrorsPanel(s), errors)
      /\ ~Truncated(Len(log)) => MatchesCounters(all)
      /\ HopsExplainVerdict
      /\ \A seen \in 0..Len(log) :
           LET s == FilterAttempts(NoFilter, seen) IN
           Cardinality(s) <= counters["total"] /\ Cardinality(Garbage(s)) <= SumOf(noiseCounts)

Repeats(r, t) == Cardinality({i \in DOMAIN log : Lookup(i) /\ log[i].record = r /\ log[i].type = t})

\* Probes that the estimate does not expect: those of a name with at least ndots dots.
UnforeseenProbes(r) == Cardinality({i \in DOMAIN log :
  log[i].probe /\ log[i].record = r /\ ~SearchFirst(r)})

\* "How many times actual QPS exceeds needed lookups" (README.md:307): with each name looked
\* up n times for each type the ratio is at most n, the expected probes included
\* (ndots_analytics.py:145).  The estimate expects none for a name with at least ndots dots
\* (ndots_analytics.py:32), and the runner probes it all the same (dns_runner.py:303): such
\* probes raise the ratio with no lookup repeated, example.com with ndots 1 and a search list
\* of two to 3.  They are left out here, and bounded by the search list and the repetition.
AmplificationIsRepetition ==
  LET unforeseen == [r \in Records |-> UnforeseenProbes(r)] IN
  \A n \in 1..MaxQueries : (\A r \in Records, t \in Types : Repeats(r, t) <= n) =>
    /\ Amplification[1] - SumOf(unforeseen) <= n * Amplification[2]
    /\ \A r \in Records : unforeseen[r] <= n * Suffixes * Len(TypeList)

Ordered(p) == p[50] <= p[95] /\ p[95] <= p[99]

\* The rows of a breakdown share out the lookups, and no percentile of the total is below
\* that of every row.  It may be above all of them, by the rounding of the index; the 99th is
\* not, as long as it is the slowest lookup of each row.
RowsAgree(rows, count, latency) ==
  /\ RowSum(rows, "count") = count
  /\ \A k \in DOMAIN rows : Ordered(rows[k].latency)
  /\ DOMAIN rows # {} => \A p \in {50, 95, 99} :
       \E k \in DOMAIN rows : rows[k].latency[p] <= latency[p]
  /\ DOMAIN rows # {} /\ (\A k \in DOMAIN rows : rows[k].count <= 51) =>
       \E k \in DOMAIN rows : latency[99] <= rows[k].latency[99]

\* Up to time k.
RangeAgrees(k) ==
  LET s == FilterAttempts([NoFilter EXCEPT !.to = k], Len(log))
      rest == FilterAttempts([NoFilter EXCEPT !.from = k + 1], Len(log))
      panel == DnsLatencyPanel(s)
  IN  /\ Ordered(panel.latency)
      /\ RowsAgree(panel.time_buckets, panel.sample_count, panel.latency)
      /\ RowsAgree(panel.by_resolve_mode, panel.sample_count, panel.latency)
      /\ RowsAgree(panel.by_query_type, panel.sample_count, panel.latency)
      /\ LoadPanel(s).actual_qps[1] = panel.sample_count
      /\ Cardinality(s) + Cardinality(rest) = Cardinality(Events(Len(log)))

\* The latency and the load panel in any range of time: percentiles are in order, in total
\* and in the rows by mode, by type and by bucket, which agree with the total, and ranges
\* that follow each other share out the lookups of the range they make up.
LatencyPanelsAgree == \A k \in 0..now : RangeAgrees(k)

=============================================================================
