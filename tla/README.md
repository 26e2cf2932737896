# A verification of DNS Debug in TLA+

DNS Debug (`app/`) is one Python process: FastAPI on uvicorn, one asyncio event
loop, one worker. Clients start DNS tests that fire queries at a given rate and
watch how the resolver behaves; they trigger MTR runs; a dashboard reads the
results. In autonomous mode the service runs one endless test by itself.

This directory holds TLA+ models of the parts of that process that decide
something, TLC configurations that check them on small instances, and proofs
that TLAPS checks for every value of the constants. `PROJECT.json` lists
components, runs, mutants (a plausible slip for every property, which TLC must
find), hazards, findings and theorems, and maps each definition to source lines.

## How to run

    tlc -workers 2 -config lifecycle_api.cfg MCDnsTestLifecycle    # any run of PROJECT.json
    tlapm DnsTestLifecycleProofs.tla
    tlapm DnsTestPromiseProofs.tla
    tlapm MtrProofs.tla
    tlapm QueryStatsProofs.tla
    tlapm UiPanelsProofs.tla
    tlapm RateLimiterProofs.tla
    tlapm DashboardProofs.tla
    tlapm SnapshotsProofs.tla

Every run takes less than three minutes, every proof a few minutes at most.

## Inventory

| Component | Source | State | Operations | Talks to |
|---|---|---|---|---|
| DNS test runner | `dns_runner.py` | `_running_tasks`, `_cancel_events`, `_active_count`; per run: semaphore, set of pending tasks, duplicate window, cache tracker | `start_test_background`, `run`, `_execute_query`, `_run_search_probes`, `cancel_test`, `cancel_all_tests` | statistics store, metrics, snapshots, dnspython |
| Tests and MTR API | `api.py` | none | `POST /tests`, `DELETE /tests/{id}`, `POST /mtr`, reads | admission check, runner, stores |
| Admission check | `security/abuse.py` | none that is used | `check_dns_run_allowed` | statistics store |
| Statistics store | `stats_store.py` | `_tests`: status, config, counters, samples, events, summary | `create_test`, `update_status`, `record_attempt`, `set_summary`, ... | read by API, UI, snapshots |
| MTR runner and store | `mtr_runner.py`, `mtr_store.py` | `_run_lock`, periodic task; `_runs`, `_by_id`, `_latest` | `trigger_mtr_now`, `MtrPeriodicRunner.run`, `run_mtr`, `cancel_mtr`; `create_run`, `finalize_run` | subprocess `mtr`, PostgreSQL |
| Lifespan | `main.py` | cleanup task | start-up, shutdown | everything |
| Snapshots | `snapshot_store.py`, `retention.py` | JSON files or rows | `save`, `list_snapshots`, `prune`, `save_test_snapshot` | UI aggregator, PostgreSQL |
| PostgreSQL persistence | `db/` | pool, tables | pool start, migrations, import, persist, cleanup loop | asyncpg |
| Rate limiter | `security/rate_limit.py` | buckets by address, credential, class | `allow` | middleware |
| Authentication and the rest of `security/` | `security/` | none | per-request decisions | middleware |
| Resolver snapshot, ndots analytics, utilities | `resolver_snapshot.py`, `ndots_analytics.py`, `utils.py` | one snapshot | pure functions | runner, store, UI |
| Metrics | `metrics.py` | Prometheus registry | set, inc | runner |
| UI back end | `ui/` | none | ten panels, comparison, filters, warnings | stores, snapshots |
| Dashboard | `ui/static/js/` | mode, controls, timer, `loading`, what is shown | `refreshAll`, clicks | UI back end through the rate limiter |

### What is hard here

All Python code runs in one event loop, so code between two awaits that really
suspend is atomic. The hard part is what happens across those awaits.

* The status a handler checked may have changed when it acts; a test is PENDING
  until its task has had its first turn.
* A run ends along five paths: its duration, its cancel event, the time-out of
  a DELETE, shutdown, an exception. Each must leave status, summary,
  registries, gauge and semaphore consistent.
* Query tasks outlive the loop that made them and finish in any order.
* The MTR lock is handed over in a later turn than the one it is released in,
  and the check of `POST /mtr` does not take it.
* Shutdown waits for some tasks and not for others, within a time limit.
* Snapshot files and PostgreSQL rows survive the process; nothing else does. The
  process may die between two writes or in the middle of one, and the next start
  may use the other backend.
* With PostgreSQL, building a panel suspends between its attempts and its
  counters, and saving a snapshot ten times, while queries go on recording.
* The page skips a refresh while another is under way, and its own refreshes
  exhaust the rate limit.

### What makes each component correct

* Runner: permits are conserved; an ended test is quiet and its summary
  complete; a RUNNING test can always be cancelled; cancelling stops new work,
  takes effect and is never contradicted; every limited run ends; the gauge
  counts what runs.
* Admission: no more RUNNING tests than configured, in all and per credential.
* MTR: one mtr at a time; clients' runs in order; bounded history of ended
  runs; every accepted run ends.
* Heuristics and statistics: counters add up in whatever order answers arrive;
  an attempt marked duplicate, AAAA noise or cache hit really is one.
* Rate limiter: admitted requests in any interval are bounded by the burst and the
  rate, and a client that waits is admitted.
* Snapshots and persistence: what was saved is found again, retention removes
  what is old and nothing else, also after a crash, and what is old is not made
  young again by an import; the parts of a snapshot agree.
* UI back end: the panels of one page tell one story, with each other, with the
  counters of the store and with the health badge.
* Dashboard: a live page comes to show the filters that are set, whatever was
  skipped or refused on the way.

## The models

### DnsTestLifecycle

One action is the code between two real suspension points: `sleep(interval)`, a
resolver call, `gather`, `wait_for`, a semaphore without a free permit, and a
PostgreSQL call when snapshots go there (`DbSnapshots`). The stores' own locks are
never contended, because their critical sections await nothing, so a store call
belongs to the action that makes it.

| TLA+ | Code |
|---|---|
| `status`, `owner`, `recorded`, `summary` | `TestState`: status, `triggered_by`, `counters.total`, the same number in the summary |
| `pc[t]` | where the background task of `t` is suspended: `sleep`, `checkpoint`, `gather`, `saving`; `created` before its first turn, `done`, `broken` (exception) |
| `spawned`, `query`, `left`, `sem` | query tasks of the run, the search probes each has left, the semaphore |
| `cancelled`, `cancelEvents`, `runningTasks`, `activeCount` | set cancel events, the two registries, the gauge |
| `target`, `reply` | the DELETE each deleting client has issued, and its answer |
| `phase`, `waitedFor` | lifespan, and the tasks `cancel_all_tests` waits for |

| Action | Code |
|---|---|
| `CreateTest` | `POST /tests`: admission check, `create_test`, `start_test_background` |
| `Begin`, `BeginRaises` | first turn of the task; the second when an autonomous resolve mode is unknown |
| `Iterate`, `CheckpointSaved` | one round of the loop; the checkpoint of an endless run |
| `Gather`, `Finish`, `SnapshotSaved` | from the end of the loop to the end of the finally block |
| `StartQuery`, `SkipQuery`, `AnswerThenProbe`, `AnswerLast`, `AnswerProbe` | `_execute_query` and `_run_search_probes` |
| `DeleteRefused`, `DeleteAccepted`, `CancelTimesOut`, `DeleteReturns` | `DELETE /tests/{id}` and `cancel_test` |
| `BeginShutdown`, `EndShutdown` | the second half of `lifespan` |

Some facts about the code that shape the model:

* The task waits in `sleep` after each round, and one round follows the other
  until the cancel event is set or the duration is over; time is abstracted, so
  a limited run may leave its loop after any round. Only the autonomous test is
  endless: the API demands a duration of at least one second.
* The status FAILED is set for an empty list of work items, which no
  configuration can produce, or for an exception in the body of the loop, where
  nothing raises one; no action sets it. The branch that leaves a test RUNNING
  after its loop is dead too: an endless loop ends only by the cancel event.
  The proof needs this (`FinishEnds`).
* An exception in a query task (a query type dnspython does not know, possible
  in autonomous mode only) ends that task silently: `SkipQuery`.
* When the wait of a DELETE runs out, `wait_for` cancels the task. In its
  `gather` the cancellation goes on to the pending queries; in its `sleep` the
  queries stay. In both cases the finally block fails because the local
  `status` is unassigned: `CancelTimesOut` leaves the test RUNNING, registered
  and counted.
* `main.py` gives the autonomous task its first turn before requests are
  served; uvicorn answers open requests before it begins the shutdown.

### TestRuns

The promise, without tasks or semaphores: a test is created, starts, records only
while it runs, and ends once, CANCELLED if somebody asked for it and COMPLETED
otherwise, its summary then showing all attempts. `DnsTestLifecycle` implements it
with `requested <- cancelled`, `attempts <- recorded`, `shown <- summary`.

### Mtr

Actors are the triggered runs and the periodic runner. `stage` says where a
coroutine is suspended (lock, subprocess, wait after the kill, PostgreSQL,
interval). The lock is modelled as `asyncio.Lock` works: `release` lowers the
flag and wakes the first waiter, which raises it only in its own turn; a newcomer
takes a free lock only when nobody waits. `locked` is the flag `POST /mtr` reads.

### QueryStats

What one test makes of its answers. `DnsTestLifecycle` knows how many attempts were
recorded; here they have names, types, modes, outcomes and times, and starting,
stopping and cancelling are left out. How many lookups and probes may fail is bounded
(`MaxFailures`, in the guard `MayEnd`). The two modules share the shape of a query
task: a permit, a lookup, then the search probes one by one.

| TLA+ | Code |
|---|---|
| `WorkItem(q)` | `cycle(expand_work_items(...))`: the q-th query task |
| `stage`, `left` | `_execute_query` and the search domains it has left |
| `window`, `firstLatency`, `aSuccess` | `_duplicate_window`, `_cache_tracker`, `_a_success_records` |
| `counters`, `noiseCounts` | `TestCounters` (its dictionaries by type and mode flattened), `noise_counts` |
| `perRecord`, `lookups`, `timeouts`, `systemFailures`, `fqdnSuccesses` | `RecordStats` |
| `Ask`, `AnswerLookup`, `AnswerProbe` | `_execute_query`, `_resolve` with `_record_attempt`, `_run_search_probes` |

From the end of a lookup to its last counter nothing suspends, so `AnswerLookup` is
one action: it notes an A success, expires and extends the duplicate window,
records the attempt, then looks at the cache tracker. A duplicate does not renew
the entry it was found by, so in a steady series of repeats the first one after the
window is not marked; the converse, that what is marked is a repeat, is
`DuplicatesAreRepeats`. `log` is the history the
properties compare with. A name is a host, the number of dots in it, and whether it ends
with one more: two spellings are two records, and one name in `absolute_fqdn` mode. The outcome
"empty" is allowed by the module and its proofs, but not produced in the runs:
dnspython raises `NoAnswer`, which the runner records as an error. Sums and lists
of latencies are left out; latencies matter only to the cache heuristic.

### RateLimiter

One action per request: `allow` refills the bucket of the key, caps it and takes a
token if there is one. Time is whole seconds and tokens are sixtieths, so that all
arithmetic is exact; the code uses floats. A bucket starts empty, so the very first
request with a key is refused; `WaitingIsRewarded` therefore speaks of waiting
after a request, never before the first.

### Dashboard

The page against the limiter: `Dashboard` extends `RateLimiter` and every answer to
a request of the page is a `Request` of the limiter. A view is a mode with values of
the controls; `shown[p]` is the view panel `p` was last rendered with.

| TLA+ | Code (`dashboard.js`) |
|---|---|
| `viewMode`, `filter`, `auto`, `timer`, `loading` | the variables of the script and the controls of the page |
| `asked`, `unanswered` | the query string of the refresh under way, the answers it waits for |
| `stray` | requests of a failed `Promise.all`, which still reach the limiter |
| `RefreshAll`, `Loaded`, `NotLoaded` | `refreshAll`, the end of its try block, its catch and finally |
| `TimerFires`, `ChangeFilter`, `ChooseMode`, `ChooseLanguage`, `ToggleAuto`, `ShowEvents` | `setupRefreshTimer` and the handlers of `bindFilters` |

By default a page sends ten requests every five seconds and the limiter gives 120
a minute with a burst of 20: exactly what the page needs. A bucket starts empty, so
the first load is refused in part, and the requests that follow the first refusal
use up tokens for nothing. `LiveCatchesUp` says that the page recovers all the same,
within two periods. It speaks of a live page with automatic refresh only: when the
mode is changed while a refresh is under way, historical and compare mode keep the
old data until the next click, because `refreshAll` does nothing and no timer is set.
Assumed: one tab that is alone with its key, punctual timers, requests answered
within a second.

### Snapshots

Each life of the process is a start with files, with PostgreSQL, or with PostgreSQL
that cannot be reached; a file operation does not suspend, so saving to a file is one
action, and `CrashInSave`, `CrashInPrune` and `SaveToFileFails` are the ways it can
stop in the middle. With PostgreSQL each panel awaits a query: `BeginSave`, one
`ReadPanel` for each panel, `BeginPersist` (a connection), `PersistSnapshot` (the
transaction ends), with the other tasks in between. A DELETE whose wait times out
cancels a run in any of these places (`CancelSave`).

A shutdown has three steps. `BeginShutdown` cancels the tests and waits for their runs,
which includes their snapshots: a run is unregistered after it has saved
(`dns_runner.py:394`, `:416`). `ClosePool` is the end of this wait, when the runs have ended
or, at any moment, when `SHUTDOWN_TIMEOUT_SECONDS` are over. `_pool.close()` then waits for
connections that are in use, and meanwhile runs that outlived the wait go on (phase
`closing`): a transaction that has begun still ends, but who asks for a connection now is
refused (`PersistTooLate`). `persist_snapshot` swallows that (`db/repository.py:150`), and
`save_test_snapshot` logs the snapshot as saved (`snapshot_store.py:339`): it is lost without
a failure of the database. `RowsAreKept` excludes exactly this case. `late` has the snapshots
that were in the making when the wait ran out, and all others that were logged as saved
must be there.

| TLA+ | Code |
|---|---|
| `phase`, `backend`, `pool` | lifespan, `DNS_DEBUG_DB_ENABLED`, `_pool` |
| `disk`, `rows`, `toImport` | files (`whole`: valid JSON), `historical_snapshots`, the glob of `import_file_snapshots` |
| `stage`, `since`, `draft` | the run of a test, `last_snapshot_checkpoint`, the panels read so far |
| `StartWithFiles`, `StartWithDb`, `ConnectFails`, `ImportFile`, `ImportFails`, `StartUpCleanup` | the first half of `lifespan` |
| `Cleanup`, `BeginShutdown`, `ClosePool`, `EndShutdown` | `periodic_cleanup_loop`, the second half of `lifespan`, `close_db_pool` |
| `saved`, `late` | history: what was logged as saved, and what was in the making when a shutdown stopped waiting |

A completed test saves one snapshot, a cancelled one none, the autonomous test one
at every checkpoint. A query that fails in a panel is swallowed by
`get_snapshot_count`, and a failed write by `persist_snapshot`; both are logged only.
A tick of the clock is at least the distance of two checkpoints, so two snapshots
of one test have different ids. The wall clock does not go back. Settings other than the
backend have their defaults.

### UiPanels

What is computed from the state of `QueryStats`, as operators: the filters, the event
buffer and its warning, the ten panels, the health badge, the comparison of errors and
the ndots estimates. A panel is a function of the attempts it has read (`seen` of
them) and of the counters at the moment it resumes. A list of attempts is the set of
their places in the log, since nothing a panel shows depends on their order: a group is
the set of places with one key, a number shown is a cardinality. Ratios are kept as
pairs, a percentile is the latency that has the code's index when the latencies are
sorted (`HasIndex`), ranked lists are functions.

`PanelsAgree` holds under every filter for what is counted from attempts; the
comparison with the counters holds only while the buffer is not full, which is what the
warning `event_buffer_truncated` says. The rate of failures, the measured QPS and the saturation divide
what is left in the buffer by the whole life of the test, so that they only fall in a
long run; the model has these formulas, the properties do not defend them. Of the
verdicts of an MTR report, `packet_loss_suspected` can never be given.

Badge and load panel have different rates of errors: the badge divides the failures by all
attempts, the panel by the lookups (`ui/aggregator.py:40`, `:654`), and probes that succeed
dilute the first. One failure in 20 lookups with two probes is a rate of 5 per cent in the
panel, which is the threshold, under an "ok" badge. `BadgeMatches` says how far this
goes: probes are garbage, more of it would not be "ok", so the rate of the panel stays below
`ErrorPercent / (1 - GarbagePercent / 100)`, which is 5.9 per cent for the thresholds of
5 and 15. The thresholds of the run (25 and 50) are coarse enough for a few attempts to show
an "ok" badge above a rate of the panel that exceeds the first of them.

The estimate of the amplification is per name: a name with fewer dots than `ndots` is
expected to try the search list, one with at least as many is not (`ndots_analytics.py:32`).
The runner does not ask: it probes the search list for every name without a trailing dot
(`dns_runner.py:303`). So with `ndots` 1 and two search domains `example.com`, looked up
once, has a ratio of 3, which `README.md:307` would read as two needless lookups for each needed
one. `AmplificationIsRepetition` leaves these unforeseen probes out, and only these: the
rest is at most the number of times a name was looked up with a type, times the estimate; and
the unforeseen ones are no more than the search list allows for the lookups. The run has a name of each
kind, and the first is looked up twice for A.

`LatencyPanelsAgree` compares the percentiles of the total with those of the rows. That
no percentile of the total is below all rows always holds. The converse does not:
`percentile` rounds its index, and in two rows of 52 lookups with one slow lookup each
the 99th percentile of a row is a fast lookup while that of the total, of 104, is a slow one.
The property therefore says it of the 99th percentile and rows of at most 51 lookups,
where the index is that of the slowest one (`LastIsPercentile`); rows of the run are
smaller than that, and the attempt at a proof showed that the bound is needed.

### Modules that hold no model

`MCDnsTestLifecycle`, `MCMtr`, `MCQueryStats`, `MCDashboard` and `MCSnapshots` give
constants their values. `DnsTestLifecycleProofs`, `DnsTestPromiseProofs`, `MtrProofs`,
`QueryStatsProofs`, `UiPanelsProofs` (on top of `QueryStatsProofs`),
`RateLimiterProofs`, `DashboardProofs` (on top of `RateLimiterProofs`) and
`SnapshotsProofs` hold the theorems.
Definitions named `Faulty...` are mutations of the definition that follows and are
used by no run as it stands.

## Runs

| Run | Bounds | Shows |
|---|---|---|
| `lifecycle_api` | 2 tests, 2 deleting clients, 2 queries, 1 permit, 1 probe, PostgreSQL snapshots, time-outs | `TypeOK`, `EndedMeansQuiet`, `RegistryTracksRuns`, `GaugeCountsRuns`, `CancellingIsHonoured`, `DrainedMeansEnded`, refinement of `TestRuns` |
| `lifecycle_backlog` | 1 test, 5 queries, 2 permits, 2 probes, 2 deleting clients, time-outs, fair | `SemaphoreConserved`, `CompletedMeansAllAnswered`, `NoWorkAfterCancel`, `EveryRunEnds`, `CancelEndsRun`, `DeleteIsAnswered` |
| `lifecycle_caps` | 3 tests, 2 credentials, cap 2 and 1, no overlapping POSTs; or the autonomous test, checkpoints, all kinds | `RunsCapped`, `JobsCapped`, `AutonomousRunsUntilShutdown` |
| `overlapping_posts` | 2 tests, cap 1 | violates `RunsCapped` |
| `cancel_timeout` | 1 test, 1 query, time-out, fair | violates `CancelTakesEffect` |
| `mtr_runs` | 3 triggered runs, periodic runner, 5 records, history of 2, PostgreSQL, fair | `TypeOK`, `MutualExclusion`, `HistoryIsSound`, `ClientRunsInOrder`, `LatestWhenIdle`, `ClientRunEnds` |
| `mtr_busy` | 2 triggered runs | violates `OneRunAccepted` |
| `stats_counts` | 5 queries, names with no and with one inner dot, `ndots` 1, A and AAAA, 1 search domain, 3 outcomes, 2 failures, buffer of 7 | `TypeOK`, `StoreAddsUp`, `AaaaNoiseIsRedundant`, `PanelsAgree`, `AmplificationIsRepetition` |
| `stats_window` | 5 queries, 2 spellings, window of 2, time to 3, 3 latencies, buffer of 4 | `DuplicatesAreRepeats`, `CacheHitsBeatFirst`, `LatencyPanelsAgree` |
| `stats_probes` | both modes, 1 search domain | violates `EventualFqdnCountsLookups` |
| `rate_limit` | 1 client, 2 classes with rates 2 and 0, burst 2, 3 minutes; a page with 2 panels, 2 values of the controls, a refresh a minute, 2 clicks or failures; 4 requests when it is closed | `TypeOK`, `AdmittedWithinLimit`, `WaitingIsRewarded`, `LiveCatchesUp` |
| `snapshots` | the autonomous test and one more, 1 query each, 2 panels, retention of 1, limit of 2, time to 2, 1 failure, fair | `TypeOK`, `FilesAreKept`, `RowsAreKept`, `OldStaysHidden`, `PartsAgree`, `OldIsRemoved` |

Why the bounds are enough: two tests share only the admission check, the
registries and the gauge, so two (three for the caps, to have a cap of two
exceeded) show every conflict. Two deleting clients are the fewest with a second
DELETE that waits for a task the first one's time-out kills. A backlog needs more
queries than permits, twice over, so that queries still queue when others are in
their probes: five queries, two permits, two probes. A history of two with five
records evicts while runs are under way. `MaxQueries` and `MaxRuns` are bounds of
the model, not of the code; the proofs hold for every value of them.
`stats_counts` has one query more than its four work items, so that one lookup is
repeated, with another outcome or the same; two failures give every pair of outcomes of
two attempts, and "error" is left out, which differs from "timeout" only in its counter and in
the time-outs by mode. `stats_window` has
five queries for two work items, so that both come back, and a clock that passes the window.
`stats_probes` needs no repetition: its two queries are one name in both modes. With two in
flight answers overtake each other. The requests of `RateLimiter` suffice to fill the burst, to
empty it and to earn again; the page's demand is exactly the limit, as by default,
two clicks are the fewest of which one is skipped and the other undoes it, and three
periods leave one after the two that recovery may take. Buffers of seven and four
attempts are full in some states and not in others. In `Snapshots` a retention of one tick
and a limit of two make both kinds of pruning happen, two ticks let a snapshot expire after
a restart and an import, two panels are three reads with suspensions between them, so that a
shutdown, its time-out or a DELETE can fall between any two, and one failure is what the
code can be expected to survive; crashes and restarts are not bounded.

Fairness: the event loop runs every ready task and every timer fires, so each
step of a task, of a query and of a waiting DELETE is weakly fair; a lookup ends
because dnspython is given a lifetime; the end of a shutdown is fair since its
wait has a time-out. In `Snapshots` a stopped process is started again
(`restart: unless-stopped` in `docker-compose.yml`), a start goes on, the cleanup loop
wakes up, the wait of a shutdown and the closing of the pool end, and so does a transaction
(`command_timeout`, `db/connection.py:36`). Clients, time-outs of a DELETE, and the beginning of a
shutdown are never forced. `CHECK_DEADLOCK FALSE` is set because the process may
end and because bounded runs run out of tests.

## Findings

1. `overlapping_posts`: the caps count RUNNING tests, and a created test is
   PENDING until its task's first turn. POSTs handled in between are admitted
   beyond `DNS_MAX_CONCURRENT_RUNS` (`security/abuse.py:19`). With no overlap
   the caps hold (`lifecycle_caps`, theorems `RunsCapHolds`, `JobsCapHolds`).
2. `cancel_timeout`: a DELETE whose wait runs out kills the task in a state where
   its finally block raises `UnboundLocalError` (`dns_runner.py:385`). The test stays
   RUNNING, registered and counted by gauge and cap; the client gets a 500. A run
   that ends in time is CANCELLED (`CancelEndsRun`).
3. `mtr_busy`: `POST /mtr` looks at a lock that only the new task will take
   (`mtr_runner.py:289`); a second request in between is accepted, against
   `README.md:129`. The runs still execute one after the other
   (`MutualExclusion`, `ClientRunsInOrder`).
4. `stats_probes`: failures of search probes, made for statistics, count as failures
   of the search mode (`stats_store.py:221`), so `eventual_fqdn_success_count` counts
   names that the search mode resolved, against `README.md:263`. The theorem
   `EventualCountsAttempts` says what is counted instead, and `EventualCountsLookups` that
   without a search list the README is right.

## Proofs

TLAPS proves, for every number of tests, clients, queries, permits, probes and
records, from the named assumption on the constants of each module only:

* `DnsTestLifecycleProofs`: `TypeOK`, `SemaphoreConserved`, `EndedMeansQuiet`,
  `RegistryTracksRuns`, `GaugeCountsRuns`, `CancellingIsHonoured`,
  `DrainedMeansEnded`, the action property `NoWorkAfterCancel`, and
  `CompletedMeansAllAnswered` under the hypothesis that no query type is
  unparsable (the API checks the types; the autonomous test never completes).
* `DnsTestPromiseProofs`: the refinement of `TestRuns`;
  `AutonomousRunsUntilShutdown`; and both caps under the hypotheses
  `~PostsOverlap` and `Autonomous = {}`.
* `MtrProofs`: `TypeOK`, `MutualExclusion`, `QueueIsExact`, `HistoryIsSound`,
  `ClientRunsInOrder`, `LatestWhenIdle`, and the action property `RunsEndOnce`: a step of
  the store begins the next run or ends one that is RUNNING, and touches no other.
* `QueryStatsProofs`: `TypeOK`, `WindowIsSparse`, `DuplicatesAreRepeats`,
  `AaaaNoiseIsRedundant`, `CacheHitsBeatFirst`, `StoreAddsUp`, for every list of records,
  modes and types and every window; `EventualFqdnCountsAttempts`, and
  `EventualFqdnCountsLookups` under the hypothesis `Suffixes = 0`. `NamesAssumption` says
  that types, modes and the fixed counters have different names: the code keeps them in
  dictionaries and fields of their own, which share one function here.
* `UiPanelsProofs`: `PanelsAgree`, `AmplificationIsRepetition`, `LatencyPanelsAgree`, for
  every buffer, threshold, `ndots`, number of attempts and latencies; and more than the runs check:
  `FilteredPanelsAgree` for every filter by mode, type and time at once, and `VerdictFits` for
  paths of any length.
* `RateLimiterProofs` (from `LimitsAssumption`): `TypeOK`, `AdmittedWithinLimit`,
  `WaitingIsRewarded`, for all rates, zero and negative ones too, and every burst.
* `DashboardProofs`: the page is a client of the limiter (`PageUsesLimiter`), so the
  three above hold with it; and `LiveCatchesUp` under the hypothesis `EnoughTokens`:
  the burst holds the tokens of one refresh and a period refills them. The defaults
  satisfy it with nothing to spare.
* `SnapshotsProofs`: `TypeOK`, `FilesAreKept`, `RowsAreKept`, `OldStaysHidden`,
  `PartsAgree`, for any tests, panels, retention and limit and any number of faults.
  `RowsAreKept` has the exception for a shutdown that waited in vain built in (`late`).

The argument for the life of a test is the invariant `IInv`. The safety properties
are not inductive alone: that an ended test is quiet needs that a task in
`gather` really left its loop and that query tasks exist exactly for the spawned
ones (`QueriesMatchSpawned`); that the registries track the runs needs the exact
link between status, registries and the place of the task (`PcMatchesStatus`,
`RegistriesMatchPc`); that "cancelling" is honoured needs to know what a waiting
DELETE waits for (`DeletesMatchTests`); a clean shutdown needs that everything
still alive is waited for (`ShutdownAwaitsTasks`). Types need the permits: that
the semaphore never exceeds `Concurrency` follows from `SemaphoreConserved`.
The proof has one lemma per group of conjuncts, each with one step per action.
The gauge is proved on top by counting: `GaugeStep` shows that each step changes
the counted set by at most the element it adjusts the counter for. `CapInv`, for
the caps, says that the RUNNING tests together with the created ones fit.

For MTR, `IInv` adds to the properties how records, stages and the creation order
match (`RecordsMatchStages`); `QueueIsExact` is proved with it. The order of the
clients' runs is a second invariant on top (`OrderInv`): tasks reach the lock in the order
of their records, and the queue keeps it.

For `QueryStats` the point is expiry from the left: it removes exactly the old
entries only because the window is in the order of time (`LiveWindowIsRecent`, by
counting the old ones). `WindowComesFromLog` links each entry to the lookup that
made it; a task in its probes has one left (`ProbesLeft`), or the types would fail.
The heuristics are tied to the log in the same way: the recorded A successes and first
latencies are those of lookups in the log, and the other way round.

The numbers of the store are sums of separate counters, and no step of the code relates
two of them. `StoreInv` relates each to the log: every counter is the number of attempts
it is said to count (`CountsFromLog`), an attempt has a noise type of the search list
exactly if it is a probe, and the log is past. Each step keeps it (`LogCountStep`: a new attempt
counts once), and `StoreAddsUp` follows at any one moment, because outcomes, types, modes,
records and kinds of noise are keys that share out the attempts (`Shares`). That needs
facts about sums over a finite set (`SumOf` is a fold): they are proved without an
induction theorem, with the recursion of the fold as a set-theoretic function
(`SumIsFold`) and the minimal subset that would be a counterexample (`Minimal`, from the
well-foundedness of strict inclusion). From it follow that a sum can be taken in any order
(`SumPick`), split, compared and added (`SumSplit`, `SumMonotonic`, `SumPlus`), and that
the sizes of the groups by a key are those of the whole (`SumOfFibres`). `EventualInv` ties
the two sets of names of the summary to the log; only tasks of a search mode make probes.

In `UiPanels` the panels are functions of that state, so `PanelsAgree` and
`LatencyPanelsAgree` need no invariant of their own: `GroupShares` gives the rows and
tallies, `TotalsFromLog` the counters, `DeltasShare` the comparison; for the percentiles
`PercentileIndexShares` says that the indices of two parts add up to at most that of the
whole, so if every row were slower than the total, too few lookups would be at most as
slow as it says. The badge needs that attempts that are not lookups are garbage
(`Dilution`). The amplification needs `ProbeBudget`: for each name, the probes made and those
still to make are at most `Suffixes` for each lookup that has ended, which holds over time
only because the budget of a task (`left`) counts in it. It gives a bound for each name
(`RecordIsEstimated`), and the sum over the names is the ratio.

For `RateLimiter`, `BudgetKept` says that what was admitted since any request plus
what is left in the bucket is at most the burst plus the refill since then; the
limit follows when the bucket is not negative. `SavingsKept` is its counterpart:
tokens waited for and not yet asked for are in the bucket.

For `Dashboard` the inductive invariant is about the last time the timer fired.
Requests are under way only at the time of a click or of the timer
(`RequestsAreDue`), so the bucket was last looked at no later; when the timer
fires a full period after both, that period has earned a whole refresh, every
answer finds its token (`Recovers`: as many tokens as answers missing), and the panels
are complete. The first period may go to a refresh that began before the last click,
which is why the property has two.

For `Snapshots` the key is that no test uses an id twice (`SavedOnce`), because a
checkpoint is later than the one before it and other tests save once: then overwriting and
importing never replace one snapshot by another, and a file has the age of the
save it came from (`FilesMatch`, `RowsMatch`). Pruning by number is a counting argument:
the newer files inject into the newer saves (`PruneKeepsFiles`). For the shutdown, whatever
is still being saved while the pool closes is in `late`: it was in the making when the wait
ended, and nothing begins to be saved after that.

Only model-checked: the liveness properties (`EveryRunEnds`, `DeleteIsAnswered`,
`CancelEndsRun`, `ClientRunEnds`, `OldIsRemoved`), since liveness under fairness is
beyond the prover. Every safety property of a passing run is proved too. What is
taken from the prover's library, and not proved here, are its facts about finite sets,
sequences and well-founded orders.

## Not modelled

* The content of DNS answers, error messages (an error has one class, `error`), averages
  of latencies, `get_global_summary`: they are computed once from what is modelled.
* `build_diagnosis`, the latency deltas and the resolve budget of `ndots_analytics.py`;
  the ratio deltas of `ui/compare.py`; the list of events and the paging of the UI.
* The derived tables of PostgreSQL (`db/extractors.py`) and migrations: written in the
  transaction of the snapshot, or by sequential SQL before anything else runs.
* The fallback of a historical panel to live data when its snapshot is gone
  (`ui/aggregator.py:227`).
* The parsing of mtr's report and of `resolv.conf`; the validation of parameters;
  authentication, network allow-list, headers, audit log; metrics besides the gauge.
  Per-request decisions without state leave nothing to interleave.
* Rendering and translation in the dashboard; more than one tab with one key.

## Plan

1. `DnsTestLifecycle` with `TestRuns` and their proofs. Done.
2. `Mtr` and its proofs. Done; the lock could be shown to implement an abstract executor
   that runs one job at a time.
3. `QueryStats` and its proofs, `UiPanels` and its proofs on top. Done.
4. `RateLimiter` and its proofs, `Dashboard` on top. Done.
5. `Snapshots` and its proofs. Done.
6. Next: the reads of historical panels from snapshots, with the fallback to live data, by
   composing `Snapshots` with `UiPanels`; several tabs; the diagnosis.
