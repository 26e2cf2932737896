-------------------------- MODULE DnsTestLifecycle --------------------------
(***************************************************************************)
(* The life of DNS tests in the one asyncio event loop of the service:     *)
(* POST /tests and DELETE /tests/{id} (app/api.py), the admission check    *)
(* (app/security/abuse.py), the background task of a test, its query       *)
(* tasks, the registries and the gauge (app/dns_runner.py), the status and *)
(* the number of attempts in the store (app/stats_store.py), and shutdown  *)
(* (app/main.py).                                                          *)
(*                                                                         *)
(* An action is the code between two points where a coroutine really       *)
(* suspends: a sleep, a resolver call, a gather, a wait_for, a semaphore   *)
(* that has no permit, a PostgreSQL call.  The store's own lock is never   *)
(* contended (its critical sections contain no await), so a store call is  *)
(* part of the action that makes it.                                       *)
(*                                                                         *)
(* The definitions named Faulty... are not part of the model: each is a    *)
(* plausible slip in the definition after it, and breaks a property below. *)
(***************************************************************************)
EXTENDS Integers, FiniteSets

CONSTANTS
  Tests,              \* the ids (uuid4) that tests may get
  Creds,              \* the credentials that may POST /tests
  Deleters,           \* clients that issue DELETE /tests/{id}, one at a time each
  Autonomous,         \* the test of AUTONOMOUS_MODE; without it the process is in API mode
  MaxConcurrentRuns,  \* DNS_MAX_CONCURRENT_RUNS
  MaxActiveJobs,      \* DNS_MAX_ACTIVE_JOBS_PER_TOKEN
  Concurrency,        \* permits of a test's semaphore
  Suffixes,           \* length of the search list a search probe walks through
  Kinds,              \* kinds of work items: a subset of AllKinds
  MaxQueries,         \* bound: query tasks one test spawns
  DbSnapshots,        \* TRUE: saving a snapshot awaits PostgreSQL
  CancelMayTimeOut,   \* TRUE: a run may outlive SHUTDOWN_TIMEOUT_SECONDS after DELETE
  PostsOverlap        \* TRUE: a POST may be handled before an earlier one's task ran

\* "plain": one lookup.  "search": a mode that uses the search list, followed by
\* one probe per suffix.  "unparsable": a query type dnspython does not know.
AllKinds == {"plain", "search", "unparsable"}

ASSUME ConstantsAssumption ==
  /\ IsFiniteSet(Tests)
  /\ Autonomous \subseteq Tests
  /\ Concurrency \in Nat \ {0}
  /\ MaxQueries \in Nat \ {0}
  /\ MaxConcurrentRuns \in Nat
  /\ MaxActiveJobs \in Nat
  /\ Suffixes \in Nat
  /\ Kinds \subseteq AllKinds
  /\ Kinds # {}
  /\ DbSnapshots \in BOOLEAN
  /\ CancelMayTimeOut \in BOOLEAN
  /\ PostsOverlap \in BOOLEAN

VARIABLES
  status,        \* TestState.status; "absent" before the test exists
  owner,         \* config["triggered_by"]
  recorded,      \* TestState.counters.total
  summary,       \* counters.total as TestState.summary shows it
  pc,            \* where the test's background task is suspended
  spawned,       \* number of query tasks the run loop has created
  query,         \* query[t][q]: progress of the q-th query task of t
  left,          \* left[t][q]: search probes the task still has to make
  sem,           \* value of the run's asyncio.Semaphore
  cancelled,     \* tests whose cancel event is set
  cancelEvents,  \* keys of _cancel_events
  runningTasks,  \* keys of _running_tasks
  activeCount,   \* _active_count, the value of dns_debug_active_tests
  target,        \* the test a DELETE is about
  reply,         \* the answer to the DELETE
  phase,         \* lifespan of the process
  waitedFor      \* tasks cancel_all_tests waits for

storeVars  == <<status, owner, recorded, summary>>
runVars    == <<pc, spawned>>
queryVars  == <<query, left, sem>>
eventVars  == <<cancelled, cancelEvents, runningTasks, activeCount>>
deleteVars == <<target, reply>>
phaseVars  == <<phase, waitedFor>>
vars == <<storeVars, runVars, queryVars, eventVars, deleteVars, phaseVars>>

NoCred == "no credential"
NoTest == "no test"
Queries == 1..MaxQueries

Statuses == {"absent", "pending", "running", "completed", "cancelled", "failed"}

\* "created": the task is scheduled and has not run.  "sleep": in sleep(interval).
\* "checkpoint" and "saving": in save_test_snapshot.  "gather": in gather(*pending).
\* "done": returned.  "broken": ended by an exception.
TaskStates == {"none", "created", "sleep", "checkpoint", "gather", "saving",
               "done", "broken"}

\* "queued": created or waiting for the semaphore.  "primary": in the first lookup.
\* "probing": in a search probe.  "skipped": ended without a lookup.  "dropped":
\* ended by a cancellation.
QueryStates == {"none", "queued", "primary", "probing", "done", "skipped", "dropped"}

Replies == {"none", "waiting", "cancelling", "not_running", "error"}

Phases == {"serving", "draining", "drained", "timed_out"}

Alive == phase \in {"serving", "draining"}

Running(t) == status[t] = "running"
RunningTests == {t \in Tests : Running(t)}
InFlight(t) == {q \in Queries : query[t][q] \in {"primary", "probing"}}
Pending(t) == {q \in Queries : query[t][q] \in {"queued", "primary", "probing"}}

FaultyTaskOver(t) == pc[t] = "done"

TaskOver(t) == pc[t] \in {"done", "broken"}

-----------------------------------------------------------------------------
(* Start-up.  In autonomous mode the lifespan creates and starts the test   *)
(* before the first request is served; otherwise there is no test.          *)

\* started: the tests _start_background_runners creates.
Init == \E started \in {{}, Autonomous} :
  /\ status = [t \in Tests |-> IF t \in started THEN "pending" ELSE "absent"]
  /\ owner = [t \in Tests |-> NoCred]
  /\ recorded = [t \in Tests |-> 0]
  /\ summary = [t \in Tests |-> 0]
  /\ pc = [t \in Tests |-> IF t \in started THEN "created" ELSE "none"]
  /\ spawned = [t \in Tests |-> 0]
  /\ query = [t \in Tests |-> [q \in Queries |-> "none"]]
  /\ left = [t \in Tests |-> [q \in Queries |-> 0]]
  /\ sem = [t \in Tests |-> Concurrency]
  /\ cancelled = {}
  /\ cancelEvents = started
  /\ runningTasks = {}
  /\ activeCount = 0
  /\ target = [d \in Deleters |-> NoTest]
  /\ reply = [d \in Deleters |-> "none"]
  /\ phase = "serving"
  /\ waitedFor = {}

-----------------------------------------------------------------------------
(* POST /tests: the admission check counts RUNNING tests only; the new test *)
(* is PENDING and its task waits for its first turn in the event loop.      *)

FaultyCap(c) == Cardinality(RunningTests) <= MaxConcurrentRuns

FaultyJobs(c) == Cardinality(RunningTests) < MaxConcurrentRuns

ApiMode == \A t \in Autonomous : pc[t] = "none"

RunAllowed(c) ==
  /\ Cardinality(RunningTests) < MaxConcurrentRuns
  /\ Cardinality({t \in RunningTests : owner[t] = c}) < MaxActiveJobs

CreateTest(t, c) ==
  /\ phase = "serving"
  /\ ApiMode /\ t \notin Autonomous
  /\ PostsOverlap \/ \A u \in Tests : pc[u] # "created"
  /\ RunAllowed(c)
  /\ status[t] = "absent"
  /\ status' = [status EXCEPT ![t] = "pending"]
  /\ owner' = [owner EXCEPT ![t] = c]
  /\ cancelEvents' = cancelEvents \cup {t}
  /\ pc' = [pc EXCEPT ![t] = "created"]
  /\ UNCHANGED <<recorded, summary, spawned, queryVars, cancelled, runningTasks,
                 activeCount, deleteVars, phaseVars>>

-----------------------------------------------------------------------------
(* The background task of a test.                                           *)

Register(t) ==
  /\ runningTasks' = runningTasks \cup {t}
  /\ cancelEvents' = cancelEvents \cup {t}

FaultyUnregister(t) ==
  /\ cancelEvents' = cancelEvents \ {t}
  /\ UNCHANGED runningTasks

Unregister(t) ==
  /\ runningTasks' = runningTasks \ {t}
  /\ cancelEvents' = cancelEvents \ {t}

FaultyAdjustActiveCount(delta) == activeCount' = activeCount + 1

AdjustActiveCount(delta) ==
  activeCount' = IF activeCount + delta > 0 THEN activeCount + delta ELSE 0

\* create_task(_execute_query(...)) for the next work item.
Spawn(t) ==
  /\ spawned[t] < MaxQueries
  /\ spawned' = [spawned EXCEPT ![t] = @ + 1]
  /\ query' = [query EXCEPT ![t][spawned[t] + 1] = "queued"]
  /\ UNCHANGED <<left, sem>>

\* First turn of the task: registration, RUNNING, and the first loop iteration.
Begin(t) ==
  /\ Alive
  /\ pc[t] = "created"
  /\ Register(t)
  /\ status' = [status EXCEPT ![t] = "running"]
  /\ AdjustActiveCount(1)
  /\ Spawn(t)
  /\ pc' = [pc EXCEPT ![t] = "sleep"]
  /\ UNCHANGED <<owner, recorded, summary, cancelled, deleteVars, phaseVars>>

\* AUTONOMOUS_RESOLVE_MODES names no ResolveMode: expand_work_items raises
\* before the try block, and nothing undoes the registration.
BeginRaises(t) ==
  /\ Alive
  /\ t \in Autonomous
  /\ pc[t] = "created"
  /\ Register(t)
  /\ pc' = [pc EXCEPT ![t] = "broken"]
  /\ UNCHANGED <<storeVars, spawned, queryVars, cancelled, activeCount,
                 deleteVars, phaseVars>>

\* The sleep is over and neither the cancel event nor the duration ends the loop.
\* A continuous run may reach its five-minute checkpoint, which suspends the task
\* only when snapshots go to PostgreSQL.
Iterate(t) ==
  /\ Alive
  /\ pc[t] = "sleep"
  /\ t \notin cancelled
  /\ Spawn(t)
  /\ \E next \in {"sleep"} \cup
                 (IF t \in Autonomous /\ DbSnapshots THEN {"checkpoint"} ELSE {}) :
       pc' = [pc EXCEPT ![t] = next]
  /\ UNCHANGED <<storeVars, eventVars, deleteVars, phaseVars>>

CheckpointSaved(t) ==
  /\ Alive
  /\ pc[t] = "checkpoint"
  /\ pc' = [pc EXCEPT ![t] = "sleep"]
  /\ UNCHANGED <<storeVars, spawned, queryVars, eventVars, deleteVars, phaseVars>>

FaultyDuration(t) == t \in cancelled

FaultyContinuous(t) == TRUE

\* Cancelled, or the duration of a run that is not continuous has elapsed.
LoopOver(t) == t \in cancelled \/ t \notin Autonomous

Gather(t) ==
  /\ Alive
  /\ pc[t] = "sleep"
  /\ LoopOver(t)
  /\ Pending(t) # {}
  /\ pc' = [pc EXCEPT ![t] = "gather"]
  /\ UNCHANGED <<storeVars, spawned, queryVars, eventVars, deleteVars, phaseVars>>

\* The last statements of run(): the gauge goes down and the test is forgotten.
Retire(t) ==
  /\ AdjustActiveCount(-1)
  /\ Unregister(t)
  /\ pc' = [pc EXCEPT ![t] = "done"]
  /\ UNCHANGED cancelled

FaultyFinalStatus(t) == IF t \in Autonomous THEN "running" ELSE "completed"

FaultyNothingPending(t) == TRUE

NothingPending(t) == Pending(t) = {}

FinalStatus(t) ==
  IF t \in cancelled THEN "cancelled"
  ELSE IF t \in Autonomous THEN "running" ELSE "completed"

\* Nothing is pending any more: decide the status and run the finally block, up
\* to its end or up to the snapshot of a COMPLETED test.
Finish(t) ==
  /\ Alive
  /\ pc[t] = "gather" \/ (pc[t] = "sleep" /\ LoopOver(t))
  /\ NothingPending(t)
  /\ status' = [status EXCEPT ![t] = FinalStatus(t)]
  /\ summary' = [summary EXCEPT ![t] = recorded[t]]
  /\ IF DbSnapshots /\ FinalStatus(t) = "completed"
       THEN /\ pc' = [pc EXCEPT ![t] = "saving"]
            /\ UNCHANGED eventVars
       ELSE Retire(t)
  /\ UNCHANGED <<owner, recorded, spawned, queryVars, deleteVars, phaseVars>>

SnapshotSaved(t) ==
  /\ Alive
  /\ pc[t] = "saving"
  /\ Retire(t)
  /\ UNCHANGED <<storeVars, spawned, queryVars, deleteVars, phaseVars>>

-----------------------------------------------------------------------------
(* The query tasks.  Tasks start, and get the semaphore, in creation order. *)

AtSemaphore(t, q) ==
  /\ Alive
  /\ query[t][q] = "queued"
  /\ sem[t] > 0
  /\ \A p \in Queries : p < q => query[t][p] # "queued"

QueryTo(t, q, s) == query' = [query EXCEPT ![t][q] = s]

FaultyWorkAllowed(t) == TRUE

WorkAllowed(t) == t \notin cancelled

\* The semaphore is acquired and the cancel event is not set.
StartQuery(t, q) ==
  /\ AtSemaphore(t, q)
  /\ WorkAllowed(t)
  /\ Kinds # {"unparsable"}
  /\ QueryTo(t, q, "primary")
  /\ sem' = [sem EXCEPT ![t] = @ - 1]
  /\ UNCHANGED <<storeVars, runVars, left, eventVars, deleteVars, phaseVars>>

\* The cancel event is set, or rdatatype.from_text raises (an exception that
\* gather or nobody retrieves): the permit is given back and nothing is recorded.
SkipQuery(t, q) ==
  /\ AtSemaphore(t, q)
  /\ ~WorkAllowed(t) \/ "unparsable" \in Kinds
  /\ QueryTo(t, q, "skipped")
  /\ UNCHANGED <<storeVars, runVars, left, sem, eventVars, deleteVars, phaseVars>>

FaultyProbesToMake == Suffixes + 1

\* for domain in snapshot.search
ProbesToMake == Suffixes

\* The first lookup ends, with any outcome, and is recorded; the probes follow.
AnswerThenProbe(t, q) ==
  /\ Alive
  /\ query[t][q] = "primary"
  /\ "search" \in Kinds
  /\ ProbesToMake > 0
  /\ recorded' = [recorded EXCEPT ![t] = @ + 1]
  /\ QueryTo(t, q, "probing")
  /\ left' = [left EXCEPT ![t][q] = ProbesToMake]
  /\ UNCHANGED <<status, owner, summary, runVars, sem, eventVars, deleteVars, phaseVars>>

\* The first lookup of a task without probes ends.
AnswerLast(t, q) ==
  /\ Alive
  /\ query[t][q] = "primary"
  /\ "plain" \in Kinds \/ ProbesToMake = 0
  /\ recorded' = [recorded EXCEPT ![t] = @ + 1]
  /\ QueryTo(t, q, "done")
  /\ sem' = [sem EXCEPT ![t] = @ + 1]
  /\ UNCHANGED <<status, owner, summary, runVars, left, eventVars, deleteVars, phaseVars>>

\* A probe ends and is recorded.  The cancel event is not looked at in between.
AnswerProbe(t, q) ==
  /\ Alive
  /\ query[t][q] = "probing"
  /\ recorded' = [recorded EXCEPT ![t] = @ + 1]
  /\ left' = [left EXCEPT ![t][q] = @ - 1]
  /\ IF left[t][q] > 1
       THEN UNCHANGED <<query, sem>>
       ELSE /\ QueryTo(t, q, "done")
            /\ sem' = [sem EXCEPT ![t] = @ + 1]
  /\ UNCHANGED <<status, owner, summary, runVars, eventVars, deleteVars, phaseVars>>

-----------------------------------------------------------------------------
(* DELETE /tests/{id}.                                                      *)

MayDelete(d, t) ==
  /\ phase = "serving"
  /\ ApiMode
  /\ reply[d] # "waiting"
  /\ status[t] # "absent"
  /\ target' = [target EXCEPT ![d] = t]

DeleteRefused(d, t) ==
  /\ MayDelete(d, t)
  /\ ~Running(t)
  /\ reply' = [reply EXCEPT ![d] = "not_running"]
  /\ UNCHANGED <<storeVars, runVars, queryVars, eventVars, phaseVars>>

\* cancel_test: without an event there is nothing to cancel (409); otherwise the
\* event is set and, when the task is registered, the handler waits for it; a task
\* that an exception ended raises it in the handler at once (500).
DeleteAccepted(d, t) ==
  /\ MayDelete(d, t)
  /\ Running(t)
  /\ cancelled' = IF t \in cancelEvents THEN cancelled \cup {t} ELSE cancelled
  /\ reply' = [reply EXCEPT ![d] = IF t \notin cancelEvents THEN "not_running"
                                   ELSE IF t \notin runningTasks THEN "cancelling"
                                   ELSE IF pc[t] = "broken" THEN "error"
                                   ELSE "waiting"]
  /\ UNCHANGED <<storeVars, runVars, queryVars, cancelEvents, runningTasks,
                 activeCount, phaseVars>>

FaultyPermitsHeld(t) == 0

PermitsHeld(t) == Cardinality(InFlight(t))

\* wait_for runs out and cancels the task.  Its finally block reads the local
\* "status", which nothing has assigned: UnboundLocalError, and the statements
\* after it never run.  A gather hands the cancellation to the pending queries,
\* a sleep leaves them running.
CancelTimesOut(d) ==
  LET t == target[d] IN
  /\ Alive
  /\ CancelMayTimeOut
  /\ reply[d] = "waiting"
  /\ pc[t] \in {"sleep", "gather"}
  /\ pc' = [pc EXCEPT ![t] = "broken"]
  /\ IF pc[t] = "gather"
       THEN /\ query' = [query EXCEPT ![t] = [q \in Queries |->
                           IF q \in Pending(t) THEN "dropped" ELSE query[t][q]]]
            /\ sem' = [sem EXCEPT ![t] = @ + PermitsHeld(t)]
       ELSE UNCHANGED <<query, sem>>
  /\ UNCHANGED <<storeVars, spawned, left, eventVars, deleteVars, phaseVars>>

\* The task has ended: its exception becomes a 500, except for a second DELETE
\* whose own time runs out in that very turn of the loop.
DeleteReturns(d) ==
  /\ Alive
  /\ reply[d] = "waiting"
  /\ TaskOver(target[d])
  /\ \E r \in {"cancelling", "error"} :
       /\ r = "error" => pc[target[d]] = "broken"
       /\ r = "cancelling" => pc[target[d]] = "done" \/ CancelMayTimeOut
       /\ reply' = [reply EXCEPT ![d] = r]
  /\ UNCHANGED <<storeVars, runVars, queryVars, eventVars, target, phaseVars>>

-----------------------------------------------------------------------------
(* Shutdown.  The server has answered its open requests first; a task that  *)
(* was created has had its first turn long before.                          *)

FaultyTasksToAwait == {}

TasksToAwait == runningTasks

BeginShutdown ==
  /\ phase = "serving"
  /\ \A d \in Deleters : reply[d] # "waiting"
  /\ \A t \in Tests : pc[t] # "created"
  /\ cancelled' = cancelled \cup cancelEvents
  /\ waitedFor' = TasksToAwait
  /\ phase' = "draining"
  /\ UNCHANGED <<storeVars, runVars, queryVars, cancelEvents, runningTasks,
                 activeCount, deleteVars>>

\* asyncio.wait returns when all tasks are done or the time is over; the pool is
\* closed and the process ends.
EndShutdown ==
  /\ phase = "draining"
  /\ phase' = IF \A t \in waitedFor : TaskOver(t)
              THEN "drained" ELSE "timed_out"
  /\ UNCHANGED <<storeVars, runVars, queryVars, eventVars, deleteVars, waitedFor>>

-----------------------------------------------------------------------------

TaskStep(t) ==
  \/ Begin(t) \/ BeginRaises(t) \/ Iterate(t) \/ CheckpointSaved(t)
  \/ Gather(t) \/ Finish(t) \/ SnapshotSaved(t)

QueryStep(t, q) ==
  \/ StartQuery(t, q) \/ SkipQuery(t, q)
  \/ AnswerThenProbe(t, q) \/ AnswerLast(t, q) \/ AnswerProbe(t, q)

Next ==
  \/ \E t \in Tests, c \in Creds : CreateTest(t, c)
  \/ \E t \in Tests : TaskStep(t)
  \/ \E t \in Tests, q \in Queries : QueryStep(t, q)
  \/ \E d \in Deleters, t \in Tests : DeleteRefused(d, t) \/ DeleteAccepted(d, t)
  \/ \E d \in Deleters : CancelTimesOut(d) \/ DeleteReturns(d)
  \/ BeginShutdown
  \/ EndShutdown

Spec == Init /\ [][Next]_vars

\* The event loop runs every ready task, timers fire and a lookup ends within its
\* lifetime; a shutdown that began ends, its wait has a time-out.  Clients, the
\* time-out of a DELETE and the beginning of a shutdown are not forced to happen.
Fairness ==
  /\ \A t \in Tests : WF_vars(TaskStep(t))
  /\ \A t \in Tests, q \in Queries : WF_vars(QueryStep(t, q))
  /\ \A d \in Deleters : WF_vars(DeleteReturns(d))
  /\ WF_vars(EndShutdown)

FairSpec == Spec /\ Fairness

-----------------------------------------------------------------------------
(* Properties.                                                              *)

\* The store, the task and the registries stay within their types.
TypeOK ==
  /\ status \in [Tests -> Statuses]
  /\ owner \in [Tests -> Creds \cup {NoCred}]
  /\ recorded \in [Tests -> Nat]
  /\ summary \in [Tests -> Nat]
  /\ pc \in [Tests -> TaskStates]
  /\ spawned \in [Tests -> 0..MaxQueries]
  /\ query \in [Tests -> [Queries -> QueryStates]]
  /\ left \in [Tests -> [Queries -> 0..Suffixes]]
  /\ sem \in [Tests -> 0..Concurrency]
  /\ cancelled \subseteq Tests
  /\ cancelEvents \subseteq Tests
  /\ runningTasks \subseteq Tests
  /\ activeCount \in Nat
  /\ target \in [Deleters -> Tests \cup {NoTest}]
  /\ reply \in [Deleters -> Replies]
  /\ phase \in Phases
  /\ waitedFor \subseteq Tests

\* Every permit of a run's semaphore is either free or held by one query task
\* that is in a lookup: no path, not even a cancellation in the middle of the
\* search probes, loses or duplicates a permit.
SemaphoreConserved ==
  \A t \in Tests : sem[t] + Cardinality(InFlight(t)) = Concurrency

\* A test that shows COMPLETED or CANCELLED has no query task left that could
\* still record something, and its summary counts every recorded attempt.
EndedMeansQuiet ==
  \A t \in Tests : status[t] \in {"completed", "cancelled"} =>
    /\ Pending(t) = {}
    /\ summary[t] = recorded[t]

\* A COMPLETED test was never cut short: each query task it spawned made its lookup
\* and all the probes that follow it.
CompletedMeansAllAnswered ==
  \A t \in Tests : status[t] = "completed" =>
    \A q \in 1..spawned[t] : query[t][q] = "done"

\* DELETE always finds what it needs to cancel a RUNNING test, so the reply
\* "could not cancel test" of app/api.py is never given; and nothing that has
\* ended normally stays registered.
RegistryTracksRuns ==
  \A t \in Tests :
    /\ Running(t) => t \in cancelEvents \cap runningTasks
    /\ t \in cancelEvents \cup runningTasks => pc[t] \notin {"none", "done"}

\* dns_debug_active_tests counts the RUNNING tests and the COMPLETED ones whose
\* snapshot is being written; in particular the clamp at zero never hides an
\* unbalanced decrement.
GaugeCountsRuns ==
  activeCount = Cardinality({t \in Tests : Running(t) \/ pc[t] = "saving"})

\* A DELETE answered "cancelling" is not contradicted later: the test is CANCELLED,
\* or its task was killed by a time-out of a concurrent DELETE, never COMPLETED.
CancellingIsHonoured ==
  \A d \in Deleters : reply[d] = "cancelling" =>
    status[target[d]] = "cancelled" \/ pc[target[d]] = "broken"

\* After the cancel event is set no further lookup starts: queries that wait for
\* a permit give up, and the loop spawns no more.
NoWorkAfterCancel ==
  [][\A t \in cancelled :
       /\ spawned'[t] = spawned[t]
       /\ \A q \in Queries : query'[t][q] = "primary" => query[t][q] = "primary"]_vars

\* The detailed life of a test implements the promise of TestRuns.
TestRunsPromise == INSTANCE TestRuns WITH
  requested <- cancelled, attempts <- recorded, shown <- summary
ImplementsTestRuns == TestRunsPromise!Spec

\* "max concurrent DNS runs reached" (app/security/abuse.py:23): no more tests are
\* RUNNING than DNS_MAX_CONCURRENT_RUNS.
RunsCapped == Cardinality(RunningTests) <= MaxConcurrentRuns

\* "max active jobs per credential reached" (app/security/abuse.py:31).
JobsCapped ==
  \A c \in Creds : Cardinality({t \in RunningTests : owner[t] = c}) <= MaxActiveJobs

\* The autonomous test runs until the process is told to stop.
AutonomousRunsUntilShutdown ==
  \A t \in Autonomous : pc[t] = "done" => phase # "serving" /\ status[t] = "cancelled"

\* If the shutdown did not run out of time, no test task is left in the middle of
\* its loop, its gather or its snapshot when the connection pool is closed.
DrainedMeansEnded ==
  phase = "drained" => \A t \in Tests : pc[t] \in {"none", "done", "broken"}

\* Every run of limited duration ends, unless the process ends first.
EveryRunEnds ==
  \A t \in Tests \ Autonomous :
    pc[t] = "created" ~> (pc[t] \in {"done", "broken"} \/ phase = "timed_out")

\* DELETE /tests/{id} "Cancel test" (AGENT.md:144): a RUNNING test whose cancel event
\* is set becomes CANCELLED, unless the process ends first.
CancelTakesEffect ==
  \A t \in Tests :
    (t \in cancelled /\ Running(t)) ~> (status[t] = "cancelled" \/ ~Alive)

\* The same as far as the code keeps it: the run must not outlive the wait of its DELETE.
CancelEndsRun ==
  \A t \in Tests :
    (t \in cancelled /\ Running(t)) ~> (status[t] = "cancelled" \/ pc[t] = "broken" \/ ~Alive)

\* The handler of DELETE does not wait for ever, whatever the queries do.
DeleteIsAnswered ==
  \A d \in Deleters : reply[d] = "waiting" ~> reply[d] # "waiting"

=============================================================================
