--------------------------------- MODULE Mtr ---------------------------------
(***************************************************************************)
(* MTR runs (app/mtr_runner.py, app/mtr_store.py, POST /mtr in app/api.py):*)
(* a periodic runner and the runs clients trigger compete for one          *)
(* asyncio.Lock; run records live in MtrStore.                             *)
(*                                                                         *)
(* An action is the code between two real suspension points: the lock, the *)
(* subprocess, its wait after a kill, the PostgreSQL write, the interval.  *)
(* asyncio.Lock is modelled as it is: release() clears the flag and wakes  *)
(* the first waiter, which sets the flag only in its own turn; a newcomer  *)
(* takes the lock at once only when nobody waits.                          *)
(*                                                                         *)
(* The definitions named Faulty... are not part of the model: each is a    *)
(* plausible slip in the definition after it, and breaks a property below. *)
(***************************************************************************)
EXTENDS Naturals, Sequences

CONSTANTS
  Requests,        \* POST /mtr requests that may be accepted, one run each
  Periodic,        \* the periodic runner (an actor)
  MtrEnabled,      \* MTR_ENABLED: the periodic runner is started
  DbEnabled,       \* persist_mtr_run awaits PostgreSQL
  MaxHistory,      \* MTR_MAX_HISTORY
  MaxRuns          \* bound: run records ever created

ASSUME ConstantsAssumption ==
  /\ Periodic \notin Requests
  /\ MtrEnabled \in BOOLEAN
  /\ DbEnabled \in BOOLEAN
  /\ MaxHistory \in Nat \ {0}
  /\ MaxRuns \in Nat \ {0}

Actors == Requests \cup {Periodic}
Runs == 1..MaxRuns

VARIABLES
  stage,     \* where the coroutine of an actor is suspended
  runOf,     \* the run record of an actor; 0 before it has one
  locked,    \* _run_lock._locked
  waiters,   \* _run_lock._waiters, in order
  created,   \* number of run records: ids are given in creation order
  status,    \* MtrRunResult.status
  history,   \* MtrStore._runs, oldest first
  latest,    \* MtrStore._latest; 0 for None
  phase      \* lifespan: "serving", "stopping" (in cancel_mtr), "stopped"

lockVars  == <<locked, waiters>>
storeVars == <<created, status, history, latest>>
vars == <<stage, runOf, lockVars, storeVars, phase>>

\* "spawned": the task is scheduled.  "waiting": in the queue of the lock.
\* "running": in create_subprocess_exec or communicate.  "killing": in proc.wait
\* after the kill.  "persisting": in persist_mtr_run.  "pausing": the periodic
\* runner waits for its interval or its cancel event.
Stages == {"idle", "spawned", "waiting", "running", "killing", "persisting",
           "pausing", "done"}

RunStatuses == {"none", "running", "completed", "failed", "timeout"}

Holding(a) == stage[a] \in {"running", "killing", "persisting"}
Unfinished == {r \in Runs : status[r] = "running"}

Init ==
  /\ stage = [a \in Actors |-> IF a = Periodic /\ MtrEnabled THEN "spawned" ELSE "idle"]
  /\ runOf = [a \in Actors |-> 0]
  /\ locked = FALSE
  /\ waiters = <<>>
  /\ created = 0
  /\ status = [r \in Runs |-> "none"]
  /\ history = <<>>
  /\ latest = 0
  /\ phase = "serving"

-----------------------------------------------------------------------------
(* MtrStore.                                                                *)

\* create_run: the new record is RUNNING and the latest one.
CreateRun(a) ==
  /\ created < MaxRuns
  /\ created' = created + 1
  /\ status' = [status EXCEPT ![created + 1] = "running"]
  /\ latest' = created + 1
  /\ runOf' = [runOf EXCEPT ![a] = created + 1]
  /\ UNCHANGED history

FaultyPush(h, r) == Append(h, r)

\* deque(maxlen=max_history).append
Push(h, r) == IF Len(h) < MaxHistory THEN Append(h, r) ELSE Append(Tail(h), r)

FaultyLatest(r) == latest

LatestAfter(r) == r

\* finalize_run: whatever ran becomes the latest run and the newest of the history.
FinalizeRun(r, s) ==
  /\ status' = [status EXCEPT ![r] = s]
  /\ history' = Push(history, r)
  /\ latest' = LatestAfter(r)
  /\ UNCHANGED created

-----------------------------------------------------------------------------
(* The lock.                                                                *)

FaultyMayTake == ~locked

MayTake == ~locked /\ waiters = <<>>

FaultyRelease == UNCHANGED locked

Release == locked' = FALSE

\* Inside the lock: a client's run has its record, the periodic runner creates one.
EnterRun(a) ==
  /\ locked' = TRUE
  /\ stage' = [stage EXCEPT ![a] = "running"]
  /\ IF a = Periodic
       THEN CreateRun(a)
       ELSE UNCHANGED <<runOf, storeVars>>

\* async with _run_lock, in the turn in which the coroutine gets there.
Acquire(a) ==
  IF MayTake
    THEN EnterRun(a) /\ UNCHANGED waiters
    ELSE /\ waiters' = Append(waiters, a)
         /\ stage' = [stage EXCEPT ![a] = "waiting"]
         /\ UNCHANGED <<runOf, locked, storeVars>>

\* The first waiter was woken by release(); its turn comes.
Granted(a) ==
  /\ phase # "stopped"
  /\ stage[a] = "waiting"
  /\ ~locked
  /\ waiters # <<>>
  /\ Head(waiters) = a
  /\ waiters' = Tail(waiters)
  /\ EnterRun(a)
  /\ UNCHANGED phase

-----------------------------------------------------------------------------
(* POST /mtr: refused with 409 when the lock is held; otherwise the record  *)
(* is created and a task is scheduled that will take the lock.  (The bound  *)
(* MaxRuns keeps a record for a periodic runner that queues for the lock.)  *)

\* The periodic runner has its first turn before the first request is served.
Accepts == ~locked /\ stage[Periodic] # "spawned"

TriggerMtr(a) ==
  /\ phase = "serving"
  /\ stage[a] = "idle"
  /\ Accepts
  /\ stage[Periodic] = "waiting" => created + 1 < MaxRuns
  /\ CreateRun(a)
  /\ stage' = [stage EXCEPT ![a] = "spawned"]
  /\ UNCHANGED <<lockVars, phase>>

\* Tasks have their first turn in the order in which they were created.
FirstTurn(a) ==
  /\ phase # "stopped"
  /\ stage[a] = "spawned"
  /\ \A b \in Actors : stage[b] = "spawned" => runOf[a] <= runOf[b]
  /\ Acquire(a)
  /\ UNCHANGED phase

-----------------------------------------------------------------------------
(* run_mtr, inside the lock.                                                *)

\* The code after run_mtr: a client's task ends; the periodic runner looks at its
\* cancel event and pauses.
AfterRun(a) ==
  IF a # Periodic THEN "done"
  ELSE IF phase = "serving" THEN "pausing" ELSE "done"

\* finalize_run, then persist_mtr_run, then the end of the async with.
Finalize(a, s) ==
  /\ FinalizeRun(runOf[a], s)
  /\ IF DbEnabled
       THEN /\ stage' = [stage EXCEPT ![a] = "persisting"]
            /\ UNCHANGED lockVars
       ELSE /\ stage' = [stage EXCEPT ![a] = AfterRun(a)]
            /\ Release
            /\ UNCHANGED waiters
  /\ UNCHANGED <<runOf, phase>>

FaultyExitStatuses == {"completed", "failed", "killed"}

\* mtr ends: exit code 0, another exit code, no binary, or any other exception.
ExitStatuses == {"completed", "failed"}

MtrExits(a) ==
  /\ phase # "stopped"
  /\ stage[a] = "running"
  /\ \E s \in ExitStatuses : Finalize(a, s)

MtrTimesOut(a) ==
  /\ phase # "stopped"
  /\ stage[a] = "running"
  /\ stage' = [stage EXCEPT ![a] = "killing"]
  /\ UNCHANGED <<runOf, lockVars, storeVars, phase>>

KilledMtrReaped(a) ==
  /\ phase # "stopped"
  /\ stage[a] = "killing"
  /\ Finalize(a, "timeout")

Persisted(a) ==
  /\ phase # "stopped"
  /\ stage[a] = "persisting"
  /\ stage' = [stage EXCEPT ![a] = AfterRun(a)]
  /\ Release
  /\ UNCHANGED <<runOf, waiters, storeVars, phase>>

-----------------------------------------------------------------------------
(* The periodic runner between runs, and cancel_mtr at shutdown.            *)

IntervalOver ==
  /\ phase = "serving"
  /\ stage[Periodic] = "pausing"
  /\ created < MaxRuns
  /\ Acquire(Periodic)
  /\ UNCHANGED phase

BeginShutdown ==
  /\ phase = "serving"
  /\ stage[Periodic] # "spawned"
  /\ phase' = "stopping"
  /\ UNCHANGED <<stage, runOf, lockVars, storeVars>>

PauseInterrupted ==
  /\ phase = "stopping"
  /\ stage[Periodic] = "pausing"
  /\ stage' = [stage EXCEPT ![Periodic] = "done"]
  /\ UNCHANGED <<runOf, lockVars, storeVars, phase>>

FaultyWaitersWithout(a) == waiters

\* deque.remove: the first entry of a goes, the later ones move up.
WaitersWithout(a) ==
  LET i == CHOOSE k \in DOMAIN waiters : waiters[k] = a
  IN  [j \in 1..(Len(waiters) - 1) |-> IF j < i THEN waiters[j] ELSE waiters[j + 1]]

\* wait_for(_periodic_task) runs out and cancels the task: it leaves the queue of the
\* lock, or the run, whose record stays RUNNING unless it was finalized.
PeriodicCancelled ==
  /\ phase = "stopping"
  /\ stage[Periodic] = "waiting" \/ Holding(Periodic)
  /\ stage' = [stage EXCEPT ![Periodic] = "done"]
  /\ IF stage[Periodic] = "waiting"
       THEN /\ waiters' = WaitersWithout(Periodic)
            /\ UNCHANGED locked
       ELSE /\ Release
            /\ UNCHANGED waiters
  /\ UNCHANGED <<runOf, storeVars, phase>>

\* The process ends; runs that clients triggered are not waited for.
EndShutdown ==
  /\ phase = "stopping"
  /\ stage[Periodic] \in {"idle", "done"}
  /\ phase' = "stopped"
  /\ UNCHANGED <<stage, runOf, lockVars, storeVars>>

-----------------------------------------------------------------------------

RunStep(a) ==
  \/ FirstTurn(a) \/ Granted(a) \/ MtrExits(a) \/ MtrTimesOut(a)
  \/ KilledMtrReaped(a) \/ Persisted(a)

Next ==
  \/ \E a \in Requests : TriggerMtr(a)
  \/ \E a \in Actors : RunStep(a)
  \/ IntervalOver
  \/ BeginShutdown \/ PauseInterrupted \/ PeriodicCancelled \/ EndShutdown

Spec == Init /\ [][Next]_vars

\* Ready tasks get their turn; mtr ends or its time-out fires; PostgreSQL answers.
Fairness == \A a \in Actors : WF_vars(RunStep(a))

FairSpec == Spec /\ Fairness

-----------------------------------------------------------------------------
(* Properties.                                                              *)

\* The lock, the store and the actors stay within their types.
TypeOK ==
  /\ stage \in [Actors -> Stages]
  /\ runOf \in [Actors -> 0..MaxRuns]
  /\ locked \in BOOLEAN
  /\ waiters \in Seq(Actors)
  /\ created \in 0..MaxRuns
  /\ status \in [Runs -> RunStatuses]
  /\ history \in Seq(Runs)
  /\ latest \in 0..MaxRuns
  /\ phase \in {"serving", "stopping", "stopped"}

\* At most one coroutine is executing mtr or recording a run, and the flag that
\* POST /mtr looks at is up exactly then.
MutualExclusion ==
  /\ \A a, b \in Actors : Holding(a) /\ Holding(b) => a = b
  /\ locked <=> \E a \in Actors : Holding(a)

\* The queue of the lock holds each suspended coroutine once and no other.
QueueIsExact ==
  /\ \A a \in Actors : stage[a] = "waiting" <=> \E i \in DOMAIN waiters : waiters[i] = a
  /\ \A i, j \in DOMAIN waiters : waiters[i] = waiters[j] => i = j

\* GET /mtr/runs never shows more than MTR_MAX_HISTORY runs, shows only runs that
\* ended, and shows none of them twice.
HistoryIsSound ==
  /\ Len(history) <= MaxHistory
  /\ \A i \in DOMAIN history : status[history[i]] \in {"completed", "failed", "timeout"}
  /\ \A i, j \in DOMAIN history : history[i] = history[j] => i = j

\* Runs that clients triggered are executed in the order in which they were accepted,
\* also when several were accepted at once and the periodic runner got in between.
ClientRunsInOrder ==
  \A a, b \in Requests :
    (runOf[a] # 0 /\ runOf[a] < runOf[b] /\ stage[b] \notin {"spawned", "waiting"})
      => stage[a] \in {"persisting", "done"}

\* GET /mtr: once every accepted run has ended, the latest run is the one that ended
\* last, although a run that was accepted early may take "latest" back meanwhile.
LatestWhenIdle ==
  Unfinished = {} /\ history # <<>> => latest = history[Len(history)]

\* "if busy, POST /mtr returns 409" (README.md:129): never two runs accepted and not
\* ended.
OneRunAccepted == \A r, s \in Unfinished : r = s

\* A run that a client triggered ends, also when others queue for the lock and mtr
\* hangs, unless the process ends first.
ClientRunEnds ==
  \A a \in Requests : stage[a] = "spawned" ~> (stage[a] = "done" \/ phase = "stopped")

=============================================================================
