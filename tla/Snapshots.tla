------------------------------- MODULE Snapshots -------------------------------
(***************************************************************************)
(* Snapshots of DNS tests and how they survive: saving a checkpoint or a   *)
(* completed test (app/snapshot_store.py), JSON files or PostgreSQL rows   *)
(* (app/db/repository.py), retention (app/retention.py, app/db/cleanup.py),*)
(* the import of files at start-up (app/db/import_files.py), the pool      *)
(* (app/db/connection.py), start and stop of the process (app/main.py).    *)
(*                                                                         *)
(* File operations do not suspend, so saving to a file is one action, but  *)
(* the process may die, or the disk be full, in the middle of it. With     *)
(* PostgreSQL each panel of a snapshot awaits a query and other tasks run  *)
(* in between, and runs that outlive the wait of a shutdown go on while    *)
(* the pool is closing. A tick of the clock is at least a checkpoint       *)
(* interval. Settings other than the backend have their defaults:          *)
(* snapshots, cleanup and import are enabled.                              *)
(*                                                                         *)
(* The definitions named Faulty... are not part of the model: each is a    *)
(* plausible slip in the definition after it, and breaks a property below. *)
(***************************************************************************)
EXTENDS Integers, FiniteSets, Sequences

CONSTANTS
  Tests,       \* ids of tests
  Autonomous,  \* those the process starts by itself; they keep their id and never complete
  Retention,   \* DNS_DEBUG_DB_RETENTION_DAYS, in ticks
  Limit,       \* SNAPSHOT_RETENTION_COUNT
  Panels,      \* panels of a snapshot
  MaxQueries,  \* bound: queries of a test in one life of the process
  MaxFaults,   \* bound: failures of disk and database
  MaxTime      \* bound: the clock

ASSUME ConstantsAssumption ==
  /\ IsFiniteSet(Tests) /\ Autonomous \subseteq Tests
  /\ Retention \in Nat \ {0} /\ Limit \in Nat \ {0} /\ Panels \in Nat \ {0}
  /\ {MaxQueries, MaxFaults, MaxTime} \subseteq Nat

VARIABLES
  now,       \* the UTC clock
  phase,     \* of the process
  backend,   \* DNS_DEBUG_DB_ENABLED, as of the last start
  pool,      \* _pool is not None
  stage,     \* stage[t]: progress of the run of t
  since,     \* since[t]: last_snapshot_checkpoint
  pending,   \* pending[t]: queries of t under way
  recorded,  \* recorded[t]: attempts of t in the statistics store
  draft,     \* draft[t]: the snapshot of t that is being made
  disk,      \* files in SNAPSHOT_DIR
  writes,    \* number of writes so far: the mtime of the last one
  rows,      \* historical_snapshots
  toImport,  \* files that import_file_snapshots has still to import
  faults,    \* failures so far
  saved,     \* snapshots written, or said to be: only the properties look at it
  late       \* those in the making when a shutdown stopped waiting: likewise

processVars == <<phase, backend, pool>>
testVars == <<stage, since, pending, recorded, draft>>
historyVars == <<saved, late>>
vars == <<now, processVars, testVars, disk, writes, rows, toImport, faults, historyVars>>

Clock == 0..MaxTime
Backends == {"file", "db"}
Up == phase \in {"serving", "stopping", "closing"}

\* at: the second in the snapshot's id.  whole: valid JSON.
Files == [test : Tests, at : Clock, whole : BOOLEAN, mtime : Nat]
Rows == [test : Tests, at : Clock, created : Clock]
\* mtime 0: in PostgreSQL.
Saves == [test : Tests, at : Clock, created : Clock, mtime : Nat]
Drafts == [at : Clock, created : Clock, parts : Seq(Nat)]
NoDraft == [at |-> 0, created |-> 0, parts |-> <<>>]

SameId(x, y) == x.test = y.test /\ x.at = y.at

FaultyPut(set, x) == set \cup {x}

\* The file or row x takes the place of one with the same id.
Put(set, x) == {y \in set : ~SameId(x, y)} \cup {x}

-----------------------------------------------------------------------------
(* Retention.                                                               *)

\* Not is_within_retention.
Expired(created) == created < now - Retention

FileExpired(f) == Expired(f.at)
RowExpired(r) == Expired(r.created)

\* What list_snapshots reads from the files; others are skipped.
Listed(files) == {f \in files : f.whole /\ ~FileExpired(f)}

FaultyNewer(f, files) == {g \in Listed(files) : g.mtime < f.mtime}

Newer(f, files) == {g \in Listed(files) : g.mtime > f.mtime}

\* What prune removes: expired files, then those beyond the Limit newest.
Due(files) == {f \in files : f.whole /\ (FileExpired(f) \/ Cardinality(Newer(f, files)) >= Limit)}

Pruned(files) == files \ Due(files)

FaultyLiveRows == rows

\* run_retention_cleanup.
LiveRows == {r \in rows : ~RowExpired(r)}

-----------------------------------------------------------------------------
(* The process.  A start resets everything in memory; a test created by a   *)
(* client does not come back.                                               *)

Init ==
  /\ now = 0
  /\ phase = "down"
  /\ backend \in Backends
  /\ pool = FALSE
  /\ stage = [t \in Tests |-> "absent"]
  /\ since = [t \in Tests |-> 0]
  /\ pending = [t \in Tests |-> 0]
  /\ recorded = [t \in Tests |-> 0]
  /\ draft = [t \in Tests |-> NoDraft]
  /\ disk = {} /\ writes = 0 /\ rows = {} /\ toImport = {}
  /\ faults = 0
  /\ saved = {} /\ late = {}

\* Everything in memory is gone.
GoDown ==
  /\ phase' = "down" /\ pool' = FALSE
  /\ stage' = [t \in Tests |->
       IF t \in Autonomous \/ stage[t] = "absent" THEN "absent" ELSE "over"]
  /\ since' = [t \in Tests |-> 0]
  /\ pending' = [t \in Tests |-> 0]
  /\ recorded' = [t \in Tests |-> 0]
  /\ draft' = [t \in Tests |-> NoDraft]
  /\ toImport' = {}
  /\ UNCHANGED <<now, backend, late>>

\* _start_background_runners, then the first request.
Serve ==
  /\ phase' = "serving"
  /\ stage' = [t \in Tests |-> IF t \in Autonomous THEN "running" ELSE stage[t]]
  /\ since' = [t \in Tests |-> IF t \in Autonomous THEN now ELSE since[t]]
  /\ UNCHANGED <<now, pending, recorded, draft, writes>>

StartWithFiles ==
  /\ phase = "down"
  /\ backend' = "file" /\ pool' = FALSE
  /\ disk' = Pruned(disk)
  /\ Serve
  /\ UNCHANGED <<rows, toImport, faults, historyVars>>

\* init_db_pool succeeds, run_migrations and the glob of import_file_snapshots follow.
StartWithDb ==
  /\ phase = "down"
  /\ phase' = "importing" /\ backend' = "db" /\ pool' = TRUE
  /\ toImport' = {f \in disk : f.whole}
  /\ UNCHANGED <<now, testVars, disk, writes, rows, faults, historyVars>>

Fault == faults < MaxFaults /\ faults' = faults + 1

\* The pool stays None until the next start; import and cleanup return at once.
ConnectFails ==
  /\ phase = "down"
  /\ Fault
  /\ backend' = "db" /\ pool' = FALSE
  /\ Serve
  /\ UNCHANGED <<disk, rows, toImport, historyVars>>

FaultyRowOf(f) == [test |-> f.test, at |-> f.at, created |-> now]

\* created_at is taken from the file.
RowOf(f) == [test |-> f.test, at |-> f.at, created |-> f.at]

ImportFile(f) ==
  /\ phase = "importing" /\ f \in toImport
  /\ rows' = Put(rows, RowOf(f))
  /\ toImport' = toImport \ {f}
  /\ UNCHANGED <<now, processVars, testVars, disk, writes, faults, historyVars>>

\* persist_snapshot logs a failure and goes on.
ImportFails(f) ==
  /\ phase = "importing" /\ f \in toImport
  /\ Fault
  /\ toImport' = toImport \ {f}
  /\ UNCHANGED <<now, processVars, testVars, disk, writes, rows, historyVars>>

StartUpCleanup ==
  /\ phase = "importing" /\ toImport = {}
  /\ \/ rows' = LiveRows /\ UNCHANGED faults
     \/ Fault /\ UNCHANGED rows
  /\ Serve
  /\ UNCHANGED <<backend, pool, disk, toImport, historyVars>>

Crash ==
  /\ phase # "down"
  /\ GoDown
  /\ UNCHANGED <<disk, writes, rows, faults, saved>>

\* A start or the cleanup loop dies in prune, when some of the files are removed.
CrashInPrune ==
  /\ \/ phase = "down"
     \/ phase = "serving" /\ backend = "file"
  /\ \E S \in SUBSET Due(disk) : disk' = disk \ S
  /\ GoDown
  /\ UNCHANGED <<writes, rows, faults, saved>>

\* periodic_cleanup_loop.  A round that fails changes nothing.
Cleanup ==
  /\ phase = "serving"
  /\ \/ backend = "file" /\ disk' = Pruned(disk) /\ UNCHANGED rows
     \/ backend = "db" /\ pool /\ rows' = LiveRows /\ UNCHANGED disk
  /\ UNCHANGED <<now, processVars, testVars, writes, toImport, faults, historyVars>>

\* The cleanup loop ends, all tests are cancelled, and their runs are waited for.
BeginShutdown ==
  /\ phase = "serving"
  /\ phase' = "stopping"
  /\ UNCHANGED <<now, backend, pool, testVars, disk, writes, rows, toImport, faults,
                 historyVars>>

Saving(t) == stage[t] \in {"saving", "writing"}

InTheMaking == {[test |-> t, at |-> draft[t].at] : t \in {u \in Tests : Saving(u)}}

FaultyRunsEnded == \A t \in Tests : stage[t] # "running"

\* A run counts as one until it has saved.
RunsEnded == \A t \in Tests : stage[t] # "running" /\ ~Saving(t)

\* The wait is over, for the runs or for its time-out, and close_db_pool calls _pool.close().
ClosePool ==
  /\ phase = "stopping" /\ pool
  /\ phase' = "closing"
  /\ \/ RunsEnded /\ UNCHANGED late
     \/ ~RunsEnded /\ late' = late \cup InTheMaking
  /\ UNCHANGED <<now, backend, pool, testVars, disk, writes, rows, toImport, faults, saved>>

\* _pool.close() has waited for the connections that are in use; without a pool, and with
\* files, the process exits after the wait.
EndShutdown ==
  /\ \/ phase = "stopping" /\ ~pool
     \/ phase = "closing" /\ \A t \in Tests : stage[t] # "writing"
  /\ GoDown
  /\ UNCHANGED <<disk, writes, rows, faults, saved>>

Tick ==
  /\ now < MaxTime
  /\ now' = now + 1
  /\ UNCHANGED <<processVars, testVars, disk, writes, rows, toImport, faults, historyVars>>

-----------------------------------------------------------------------------
(* Tests.  Their life is the subject of DnsTestLifecycle; here they record, *)
(* and an autonomous one makes a checkpoint whenever one is due.            *)

CreateTest(t) ==
  /\ phase = "serving" /\ t \notin Autonomous /\ stage[t] = "absent"
  /\ stage' = [stage EXCEPT ![t] = "running"]
  /\ UNCHANGED <<now, processVars, since, pending, recorded, draft, disk, writes, rows,
                 toImport, faults, historyVars>>

SpawnQuery(t) ==
  /\ phase = "serving" /\ stage[t] = "running"
  /\ pending[t] + recorded[t] < MaxQueries
  /\ pending' = [pending EXCEPT ![t] = @ + 1]
  /\ UNCHANGED <<now, processVars, stage, since, recorded, draft, disk, writes, rows,
                 toImport, faults, historyVars>>

AnswerQuery(t) ==
  /\ Up /\ pending[t] > 0
  /\ pending' = [pending EXCEPT ![t] = @ - 1]
  /\ recorded' = [recorded EXCEPT ![t] = @ + 1]
  /\ UNCHANGED <<now, processVars, stage, since, draft, disk, writes, rows, toImport,
                 faults, historyVars>>

\* A cancelled test waits for its queries and saves no snapshot.
EndCancelled(t) ==
  /\ \/ phase = "serving" /\ t \notin Autonomous
     \/ phase \in {"stopping", "closing"}
  /\ stage[t] = "running" /\ pending[t] = 0
  /\ stage' = [stage EXCEPT ![t] = "over"]
  /\ UNCHANGED <<now, processVars, since, pending, recorded, draft, disk, writes, rows,
                 toImport, faults, historyVars>>

-----------------------------------------------------------------------------
(* save_test_snapshot.                                                      *)

FaultyMaySave(t) ==
  /\ phase = "serving" /\ stage[t] = "running"
  /\ t \in Autonomous => since[t] < now

\* A checkpoint is due, or the test completes: its loop is over and gather returned.
MaySave(t) ==
  /\ phase = "serving" /\ stage[t] = "running"
  /\ IF t \in Autonomous THEN since[t] < now ELSE pending[t] = 0

\* A failed checkpoint is made again in the next round of the loop.
EndSave(t, failed) ==
  /\ stage' = [stage EXCEPT ![t] = IF t \in Autonomous THEN "running" ELSE "over"]
  /\ since' = IF t \in Autonomous /\ ~failed THEN [since EXCEPT ![t] = now] ELSE since
  /\ draft' = [draft EXCEPT ![t] = NoDraft]
  /\ UNCHANGED <<now, processVars, pending, recorded, toImport, late>>

NewFile(t, whole) == [test |-> t, at |-> now, whole |-> whole, mtime |-> writes + 1]
NewSave(t) == [test |-> t, at |-> now, created |-> now, mtime |-> writes + 1]

SaveToFile(t) ==
  /\ backend = "file" /\ MaySave(t)
  /\ disk' = Pruned(Put(disk, NewFile(t, TRUE)))
  /\ writes' = writes + 1
  /\ saved' = saved \cup {NewSave(t)}
  /\ EndSave(t, FALSE)
  /\ UNCHANGED <<rows, faults>>

\* The disk is full: write_text raises when it has truncated the file.
SaveToFileFails(t) ==
  /\ backend = "file" /\ MaySave(t)
  /\ Fault
  /\ disk' = Put(disk, NewFile(t, FALSE))
  /\ writes' = writes + 1
  /\ EndSave(t, TRUE)
  /\ UNCHANGED <<rows, saved>>

\* The process dies in write_text, or in the prune that follows.
CrashInSave(t) ==
  /\ backend = "file" /\ MaySave(t)
  /\ \/ disk' = Put(disk, NewFile(t, FALSE)) /\ UNCHANGED saved
     \/ /\ LET files == Put(disk, NewFile(t, TRUE)) IN
          \E S \in SUBSET Due(files) : disk' = files \ S
        /\ saved' = saved \cup {NewSave(t)}
  /\ writes' = writes + 1
  /\ GoDown
  /\ UNCHANGED <<rows, faults>>

\* With no pool nothing suspends and nothing is written, and yet it is logged as saved.
SaveDropped(t) ==
  /\ backend = "db" /\ ~pool /\ MaySave(t)
  /\ saved' = saved \cup {[NewSave(t) EXCEPT !.mtime = 0]}
  /\ EndSave(t, FALSE)
  /\ UNCHANGED <<disk, writes, rows, faults>>

\* The id, the summary, and the attempts the first panel looks at.
BeginSave(t) ==
  /\ backend = "db" /\ pool /\ MaySave(t)
  /\ stage' = [stage EXCEPT ![t] = "saving"]
  /\ draft' = [draft EXCEPT ![t] = [at |-> now, created |-> now, parts |-> <<recorded[t]>>]]
  /\ UNCHANGED <<now, processVars, since, pending, recorded, disk, writes, rows, toImport,
                 faults, historyVars>>

\* A panel resumes after _meta, also when its query failed: its counters, and the attempts
\* of the next panel.
ReadPanel(t) ==
  /\ Up /\ stage[t] = "saving" /\ Len(draft[t].parts) <= Panels
  /\ draft' = [draft EXCEPT ![t] =
       [at |-> @.at, created |-> now, parts |-> Append(@.parts, recorded[t])]]
  /\ UNCHANGED <<now, processVars, stage, since, pending, recorded, disk, writes, rows,
                 toImport, faults, historyVars>>

PanelsRead(t) == stage[t] = "saving" /\ Len(draft[t].parts) = Panels + 1

\* persist_snapshot gets a connection.
BeginPersist(t) ==
  /\ phase \in {"serving", "stopping"} /\ PanelsRead(t)
  /\ stage' = [stage EXCEPT ![t] = "writing"]
  /\ UNCHANGED <<now, processVars, since, pending, recorded, draft, disk, writes, rows,
                 toImport, faults, historyVars>>

DraftRow(t) == [test |-> t, at |-> draft[t].at, created |-> draft[t].created]

\* persist_snapshot only logs a failure: save_test_snapshot does not learn of it.
LogSaved(t) ==
  saved' = saved \cup {[test |-> t, at |-> draft[t].at, created |-> draft[t].created,
                        mtime |-> 0]}

\* The transaction ends, or the database fails.
PersistSnapshot(t) ==
  /\ stage[t] = "writing"
  /\ \/ rows' = Put(rows, DraftRow(t)) /\ UNCHANGED faults
     \/ Fault /\ UNCHANGED rows
  /\ LogSaved(t)
  /\ EndSave(t, FALSE)
  /\ UNCHANGED <<disk, writes>>

\* A pool that is closing gives no connection.
PersistTooLate(t) ==
  /\ phase = "closing" /\ PanelsRead(t)
  /\ LogSaved(t)
  /\ EndSave(t, FALSE)
  /\ UNCHANGED <<disk, writes, rows, faults>>

\* A DELETE whose wait times out cancels a run that saves: the transaction is rolled back.
CancelSave(t) ==
  /\ phase = "serving" /\ t \notin Autonomous /\ Saving(t)
  /\ EndSave(t, TRUE)
  /\ UNCHANGED <<disk, writes, rows, faults, saved>>

-----------------------------------------------------------------------------
StartStep ==
  \/ StartWithFiles \/ StartWithDb \/ ConnectFails
  \/ \E f \in toImport : ImportFile(f) \/ ImportFails(f)
  \/ StartUpCleanup

StopStep == BeginShutdown \/ ClosePool \/ EndShutdown \/ Crash \/ CrashInPrune

TestStep(t) ==
  \/ CreateTest(t) \/ SpawnQuery(t) \/ AnswerQuery(t) \/ EndCancelled(t)

SaveStep(t) ==
  \/ SaveToFile(t) \/ SaveToFileFails(t) \/ CrashInSave(t) \/ SaveDropped(t)
  \/ BeginSave(t) \/ ReadPanel(t) \/ CancelSave(t)
  \/ BeginPersist(t) \/ PersistSnapshot(t) \/ PersistTooLate(t)

Next ==
  \/ StartStep
  \/ StopStep
  \/ Cleanup
  \/ Tick
  \/ \E t \in Tests : TestStep(t) \/ SaveStep(t)

Spec == Init /\ [][Next]_vars

\* Docker starts the process again (restart: unless-stopped), a start goes on, the
\* cleanup loop wakes up, a shutdown has a time-out, and so has a command of the database
\* (command_timeout, db/connection.py:36).
FairSpec ==
  /\ Spec
  /\ WF_vars(StartStep)
  /\ WF_vars(Cleanup)
  /\ WF_vars(ClosePool) /\ WF_vars(EndShutdown)
  /\ \A t \in Tests : WF_vars(PersistSnapshot(t))

-----------------------------------------------------------------------------
(* Properties.                                                              *)

UniqueIds(set) == \A x, y \in set : SameId(x, y) => x = y

\* Process, tests, files and rows stay within their types, and ids are unique.
TypeOK ==
  /\ now \in Clock
  /\ phase \in {"down", "importing", "serving", "stopping", "closing"}
  /\ backend \in Backends /\ pool \in BOOLEAN
  /\ stage \in [Tests -> {"absent", "running", "saving", "writing", "over"}]
  /\ since \in [Tests -> Clock]
  /\ pending \in [Tests -> Nat] /\ recorded \in [Tests -> Nat]
  /\ draft \in [Tests -> Drafts]
  /\ disk \subseteq Files /\ UniqueIds(disk) /\ writes \in Nat
  /\ rows \subseteq Rows /\ UniqueIds(rows) /\ toImport \subseteq disk
  /\ faults \in 0..MaxFaults
  /\ saved \subseteq Saves /\ late \subseteq [test : Tests, at : Clock]

OnDisk(s) == \E f \in disk : SameId(f, s) /\ f.whole
InDb(s) == \E r \in rows : SameId(r, s)

\* What GET /snapshots lists.
Found(s) ==
  IF backend = "file" THEN \E f \in Listed(disk) : SameId(f, s)
                      ELSE pool /\ \E r \in LiveRows : SameId(r, s)

\* A snapshot that was saved to a file is found for as long as it is within retention
\* and not outnumbered by newer ones, over crashes in the middle of other writes and of
\* pruning, full disks, restarts and changes of the backend (snapshot_store.py:71, :132).
FilesAreKept ==
  \A s \in saved :
    \/ s.mtime = 0
    \/ Expired(s.created)
    \/ OnDisk(s)
    \/ Cardinality({n \in saved : n.mtime > s.mtime}) >= Limit

\* A snapshot that is logged as saved to PostgreSQL is there while it is within retention, if
\* the database never fails: also when the process is stopped while it is saved, as the wait
\* for the runs is a wait for their snapshots (dns_runner.py:462, :394).  The exception is a
\* shutdown that waited SHUTDOWN_TIMEOUT_SECONDS in vain: what is then in the making is logged
\* as saved and may be lost, as the pool closes under it (db/connection.py:67), but nothing else
\* is.  Start-up brings the files into the database, with unreadable ones among them or not
\* (db/import_files.py:29).
RowsAreKept ==
  faults = 0 =>
    /\ \A s \in saved :
         s.mtime = 0 /\ ~Expired(s.created) => InDb(s) \/ \E l \in late : SameId(l, s)
    /\ backend = "db" /\ Up => \A f \in Listed(disk) : InDb(f)

\* Once out of retention a snapshot is never shown again: neither a change of the
\* backend nor the repeated import of its file makes it younger (db/repository.py:44).
OldStaysHidden == Up => \A s \in saved : Found(s) => ~Expired(s.created)

\* The parts of a snapshot are read one after the other while the test may go on: those of a
\* completed test agree, those of a checkpoint never go back (snapshot_store.py:315).
PartsAgree ==
  \A t \in Tests : stage[t] = "saving" =>
    LET parts == draft[t].parts IN
    \A i, j \in DOMAIN parts : i <= j =>
      /\ parts[i] <= parts[j] /\ parts[j] <= recorded[t]
      /\ t \notin Autonomous => parts[i] = recorded[t]

\* What is out of retention is removed in the end, for as long as its backend is in use
\* (db/cleanup.py:77): readable files and rows alike.
OldIsRemoved ==
  /\ (backend = "file" /\ \E f \in disk : f.whole /\ FileExpired(f))
       ~> (backend = "db" \/ \A f \in disk : f.whole => ~FileExpired(f))
  /\ (pool /\ \E r \in rows : RowExpired(r))
       ~> (~pool \/ \A r \in rows : ~RowExpired(r))

=============================================================================
