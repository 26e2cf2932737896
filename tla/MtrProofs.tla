------------------------------ MODULE MtrProofs ------------------------------
(***************************************************************************)
(* Proofs about Mtr, for every number of requests and of runs and every    *)
(* length of the history.                                                  *)
(***************************************************************************)
EXTENDS Mtr, SequenceTheorems, TLAPS

\* A coroutine that waits for mtr, or that a request started, has a run record, which
\* is RUNNING until the run is finalized; no two actors share a record.
RecordsMatchStages ==
  /\ \A a \in Actors : runOf[a] <= created
  /\ \A a \in Actors : Holding(a) => runOf[a] # 0
  /\ \A a \in Requests : stage[a] \in {"spawned", "waiting"} => runOf[a] # 0
  /\ \A a \in Actors : stage[a] \in {"running", "killing"} => status[runOf[a]] = "running"
  /\ \A a \in Requests : stage[a] \in {"spawned", "waiting"} => status[runOf[a]] = "running"
  /\ \A a, b \in Actors : runOf[a] = runOf[b] /\ runOf[a] # 0 => a = b
  /\ \A r \in Runs : r > created => status[r] = "none"

IInv ==
  /\ TypeOK
  /\ RecordsMatchStages
  /\ MutualExclusion
  /\ HistoryIsSound

\* The start of the process satisfies the inductive invariant and an exact queue.
LEMMA MtrInit == Init => IInv
<1> SUFFICES ASSUME Init PROVE IInv
  OBVIOUS
<1> USE ConstantsAssumption DEF Init
<1>1. TypeOK
  <2>1. waiters \in Seq(Actors) /\ history \in Seq(Runs)
    OBVIOUS
  <2>2. stage \in [Actors -> Stages]
    BY DEF Stages
  <2>3. runOf \in [Actors -> 0..MaxRuns] /\ status \in [Runs -> RunStatuses]
    BY DEF RunStatuses
  <2>4. locked \in BOOLEAN
    OBVIOUS
  <2>5. created \in 0..MaxRuns /\ latest \in 0..MaxRuns
    OBVIOUS
  <2> QED
    BY <2>1, <2>2, <2>3, <2>4, <2>5 DEF TypeOK
<1>2. RecordsMatchStages
  <2>1. \A a \in Actors : runOf[a] = 0 /\ stage[a] \in {"idle", "spawned"}
    OBVIOUS
  <2>2. \A a \in Requests : a \in Actors /\ stage[a] = "idle"
    BY DEF Actors
  <2>3. \A r \in Runs : status[r] = "none"
    OBVIOUS
  <2> QED
    BY <2>1, <2>2, <2>3 DEF RecordsMatchStages, Holding
<1>3. MutualExclusion
  BY DEF MutualExclusion, Holding
<1>4. HistoryIsSound
  BY DEF HistoryIsSound
<1> QED
  BY <1>1, <1>2, <1>3, <1>4 DEF IInv

-----------------------------------------------------------------------------
(* The store.                                                               *)

\* deque(maxlen=...): the new entry comes last, at most the oldest one is lost.
LEMMA PushKeepsEntries ==
  ASSUME NEW h \in Seq(Runs), NEW r \in Runs, Len(h) <= MaxHistory
  PROVE  /\ Push(h, r) \in Seq(Runs)
         /\ Len(Push(h, r)) \in 1..MaxHistory
         /\ Push(h, r)[Len(Push(h, r))] = r
         /\ \E k \in 0..1 : \A i \in 1..(Len(Push(h, r)) - 1) :
              i + k \in DOMAIN h /\ Push(h, r)[i] = h[i + k]
<1> USE ConstantsAssumption
<1>1. CASE Len(h) < MaxHistory
  <2>1. Push(h, r) = Append(h, r)
    BY <1>1 DEF Push
  <2>2. \A i \in 1..(Len(Append(h, r)) - 1) : i + 0 \in DOMAIN h /\ Append(h, r)[i] = h[i + 0]
    OBVIOUS
  <2> QED
    BY <1>1, <2>1, <2>2
<1>2. CASE ~(Len(h) < MaxHistory)
  <2>1. Push(h, r) = Append(Tail(h), r) /\ Len(h) = MaxHistory /\ h # <<>>
    BY <1>2 DEF Push
  <2>2. Tail(h) \in Seq(Runs) /\ Len(Tail(h)) = Len(h) - 1
    BY <2>1
  <2>3. \A i \in 1..(Len(Append(Tail(h), r)) - 1) :
          i + 1 \in DOMAIN h /\ Append(Tail(h), r)[i] = h[i + 1]
    BY <2>1, <2>2
  <2> QED
    BY <2>1, <2>2, <2>3
<1> QED
  BY <1>1, <1>2

\* finalize_run of an unfinished run keeps the history sound.
LEMMA FinalizeKeepsHistory ==
  ASSUME TypeOK, HistoryIsSound, NEW r \in Runs, NEW s \in {"completed", "failed", "timeout"},
         status[r] = "running", FinalizeRun(r, s)
  PROVE  /\ HistoryIsSound'
         /\ history' \in Seq(Runs)
         /\ status' \in [Runs -> RunStatuses]
         /\ latest' = r /\ UNCHANGED created
<1>0. history \in Seq(Runs) /\ Len(history) <= MaxHistory
  BY DEF TypeOK, HistoryIsSound
<1>1. history' = Push(history, r)
  BY DEF FinalizeRun
<1>2. \A i \in DOMAIN history : history[i] # r
  BY DEF HistoryIsSound
<1>3. \A x \in Runs : status'[x] = IF x = r THEN s ELSE status[x]
  BY DEF FinalizeRun, TypeOK
<1>4. PICK k \in 0..1 : \A i \in 1..(Len(history') - 1) :
        i + k \in DOMAIN history /\ history'[i] = history[i + k]
  BY <1>0, <1>1, PushKeepsEntries
<1>5. history' \in Seq(Runs) /\ Len(history') \in 1..MaxHistory /\ history'[Len(history')] = r
  BY <1>0, <1>1, PushKeepsEntries
<1>6. \A i \in DOMAIN history' : i = Len(history') \/ i \in 1..(Len(history') - 1)
  BY <1>5
<1>7. \A i \in DOMAIN history' : status'[history'[i]] \in {"completed", "failed", "timeout"}
  <2> SUFFICES ASSUME NEW i \in DOMAIN history'
               PROVE  status'[history'[i]] \in {"completed", "failed", "timeout"}
    OBVIOUS
  <2>1. CASE i = Len(history')
    BY <1>3, <1>5, <2>1
  <2>2. CASE i \in 1..(Len(history') - 1)
    <3>1. i + k \in DOMAIN history /\ history'[i] = history[i + k]
      BY <1>4, <2>2
    <3>2. history[i + k] \in Runs /\ status[history[i + k]] \in {"completed", "failed", "timeout"}
      BY <1>0, <3>1 DEF HistoryIsSound
    <3> QED
      BY <1>3, <3>1, <3>2
  <2> QED
    BY <1>6, <2>1, <2>2
<1>8. \A i, j \in DOMAIN history' : history'[i] = history'[j] => i = j
  <2> SUFFICES ASSUME NEW i \in DOMAIN history', NEW j \in DOMAIN history', history'[i] = history'[j]
               PROVE  i = j
    OBVIOUS
  <2>1. CASE i = Len(history') \/ j = Len(history')
    BY <1>2, <1>4, <1>5, <1>6, <2>1
  <2>2. CASE i \in 1..(Len(history') - 1) /\ j \in 1..(Len(history') - 1)
    <3>1. i + k \in DOMAIN history /\ j + k \in DOMAIN history /\ history[i + k] = history[j + k]
      BY <1>4, <2>2
    <3>2. i + k = j + k
      BY <3>1 DEF HistoryIsSound
    <3> QED
      BY <1>5, <2>2, <3>2
  <2> QED
    BY <1>6, <2>1, <2>2
<1> QED
  BY <1>5, <1>7, <1>8 DEF HistoryIsSound, FinalizeRun, LatestAfter, TypeOK, RunStatuses

-----------------------------------------------------------------------------
(* The steps.                                                               *)

\* create_run changes the status of one new record only.
LEMMA CreateRunChanges ==
  ASSUME IInv, NEW a \in Actors, CreateRun(a)
  PROVE  /\ created + 1 \in Runs /\ created' = created + 1
         /\ \A b \in Actors : runOf'[b] = IF b = a THEN created + 1 ELSE runOf[b]
         /\ \A b \in Actors : runOf[b] # created + 1
         /\ \A r \in Runs : status'[r] = IF r = created + 1 THEN "running" ELSE status[r]
         /\ runOf' \in [Actors -> 0..MaxRuns] /\ status' \in [Runs -> RunStatuses]
         /\ latest' = created + 1 /\ UNCHANGED history
<1> USE ConstantsAssumption DEF IInv, TypeOK, Runs
<1>1. created + 1 \in Runs /\ created' = created + 1 /\ created \in Nat
  BY DEF CreateRun
<1>2. \A b \in Actors : runOf[b] # created + 1
  BY DEF RecordsMatchStages
<1> QED
  BY <1>1, <1>2 DEF CreateRun, RunStatuses

\* An idle request, or a periodic runner that enters the lock, gets a new record.
LEMMA NewRecordStep ==
  ASSUME IInv, NEW a \in Actors, ~Holding(a), CreateRun(a),
         a \in Requests => stage[a] = "idle"
  PROVE  /\ HistoryIsSound'
         /\ \A b \in Actors : runOf'[b] <= created'
         /\ runOf'[a] # 0 /\ status'[runOf'[a]] = "running"
         /\ \A b \in Actors \ {a} : /\ runOf'[b] = runOf[b]
                                    /\ runOf[b] # 0 => status'[runOf[b]] = status[runOf[b]]
         /\ \A b, c \in Actors : runOf'[b] = runOf'[c] /\ runOf'[b] # 0 => b = c
         /\ \A r \in Runs : r > created' => status'[r] = "none"
<1>0. TypeOK /\ RecordsMatchStages
  BY DEF IInv
<1>1. created \in Nat /\ \A b \in Actors : runOf[b] \in 0..created
  BY <1>0 DEF TypeOK, RecordsMatchStages
<1>2. \A b \in Actors : runOf'[b] <= created'
  BY <1>1, CreateRunChanges
<1>3. \A b \in Actors \ {a} : runOf[b] # 0 => runOf[b] \in Runs /\ runOf[b] # created + 1
  BY <1>0, <1>1, CreateRunChanges DEF TypeOK, Runs
<1>4. \A b, c \in Actors : runOf'[b] = runOf'[c] /\ runOf'[b] # 0 => b = c
  BY <1>0, CreateRunChanges DEF RecordsMatchStages
<1>5. HistoryIsSound'
  <2>1. status[created + 1] = "none"
    BY <1>0, <1>1, CreateRunChanges DEF RecordsMatchStages
  <2>2. \A i \in DOMAIN history : history[i] \in Runs /\ history[i] # created + 1
    <3> SUFFICES ASSUME NEW i \in DOMAIN history
                 PROVE  history[i] \in Runs /\ history[i] # created + 1
      OBVIOUS
    <3>1. history[i] \in Runs
      BY <1>0 DEF TypeOK
    <3>2. status[history[i]] \in {"completed", "failed", "timeout"}
      BY DEF IInv, HistoryIsSound
    <3> QED
      BY <2>1, <3>1, <3>2
  <2> QED
    BY <2>2, CreateRunChanges DEF IInv, HistoryIsSound
<1>6. \A r \in Runs : r > created' => status'[r] = "none"
  BY <1>0, <1>1, CreateRunChanges DEF RecordsMatchStages, Runs
<1> QED
  BY <1>6, <1>1, <1>2, <1>3, <1>4, <1>5, CreateRunChanges

\* The stage of one actor changes, and nothing else that RecordsMatchStages is about.
LEMMA StageStep ==
  ASSUME IInv, NEW a \in Actors, NEW s \in Stages, stage' = [stage EXCEPT ![a] = s],
         UNCHANGED <<runOf, created, status, history, latest>>,
         s \in {"running", "killing"} => status[runOf[a]] = "running",
         s \in {"running", "killing", "persisting"} => runOf[a] # 0,
         a \in Requests /\ s \in {"spawned", "waiting"} => stage[a] = "spawned",
         waiters' \in Seq(Actors), locked' \in BOOLEAN,
         phase' \in {"serving", "stopping", "stopped"}
  PROVE  TypeOK' /\ RecordsMatchStages' /\ HistoryIsSound'
<1>0. TypeOK /\ RecordsMatchStages /\ HistoryIsSound
  BY DEF IInv
<1>1. TypeOK'
  BY <1>0 DEF TypeOK
<1>2. RecordsMatchStages'
  BY <1>0 DEF RecordsMatchStages, TypeOK, Holding
<1> QED
  BY <1>0, <1>1, <1>2 DEF HistoryIsSound

\* Taking the free lock, in a turn of any actor, keeps the inductive invariant.
LEMMA EnterStep ==
  ASSUME IInv, NEW a \in Actors, stage[a] \in {"spawned", "waiting", "pausing"},
         a \in Requests => stage[a] # "pausing", ~locked, EnterRun(a),
         waiters' \in Seq(Actors), UNCHANGED phase
  PROVE  IInv'
<1>0. TypeOK /\ RecordsMatchStages /\ MutualExclusion
  BY DEF IInv
<1>1. /\ \A b \in Actors : ~Holding(b)
      /\ \A b \in Actors : stage'[b] = IF b = a THEN "running" ELSE stage[b]
      /\ stage' \in [Actors -> Stages]
      /\ locked' = TRUE
  BY <1>0 DEF MutualExclusion, EnterRun, TypeOK, Stages
<1>2. MutualExclusion'
  BY <1>1 DEF MutualExclusion, Holding
<1>3. CASE a = Periodic
  <2>1. CreateRun(a) /\ a \notin Requests
    BY <1>3, ConstantsAssumption DEF EnterRun
  <2>2. TypeOK'
    <3>1. waiters' \in Seq(Actors) /\ history' \in Seq(Runs)
      BY <1>0, <2>1, CreateRunChanges DEF TypeOK
    <3>2. created' \in 0..MaxRuns /\ latest' \in 0..MaxRuns
      BY <2>1, CreateRunChanges, ConstantsAssumption DEF Runs
    <3>3. locked' \in BOOLEAN /\ phase' \in {"serving", "stopping", "stopped"}
      BY <1>0, <1>1 DEF TypeOK
    <3> QED
      BY <1>1, <2>1, <3>1, <3>2, <3>3, CreateRunChanges DEF TypeOK
  <2>3. RecordsMatchStages'
    <3>1. /\ \A b \in Actors : stage'[b] \in {"running", "killing", "persisting"} => b = a
          /\ \A b \in Requests : b # a /\ b \in Actors /\ stage'[b] = stage[b]
      BY <1>1, <2>1 DEF Holding, Actors
    <3>2. \A b \in Requests : /\ runOf'[b] = runOf[b]
                              /\ runOf[b] # 0 => status'[runOf[b]] = status[runOf[b]]
      BY <1>1, <2>1, <3>1, NewRecordStep
    <3>3. \A b \in Requests : stage'[b] \in {"spawned", "waiting"} =>
            runOf'[b] # 0 /\ status'[runOf'[b]] = "running"
      <4> SUFFICES ASSUME NEW b \in Requests, stage'[b] \in {"spawned", "waiting"}
                   PROVE  runOf'[b] # 0 /\ status'[runOf'[b]] = "running"
        OBVIOUS
      <4>1. runOf[b] # 0 /\ status[runOf[b]] = "running"
        BY <1>0, <3>1 DEF RecordsMatchStages
      <4>2. runOf'[b] = runOf[b] /\ status'[runOf[b]] = status[runOf[b]]
        BY <3>2, <4>1
      <4> QED
        BY <4>1, <4>2
    <3>4. \A b \in Actors : stage'[b] \in {"running", "killing", "persisting"} =>
            runOf'[b] # 0 /\ status'[runOf'[b]] = "running"
      BY <1>1, <2>1, <3>1, NewRecordStep
    <3>5. /\ \A b \in Actors : runOf'[b] <= created'
          /\ \A b, c \in Actors : runOf'[b] = runOf'[c] /\ runOf'[b] # 0 => b = c
          /\ \A r \in Runs : r > created' => status'[r] = "none"
      BY <1>1, <2>1, NewRecordStep
    <3> QED
      BY <3>3, <3>4, <3>5 DEF RecordsMatchStages, Holding
  <2>4. HistoryIsSound'
    BY <1>1, <2>1, NewRecordStep
  <2> QED
    BY <1>2, <2>2, <2>3, <2>4 DEF IInv
<1>4. CASE a # Periodic
  <2>1. a \in Requests /\ UNCHANGED <<runOf, created, status, history, latest>>
    BY <1>4 DEF EnterRun, Actors, storeVars
  <2>2. runOf[a] # 0 /\ status[runOf[a]] = "running"
    BY <1>0, <2>1 DEF RecordsMatchStages
  <2>3. "running" \in Stages /\ stage' = [stage EXCEPT ![a] = "running"] /\ locked' \in BOOLEAN
    BY DEF EnterRun, Stages
  <2>4. TypeOK' /\ RecordsMatchStages' /\ HistoryIsSound'
    BY <1>0, <2>1, <2>2, <2>3, StageStep DEF TypeOK
  <2> QED
    BY <1>2, <2>4 DEF IInv
<1> QED
  BY <1>3, <1>4

\* POST /mtr keeps the inductive invariant.
LEMMA TriggerStep ==
  ASSUME IInv, NEW a \in Requests, TriggerMtr(a)
  PROVE  IInv'
<1>0. TypeOK /\ RecordsMatchStages /\ MutualExclusion
  BY DEF IInv
<1>1. /\ a \in Actors /\ ~Holding(a) /\ CreateRun(a) /\ stage[a] = "idle"
      /\ \A b \in Actors : stage'[b] = IF b = a THEN "spawned" ELSE stage[b]
      /\ stage' \in [Actors -> Stages]
      /\ UNCHANGED <<locked, waiters, phase>>
  BY <1>0 DEF TriggerMtr, Holding, TypeOK, Stages, lockVars, Actors
<1>2. MutualExclusion'
  BY <1>0, <1>1 DEF MutualExclusion, Holding
<1>3. TypeOK'
  <2>1. history' \in Seq(Runs) /\ waiters' \in Seq(Actors) /\ locked' \in BOOLEAN
        /\ phase' \in {"serving", "stopping", "stopped"}
    BY <1>0, <1>1, CreateRunChanges DEF TypeOK
  <2>2. created' \in 0..MaxRuns /\ latest' \in 0..MaxRuns
    BY <1>1, CreateRunChanges, ConstantsAssumption DEF Runs
  <2> QED
    BY <1>1, <2>1, <2>2, CreateRunChanges DEF TypeOK
<1>4. RecordsMatchStages'
  <2>1. ASSUME NEW b \in Actors \ {a}
        PROVE  /\ stage'[b] = stage[b] /\ runOf'[b] = runOf[b]
               /\ runOf[b] # 0 => status'[runOf[b]] = status[runOf[b]]
    BY <1>1, NewRecordStep
  <2>2. stage'[a] = "spawned" /\ runOf'[a] # 0 /\ status'[runOf'[a]] = "running"
    BY <1>1, NewRecordStep
  <2>3. /\ \A b \in Actors : runOf'[b] <= created'
        /\ \A b, c \in Actors : runOf'[b] = runOf'[c] /\ runOf'[b] # 0 => b = c
        /\ \A r \in Runs : r > created' => status'[r] = "none"
    BY <1>1, NewRecordStep
  <2>4. \A b \in Actors : stage'[b] \in {"running", "killing", "persisting"} => runOf'[b] # 0
    BY <1>0, <2>1, <2>2 DEF RecordsMatchStages, Holding
  <2>5. \A b \in Requests : stage'[b] \in {"spawned", "waiting"} =>
          runOf'[b] # 0 /\ status'[runOf'[b]] = "running"
    BY <1>0, <2>1, <2>2 DEF RecordsMatchStages, Actors
  <2>6. \A b \in Actors : stage'[b] \in {"running", "killing"} => status'[runOf'[b]] = "running"
    BY <1>0, <2>1, <2>2 DEF RecordsMatchStages, Holding
  <2> QED
    BY <2>3, <2>4, <2>5, <2>6 DEF RecordsMatchStages, Holding
<1> QED
  BY <1>1, <1>2, <1>3, <1>4, NewRecordStep DEF IInv

\* Reaching the lock, taking it or queueing for it, keeps the inductive invariant.
LEMMA AcquireStep ==
  ASSUME IInv, NEW a \in Actors, stage[a] \in {"spawned", "pausing"},
         a \in Requests => stage[a] = "spawned", Acquire(a), UNCHANGED phase
  PROVE  IInv'
<1>0. TypeOK /\ MutualExclusion
  BY DEF IInv
<1>1. CASE MayTake
  BY <1>0, <1>1, EnterStep DEF Acquire, MayTake, TypeOK
<1>2. CASE ~MayTake
  <2>1. /\ stage' = [stage EXCEPT ![a] = "waiting"] /\ "waiting" \in Stages
        /\ UNCHANGED <<runOf, created, status, history, latest, locked>>
        /\ waiters' = Append(waiters, a)
    BY <1>2 DEF Acquire, storeVars, Stages
  <2>2. TypeOK' /\ RecordsMatchStages' /\ HistoryIsSound'
    <3>1. waiters' \in Seq(Actors)
      BY <1>0, <2>1 DEF TypeOK
    <3> QED
      BY <1>0, <2>1, <3>1, StageStep DEF TypeOK
  <2>3. MutualExclusion'
    BY <1>0, <2>1 DEF MutualExclusion, Holding, TypeOK
  <2> QED
    BY <2>2, <2>3 DEF IInv
<1> QED
  BY <1>1, <1>2

\* The end of run_mtr, with or without PostgreSQL, keeps the inductive invariant.
LEMMA FinalizeStep ==
  ASSUME IInv, NEW a \in Actors, stage[a] \in {"running", "killing"},
         NEW s \in {"completed", "failed", "timeout"}, Finalize(a, s)
  PROVE  IInv'
<1>0. TypeOK /\ RecordsMatchStages /\ MutualExclusion /\ HistoryIsSound
  BY DEF IInv
<1> DEFINE r == runOf[a]
<1>1. Holding(a) /\ r \in Runs /\ status[r] = "running" /\ FinalizeRun(r, s)
  BY <1>0 DEF Holding, RecordsMatchStages, TypeOK, Runs, Finalize
<1>2. HistoryIsSound' /\ history' \in Seq(Runs) /\ status' \in [Runs -> RunStatuses]
      /\ latest' = r /\ UNCHANGED created
  BY <1>0, <1>1, FinalizeKeepsHistory
<1>3. /\ UNCHANGED <<runOf, waiters, phase>>
      /\ \/ /\ stage' = [stage EXCEPT ![a] = "persisting"]
            /\ UNCHANGED locked
         \/ /\ stage' = [stage EXCEPT ![a] = AfterRun(a)]
            /\ locked' = FALSE
  BY DEF Finalize, Release, lockVars
<1>4. AfterRun(a) \in {"done", "pausing"} /\ (AfterRun(a) = "pausing" => a = Periodic)
  BY DEF AfterRun
<1>5. TypeOK'
  <2>1. stage' \in [Actors -> Stages] /\ locked' \in BOOLEAN
    BY <1>0, <1>3, <1>4 DEF TypeOK, Stages
  <2>2. latest' \in 0..MaxRuns
    BY <1>1, <1>2, ConstantsAssumption DEF Runs
  <2> QED
    BY <1>0, <1>2, <1>3, <2>1, <2>2 DEF TypeOK
<1>6. MutualExclusion'
  BY <1>0, <1>1, <1>3, <1>4 DEF MutualExclusion, Holding, TypeOK
<1>7. RecordsMatchStages'
  <2>1. \A b \in Actors \ {a} : stage'[b] = stage[b]
    BY <1>0, <1>3 DEF TypeOK
  <2>2. stage'[a] \in {"persisting", "done", "pausing"}
    BY <1>0, <1>3, <1>4 DEF TypeOK
  <2>3. \A x \in Runs \ {r} : status'[x] = status[x]
    BY <1>0, <1>1 DEF FinalizeRun, TypeOK
  <2>4. \A b \in Actors \ {a} : runOf[b] # 0 => runOf[b] \in Runs \ {r}
    BY <1>0, <1>1 DEF RecordsMatchStages, TypeOK, Runs
  <2>5. \A b \in Actors : stage'[b] \in {"running", "killing"} => status'[runOf[b]] = "running"
    BY <1>0, <2>1, <2>2, <2>3, <2>4 DEF RecordsMatchStages, Holding
  <2>6. \A b \in Requests : stage'[b] \in {"spawned", "waiting"} =>
          runOf[b] # 0 /\ status'[runOf[b]] = "running"
    BY <1>0, <2>1, <2>2, <2>3, <2>4 DEF RecordsMatchStages, Actors
  <2>7. \A x \in Runs : x > created => x # r
    BY <1>0, <1>1 DEF RecordsMatchStages, TypeOK, Runs
  <2>8. \A b \in Actors : stage'[b] \in {"running", "killing", "persisting"} => runOf[b] # 0
    BY <1>0, <1>1, <2>1 DEF RecordsMatchStages, Holding
  <2> QED
    BY <1>0, <1>2, <1>3, <2>3, <2>5, <2>6, <2>7, <2>8 DEF RecordsMatchStages, Holding
<1> QED
  BY <1>2, <1>5, <1>6, <1>7 DEF IInv

\* An actor gives the lock back without touching the store, or waits no longer.
LEMMA LeaveStep ==
  ASSUME IInv, NEW a \in Actors, NEW s \in {"done", "pausing"},
         stage' = [stage EXCEPT ![a] = s], UNCHANGED <<runOf, storeVars>>,
         locked' = IF Holding(a) THEN FALSE ELSE locked,
         waiters' \in Seq(Actors), phase' = phase
  PROVE  IInv'
<1>0. TypeOK /\ MutualExclusion
  BY DEF IInv
<1>1. UNCHANGED <<runOf, created, status, history, latest>> /\ s \in Stages
      /\ locked' \in BOOLEAN /\ phase' \in {"serving", "stopping", "stopped"}
  BY <1>0 DEF TypeOK, storeVars, Stages
<1>2. TypeOK' /\ RecordsMatchStages' /\ HistoryIsSound'
  BY <1>1, StageStep
<1>3. MutualExclusion'
  BY <1>0, <1>1 DEF MutualExclusion, Holding, TypeOK
<1> QED
  BY <1>2, <1>3 DEF IInv

-----------------------------------------------------------------------------
(* The queue of the lock.                                                   *)

\* A newcomer at the end of the queue keeps the queue exact.
LEMMA AppendKeepsQueue ==
  ASSUME TypeOK, QueueIsExact, NEW a \in Actors, stage[a] # "waiting",
         waiters' = Append(waiters, a), stage' = [stage EXCEPT ![a] = "waiting"]
  PROVE  QueueIsExact'
<1>0. waiters \in Seq(Actors) /\ stage \in [Actors -> Stages]
  BY DEF TypeOK
<1>1. /\ Len(waiters') = Len(waiters) + 1
      /\ waiters'[Len(waiters) + 1] = a
      /\ \A i \in 1..Len(waiters) : waiters'[i] = waiters[i]
      /\ DOMAIN waiters' = 1..(Len(waiters) + 1)
  BY <1>0
<1>2. \A i \in 1..Len(waiters) : waiters[i] # a
  BY <1>0 DEF QueueIsExact
<1>3. \A b \in Actors : (\E i \in DOMAIN waiters' : waiters'[i] = b)
                          <=> (b = a \/ \E i \in DOMAIN waiters : waiters[i] = b)
  BY <1>0, <1>1
<1>4. \A b \in Actors : stage'[b] = "waiting" <=> (b = a \/ stage[b] = "waiting")
  BY <1>0
<1>5. \A i, j \in DOMAIN waiters' : waiters'[i] = waiters'[j] => i = j
  BY <1>0, <1>1, <1>2 DEF QueueIsExact
<1> QED
  BY <1>3, <1>4, <1>5 DEF QueueIsExact

\* Taking the i-th entry out of the queue.
LEMMA RemoveKeepsQueue ==
  ASSUME TypeOK, QueueIsExact, NEW i \in DOMAIN waiters, NEW s \in Stages \ {"waiting"},
         Len(waiters') = Len(waiters) - 1, waiters' \in Seq(Actors),
         \A j \in 1..(Len(waiters) - 1) :
           waiters'[j] = IF j < i THEN waiters[j] ELSE waiters[j + 1],
         stage' = [stage EXCEPT ![waiters[i]] = s]
  PROVE  QueueIsExact'
<1>0. waiters \in Seq(Actors) /\ stage \in [Actors -> Stages] /\ waiters[i] \in Actors
      /\ DOMAIN waiters = 1..Len(waiters) /\ DOMAIN waiters' = 1..(Len(waiters) - 1)
      /\ Len(waiters) \in Nat
  BY DEF TypeOK
<1> DEFINE Old(j) == IF j < i THEN j ELSE j + 1
<1>1. \A j \in DOMAIN waiters' : Old(j) \in DOMAIN waiters \ {i} /\ waiters'[j] = waiters[Old(j)]
  BY <1>0
<1>2. \A k \in DOMAIN waiters \ {i} : \E j \in DOMAIN waiters' : k = Old(j)
  <2> SUFFICES ASSUME NEW k \in DOMAIN waiters \ {i}
               PROVE  \E j \in DOMAIN waiters' : k = Old(j)
    OBVIOUS
  <2>1. CASE k < i
    BY <1>0, <2>1
  <2>2. CASE k > i
    <3>1. k - 1 \in DOMAIN waiters' /\ k = Old(k - 1)
      BY <1>0, <2>2
    <3> QED
      BY <3>1
  <2> QED
    BY <1>0, <2>1, <2>2
<1>3. \A j, k \in DOMAIN waiters' : waiters'[j] = waiters'[k] => j = k
  <2> SUFFICES ASSUME NEW j \in DOMAIN waiters', NEW k \in DOMAIN waiters', waiters'[j] = waiters'[k]
               PROVE  j = k
    OBVIOUS
  <2>1. Old(j) = Old(k)
    BY <1>1 DEF QueueIsExact
  <2> QED
    BY <1>0, <2>1
<1>4. \A b \in Actors : stage'[b] = "waiting" <=> (b # waiters[i] /\ stage[b] = "waiting")
  BY <1>0
<1>5. ASSUME NEW b \in Actors
      PROVE  (\E j \in DOMAIN waiters' : waiters'[j] = b)
               <=> (b # waiters[i] /\ \E j \in DOMAIN waiters : waiters[j] = b)
  <2>1. ASSUME NEW j \in DOMAIN waiters', waiters'[j] = b
        PROVE  b # waiters[i] /\ \E k \in DOMAIN waiters : waiters[k] = b
    BY <1>1, <2>1 DEF QueueIsExact
  <2>2. ASSUME b # waiters[i], NEW k \in DOMAIN waiters, waiters[k] = b
        PROVE  \E j \in DOMAIN waiters' : waiters'[j] = b
    <3>1. PICK j \in DOMAIN waiters' : k = Old(j)
      BY <1>2, <2>2
    <3> QED
      BY <1>1, <2>2, <3>1
  <2> QED
    BY <2>1, <2>2
<1> QED
  BY <1>3, <1>4, <1>5 DEF QueueIsExact

\* The periodic runner leaves the queue.
LEMMA WithoutChanges ==
  ASSUME TypeOK, QueueIsExact, NEW a \in Actors, stage[a] = "waiting"
  PROVE  /\ WaitersWithout(a) \in Seq(Actors)
         /\ Len(WaitersWithout(a)) = Len(waiters) - 1
         /\ \E i \in DOMAIN waiters :
              /\ waiters[i] = a
              /\ \A j \in 1..(Len(waiters) - 1) :
                   WaitersWithout(a)[j] = IF j < i THEN waiters[j] ELSE waiters[j + 1]
<1>0. waiters \in Seq(Actors) /\ DOMAIN waiters = 1..Len(waiters) /\ Len(waiters) \in Nat
  BY DEF TypeOK
<1> DEFINE i == CHOOSE k \in DOMAIN waiters : waiters[k] = a
<1> DEFINE w == [j \in 1..(Len(waiters) - 1) |-> IF j < i THEN waiters[j] ELSE waiters[j + 1]]
<1>1. i \in DOMAIN waiters /\ waiters[i] = a
  BY DEF QueueIsExact
<1>2. Len(waiters) - 1 \in Nat
  BY <1>0, <1>1
<1>3. WaitersWithout(a) = w
  BY DEF WaitersWithout
<1> HIDE DEF i
<1>4. \A j \in 1..(Len(waiters) - 1) : w[j] \in Actors
  BY <1>0, <1>1
<1>5. w \in Seq(Actors) /\ Len(w) = Len(waiters) - 1
  BY <1>2, <1>4
<1> QED
  BY <1>1, <1>3, <1>5

\* The inductive invariant is kept by every step.
LEMMA MtrStep ==
  ASSUME IInv, QueueIsExact, [Next]_vars
  PROVE  IInv'
<1>0. TypeOK /\ MutualExclusion /\ RecordsMatchStages
  BY DEF IInv
<1>1. ASSUME NEW a \in Actors, FirstTurn(a)
      PROVE  IInv'
  BY <1>1, AcquireStep DEF FirstTurn
<1>2. ASSUME NEW a \in Actors, Granted(a)
      PROVE  IInv'
  <2>1. waiters # <<>>
    BY <1>2 DEF Granted
  <2>2. waiters' \in Seq(Actors)
    BY <1>0, <1>2, <2>1 DEF Granted, TypeOK
  <2> QED
    BY <1>2, <2>2, EnterStep DEF Granted
<1>3. ASSUME NEW a \in Actors, MtrExits(a)
      PROVE  IInv'
  BY <1>3, FinalizeStep DEF MtrExits, ExitStatuses
<1>4. ASSUME NEW a \in Actors, MtrTimesOut(a)
      PROVE  IInv'
  <2>1. /\ UNCHANGED <<runOf, created, status, history, latest, locked>>
        /\ status[runOf[a]] = "running" /\ runOf[a] # 0 /\ "killing" \in Stages
        /\ waiters' \in Seq(Actors) /\ locked' \in BOOLEAN
        /\ phase' \in {"serving", "stopping", "stopped"}
        /\ stage' = [stage EXCEPT ![a] = "killing"] /\ Holding(a)
    BY <1>0, <1>4 DEF MtrTimesOut, RecordsMatchStages, Holding, TypeOK, Stages, lockVars, storeVars
  <2>2. TypeOK' /\ RecordsMatchStages' /\ HistoryIsSound'
    BY <2>1, StageStep
  <2>3. MutualExclusion'
    BY <1>0, <2>1 DEF MutualExclusion, Holding, TypeOK
  <2> QED
    BY <2>2, <2>3 DEF IInv
<1>5. ASSUME NEW a \in Actors, KilledMtrReaped(a)
      PROVE  IInv'
  BY <1>5, FinalizeStep DEF KilledMtrReaped
<1>6. ASSUME NEW a \in Actors, Persisted(a)
      PROVE  IInv'
  <2>1. Holding(a) /\ locked' = FALSE /\ AfterRun(a) \in {"done", "pausing"}
        /\ UNCHANGED <<runOf, storeVars, phase>> /\ waiters' \in Seq(Actors)
    BY <1>0, <1>6 DEF Persisted, Holding, Release, AfterRun, TypeOK
  <2> QED
    BY <1>6, <2>1, LeaveStep DEF Persisted
<1>7. CASE IntervalOver
  BY <1>7, AcquireStep, ConstantsAssumption DEF IntervalOver, Actors
<1>8. CASE PauseInterrupted
  <2>1. ~Holding(Periodic) /\ Periodic \in Actors /\ waiters' \in Seq(Actors)
    BY <1>0, <1>8 DEF PauseInterrupted, Holding, Actors, TypeOK, lockVars
  <2> QED
    BY <1>8, <2>1, LeaveStep DEF PauseInterrupted, lockVars
<1>9. CASE PeriodicCancelled
  <2>1. waiters' \in Seq(Actors)
    BY <1>0, <1>9, WithoutChanges DEF PeriodicCancelled, Actors, TypeOK
  <2>2. Periodic \in Actors /\ locked' = IF Holding(Periodic) THEN FALSE ELSE locked
    BY <1>9 DEF PeriodicCancelled, Holding, Release, Actors
  <2> QED
    BY <1>9, <2>1, <2>2, LeaveStep DEF PeriodicCancelled
<1>10. CASE UNCHANGED <<stage, runOf, lockVars, storeVars>> /\ phase' \in {"serving", "stopping", "stopped"}
  BY <1>10 DEF IInv, TypeOK, RecordsMatchStages, MutualExclusion, HistoryIsSound, Holding,
     lockVars, storeVars
<1>11. CASE BeginShutdown \/ EndShutdown \/ UNCHANGED vars
  BY <1>0, <1>10, <1>11 DEF BeginShutdown, EndShutdown, vars, TypeOK
<1> QED
  BY <1>1, <1>2, <1>3, <1>4, <1>5, <1>6, <1>7, <1>8, <1>9, <1>11, TriggerStep DEF Next, RunStep

\* The queue of the lock stays exact in every step.
LEMMA QueueStep ==
  ASSUME IInv, QueueIsExact, [Next]_vars
  PROVE  QueueIsExact'
<1>0. TypeOK /\ waiters \in Seq(Actors) /\ stage \in [Actors -> Stages]
  BY DEF IInv, TypeOK
<1>1. ASSUME UNCHANGED waiters, \A b \in Actors : stage'[b] = "waiting" <=> stage[b] = "waiting"
      PROVE  QueueIsExact'
  BY <1>1 DEF QueueIsExact
<1>2. ASSUME NEW a \in Actors, stage[a] # "waiting", Acquire(a)
      PROVE  QueueIsExact'
  <2>1. CASE MayTake
    BY <1>0, <1>1, <1>2, <2>1 DEF Acquire, EnterRun
  <2>2. CASE ~MayTake
    BY <1>0, <1>2, <2>2, AppendKeepsQueue DEF Acquire
  <2> QED
    BY <2>1, <2>2
<1>3. ASSUME NEW a \in Actors, Granted(a)
      PROVE  QueueIsExact'
  <2>1. waiters # <<>> /\ a = waiters[1] /\ waiters' = Tail(waiters)
        /\ stage' = [stage EXCEPT ![a] = "running"]
    BY <1>0, <1>3 DEF Granted, EnterRun
  <2>2. 1 \in DOMAIN waiters /\ Len(waiters') = Len(waiters) - 1 /\ waiters' \in Seq(Actors)
    BY <1>0, <2>1
  <2>3. \A j \in 1..(Len(waiters) - 1) :
          waiters'[j] = IF j < 1 THEN waiters[j] ELSE waiters[j + 1]
    BY <1>0, <2>1
  <2>4. "running" \in Stages \ {"waiting"}
    BY DEF Stages
  <2> QED
    BY <1>0, <2>1, <2>2, <2>3, <2>4, RemoveKeepsQueue
<1>4. CASE PeriodicCancelled
  <2>1. CASE stage[Periodic] = "waiting"
    <3>1. waiters' = WaitersWithout(Periodic) /\ stage' = [stage EXCEPT ![Periodic] = "done"]
      BY <1>4, <2>1 DEF PeriodicCancelled
    <3>2. PICK i \in DOMAIN waiters :
            /\ waiters[i] = Periodic
            /\ \A j \in 1..(Len(waiters) - 1) :
                 waiters'[j] = IF j < i THEN waiters[j] ELSE waiters[j + 1]
      BY <1>0, <2>1, <3>1, WithoutChanges DEF Actors
    <3>3. waiters' \in Seq(Actors) /\ Len(waiters') = Len(waiters) - 1
      BY <1>0, <2>1, <3>1, WithoutChanges DEF Actors
    <3>4. "done" \in Stages \ {"waiting"}
      BY DEF Stages
    <3> QED
      BY <1>0, <3>1, <3>2, <3>3, <3>4, RemoveKeepsQueue
  <2>2. CASE stage[Periodic] # "waiting"
    BY <1>0, <1>1, <1>4, <2>2 DEF PeriodicCancelled
  <2> QED
    BY <2>1, <2>2
<1>5. ASSUME NEW a \in Requests, TriggerMtr(a)
      PROVE  QueueIsExact'
  BY <1>0, <1>1, <1>5 DEF TriggerMtr, lockVars
<1>6. ASSUME NEW a \in Actors, MtrExits(a) \/ MtrTimesOut(a) \/ KilledMtrReaped(a) \/ Persisted(a)
      PROVE  QueueIsExact'
  <2>1. stage[a] # "waiting" /\ UNCHANGED waiters
        /\ \E s \in Stages \ {"waiting"} : stage' = [stage EXCEPT ![a] = s]
    BY <1>6 DEF MtrExits, MtrTimesOut, KilledMtrReaped, Persisted, Finalize, AfterRun, Stages, lockVars
  <2> QED
    BY <1>0, <1>1, <2>1
<1>7. CASE PauseInterrupted
  BY <1>0, <1>1, <1>7 DEF PauseInterrupted, lockVars
<1>8. CASE UNCHANGED <<stage, waiters>>
  BY <1>1, <1>8
<1> QED
  BY <1>2, <1>3, <1>4, <1>5, <1>6, <1>7, <1>8
  DEF Next, RunStep, FirstTurn, IntervalOver, BeginShutdown, EndShutdown, vars, lockVars, Actors

-----------------------------------------------------------------------------
(* The order of the clients' runs, and the latest run.                      *)

\* a stands before b in the queue of the lock.
Before(a, b) == \E i, j \in DOMAIN waiters : i < j /\ waiters[i] = a /\ waiters[j] = b

Earlier(a, b) == runOf[a] # 0 /\ runOf[a] < runOf[b]

\* What keeps clients' runs in order: tasks reach the lock in the order of their records,
\* and the queue keeps that order.
OrderInv ==
  /\ \A a \in Requests : stage[a] # "pausing" /\ (runOf[a] # 0 => stage[a] # "idle")
  /\ ClientRunsInOrder
  /\ \A a, b \in Requests : Earlier(a, b) /\ stage[b] = "waiting" =>
       stage[a] # "spawned" /\ (stage[a] = "waiting" => Before(a, b))

\* An actor that holds the lock moves on, or the periodic runner does anything.
LEMMA MovingOnKeepsOrder ==
  ASSUME TypeOK, OrderInv, NEW a \in Actors, NEW s \in Stages,
         stage' = [stage EXCEPT ![a] = s],
         \A b \in Requests : runOf'[b] = runOf[b],
         a \in Requests =>
           \/ stage[a] \in {"running", "killing", "persisting"} /\ s \in {"persisting", "done"}
           \/ stage[a] = "running" /\ s = "killing",
         \A b, c \in Requests : Before(b, c) => Before(b, c)'
  PROVE  OrderInv'
<1>1. \A b \in Requests : b \in Actors /\ stage'[b] = IF b = a THEN s ELSE stage[b]
  BY DEF TypeOK, Actors
<1>2. \A b, c \in Requests : Earlier(b, c)' <=> Earlier(b, c)
  BY DEF Earlier
<1>3. \A b \in Requests : stage'[b] # "pausing" /\ (runOf'[b] # 0 => stage'[b] # "idle")
  BY <1>1 DEF OrderInv
<1>4. ASSUME NEW b \in Requests, NEW c \in Requests, Earlier(b, c)', stage'[c] \notin {"spawned", "waiting"}
      PROVE  stage'[b] \in {"persisting", "done"}
  <2>1. stage[c] \notin {"spawned", "waiting"}
    BY <1>1, <1>4
  <2>2. stage[b] \in {"persisting", "done"}
    BY <1>2, <1>4, <2>1 DEF OrderInv, ClientRunsInOrder, Earlier
  <2> QED
    BY <1>1, <2>2
<1>5. ASSUME NEW b \in Requests, NEW c \in Requests, Earlier(b, c)', stage'[c] = "waiting"
      PROVE  stage'[b] # "spawned" /\ (stage'[b] = "waiting" => Before(b, c)')
  <2>1. stage[c] = "waiting"
    BY <1>1, <1>5
  <2>2. stage[b] # "spawned" /\ (stage[b] = "waiting" => Before(b, c))
    BY <1>2, <1>5, <2>1 DEF OrderInv
  <2> QED
    BY <1>1, <2>2
<1> QED
  BY <1>3, <1>4, <1>5 DEF OrderInv, ClientRunsInOrder, Earlier

\* A client's run takes the lock after all earlier ones have ended.
LEMMA EnteringKeepsOrder ==
  ASSUME TypeOK, OrderInv, NEW a \in Requests, stage[a] \in {"spawned", "waiting"},
         stage' = [stage EXCEPT ![a] = "running"], UNCHANGED runOf,
         \A b \in Requests : Earlier(b, a) => stage[b] = "done",
         \A b, c \in Requests \ {a} : Before(b, c) => Before(b, c)'
  PROVE  OrderInv'
<1>1. \A b \in Requests : b \in Actors /\ stage'[b] = IF b = a THEN "running" ELSE stage[b]
  BY DEF TypeOK, Actors
<1>2. \A b, c \in Requests : Earlier(b, c)' <=> Earlier(b, c)
  BY DEF Earlier
<1>3. \A b \in Requests : runOf[b] \in Nat /\ ~Earlier(b, b)
  BY <1>1, ConstantsAssumption DEF Earlier, TypeOK
<1>4. ASSUME NEW b \in Requests, NEW c \in Requests, Earlier(b, c)', stage'[c] \notin {"spawned", "waiting"}
      PROVE  stage'[b] \in {"persisting", "done"}
  <2>1. CASE c = a
    BY <1>1, <1>2, <1>3, <1>4, <2>1
  <2>2. CASE c # a
    BY <1>1, <1>2, <1>4, <2>2 DEF OrderInv, ClientRunsInOrder, Earlier
  <2> QED
    BY <2>1, <2>2
<1>5. ASSUME NEW b \in Requests, NEW c \in Requests, Earlier(b, c)', stage'[c] = "waiting"
      PROVE  stage'[b] # "spawned" /\ (stage'[b] = "waiting" => Before(b, c)')
  BY <1>1, <1>2, <1>5 DEF OrderInv
<1>6. \A b \in Requests : stage'[b] # "pausing" /\ (runOf'[b] # 0 => stage'[b] # "idle")
  BY <1>1 DEF OrderInv
<1> QED
  BY <1>4, <1>5, <1>6 DEF OrderInv, ClientRunsInOrder, Earlier

\* A newcomer at the end of the queue does not change the order of the others.
LEMMA AppendKeepsBefore ==
  ASSUME TypeOK, NEW a \in Actors, waiters' = Append(waiters, a)
  PROVE  /\ \A b, c \in Requests : Before(b, c) => Before(b, c)'
         /\ \A b \in Requests : (\E i \in DOMAIN waiters : waiters[i] = b) => Before(b, a)'
<1>1. waiters \in Seq(Actors)
  BY DEF TypeOK
<1>2. /\ DOMAIN waiters = 1..Len(waiters) /\ DOMAIN waiters' = 1..(Len(waiters) + 1)
      /\ \A i \in DOMAIN waiters : waiters'[i] = waiters[i]
      /\ waiters'[Len(waiters) + 1] = a /\ Len(waiters) \in Nat
  BY <1>1
<1> QED
  BY <1>2 DEF Before

\* Taking one entry out of the queue does not change the order of the others.
LEMMA RemoveKeepsBefore ==
  ASSUME TypeOK, NEW k \in DOMAIN waiters,
         waiters' \in Seq(Actors), Len(waiters') = Len(waiters) - 1,
         \A j \in 1..(Len(waiters) - 1) :
           waiters'[j] = IF j < k THEN waiters[j] ELSE waiters[j + 1]
  PROVE  \A b, c \in Requests \ {waiters[k]} : Before(b, c) => Before(b, c)'
<1> SUFFICES ASSUME NEW b \in Requests \ {waiters[k]}, NEW c \in Requests \ {waiters[k]}, Before(b, c)
             PROVE  Before(b, c)'
  OBVIOUS
<1>1. DOMAIN waiters = 1..Len(waiters) /\ DOMAIN waiters' = 1..(Len(waiters) - 1) /\ Len(waiters) \in Nat
  BY DEF TypeOK
<1>2. PICK i, j \in DOMAIN waiters : i < j /\ waiters[i] = b /\ waiters[j] = c
  BY DEF Before
<1> DEFINE New(n) == IF n < k THEN n ELSE n - 1
<1>3. i # k /\ j # k
  BY <1>2
<1>4. New(i) \in DOMAIN waiters' /\ New(j) \in DOMAIN waiters' /\ New(i) < New(j)
  BY <1>1, <1>2, <1>3
<1>5. waiters'[New(i)] = b /\ waiters'[New(j)] = c
  BY <1>1, <1>2, <1>3
<1> QED
  BY <1>4, <1>5 DEF Before

\* A client's task that has its first turn is behind all earlier ones.
LEMMA FirstTurnKeepsOrder ==
  ASSUME IInv, QueueIsExact, OrderInv, NEW a \in Requests, FirstTurn(a)
  PROVE  OrderInv'
<1>0. TypeOK /\ MutualExclusion /\ a \in Actors /\ a # Periodic /\ stage[a] = "spawned"
  BY ConstantsAssumption DEF IInv, Actors, FirstTurn
<1>1. \A b \in Requests : b \in Actors /\ runOf[b] \in Nat /\ stage[b] \in Stages
  BY <1>0, ConstantsAssumption DEF TypeOK, Actors
<1>2. \A b \in Requests : Earlier(b, a) => stage[b] # "spawned"
  BY <1>0, <1>1 DEF FirstTurn, Earlier
<1>3. CASE MayTake
  <2>1. stage' = [stage EXCEPT ![a] = "running"] /\ UNCHANGED <<runOf, waiters>>
    BY <1>0, <1>3 DEF FirstTurn, Acquire, EnterRun
  <2>2. \A b \in Actors : stage[b] # "waiting" /\ ~Holding(b)
    BY <1>0, <1>3 DEF MayTake, QueueIsExact, MutualExclusion
  <2>3. \A b \in Requests : Earlier(b, a) => stage[b] = "done"
    BY <1>1, <1>2, <2>2 DEF OrderInv, Earlier, Holding, Stages
  <2>4. \A b, c \in Requests : Before(b, c) => Before(b, c)'
    BY <2>1 DEF Before
  <2> QED
    BY <1>0, <2>1, <2>3, <2>4, EnteringKeepsOrder
<1>4. CASE ~MayTake
  <2>1. waiters' = Append(waiters, a) /\ stage' = [stage EXCEPT ![a] = "waiting"] /\ UNCHANGED runOf
    BY <1>4 DEF FirstTurn, Acquire
  <2>2. \A b \in Requests : stage'[b] = IF b = a THEN "waiting" ELSE stage[b]
    BY <1>0, <1>1, <2>1 DEF TypeOK
  <2>3. \A b, c \in Requests : Earlier(b, c)' <=> Earlier(b, c)
    BY <2>1 DEF Earlier
  <2>4. ASSUME NEW b \in Requests, NEW c \in Requests, Earlier(b, c)', stage'[c] = "waiting"
        PROVE  stage'[b] # "spawned" /\ (stage'[b] = "waiting" => Before(b, c)')
    <3>1. CASE c = a
      <4>1. b # a /\ stage[b] # "spawned"
        BY <1>1, <1>2, <2>3, <2>4, <3>1 DEF Earlier
      <4>2. stage[b] = "waiting" => Before(b, a)'
        BY <1>0, <1>1, <2>1, AppendKeepsBefore DEF QueueIsExact
      <4> QED
        BY <2>2, <3>1, <4>1, <4>2
    <3>2. CASE c # a
      <4>1. stage[c] = "waiting" /\ Earlier(b, c)
        BY <2>2, <2>3, <2>4, <3>2
      <4>2. b # a /\ stage[b] # "spawned" /\ (stage[b] = "waiting" => Before(b, c))
        BY <1>0, <4>1 DEF OrderInv
      <4> QED
        BY <1>0, <2>1, <2>2, <4>2, AppendKeepsBefore
    <3> QED
      BY <3>1, <3>2
  <2>5. ASSUME NEW b \in Requests, NEW c \in Requests, Earlier(b, c)', stage'[c] \notin {"spawned", "waiting"}
        PROVE  stage'[b] \in {"persisting", "done"}
    <3>1. stage[c] \notin {"spawned", "waiting"} /\ Earlier(b, c)
      BY <2>2, <2>3, <2>5
    <3>2. stage[b] \in {"persisting", "done"}
      BY <3>1 DEF OrderInv, ClientRunsInOrder, Earlier
    <3> QED
      BY <1>0, <2>2, <3>2
  <2>6. \A b \in Requests : stage'[b] # "pausing" /\ (runOf'[b] # 0 => stage'[b] # "idle")
    BY <2>1, <2>2 DEF OrderInv
  <2> QED
    BY <2>4, <2>5, <2>6 DEF OrderInv, ClientRunsInOrder, Earlier
<1> QED
  BY <1>3, <1>4

\* The first of the queue takes the lock.
LEMMA GrantedKeepsOrder ==
  ASSUME IInv, QueueIsExact, OrderInv, NEW a \in Actors, Granted(a)
  PROVE  OrderInv'
<1>0. TypeOK /\ MutualExclusion /\ waiters \in Seq(Actors) /\ ~locked /\ waiters # <<>>
      /\ stage[a] = "waiting" /\ a = waiters[1] /\ waiters' = Tail(waiters)
      /\ stage' = [stage EXCEPT ![a] = "running"]
  BY DEF IInv, TypeOK, Granted, EnterRun
<1>1. /\ 1 \in DOMAIN waiters /\ waiters' \in Seq(Actors) /\ Len(waiters') = Len(waiters) - 1
      /\ \A j \in 1..(Len(waiters) - 1) : waiters'[j] = IF j < 1 THEN waiters[j] ELSE waiters[j + 1]
      /\ DOMAIN waiters = 1..Len(waiters)
  BY <1>0
<1>2. \A b, c \in Requests \ {a} : Before(b, c) => Before(b, c)'
  BY <1>0, <1>1, RemoveKeepsBefore
<1>3. CASE a \in Requests
  <2>1. UNCHANGED runOf
    BY <1>3, ConstantsAssumption DEF Granted, EnterRun
  <2>2. ASSUME NEW b \in Requests, Earlier(b, a)
        PROVE  stage[b] = "done"
    <3>1. stage[b] # "spawned" /\ (stage[b] = "waiting" => Before(b, a))
      BY <1>0, <1>3, <2>2 DEF OrderInv
    <3>2. ~Before(b, a)
      <4> SUFFICES ASSUME NEW i \in DOMAIN waiters, NEW j \in DOMAIN waiters, i < j, waiters[j] = a
                   PROVE  FALSE
        BY DEF Before
      <4>1. j = 1
        BY <1>0, <1>1 DEF QueueIsExact
      <4> QED
        BY <1>1, <4>1
    <3>3. b \in Actors /\ ~Holding(b) /\ stage[b] \in Stages
      BY <1>0 DEF MutualExclusion, Actors, TypeOK
    <3> QED
      BY <2>2, <3>1, <3>2, <3>3 DEF OrderInv, Earlier, Holding, Stages
  <2> QED
    BY <1>0, <1>2, <1>3, <2>1, <2>2, EnteringKeepsOrder
<1>4. CASE a \notin Requests
  <2>1. a = Periodic /\ CreateRun(a)
    BY <1>4 DEF Actors, Granted, EnterRun
  <2>2. \A b \in Requests : runOf'[b] = runOf[b]
    BY <1>4, <2>1, CreateRunChanges DEF Actors
  <2>3. "running" \in Stages
    BY DEF Stages
  <2> QED
    BY <1>0, <1>2, <1>4, <2>2, <2>3, MovingOnKeepsOrder
<1> QED
  BY <1>3, <1>4

\* The periodic runner reaches the lock.
LEMMA PeriodicKeepsOrder ==
  ASSUME IInv, OrderInv, Acquire(Periodic)
  PROVE  OrderInv'
<1>0. TypeOK /\ Periodic \in Actors /\ Periodic \notin Requests
  BY ConstantsAssumption DEF IInv, Actors
<1>1. PICK s \in Stages : stage' = [stage EXCEPT ![Periodic] = s]
  BY DEF Acquire, EnterRun, Stages
<1>2. \A b \in Requests : runOf'[b] = runOf[b]
  <2>1. CASE MayTake
    BY <1>0, <2>1, CreateRunChanges DEF Acquire, EnterRun, Actors
  <2>2. CASE ~MayTake
    BY <2>2 DEF Acquire
  <2> QED
    BY <2>1, <2>2
<1>3. \A b, c \in Requests : Before(b, c) => Before(b, c)'
  <2>1. CASE MayTake
    BY <2>1 DEF Acquire, Before
  <2>2. CASE ~MayTake
    BY <1>0, <2>2, AppendKeepsBefore DEF Acquire
  <2> QED
    BY <2>1, <2>2
<1> QED
  BY <1>0, <1>1, <1>2, <1>3, MovingOnKeepsOrder

\* A new run is later than all others.
LEMMA TriggerKeepsOrder ==
  ASSUME IInv, OrderInv, NEW a \in Requests, TriggerMtr(a)
  PROVE  OrderInv'
<1>0. TypeOK /\ RecordsMatchStages /\ a \in Actors /\ CreateRun(a) /\ stage[a] = "idle"
      /\ UNCHANGED waiters
  BY DEF IInv, TriggerMtr, Actors, lockVars
<1>1. \A b \in Requests : b \in Actors /\ runOf[b] \in 0..created /\ created \in Nat
  BY <1>0, ConstantsAssumption DEF TypeOK, RecordsMatchStages, Actors
<1>2. \A b \in Requests : /\ stage'[b] = IF b = a THEN "spawned" ELSE stage[b]
                          /\ runOf'[b] = IF b = a THEN created + 1 ELSE runOf[b]
  BY <1>0, <1>1, CreateRunChanges DEF TriggerMtr, TypeOK
<1>3. runOf[a] = 0
  BY <1>0 DEF OrderInv
<1>4. ASSUME NEW b \in Requests, NEW c \in Requests, Earlier(b, c)', stage'[c] # "spawned"
      PROVE  b # a /\ c # a /\ Earlier(b, c)
  BY <1>1, <1>2, <1>4 DEF Earlier
<1>5. ASSUME NEW b \in Requests, NEW c \in Requests, Earlier(b, c)', stage'[c] \notin {"spawned", "waiting"}
      PROVE  stage'[b] \in {"persisting", "done"}
  BY <1>2, <1>4, <1>5 DEF OrderInv, ClientRunsInOrder, Earlier
<1>6. ASSUME NEW b \in Requests, NEW c \in Requests, Earlier(b, c)', stage'[c] = "waiting"
      PROVE  stage'[b] # "spawned" /\ (stage'[b] = "waiting" => Before(b, c)')
  <2>1. Earlier(b, c) /\ b # a /\ c # a
    BY <1>4, <1>6
  <2>2. stage[b] # "spawned" /\ (stage[b] = "waiting" => Before(b, c))
    BY <1>2, <1>6, <2>1 DEF OrderInv
  <2> QED
    BY <1>0, <1>2, <2>1, <2>2 DEF Before
<1>7. \A b \in Requests : stage'[b] # "pausing" /\ (runOf'[b] # 0 => stage'[b] # "idle")
  BY <1>2 DEF OrderInv
<1> QED
  BY <1>5, <1>6, <1>7 DEF OrderInv, ClientRunsInOrder, Earlier

\* The order of the clients' runs is kept by every step.
LEMMA OrderStep ==
  ASSUME IInv, QueueIsExact, OrderInv, [Next]_vars
  PROVE  OrderInv'
<1>0. TypeOK /\ Periodic \in Actors /\ Periodic \notin Requests
  BY ConstantsAssumption DEF IInv, Actors
<1>1. ASSUME NEW a \in Actors, FirstTurn(a)
      PROVE  OrderInv'
  <2>1. CASE a \in Requests
    BY <1>1, <2>1, FirstTurnKeepsOrder
  <2>2. CASE a = Periodic
    BY <1>1, <2>2, PeriodicKeepsOrder DEF FirstTurn
  <2> QED
    BY <2>1, <2>2 DEF Actors
<1>2. ASSUME NEW a \in Actors, MtrExits(a) \/ MtrTimesOut(a) \/ KilledMtrReaped(a) \/ Persisted(a)
      PROVE  OrderInv'
  <2>1. /\ UNCHANGED <<runOf, waiters>>
        /\ \E s \in Stages :
             /\ stage' = [stage EXCEPT ![a] = s]
             /\ a \in Requests =>
                  \/ stage[a] \in {"running", "killing", "persisting"} /\ s \in {"persisting", "done"}
                  \/ stage[a] = "running" /\ s = "killing"
    BY <1>0, <1>2 DEF MtrExits, MtrTimesOut, KilledMtrReaped, Persisted, Finalize, AfterRun, Stages,
       lockVars
  <2>2. \A b, c \in Requests : Before(b, c) => Before(b, c)'
    BY <2>1 DEF Before
  <2> QED
    BY <1>0, <2>1, <2>2, MovingOnKeepsOrder
<1>3. CASE PauseInterrupted
  <2>1. "done" \in Stages /\ stage' = [stage EXCEPT ![Periodic] = "done"] /\ UNCHANGED <<runOf, waiters>>
    BY <1>3 DEF PauseInterrupted, Stages, lockVars
  <2>2. \A b, c \in Requests : Before(b, c) => Before(b, c)'
    BY <2>1 DEF Before
  <2> QED
    BY <1>0, <2>1, <2>2, MovingOnKeepsOrder
<1>4. CASE PeriodicCancelled
  <2>1. "done" \in Stages /\ stage' = [stage EXCEPT ![Periodic] = "done"] /\ UNCHANGED runOf
    BY <1>4 DEF PeriodicCancelled, Stages
  <2>2. \A b, c \in Requests : Before(b, c) => Before(b, c)'
    <3>1. CASE stage[Periodic] = "waiting"
      <4>1. waiters' = WaitersWithout(Periodic)
        BY <1>4, <3>1 DEF PeriodicCancelled
      <4>2. PICK k \in DOMAIN waiters :
              /\ waiters[k] = Periodic
              /\ \A j \in 1..(Len(waiters) - 1) :
                   waiters'[j] = IF j < k THEN waiters[j] ELSE waiters[j + 1]
        BY <1>0, <3>1, <4>1, WithoutChanges
      <4>3. waiters' \in Seq(Actors) /\ Len(waiters') = Len(waiters) - 1
        BY <1>0, <3>1, <4>1, WithoutChanges
      <4> QED
        BY <1>0, <4>2, <4>3, RemoveKeepsBefore
    <3>2. CASE stage[Periodic] # "waiting"
      BY <1>4, <3>2 DEF PeriodicCancelled, Before
    <3> QED
      BY <3>1, <3>2
  <2> QED
    BY <1>0, <2>1, <2>2, MovingOnKeepsOrder
<1>5. CASE UNCHANGED <<stage, runOf, waiters>>
  BY <1>5 DEF OrderInv, ClientRunsInOrder, Earlier, Before
<1> QED
  BY <1>1, <1>2, <1>3, <1>4, <1>5, GrantedKeepsOrder, TriggerKeepsOrder, PeriodicKeepsOrder
  DEF Next, RunStep, IntervalOver, BeginShutdown, EndShutdown, vars, lockVars

\* The latest run is the last to end, when nothing is under way, in every step.
LEMMA LatestStep ==
  ASSUME IInv, LatestWhenIdle, [Next]_vars
  PROVE  LatestWhenIdle'
<1>0. TypeOK /\ RecordsMatchStages /\ HistoryIsSound
  BY DEF IInv
<1>1. ASSUME NEW a \in Actors, CreateRun(a)
      PROVE  LatestWhenIdle'
  <2>1. created + 1 \in Runs /\ status'[created + 1] = "running"
    BY <1>1, CreateRunChanges
  <2> QED
    BY <2>1 DEF LatestWhenIdle, Unfinished
<1>2. ASSUME NEW a \in Actors, NEW s \in {"completed", "failed", "timeout"}, Holding(a), Finalize(a, s)
      PROVE  LatestWhenIdle'
  <2>1. runOf[a] \in Runs
    BY <1>0, <1>2 DEF RecordsMatchStages, TypeOK, Runs
  <2>2. history' = Push(history, runOf[a]) /\ latest' = runOf[a]
    BY <1>2 DEF Finalize, FinalizeRun, LatestAfter
  <2> QED
    BY <1>0, <2>1, <2>2, PushKeepsEntries DEF LatestWhenIdle, HistoryIsSound, TypeOK
<1>3. CASE UNCHANGED storeVars
  BY <1>3 DEF LatestWhenIdle, Unfinished, storeVars
<1>4. ASSUME NEW a \in Actors, Acquire(a)
      PROVE  LatestWhenIdle'
  BY <1>1, <1>3, <1>4 DEF Acquire, EnterRun, storeVars
<1>5. ASSUME NEW a \in Actors, Granted(a)
      PROVE  LatestWhenIdle'
  BY <1>1, <1>3, <1>5 DEF Granted, EnterRun, storeVars
<1>6. ASSUME NEW a \in Actors, MtrExits(a) \/ KilledMtrReaped(a)
      PROVE  LatestWhenIdle'
  BY <1>2, <1>6 DEF MtrExits, KilledMtrReaped, ExitStatuses, Holding
<1>7. ASSUME NEW a \in Actors, MtrTimesOut(a) \/ Persisted(a)
      PROVE  LatestWhenIdle'
  BY <1>3, <1>7 DEF MtrTimesOut, Persisted
<1>8. CASE BeginShutdown \/ PauseInterrupted \/ PeriodicCancelled \/ EndShutdown \/ UNCHANGED vars
  BY <1>3, <1>8 DEF BeginShutdown, PauseInterrupted, PeriodicCancelled, EndShutdown, vars
<1>9. ASSUME NEW a \in Requests, TriggerMtr(a)
      PROVE  LatestWhenIdle'
  BY <1>1, <1>9 DEF TriggerMtr, Actors
<1> QED
  BY <1>4, <1>5, <1>6, <1>7, <1>8, <1>9 DEF Next, RunStep, FirstTurn, IntervalOver, Actors

-----------------------------------------------------------------------------
(* The life of a run.                                                       *)

EndStatuses == {"completed", "failed", "timeout"}

\* Run r begins: it is the next one.
Begins(r) ==
  /\ status[r] = "none" /\ status'[r] = "running"
  /\ r = created + 1 /\ latest' = r /\ history' = history

\* Run r ends and enters the history.
Ends(r) ==
  /\ status[r] = "running" /\ status'[r] \in EndStatuses
  /\ latest' = r /\ history' = Push(history, r)

\* A step of the store begins one run or ends one that is RUNNING, and touches no other.
OneRunMoves ==
  \E r \in Runs : /\ Begins(r) \/ Ends(r)
                  /\ \A x \in Runs \ {r} : status'[x] = status[x]

\* A run is created once, ends at most once, and enters the history when it ends and only then.
RunsEndOnce == [][OneRunMoves]_<<status, history, latest>>

\* create_run and finalize_run are the only steps of the store, and come in this order.
LEMMA StoreMoves ==
  ASSUME IInv, [Next]_vars
  PROVE  OneRunMoves \/ UNCHANGED <<status, history, latest>>
<1> USE ConstantsAssumption
<1>1. /\ created \in 0..MaxRuns /\ status \in [Runs -> RunStatuses]
      /\ \A a \in Actors : runOf[a] \in 0..MaxRuns
  BY DEF IInv, TypeOK
<1>2. ASSUME NEW a \in Actors, CreateRun(a)
      PROVE  OneRunMoves
  <2>1. created + 1 \in Runs /\ status[created + 1] = "none"
    BY <1>1, <1>2 DEF CreateRun, IInv, RecordsMatchStages, Runs
  <2>2. Begins(created + 1) /\ \A x \in Runs \ {created + 1} : status'[x] = status[x]
    BY <1>1, <1>2, <2>1 DEF CreateRun, Begins
  <2> QED
    BY <2>1, <2>2 DEF OneRunMoves
<1>3. ASSUME NEW a \in Actors, stage[a] \in {"running", "killing"}, NEW s \in EndStatuses,
             Finalize(a, s)
      PROVE  OneRunMoves
  <2>1. runOf[a] \in Runs /\ status[runOf[a]] = "running"
    BY <1>1, <1>3 DEF IInv, RecordsMatchStages, Holding, Runs
  <2>2. Ends(runOf[a]) /\ \A x \in Runs \ {runOf[a]} : status'[x] = status[x]
    BY <1>1, <1>3, <2>1 DEF Finalize, FinalizeRun, LatestAfter, Ends
  <2> QED
    BY <2>1, <2>2 DEF OneRunMoves
<1>4. Periodic \in Actors /\ Requests \subseteq Actors
  BY DEF Actors
<1>5. ASSUME NEW a \in Actors, EnterRun(a)
      PROVE  OneRunMoves \/ UNCHANGED <<status, history, latest>>
  BY <1>2, <1>5 DEF EnterRun, storeVars
<1>6. ASSUME NEW a \in Actors, Acquire(a)
      PROVE  OneRunMoves \/ UNCHANGED <<status, history, latest>>
  BY <1>5, <1>6 DEF Acquire, storeVars
<1>7. ASSUME NEW a \in Actors, RunStep(a)
      PROVE  OneRunMoves \/ UNCHANGED <<status, history, latest>>
  <2>1. CASE FirstTurn(a)
    BY <1>6, <2>1 DEF FirstTurn
  <2>2. CASE Granted(a)
    BY <1>5, <2>2 DEF Granted
  <2>3. CASE MtrExits(a)
    BY <1>3, <2>3 DEF MtrExits, ExitStatuses, EndStatuses
  <2>4. CASE KilledMtrReaped(a)
    BY <1>3, <2>4 DEF KilledMtrReaped, EndStatuses
  <2>5. CASE MtrTimesOut(a) \/ Persisted(a)
    BY <2>5 DEF MtrTimesOut, Persisted, storeVars
  <2> QED
    BY <1>7, <2>1, <2>2, <2>3, <2>4, <2>5 DEF RunStep
<1>8. ASSUME NEW a \in Requests, TriggerMtr(a)
      PROVE  OneRunMoves
  BY <1>2, <1>4, <1>8 DEF TriggerMtr
<1>9. CASE IntervalOver
  BY <1>4, <1>6, <1>9 DEF IntervalOver
<1>10. CASE BeginShutdown \/ PauseInterrupted \/ PeriodicCancelled \/ EndShutdown
  BY <1>10 DEF BeginShutdown, PauseInterrupted, PeriodicCancelled, EndShutdown, storeVars
<1>11. CASE UNCHANGED vars
  BY <1>11 DEF vars, storeVars
<1> QED
  BY <1>7, <1>8, <1>9, <1>10, <1>11 DEF Next

-----------------------------------------------------------------------------
(* The theorems.                                                            *)

\* The inductive invariant behind all theorems about mtr_runner.py, and the exact queue
\* of its lock, hold in every reachable state.
THEOREM MtrInductive == Spec => [](IInv /\ QueueIsExact)
<1>1. Init => QueueIsExact
  BY DEF Init, QueueIsExact
<1>2. IInv /\ QueueIsExact /\ [Next]_vars => IInv' /\ QueueIsExact'
  BY MtrStep, QueueStep
<1> QED
  BY <1>1, <1>2, MtrInit, PTL DEF Spec

\* mtr_runner.py, mtr_store.py: lock, queue and store stay within their types.
THEOREM MtrTypeCorrect == Spec => []TypeOK
<1>1. IInv => TypeOK
  BY DEF IInv
<1> QED
  BY <1>1, MtrInductive, PTL

\* _run_with_lock: two runs are never executed at once, and is_mtr_running is true
\* exactly while one is.
THEOREM OneRunAtATime == Spec => []MutualExclusion
<1>1. IInv => MutualExclusion
  BY DEF IInv
<1> QED
  BY <1>1, MtrInductive, PTL

\* asyncio.Lock: no waiter is lost, queued twice, or left behind after a cancellation.
THEOREM QueueExact == Spec => []QueueIsExact
BY MtrInductive, PTL

\* MtrStore.finalize_run: the history is bounded, shows ended runs only, each once.
THEOREM HistorySound == Spec => []HistoryIsSound
<1>1. IInv => HistoryIsSound
  BY DEF IInv
<1> QED
  BY <1>1, MtrInductive, PTL

\* trigger_mtr_now: tasks reach the lock, wait for it and run in the order in which the
\* requests were accepted, whatever the periodic runner does in between.
THEOREM ClientsInOrder == Spec => []ClientRunsInOrder
<1>1. Init => OrderInv
  <2> SUFFICES ASSUME Init PROVE OrderInv
    OBVIOUS
  <2>1. \A a \in Requests : a \in Actors /\ a # Periodic
    BY ConstantsAssumption DEF Actors
  <2>2. \A a \in Requests : runOf[a] = 0 /\ stage[a] = "idle"
    BY <2>1 DEF Init
  <2> QED
    BY <2>2 DEF OrderInv, ClientRunsInOrder, Earlier
<1>2. IInv /\ QueueIsExact /\ OrderInv /\ [Next]_vars => OrderInv'
  BY OrderStep
<1>3. OrderInv => ClientRunsInOrder
  BY DEF OrderInv
<1> QED
  BY <1>1, <1>2, <1>3, MtrInductive, PTL DEF Spec

\* MtrStore.finalize_run: when every run has ended, GET /mtr shows the last one that did.
THEOREM LatestIsLast == Spec => []LatestWhenIdle
<1>1. Init => LatestWhenIdle
  BY DEF Init, LatestWhenIdle
<1>2. IInv /\ LatestWhenIdle /\ [Next]_vars => LatestWhenIdle'
  BY LatestStep
<1> QED
  BY <1>1, <1>2, MtrInductive, PTL DEF Spec

\* MtrStore.create_run, finalize_run: no run ends twice, also when mtr times out while it is
\* about to exit or the runner is cancelled, and the history records exactly the ends.
THEOREM RunsEnd == Spec => RunsEndOnce
<1>1. IInv /\ [Next]_vars => [OneRunMoves]_<<status, history, latest>>
  BY StoreMoves
<1> QED
  BY <1>1, MtrInductive, PTL DEF Spec, RunsEndOnce

=============================================================================
