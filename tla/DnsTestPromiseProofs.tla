------------------------ MODULE DnsTestPromiseProofs ------------------------
(***************************************************************************)
(* Proofs, from the inductive invariant of DnsTestLifecycleProofs, that    *)
(* the life of a DNS test implements TestRuns, that the caps on RUNNING    *)
(* tests hold as long as requests do not overlap, and that an autonomous   *)
(* test runs until the shutdown.                                           *)
(***************************************************************************)
EXTENDS DnsTestLifecycleProofs

\* The start of the process is a start of TestRuns.
LEMMA PromiseInit == Init => TestRunsPromise!Init
BY ConstantsAssumption DEF Init, TestRunsPromise!Init

\* Every step is a step of TestRuns or changes nothing TestRuns shows.
LEMMA PromiseStep ==
  ASSUME IInv, [Next]_vars
  PROVE  [TestRunsPromise!Next]_(TestRunsPromise!vars)
<1>0. TypeOK /\ PcMatchesStatus /\ RegistriesMatchPc /\ DeletesMatchTests
  BY DEF IInv
<1> DEFINE Promise == [TestRunsPromise!Next]_(TestRunsPromise!vars)
<1>1. CASE UNCHANGED <<status, cancelled, recorded, summary>>
  BY <1>1 DEF TestRunsPromise!vars
<1>2. ASSUME NEW t \in Tests, NEW c \in Creds, CreateTest(t, c)
      PROVE  Promise
  <2>1. TestRunsPromise!Create(t)
    BY <1>2 DEF CreateTest, TestRunsPromise!Create
  <2> QED
    BY <2>1 DEF TestRunsPromise!Next
<1>3. ASSUME NEW t \in Tests, Begin(t)
      PROVE  Promise
  <2>1. TestRunsPromise!Start(t)
    BY <1>0, <1>3 DEF Begin, PcMatchesStatus, TestRunsPromise!Start
  <2> QED
    BY <2>1 DEF TestRunsPromise!Next
<1>4. ASSUME NEW t \in Tests, Finish(t)
      PROVE  Promise
  <2>1. TestRunsPromise!End(t)
    BY <1>4, FinishEnds DEF TestRunsPromise!End
  <2> QED
    BY <2>1 DEF TestRunsPromise!Next
<1>5. ASSUME NEW t \in Tests, NEW q \in Queries, QueryStep(t, q)
      PROVE  Promise
  <2>1. status[t] = "running"
    BY <1>5, PendingMeansRunning
    DEF QueryStep, StartQuery, SkipQuery, AnswerThenProbe, AnswerLast, AnswerProbe, AtSemaphore,
        Pending
  <2>2. /\ UNCHANGED <<status, cancelled, summary>>
        /\ UNCHANGED recorded \/ recorded' = [recorded EXCEPT ![t] = @ + 1]
    BY <1>5 DEF QueryStep, StartQuery, SkipQuery, AnswerThenProbe, AnswerLast, AnswerProbe,
       storeVars, eventVars
  <2>3. CASE recorded' = [recorded EXCEPT ![t] = @ + 1]
    <3>1. TestRunsPromise!Record(t)
      BY <2>1, <2>2, <2>3 DEF TestRunsPromise!Record
    <3> QED
      BY <3>1 DEF TestRunsPromise!Next
  <2> QED
    BY <1>1, <2>2, <2>3
<1>6. ASSUME NEW S \in SUBSET Tests, cancelled' = cancelled \cup S,
             \A t \in S : status[t] # "absent", UNCHANGED storeVars
      PROVE  Promise
  <2>1. TestRunsPromise!Request(S)
    BY <1>6 DEF TestRunsPromise!Request, storeVars
  <2> QED
    BY <2>1 DEF TestRunsPromise!Next
<1>7. ASSUME NEW d \in Deleters, NEW t \in Tests, DeleteAccepted(d, t)
      PROVE  Promise
  <2>1. CASE t \in cancelEvents
    <3>1. /\ {t} \in SUBSET Tests
          /\ cancelled' = cancelled \cup {t}
          /\ \A u \in {t} : status[u] # "absent"
          /\ UNCHANGED storeVars
      BY <1>7, <2>1 DEF DeleteAccepted, MayDelete
    <3> QED
      BY <1>6, <3>1
  <2>2. CASE t \notin cancelEvents
    BY <1>1, <1>7, <2>2 DEF DeleteAccepted, storeVars
  <2> QED
    BY <2>1, <2>2
<1>8. CASE BeginShutdown
  <2>1. cancelEvents \in SUBSET Tests /\ \A t \in cancelEvents : status[t] # "absent"
    BY <1>0 DEF TypeOK, RegistriesMatchPc, PcMatchesStatus
  <2> QED
    BY <1>6, <1>8, <2>1 DEF BeginShutdown
<1> QED
  BY <1>1, <1>2, <1>3, <1>4, <1>5, <1>7, <1>8
  DEF Next, TaskStep, BeginRaises, Iterate, CheckpointSaved, Gather, SnapshotSaved, Retire,
      DeleteRefused, CancelTimesOut, DeleteReturns, EndShutdown, vars, storeVars, eventVars

\* run(), _execute_query, cancel_test, cancel_all_tests: tasks, permits, registries and
\* time-outs together keep the promise of TestRuns, that a test records only while it
\* is RUNNING and ends once, COMPLETED or CANCELLED as it should be.
THEOREM KeepsPromise == Spec => ImplementsTestRuns
<1>1. IInv /\ [Next]_vars => [TestRunsPromise!Next]_(TestRunsPromise!vars)
  BY PromiseStep
<1> QED
  BY <1>1, PromiseInit, Inductive, PTL DEF Spec, ImplementsTestRuns, TestRunsPromise!Spec

-----------------------------------------------------------------------------
(* The caps on RUNNING tests.                                               *)

OwnedBy(c) == {t \in RunningTests : owner[t] = c}

\* Between an admission check and the first turn of the test's task no other request
\* is admitted, so the check still holds in that turn.
OneAdmittedAtATime ==
  /\ \A t, u \in Tests : pc[t] = "created" /\ pc[u] = "created" => t = u
  /\ \A t \in Tests : pc[t] = "created" => Cardinality(RunningTests) < MaxConcurrentRuns
  /\ \A t \in Tests, c \in Creds :
       pc[t] = "created" /\ owner[t] = c => Cardinality(OwnedBy(c)) < MaxActiveJobs

CapInv ==
  /\ OneAdmittedAtATime
  /\ Cardinality(RunningTests) <= MaxConcurrentRuns
  /\ \A c \in Creds : Cardinality(OwnedBy(c)) <= MaxActiveJobs

\* The RUNNING tests are finitely many.
LEMMA RunningFinite ==
  /\ IsFiniteSet(RunningTests) /\ Cardinality(RunningTests) \in Nat
  /\ \A c : IsFiniteSet(OwnedBy(c)) /\ Cardinality(OwnedBy(c)) \in Nat
<1>1. IsFiniteSet(RunningTests)
  BY ConstantsAssumption, FS_Subset DEF RunningTests
<1>2. ASSUME NEW c PROVE IsFiniteSet(OwnedBy(c))
  BY <1>1, FS_Subset DEF OwnedBy
<1> QED
  BY <1>1, <1>2, FS_CardinalityType

\* A step that starts nothing.
LEMMA FewerRunning ==
  ASSUME CapInv, RunningTests' \subseteq RunningTests,
         UNCHANGED owner,
         \A t \in Tests : pc'[t] = "created" => pc[t] = "created"
  PROVE  CapInv'
<1>1. \A c : OwnedBy(c)' \subseteq OwnedBy(c)
  BY DEF OwnedBy
<1>2. /\ Cardinality(RunningTests') \in Nat
      /\ Cardinality(RunningTests') <= Cardinality(RunningTests)
  BY RunningFinite, FS_Subset, FS_CardinalityType
<1>3. ASSUME NEW c
      PROVE  /\ Cardinality(OwnedBy(c)') \in Nat
             /\ Cardinality(OwnedBy(c)') <= Cardinality(OwnedBy(c))
  BY <1>1, RunningFinite, FS_Subset, FS_CardinalityType
<1>4. OneAdmittedAtATime'
  <2>1. ASSUME NEW t \in Tests, pc'[t] = "created"
        PROVE  Cardinality(RunningTests') < MaxConcurrentRuns
    BY <1>2, <2>1, RunningFinite, ConstantsAssumption DEF CapInv, OneAdmittedAtATime
  <2>2. ASSUME NEW t \in Tests, NEW c \in Creds, pc'[t] = "created", owner'[t] = c
        PROVE  Cardinality(OwnedBy(c)') < MaxActiveJobs
    <3>1. Cardinality(OwnedBy(c)) < MaxActiveJobs
      BY <2>2 DEF CapInv, OneAdmittedAtATime
    <3> QED
      BY <1>3, <3>1, RunningFinite, ConstantsAssumption
  <2> QED
    BY <2>1, <2>2 DEF CapInv, OneAdmittedAtATime
<1> QED
  BY <1>2, <1>3, <1>4, RunningFinite, ConstantsAssumption DEF CapInv

\* When a created test starts before the next POST is handled, no step exceeds the caps.
LEMMA CapStep ==
  ASSUME ~PostsOverlap, Autonomous = {}, IInv, CapInv, [Next]_vars
  PROVE  CapInv'
<1>0. TypeOK /\ PcMatchesStatus /\ RegistriesMatchPc /\ DeletesMatchTests
  BY DEF IInv
<1> USE <1>0 DEF TypeOK
<1>1. CASE UNCHANGED <<status, owner>> /\ \A t \in Tests : pc'[t] = "created" => pc[t] = "created"
  BY <1>1, FewerRunning DEF RunningTests, Running
<1>2. ASSUME NEW t \in Tests, NEW c \in Creds, CreateTest(t, c)
      PROVE  CapInv'
  <2>1. /\ RunningTests' = RunningTests
        /\ t \notin RunningTests
        /\ \A u \in Tests : u # t => owner'[u] = owner[u]
    BY <1>2 DEF CreateTest, RunningTests, Running
  <2>2. \A x : OwnedBy(x)' = OwnedBy(x)
    BY <2>1 DEF OwnedBy, RunningTests
  <2>3. /\ owner'[t] = c
        /\ \A u \in Tests : pc'[u] = "created" => u = t
        /\ RunAllowed(c)
    BY <1>2 DEF CreateTest
  <2>4. Cardinality(RunningTests) < MaxConcurrentRuns /\ Cardinality(OwnedBy(c)) < MaxActiveJobs
    BY <2>3 DEF RunAllowed, OwnedBy
  <2>5. OneAdmittedAtATime'
    BY <2>1, <2>2, <2>3, <2>4 DEF OneAdmittedAtATime
  <2> QED
    BY <2>1, <2>2, <2>5 DEF CapInv
<1>3. ASSUME NEW t \in Tests, Begin(t)
      PROVE  CapInv'
  <2>1. /\ RunningTests' = RunningTests \cup {t} /\ t \notin RunningTests
        /\ UNCHANGED owner
        /\ \A u \in Tests : pc'[u] # "created"
    BY <1>3 DEF Begin, RunningTests, Running, CapInv, OneAdmittedAtATime, PcMatchesStatus
  <2>2. /\ Cardinality(RunningTests) < MaxConcurrentRuns
        /\ owner[t] \in Creds => Cardinality(OwnedBy(owner[t])) < MaxActiveJobs
    BY <1>3 DEF Begin, CapInv, OneAdmittedAtATime
  <2>3. Cardinality(RunningTests') <= MaxConcurrentRuns
    <3>1. Cardinality(RunningTests') = Cardinality(RunningTests) + 1
      BY <2>1, RunningFinite, FS_AddElement
    <3>2. Cardinality(RunningTests') \in Nat
      BY <2>1, RunningFinite, FS_AddElement, FS_CardinalityType
    <3> QED
      BY <2>2, <3>1, <3>2, RunningFinite, ConstantsAssumption
  <2>4. ASSUME NEW c \in Creds
        PROVE  Cardinality(OwnedBy(c)') <= MaxActiveJobs
    <3>1. CASE c = owner[t]
      <4>1. OwnedBy(c)' = OwnedBy(c) \cup {t} /\ t \notin OwnedBy(c)
        BY <2>1, <3>1 DEF OwnedBy
      <4>2. Cardinality(OwnedBy(c)') = Cardinality(OwnedBy(c)) + 1
        BY <4>1, RunningFinite, FS_AddElement
      <4>3. Cardinality(OwnedBy(c)') \in Nat
        BY <4>1, RunningFinite, FS_AddElement, FS_CardinalityType
      <4> QED
        BY <2>2, <3>1, <4>2, <4>3, RunningFinite, ConstantsAssumption
    <3>2. CASE c # owner[t]
      <4>1. OwnedBy(c)' = OwnedBy(c)
        BY <2>1, <3>2 DEF OwnedBy
      <4> QED
        BY <4>1 DEF CapInv
    <3> QED
      BY <3>1, <3>2
  <2> QED
    BY <2>1, <2>3, <2>4 DEF CapInv, OneAdmittedAtATime
<1>4. ASSUME NEW t \in Tests, Finish(t)
      PROVE  CapInv'
  <2>1. \A u \in Tests : u # t => status'[u] = status[u]
    BY <1>4, FinishEnds
  <2>2. status[t] = "running" /\ UNCHANGED owner
    BY <1>4, FinishEnds
  <2>3. \A u \in Tests : pc'[u] = "created" => pc[u] = "created"
    BY <1>4, FinishEnds DEF Retire
  <2> QED
    BY <2>1, <2>2, <2>3, FewerRunning DEF RunningTests, Running
<1>5. ASSUME NEW d \in Deleters, CancelTimesOut(d)
      PROVE  CapInv'
  BY <1>1, <1>5, TimeOutChanges DEF CancelTimesOut, storeVars
<1>6. ASSUME NEW t \in Tests,
             BeginRaises(t) \/ Iterate(t) \/ CheckpointSaved(t) \/ Gather(t) \/ SnapshotSaved(t)
      PROVE  CapInv'
  BY <1>1, <1>6 DEF BeginRaises, Iterate, CheckpointSaved, Gather, SnapshotSaved, Retire, storeVars
<1> QED
  BY <1>1, <1>2, <1>3, <1>4, <1>5, <1>6
  DEF Next, TaskStep, QueryStep, StartQuery, SkipQuery, AnswerThenProbe, AnswerLast, AnswerProbe,
      DeleteRefused, DeleteAccepted, DeleteReturns, BeginShutdown, EndShutdown,
      vars, storeVars, runVars

\* In API mode, when no request is handled between an admitted test and the first turn of
\* its task, both caps of check_dns_run_allowed hold.
LEMMA CapsInvariant ==
  ASSUME ~PostsOverlap, Autonomous = {}
  PROVE  Spec => []CapInv
<1>1. Init => CapInv
  <2> SUFFICES ASSUME Init PROVE CapInv
    OBVIOUS
  <2>1. RunningTests = {} /\ \A c : OwnedBy(c) = {}
    BY DEF Init, RunningTests, Running, OwnedBy
  <2>2. \A t \in Tests : pc[t] # "created"
    BY DEF Init
  <2> QED
    BY <2>1, <2>2, FS_EmptySet, ConstantsAssumption DEF CapInv, OneAdmittedAtATime
<1>2. IInv /\ CapInv /\ [Next]_vars => CapInv'
  BY CapStep
<1> QED
  BY <1>1, <1>2, Inductive, PTL DEF Spec

\* "max concurrent DNS runs reached" (app/security/abuse.py:23).  The run overlapping_posts
\* shows that the cap fails without the assumption.
THEOREM RunsCapHolds ==
  ASSUME ~PostsOverlap, Autonomous = {}
  PROVE  Spec => []RunsCapped
<1>1. CapInv => RunsCapped
  BY DEF CapInv, RunsCapped
<1> QED
  BY <1>1, CapsInvariant, PTL

\* "max active jobs per credential reached" (app/security/abuse.py:31).
THEOREM JobsCapHolds ==
  ASSUME ~PostsOverlap, Autonomous = {}
  PROVE  Spec => []JobsCapped
<1>1. CapInv => JobsCapped
  BY DEF CapInv, JobsCapped, OwnedBy
<1> QED
  BY <1>1, CapsInvariant, PTL

-----------------------------------------------------------------------------
(* The autonomous test.                                                     *)

\* Nobody but the shutdown cancels an autonomous test, and it is never COMPLETED.
AutonomousInv ==
  \A t \in Autonomous : /\ t \in cancelled => phase # "serving"
                        /\ status[t] = "cancelled" => t \in cancelled
                        /\ status[t] # "completed"

\* No step before the shutdown sets the cancel event of the autonomous test or ends it.
LEMMA AutonomousStep ==
  ASSUME IInv, AutonomousInv, [Next]_vars
  PROVE  AutonomousInv'
<1>0. TypeOK /\ PcMatchesStatus /\ Autonomous \subseteq Tests
  BY ConstantsAssumption DEF IInv
<1> USE <1>0 DEF AutonomousInv, TypeOK
<1>1. CASE UNCHANGED <<status, cancelled>> /\ (phase # "serving" => phase' # "serving")
  BY <1>1
<1>2. ASSUME NEW t \in Tests, NEW c \in Creds, CreateTest(t, c)
      PROVE  AutonomousInv'
  BY <1>2 DEF CreateTest
<1>3. ASSUME NEW t \in Tests, Begin(t)
      PROVE  AutonomousInv'
  BY <1>3 DEF Begin, phaseVars
<1>4. ASSUME NEW t \in Tests, Finish(t)
      PROVE  AutonomousInv'
  <2>1. t \in Autonomous => t \in cancelled
    BY <1>4 DEF Finish, PcMatchesStatus, LoopOver
  <2>2. /\ status' = [status EXCEPT ![t] = IF t \in cancelled THEN "cancelled" ELSE "completed"]
        /\ UNCHANGED <<cancelled, phase>>
    BY <1>4, FinishEnds DEF phaseVars
  <2> QED
    BY <2>1, <2>2
<1>5. ASSUME NEW d \in Deleters, NEW t \in Tests, DeleteAccepted(d, t)
      PROVE  AutonomousInv'
  <2>1. t \notin Autonomous
    BY <1>5 DEF DeleteAccepted, MayDelete, ApiMode, Running, PcMatchesStatus
  <2> QED
    BY <1>5, <2>1 DEF DeleteAccepted, storeVars, phaseVars
<1>6. CASE BeginShutdown
  BY <1>6 DEF BeginShutdown, storeVars
<1> QED
  BY <1>1, <1>2, <1>3, <1>4, <1>5, <1>6
  DEF Next, TaskStep, BeginRaises, Iterate, CheckpointSaved, Gather, SnapshotSaved, Retire,
      QueryStep, StartQuery, SkipQuery, AnswerThenProbe, AnswerLast, AnswerProbe,
      DeleteRefused, CancelTimesOut, DeleteReturns, EndShutdown,
      vars, storeVars, eventVars, phaseVars

\* run() with continuous set: nothing but the shutdown ends the autonomous test.
THEOREM AutonomousEndsAtShutdown == Spec => []AutonomousRunsUntilShutdown
<1>1. Init => AutonomousInv
  BY ConstantsAssumption DEF Init, AutonomousInv
<1>2. IInv /\ AutonomousInv /\ [Next]_vars => AutonomousInv'
  BY AutonomousStep
<1>3. IInv /\ AutonomousInv => AutonomousRunsUntilShutdown
  BY ConstantsAssumption DEF IInv, AutonomousInv, AutonomousRunsUntilShutdown, PcMatchesStatus
<1> QED
  BY <1>1, <1>2, <1>3, Inductive, PTL DEF Spec

=============================================================================
