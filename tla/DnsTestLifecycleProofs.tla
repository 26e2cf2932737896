----------------------- MODULE DnsTestLifecycleProofs -----------------------
(***************************************************************************)
(* Proofs about DnsTestLifecycle, for every number of tests, clients,      *)
(* queries, permits and probes.                                            *)
(***************************************************************************)
EXTENDS DnsTestLifecycle, FiniteSetTheorems, TLAPS

\* A task in its search probes has a probe left to make.
ProbesLeft ==
  \A t \in Tests, q \in Queries : query[t][q] = "probing" => left[t][q] > 0

\* A query task exists exactly for the spawned ones.
QueriesMatchSpawned ==
  \A t \in Tests, q \in Queries : q > spawned[t] <=> query[t][q] = "none"

\* What the store shows about a test, by the place where its task is suspended.
PcMatchesStatus ==
  \A t \in Tests :
    /\ pc[t] = "none" <=> status[t] = "absent"
    /\ pc[t] = "created" => status[t] = "pending"
    /\ pc[t] \in {"sleep", "checkpoint", "gather"} => status[t] = "running"
    /\ pc[t] = "saving" => status[t] = "completed"
    /\ pc[t] = "done" => status[t] \in {"completed", "cancelled"}
    /\ pc[t] = "broken" => status[t] \in {"pending", "running"}
    /\ pc[t] = "gather" => LoopOver(t)
    /\ status[t] \in {"absent", "pending"} => spawned[t] = 0

\* What is registered about a test, by the place where its task is suspended.
RegistriesMatchPc ==
  \A t \in Tests :
    /\ t \in cancelEvents <=> pc[t] \notin {"none", "done"}
    /\ t \in runningTasks <=> pc[t] \notin {"none", "created", "done"}
    /\ t \in cancelled => pc[t] \notin {"none", "created"}

\* A client waits for, or has been promised, the end of a test that is RUNNING with
\* its cancel event set, has become CANCELLED, or lost its task to a time-out.
DeletesMatchTests ==
  \A d \in Deleters :
    /\ reply[d] = "waiting" =>
         /\ target[d] \in Tests \cap cancelled
         /\ status[target[d]] \in {"running", "cancelled"}
    /\ reply[d] = "cancelling" =>
         /\ target[d] \in Tests
         /\ status[target[d]] = "cancelled" \/ pc[target[d]] = "broken"

\* The shutdown waits for every task that has not returned by itself.
ShutdownAwaitsTasks ==
  /\ phase # "serving" => \A t \in Tests :
       pc[t] \notin {"none", "done"} => t \in waitedFor
  /\ phase # "serving" => \A t \in Tests : pc[t] # "created"
  /\ phase = "drained" => \A t \in waitedFor : TaskOver(t)

IInv ==
  /\ TypeOK
  /\ ProbesLeft
  /\ QueriesMatchSpawned
  /\ PcMatchesStatus
  /\ RegistriesMatchPc
  /\ SemaphoreConserved
  /\ EndedMeansQuiet
  /\ DeletesMatchTests
  /\ ShutdownAwaitsTasks

-----------------------------------------------------------------------------
(* The permits of a run's semaphore.                                        *)

\* The lookups in flight of a test are finitely many, so they can be counted.
LEMMA InFlightFinite ==
  ASSUME NEW t \in Tests
  PROVE  /\ IsFiniteSet(InFlight(t))
         /\ Cardinality(InFlight(t)) \in Nat
<1>1. IsFiniteSet(Queries)
  BY ConstantsAssumption, FS_Interval DEF Queries
<1>2. InFlight(t) \subseteq Queries
  BY DEF InFlight
<1>3. IsFiniteSet(InFlight(t))
  BY <1>1, <1>2, FS_Subset
<1> QED
  BY <1>3, FS_CardinalityType

\* While a query is in a lookup, its permit is not free.
LEMMA PermitInUse ==
  ASSUME TypeOK, SemaphoreConserved, NEW t \in Tests, NEW q \in InFlight(t)
  PROVE  sem[t] + 1 \in 0..Concurrency
<1>1. Cardinality(InFlight(t)) # 0
  BY InFlightFinite, FS_EmptySet
<1>2. sem[t] + Cardinality(InFlight(t)) = Concurrency /\ sem[t] \in Nat
  BY DEF SemaphoreConserved, TypeOK
<1> QED
  BY <1>1, <1>2, InFlightFinite, ConstantsAssumption

\* The start of the process satisfies the inductive invariant.
LEMMA InitEstablishes == Init => IInv
<1> SUFFICES ASSUME Init PROVE IInv
  OBVIOUS
<1> USE ConstantsAssumption DEF Init
<1>1. TypeOK
  BY DEF TypeOK, Statuses, TaskStates, QueryStates, Replies, Phases
<1>2. ProbesLeft /\ QueriesMatchSpawned
  BY DEF ProbesLeft, QueriesMatchSpawned, Queries
<1>3. PcMatchesStatus
  BY DEF PcMatchesStatus
<1>4. RegistriesMatchPc
  BY DEF RegistriesMatchPc
<1>5. SemaphoreConserved
  <2> SUFFICES ASSUME NEW t \in Tests
               PROVE  sem[t] + Cardinality(InFlight(t)) = Concurrency
    BY DEF SemaphoreConserved
  <2>1. InFlight(t) = {}
    BY DEF InFlight
  <2> QED
    BY <2>1, FS_EmptySet
<1>6. EndedMeansQuiet
  BY DEF EndedMeansQuiet
<1>7. DeletesMatchTests /\ ShutdownAwaitsTasks
  BY DEF DeletesMatchTests, ShutdownAwaitsTasks
<1> QED
  BY <1>1, <1>2, <1>3, <1>4, <1>5, <1>6, <1>7 DEF IInv

-----------------------------------------------------------------------------
(* Every step keeps the types.                                              *)

\* No step leaves the types of the store, the tasks, the queries and the registries.
LEMMA TypeStep ==
  ASSUME IInv, [Next]_vars
  PROVE  TypeOK'
<1> USE ConstantsAssumption
<1>0. TypeOK /\ ProbesLeft /\ SemaphoreConserved /\ DeletesMatchTests
  BY DEF IInv
<1> USE <1>0 DEF TypeOK, storeVars, runVars, queryVars, eventVars, deleteVars, phaseVars
<1>1. ASSUME NEW t \in Tests, NEW c \in Creds, CreateTest(t, c)
      PROVE  TypeOK'
  BY <1>1 DEF CreateTest, Statuses, TaskStates
<1>2. ASSUME NEW t \in Tests, Begin(t)
      PROVE  TypeOK'
  BY <1>2 DEF Begin, Register, AdjustActiveCount, Spawn, Statuses, TaskStates,
     QueryStates, Queries
<1>3. ASSUME NEW t \in Tests, BeginRaises(t)
      PROVE  TypeOK'
  BY <1>3 DEF BeginRaises, Register, TaskStates
<1>4. ASSUME NEW t \in Tests, Iterate(t)
      PROVE  TypeOK'
  <2>1. pc' \in [Tests -> TaskStates]
    BY <1>4 DEF Iterate, TaskStates
  <2>2. /\ spawned' \in [Tests -> 0..MaxQueries]
        /\ query' \in [Tests -> [Queries -> QueryStates]]
    BY <1>4 DEF Iterate, Spawn, QueryStates, Queries
  <2> QED
    BY <1>4, <2>1, <2>2 DEF Iterate, Spawn
<1>5. ASSUME NEW t \in Tests, CheckpointSaved(t) \/ Gather(t)
      PROVE  TypeOK'
  BY <1>5 DEF CheckpointSaved, Gather, TaskStates
<1>6. ASSUME NEW t \in Tests, Finish(t)
      PROVE  TypeOK'
  <2>1. FinalStatus(t) \in Statuses
    BY DEF FinalStatus, Statuses
  <2>2. /\ status' \in [Tests -> Statuses]
        /\ summary' \in [Tests -> Nat]
        /\ UNCHANGED <<owner, recorded, spawned, queryVars, deleteVars, phaseVars>>
    BY <1>6, <2>1 DEF Finish, NothingPending
  <2>3. CASE pc' = [pc EXCEPT ![t] = "saving"] /\ UNCHANGED eventVars
    BY <2>2, <2>3 DEF TaskStates
  <2>4. CASE Retire(t)
    BY <2>2, <2>4 DEF Retire, Unregister, AdjustActiveCount, TaskStates
  <2> QED
    BY <1>6, <2>3, <2>4 DEF Finish
<1>7. ASSUME NEW t \in Tests, SnapshotSaved(t)
      PROVE  TypeOK'
  BY <1>7 DEF SnapshotSaved, Retire, Unregister, AdjustActiveCount, TaskStates
<1>8. ASSUME NEW t \in Tests, NEW q \in Queries, StartQuery(t, q)
      PROVE  TypeOK'
  BY <1>8 DEF StartQuery, AtSemaphore, QueryTo, QueryStates
<1>9. ASSUME NEW t \in Tests, NEW q \in Queries, SkipQuery(t, q)
      PROVE  TypeOK'
  BY <1>9 DEF SkipQuery, QueryTo, QueryStates
<1>10. ASSUME NEW t \in Tests, NEW q \in Queries, AnswerThenProbe(t, q)
       PROVE  TypeOK'
  BY <1>10 DEF AnswerThenProbe, ProbesToMake, QueryTo, QueryStates
<1>11. ASSUME NEW t \in Tests, NEW q \in Queries, AnswerLast(t, q)
       PROVE  TypeOK'
  <2>1. sem[t] + 1 \in 0..Concurrency
    BY <1>11, PermitInUse DEF AnswerLast, InFlight
  <2> QED
    BY <1>11, <2>1 DEF AnswerLast, QueryTo, QueryStates
<1>12. ASSUME NEW t \in Tests, NEW q \in Queries, AnswerProbe(t, q)
       PROVE  TypeOK'
  <2>1. sem[t] + 1 \in 0..Concurrency
    BY <1>12, PermitInUse DEF AnswerProbe, InFlight
  <2>2. left[t][q] - 1 \in 0..Suffixes
    BY <1>12 DEF AnswerProbe, ProbesLeft
  <2>3. /\ sem' \in [Tests -> 0..Concurrency]
        /\ query' \in [Tests -> [Queries -> QueryStates]]
    <3>1. CASE left[t][q] > 1
      BY <1>12, <3>1 DEF AnswerProbe
    <3>2. CASE ~(left[t][q] > 1)
      <4>1. /\ query' = [query EXCEPT ![t][q] = "done"]
            /\ sem' = [sem EXCEPT ![t] = sem[t] + 1]
        BY <1>12, <3>2 DEF AnswerProbe, QueryTo
      <4> QED
        BY <2>1, <4>1 DEF QueryStates
    <3> QED
      BY <3>1, <3>2
  <2>4. left' \in [Tests -> [Queries -> 0..Suffixes]]
    <3>1. left' = [left EXCEPT ![t] = [left[t] EXCEPT ![q] = left[t][q] - 1]]
      BY <1>12 DEF AnswerProbe
    <3>2. [left[t] EXCEPT ![q] = left[t][q] - 1] \in [Queries -> 0..Suffixes]
      BY <2>2
    <3> QED
      BY <3>1, <3>2
  <2>5. recorded' \in [Tests -> Nat]
    BY <1>12 DEF AnswerProbe
  <2> QED
    BY <1>12, <2>3, <2>4, <2>5 DEF AnswerProbe
<1>13. ASSUME NEW d \in Deleters, NEW t \in Tests, DeleteRefused(d, t) \/ DeleteAccepted(d, t)
       PROVE  TypeOK'
  <2>1. /\ target' \in [Deleters -> Tests \cup {NoTest}]
        /\ cancelled' \subseteq Tests
    BY <1>13 DEF DeleteRefused, DeleteAccepted, MayDelete
  <2>2. reply' \in [Deleters -> Replies]
    BY <1>13 DEF DeleteRefused, DeleteAccepted, Replies
  <2> QED
    BY <1>13, <2>1, <2>2 DEF DeleteRefused, DeleteAccepted
<1>14. ASSUME NEW d \in Deleters, CancelTimesOut(d)
       PROVE  TypeOK'
  <2> DEFINE t == target[d]
  <2>1. t \in Tests
    BY <1>14, <1>0 DEF CancelTimesOut, DeletesMatchTests
  <2>2. sem[t] + PermitsHeld(t) \in 0..Concurrency
    BY <2>1 DEF SemaphoreConserved, PermitsHeld
  <2>3. pc' \in [Tests -> TaskStates]
    BY <1>14, <2>1 DEF CancelTimesOut, TaskStates
  <2>4. /\ sem' \in [Tests -> 0..Concurrency]
        /\ query' \in [Tests -> [Queries -> QueryStates]]
    <3>1. CASE pc[t] = "gather"
      <4>1. [q \in Queries |-> IF q \in Pending(t) THEN "dropped" ELSE query[t][q]]
              \in [Queries -> QueryStates]
        BY <2>1 DEF QueryStates
      <4>2. /\ query' = [query EXCEPT ![t] =
                 [q \in Queries |-> IF q \in Pending(t) THEN "dropped" ELSE query[t][q]]]
            /\ sem' = [sem EXCEPT ![t] = sem[t] + PermitsHeld(t)]
        BY <1>14, <2>1, <3>1 DEF CancelTimesOut
      <4> QED
        BY <2>1, <2>2, <4>1, <4>2
    <3>2. CASE pc[t] # "gather"
      BY <1>14, <3>2 DEF CancelTimesOut
    <3> QED
      BY <3>1, <3>2
  <2> QED
    BY <1>14, <2>3, <2>4 DEF CancelTimesOut
<1>15. ASSUME NEW d \in Deleters, DeleteReturns(d)
       PROVE  TypeOK'
  BY <1>15 DEF DeleteReturns, Replies
<1>16. CASE BeginShutdown
  BY <1>16 DEF BeginShutdown, TasksToAwait, Phases
<1>17. CASE EndShutdown
  BY <1>17 DEF EndShutdown, Phases
<1>18. CASE UNCHANGED vars
  BY <1>18 DEF vars
<1> QED
  BY <1>1, <1>2, <1>3, <1>4, <1>5, <1>6, <1>7, <1>8, <1>9, <1>10, <1>11, <1>12,
     <1>13, <1>14, <1>15, <1>16, <1>17, <1>18 DEF Next, TaskStep, QueryStep

-----------------------------------------------------------------------------
(* Every step keeps the query tasks in order.                               *)

\* QueryTo changes the progress of one query task of one test.
LEMMA QueryToChanges ==
  ASSUME TypeOK, NEW t \in Tests, NEW q \in Queries, NEW s, QueryTo(t, q, s)
  PROVE  \A u \in Tests, p \in Queries :
           query'[u][p] = IF u = t /\ p = q THEN s ELSE query[u][p]
BY DEF TypeOK, QueryTo

\* create_task in run() adds the next query task and changes no other.
LEMMA SpawnChanges ==
  ASSUME TypeOK, NEW t \in Tests, Spawn(t)
  PROVE  /\ spawned[t] + 1 \in Queries
         /\ \A u \in Tests : spawned'[u] = IF u = t THEN spawned[t] + 1 ELSE spawned[u]
         /\ \A u \in Tests, p \in Queries :
              query'[u][p] = IF u = t /\ p = spawned[t] + 1 THEN "queued" ELSE query[u][p]
         /\ UNCHANGED <<left, sem>>
<1>1. spawned[t] + 1 \in Queries
  BY ConstantsAssumption DEF TypeOK, Spawn, Queries
<1> QED
  BY <1>1 DEF TypeOK, Spawn

\* A new number of probes for one query task leaves the others alone.
LEMMA LeftChanges ==
  ASSUME TypeOK, NEW t \in Tests, NEW q \in Queries, NEW n,
         left' = [left EXCEPT ![t][q] = n]
  PROVE  \A u \in Tests, p \in Queries :
           left'[u][p] = IF u = t /\ p = q THEN n ELSE left[u][p]
BY DEF TypeOK

\* A time-out drops the pending queries of a test that is in its gather.
LEMMA TimeOutChanges ==
  ASSUME TypeOK, DeletesMatchTests, NEW d \in Deleters, CancelTimesOut(d)
  PROVE  /\ target[d] \in Tests
         /\ UNCHANGED <<left, spawned>>
         /\ \A u \in Tests, p \in Queries :
              query'[u][p] = IF u = target[d] /\ pc[u] = "gather" /\ p \in Pending(u)
                             THEN "dropped" ELSE query[u][p]
<1>1. target[d] \in Tests /\ UNCHANGED <<left, spawned>>
  BY DEF CancelTimesOut, DeletesMatchTests
<1>2. CASE pc[target[d]] = "gather"
  BY <1>1, <1>2 DEF CancelTimesOut, TypeOK
<1>3. CASE pc[target[d]] # "gather"
  BY <1>1, <1>3 DEF CancelTimesOut
<1> QED
  BY <1>1, <1>2, <1>3

\* No step leaves a query in its probes without a probe to make, or a task that was
\* not spawned.
LEMMA QueriesStep ==
  ASSUME IInv, [Next]_vars
  PROVE  ProbesLeft' /\ QueriesMatchSpawned'
<1>0. TypeOK /\ ProbesLeft /\ QueriesMatchSpawned /\ DeletesMatchTests
  BY DEF IInv
<1> USE <1>0 DEF ProbesLeft, QueriesMatchSpawned
<1>1. CASE UNCHANGED <<query, left, spawned>>
  BY <1>1
<1>2. ASSUME NEW t \in Tests, Spawn(t)
      PROVE  ProbesLeft' /\ QueriesMatchSpawned'
  <2>1. ProbesLeft'
    BY <1>2, SpawnChanges
  <2>2. \A q \in Queries : q > spawned[t] + 1 <=> q > spawned[t] /\ q # spawned[t] + 1
    BY DEF TypeOK, Queries
  <2>3. QueriesMatchSpawned'
    BY <1>2, <2>2, SpawnChanges
  <2> QED
    BY <2>1, <2>3
<1>3. ASSUME NEW t \in Tests, NEW q \in Queries, StartQuery(t, q) \/ SkipQuery(t, q)
      PROVE  ProbesLeft' /\ QueriesMatchSpawned'
  BY <1>3, QueryToChanges DEF StartQuery, SkipQuery, AtSemaphore, runVars
<1>4. ASSUME NEW t \in Tests, NEW q \in Queries, AnswerThenProbe(t, q)
      PROVE  ProbesLeft' /\ QueriesMatchSpawned'
  <2>1. /\ left' = [left EXCEPT ![t][q] = Suffixes]
        /\ Suffixes > 0
        /\ UNCHANGED spawned
    BY <1>4 DEF AnswerThenProbe, ProbesToMake, runVars
  <2>2. \A u \in Tests, p \in Queries :
          query'[u][p] = IF u = t /\ p = q THEN "probing" ELSE query[u][p]
    BY <1>4, QueryToChanges DEF AnswerThenProbe
  <2>3. ProbesLeft'
    <3>1. \A u \in Tests, p \in Queries :
            left'[u][p] = IF u = t /\ p = q THEN Suffixes ELSE left[u][p]
      BY <2>1 DEF TypeOK
    <3> QED
      BY <2>1, <2>2, <3>1
  <2>4. QueriesMatchSpawned'
    BY <1>4, <2>1, <2>2 DEF AnswerThenProbe
  <2> QED
    BY <2>3, <2>4
<1>5. ASSUME NEW t \in Tests, NEW q \in Queries, AnswerLast(t, q)
      PROVE  ProbesLeft' /\ QueriesMatchSpawned'
  BY <1>5, QueryToChanges DEF AnswerLast, runVars
<1>6. ASSUME NEW t \in Tests, NEW q \in Queries, AnswerProbe(t, q)
      PROVE  ProbesLeft' /\ QueriesMatchSpawned'
  <2>1. left' = [left EXCEPT ![t][q] = left[t][q] - 1] /\ UNCHANGED spawned
    BY <1>6 DEF AnswerProbe, runVars
  <2>2. CASE left[t][q] > 1
    <3>1. UNCHANGED query
      BY <1>6, <2>2 DEF AnswerProbe
    <3>2. left[t][q] - 1 > 0
      BY <2>2 DEF TypeOK
    <3> QED
      BY <2>1, <3>1, <3>2, LeftChanges
  <2>3. CASE ~(left[t][q] > 1)
    BY <1>6, <2>1, <2>3, LeftChanges, QueryToChanges DEF AnswerProbe
  <2> QED
    BY <2>2, <2>3
<1>7. ASSUME NEW d \in Deleters, CancelTimesOut(d)
      PROVE  ProbesLeft' /\ QueriesMatchSpawned'
  BY <1>7, TimeOutChanges DEF Pending
<1> QED
  BY <1>1, <1>2, <1>3, <1>4, <1>5, <1>6, <1>7
  DEF Next, TaskStep, QueryStep, CreateTest, Begin, BeginRaises, Iterate,
      CheckpointSaved, Gather, Finish, SnapshotSaved, DeleteRefused, DeleteAccepted,
      DeleteReturns, BeginShutdown, EndShutdown, vars, runVars, queryVars

-----------------------------------------------------------------------------
(* Every step conserves the permits.                                        *)

\* Nothing happens to the permits and the lookups of a test.
LEMMA PermitsKept ==
  ASSUME SemaphoreConserved, NEW t \in Tests, sem'[t] = sem[t],
         \A q \in Queries : query'[t][q] \in {"primary", "probing"}
                             <=> query[t][q] \in {"primary", "probing"}
  PROVE  sem'[t] + Cardinality(InFlight(t)') = Concurrency
<1>1. InFlight(t)' = InFlight(t)
  BY DEF InFlight
<1> QED
  BY <1>1 DEF SemaphoreConserved

\* A query task takes a permit.
LEMMA PermitTaken ==
  ASSUME TypeOK, SemaphoreConserved, NEW t \in Tests, NEW q \in Queries,
         query[t][q] = "queued",
         query' = [query EXCEPT ![t][q] = "primary"],
         sem' = [sem EXCEPT ![t] = @ - 1]
  PROVE  sem'[t] + Cardinality(InFlight(t)') = Concurrency
<1>1. InFlight(t)' = InFlight(t) \cup {q} /\ q \notin InFlight(t)
  BY DEF InFlight, TypeOK
<1>2. Cardinality(InFlight(t)') = Cardinality(InFlight(t)) + 1
  BY <1>1, InFlightFinite, FS_AddElement
<1>3. sem'[t] = sem[t] - 1 /\ sem[t] \in Nat /\ sem[t] + Cardinality(InFlight(t)) = Concurrency
  BY DEF TypeOK, SemaphoreConserved
<1> QED
  BY <1>2, <1>3, InFlightFinite

\* A query task that is done gives its permit back.
LEMMA PermitReturned ==
  ASSUME TypeOK, SemaphoreConserved, NEW t \in Tests, NEW q \in InFlight(t),
         query' = [query EXCEPT ![t][q] = "done"],
         sem' = [sem EXCEPT ![t] = @ + 1]
  PROVE  sem'[t] + Cardinality(InFlight(t)') = Concurrency
<1>1. InFlight(t)' = InFlight(t) \ {q}
  BY DEF InFlight, TypeOK
<1>2. Cardinality(InFlight(t)') = Cardinality(InFlight(t)) - 1
  BY <1>1, InFlightFinite, FS_RemoveElement
<1>3. sem'[t] = sem[t] + 1 /\ sem[t] \in Nat /\ sem[t] + Cardinality(InFlight(t)) = Concurrency
  BY DEF TypeOK, SemaphoreConserved
<1> QED
  BY <1>2, <1>3, InFlightFinite

\* Every step moves permits between the semaphore and the lookups, and loses none.
LEMMA SemaphoreStep ==
  ASSUME IInv, [Next]_vars
  PROVE  SemaphoreConserved'
<1>0. TypeOK /\ SemaphoreConserved /\ QueriesMatchSpawned /\ DeletesMatchTests
  BY DEF IInv
<1> SUFFICES ASSUME NEW u \in Tests
             PROVE  sem'[u] + Cardinality(InFlight(u)') = Concurrency
  BY DEF SemaphoreConserved
<1>1. CASE UNCHANGED <<query, sem>>
  BY <1>0, <1>1, PermitsKept
<1>2. ASSUME NEW t \in Tests, Spawn(t)
      PROVE  sem'[u] + Cardinality(InFlight(u)') = Concurrency
  <2>1. spawned[t] + 1 > spawned[t]
    BY <1>0 DEF TypeOK
  <2>2. \A q \in Queries : query'[u][q] # query[u][q]
          => query[u][q] = "none" /\ query'[u][q] = "queued"
    BY <1>0, <1>2, <2>1, SpawnChanges DEF QueriesMatchSpawned
  <2> QED
    BY <1>0, <1>2, <2>2, SpawnChanges, PermitsKept
<1>3. ASSUME NEW t \in Tests, NEW q \in Queries, StartQuery(t, q)
      PROVE  sem'[u] + Cardinality(InFlight(u)') = Concurrency
  <2>1. CASE u = t
    BY <1>0, <1>3, <2>1, PermitTaken DEF StartQuery, AtSemaphore, QueryTo
  <2>2. CASE u # t
    BY <1>0, <1>3, <2>2, PermitsKept DEF StartQuery, QueryTo, TypeOK
  <2> QED
    BY <2>1, <2>2
<1>4. ASSUME NEW t \in Tests, NEW q \in Queries, SkipQuery(t, q) \/ AnswerThenProbe(t, q)
      PROVE  sem'[u] + Cardinality(InFlight(u)') = Concurrency
  <2>1. \A p \in Queries : query'[u][p] \in {"primary", "probing"}
                           <=> query[u][p] \in {"primary", "probing"}
    BY <1>0, <1>4, QueryToChanges DEF SkipQuery, AnswerThenProbe, AtSemaphore
  <2> QED
    BY <1>0, <1>4, <2>1, PermitsKept DEF SkipQuery, AnswerThenProbe
<1>5. ASSUME NEW t \in Tests, NEW q \in InFlight(t),
             query' = [query EXCEPT ![t][q] = "done"],
             sem' = [sem EXCEPT ![t] = @ + 1]
      PROVE  sem'[u] + Cardinality(InFlight(u)') = Concurrency
  <2>1. CASE u = t
    BY <1>0, <1>5, <2>1, PermitReturned
  <2>2. CASE u # t
    BY <1>0, <1>5, <2>2, PermitsKept DEF TypeOK
  <2> QED
    BY <2>1, <2>2
<1>6. ASSUME NEW t \in Tests, NEW q \in Queries, AnswerLast(t, q) \/ AnswerProbe(t, q)
      PROVE  sem'[u] + Cardinality(InFlight(u)') = Concurrency
  <2>1. q \in InFlight(t)
    BY <1>6 DEF AnswerLast, AnswerProbe, InFlight
  <2> QED
    BY <1>1, <1>5, <1>6, <2>1 DEF AnswerLast, AnswerProbe, QueryTo
<1>7. ASSUME NEW d \in Deleters, CancelTimesOut(d)
      PROVE  sem'[u] + Cardinality(InFlight(u)') = Concurrency
  <2> DEFINE t == target[d]
  <2>1. CASE pc[t] = "gather" /\ u = t
    <3>1. InFlight(u)' = {}
      BY <1>0, <1>7, <2>1, TimeOutChanges DEF InFlight, Pending
    <3>2. Cardinality(InFlight(u)') = 0
      BY <3>1, FS_EmptySet
    <3>3. sem'[u] = Concurrency
      BY <1>0, <1>7, <2>1 DEF CancelTimesOut, PermitsHeld, TypeOK, SemaphoreConserved
    <3> QED
      BY <3>2, <3>3, ConstantsAssumption
  <2>2. CASE ~(pc[t] = "gather" /\ u = t)
    BY <1>0, <1>7, <2>2, PermitsKept DEF CancelTimesOut, TypeOK
  <2> QED
    BY <2>1, <2>2
<1> QED
  BY <1>1, <1>2, <1>3, <1>4, <1>6, <1>7
  DEF Next, TaskStep, QueryStep, CreateTest, Begin, BeginRaises, Iterate,
      CheckpointSaved, Gather, Finish, SnapshotSaved, DeleteRefused, DeleteAccepted,
      DeleteReturns, BeginShutdown, EndShutdown, vars, queryVars

-----------------------------------------------------------------------------
(* Every step keeps the store, the registries and the task in agreement.    *)

\* A run that ends is CANCELLED or COMPLETED: the status RUNNING that the code sets
\* at the end of a continuous run is never reached.
LEMMA FinishEnds ==
  ASSUME IInv, NEW t \in Tests, Finish(t)
  PROVE  /\ status[t] = "running"
         /\ FinalStatus(t) = IF t \in cancelled THEN "cancelled" ELSE "completed"
         /\ Pending(t) = {}
         /\ status' = [status EXCEPT ![t] = FinalStatus(t)]
         /\ summary' = [summary EXCEPT ![t] = recorded[t]]
         /\ UNCHANGED <<owner, recorded, spawned, cancelled, queryVars, deleteVars, phaseVars>>
         /\ \/ /\ FinalStatus(t) = "completed"
               /\ pc' = [pc EXCEPT ![t] = "saving"]
               /\ UNCHANGED eventVars
            \/ Retire(t)
<1>1. LoopOver(t) /\ status[t] = "running"
  BY DEF IInv, PcMatchesStatus, Finish
<1> QED
  BY <1>1 DEF Finish, FinalStatus, LoopOver, NothingPending, Retire, eventVars

\* Status, task and registries of a test change together in every step.
LEMMA ControlStep ==
  ASSUME IInv, [Next]_vars
  PROVE  PcMatchesStatus' /\ RegistriesMatchPc'
<1>0. TypeOK /\ PcMatchesStatus /\ RegistriesMatchPc /\ DeletesMatchTests /\ ShutdownAwaitsTasks
  BY DEF IInv
<1> USE <1>0 DEF TypeOK, PcMatchesStatus, RegistriesMatchPc, LoopOver
<1>1. CASE UNCHANGED <<status, pc, spawned, cancelled, cancelEvents, runningTasks>>
  BY <1>1
<1>2. ASSUME NEW t \in Tests, NEW c \in Creds, CreateTest(t, c)
      PROVE  PcMatchesStatus' /\ RegistriesMatchPc'
  BY <1>2 DEF CreateTest
<1>3. ASSUME NEW t \in Tests, Begin(t)
      PROVE  PcMatchesStatus' /\ RegistriesMatchPc'
  BY <1>3, SpawnChanges DEF Begin, Register
<1>4. ASSUME NEW t \in Tests, BeginRaises(t)
      PROVE  PcMatchesStatus' /\ RegistriesMatchPc'
  BY <1>4 DEF BeginRaises, Register, storeVars
<1>5. ASSUME NEW t \in Tests, Iterate(t)
      PROVE  PcMatchesStatus' /\ RegistriesMatchPc'
  BY <1>5, SpawnChanges DEF Iterate, storeVars, eventVars
<1>6. ASSUME NEW t \in Tests, CheckpointSaved(t) \/ Gather(t)
      PROVE  PcMatchesStatus' /\ RegistriesMatchPc'
  BY <1>6 DEF CheckpointSaved, Gather, storeVars, eventVars
<1>7. ASSUME NEW t \in Tests, Finish(t)
      PROVE  PcMatchesStatus' /\ RegistriesMatchPc'
  <2>1. /\ status[t] = "running" /\ pc[t] \in {"sleep", "gather"}
        /\ FinalStatus(t) \in {"completed", "cancelled"}
        /\ status' = [status EXCEPT ![t] = FinalStatus(t)]
        /\ UNCHANGED <<spawned, cancelled>>
    BY <1>7, FinishEnds DEF Finish
  <2>2. CASE FinalStatus(t) = "completed" /\ pc' = [pc EXCEPT ![t] = "saving"] /\ UNCHANGED eventVars
    BY <2>1, <2>2 DEF eventVars
  <2>3. CASE Retire(t)
    BY <2>1, <2>3 DEF Retire, Unregister
  <2> QED
    BY <1>7, <2>2, <2>3, FinishEnds
<1>8. ASSUME NEW t \in Tests, SnapshotSaved(t)
      PROVE  PcMatchesStatus' /\ RegistriesMatchPc'
  BY <1>8 DEF SnapshotSaved, Retire, Unregister, storeVars
<1>9. ASSUME NEW d \in Deleters, NEW t \in Tests, DeleteAccepted(d, t)
      PROVE  PcMatchesStatus' /\ RegistriesMatchPc'
  BY <1>9 DEF DeleteAccepted, Running, storeVars, runVars
<1>10. ASSUME NEW d \in Deleters, CancelTimesOut(d)
       PROVE  PcMatchesStatus' /\ RegistriesMatchPc'
  BY <1>10, TimeOutChanges DEF CancelTimesOut, storeVars, eventVars
<1>11. CASE BeginShutdown
  BY <1>11 DEF BeginShutdown, storeVars, runVars
<1> QED
  BY <1>1, <1>2, <1>3, <1>4, <1>5, <1>6, <1>7, <1>8, <1>9, <1>10, <1>11
  DEF Next, TaskStep, QueryStep, DeleteRefused, DeleteReturns, EndShutdown,
      StartQuery, SkipQuery, AnswerThenProbe, AnswerLast, AnswerProbe,
      vars, storeVars, runVars, eventVars

\* What cancel_all_tests waits for stays complete until the shutdown ends.
LEMMA ShutdownStep ==
  ASSUME IInv, [Next]_vars
  PROVE  ShutdownAwaitsTasks'
<1>0. TypeOK /\ PcMatchesStatus /\ RegistriesMatchPc /\ DeletesMatchTests /\ ShutdownAwaitsTasks
  BY DEF IInv
<1> USE <1>0 DEF TypeOK, ShutdownAwaitsTasks, TaskOver, phaseVars
<1>1. CASE UNCHANGED <<pc, phase, waitedFor>>
  BY <1>1
<1>2. ASSUME NEW t \in Tests, NEW c \in Creds, CreateTest(t, c)
      PROVE  ShutdownAwaitsTasks'
  BY <1>2 DEF CreateTest
<1>3. ASSUME NEW t \in Tests, TaskStep(t)
      PROVE  ShutdownAwaitsTasks'
  <2>1. /\ Alive /\ UNCHANGED <<phase, waitedFor>>
        /\ \E s \in TaskStates \ {"created"} : pc' = [pc EXCEPT ![t] = s]
        /\ pc[t] \notin {"none", "done"}
    BY <1>3 DEF TaskStep, Begin, BeginRaises, Iterate, CheckpointSaved, Gather, Finish,
       SnapshotSaved, Retire, TaskStates
  <2> QED
    BY <2>1 DEF Alive
<1>4. ASSUME NEW d \in Deleters, CancelTimesOut(d)
      PROVE  ShutdownAwaitsTasks'
  BY <1>4, TimeOutChanges DEF CancelTimesOut, Alive
<1>5. CASE BeginShutdown
  BY <1>5 DEF BeginShutdown, TasksToAwait, runVars, RegistriesMatchPc
<1>6. CASE EndShutdown
  BY <1>6 DEF EndShutdown, runVars
<1> QED
  BY <1>1, <1>2, <1>3, <1>4, <1>5, <1>6
  DEF Next, QueryStep, DeleteRefused, DeleteAccepted, DeleteReturns,
      StartQuery, SkipQuery, AnswerThenProbe, AnswerLast, AnswerProbe, vars, runVars

-----------------------------------------------------------------------------
(* Every step keeps the promises about ended tests and about DELETE.        *)

\* A query task that has not ended belongs to a RUNNING test.
LEMMA PendingMeansRunning ==
  ASSUME IInv, NEW t \in Tests, Pending(t) # {}
  PROVE  status[t] = "running"
<1>1. PICK q \in Queries : query[t][q] \in {"queued", "primary", "probing"}
  BY DEF Pending
<1>2. spawned[t] # 0
  BY <1>1 DEF IInv, QueriesMatchSpawned, Queries
<1>3. status[t] \notin {"absent", "pending"} /\ status[t] # "failed"
  BY <1>2 DEF IInv, PcMatchesStatus, TypeOK, TaskStates
<1> QED
  BY <1>3 DEF IInv, EndedMeansQuiet, TypeOK, Statuses

\* No step records an attempt of, or leaves a query to, a test that has ended.
LEMMA EndedStep ==
  ASSUME IInv, [Next]_vars
  PROVE  EndedMeansQuiet'
<1>0. TypeOK /\ PcMatchesStatus /\ EndedMeansQuiet /\ DeletesMatchTests
  BY DEF IInv
<1> USE <1>0 DEF EndedMeansQuiet, Pending
<1>1. CASE UNCHANGED <<status, recorded, summary, query>>
  BY <1>1
<1>2. ASSUME NEW t \in Tests, NEW c \in Creds, CreateTest(t, c)
      PROVE  EndedMeansQuiet'
  BY <1>2 DEF CreateTest, queryVars, TypeOK
<1>3. ASSUME NEW t \in Tests, Begin(t) \/ Iterate(t)
      PROVE  EndedMeansQuiet'
  <2>1. status'[t] = "running" /\ Spawn(t) /\ UNCHANGED <<recorded, summary>>
    BY <1>3 DEF Begin, Iterate, PcMatchesStatus, storeVars, TypeOK
  <2>2. \A u \in Tests : u # t => status'[u] = status[u]
    BY <1>3 DEF Begin, Iterate, storeVars, TypeOK
  <2> QED
    BY <2>1, <2>2, SpawnChanges
<1>4. ASSUME NEW t \in Tests, Finish(t)
      PROVE  EndedMeansQuiet'
  <2>1. /\ Pending(t) = {}
        /\ UNCHANGED <<query, recorded>>
        /\ summary' = [summary EXCEPT ![t] = recorded[t]]
        /\ \A u \in Tests : u # t => status'[u] = status[u]
    BY <1>4, FinishEnds DEF TypeOK, queryVars
  <2>2. \A u \in Tests : summary'[u] = IF u = t THEN recorded[t] ELSE summary[u]
    BY <2>1 DEF TypeOK
  <2> QED
    BY <2>1, <2>2
<1>5. ASSUME NEW t \in Tests, NEW q \in Queries, QueryStep(t, q)
      PROVE  EndedMeansQuiet'
  <2>1. status[t] = "running"
    BY <1>5, PendingMeansRunning
    DEF QueryStep, StartQuery, SkipQuery, AnswerThenProbe, AnswerLast, AnswerProbe, AtSemaphore
  <2>2. /\ UNCHANGED <<status, summary>>
        /\ \A u \in Tests : u # t => recorded'[u] = recorded[u]
    BY <1>5 DEF QueryStep, StartQuery, SkipQuery, AnswerThenProbe, AnswerLast, AnswerProbe,
       storeVars, TypeOK
  <2>3. \A u \in Tests, p \in Queries : u # t => query'[u][p] = query[u][p]
    BY <1>5, QueryToChanges
    DEF QueryStep, StartQuery, SkipQuery, AnswerThenProbe, AnswerLast, AnswerProbe
  <2> QED
    BY <2>1, <2>2, <2>3
<1>6. ASSUME NEW d \in Deleters, CancelTimesOut(d)
      PROVE  EndedMeansQuiet'
  <2>1. UNCHANGED <<status, recorded, summary>>
    BY <1>6 DEF CancelTimesOut, storeVars
  <2>2. \A u \in Tests : Pending(u) = {} => Pending(u)' = {}
    BY <1>6, TimeOutChanges
  <2> QED
    BY <2>1, <2>2
<1> QED
  BY <1>1, <1>2, <1>3, <1>4, <1>5, <1>6
  DEF Next, TaskStep, BeginRaises, CheckpointSaved, Gather, SnapshotSaved,
      DeleteRefused, DeleteAccepted, DeleteReturns, BeginShutdown, EndShutdown,
      vars, storeVars, queryVars

\* What a DELETE waits for or has answered is never contradicted by a step.
LEMMA DeletesStep ==
  ASSUME IInv, [Next]_vars
  PROVE  DeletesMatchTests'
<1>0. TypeOK /\ PcMatchesStatus /\ RegistriesMatchPc /\ DeletesMatchTests
  BY DEF IInv
<1> USE <1>0 DEF DeletesMatchTests
<1>1. CASE UNCHANGED <<status, pc, cancelled, target, reply>>
  BY <1>1
<1>2. ASSUME NEW t \in Tests, NEW c \in Creds, CreateTest(t, c)
      PROVE  DeletesMatchTests'
  BY <1>2 DEF CreateTest, PcMatchesStatus, deleteVars, TypeOK
<1>3. ASSUME NEW t \in Tests, TaskStep(t)
      PROVE  DeletesMatchTests'
  <2>1. UNCHANGED <<cancelled, target, reply>> /\ pc[t] \notin {"none", "done", "broken"}
    BY <1>3 DEF TaskStep, Begin, BeginRaises, Iterate, CheckpointSaved, Gather, Finish,
       SnapshotSaved, Retire, deleteVars, eventVars
  <2>2. /\ \A u \in Tests : u # t => status'[u] = status[u] /\ pc'[u] = pc[u]
        /\ \/ status'[t] = status[t]
           \/ status[t] = "pending"
           \/ status[t] = "running" /\ status'[t] = FinalStatus(t) /\ Finish(t)
    BY <1>3, FinishEnds DEF TaskStep, Begin, BeginRaises, Iterate, CheckpointSaved, Gather,
       Finish, SnapshotSaved, Retire, TypeOK, PcMatchesStatus, storeVars
  <2> QED
    BY <2>1, <2>2, FinishEnds
<1>4. ASSUME NEW d \in Deleters, NEW t \in Tests, DeleteRefused(d, t)
      PROVE  DeletesMatchTests'
  BY <1>4 DEF DeleteRefused, MayDelete, storeVars, runVars, eventVars, TypeOK
<1>5. ASSUME NEW d \in Deleters, NEW t \in Tests, DeleteAccepted(d, t)
      PROVE  DeletesMatchTests'
  <2>1. t \in cancelEvents /\ t \in runningTasks /\ status[t] = "running"
    BY <1>5 DEF DeleteAccepted, Running, RegistriesMatchPc, PcMatchesStatus, TypeOK, TaskStates
  <2> QED
    BY <1>5, <2>1 DEF DeleteAccepted, MayDelete, storeVars, runVars, TypeOK
<1>6. ASSUME NEW d \in Deleters, CancelTimesOut(d)
      PROVE  DeletesMatchTests'
  BY <1>6, TimeOutChanges DEF CancelTimesOut, storeVars, eventVars, deleteVars, TypeOK
<1>7. ASSUME NEW d \in Deleters, DeleteReturns(d)
      PROVE  DeletesMatchTests'
  BY <1>7 DEF DeleteReturns, TaskOver, PcMatchesStatus, storeVars, runVars, eventVars, TypeOK
<1>8. CASE BeginShutdown
  BY <1>8 DEF BeginShutdown, storeVars, runVars, deleteVars
<1> QED
  BY <1>1, <1>2, <1>3, <1>4, <1>5, <1>6, <1>7, <1>8
  DEF Next, QueryStep, StartQuery, SkipQuery, AnswerThenProbe, AnswerLast, AnswerProbe,
      EndShutdown, vars, storeVars, runVars, eventVars, deleteVars

-----------------------------------------------------------------------------
(* The theorems.                                                            *)

\* The inductive invariant is kept by every step.
LEMMA InvariantStep == IInv /\ [Next]_vars => IInv'
BY TypeStep, QueriesStep, SemaphoreStep, ControlStep, ShutdownStep, EndedStep, DeletesStep
DEF IInv

\* The inductive invariant behind all theorems about the life of a test in
\* dns_runner.py holds in every reachable state.
THEOREM Inductive == Spec => []IInv
BY InitEstablishes, InvariantStep, PTL DEF Spec

\* dns_runner.py, stats_store.py: no counter, status or registry leaves its type; in
\* particular no semaphore has more permits than it was created with.
THEOREM TypeCorrect == Spec => []TypeOK
<1>1. IInv => TypeOK
  BY DEF IInv
<1> QED
  BY <1>1, Inductive, PTL

\* _execute_query, gather and wait_for: every permit is free or held by one lookup,
\* whatever is cancelled when.
THEOREM PermitsConserved == Spec => []SemaphoreConserved
<1>1. IInv => SemaphoreConserved
  BY DEF IInv
<1> QED
  BY <1>1, Inductive, PTL

\* run(): a test that shows COMPLETED or CANCELLED records nothing more, and its
\* summary counts all it recorded.
THEOREM EndedIsQuiet == Spec => []EndedMeansQuiet
<1>1. IInv => EndedMeansQuiet
  BY DEF IInv
<1> QED
  BY <1>1, Inductive, PTL

\* register_task, unregister_task, cancel_test: DELETE of a RUNNING test always finds
\* its event and its task.
THEOREM RegistryCorrect == Spec => []RegistryTracksRuns
<1>1. IInv => RegistryTracksRuns
  BY DEF IInv, RegistryTracksRuns, Running, PcMatchesStatus, RegistriesMatchPc, TypeOK,
     TaskStates
<1> QED
  BY <1>1, Inductive, PTL

\* delete_test: the answer "cancelling" is never followed by COMPLETED.
THEOREM CancellingHonoured == Spec => []CancellingIsHonoured
<1>1. IInv => CancellingIsHonoured
  BY DEF IInv, CancellingIsHonoured, DeletesMatchTests
<1> QED
  BY <1>1, Inductive, PTL

\* cancel_all_tests: a shutdown in time leaves no task in the middle of its work.
THEOREM DrainedHasEnded == Spec => []DrainedMeansEnded
<1>1. IInv => DrainedMeansEnded
  BY DEF IInv, DrainedMeansEnded, ShutdownAwaitsTasks, TaskOver, TypeOK, TaskStates
<1> QED
  BY <1>1, Inductive, PTL

\* run() and _execute_query look at the cancel event before every new task and every
\* lookup: once it is set, no task is spawned and no lookup starts.
THEOREM CancelStopsWork == Spec => NoWorkAfterCancel
<1> DEFINE Quiet(t) == /\ spawned'[t] = spawned[t]
                       /\ \A q \in Queries : query'[t][q] = "primary" => query[t][q] = "primary"
<1>1. ASSUME IInv, [Next]_vars, NEW u \in cancelled
      PROVE  Quiet(u)
  <2>0. TypeOK /\ DeletesMatchTests /\ u \in Tests /\ pc[u] \notin {"none", "created"}
    BY <1>1 DEF IInv, RegistriesMatchPc, TypeOK
  <2>1. CASE UNCHANGED <<query, spawned>>
    BY <2>1
  <2>2. ASSUME NEW t \in Tests, Begin(t) \/ Iterate(t)
        PROVE  Quiet(u)
    <3>1. t # u /\ Spawn(t)
      BY <1>1, <2>0, <2>2 DEF Begin, Iterate
    <3> QED
      BY <2>0, <3>1, SpawnChanges
  <2>3. ASSUME NEW t \in Tests, NEW q \in Queries, QueryStep(t, q)
        PROVE  Quiet(u)
    <3>1. UNCHANGED spawned
      BY <2>3 DEF QueryStep, StartQuery, SkipQuery, AnswerThenProbe, AnswerLast, AnswerProbe, runVars
    <3>2. UNCHANGED query \/ \E s : QueryTo(t, q, s) /\ (s = "primary" => t # u)
      BY <1>1, <2>3
      DEF QueryStep, StartQuery, SkipQuery, AnswerThenProbe, AnswerLast, AnswerProbe, WorkAllowed
    <3> QED
      BY <2>0, <3>1, <3>2, QueryToChanges
  <2>4. ASSUME NEW d \in Deleters, CancelTimesOut(d)
        PROVE  Quiet(u)
    BY <2>0, <2>4, TimeOutChanges
  <2> QED
    BY <1>1, <2>1, <2>2, <2>3, <2>4
    DEF Next, TaskStep, CreateTest, BeginRaises, CheckpointSaved, Gather, Finish, SnapshotSaved,
        DeleteRefused, DeleteAccepted, DeleteReturns, BeginShutdown, EndShutdown,
        vars, runVars, queryVars
<1>2. IInv /\ [Next]_vars => [\A t \in cancelled : Quiet(t)]_vars
  BY <1>1
<1> QED
  BY <1>2, Inductive, PTL DEF Spec, NoWorkAfterCancel

-----------------------------------------------------------------------------
(* The gauge.                                                               *)

Counted == {t \in Tests : Running(t) \/ pc[t] = "saving"}

\* _adjust_active_count is called exactly when the set of counted tests changes by one.
LEMMA GaugeStep ==
  ASSUME IInv, GaugeCountsRuns, [Next]_vars
  PROVE  GaugeCountsRuns'
<1>0. TypeOK /\ PcMatchesStatus /\ DeletesMatchTests
  BY DEF IInv
<1>1. IsFiniteSet(Counted)
  BY ConstantsAssumption, FS_Subset DEF Counted
<1>2. activeCount = Cardinality(Counted) /\ Cardinality(Counted) \in Nat
  BY <1>1, FS_CardinalityType DEF GaugeCountsRuns, Counted
<1> SUFFICES activeCount' = Cardinality(Counted')
  BY DEF GaugeCountsRuns, Counted
<1> USE <1>0 DEF TypeOK
<1>3. ASSUME UNCHANGED activeCount, Counted' = Counted
      PROVE  activeCount' = Cardinality(Counted')
  BY <1>2, <1>3
<1>4. ASSUME NEW t \in Counted, Counted' = Counted \ {t}, AdjustActiveCount(-1)
      PROVE  activeCount' = Cardinality(Counted')
  <2>1. Cardinality(Counted') = Cardinality(Counted) - 1 /\ Cardinality(Counted') \in Nat
    BY <1>1, <1>4, FS_RemoveElement, FS_CardinalityType
  <2> QED
    BY <1>2, <1>4, <2>1 DEF AdjustActiveCount
<1>5. ASSUME NEW t \in Tests, NEW c \in Creds, CreateTest(t, c)
      PROVE  activeCount' = Cardinality(Counted')
  <2>1. t \notin Counted /\ t \notin Counted'
    BY <1>5 DEF CreateTest, Counted, Running, PcMatchesStatus
  <2>2. /\ UNCHANGED activeCount
        /\ \A u \in Tests : u # t => status'[u] = status[u] /\ pc'[u] = pc[u]
    BY <1>5 DEF CreateTest
  <2> QED
    BY <1>3, <2>1, <2>2 DEF Counted, Running
<1>6. ASSUME NEW t \in Tests, Begin(t)
      PROVE  activeCount' = Cardinality(Counted')
  <2>1. Counted' = Counted \cup {t} /\ t \notin Counted /\ AdjustActiveCount(1)
    BY <1>6 DEF Begin, Counted, Running, PcMatchesStatus
  <2>2. Cardinality(Counted') = Cardinality(Counted) + 1
    BY <1>1, <2>1, FS_AddElement
  <2> QED
    BY <1>2, <2>1, <2>2 DEF AdjustActiveCount
<1>7. ASSUME NEW t \in Tests, BeginRaises(t) \/ Iterate(t) \/ CheckpointSaved(t) \/ Gather(t)
      PROVE  activeCount' = Cardinality(Counted')
  <2>1. /\ UNCHANGED <<status, activeCount>>
        /\ \E s \in TaskStates \ {"saving"} : pc' = [pc EXCEPT ![t] = s]
        /\ pc[t] # "saving"
    BY <1>7 DEF BeginRaises, Iterate, CheckpointSaved, Gather, storeVars, eventVars, TaskStates
  <2> QED
    BY <1>3, <2>1 DEF Counted, Running
<1>8. ASSUME NEW t \in Tests, Finish(t)
      PROVE  activeCount' = Cardinality(Counted')
  <2>1. t \in Counted /\ status' = [status EXCEPT ![t] = FinalStatus(t)] /\ FinalStatus(t) # "running"
    BY <1>8, FinishEnds DEF Counted, Running
  <2>2. CASE pc' = [pc EXCEPT ![t] = "saving"] /\ UNCHANGED eventVars
    <3>1. Counted' = Counted
      BY <2>1, <2>2 DEF Counted, Running
    <3> QED
      BY <1>3, <2>2, <3>1 DEF eventVars
  <2>3. CASE Retire(t)
    <3>1. Counted' = Counted \ {t}
      BY <2>1, <2>3 DEF Counted, Running, Retire
    <3> QED
      BY <1>4, <2>1, <2>3, <3>1 DEF Retire
  <2> QED
    BY <1>8, <2>2, <2>3, FinishEnds
<1>9. ASSUME NEW t \in Tests, SnapshotSaved(t)
      PROVE  activeCount' = Cardinality(Counted')
  <2>1. t \in Counted /\ Counted' = Counted \ {t}
    BY <1>9 DEF SnapshotSaved, Retire, Counted, Running, PcMatchesStatus, storeVars
  <2> QED
    BY <1>4, <1>9, <2>1 DEF SnapshotSaved, Retire
<1>10. ASSUME NEW d \in Deleters, CancelTimesOut(d)
       PROVE  activeCount' = Cardinality(Counted')
  <2>1. Counted' = Counted /\ UNCHANGED activeCount
    BY <1>10, TimeOutChanges DEF CancelTimesOut, Counted, Running, storeVars, eventVars
  <2> QED
    BY <1>3, <2>1
<1>11. CASE UNCHANGED <<status, pc, activeCount>>
  BY <1>3, <1>11 DEF Counted, Running
<1> QED
  BY <1>5, <1>6, <1>7, <1>8, <1>9, <1>10, <1>11
  DEF Next, TaskStep, QueryStep, StartQuery, SkipQuery, AnswerThenProbe, AnswerLast,
      AnswerProbe, DeleteRefused, DeleteAccepted, DeleteReturns, BeginShutdown, EndShutdown,
      vars, storeVars, runVars, eventVars

\* _adjust_active_count: dns_debug_active_tests is the number of RUNNING tests and of
\* COMPLETED tests whose snapshot is being written, also after a task was killed.
THEOREM GaugeCorrect == Spec => []GaugeCountsRuns
<1>1. Init => GaugeCountsRuns
  <2> SUFFICES ASSUME Init PROVE GaugeCountsRuns
    OBVIOUS
  <2>1. Counted = {} /\ activeCount = 0
    BY DEF Init, Counted, Running
  <2> QED
    BY <2>1, FS_EmptySet DEF GaugeCountsRuns, Counted
<1>2. IInv /\ GaugeCountsRuns /\ [Next]_vars => GaugeCountsRuns'
  BY GaugeStep
<1> QED
  BY <1>1, <1>2, Inductive, PTL DEF Spec

-----------------------------------------------------------------------------
(* Completed tests.                                                         *)

\* Queries are cut short only by a cancellation, and never in a completed test.
CutShortMeansCancelled ==
  \A t \in Tests, q \in Queries :
    query[t][q] \in {"skipped", "dropped"} => t \in cancelled /\ status[t] # "completed"

\* With parsable query types only a cancellation cuts a query short, and it shows.
LEMMA CutShortStep ==
  ASSUME "unparsable" \notin Kinds, IInv, CutShortMeansCancelled, [Next]_vars
  PROVE  CutShortMeansCancelled'
<1>0. TypeOK /\ PcMatchesStatus /\ RegistriesMatchPc /\ DeletesMatchTests
  BY DEF IInv
<1> USE <1>0 DEF CutShortMeansCancelled
<1>1. CASE UNCHANGED <<status, query>> /\ cancelled \subseteq cancelled'
  BY <1>1
<1>2. ASSUME NEW t \in Tests, NEW c \in Creds, CreateTest(t, c)
      PROVE  CutShortMeansCancelled'
  BY <1>2 DEF CreateTest, TypeOK, queryVars
<1>3. ASSUME NEW t \in Tests, Begin(t) \/ Iterate(t)
      PROVE  CutShortMeansCancelled'
  <2>1. /\ Spawn(t) /\ UNCHANGED cancelled
        /\ \A u \in Tests : status'[u] \in {status[u], "running"}
    BY <1>3 DEF Begin, Iterate, TypeOK, storeVars, eventVars
  <2> QED
    BY <2>1, SpawnChanges
<1>4. ASSUME NEW t \in Tests, Finish(t)
      PROVE  CutShortMeansCancelled'
  BY <1>4, FinishEnds DEF TypeOK, queryVars
<1>5. ASSUME NEW t \in Tests, NEW q \in Queries, QueryStep(t, q)
      PROVE  CutShortMeansCancelled'
  <2>1. status[t] = "running" /\ UNCHANGED <<status, cancelled>>
    BY <1>5, PendingMeansRunning
    DEF QueryStep, StartQuery, SkipQuery, AnswerThenProbe, AnswerLast, AnswerProbe, AtSemaphore,
        Pending, eventVars, storeVars
  <2>2. UNCHANGED query \/ \E s : QueryTo(t, q, s) /\ (s \in {"skipped", "dropped"} => t \in cancelled)
    BY <1>5 DEF QueryStep, StartQuery, SkipQuery, AnswerThenProbe, AnswerLast, AnswerProbe, WorkAllowed
  <2> QED
    BY <2>1, <2>2, QueryToChanges
<1>6. ASSUME NEW d \in Deleters, CancelTimesOut(d)
      PROVE  CutShortMeansCancelled'
  BY <1>6, TimeOutChanges DEF CancelTimesOut, DeletesMatchTests, storeVars, eventVars
<1> QED
  BY <1>1, <1>2, <1>3, <1>4, <1>5, <1>6
  DEF Next, TaskStep, BeginRaises, CheckpointSaved, Gather, SnapshotSaved, Retire,
      DeleteRefused, DeleteAccepted, DeleteReturns, BeginShutdown, EndShutdown,
      vars, storeVars, queryVars, eventVars

\* run(): unless a query type cannot be parsed, each query task of a COMPLETED test
\* made its lookup and all its probes.
THEOREM CompletedAnswered ==
  ASSUME "unparsable" \notin Kinds
  PROVE  Spec => []CompletedMeansAllAnswered
<1>1. Init => CutShortMeansCancelled
  BY DEF Init, CutShortMeansCancelled
<1>2. IInv /\ CutShortMeansCancelled /\ [Next]_vars => CutShortMeansCancelled'
  BY CutShortStep
<1>3. ASSUME IInv, CutShortMeansCancelled
      PROVE  CompletedMeansAllAnswered
  <2> SUFFICES ASSUME NEW t \in Tests, status[t] = "completed", NEW q \in 1..spawned[t]
               PROVE  query[t][q] = "done"
    BY DEF CompletedMeansAllAnswered
  <2>1. q \in Queries /\ ~(q > spawned[t])
    BY <1>3, ConstantsAssumption DEF IInv, TypeOK, Queries
  <2>2. query[t][q] # "none"
    BY <1>3, <2>1 DEF IInv, QueriesMatchSpawned
  <2>3. query[t][q] \notin {"queued", "primary", "probing"}
    BY <1>3, <2>1 DEF IInv, EndedMeansQuiet, Pending
  <2>4. query[t][q] \in QueryStates
    BY <1>3, <2>1 DEF IInv, TypeOK
  <2> QED
    BY <1>3, <2>1, <2>2, <2>3, <2>4 DEF CutShortMeansCancelled, QueryStates
<1> QED
  BY <1>1, <1>2, <1>3, Inductive, PTL DEF Spec

=============================================================================
