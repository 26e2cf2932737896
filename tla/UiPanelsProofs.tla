---------------------------- MODULE UiPanelsProofs ----------------------------
(***************************************************************************)
(* Proofs about UiPanels, for all lists of records, modes and types, every *)
(* size of the event buffer, every threshold and every number of attempts: *)
(* the panels are functions of the state of QueryStats, so that what is    *)
(* needed of its behaviour is the invariants of QueryStatsProofs and, for  *)
(* the amplification, a budget of search probes.                           *)
(***************************************************************************)
EXTENDS UiPanels, QueryStatsProofs

-----------------------------------------------------------------------------
(* Query amplification.                                                     *)

LookupAttempts(r) == {a \in Attempts : ~a.probe /\ a.record = r}
ProbeAttempts(r) == {a \in Attempts : a.probe /\ a.record = r}

\* Probes that the query tasks still have to make for a record.
Pending(r) == [q \in Queries |-> IF WorkItem(q).record = r THEN left[q] ELSE 0]

\* The probes made for a record and those still to make are no more than the search list
\* allows for its lookups that have ended.
ProbeBudget == \A r \in Records :
  LogCount(ProbeAttempts(r)) + SumOf(Pending(r)) <= Suffixes * LogCount(LookupAttempts(r))

\* The query tasks are finitely many.
LEMMA QueriesAreFinite == IsFiniteSet(Queries)
<1>1. 1 \in Int /\ MaxQueries \in Int
  BY ConstantsAssumption
<1> QED
  BY <1>1, FS_Interval, Zenon DEF Queries

\* A product grows with its factor.
LEMMA Multiply ==
  ASSUME NEW x \in Nat, NEW y \in Nat, NEW z \in Nat, x <= y
  PROVE  z * x <= z * y /\ z * x \in Nat /\ z * y \in Nat
<1>1. PICK d \in Nat : y = x + d
  <2>1. y - x \in Nat /\ y = x + (y - x)
    OBVIOUS
  <2> QED
    BY <2>1
<1>2. z * y = z * x + z * d /\ z * d \in Nat /\ z * x \in Nat
  BY <1>1
<1> QED
  BY <1>2

\* The probes to make are naturals, as long as the tasks have their types.
LEMMA PendingType ==
  ASSUME TypeOK, NEW r
  PROVE  Pending(r) \in [Queries -> Nat] /\ Pending(r) \in [Queries -> Int] /\ SumOf(Pending(r)) \in Nat
<1>1. \A q \in Queries : left[q] \in Nat
  BY ConstantsAssumption DEF TypeOK
<1>2. Pending(r) \in [Queries -> Nat]
  BY <1>1 DEF Pending
<1> QED
  BY <1>2, QueriesAreFinite, SumNat

\* No probe is made before its lookup has ended.
LEMMA BudgetInit ==
  ASSUME Init
  PROVE  ProbeBudget
<1> SUFFICES ASSUME NEW r \in Records
             PROVE  LogCount(ProbeAttempts(r)) + SumOf(Pending(r))
                      <= Suffixes * LogCount(LookupAttempts(r))
  BY DEF ProbeBudget
<1>1. LogCount(ProbeAttempts(r)) = 0 /\ LogCount(LookupAttempts(r)) = 0
  <2>1. \A i \in DOMAIN log : FALSE
    BY DEF Init
  <2>2. {i \in DOMAIN log : log[i] \in ProbeAttempts(r)} = {}
        /\ {i \in DOMAIN log : log[i] \in LookupAttempts(r)} = {}
    BY <2>1
  <2> QED
    BY <2>2, FS_EmptySet DEF LogCount
<1>2. SumOf(Pending(r)) = 0
  <2>1. Pending(r) \in [Queries -> Int] /\ \A q \in Queries : Pending(r)[q] = 0
    BY DEF Init, Pending
  <2>2. SumOf(Pending(r)) = Cardinality(Queries) * 0 /\ Cardinality(Queries) \in Nat
    BY <2>1, QueriesAreFinite, SumConstant, FS_CardinalityType
  <2> QED
    BY <2>2
<1> QED
  BY <1>1, <1>2, ConstantsAssumption

\* A task that gets probes to make, or makes one, changes what is pending for its record.
LEMMA PendingStep ==
  ASSUME TypeOK, TypeOK', NEW q \in Queries, NEW probes \in Nat,
         left' = [left EXCEPT ![q] = probes], NEW r
  PROVE  SumOf(Pending(r))' = IF WorkItem(q).record = r
                              THEN SumOf(Pending(r)) + probes - left[q] ELSE SumOf(Pending(r))
<1>1. /\ Pending(r) \in [Queries -> Int] /\ Pending(r)' \in [Queries -> Int]
      /\ SumOf(Pending(r)) \in Nat
  <2>1. Pending(r) \in [Queries -> Int] /\ SumOf(Pending(r)) \in Nat
    BY PendingType
  <2>2. \A p \in Queries : left'[p] \in Nat
    BY ConstantsAssumption DEF TypeOK
  <2>3. Pending(r)' \in [Queries -> Int]
    BY <2>2 DEF Pending
  <2> QED
    BY <2>1, <2>3
<1>2. left \in [Queries -> Nat]
  BY ConstantsAssumption DEF TypeOK
<1>3. CASE WorkItem(q).record = r
  <2>1. Pending(r)[q] = left[q] /\ Pending(r)'[q] = probes
        /\ \A p \in Queries \ {q} : Pending(r)'[p] = Pending(r)[p]
    BY <1>2, <1>3 DEF Pending
  <2>2. SumOf(Pending(r)') = SumOf(Pending(r)) + Pending(r)'[q] - Pending(r)[q]
    BY <1>1, <2>1, QueriesAreFinite, SumChange
  <2> QED
    BY <1>3, <2>1, <2>2
<1>4. CASE WorkItem(q).record # r
  <2>1. Pending(r)' = Pending(r)
    BY <1>2, <1>4 DEF Pending
  <2> QED
    BY <1>4, <2>1
<1> QED
  BY <1>3, <1>4

\* The end of a lookup allows for its probes, the end of a probe uses one up.
LEMMA BudgetStep ==
  ASSUME IInv, ProbeBudget, [Next]_vars
  PROVE  ProbeBudget'
<1>1. TypeOK /\ TypeOK'
  BY StatsStep DEF IInv
<1>2. ASSUME NEW r \in Records
      PROVE  /\ LogCount(LookupAttempts(r)) \in Nat /\ LogCount(ProbeAttempts(r)) \in Nat
             /\ SumOf(Pending(r)) \in Nat /\ Suffixes \in Nat
             /\ Suffixes * LogCount(LookupAttempts(r)) \in Nat
             /\ LogCount(ProbeAttempts(r)) + SumOf(Pending(r))
                  <= Suffixes * LogCount(LookupAttempts(r))
  <2>1. LogCount(LookupAttempts(r)) \in Nat /\ LogCount(ProbeAttempts(r)) \in Nat
    BY <1>1, LogCountType
  <2>2. SumOf(Pending(r)) \in Nat
    BY <1>1, PendingType
  <2> QED
    BY <2>1, <2>2, ConstantsAssumption DEF ProbeBudget
<1>3. ASSUME NEW q \in Queries, NEW outcome \in Outcomes, NEW latency \in Latencies,
             AnswerLookup(q, outcome, latency)
      PROVE  ProbeBudget'
  <2> DEFINE item == WorkItem(q)
             a == [record |-> item.record, type |-> item.type, mode |-> item.mode,
                   probe |-> FALSE, outcome |-> outcome, noise |-> LookupNoise(item, outcome),
                   latency |-> latency, at |-> now]
             probes == IF UsesSearch(item.mode) /\ ~item.record.dot THEN Suffixes ELSE 0
  <2>1. item \in Items
    BY WorkItemType
  <2>2. now \in Nat /\ latency \in Nat
    BY ConstantsAssumption DEF IInv, TypeOK
  <2>3. LookupNoise(item, outcome) \in NoiseTypes \cup {"none"}
    BY DEF LookupNoise, NoiseTypes
  <2>4. a \in Attempts /\ ~a.probe /\ a.record = WorkItem(q).record
    BY <2>1, <2>2, <2>3 DEF Attempts, Items
  <2>5. log' = Append(log, a)
    BY <1>3 DEF AnswerLookup, RecordAttempt
  <2>6. left' = [left EXCEPT ![q] = probes]
    BY <1>3 DEF AnswerLookup, Proceed
  <2>7. probes \in Nat /\ probes <= Suffixes /\ left[q] \in Nat
    BY ConstantsAssumption DEF IInv, TypeOK
  <2> HIDE DEF a, item, probes
  <2> SUFFICES ASSUME NEW r \in Records
               PROVE  (LogCount(ProbeAttempts(r)) + SumOf(Pending(r))
                         <= Suffixes * LogCount(LookupAttempts(r)))'
    BY DEF ProbeBudget
  <2> DEFINE L == LogCount(LookupAttempts(r))
             P == LogCount(ProbeAttempts(r))
             sum == SumOf(Pending(r))
  <2>8. /\ LogCount(LookupAttempts(r))' = IF WorkItem(q).record = r THEN L + 1 ELSE L
        /\ LogCount(ProbeAttempts(r))' = P
    <3>1. a \in LookupAttempts(r) <=> WorkItem(q).record = r
      BY <2>4 DEF LookupAttempts
    <3>2. a \notin ProbeAttempts(r)
      BY <2>4 DEF ProbeAttempts
    <3>3. LogCount(LookupAttempts(r))'
            = IF a \in LookupAttempts(r) THEN L + 1 ELSE L
      BY <1>1, <2>4, <2>5, LogCountStep DEF LookupAttempts, Attempts
    <3>4. LogCount(ProbeAttempts(r))' = IF a \in ProbeAttempts(r) THEN P + 1 ELSE P
      BY <1>1, <2>4, <2>5, LogCountStep DEF ProbeAttempts, Attempts
    <3> QED
      BY <3>1, <3>2, <3>3, <3>4
  <2>9. SumOf(Pending(r))' = IF WorkItem(q).record = r THEN sum + probes - left[q] ELSE sum
    BY <1>1, <2>6, <2>7, PendingStep
  <2>10. /\ L \in Nat /\ P \in Nat /\ sum \in Nat /\ Suffixes \in Nat /\ Suffixes * L \in Nat
         /\ P + sum <= Suffixes * L
    BY <1>2
  <2> HIDE DEF L, P, sum
  <2>11. Suffixes * (L + 1) = Suffixes * L + Suffixes
    BY <2>10
  <2>12. P + (sum + probes - left[q]) <= Suffixes * (L + 1)
    BY <2>7, <2>10, <2>11
  <2> QED
    BY <2>8, <2>9, <2>10, <2>12
<1>4. ASSUME NEW q \in Queries, NEW outcome \in Outcomes, AnswerProbe(q, outcome)
      PROVE  ProbeBudget'
  <2> DEFINE item == WorkItem(q)
             a == [record |-> item.record, type |-> item.type, mode |-> item.mode,
                   probe |-> TRUE, outcome |-> outcome, noise |-> ProbeNoise(outcome),
                   latency |-> 0, at |-> now]
  <2>1. item \in Items
    BY WorkItemType
  <2>2. now \in Nat
    BY DEF IInv, TypeOK
  <2>3. a \in Attempts /\ a.probe /\ a.record = WorkItem(q).record
    BY <2>1, <2>2 DEF Attempts, Items, ProbeNoise, NoiseTypes
  <2>4. log' = Append(log, a)
    BY <1>4 DEF AnswerProbe, RecordAttempt
  <2>5. left' = [left EXCEPT ![q] = left[q] - 1]
    BY <1>4 DEF AnswerProbe, Proceed
  <2>6. left[q] \in Nat /\ left[q] - 1 \in Nat
    BY ConstantsAssumption, <1>4 DEF AnswerProbe, IInv, TypeOK, ProbesLeft
  <2> HIDE DEF a, item
  <2> SUFFICES ASSUME NEW r \in Records
               PROVE  (LogCount(ProbeAttempts(r)) + SumOf(Pending(r))
                         <= Suffixes * LogCount(LookupAttempts(r)))'
    BY DEF ProbeBudget
  <2> DEFINE L == LogCount(LookupAttempts(r))
             P == LogCount(ProbeAttempts(r))
             sum == SumOf(Pending(r))
  <2>7. /\ LogCount(LookupAttempts(r))' = L
        /\ LogCount(ProbeAttempts(r))' = IF WorkItem(q).record = r THEN P + 1 ELSE P
    <3>1. a \in ProbeAttempts(r) <=> WorkItem(q).record = r
      BY <2>3 DEF ProbeAttempts
    <3>2. a \notin LookupAttempts(r)
      BY <2>3 DEF LookupAttempts
    <3>3. LogCount(LookupAttempts(r))' = IF a \in LookupAttempts(r) THEN L + 1 ELSE L
      BY <1>1, <2>3, <2>4, LogCountStep DEF LookupAttempts, Attempts
    <3>4. LogCount(ProbeAttempts(r))' = IF a \in ProbeAttempts(r) THEN P + 1 ELSE P
      BY <1>1, <2>3, <2>4, LogCountStep DEF ProbeAttempts, Attempts
    <3> QED
      BY <3>1, <3>2, <3>3, <3>4
  <2>8. SumOf(Pending(r))' = IF WorkItem(q).record = r THEN sum + (left[q] - 1) - left[q] ELSE sum
    BY <1>1, <2>5, <2>6, PendingStep
  <2>9. L \in Nat /\ P \in Nat /\ sum \in Nat /\ Suffixes * L \in Nat /\ P + sum <= Suffixes * L
    BY <1>2
  <2> HIDE DEF L, P, sum
  <2> QED
    BY <2>6, <2>7, <2>8, <2>9
<1>5. CASE UNCHANGED <<left, log>>
  <2>1. ASSUME NEW r \in Records
        PROVE  /\ LogCount(LookupAttempts(r))' = LogCount(LookupAttempts(r))
               /\ LogCount(ProbeAttempts(r))' = LogCount(ProbeAttempts(r))
               /\ Pending(r)' = Pending(r)
    BY <1>5 DEF LogCount, LookupAttempts, ProbeAttempts, Attempts, Pending
  <2> QED
    BY <2>1 DEF ProbeBudget
<1> QED
  BY <1>3, <1>4, <1>5 DEF Next, Ask, Tick, vars, storeVars

\* A common factor of a sum.
LEMMA SumScale ==
  ASSUME NEW S, IsFiniteSet(S), NEW n \in Int, NEW f \in [S -> Int], NEW g \in [S -> Int],
         \A x \in S : g[x] = n * f[x]
  PROVE  SumOf(g) = n * SumOf(f)
<1> DEFINE Bad == {T \in SUBSET S : SumOf(On(g, T)) # n * SumOf(On(f, T))}
<1>1. Bad = {}
  <2> SUFFICES ASSUME Bad # {} PROVE FALSE
    OBVIOUS
  <2>1. PICK T \in Bad : \A W \in Bad : W \subseteq T => W = T
    <3>1. Bad \in SUBSET SUBSET S
      OBVIOUS
    <3> HIDE DEF Bad
    <3> QED
      BY <3>1, Minimal
  <2>2. T # {}
    <3>1. SumOf(On(f, {})) = 0 /\ SumOf(On(g, {})) = 0
      BY SumStep
    <3>2. n * 0 = 0
      OBVIOUS
    <3> QED
      BY <2>1, <3>1, <3>2
  <2>3. PICK x \in T : TRUE
    BY <2>2
  <2> DEFINE R == T \ {x}
             a == SumOf(On(f, R))
  <2>4. R \notin Bad /\ R \in SUBSET S /\ T \in SUBSET S /\ g[x] = n * f[x] /\ f[x] \in Int
    BY <2>1, <2>3
  <2>5. /\ SumOf(On(f, T)) = f[x] + a /\ a \in Int
        /\ SumOf(On(g, T)) = g[x] + SumOf(On(g, R))
    <3>1. SumOf(On(f, T)) = f[x] + a
      BY <2>3, <2>4, SumStep
    <3>2. SumOf(On(g, T)) = g[x] + SumOf(On(g, R))
      BY <2>3, <2>4, SumStep
    <3>3. a \in Int
      BY <2>4, SumStep
    <3> QED
      BY <3>1, <3>2, <3>3
  <2>6. SumOf(On(g, R)) = n * a
    BY <2>4
  <2> HIDE DEF R, a
  <2>7. n * (f[x] + a) = n * f[x] + n * a
    BY <2>4, <2>5
  <2> QED
    BY <2>1, <2>4, <2>5, <2>6, <2>7
<1> QED
  BY <1>1, OnAll

\* What is recorded of a name is at most the estimate times the number of times it was looked
\* up with a type, but for probes the estimate does not expect, which the budget bounds.
LEMMA RecordIsEstimated ==
  ASSUME TypeOK, StoreInv, ProbeBudget, NEW r \in Records, NEW n \in Nat,
         \A t \in Types : Repeats(r, t) <= n
  PROVE  /\ perRecord[r]["total_queries"] \in Nat /\ UnforeseenProbes(r) \in Nat
         /\ Estimate(r) \in Nat /\ n * Estimate(r) \in Nat
         /\ UnforeseenProbes(r) <= n * Suffixes * Len(TypeList)
         /\ perRecord[r]["total_queries"] <= n * Estimate(r) + UnforeseenProbes(r)
<1> DEFINE L == LogCount(LookupAttempts(r))
           P == LogCount(ProbeAttempts(r))
           l == Len(TypeList)
           total == perRecord[r]["total_queries"]
<1>1. L \in Nat /\ P \in Nat /\ Suffixes \in Nat /\ l \in Nat
  <2>1. L \in Nat /\ P \in Nat
    BY LogCountType
  <2>2. Suffixes \in Nat /\ l \in Nat
    BY ConstantsAssumption
  <2> HIDE DEF L, P, l
  <2> QED
    BY <2>1, <2>2
<1>2. P <= Suffixes * L
  <2>1. SumOf(Pending(r)) \in Nat /\ P + SumOf(Pending(r)) <= Suffixes * L
    BY PendingType DEF ProbeBudget
  <2>2. Suffixes * L \in Nat
    BY <1>1
  <2> HIDE DEF P, L
  <2> QED
    BY <1>1, <2>1, <2>2
<1>3. total = L + P
  <2>1. total = LogCount(RecordCounting(r, "total_queries"))
    BY DEF StoreInv, CountsFromLog, RecordCounterNames
  <2>2. /\ RecordCounting(r, "total_queries") = LookupAttempts(r) \cup ProbeAttempts(r)
        /\ LookupAttempts(r) \cap ProbeAttempts(r) = {}
    BY AttemptFields DEF RecordCounting, RecordCountersOf, LookupAttempts, ProbeAttempts
  <2> QED
    BY <2>1, <2>2, CountApart
<1>4. L <= n * l
  <2> DEFINE A == LookupAttempts(r)
             key == [a \in A |-> a.type]
             times == [t \in Types |-> Repeats(r, t)]
             most == [t \in Types |-> n]
  <2>1. A \in SUBSET Attempts /\ key \in [A -> Types]
    BY AttemptFields DEF LookupAttempts
  <2>2. \A t \in Types : times[t] = LogCount({a \in A : key[a] = t})
    <3> TAKE t \in Types
    <3>1. \A i \in DOMAIN log : log[i] \in Attempts
      BY DEF TypeOK
    <3>2. {i \in DOMAIN log : log[i] \in {a \in A : key[a] = t}}
            = {i \in DOMAIN log : Lookup(i) /\ log[i].record = r /\ log[i].type = t}
      BY <3>1 DEF LookupAttempts, Lookup
    <3> QED
      BY <3>2 DEF Repeats, LogCount
  <2>3. times \in [Types -> Int] /\ most \in [Types -> Int]
        /\ \A t \in Types : times[t] <= most[t] /\ most[t] = n
    <3>1. \A t \in Types : LogCount({a \in A : key[a] = t}) \in Nat
      BY LogCountType
    <3>2. \A t \in Types : times[t] \in Nat
      BY <2>2, <3>1
    <3> QED
      BY <3>2
  <2>4. DOMAIN times = Types /\ times = [t \in Types |-> times[t]]
    OBVIOUS
  <2>5. IsFiniteSet(Types) /\ Cardinality(Types) \in Nat /\ Cardinality(Types) <= l
    BY ListsAreFinite, FS_CardinalityType
  <2> HIDE DEF A, key, times, most
  <2>6. SumOf(times) = LogCount(A)
    BY <2>1, <2>2, <2>4, <2>5, Shares
  <2>7. SumOf(times) <= SumOf(most) /\ SumOf(most) = Cardinality(Types) * n
    BY <2>3, <2>5, SumMonotonic, SumConstant
  <2>8. n * Cardinality(Types) <= n * l /\ n * Cardinality(Types) \in Nat /\ n * l \in Nat
    BY <1>1, <2>5, Multiply
  <2>9. Cardinality(Types) * n = n * Cardinality(Types)
    BY <2>5
  <2>10. L = LogCount(A)
    BY DEF A
  <2> HIDE DEF L, l
  <2> QED
    BY <1>1, <2>6, <2>7, <2>8, <2>9, <2>10
<1>5. P <= n * Suffixes * l /\ n * Suffixes * l \in Nat
  <2> DEFINE top == n * l
  <2>1. top \in Nat /\ L <= top
    BY <1>1, <1>4
  <2> HIDE DEF top, L, P
  <2>2. Suffixes * L <= Suffixes * top /\ Suffixes * L \in Nat /\ Suffixes * top \in Nat
    BY <1>1, <2>1, Multiply
  <2>3. Suffixes * top = n * Suffixes * l
    BY <1>1 DEF top
  <2> QED
    BY <1>1, <1>2, <2>2, <2>3
<1>6. UnforeseenProbes(r) = IF SearchFirst(r) THEN 0 ELSE P
  <2>1. \A i \in DOMAIN log : log[i] \in Attempts
    BY DEF TypeOK
  <2>2. CASE SearchFirst(r)
    <3>1. {i \in DOMAIN log : log[i].probe /\ log[i].record = r /\ ~SearchFirst(r)} = {}
      BY <2>2
    <3> QED
      BY <2>2, <3>1, FS_EmptySet DEF UnforeseenProbes
  <2>3. CASE ~SearchFirst(r)
    <3>1. {i \in DOMAIN log : log[i].probe /\ log[i].record = r /\ ~SearchFirst(r)}
            = {i \in DOMAIN log : log[i] \in ProbeAttempts(r)}
      BY <2>1, <2>3 DEF ProbeAttempts
    <3> QED
      BY <2>3, <3>1 DEF UnforeseenProbes, LogCount
  <2> QED
    BY <2>2, <2>3
<1>7. QueriesPerLookup(r) = IF SearchFirst(r) THEN (Suffixes + 1) * l ELSE l
  BY <1>1 DEF QueriesPerLookup, SearchAttempts
<1>8. /\ QueriesPerLookup(r) \in Nat /\ n * QueriesPerLookup(r) \in Nat
      /\ total <= n * QueriesPerLookup(r) + UnforeseenProbes(r)
  <2>1. CASE SearchFirst(r)
    <3> DEFINE top == n * l
    <3>1. top \in Nat /\ L <= top
      BY <1>1, <1>4
    <3> HIDE DEF L, P, total, top
    <3>2. L + P <= (Suffixes + 1) * L
      <4>1. (Suffixes + 1) * L = Suffixes * L + L /\ Suffixes * L \in Nat
        BY <1>1
      <4> QED
        BY <1>1, <1>2, <4>1
    <3>3. (Suffixes + 1) * L <= (Suffixes + 1) * top /\ (Suffixes + 1) * top \in Nat
          /\ (Suffixes + 1) * L \in Nat
      <4>1. Suffixes + 1 \in Nat
        BY <1>1
      <4> QED
        BY <1>1, <3>1, <4>1, Multiply
    <3>4. (Suffixes + 1) * top = n * ((Suffixes + 1) * l)
      BY <1>1 DEF top
    <3>5. (Suffixes + 1) * l \in Nat
      BY <1>1
    <3> QED
      BY <1>1, <1>3, <1>6, <1>7, <2>1, <3>2, <3>3, <3>4, <3>5
  <2>2. CASE ~SearchFirst(r)
    <3>1. QueriesPerLookup(r) = l /\ UnforeseenProbes(r) = P
      BY <1>6, <1>7, <2>2
    <3>2. n * l \in Nat
      BY <1>1
    <3> HIDE DEF L, P, total, l
    <3> QED
      BY <1>1, <1>3, <1>4, <3>1, <3>2
  <2> QED
    BY <2>1, <2>2
<1>9. UnforeseenProbes(r) \in Nat /\ UnforeseenProbes(r) <= P /\ total \in Nat
  <2> HIDE DEF L, P, total
  <2> QED
    BY <1>1, <1>3, <1>6
<1>10. CASE total > 0
  BY <1>1, <1>5, <1>8, <1>9, <1>10 DEF Estimate
<1>11. CASE total = 0
  <2>1. Estimate(r) = 0 /\ n * Estimate(r) = 0
    BY <1>11 DEF Estimate
  <2> HIDE DEF L, P
  <2> QED
    BY <1>1, <1>5, <1>9, <1>11, <2>1
<1> QED
  BY <1>9, <1>10, <1>11

\* The sum over the records.
LEMMA AmplificationBound ==
  ASSUME TypeOK, StoreInv, ProbeBudget
  PROVE  AmplificationIsRepetition
<1> DEFINE unforeseen == [r \in Records |-> UnforeseenProbes(r)]
           total == [r \in Records |-> perRecord[r]["total_queries"]]
           estimate == [r \in Records |-> Estimate(r)]
<1> SUFFICES ASSUME NEW n \in 1..MaxQueries, \A r \in Records, t \in Types : Repeats(r, t) <= n
             PROVE  /\ Amplification[1] - SumOf(unforeseen) <= n * Amplification[2]
                    /\ \A r \in Records : unforeseen[r] <= n * Suffixes * Len(TypeList)
  BY DEF AmplificationIsRepetition
<1> DEFINE scaled == [r \in Records |-> n * Estimate(r)]
           most == [r \in Records |-> n * Estimate(r) + UnforeseenProbes(r)]
<1>1. n \in Nat /\ IsFiniteSet(Records)
  BY ListsAreFinite, ConstantsAssumption
<1>2. ASSUME NEW r \in Records
      PROVE  /\ perRecord[r]["total_queries"] \in Nat /\ UnforeseenProbes(r) \in Nat
             /\ Estimate(r) \in Nat /\ n * Estimate(r) \in Nat
             /\ UnforeseenProbes(r) <= n * Suffixes * Len(TypeList)
             /\ perRecord[r]["total_queries"] <= n * Estimate(r) + UnforeseenProbes(r)
  BY <1>1, RecordIsEstimated
<1>3. /\ unforeseen \in [Records -> Int] /\ total \in [Records -> Int]
      /\ estimate \in [Records -> Int] /\ scaled \in [Records -> Int] /\ most \in [Records -> Int]
  BY <1>2
<1>4. \A r \in Records : /\ total[r] <= most[r] /\ scaled[r] = n * estimate[r]
                         /\ most[r] = scaled[r] + unforeseen[r]
  BY <1>2
<1>5. Amplification[1] = SumOf(total) /\ Amplification[2] = SumOf(estimate)
  BY CountsAddUp DEF StoreAddsUp, Summed, Amplification
<1>6. \A r \in Records : unforeseen[r] <= n * Suffixes * Len(TypeList)
  BY <1>2
<1> HIDE DEF unforeseen, total, estimate, scaled, most
<1>7. SumOf(total) <= SumOf(most)
  BY <1>1, <1>3, <1>4, SumMonotonic
<1>8. SumOf(most) = SumOf(scaled) + SumOf(unforeseen)
  BY <1>1, <1>3, <1>4, SumPlus
<1>9. SumOf(scaled) = n * SumOf(estimate)
  BY <1>1, <1>3, <1>4, SumScale
<1>10. SumOf(total) \in Int /\ SumOf(scaled) \in Int /\ SumOf(unforeseen) \in Int
  <2>1. ASSUME NEW f \in [Records -> Int]
        PROVE  SumOf(f) \in Int
    BY <1>1, OnAll, SumStep
  <2> QED
    BY <1>3, <2>1
<1> QED
  BY <1>5, <1>6, <1>7, <1>8, <1>9, <1>10

-----------------------------------------------------------------------------
(* Groups of attempts.                                                      *)

\* A group has the attempts with its key, and there are only groups that have some.
LEMMA GroupParts ==
  ASSUME NEW s, IsFiniteSet(s), NEW key, DOMAIN key = s
  PROVE  /\ IsFiniteSet(DOMAIN Groups(s, key))
         /\ \A i \in s : key[i] \in DOMAIN Groups(s, key)
         /\ DOMAIN Groups(s, key) = {} <=> s = {}
         /\ \A k \in DOMAIN Groups(s, key) :
              /\ Groups(s, key)[k] = {i \in s : key[i] = k}
              /\ Groups(s, key)[k] # {} /\ Groups(s, key)[k] \in SUBSET s
              /\ IsFiniteSet(Groups(s, key)[k]) /\ Cardinality(Groups(s, key)[k]) \in Nat \ {0}
<1> DEFINE K == {key[i] : i \in s}
           part(k) == {i \in s : key[i] = k}
           keys == [i \in s |-> key[i]]
<1>1. Groups(s, key) = [k \in K |-> part(k)]
  BY DEF Groups
<1>2. IsFiniteSet(K)
  <2>1. keys \in Surjection(s, K)
    BY DEF Surjection
  <2> HIDE DEF K, keys
  <2> QED
    BY <2>1, FS_Surjection
<1>3. ASSUME NEW k \in K
      PROVE  /\ part(k) # {} /\ part(k) \in SUBSET s
             /\ IsFiniteSet(part(k)) /\ Cardinality(part(k)) \in Nat \ {0}
  <2>1. part(k) # {} /\ part(k) \in SUBSET s
    OBVIOUS
  <2> HIDE DEF part
  <2>2. IsFiniteSet(part(k)) /\ Cardinality(part(k)) \in Nat
    BY <2>1, FS_Subset, FS_CardinalityType
  <2> QED
    BY <2>1, <2>2, FS_EmptySet
<1>4. K = {} <=> s = {}
  OBVIOUS
<1>5. \A i \in s : key[i] \in K
  OBVIOUS
<1>6. DOMAIN Groups(s, key) = K /\ \A k \in K : Groups(s, key)[k] = part(k)
  BY <1>1
<1> HIDE DEF K
<1>7. \A k \in K : Groups(s, key)[k] = {i \in s : key[i] = k}
  BY <1>6
<1> HIDE DEF part
<1> QED
  BY <1>2, <1>3, <1>4, <1>5, <1>6, <1>7

\* The groups share out the attempts, and those of any part of them.
LEMMA GroupShares ==
  ASSUME NEW s, IsFiniteSet(s), NEW key, DOMAIN key = s, NEW T \in SUBSET s,
         NEW f, f = [k \in DOMAIN Groups(s, key) |-> f[k]],
         \A k \in DOMAIN Groups(s, key) : f[k] = Cardinality({i \in Groups(s, key)[k] : i \in T})
  PROVE  SumOf(f) = Cardinality(T)
<1> DEFINE K == DOMAIN Groups(s, key)
           keyOf == [i \in T |-> key[i]]
<1>1. IsFiniteSet(T) /\ IsFiniteSet(K) /\ keyOf \in [T -> K]
  BY GroupParts, FS_Subset
<1>2. ASSUME NEW k \in K
      PROVE  f[k] = Cardinality({i \in T : keyOf[i] = k})
  <2>1. {i \in Groups(s, key)[k] : i \in T} = {i \in T : keyOf[i] = k}
    BY GroupParts
  <2> QED
    BY <2>1
<1>3. f = [k \in K |-> Cardinality({i \in T : keyOf[i] = k})]
  BY <1>2
<1> HIDE DEF K, keyOf
<1> QED
  BY <1>1, <1>3, SumOfFibres

\* A tally shares out the attempts.
LEMMA TallyShares ==
  ASSUME NEW s, IsFiniteSet(s), NEW key, DOMAIN key = s
  PROVE  SumOf(Tally(Groups(s, key))) = Cardinality(s)
<1> DEFINE f == Tally(Groups(s, key))
<1>1. f = [k \in DOMAIN Groups(s, key) |-> Cardinality(Groups(s, key)[k])]
  BY DEF Tally
<1>2. \A k \in DOMAIN Groups(s, key) : f[k] = Cardinality({i \in Groups(s, key)[k] : i \in s})
  <2> TAKE k \in DOMAIN Groups(s, key)
  <2>1. {i \in Groups(s, key)[k] : i \in s} = Groups(s, key)[k]
    BY GroupParts
  <2> QED
    BY <1>1, <2>1
<1>3. f = [k \in DOMAIN Groups(s, key) |-> f[k]]
  BY <1>1
<1> HIDE DEF f
<1>4. s \in SUBSET s
  OBVIOUS
<1>5. SumOf(f) = Cardinality(s)
  BY <1>2, <1>3, <1>4, GroupShares
<1> QED
  BY <1>5 DEF f

\* A row field that counts the attempts of a group, or its failures, adds up.
LEMMA RowsShare ==
  ASSUME NEW s, IsFiniteSet(s), NEW key, DOMAIN key = s
  PROVE  /\ RowSum(RecordRows(Groups(s, key)), "queries") = Cardinality(s)
         /\ RowSum(RecordRows(Groups(s, key)), "errors") = Cardinality(Failures(s))
         /\ RowSum(LatencyRows(Groups(s, key)), "count") = Cardinality(s)
<1> DEFINE g == Groups(s, key)
           errors == [k \in DOMAIN g |-> Cardinality(Failures(g[k]))]
<1>1. SumOf(Tally(g)) = Cardinality(s)
  BY TallyShares
<1>2. SumOf(errors) = Cardinality(Failures(s))
  <2>1. Failures(s) \in SUBSET s
    BY DEF Failures
  <2>2. \A k \in DOMAIN g : errors[k] = Cardinality({i \in g[k] : i \in Failures(s)})
    <3> TAKE k \in DOMAIN g
    <3>1. {i \in g[k] : i \in Failures(s)} = Failures(g[k])
      BY GroupParts DEF Failures
    <3> QED
      BY <3>1
  <2>3. errors = [k \in DOMAIN g |-> errors[k]]
    OBVIOUS
  <2> HIDE DEF errors
  <2> QED
    BY <2>1, <2>2, <2>3, GroupShares
<1>3. RowSum(RecordRows(g), "queries") = SumOf(Tally(g))
  <2>1. DOMAIN RecordRows(g) = DOMAIN g
    BY DEF RecordRows
  <2>2. \A k \in DOMAIN g : RecordRows(g)[k]["queries"] = Cardinality(g[k])
    BY DEF RecordRows, RecordRow
  <2> HIDE DEF g
  <2> QED
    BY <2>1, <2>2 DEF RowSum, Tally
<1>4. RowSum(RecordRows(g), "errors") = SumOf(errors)
  <2>1. DOMAIN RecordRows(g) = DOMAIN g
    BY DEF RecordRows
  <2>2. \A k \in DOMAIN g : RecordRows(g)[k]["errors"] = Cardinality(Failures(g[k]))
    BY DEF RecordRows, RecordRow
  <2> HIDE DEF g
  <2> QED
    BY <2>1, <2>2 DEF RowSum
<1>5. RowSum(LatencyRows(g), "count") = SumOf(Tally(g))
  <2>1. DOMAIN LatencyRows(g) = DOMAIN g
    BY DEF LatencyRows
  <2>2. \A k \in DOMAIN g : LatencyRows(g)[k]["count"] = Cardinality(g[k])
    BY DEF LatencyRows
  <2> HIDE DEF g
  <2> QED
    BY <2>1, <2>2 DEF RowSum, Tally
<1> QED
  BY <1>1, <1>2, <1>3, <1>4, <1>5

-----------------------------------------------------------------------------
(* Percentiles.                                                             *)

PercentileSet == {50, 95, 99}

\* round: the nearest number, the even one of two.
LEMMA PercentileIndexBounds ==
  ASSUME NEW n \in Nat \ {0}, NEW p \in PercentileSet
  PROVE  /\ PercentileIndex(n, p) \in 0..(n - 1)
         /\ p * (n - 1) - 50 <= 100 * PercentileIndex(n, p)
         /\ 100 * PercentileIndex(n, p) <= p * (n - 1) + 50
<1> DEFINE x == p * (n - 1)
<1>1. x \in Nat /\ x <= 99 * (n - 1)
  BY DEF PercentileSet
<1>2. PercentileIndex(n, p) = IF x % 100 > 50 \/ (x % 100 = 50 /\ (x \div 100) % 2 = 1)
                              THEN x \div 100 + 1 ELSE x \div 100
  BY DEF PercentileIndex
<1> HIDE DEF x
<1>3. /\ x = 100 * (x \div 100) + (x % 100) /\ x % 100 \in 0..99 /\ x \div 100 \in Nat
  BY <1>1
<1>4. /\ PercentileIndex(n, p) \in Nat
      /\ x - 50 <= 100 * PercentileIndex(n, p)
      /\ 100 * PercentileIndex(n, p) <= x + 50
  BY <1>2, <1>3
<1>5. PercentileIndex(n, p) <= n - 1
  BY <1>1, <1>4
<1> QED
  BY <1>4, <1>5 DEF x

\* The index of the 99th percentile is not below that of the 95th, nor that below the median.
LEMMA PercentileIndexOrder ==
  ASSUME NEW n \in Nat \ {0}
  PROVE  /\ PercentileIndex(n, 50) <= PercentileIndex(n, 95)
         /\ PercentileIndex(n, 95) <= PercentileIndex(n, 99)
<1>1. ASSUME NEW x \in Nat, NEW y \in Nat, x <= y
      PROVE  (IF x % 100 > 50 \/ (x % 100 = 50 /\ (x \div 100) % 2 = 1) THEN x \div 100 + 1 ELSE x \div 100)
             <= (IF y % 100 > 50 \/ (y % 100 = 50 /\ (y \div 100) % 2 = 1) THEN y \div 100 + 1 ELSE y \div 100)
  <2>1. /\ x = 100 * (x \div 100) + (x % 100) /\ x % 100 \in 0..99 /\ x \div 100 \in Nat
        /\ y = 100 * (y \div 100) + (y % 100) /\ y % 100 \in 0..99 /\ y \div 100 \in Nat
    OBVIOUS
  <2>2. x \div 100 <= y \div 100
    BY <1>1, <2>1
  <2>3. CASE x \div 100 = y \div 100
    BY <1>1, <2>1, <2>3
  <2>4. CASE x \div 100 < y \div 100
    BY <2>1, <2>4
  <2> QED
    BY <2>1, <2>2, <2>3, <2>4
<1>2. /\ 50 * (n - 1) \in Nat /\ 95 * (n - 1) \in Nat /\ 99 * (n - 1) \in Nat
      /\ 50 * (n - 1) <= 95 * (n - 1) /\ 95 * (n - 1) <= 99 * (n - 1)
  OBVIOUS
<1> QED
  BY <1>1, <1>2 DEF PercentileIndex

\* Two lists make up a list in which the index is not below the sum of theirs.
LEMMA PercentileIndexShares ==
  ASSUME NEW m \in Nat \ {0}, NEW n \in Nat \ {0}, NEW p \in PercentileSet
  PROVE  PercentileIndex(m, p) + PercentileIndex(n, p) <= PercentileIndex(m + n, p)
<1> DEFINE a == PercentileIndex(m, p)
           b == PercentileIndex(n, p)
           c == PercentileIndex(m + n, p)
<1>1. /\ a \in Nat /\ b \in Nat /\ c \in Nat
      /\ 100 * a <= p * (m - 1) + 50 /\ 100 * b <= p * (n - 1) + 50
      /\ p * (m + n - 1) - 50 <= 100 * c
  BY PercentileIndexBounds
<1>2. CASE p > 50
  BY <1>1, <1>2 DEF PercentileSet
<1>3. CASE p = 50
  <2> DEFINE x == 50 * (m - 1)
             y == 50 * (n - 1)
             z == 50 * (m + n - 1)
  <2>1. x \in Nat /\ y \in Nat /\ z \in Nat /\ z = x + y + 50
    OBVIOUS
  <2>2. a = (IF x % 100 > 50 \/ (x % 100 = 50 /\ (x \div 100) % 2 = 1) THEN x \div 100 + 1 ELSE x \div 100)
        /\ b = (IF y % 100 > 50 \/ (y % 100 = 50 /\ (y \div 100) % 2 = 1) THEN y \div 100 + 1 ELSE y \div 100)
        /\ c = (IF z % 100 > 50 \/ (z % 100 = 50 /\ (z \div 100) % 2 = 1) THEN z \div 100 + 1 ELSE z \div 100)
    BY <1>3 DEF PercentileIndex
  <2>3. x % 100 \in {0, 50} /\ y % 100 \in {0, 50}
    OBVIOUS
  <2> HIDE DEF a, b, c, x, y, z
  <2>4. /\ x = 100 * (x \div 100) + (x % 100) /\ x \div 100 \in Nat
        /\ y = 100 * (y \div 100) + (y % 100) /\ y \div 100 \in Nat
        /\ z = 100 * (z \div 100) + (z % 100) /\ z \div 100 \in Nat /\ z % 100 \in 0..99
    BY <2>1
  <2>5. ASSUME x % 100 = 0 \/ y % 100 = 0
        PROVE  a + b <= c
    <3>1. CASE x % 100 = 0 /\ y % 100 = 0
      <4>1. z \div 100 = (x \div 100) + (y \div 100)
        BY <2>1, <2>4, <3>1
      <4> QED
        BY <2>2, <2>4, <3>1, <4>1
    <3>2. CASE ~(x % 100 = 0 /\ y % 100 = 0)
      <4>1. z \div 100 = (x \div 100) + (y \div 100) + 1
        BY <2>1, <2>3, <2>4, <2>5, <3>2
      <4>2. a + b <= (x \div 100) + (y \div 100) + 1
        BY <2>2, <2>3, <2>4, <2>5
      <4> QED
        BY <1>1, <2>2, <2>4, <4>1, <4>2
    <3> QED
      BY <3>1, <3>2
  <2>6. ASSUME x % 100 = 50, y % 100 = 50
        PROVE  a + b <= c
    <3>1. z \div 100 = (x \div 100) + (y \div 100) + 1 /\ z % 100 = 50
      BY <2>1, <2>4, <2>6
    <3>2. CASE (x \div 100) % 2 = 1 /\ (y \div 100) % 2 = 1
      <4>1. (z \div 100) % 2 = 1
        BY <2>4, <3>1, <3>2
      <4> QED
        BY <2>2, <2>4, <3>1, <4>1
    <3>3. CASE ~((x \div 100) % 2 = 1 /\ (y \div 100) % 2 = 1)
      <4>1. a + b <= (x \div 100) + (y \div 100) + 1
        BY <2>2, <2>4, <2>6, <3>3
      <4> QED
        BY <1>1, <2>2, <2>4, <3>1, <4>1
    <3> QED
      BY <3>2, <3>3
  <2> QED
    BY <2>3, <2>5, <2>6 DEF a, b, c
<1> QED
  BY <1>2, <1>3 DEF PercentileSet

\* In a list of at most 51 the 99th percentile is the last.
LEMMA LastIsPercentile ==
  ASSUME NEW n \in 1..51
  PROVE  PercentileIndex(n, 99) = n - 1
<1> DEFINE x == 99 * (n - 1)
<1>1. CASE n = 51
  BY <1>1 DEF PercentileIndex
<1>2. CASE n < 51
  <2>1. n = 1 \/ (x \div 100 = n - 2 /\ x % 100 > 50 /\ n > 1)
    BY <1>2
  <2>2. n = 1 => x = 0
    OBVIOUS
  <2> QED
    BY <2>1, <2>2 DEF PercentileIndex
<1> QED
  BY <1>1, <1>2

\* The same for any number of lists.
LEMMA PercentileIndexSums ==
  ASSUME NEW S, IsFiniteSet(S), S # {}, NEW f \in [S -> Nat \ {0}], NEW p \in PercentileSet
  PROVE  SumOf([x \in S |-> PercentileIndex(f[x], p)]) <= PercentileIndex(SumOf(f), p)
<1> DEFINE index == [x \in S |-> PercentileIndex(f[x], p)]
           Bad == {T \in SUBSET S : /\ T # {}
                                    /\ ~ /\ SumOf(On(f, T)) \in Nat \ {0}
                                         /\ SumOf(On(index, T)) <= PercentileIndex(SumOf(On(f, T)), p)}
<1>1. /\ f \in [S -> Int] /\ index \in [S -> Int]
      /\ \A x \in S : f[x] \in Nat \ {0} /\ index[x] \in Nat /\ index[x] = PercentileIndex(f[x], p)
  BY PercentileIndexBounds
<1> HIDE DEF index
<1>2. Bad = {}
  <2> SUFFICES ASSUME Bad # {} PROVE FALSE
    OBVIOUS
  <2>1. PICK T \in Bad : \A W \in Bad : W \subseteq T => W = T
    <3>1. Bad \in SUBSET SUBSET S
      OBVIOUS
    <3> HIDE DEF Bad
    <3> QED
      BY <3>1, Minimal
  <2>2. PICK x \in T : TRUE
    BY <2>1
  <2> DEFINE R == T \ {x}
  <2>3. R \notin Bad /\ R \in SUBSET S /\ T \in SUBSET S /\ x \in S
    BY <2>1, <2>2
  <2>4. /\ SumOf(On(f, T)) = f[x] + SumOf(On(f, R))
        /\ SumOf(On(index, T)) = index[x] + SumOf(On(index, R))
        /\ SumOf(On(f, R)) \in Int /\ SumOf(On(index, R)) \in Int
        /\ R = {} => SumOf(On(f, R)) = 0 /\ SumOf(On(index, R)) = 0
    BY <1>1, <2>2, <2>3, SumStep
  <2>5. CASE R = {}
    BY <1>1, <2>1, <2>3, <2>4, <2>5
  <2>6. CASE R # {}
    <3>1. SumOf(On(f, R)) \in Nat \ {0} /\ SumOf(On(index, R)) <= PercentileIndex(SumOf(On(f, R)), p)
      BY <2>3, <2>6
    <3>2. index[x] + PercentileIndex(SumOf(On(f, R)), p) <= PercentileIndex(f[x] + SumOf(On(f, R)), p)
      BY <1>1, <2>3, <3>1, PercentileIndexShares
    <3>3. /\ PercentileIndex(SumOf(On(f, R)), p) \in Nat
          /\ f[x] + SumOf(On(f, R)) \in Nat \ {0}
          /\ PercentileIndex(f[x] + SumOf(On(f, R)), p) \in Nat
      BY <1>1, <2>3, <3>1, PercentileIndexBounds
    <3> HIDE DEF R
    <3>4. SumOf(On(index, T)) <= PercentileIndex(SumOf(On(f, T)), p) /\ SumOf(On(f, T)) \in Nat \ {0}
      BY <1>1, <2>3, <2>4, <3>1, <3>2, <3>3
    <3> QED
      BY <2>1, <3>4
  <2> QED
    BY <2>5, <2>6
<1>3. SumOf(On(index, S)) <= PercentileIndex(SumOf(On(f, S)), p)
  <2>1. S \notin Bad /\ S \in SUBSET S
    BY <1>2
  <2> QED
    BY <2>1
<1>4. On(index, S) = index /\ On(f, S) = f
  BY <1>1, OnAll
<1> QED
  BY <1>3, <1>4 DEF index

\* The latencies of the attempts in the log are numbers, and the log is finite.
LEMMA LogFacts ==
  ASSUME TypeOK
  PROVE  /\ IsFiniteSet(DOMAIN log) /\ DOMAIN log = 1..Len(log) /\ Len(log) \in Nat
         /\ \A i \in DOMAIN log : log[i] \in Attempts /\ log[i].latency \in Nat /\ log[i].at \in Nat
         /\ \A s \in SUBSET DOMAIN log : IsFiniteSet(s) /\ Cardinality(s) \in Nat
<1>1. DOMAIN log = 1..Len(log) /\ Len(log) \in Nat /\ \A i \in DOMAIN log : log[i] \in Attempts
  BY DEF TypeOK
<1>2. {i \in DOMAIN log : log[i] \in Attempts} = DOMAIN log
  BY <1>1
<1>3. IsFiniteSet(DOMAIN log)
  BY <1>2, LogCountType
<1>4. \A i \in DOMAIN log : log[i].latency \in Nat /\ log[i].at \in Nat
  BY <1>1, AttemptFields
<1> QED
  BY <1>1, <1>3, <1>4, FS_Subset, FS_CardinalityType

Below(v, s) == {i \in s : log[i].latency < v}
UpTo(v, s) == {i \in s : log[i].latency <= v}

\* Every index has a latency.
LEMMA IndexHasLatency ==
  ASSUME TypeOK, NEW s \in SUBSET DOMAIN log, NEW k \in Nat, k < Cardinality(s)
  PROVE  \E v \in {log[i].latency : i \in s} : HasIndex(v, k, s)
<1> DEFINE Enough == {v \in Nat : k < Cardinality(UpTo(v, s))}
<1>1. IsFiniteSet(s) /\ Cardinality(s) \in Nat /\ \A i \in s : log[i].latency \in Nat
  BY LogFacts
<1>2. ASSUME NEW v
      PROVE  /\ Cardinality(UpTo(v, s)) \in Nat /\ Cardinality(Below(v, s)) \in Nat
             /\ UpTo(v, s) \in SUBSET s /\ Below(v, s) \in SUBSET s
  <2>1. UpTo(v, s) \in SUBSET s /\ Below(v, s) \in SUBSET s
    BY DEF UpTo, Below
  <2> QED
    BY <1>1, <2>1, FS_Subset, FS_CardinalityType
<1>3. Enough # {}
  <2> DEFINE latency == [i \in s |-> log[i].latency]
             all == SumOf(latency)
  <2>1. latency \in [s -> Nat] /\ latency \in [s -> Int]
    BY <1>1
  <2>2. all \in Nat
    BY <1>1, <2>1, SumNat
  <2>3. \A i \in s : log[i].latency <= all
    <3> TAKE i \in s
    <3> DEFINE rest == On(latency, s \ {i})
    <3>1. rest \in [s \ {i} -> Nat] /\ IsFiniteSet(s \ {i})
      BY <1>1, <2>1, FS_Subset DEF On
    <3>2. SumOf(rest) \in Nat
      BY <3>1, SumNat
    <3>3. all = latency[i] + SumOf(rest)
      <4> HIDE DEF latency
      <4> QED
        BY <1>1, <2>1, SumPick
    <3> QED
      BY <1>1, <3>2, <3>3
  <2>4. UpTo(all, s) = s
    BY <2>3 DEF UpTo
  <2> QED
    BY <2>2, <2>4
<1>4. PICK v \in Enough : \A u \in Enough : ~(u < v)
  <2> DEFINE less == OpToRel(<, Nat)
  <2>1. Enough \subseteq Nat
    OBVIOUS
  <2>2. IsWellFoundedOn(less, Nat)
    BY NatLessThanWellFounded, Zenon
  <2>3. \A u, v \in Nat : u < v => <<u, v>> \in less
    BY SMT DEF OpToRel
  <2> HIDE DEF Enough, less
  <2>4. PICK v \in Enough : \A u \in Enough : <<u, v>> \notin less
    BY <1>3, <2>1, <2>2, WFMin
  <2> QED
    BY <2>1, <2>3, <2>4
<1>5. Cardinality(Below(v, s)) <= k
  <2>1. CASE v = 0
    <3>1. Below(v, s) = {}
      BY <1>1, <2>1 DEF Below
    <3> QED
      BY <3>1, FS_EmptySet
  <2>2. CASE v # 0
    <3>1. v - 1 \in Nat /\ v - 1 \notin Enough
      BY <1>4, <2>2
    <3>2. Below(v, s) = UpTo(v - 1, s)
      BY <1>1, <1>4 DEF Below, UpTo
    <3> QED
      BY <1>2, <3>1, <3>2
  <2> QED
    BY <2>1, <2>2
<1>6. \E i \in s : log[i].latency = v
  <2> SUFFICES ASSUME ~ \E i \in s : log[i].latency = v PROVE FALSE
    OBVIOUS
  <2>1. UpTo(v, s) = Below(v, s)
    BY <1>1, <1>4 DEF UpTo, Below
  <2> QED
    BY <1>2, <1>4, <1>5, <2>1
<1> QED
  BY <1>4, <1>5, <1>6 DEF HasIndex, Below, UpTo

\* A percentile is a latency of the list, with the index of the percentile.
LEMMA PercentileIs ==
  ASSUME TypeOK, NEW s \in SUBSET DOMAIN log, s # {}, NEW p \in PercentileSet
  PROVE  /\ Percentile(s, p) \in {log[i].latency : i \in s} /\ Percentile(s, p) \in Nat
         /\ Cardinality(s) \in Nat \ {0}
         /\ PercentileIndex(Cardinality(s), p) \in 0..(Cardinality(s) - 1)
         /\ HasIndex(Percentile(s, p), PercentileIndex(Cardinality(s), p), s)
<1> DEFINE k == PercentileIndex(Cardinality(s), p)
<1>1. IsFiniteSet(s) /\ Cardinality(s) \in Nat /\ \A i \in s : log[i].latency \in Nat
  BY LogFacts
<1>2. Cardinality(s) # 0
  BY <1>1, FS_EmptySet
<1>3. k \in 0..(Cardinality(s) - 1)
  BY <1>1, <1>2, PercentileIndexBounds
<1>4. k \in Nat /\ k < Cardinality(s)
  BY <1>1, <1>3
<1> HIDE DEF k
<1>5. \E v \in {log[i].latency : i \in s} : HasIndex(v, k, s)
  BY <1>4, IndexHasLatency
<1>6. Percentile(s, p) = CHOOSE v \in {log[i].latency : i \in s} : HasIndex(v, k, s)
  BY DEF Percentile, k
<1>7. Percentile(s, p) \in {log[i].latency : i \in s} /\ HasIndex(Percentile(s, p), k, s)
  BY <1>5, <1>6
<1> QED
  BY <1>1, <1>2, <1>3, <1>7 DEF k

\* A higher index has no lower latency.
LEMMA IndexOrder ==
  ASSUME TypeOK, NEW s \in SUBSET DOMAIN log, NEW k \in Nat, NEW l \in Nat, k <= l,
         NEW v \in Nat, HasIndex(v, k, s), NEW w \in Nat, HasIndex(w, l, s)
  PROVE  v <= w
<1> SUFFICES ASSUME w < v PROVE FALSE
  OBVIOUS
<1>1. IsFiniteSet(s) /\ \A i \in s : log[i].latency \in Nat
  BY LogFacts
<1>2. Below(v, s) \in SUBSET s /\ UpTo(w, s) \in SUBSET Below(v, s)
  BY <1>1 DEF Below, UpTo
<1>3. IsFiniteSet(Below(v, s))
  BY <1>1, <1>2, FS_Subset
<1>4. Cardinality(UpTo(w, s)) <= Cardinality(Below(v, s))
  BY <1>2, <1>3, FS_Subset
<1>5. Cardinality(UpTo(w, s)) \in Nat /\ Cardinality(Below(v, s)) \in Nat
  BY <1>2, <1>3, FS_Subset, FS_CardinalityType
<1>6. Cardinality(Below(v, s)) <= k /\ l < Cardinality(UpTo(w, s))
  BY DEF HasIndex, Below, UpTo
<1> QED
  BY <1>4, <1>5, <1>6

\* The percentiles of a list are in order.
LEMMA PercentilesOrdered ==
  ASSUME TypeOK, NEW s \in SUBSET DOMAIN log
  PROVE  Ordered(Percentiles(s))
<1>1. CASE s = {}
  BY <1>1 DEF Ordered, Percentiles, Percentile
<1>2. CASE s # {}
  <2> DEFINE n == Cardinality(s)
  <2>1. \A p \in PercentileSet :
          /\ Percentile(s, p) \in Nat /\ PercentileIndex(n, p) \in 0..(n - 1)
          /\ HasIndex(Percentile(s, p), PercentileIndex(n, p), s)
    BY <1>2, PercentileIs
  <2>2. n \in Nat \ {0}
    BY <1>2, PercentileIs DEF PercentileSet
  <2> HIDE DEF n
  <2>3. /\ PercentileIndex(n, 50) <= PercentileIndex(n, 95)
        /\ PercentileIndex(n, 95) <= PercentileIndex(n, 99)
    BY <2>2, PercentileIndexOrder
  <2>4. \A p \in PercentileSet : PercentileIndex(n, p) \in Nat
    BY <2>1, <2>2
  <2>5. 50 \in PercentileSet /\ 95 \in PercentileSet /\ 99 \in PercentileSet
    BY DEF PercentileSet
  <2>6. Percentile(s, 50) <= Percentile(s, 95)
    BY <2>1, <2>3, <2>4, <2>5, IndexOrder
  <2>7. Percentile(s, 95) <= Percentile(s, 99)
    BY <2>1, <2>3, <2>4, <2>5, IndexOrder
  <2> QED
    BY <2>6, <2>7 DEF Ordered, Percentiles
<1> QED
  BY <1>1, <1>2

-----------------------------------------------------------------------------
(* The latency panel.                                                       *)

\* Not all groups of a list have a higher percentile than the list.
LEMMA SomeGroupIsNotSlower ==
  ASSUME TypeOK, NEW s \in SUBSET DOMAIN log, s # {}, NEW key, DOMAIN key = s,
         NEW p \in PercentileSet
  PROVE  \E k \in DOMAIN Groups(s, key) : Percentile(Groups(s, key)[k], p) <= Percentile(s, p)
<1> DEFINE g == Groups(s, key)
           K == DOMAIN g
           v == Percentile(s, p)
           size == [k \in K |-> Cardinality(g[k])]
           index == [k \in K |-> PercentileIndex(size[k], p)]
           low == [k \in K |-> Cardinality({i \in g[k] : i \in UpTo(v, s)})]
<1> SUFFICES ASSUME \A k \in K : ~(Percentile(g[k], p) <= v) PROVE FALSE
  OBVIOUS
<1>1. IsFiniteSet(s) /\ \A i \in s : log[i].latency \in Nat
  BY LogFacts
<1>2. /\ IsFiniteSet(K) /\ K # {}
      /\ \A k \in K : g[k] # {} /\ g[k] \in SUBSET s /\ Cardinality(g[k]) \in Nat \ {0}
  BY <1>1, GroupParts
<1>3. /\ v \in Nat /\ HasIndex(v, PercentileIndex(Cardinality(s), p), s)
      /\ PercentileIndex(Cardinality(s), p) \in Nat /\ Cardinality(s) \in Nat \ {0}
  BY PercentileIs
<1>4. UpTo(v, s) \in SUBSET s
  BY DEF UpTo
<1>5. ASSUME NEW k \in K
      PROVE  /\ low[k] \in Nat /\ index[k] \in Nat /\ low[k] <= index[k]
             /\ size[k] \in Nat \ {0} /\ index[k] = PercentileIndex(size[k], p)
  <2> DEFINE h == g[k]
             w == Percentile(h, p)
             part == {i \in h : i \in UpTo(v, s)}
  <2>1. h # {} /\ h \in SUBSET s /\ h \in SUBSET DOMAIN log
    BY <1>2
  <2>2. /\ w \in Nat /\ HasIndex(w, PercentileIndex(Cardinality(h), p), h)
        /\ PercentileIndex(Cardinality(h), p) \in Nat
    <3> HIDE DEF h
    <3> QED
      BY <2>1, PercentileIs
  <2>3. v < w
    BY <1>3, <2>2
  <2> HIDE DEF h, w, v
  <2>4. part \in SUBSET Below(w, h) /\ Below(w, h) \in SUBSET h
    BY <1>1, <1>3, <2>1, <2>2, <2>3 DEF Below, UpTo
  <2>5. IsFiniteSet(Below(w, h))
    BY <1>1, <2>1, <2>4, FS_Subset
  <2> HIDE DEF part
  <2>6. Cardinality(part) <= Cardinality(Below(w, h))
        /\ Cardinality(part) \in Nat /\ Cardinality(Below(w, h)) \in Nat
    BY <2>4, <2>5, FS_Subset, FS_CardinalityType
  <2>7. Cardinality(Below(w, h)) <= PercentileIndex(Cardinality(h), p)
    BY <2>2 DEF HasIndex, Below
  <2>8. Cardinality(part) <= PercentileIndex(Cardinality(h), p)
    BY <2>2, <2>6, <2>7
  <2>9. low[k] = Cardinality(part) /\ size[k] = Cardinality(h) /\ index[k] = PercentileIndex(size[k], p)
    BY DEF h, part
  <2> QED
    BY <1>2, <2>2, <2>6, <2>8, <2>9
<1> HIDE DEF v
<1>6. SumOf(low) = Cardinality(UpTo(v, s))
  <2>1. low = [k \in DOMAIN Groups(s, key) |-> low[k]]
        /\ \A k \in DOMAIN Groups(s, key) : low[k] = Cardinality({i \in Groups(s, key)[k] : i \in UpTo(v, s)})
    OBVIOUS
  <2> HIDE DEF low
  <2> QED
    BY <1>1, <1>4, <2>1, GroupShares
<1>7. SumOf(size) = Cardinality(s)
  <2>1. size = Tally(g)
    BY DEF Tally
  <2> QED
    BY <1>1, <2>1, TallyShares
<1>8. index = [k \in K |-> PercentileIndex(size[k], p)]
  OBVIOUS
<1>9. size \in [K -> Nat \ {0}] /\ low \in [K -> Int] /\ index \in [K -> Int]
  <2>1. size = [k \in K |-> size[k]] /\ low = [k \in K |-> low[k]] /\ index = [k \in K |-> index[k]]
    OBVIOUS
  <2> HIDE DEF low, size, index, g, K
  <2> QED
    BY <1>5, <2>1
<1> HIDE DEF low, size, index, g, K
<1>10. SumOf(low) <= SumOf(index)
  BY <1>2, <1>5, <1>9, SumMonotonic
<1>11. SumOf(index) <= PercentileIndex(SumOf(size), p)
  BY <1>2, <1>8, <1>9, PercentileIndexSums
<1>12. SumOf(index) \in Int
  <2>1. K \in SUBSET K
    OBVIOUS
  <2>2. SumOf(On(index, K)) \in Int
    BY <1>2, <1>9, <2>1, SumStep
  <2> QED
    BY <1>9, <2>2, OnAll
<1>13. PercentileIndex(Cardinality(s), p) < Cardinality(UpTo(v, s))
  BY <1>3 DEF HasIndex, UpTo
<1>14. Cardinality(UpTo(v, s)) \in Nat
  BY <1>1, <1>4, FS_Subset, FS_CardinalityType
<1> QED
  BY <1>3, <1>6, <1>7, <1>10, <1>11, <1>12, <1>13, <1>14

\* As long as the 99th percentile is the last of each group, one is not faster than the list.
LEMMA SomeGroupIsNotFaster ==
  ASSUME TypeOK, NEW s \in SUBSET DOMAIN log, s # {}, NEW key, DOMAIN key = s,
         \A k \in DOMAIN Groups(s, key) : Cardinality(Groups(s, key)[k]) <= 51
  PROVE  \E k \in DOMAIN Groups(s, key) : Percentile(s, 99) <= Percentile(Groups(s, key)[k], 99)
<1> DEFINE g == Groups(s, key)
           v == Percentile(s, 99)
<1>1. 99 \in PercentileSet
  BY DEF PercentileSet
<1>2. PICK i \in s : log[i].latency = v
  BY <1>1, PercentileIs
<1> DEFINE k == key[i]
           h == g[k]
           w == Percentile(h, 99)
<1>3. k \in DOMAIN g /\ i \in h /\ h \in SUBSET s /\ h \in SUBSET DOMAIN log /\ Cardinality(h) \in 1..51
      /\ IsFiniteSet(h)
  <2>1. IsFiniteSet(s)
    BY LogFacts
  <2>2. k \in DOMAIN g /\ h = {j \in s : key[j] = k} /\ Cardinality(h) \in Nat \ {0} /\ IsFiniteSet(h)
    BY <2>1, GroupParts
  <2>3. Cardinality(h) <= 51
    BY <2>2
  <2> HIDE DEF g, h, k
  <2> QED
    BY <2>2, <2>3 DEF k
<1> HIDE DEF h
<1>4. w \in Nat /\ HasIndex(w, PercentileIndex(Cardinality(h), 99), h)
  BY <1>1, <1>3, PercentileIs
<1>5. PercentileIndex(Cardinality(h), 99) = Cardinality(h) - 1
  BY <1>3, LastIsPercentile
<1>6. UpTo(w, h) = h
  <2>1. UpTo(w, h) \in SUBSET h
    BY DEF UpTo
  <2>2. Cardinality(h) - 1 < Cardinality(UpTo(w, h))
    BY <1>4, <1>5 DEF HasIndex, UpTo
  <2>3. Cardinality(UpTo(w, h)) <= Cardinality(h) /\ Cardinality(UpTo(w, h)) \in Nat
        /\ (Cardinality(h) = Cardinality(UpTo(w, h)) => h = UpTo(w, h))
    BY <1>3, <2>1, FS_Subset, FS_CardinalityType
  <2> QED
    BY <1>3, <2>2, <2>3
<1>7. v <= w
  BY <1>2, <1>3, <1>6 DEF UpTo
<1> QED
  BY <1>3, <1>7 DEF h

\* Whatever the key, the rows agree with the total.
LEMMA GroupRowsAgree ==
  ASSUME TypeOK, NEW s \in SUBSET DOMAIN log, NEW key, DOMAIN key = s, NEW rows,
         DOMAIN rows = DOMAIN Groups(s, key), RowSum(rows, "count") = Cardinality(s),
         \A k \in DOMAIN rows : /\ rows[k].count = Cardinality(Groups(s, key)[k])
                                /\ rows[k].latency = Percentiles(Groups(s, key)[k])
  PROVE  RowsAgree(rows, Cardinality(s), Percentiles(s))
<1> DEFINE g == Groups(s, key)
<1>1. /\ IsFiniteSet(s)
      /\ \A k \in DOMAIN rows : g[k] \in SUBSET s /\ g[k] \in SUBSET DOMAIN log
      /\ DOMAIN rows = {} <=> s = {}
  BY LogFacts, GroupParts
<1>2. \A k \in DOMAIN rows : Ordered(rows[k].latency)
  BY <1>1, PercentilesOrdered
<1>3. \A p \in {50, 95, 99} : /\ Percentiles(s)[p] = Percentile(s, p)
                              /\ \A k \in DOMAIN rows : rows[k].latency[p] = Percentile(g[k], p)
  <2> TAKE p \in {50, 95, 99}
  <2>1. ASSUME NEW t
        PROVE  Percentiles(t)[p] = Percentile(t, p)
    BY DEF Percentiles
  <2> QED
    BY <2>1
<1>4. ASSUME DOMAIN rows # {}, NEW p \in {50, 95, 99}
      PROVE  \E k \in DOMAIN rows : rows[k].latency[p] <= Percentiles(s)[p]
  <2>1. s # {} /\ p \in PercentileSet
    BY <1>1, <1>4 DEF PercentileSet
  <2>2. \E k \in DOMAIN g : Percentile(g[k], p) <= Percentile(s, p)
    BY <2>1, SomeGroupIsNotSlower
  <2> QED
    BY <1>3, <2>2
<1>5. ASSUME DOMAIN rows # {}, \A k \in DOMAIN rows : rows[k].count <= 51
      PROVE  \E k \in DOMAIN rows : Percentiles(s)[99] <= rows[k].latency[99]
  <2>1. s # {} /\ \A k \in DOMAIN g : Cardinality(g[k]) <= 51
    BY <1>1, <1>5
  <2>2. \E k \in DOMAIN g : Percentile(s, 99) <= Percentile(g[k], 99)
    BY <2>1, SomeGroupIsNotFaster
  <2> QED
    BY <1>3, <2>2
<1> QED
  BY <1>2, <1>4, <1>5 DEF RowsAgree

\* The places of the attempts in the buffer.
LEMMA EventsFacts ==
  ASSUME TypeOK, NEW seen \in 0..Len(log)
  PROVE  /\ Events(seen) \in SUBSET DOMAIN log
         /\ \A f : FilterAttempts(f, seen) \in SUBSET DOMAIN log
<1>1. BufferSize \in Nat \ {0} /\ Len(log) \in Nat /\ DOMAIN log = 1..Len(log)
  BY PanelsAssumption, LogFacts
<1>2. Events(seen) \in SUBSET DOMAIN log
  BY <1>1 DEF Events
<1> QED
  BY <1>2 DEF FilterAttempts

\* Latency panel and load panel agree in every range of time.
LEMMA LatencyAgrees ==
  ASSUME TypeOK, LogIsPast
  PROVE  LatencyPanelsAgree
<1> SUFFICES ASSUME NEW k \in 0..now
             PROVE  RangeAgrees(k)
  BY DEF LatencyPanelsAgree
<1> DEFINE s == FilterAttempts([NoFilter EXCEPT !.to = k], Len(log))
           rest == FilterAttempts([NoFilter EXCEPT !.from = k + 1], Len(log))
           p == Primary(s)
           panel == DnsLatencyPanel(s)
<1>1. Len(log) \in 0..Len(log) /\ now \in Nat /\ MaxTime \in Nat /\ now <= MaxTime /\ k \in Nat
  BY LogFacts, ConstantsAssumption DEF TypeOK
<1>2. s \in SUBSET DOMAIN log /\ rest \in SUBSET DOMAIN log /\ Events(Len(log)) \in SUBSET DOMAIN log
  BY <1>1, EventsFacts
<1>3. p \in SUBSET DOMAIN log /\ IsFiniteSet(p)
  <2>1. p \in SUBSET DOMAIN log
    BY <1>2 DEF Primary
  <2> HIDE DEF p
  <2> QED
    BY <2>1, LogFacts
<1>4. s \cup rest = Events(Len(log)) /\ s \cap rest = {}
  <2>1. \A i \in Events(Len(log)) : log[i].at \in Nat /\ log[i].at <= MaxTime
    <3> TAKE i \in Events(Len(log))
    <3>1. i \in DOMAIN log
      BY <1>2
    <3>2. log[i].at <= now /\ log[i].at \in Nat
      BY <3>1, LogFacts DEF LogIsPast
    <3> QED
      BY <1>1, <3>2
  <2>2. /\ [NoFilter EXCEPT !.to = k] = [mode |-> Any, type |-> Any, from |-> 0, to |-> k]
        /\ [NoFilter EXCEPT !.from = k + 1] = [mode |-> Any, type |-> Any, from |-> k + 1, to |-> MaxTime]
    BY DEF NoFilter
  <2>3. ASSUME NEW i \in Events(Len(log))
        PROVE  /\ i \in s <=> log[i].at <= k
               /\ i \in rest <=> k + 1 <= log[i].at
    BY <1>1, <2>1, <2>2 DEF FilterAttempts, Passes
  <2>4. s \in SUBSET Events(Len(log)) /\ rest \in SUBSET Events(Len(log))
    BY DEF FilterAttempts
  <2> HIDE DEF s, rest
  <2> QED
    BY <1>1, <2>1, <2>3, <2>4
<1> HIDE DEF s, rest
<1>5. Cardinality(s) + Cardinality(rest) = Cardinality(Events(Len(log)))
  <2>1. /\ IsFiniteSet(s) /\ Cardinality(s) \in Nat
        /\ IsFiniteSet(rest) /\ Cardinality(rest) \in Nat
    BY <1>2, LogFacts
  <2>2. Cardinality(s \cup rest) = Cardinality(s) + Cardinality(rest) - Cardinality(s \cap rest)
    BY <2>1, FS_Union
  <2>3. Cardinality(s \cap rest) = 0
    BY <1>4, FS_EmptySet
  <2>4. Cardinality(s \cup rest) = Cardinality(Events(Len(log)))
    BY <1>4
  <2> QED
    BY <2>1, <2>2, <2>3, <2>4
<1>6. /\ panel.latency = Percentiles(p) /\ panel.sample_count = Cardinality(p)
      /\ panel.time_buckets = TimeBuckets(p)
      /\ panel.by_resolve_mode = LatencyRows(ByMode(p))
      /\ panel.by_query_type = LatencyRows(ByType(p))
      /\ LoadPanel(s).actual_qps[1] = Cardinality(p)
  BY DEF DnsLatencyPanel, LoadPanel
<1> HIDE DEF p, panel
<1>7. ASSUME NEW key, DOMAIN key = p
      PROVE  RowsAgree(LatencyRows(Groups(p, key)), Cardinality(p), Percentiles(p))
  <2> DEFINE rows == LatencyRows(Groups(p, key))
  <2>1. RowSum(rows, "count") = Cardinality(p)
    BY <1>3, <1>7, RowsShare
  <2>2. /\ DOMAIN rows = DOMAIN Groups(p, key)
        /\ \A r \in DOMAIN rows : /\ rows[r].count = Cardinality(Groups(p, key)[r])
                                  /\ rows[r].latency = Percentiles(Groups(p, key)[r])
    BY DEF LatencyRows
  <2> HIDE DEF rows
  <2>3. RowsAgree(rows, Cardinality(p), Percentiles(p))
    BY <1>3, <1>7, <2>1, <2>2, GroupRowsAgree
  <2> QED
    BY <2>3 DEF rows
<1>8. RowsAgree(LatencyRows(ByMode(p)), Cardinality(p), Percentiles(p))
  BY <1>7 DEF ByMode
<1>9. RowsAgree(LatencyRows(ByType(p)), Cardinality(p), Percentiles(p))
  BY <1>7 DEF ByType
<1>10. RowsAgree(TimeBuckets(p), Cardinality(p), Percentiles(p))
  <2> DEFINE key == [i \in p |-> log[i].at \div BucketSeconds]
             rows == TimeBuckets(p)
             g == Groups(p, key)
  <2>1. DOMAIN key = p /\ ByBucket(p) = g
    BY DEF ByBucket
  <2>2. /\ DOMAIN rows = DOMAIN g
        /\ \A r \in DOMAIN rows : /\ rows[r].count = Cardinality(g[r])
                                  /\ rows[r].latency = Percentiles(g[r])
                                  /\ rows[r]["count"] = Cardinality(g[r])
    BY <2>1 DEF TimeBuckets
  <2> HIDE DEF key, rows
  <2>3. SumOf(Tally(g)) = Cardinality(p)
    BY <1>3, <2>1, TallyShares
  <2>4. RowSum(rows, "count") = Cardinality(p)
    BY <2>2, <2>3 DEF RowSum, Tally
  <2>5. RowsAgree(rows, Cardinality(p), Percentiles(p))
    BY <1>3, <2>1, <2>2, <2>4, GroupRowsAgree
  <2> QED
    BY <2>5 DEF rows
<1>11. Ordered(Percentiles(p))
  BY <1>3, PercentilesOrdered
<1>12. RangeAgrees(k) <=>
         /\ Ordered(panel.latency)
         /\ RowsAgree(panel.time_buckets, panel.sample_count, panel.latency)
         /\ RowsAgree(panel.by_resolve_mode, panel.sample_count, panel.latency)
         /\ RowsAgree(panel.by_query_type, panel.sample_count, panel.latency)
         /\ LoadPanel(s).actual_qps[1] = panel.sample_count
         /\ Cardinality(s) + Cardinality(rest) = Cardinality(Events(Len(log)))
  BY DEF RangeAgrees, s, rest, panel
<1> QED
  BY <1>5, <1>6, <1>8, <1>9, <1>10, <1>11, <1>12

-----------------------------------------------------------------------------
(* The panels of one refresh.                                               *)

\* A set and the rest of it.
LEMMA Rest ==
  ASSUME NEW s, IsFiniteSet(s), NEW A \in SUBSET s
  PROVE  /\ Cardinality(s) \in Nat /\ Cardinality(A) \in Nat /\ Cardinality(s \ A) \in Nat
         /\ Cardinality(s) = Cardinality(s \ A) + Cardinality(A)
<1> DEFINE B == s \ A
<1>1. B \in SUBSET s /\ A \cup B = s /\ A \cap B = {}
  OBVIOUS
<1> HIDE DEF B
<1>2. IsFiniteSet(A) /\ IsFiniteSet(B)
  BY <1>1, FS_Subset
<1>3. Cardinality(s) \in Nat /\ Cardinality(A) \in Nat /\ Cardinality(B) \in Nat
  BY <1>2, FS_CardinalityType
<1>4. Cardinality(A \cup B) = Cardinality(A) + Cardinality(B) - Cardinality(A \cap B)
  BY <1>2, FS_Union
<1>5. Cardinality(A \cap B) = 0
  BY <1>1, FS_EmptySet
<1>6. Cardinality(s) = Cardinality(B) + Cardinality(A)
  BY <1>1, <1>3, <1>4, <1>5
<1> QED
  BY <1>3, <1>6 DEF B

\* The failed lookups of some attempts, by mode, record, type and class.
LEMMA ErrorsShare ==
  ASSUME TypeOK, NEW s \in SUBSET DOMAIN log
  PROVE  /\ ErrorAttempts(s) \in SUBSET s /\ ErrorAttempts(s) \in SUBSET DOMAIN log
         /\ ErrorAttempts(s) = Failures(Primary(s))
         /\ IsFiniteSet(ErrorAttempts(s)) /\ Cardinality(ErrorAttempts(s)) \in Nat
         /\ SumOf(Tally(ByMode(ErrorAttempts(s)))) = Cardinality(ErrorAttempts(s))
         /\ SumOf(Tally(ByRecord(ErrorAttempts(s)))) = Cardinality(ErrorAttempts(s))
         /\ SumOf(Tally(ByType(ErrorAttempts(s)))) = Cardinality(ErrorAttempts(s))
         /\ SumOf(Tally(ByClass(ErrorAttempts(s)))) = Cardinality(ErrorAttempts(s))
<1> DEFINE e == ErrorAttempts(s)
<1>1. e \in SUBSET s /\ e = Failures(Primary(s))
  BY DEF ErrorAttempts, Failures, Primary
<1> HIDE DEF e
<1>2. e \in SUBSET DOMAIN log
  BY <1>1
<1>3. IsFiniteSet(e) /\ Cardinality(e) \in Nat
  BY <1>2, LogFacts
<1>4. ASSUME NEW key, DOMAIN key = e
      PROVE  SumOf(Tally(Groups(e, key))) = Cardinality(e)
  BY <1>3, <1>4, TallyShares
<1>5. /\ SumOf(Tally(ByMode(e))) = Cardinality(e) /\ SumOf(Tally(ByRecord(e))) = Cardinality(e)
      /\ SumOf(Tally(ByType(e))) = Cardinality(e) /\ SumOf(Tally(ByClass(e))) = Cardinality(e)
  BY <1>4 DEF ByMode, ByRecord, ByType, ByClass
<1> QED
  BY <1>1, <1>2, <1>3, <1>5 DEF e

\* The matrix of failures has a row for each mode, which shares out the failures of the mode.
LEMMA MatrixShares ==
  ASSUME NEW e, IsFiniteSet(e), NEW matrix,
         matrix = [m \in DOMAIN ByMode(e) |-> Tally(ByClass(ByMode(e)[m]))]
  PROVE  SumOf([m \in DOMAIN matrix |-> SumOf(matrix[m])]) = Cardinality(e)
<1> DEFINE modes == ByMode(e)
<1>1. ASSUME NEW m \in DOMAIN modes
      PROVE  SumOf(matrix[m]) = Cardinality(modes[m])
  <2> DEFINE t == modes[m]
             key == [i \in t |-> ErrorClass(log[i])]
  <2>1. IsFiniteSet(t)
    <3>1. DOMAIN [i \in e |-> log[i].mode] = e
      OBVIOUS
    <3> QED
      BY <3>1, GroupParts DEF ByMode
  <2>2. matrix[m] = Tally(Groups(t, key)) /\ DOMAIN key = t
    BY DEF ByClass
  <2> HIDE DEF t, key
  <2>3. SumOf(Tally(Groups(t, key))) = Cardinality(t)
    BY <2>1, <2>2, TallyShares
  <2> QED
    BY <2>2, <2>3 DEF t
<1>2. [m \in DOMAIN matrix |-> SumOf(matrix[m])] = Tally(modes)
  <2>1. DOMAIN matrix = DOMAIN modes
    OBVIOUS
  <2> HIDE DEF modes
  <2> QED
    BY <1>1, <2>1 DEF Tally
<1>3. SumOf(Tally(modes)) = Cardinality(e)
  <2>1. DOMAIN [i \in e |-> log[i].mode] = e
    OBVIOUS
  <2> QED
    BY <2>1, TallyShares DEF ByMode
<1> QED
  BY <1>2, <1>3

\* How attempts end.
LEMMA OutcomesShare ==
  ASSUME TypeOK, NEW s \in SUBSET DOMAIN log
  PROVE  /\ Cardinality(s) = Cardinality(s \ Failures(s))
              + Cardinality({i \in s : log[i].outcome \in ErrorOutcomes})
              + Cardinality({i \in s : log[i].outcome = "nxdomain"})
         /\ Cardinality(s) = Cardinality(s \ Failures(s)) + Cardinality(Failures(s))
         /\ Cardinality(s) = Cardinality(s \ Garbage(s)) + Cardinality(Garbage(s))
         /\ {Cardinality(s), Cardinality(s \ Failures(s)), Cardinality(Failures(s)),
             Cardinality(Garbage(s)), Cardinality(s \ Garbage(s))} \subseteq Nat
<1> DEFINE f == Failures(s)
           g == Garbage(s)
           errors == {i \in s : log[i].outcome \in ErrorOutcomes}
           nxdomains == {i \in s : log[i].outcome = "nxdomain"}
<1>1. IsFiniteSet(s) /\ \A i \in s : log[i].outcome \in AllOutcomes
  BY LogFacts, AttemptFields
<1>2. f \in SUBSET s /\ g \in SUBSET s /\ errors \in SUBSET f /\ f \ errors = nxdomains
  BY <1>1 DEF Failures, Garbage, Failed, IsSuccess, ErrorOutcomes, AllOutcomes
<1> HIDE DEF f, g, errors, nxdomains
<1>3. IsFiniteSet(f)
  BY <1>1, <1>2, FS_Subset
<1>4. /\ Cardinality(s) = Cardinality(s \ f) + Cardinality(f)
      /\ Cardinality(s) \in Nat /\ Cardinality(f) \in Nat /\ Cardinality(s \ f) \in Nat
  BY <1>1, <1>2, Rest
<1>5. /\ Cardinality(f) = Cardinality(nxdomains) + Cardinality(errors)
      /\ Cardinality(nxdomains) \in Nat /\ Cardinality(errors) \in Nat
  BY <1>2, <1>3, Rest
<1>6. /\ Cardinality(s) = Cardinality(s \ g) + Cardinality(g)
      /\ Cardinality(g) \in Nat /\ Cardinality(s \ g) \in Nat
  BY <1>1, <1>2, Rest
<1>7. Cardinality(s) = Cardinality(s \ f) + Cardinality(errors) + Cardinality(nxdomains)
  BY <1>4, <1>5
<1> QED
  BY <1>4, <1>6, <1>7 DEF f, g, errors, nxdomains

\* Under every filter the parts of the panels add up.
LEMMA PartsAddUp ==
  ASSUME TypeOK, NEW s \in SUBSET DOMAIN log
  PROVE  SumsUp(s)
<1> DEFINE p == Primary(s)
           e == ErrorAttempts(s)
<1>1. p \in SUBSET DOMAIN log /\ IsFiniteSet(p)
  <2>1. p \in SUBSET DOMAIN log
    BY DEF Primary
  <2> HIDE DEF p
  <2> QED
    BY <2>1, LogFacts
<1>2. IsFiniteSet(e) /\ Cardinality(e) = Cardinality(Failures(p))
  BY ErrorsShare
<1>3. /\ OverviewPanel(s).total_queries = OverviewPanel(s).success_count
           + OverviewPanel(s).error_count + OverviewPanel(s).nxdomain_count
      /\ OverviewPanel(s).total_queries = GarbagePanel(s).useful + GarbagePanel(s).garbage
  <2>1. /\ OverviewPanel(s).total_queries = Cardinality(s)
        /\ OverviewPanel(s).success_count = Cardinality(s \ Failures(s))
        /\ OverviewPanel(s).error_count = Cardinality({i \in s : log[i].outcome \in ErrorOutcomes})
        /\ OverviewPanel(s).nxdomain_count = Cardinality({i \in s : log[i].outcome = "nxdomain"})
    BY DEF OverviewPanel
  <2>2. GarbagePanel(s).useful = Cardinality(s \ Garbage(s))
        /\ GarbagePanel(s).garbage = Cardinality(Garbage(s))
    BY DEF GarbagePanel
  <2> QED
    BY <2>1, <2>2, OutcomesShare
<1>4. /\ EdnsPanel(s).errors = Cardinality(Failures(p)) /\ EdnsPanel(s).queries = Cardinality(p)
      /\ LoadPanel(s).error_rate[1] = Cardinality(Failures(p))
      /\ ErrorsPanel(s).total_errors = Cardinality(e)
      /\ ErrorsPanel(s).by_resolver = Tally(ByMode(e)) /\ ErrorsPanel(s).by_domain = Tally(ByRecord(e))
      /\ ErrorsPanel(s).by_query_type = Tally(ByType(e))
      /\ ErrorsPanel(s).by_error_class = Tally(ByClass(e))
      /\ ErrorsPanel(s).resolver_error_matrix = [m \in DOMAIN ByMode(e) |-> Tally(ByClass(ByMode(e)[m]))]
  BY DEF EdnsPanel, LoadPanel, ErrorsPanel
<1>5. /\ RecordsPanel(s) = RecordRows(ByRecord(p)) /\ RankingsPanel(s).resolvers = RecordRows(ByMode(p))
      /\ RankingsPanel(s).query_types = RecordRows(ByType(p))
  BY DEF RecordsPanel, RankingsPanel
<1> DEFINE matrix == ErrorsPanel(s).resolver_error_matrix
<1>6. SumOf([m \in DOMAIN matrix |-> SumOf(matrix[m])]) = Cardinality(e)
  <2> HIDE DEF e, matrix
  <2>1. matrix = [m \in DOMAIN ByMode(e) |-> Tally(ByClass(ByMode(e)[m]))]
    BY <1>4 DEF matrix
  <2> QED
    BY <1>2, <2>1, MatrixShares
<1>7. /\ SumOf(Tally(ByMode(e))) = Cardinality(e) /\ SumOf(Tally(ByRecord(e))) = Cardinality(e)
      /\ SumOf(Tally(ByType(e))) = Cardinality(e) /\ SumOf(Tally(ByClass(e))) = Cardinality(e)
  BY ErrorsShare
<1> HIDE DEF p, e
<1>8. ASSUME NEW key, DOMAIN key = p
      PROVE  /\ RowSum(RecordRows(Groups(p, key)), "queries") = Cardinality(p)
             /\ RowSum(RecordRows(Groups(p, key)), "errors") = Cardinality(Failures(p))
  BY <1>1, <1>8, RowsShare
<1>9. /\ RowSum(RecordsPanel(s), "queries") = Cardinality(p)
      /\ RowSum(RecordsPanel(s), "errors") = Cardinality(Failures(p))
      /\ RowSum(RankingsPanel(s).resolvers, "queries") = Cardinality(p)
      /\ RowSum(RankingsPanel(s).resolvers, "errors") = Cardinality(Failures(p))
      /\ RowSum(RankingsPanel(s).query_types, "queries") = Cardinality(p)
      /\ RowSum(RankingsPanel(s).query_types, "errors") = Cardinality(Failures(p))
  BY <1>5, <1>8 DEF ByMode, ByType, ByRecord
<1> QED
  BY <1>2, <1>3, <1>4, <1>6, <1>7, <1>9 DEF SumsUp

\* Probes that succeed dilute a rate of failures, but by no more than the garbage allowed.
LEMMA Dilution ==
  ASSUME NEW all \in Nat, NEW failed \in Nat, NEW garbage \in Nat, NEW e \in Nat, NEW g \in Nat,
         NEW part \in Nat \ {0}, NEW few \in Nat,
         part <= all, all - part <= garbage, few <= failed,
         ~AtLeast(failed, all, e), ~AtLeast(garbage, all, g)
  PROVE  few * (100 - g) < e * part
<1> DEFINE limit == e * all
           allowed == g * all
           share == e * part
<1>1. limit \in Nat /\ allowed \in Nat /\ share \in Nat
  OBVIOUS
<1>2. few * 100 < limit /\ (all - part) * 100 < allowed
  <2>1. failed * 100 < limit /\ garbage * 100 < allowed
    BY DEF AtLeast
  <2> HIDE DEF limit, allowed
  <2> QED
    BY <1>1, <2>1
<1>3. e # 0
  BY <1>2
<1>4. CASE g >= 100
  <2>1. e * part > 0
    BY <1>3
  <2>2. PICK x \in Nat : g = 100 + x
    <3>1. g - 100 \in Nat /\ g = 100 + (g - 100)
      BY <1>4
    <3> QED
      BY <3>1
  <2>3. few * (100 - g) = -(few * x) /\ few * x \in Nat
    BY <2>2
  <2> QED
    BY <2>1, <2>3
<1>5. CASE g < 100
  <2> DEFINE d == 100 - g
             scaled == few * d
  <2>1. d \in Nat /\ d # 0
    BY <1>5
  <2>2. d * all < 100 * part
    <3>1. d * all = 100 * all - allowed
      OBVIOUS
    <3> HIDE DEF allowed, d
    <3> QED
      BY <1>1, <1>2, <3>1
  <2>3. e * (d * all) < e * (100 * part)
    <3> DEFINE x == d * all
               y == 100 * part
    <3>1. x \in Nat /\ y \in Nat /\ x < y
      BY <2>1, <2>2
    <3> HIDE DEF x, y
    <3>2. PICK z \in Nat : y = x + z /\ z # 0
      <4>1. y - x \in Nat /\ y = x + (y - x) /\ y - x # 0
        BY <3>1
      <4> QED
        BY <4>1
    <3>3. e * y = e * x + e * z /\ e * z > 0 /\ e * x \in Nat
      BY <1>3, <3>1, <3>2
    <3>4. e * x < e * y
      BY <3>3
    <3> QED
      BY <3>4 DEF x, y
  <2>4. d * (few * 100) <= d * limit
    <3>1. few * 100 \in Nat /\ few * 100 <= limit
      <4> HIDE DEF limit
      <4> QED
        BY <1>1, <1>2
    <3> HIDE DEF limit, d
    <3> QED
      BY <1>1, <2>1, <3>1, Multiply
  <2>5. d * (few * 100) = 100 * scaled /\ d * limit = e * (d * all)
        /\ e * (100 * part) = 100 * share
    BY <2>1
  <2>6. scaled \in Nat
    BY <2>1
  <2> HIDE DEF scaled, share, limit
  <2>7. 100 * scaled < 100 * share
    <3> DEFINE u == d * (few * 100)
               v == e * (d * all)
               w == e * (100 * part)
    <3>1. u \in Nat /\ v \in Nat /\ w \in Nat
      BY <2>1
    <3>2. u <= v /\ v < w /\ u = 100 * scaled /\ w = 100 * share
      BY <2>3, <2>4, <2>5
    <3> HIDE DEF u, v, w
    <3>3. u < w
      BY <3>1, <3>2
    <3> QED
      BY <3>2, <3>3
  <2>8. scaled < share
    BY <1>1, <2>6, <2>7
  <2> QED
    BY <2>8 DEF scaled, share
<1> QED
  BY <1>4, <1>5

\* The tests of the badge cover what the other panels show: the share of failed lookups, as
\* the attempts that are not lookups are garbage.
LEMMA BadgeIsFair ==
  ASSUME TypeOK, NEW s \in SUBSET DOMAIN log
  PROVE  BadgeMatches(s)
<1> DEFINE p == Primary(s)
           o == OverviewPanel(s)
<1>1. p \in SUBSET s /\ p \in SUBSET DOMAIN log /\ s \ p \in SUBSET Garbage(s)
  BY DEF Primary, Garbage, IsGarbage
<1>2. /\ o.total_queries = Cardinality(s) /\ o.success_count = Cardinality(s \ Failures(s))
      /\ o.latency = Percentiles(p) /\ o.garbage = Cardinality(Garbage(s))
  BY DEF OverviewPanel
<1>3. /\ LoadPanel(s).error_rate[1] = Cardinality(Failures(p))
      /\ LoadPanel(s).error_rate[2] = Cardinality(p)
      /\ LoadPanel(s).latency = Percentiles(p)
      /\ GarbagePanel(s).garbage = Cardinality(Garbage(s))
  BY DEF LoadPanel, GarbagePanel
<1> HIDE DEF o, p
<1>4. /\ Cardinality(s) \in Nat /\ Cardinality(Failures(p)) \in Nat /\ Cardinality(Failures(s)) \in Nat
      /\ Cardinality(Failures(p)) <= Cardinality(Failures(s))
      /\ o.total_queries - o.success_count = Cardinality(Failures(s))
  <2>1. Failures(p) \in SUBSET Failures(s) /\ Failures(s) \in SUBSET DOMAIN log
    BY <1>1 DEF Failures
  <2>2. IsFiniteSet(Failures(s)) /\ Cardinality(Failures(s)) \in Nat /\ Cardinality(s) \in Nat
    BY <2>1, LogFacts
  <2>3. Cardinality(Failures(p)) <= Cardinality(Failures(s)) /\ Cardinality(Failures(p)) \in Nat
    BY <2>1, <2>2, FS_Subset, FS_CardinalityType
  <2>4. Cardinality(s) = Cardinality(s \ Failures(s)) + Cardinality(Failures(s))
        /\ Cardinality(s \ Failures(s)) \in Nat
    BY OutcomesShare
  <2> QED
    BY <1>2, <2>2, <2>3, <2>4
<1>5. /\ Cardinality(p) \in Nat /\ Cardinality(Garbage(s)) \in Nat
      /\ Cardinality(p) <= Cardinality(s)
      /\ Cardinality(s) - Cardinality(p) <= Cardinality(Garbage(s))
  <2>1. Garbage(s) \in SUBSET DOMAIN log
    BY DEF Garbage
  <2>2. IsFiniteSet(s) /\ IsFiniteSet(Garbage(s)) /\ Cardinality(Garbage(s)) \in Nat
    BY <2>1, LogFacts
  <2>3. Cardinality(s) = Cardinality(s \ p) + Cardinality(p) /\ Cardinality(p) \in Nat
        /\ Cardinality(s \ p) \in Nat
    BY <1>1, <2>2, Rest
  <2>4. Cardinality(s \ p) <= Cardinality(Garbage(s))
    BY <1>1, <2>2, FS_Subset
  <2> QED
    BY <2>2, <2>3, <2>4
<1>6. Percentiles(p)[95] \in Nat
  <2>1. Percentiles(p)[95] = Percentile(p, 95)
    BY DEF Percentiles
  <2>2. CASE p = {}
    BY <2>1, <2>2 DEF Percentile
  <2>3. CASE p # {}
    BY <1>1, <2>1, <2>3, PercentileIs DEF PercentileSet
  <2> QED
    BY <2>2, <2>3
<1>7. ASSUME NEW verdict, Health(o, verdict) = "ok"
      PROVE  /\ verdict \notin LossVerdicts /\ verdict # "unstable_path"
             /\ ~AtLeast(o.total_queries - o.success_count, o.total_queries, ErrorPercent)
             /\ ~(o.latency[95] >= SlowMs)
             /\ ~AtLeast(o.garbage, o.total_queries, GarbagePercent)
  BY <1>7 DEF Health
<1>8. ASSUME NEW verdict \in Verdicts, Health(o, verdict) = "ok"
      PROVE  /\ LoadPanel(s).error_rate[2] > 0 =>
                  LoadPanel(s).error_rate[1] * (100 - GarbagePercent)
                    < ErrorPercent * LoadPanel(s).error_rate[2]
             /\ LoadPanel(s).latency[95] < SlowMs
             /\ ~AtLeast(GarbagePanel(s).garbage, o.total_queries, GarbagePercent)
             /\ verdict \notin LossVerdicts \cup {"unstable_path"}
  <2>1. ErrorPercent \in Nat /\ SlowMs \in Nat /\ GarbagePercent \in Nat
    BY PanelsAssumption
  <2>2. /\ ~AtLeast(Cardinality(Failures(s)), Cardinality(s), ErrorPercent)
        /\ ~AtLeast(Cardinality(Garbage(s)), Cardinality(s), GarbagePercent)
    BY <1>2, <1>4, <1>7, <1>8
  <2>3. ASSUME Cardinality(p) > 0
        PROVE  Cardinality(Failures(p)) * (100 - GarbagePercent) < ErrorPercent * Cardinality(p)
    <3>1. Cardinality(p) \in Nat \ {0}
      BY <1>5, <2>3
    <3> QED
      BY <1>4, <1>5, <2>1, <2>2, <3>1, Dilution
  <2>4. Percentiles(p)[95] < SlowMs
    BY <1>2, <1>6, <1>7, <1>8, <2>1
  <2>5. LoadPanel(s).error_rate[2] > 0 =>
          LoadPanel(s).error_rate[1] * (100 - GarbagePercent)
            < ErrorPercent * LoadPanel(s).error_rate[2]
    BY <1>3, <2>3
  <2> QED
    BY <1>2, <1>3, <1>7, <1>8, <2>2, <2>4, <2>5
<1> QED
  BY <1>8 DEF BadgeMatches, o

\* A breakdown of failures: a number for each of finitely many classes.
Breakdown(b) == IsFiniteSet(DOMAIN b) /\ b \in [DOMAIN b -> Nat]

\* Deltas by class, with the classes that only one side has, add up to that of the totals.
LEMMA DeltasShare ==
  ASSUME NEW b, Breakdown(b), NEW c, Breakdown(c)
  PROVE  /\ {k \in DOMAIN Deltas(b, c) : Deltas(b, c)[k] # <<>>} = DOMAIN b \cap DOMAIN c
         /\ SumOf(b) \in Nat /\ SumOf(c) \in Nat
         /\ SumOf(c) - SumOf(b) = SumOf([k \in DOMAIN c \ DOMAIN b |-> c[k]])
              - SumOf([k \in DOMAIN b \ DOMAIN c |-> b[k]])
              + SumOf([k \in DOMAIN b \cap DOMAIN c |-> Deltas(b, c)[k][1]])
<1> DEFINE B == DOMAIN b
           C == DOMAIN c
           both == B \cap C
           change == [k \in both |-> Deltas(b, c)[k][1]]
<1>1. /\ IsFiniteSet(B) /\ IsFiniteSet(C) /\ b \in [B -> Nat] /\ c \in [C -> Nat]
      /\ b \in [B -> Int] /\ c \in [C -> Int]
  BY DEF Breakdown
<1>2. ASSUME NEW k \in B \cup C
      PROVE  Deltas(b, c)[k] = IF k \in both THEN <<c[k] - b[k]>> ELSE <<>>
  <2>1. Deltas(b, c)[k] = Delta(ValueAt(b, k), ValueAt(c, k))
    BY DEF Deltas
  <2>2. CASE k \in both
    <3>1. ValueAt(b, k) = <<b[k]>> /\ ValueAt(c, k) = <<c[k]>>
      BY <2>2 DEF ValueAt
    <3> QED
      BY <2>1, <2>2, <3>1 DEF Delta
  <2>3. CASE k \notin both
    <3>1. ValueAt(b, k) = <<>> \/ ValueAt(c, k) = <<>>
      BY <2>3 DEF ValueAt
    <3> QED
      BY <2>1, <2>3, <3>1 DEF Delta
  <2> QED
    BY <2>2, <2>3
<1>3. {k \in DOMAIN Deltas(b, c) : Deltas(b, c)[k] # <<>>} = both
  <2>1. DOMAIN Deltas(b, c) = B \cup C
    BY DEF Deltas
  <2>2. \A x : <<x>> # <<>>
    OBVIOUS
  <2>3. \A k \in B \cup C : Deltas(b, c)[k] # <<>> <=> k \in both
    BY <1>2, <2>2
  <2> HIDE DEF B, C, both
  <2> QED
    BY <2>1, <2>3 DEF both
<1>4. \A k \in both : change[k] = c[k] - b[k]
  <2>1. \A x : <<x>>[1] = x
    OBVIOUS
  <2> TAKE k \in both
  <2>2. Deltas(b, c)[k] = <<c[k] - b[k]>>
    BY <1>2
  <2>3. change[k] = Deltas(b, c)[k][1]
    OBVIOUS
  <2> QED
    BY <2>1, <2>2, <2>3
<1>5. /\ SumOf(b) = SumOf(On(b, B \ C)) + SumOf(On(b, both))
      /\ SumOf(c) = SumOf(On(c, C \ B)) + SumOf(On(c, both))
  <2>1. /\ (B \ C) \cup both = B /\ (B \ C) \cap both = {}
        /\ (C \ B) \cup both = C /\ (C \ B) \cap both = {}
    OBVIOUS
  <2> QED
    BY <1>1, <2>1, SumSplit
<1>6. SumOf(On(c, both)) = SumOf(On(b, both)) + SumOf(change)
  <2> DEFINE f == On(b, both)
             h == On(c, both)
  <2>1. f \in [both -> Int] /\ h \in [both -> Int] /\ change \in [both -> Int]
        /\ \A k \in both : h[k] = f[k] + change[k]
    BY <1>1, <1>4 DEF On
  <2>2. IsFiniteSet(both)
    BY <1>1, FS_Subset
  <2> HIDE DEF f, h, change, both
  <2>3. SumOf(h) = SumOf(f) + SumOf(change)
    BY <2>1, <2>2, SumPlus
  <2> QED
    BY <2>3 DEF f, h
<1>7. SumOf(b) \in Nat /\ SumOf(c) \in Nat
  BY <1>1, SumNat
<1>8. /\ SumOf(On(b, B \ C)) \in Int /\ SumOf(On(c, C \ B)) \in Int
      /\ SumOf(On(b, both)) \in Int /\ SumOf(On(c, both)) \in Int /\ SumOf(change) \in Int
  <2>1. ASSUME NEW S, IsFiniteSet(S), NEW g \in [S -> Int], NEW T \in SUBSET S
        PROVE  SumOf(On(g, T)) \in Int
    BY <2>1, SumStep
  <2>2. IsFiniteSet(both) /\ change \in [both -> Int] /\ both \in SUBSET both
    <3>1. change \in [both -> Int]
      BY <1>1, <1>4
    <3> HIDE DEF change
    <3> QED
      BY <1>1, <3>1, FS_Subset
  <2> HIDE DEF change
  <2>3. On(change, both) = change
    BY <2>2, OnAll
  <2>4. SumOf(On(change, both)) \in Int
    <3> HIDE DEF both
    <3> QED
      BY <2>1, <2>2
  <2> QED
    BY <1>1, <2>1, <2>3, <2>4
<1>9. On(b, B \ C) = [k \in B \ C |-> b[k]] /\ On(c, C \ B) = [k \in C \ B |-> c[k]]
  BY DEF On
<1> HIDE DEF B, C, both, change
<1>10. SumOf(c) - SumOf(b) = SumOf([k \in C \ B |-> c[k]]) - SumOf([k \in B \ C |-> b[k]]) + SumOf(change)
  BY <1>5, <1>6, <1>7, <1>8, <1>9
<1> QED
  BY <1>3, <1>7, <1>10 DEF B, C, both, change

\* The comparison of any attempts with all of them accounts for the change of the total.
LEMMA DeltasAgree ==
  ASSUME TypeOK, NEW s \in SUBSET DOMAIN log, NEW t \in SUBSET DOMAIN log
  PROVE  DeltasAddUp(ErrorsPanel(s), ErrorsPanel(t))
<1>1. ASSUME NEW r \in SUBSET DOMAIN log
      PROVE  /\ ErrorsPanel(r).by_error_class = Tally(ByClass(ErrorAttempts(r)))
             /\ ErrorsPanel(r).total_errors = SumOf(Tally(ByClass(ErrorAttempts(r))))
             /\ Breakdown(Tally(ByClass(ErrorAttempts(r))))
  <2> DEFINE e == ErrorAttempts(r)
             key == [i \in e |-> ErrorClass(log[i])]
  <2>1. IsFiniteSet(e) /\ Cardinality(e) = SumOf(Tally(ByClass(e)))
    BY ErrorsShare
  <2>2. ErrorsPanel(r).by_error_class = Tally(ByClass(e)) /\ ErrorsPanel(r).total_errors = Cardinality(e)
    BY DEF ErrorsPanel
  <2>3. Breakdown(Tally(Groups(e, key)))
    <3>1. DOMAIN key = e
      OBVIOUS
    <3> HIDE DEF e, key
    <3>2. /\ IsFiniteSet(DOMAIN Groups(e, key))
          /\ \A k \in DOMAIN Groups(e, key) : Cardinality(Groups(e, key)[k]) \in Nat
      BY <2>1, <3>1, GroupParts
    <3> QED
      BY <3>2 DEF Breakdown, Tally
  <2>4. ByClass(e) = Groups(e, key)
    BY DEF ByClass
  <2> QED
    BY <2>1, <2>2, <2>3, <2>4
<1> DEFINE b == ErrorsPanel(s).by_error_class
           c == ErrorsPanel(t).by_error_class
           compared == CompareErrors(ErrorsPanel(s), ErrorsPanel(t))
<1>2. /\ Breakdown(b) /\ Breakdown(c)
      /\ ErrorsPanel(s).total_errors = SumOf(b) /\ ErrorsPanel(t).total_errors = SumOf(c)
  BY <1>1
<1>3. compared.by_error_class = Deltas(b, c)
      /\ compared.total_errors = Delta(<<SumOf(b)>>, <<SumOf(c)>>)
  BY <1>2 DEF CompareErrors
<1>4. Delta(<<SumOf(b)>>, <<SumOf(c)>>)[1] = SumOf(c) - SumOf(b)
  <2>1. \A x, y : Delta(<<x>>, <<y>>) = <<y - x>>
    <3>1. \A x, y : <<>> \notin {<<x>>, <<y>>} /\ <<x>>[1] = x
      OBVIOUS
    <3> QED
      BY <3>1 DEF Delta
  <2> QED
    BY <2>1
<1> HIDE DEF b, c, compared
<1>5. /\ {k \in DOMAIN Deltas(b, c) : Deltas(b, c)[k] # <<>>} = DOMAIN b \cap DOMAIN c
      /\ SumOf(c) - SumOf(b) = SumOf([k \in DOMAIN c \ DOMAIN b |-> c[k]])
           - SumOf([k \in DOMAIN b \ DOMAIN c |-> b[k]])
           + SumOf([k \in DOMAIN b \cap DOMAIN c |-> Deltas(b, c)[k][1]])
  BY <1>2, DeltasShare
<1>6. DeltasAddUp(ErrorsPanel(s), ErrorsPanel(t)) <=>
        /\ {k \in DOMAIN compared.by_error_class : compared.by_error_class[k] # <<>>}
             = DOMAIN b \cap DOMAIN c
        /\ compared.total_errors[1] = SumOf([k \in DOMAIN c \ DOMAIN b |-> c[k]])
             - SumOf([k \in DOMAIN b \ DOMAIN c |-> b[k]])
             + SumOf([k \in DOMAIN b \cap DOMAIN c |-> compared.by_error_class[k][1]])
  BY DEF DeltasAddUp, b, c, compared
<1> QED
  BY <1>3, <1>4, <1>5, <1>6

\* The counters of the store, as numbers of places of the log.
LEMMA TotalsFromLog ==
  ASSUME TypeOK, StoreInv
  PROVE  /\ counters["total"] = Cardinality(DOMAIN log)
         /\ counters["success"] = Cardinality(DOMAIN log \ Failures(DOMAIN log))
         /\ counters["error"] + counters["timeout"] =
              Cardinality({i \in DOMAIN log : log[i].outcome \in ErrorOutcomes})
         /\ counters["nxdomain"] = Cardinality({i \in DOMAIN log : log[i].outcome = "nxdomain"})
         /\ SumOf(noiseCounts) = Cardinality(Garbage(DOMAIN log))
         /\ \A r \in Records : SumOf(lookups[r]) =
              Cardinality({i \in DOMAIN log : ~log[i].probe /\ log[i].record = r})
<1>1. \A i \in DOMAIN log : log[i] \in Attempts
  BY LogFacts
<1>2. {i \in DOMAIN log : log[i] \in Attempts} = DOMAIN log
  BY <1>1
<1>3. counters["total"] = LogCount(Attempts) /\ LogCount(Attempts) = Cardinality(DOMAIN log)
  BY <1>2, CountersCount DEF LogCount
<1>4. counters["success"] = Cardinality(DOMAIN log \ Failures(DOMAIN log))
  <2>1. {i \in DOMAIN log : log[i] \in {a \in Attempts : IsSuccess(a.outcome)}} =
          DOMAIN log \ Failures(DOMAIN log)
    BY <1>1 DEF Failures, Failed
  <2> QED
    BY <2>1, CountersCount DEF LogCount
<1>5. counters["error"] + counters["timeout"] =
        Cardinality({i \in DOMAIN log : log[i].outcome \in ErrorOutcomes})
  <2> DEFINE T == {i \in DOMAIN log : log[i].outcome = "timeout"}
             E == {i \in DOMAIN log : log[i].outcome = "error"}
             U == {i \in DOMAIN log : log[i].outcome \in ErrorOutcomes}
  <2>1. /\ {i \in DOMAIN log : log[i] \in {a \in Attempts : a.outcome = "timeout"}} = T
        /\ {i \in DOMAIN log : log[i] \in {a \in Attempts : a.outcome = "error"}} = E
    BY <1>1
  <2>2. counters["timeout"] = Cardinality(T) /\ counters["error"] = Cardinality(E)
    BY <2>1, CountersCount DEF LogCount
  <2>3. T \in SUBSET U /\ U \ T = E /\ U \in SUBSET DOMAIN log
    BY DEF ErrorOutcomes
  <2> HIDE DEF T, E, U
  <2>4. IsFiniteSet(U)
    BY <2>3, LogFacts
  <2>5. /\ Cardinality(U) = Cardinality(E) + Cardinality(T)
        /\ Cardinality(E) \in Nat /\ Cardinality(T) \in Nat
    BY <2>3, <2>4, Rest
  <2>6. counters["error"] + counters["timeout"] = Cardinality(U)
    BY <2>2, <2>5
  <2> QED
    BY <2>6 DEF U
<1>6. counters["nxdomain"] = Cardinality({i \in DOMAIN log : log[i].outcome = "nxdomain"})
  <2>1. {i \in DOMAIN log : log[i] \in {a \in Attempts : a.outcome = "nxdomain"}} =
          {i \in DOMAIN log : log[i].outcome = "nxdomain"}
    BY <1>1
  <2> QED
    BY <2>1, CountersCount DEF LogCount
<1>7. SumOf(noiseCounts) = Cardinality(Garbage(DOMAIN log))
  <2>1. ProbesAreSearchNoise
    BY DEF StoreInv
  <2>2. {i \in DOMAIN log : log[i] \in {a \in Attempts : a.noise # "none"}} = Garbage(DOMAIN log)
    BY <1>1, <2>1 DEF ProbesAreSearchNoise, SearchNoise, Garbage, IsGarbage
  <2>3. counters["noisy"] = Cardinality(Garbage(DOMAIN log))
    BY <2>2, CountersCount DEF LogCount
  <2> QED
    BY <2>3, CountsAddUp DEF StoreAddsUp
<1>8. ASSUME NEW r \in Records
      PROVE  SumOf(lookups[r]) = Cardinality({i \in DOMAIN log : ~log[i].probe /\ log[i].record = r})
  <2>1. {i \in DOMAIN log : log[i] \in {a \in Attempts : ~a.probe /\ a.record = r}} =
          {i \in DOMAIN log : ~log[i].probe /\ log[i].record = r}
    BY <1>1
  <2> QED
    BY <2>1, LookupsCount DEF LogCount
<1> QED
  BY <1>3, <1>4, <1>5, <1>6, <1>7, <1>8

\* Without a filter and before the buffer is full the panels see all attempts.
LEMMA AllAreSeen ==
  ASSUME TypeOK, LogIsPast, ~Truncated(Len(log))
  PROVE  FilterAttempts(NoFilter, Len(log)) = DOMAIN log
<1> DEFINE n == Len(log)
<1>1. n \in Nat /\ DOMAIN log = 1..n /\ BufferSize \in Nat \ {0}
  BY LogFacts, PanelsAssumption
<1>2. Events(n) = DOMAIN log
  <2>1. CASE n > BufferSize
    <3>1. Events(n) = (n - BufferSize + 1)..n
      BY <2>1 DEF Events
    <3>2. n - BufferSize + 1 \in Int /\ n \in Int
      BY <1>1
    <3>3. Cardinality((n - BufferSize + 1)..n) =
            IF n - BufferSize + 1 > n THEN 0 ELSE n - (n - BufferSize + 1) + 1
      BY <3>2, FS_Interval, Zenon
    <3>4. Cardinality((n - BufferSize + 1)..n) = BufferSize
      BY <1>1, <3>3
    <3> QED
      BY <1>1, <3>1, <3>4 DEF Truncated
  <2>2. CASE ~(n > BufferSize)
    BY <1>1, <2>2 DEF Events
  <2> QED
    BY <2>1, <2>2
<1>3. now \in Nat /\ MaxTime \in Nat /\ now <= MaxTime
  BY ConstantsAssumption DEF TypeOK
<1>4. ASSUME NEW i \in DOMAIN log
      PROVE  Passes(log[i], NoFilter)
  <2>1. log[i].at \in Nat /\ log[i].at <= now
    BY LogFacts DEF LogIsPast
  <2> QED
    BY <1>3, <2>1 DEF Passes, NoFilter
<1> QED
  BY <1>2, <1>4 DEF FilterAttempts

\* What the panels count in all attempts is what the store has counted.
LEMMA CountersMatch ==
  ASSUME TypeOK, StoreInv
  PROVE  MatchesCounters(DOMAIN log)
<1> DEFINE s == DOMAIN log
           p == Primary(s)
<1>1. /\ OverviewPanel(s).total_queries = Cardinality(s)
      /\ OverviewPanel(s).success_count = Cardinality(s \ Failures(s))
      /\ OverviewPanel(s).error_count = Cardinality({i \in s : log[i].outcome \in ErrorOutcomes})
      /\ OverviewPanel(s).nxdomain_count = Cardinality({i \in s : log[i].outcome = "nxdomain"})
      /\ CachePanel(s).total_queries = counters["total"]
      /\ GarbagePanel(s).garbage = Cardinality(Garbage(s))
      /\ GarbagePanel(s).total_noisy = SumOf(noiseCounts)
  BY DEF OverviewPanel, CachePanel, GarbagePanel
<1>2. /\ Summary.success = counters["success"] /\ Summary.nxdomains = counters["nxdomain"]
      /\ Summary.errors = counters["error"] + counters["timeout"]
  BY DEF Summary
<1>3. ASSUME NEW r \in DOMAIN RecordsPanel(s)
      PROVE  RecordsPanel(s)[r].queries = SumOf(lookups[r])
  <2> DEFINE key == [i \in p |-> log[i].record]
             g == Groups(p, key)
  <2>1. RecordsPanel(s) = RecordRows(g)
    BY DEF RecordsPanel, ByRecord
  <2>2. r \in DOMAIN g /\ RecordsPanel(s)[r].queries = Cardinality(g[r])
    BY <1>3, <2>1 DEF RecordRows, RecordRow
  <2>3. DOMAIN key = p /\ IsFiniteSet(p) /\ p \in SUBSET DOMAIN log
    <3>1. p \in SUBSET DOMAIN log
      BY DEF Primary
    <3> HIDE DEF p, s
    <3> QED
      BY <3>1, LogFacts
  <2> HIDE DEF p
  <2>4. g[r] = {i \in p : key[i] = r} /\ g[r] # {}
    <3> HIDE DEF key
    <3> QED
      BY <2>2, <2>3, GroupParts
  <2>5. r \in Records
    <3>1. PICK i \in p : log[i].record = r
      BY <2>4
    <3>2. log[i] \in Attempts
      BY <2>3, LogFacts
    <3> QED
      BY <3>1, <3>2, AttemptFields
  <2>6. g[r] = {i \in DOMAIN log : ~log[i].probe /\ log[i].record = r}
    BY <2>4 DEF p, Primary
  <2> QED
    BY <2>2, <2>5, <2>6, TotalsFromLog
<1> HIDE DEF s
<1>4. /\ OverviewPanel(s).total_queries = CachePanel(s).total_queries
      /\ OverviewPanel(s).success_count = Summary.success
      /\ OverviewPanel(s).error_count = Summary.errors
      /\ OverviewPanel(s).nxdomain_count = Summary.nxdomains
      /\ GarbagePanel(s).garbage = GarbagePanel(s).total_noisy
  BY <1>1, <1>2, TotalsFromLog DEF s
<1>5. MatchesCounters(s)
  BY <1>3, <1>4 DEF MatchesCounters
<1> QED
  BY <1>5 DEF s

\* _mtr_verdict (aggregator.py:189) names the hops with loss on a path of any length, not only
\* of the lengths HopsExplainVerdict tries.
THEOREM VerdictFits ==
  ASSUME NEW n \in Nat, NEW hops \in [1..n -> [loss : BOOLEAN, jitter : BOOLEAN]]
  PROVE  /\ MtrVerdict(hops) \in Verdicts
         /\ MtrVerdict(hops) \in LossVerdicts <=> {i \in 1..n : hops[i].loss} # {}
         /\ MtrVerdict(hops) = "ok" => n > 0 /\ \A i \in 1..n : ~hops[i].jitter
         /\ MtrVerdict(hops) = "local_issue" => {i \in 1..n : hops[i].loss} = {1}
         /\ MtrVerdict(hops) = "destination_issue" <=> n \in {i \in 1..n : hops[i].loss}
<1> DEFINE lossy == {i \in 1..n : hops[i].loss}
<1>1. Len(hops) = n
  BY LenProperties
<1>2. CASE n = 0
  <2>1. MtrVerdict(hops) = "unknown"
    BY <1>1, <1>2 DEF MtrVerdict
  <2> QED
    BY <1>2, <2>1 DEF Verdicts, LossVerdicts
<1>3. CASE n > 0 /\ hops[n].loss
  <2>1. MtrVerdict(hops) = "destination_issue"
    BY <1>1, <1>3 DEF MtrVerdict
  <2> QED
    BY <1>3, <2>1 DEF Verdicts, LossVerdicts
<1>4. CASE n > 0 /\ ~hops[n].loss /\ \E i \in 2..(n - 1) : hops[i].loss
  <2>1. MtrVerdict(hops) = "upstream_issue"
    BY <1>1, <1>4 DEF MtrVerdict
  <2> QED
    BY <1>4, <2>1 DEF Verdicts, LossVerdicts
<1>5. CASE n > 0 /\ ~hops[n].loss /\ hops[1].loss /\ \A i \in 2..n : ~hops[i].loss
  <2>1. MtrVerdict(hops) = "local_issue"
    BY <1>1, <1>5 DEF MtrVerdict
  <2>2. lossy = {1}
    BY <1>5
  <2> QED
    BY <1>5, <2>1, <2>2 DEF Verdicts, LossVerdicts
<1>6. CASE n > 0 /\ ~hops[n].loss /\ ~hops[1].loss /\ \A i \in 2..(n - 1) : ~hops[i].loss
  <2>1. MtrVerdict(hops) = IF \E i \in 1..n : hops[i].jitter THEN "unstable_path" ELSE "ok"
    BY <1>1, <1>6 DEF MtrVerdict
  <2>2. lossy = {}
    BY <1>6
  <2> QED
    BY <1>6, <2>1, <2>2 DEF Verdicts, LossVerdicts
<1>7. CASE n > 0 /\ ~hops[n].loss /\ hops[1].loss /\ \A i \in 2..(n - 1) : ~hops[i].loss
  <2>1. \A i \in 2..n : ~hops[i].loss
    BY <1>7
  <2> QED
    BY <1>5, <1>7, <2>1
<1> QED
  BY <1>2, <1>3, <1>4, <1>6, <1>7

\* The panels of one refresh tell one story.
LEMMA StoryAgrees ==
  ASSUME TypeOK, StoreInv
  PROVE  PanelsAgree
<1>1. Len(log) \in 0..Len(log)
  BY LogFacts
<1>2. \A f : FilterAttempts(f, Len(log)) \in SUBSET DOMAIN log
  BY <1>1, EventsFacts
<1>3. \A f \in TypeFilters :
        /\ SumsUp(FilterAttempts(f, Len(log))) /\ BadgeMatches(FilterAttempts(f, Len(log)))
        /\ DeltasAddUp(ErrorsPanel(FilterAttempts(f, Len(log))),
                       ErrorsPanel(FilterAttempts(NoFilter, Len(log))))
  BY <1>2, PartsAddUp, BadgeIsFair, DeltasAgree
<1>4. ~Truncated(Len(log)) => MatchesCounters(FilterAttempts(NoFilter, Len(log)))
  BY AllAreSeen, CountersMatch DEF StoreInv
<1>5. HopsExplainVerdict
  <2>1. 0..3 \subseteq Nat
    OBVIOUS
  <2> QED
    BY <2>1, VerdictFits DEF HopsExplainVerdict
<1>6. ASSUME NEW seen \in 0..Len(log)
      PROVE  /\ Cardinality(FilterAttempts(NoFilter, seen)) <= counters["total"]
             /\ Cardinality(Garbage(FilterAttempts(NoFilter, seen))) <= SumOf(noiseCounts)
  <2> DEFINE s == FilterAttempts(NoFilter, seen)
             g == Garbage(s)
             all == Garbage(DOMAIN log)
  <2>1. s \in SUBSET DOMAIN log
    BY EventsFacts
  <2> HIDE DEF s
  <2>2. g \in SUBSET all /\ all \in SUBSET DOMAIN log
    BY <2>1 DEF Garbage
  <2> HIDE DEF g, all
  <2>3. IsFiniteSet(DOMAIN log) /\ IsFiniteSet(all)
    BY <2>2, LogFacts
  <2>4. Cardinality(s) <= Cardinality(DOMAIN log) /\ Cardinality(g) <= Cardinality(all)
    BY <2>1, <2>2, <2>3, FS_Subset
  <2> QED
    BY <2>4, TotalsFromLog DEF s, g, all
<1> QED
  BY <1>3, <1>4, <1>5, <1>6 DEF PanelsAgree

\* Every filter, not only those of the page.
FilteredPanelsAgree ==
  \A f \in Filters :
    LET s == FilterAttempts(f, Len(log)) IN SumsUp(s) /\ BadgeMatches(s)

-----------------------------------------------------------------------------
(* Theorems.                                                                *)

\* Search probes are paid for by lookups that have ended.
LEMMA BudgetInductive == Spec => []ProbeBudget
<1>1. Init => ProbeBudget
  BY BudgetInit
<1>2. IInv /\ ProbeBudget /\ [Next]_vars => ProbeBudget'
  BY BudgetStep
<1> QED
  BY <1>1, <1>2, StatsInductive, PTL DEF Spec

\* ndots_analytics.py: the amplification ratio is at most the number of times that a name was
\* looked up with a type, for every ndots, search list and list of names, modes and types, but
\* for the probes of names with at least ndots dots, which the estimate does not expect, and
\* of which there are no more than the search list allows for the lookups.
THEOREM AmplificationRepeats == Spec => []AmplificationIsRepetition
<1>1. TypeOK /\ StoreInv /\ ProbeBudget => AmplificationIsRepetition
  BY AmplificationBound
<1> QED
  BY <1>1, StatsTypeCorrect, StoreInductive, BudgetInductive, PTL

\* aggregator.py: the latency and the load panel agree with their rows and with each other in
\* every range of time, whatever the latencies, the buckets and the size of the buffer.
THEOREM LatencyPanels == Spec => []LatencyPanelsAgree
<1>1. TypeOK /\ StoreInv => LatencyPanelsAgree
  BY LatencyAgrees DEF StoreInv
<1> QED
  BY <1>1, StatsTypeCorrect, StoreInductive, PTL

\* aggregator.py, stats_store.py: the panels of one refresh tell one story, for every
\* threshold, buffer and list of records, modes and types.
THEOREM PanelsTellOneStory == Spec => []PanelsAgree
<1>1. TypeOK /\ StoreInv => PanelsAgree
  BY StoryAgrees
<1> QED
  BY <1>1, StatsTypeCorrect, StoreInductive, PTL

\* filters.py, aggregator.py: also under a filter by mode, type and time at once the parts of
\* the panels add up, and an "ok" badge bounds what the load panel and the garbage panel show:
\* the share of failed lookups by ErrorPercent / (1 - GarbagePercent / 100).
THEOREM FilteredPanels == Spec => []FilteredPanelsAgree
<1>1. TypeOK => FilteredPanelsAgree
  <2> SUFFICES ASSUME TypeOK PROVE FilteredPanelsAgree
    OBVIOUS
  <2>1. Len(log) \in 0..Len(log)
    BY LogFacts
  <2>2. \A f : FilterAttempts(f, Len(log)) \in SUBSET DOMAIN log
    BY <2>1, EventsFacts
  <2> QED
    BY <2>2, PartsAddUp, BadgeIsFair DEF FilteredPanelsAgree
<1> QED
  BY <1>1, StatsTypeCorrect, PTL

=============================================================================
