--------------------------- MODULE QueryStatsProofs ---------------------------
(***************************************************************************)
(* Proofs about QueryStats, for all lists of records, modes and types, and *)
(* for every window, number of queries and number of search probes.        *)
(***************************************************************************)
EXTENDS QueryStats, FiniteSetTheorems, SequenceTheorems, TLAPS

Items == [record : Records, mode : Modes, type : Types]
Entries == [item : Items, at : Nat]

\* What the window remembers is past, and is a lookup in the log.
WindowComesFromLog ==
  \A i \in DOMAIN window :
    /\ window[i].at <= now
    /\ \E j \in DOMAIN log :
         /\ ~log[j].probe
         /\ window[i].item = [record |-> log[j].record, mode |-> log[j].mode,
                              type |-> log[j].type]
         /\ log[j].at = window[i].at

\* A task in its search probes has a probe left to make.
ProbesLeft == \A q \in Queries : stage[q] = "probing" => left[q] > 0

IInv ==
  TypeOK /\ ProbesLeft /\ WindowIsSparse /\ WindowComesFromLog /\ DuplicatesAreRepeats

-----------------------------------------------------------------------------
(* Work items and the window.                                               *)

\* cycle(work_items) never leaves the lists of the configuration.
LEMMA WorkItemType ==
  ASSUME NEW q \in Queries
  PROVE  WorkItem(q) \in Items
<1> DEFINE Entry(list, k) == list[1 + (k % Len(list))]
<1>1. ASSUME NEW S, NEW list \in Seq(S), list # <<>>, NEW k \in Nat
      PROVE  Entry(list, k) \in S
  <2>1. Len(list) \in Nat \ {0}
    BY <1>1, EmptySeq
  <2>2. k % Len(list) \in 0..(Len(list) - 1)
    BY <2>1
  <2> QED
    BY <1>1, <2>1, <2>2
<1>2. /\ Len(TypeList) \in Nat \ {0}
      /\ Len(ModeList) \in Nat \ {0}
      /\ Len(TypeList) * Len(ModeList) \in Nat \ {0}
  BY ConstantsAssumption, EmptySeq
<1>3. q - 1 \in Nat
  BY DEF Queries
<1>4. /\ (q - 1) \div Len(TypeList) \in Nat
      /\ (q - 1) \div (Len(TypeList) * Len(ModeList)) \in Nat
  <2>1. ASSUME NEW d \in Nat \ {0}
        PROVE  (q - 1) \div d \in Nat
    BY <1>3, <2>1
  <2> QED
    BY <1>2, <2>1
<1>5. /\ Entry(RecordList, (q - 1) \div (Len(TypeList) * Len(ModeList))) \in Records
      /\ Entry(ModeList, (q - 1) \div Len(TypeList)) \in Modes
      /\ Entry(TypeList, q - 1) \in Types
  BY <1>1, <1>3, <1>4, ConstantsAssumption DEF Records, Modes, Types
<1> QED
  BY <1>5 DEF WorkItem, Items

\* Dropping old entries from the left leaves a part of the window, in which, as the
\* window is in the order of time, nothing is older than the window's length.
LEMMA LiveWindowIsRecent ==
  ASSUME IInv
  PROVE  /\ LiveWindow \in Seq(Entries)
         /\ \A i \in DOMAIN LiveWindow : LiveWindow[i].at >= now - Window
         /\ \E c \in Nat :
              /\ Len(LiveWindow) = Len(window) - c
              /\ \A i \in DOMAIN LiveWindow :
                   /\ i + c \in DOMAIN window
                   /\ LiveWindow[i] = window[i + c]
<1> DEFINE n == Len(window)
           old == {i \in DOMAIN window : \A j \in 1..i : window[j].at < now - Window}
           c == Cardinality(old)
<1>1. window \in Seq(Entries) /\ n \in Nat /\ DOMAIN window = 1..n /\ now \in Nat /\ Window \in Nat
  BY ConstantsAssumption DEF IInv, TypeOK, Entries, Items
<1>2. \A i \in 1..n : window[i].at \in Nat
  <2>1. \A i \in 1..n : window[i] \in Entries
    BY <1>1
  <2> QED
    BY <2>1 DEF Entries
<1>3. /\ \A i \in 1..n : i \in old <=> \A j \in 1..i : window[j].at < now - Window
      /\ old \subseteq 1..n
  BY <1>1
<1>4. LiveWindow = SubSeq(window, c + 1, n)
  BY DEF LiveWindow
<1> HIDE DEF n, old
<1>5. IsFiniteSet(old) /\ c \in Nat /\ c <= n
  <2>1. IsFiniteSet(1..n) /\ Cardinality(1..n) = n
    BY <1>1, FS_Interval
  <2>2. IsFiniteSet(old) /\ Cardinality(old) <= n
    BY <1>3, <2>1, FS_Subset
  <2> QED
    BY <2>2, FS_CardinalityType
<1>6. ASSUME NEW i \in old
      PROVE  i \in 1..c
  <2>1. i \in 1..n /\ 1..i \subseteq old
    <3>1. i \in 1..n
      BY <1>3
    <3>2. ASSUME NEW k \in 1..i
          PROVE  k \in old
      BY <1>1, <1>3, <3>1
    <3> QED
      BY <3>1, <3>2
  <2>2. Cardinality(1..i) = i
    <3>1. 1 \in Int /\ i \in Int /\ 1 <= i
      BY <1>1, <2>1
    <3>2. Cardinality(1..i) = IF 1 > i THEN 0 ELSE i - 1 + 1
      BY <3>1, FS_Interval, Zenon
    <3> QED
      BY <3>1, <3>2
  <2>3. Cardinality(1..i) <= c
    BY <1>5, <2>1, FS_Subset
  <2> QED
    BY <1>5, <2>1, <2>2, <2>3
<1>7. old = 1..c
  <2>1. old \subseteq 1..c
    BY <1>6
  <2>2. IsFiniteSet(1..c) /\ Cardinality(1..c) = c
    <3>1. 1 \in Int /\ c \in Int
      BY <1>5
    <3>2. IsFiniteSet(1..c) /\ Cardinality(1..c) = IF 1 > c THEN 0 ELSE c - 1 + 1
      BY <3>1, FS_Interval, Zenon
    <3> QED
      BY <1>5, <3>2
  <2> QED
    BY <2>1, <2>2, FS_Subset
<1>8. c \in Nat /\ c <= n
  BY <1>5
<1> HIDE DEF c
<1>9. /\ LiveWindow \in Seq(Entries)
      /\ Len(LiveWindow) = n - c
      /\ DOMAIN LiveWindow = 1..(n - c)
      /\ \A i \in 1..(n - c) : LiveWindow[i] = window[i + c]
  <2>1. /\ c + 1 \in 1..(n + 1) /\ n \in Nat
        /\ \A i \in (c + 1)..n : window[i] \in Entries
    BY <1>1, <1>8
  <2>2. /\ LiveWindow \in Seq(Entries)
        /\ Len(LiveWindow) = IF c + 1 <= n THEN n - (c + 1) + 1 ELSE 0
        /\ \A i \in 1..(n - (c + 1) + 1) : LiveWindow[i] = window[c + 1 + i - 1]
    BY <1>1, <1>4, <2>1, SubSeqProperties DEF n
  <2>3. n - (c + 1) + 1 = n - c /\ \A i \in 1..(n - c) : c + 1 + i - 1 = i + c
    BY <1>1, <1>8
  <2>4. Len(LiveWindow) = n - c
    BY <1>1, <1>8, <2>2
  <2>5. DOMAIN LiveWindow = 1..(n - c)
    BY <2>2, <2>4
  <2>6. ASSUME NEW i \in 1..(n - c)
        PROVE  LiveWindow[i] = window[i + c]
    BY <2>2, <2>3
  <2> QED
    BY <2>2, <2>4, <2>5, <2>6
<1>10. ASSUME NEW i \in 1..(n - c)
       PROVE  LiveWindow[i].at >= now - Window
  <2>1. i + c \in 1..n /\ c + 1 \in 1..n /\ (c + 1 = i + c \/ c + 1 < i + c)
    BY <1>1, <1>8
  <2>2. c + 1 \notin old
    BY <1>7, <1>8
  <2>3. PICK j \in 1..(c + 1) : ~(window[j].at < now - Window)
    BY <1>3, <2>1, <2>2
  <2>4. j = c + 1
    <3>1. CASE j \in 1..c
      <4>1. j \in old /\ j \in 1..n /\ j \in 1..j
        BY <1>1, <1>7, <1>8, <3>1
      <4> QED
        BY <1>3, <2>3, <4>1
    <3> QED
      BY <1>8, <2>3, <3>1
  <2>5. window[c + 1].at <= window[i + c].at
    <3>1. CASE c + 1 = i + c
      BY <1>2, <2>1, <3>1
    <3>2. CASE c + 1 < i + c
      BY <1>1, <2>1, <3>2 DEF IInv, WindowIsSparse
    <3> QED
      BY <2>1, <3>1, <3>2
  <2> QED
    BY <1>1, <1>2, <1>9, <2>1, <2>3, <2>4, <2>5
<1>11. \A i \in DOMAIN LiveWindow : i + c \in DOMAIN window
  BY <1>1, <1>8, <1>9
<1> QED
  BY <1>8, <1>9, <1>10, <1>11 DEF n

\* _check_duplicate keeps the window sparse, and never lengthens it by a known item.
LEMMA RememberKeepsWindow ==
  ASSUME IInv, NEW item \in Items, Remember(item)
  PROVE  /\ window' \in Seq(Entries)
         /\ WindowIsSparse'
         /\ \A i \in DOMAIN window' :
              \/ window'[i] = [item |-> item, at |-> now]
              \/ \E k \in DOMAIN window : window'[i] = window[k]
<1> DEFINE L == LiveWindow
           new == [item |-> item, at |-> now]
<1>1. PICK c \in Nat :
        /\ Len(L) = Len(window) - c
        /\ \A i \in DOMAIN L : i + c \in DOMAIN window /\ L[i] = window[i + c]
  BY LiveWindowIsRecent
<1>2. L \in Seq(Entries)
  BY LiveWindowIsRecent
<1>3. now \in Nat /\ new \in Entries
  BY DEF IInv, TypeOK, Entries
<1>4. /\ \A i \in DOMAIN L : L[i].at <= now
      /\ \A i, j \in DOMAIN L : i < j => L[i].at <= L[j].at /\ L[i].item # L[j].item
  <2>1. \A i, j \in DOMAIN L : i < j => i + c < j + c
    BY <1>2
  <2> QED
    BY <1>1, <2>1 DEF IInv, WindowIsSparse, WindowComesFromLog
<1>5. CASE IsDuplicate(item)
  <2>1. window' = L
    BY <1>5 DEF Remember
  <2> QED
    BY <1>1, <1>2, <1>4, <2>1 DEF WindowIsSparse
<1>6. CASE ~IsDuplicate(item)
  <2>1. window' = Append(L, new)
    BY <1>6 DEF Remember
  <2>2. /\ window' \in Seq(Entries)
        /\ Len(L) \in Nat
        /\ DOMAIN L = 1..Len(L)
        /\ DOMAIN window' = 1..(Len(L) + 1)
        /\ \A i \in 1..Len(L) : window'[i] = L[i]
        /\ window'[Len(L) + 1] = new
    BY <1>2, <1>3, <2>1, AppendProperties
  <2>3. \A i \in DOMAIN L : L[i].item # item
    BY <1>6 DEF IsDuplicate
  <2>4. ASSUME NEW i \in DOMAIN window', NEW j \in DOMAIN window', i < j
        PROVE  window'[i].at <= window'[j].at /\ window'[i].item # window'[j].item
    <3>1. i \in DOMAIN L
      BY <2>2, <2>4
    <3>2. CASE j \in DOMAIN L
      BY <1>4, <2>2, <2>4, <3>1, <3>2
    <3>3. CASE j = Len(L) + 1
      <4>1. window'[j].at = now /\ window'[j].item = item /\ window'[i] = L[i]
        BY <2>2, <3>1, <3>3
      <4> QED
        BY <1>4, <2>3, <3>1, <4>1
    <3> QED
      BY <2>2, <3>2, <3>3
  <2>5. WindowIsSparse'
    BY <2>4 DEF WindowIsSparse
  <2>6. ASSUME NEW i \in DOMAIN window'
        PROVE  \/ window'[i] = new
               \/ \E k \in DOMAIN window : window'[i] = window[k]
    <3>1. CASE i \in DOMAIN L
      BY <1>1, <2>2, <3>1
    <3>2. CASE i = Len(L) + 1
      BY <2>2, <3>2
    <3> QED
      BY <2>2, <3>1, <3>2
  <2> QED
    BY <2>2, <2>5, <2>6
<1> QED
  BY <1>5, <1>6

-----------------------------------------------------------------------------
(* The steps.                                                               *)

\* The start of a test satisfies the inductive invariant.
LEMMA StatsInit == Init => IInv
<1> SUFFICES ASSUME Init PROVE IInv
  OBVIOUS
<1>1. TypeOK
  BY ConstantsAssumption DEF Init, TypeOK
<1>2. ProbesLeft /\ WindowIsSparse /\ WindowComesFromLog /\ DuplicatesAreRepeats
  BY DEF Init, ProbesLeft, WindowIsSparse, WindowComesFromLog, DuplicatesAreRepeats
<1> QED
  BY <1>1, <1>2 DEF IInv

\* record_attempt keeps the types of the store.
LEMMA RecordKeepsTypes ==
  ASSUME TypeOK, NEW a \in Attempts, NEW hit, RecordAttempt(a, hit)
  PROVE  /\ counters' \in [CounterNames -> Nat]
         /\ noiseCounts' \in [NoiseTypes -> Nat]
         /\ perRecord' \in [Records -> [RecordCounterNames -> Nat]]
         /\ {lookups', timeouts'} \subseteq [Records -> [Modes -> Nat]]
         /\ systemFailures' \cup fqdnSuccesses' \subseteq Types \X Records
         /\ log' \in Seq(Attempts)
<1>1. ASSUME NEW D, NEW f \in [D -> Nat], NEW S
      PROVE  Bump(f, S) \in [D -> Nat]
  BY <1>1 DEF Bump
<1>2. counters' \in [CounterNames -> Nat] /\ noiseCounts' \in [NoiseTypes -> Nat]
  BY <1>1 DEF RecordAttempt, TypeOK
<1>3. a.record \in Records /\ a.type \in Types /\ a.mode \in Modes
  BY DEF Attempts
<1>4. perRecord' \in [Records -> [RecordCounterNames -> Nat]]
  <2>1. Bump(perRecord[a.record], RecordCountersOf(a)) \in [RecordCounterNames -> Nat]
    BY <1>1, <1>3 DEF TypeOK
  <2> QED
    BY <2>1, <1>3 DEF RecordAttempt, TypeOK
<1>5. {lookups', timeouts'} \subseteq [Records -> [Modes -> Nat]]
  <2>1. ASSUME NEW f \in [Records -> [Modes -> Nat]]
        PROVE  [f EXCEPT ![a.record][a.mode] = @ + 1] \in [Records -> [Modes -> Nat]]
    <3>1. f[a.record] \in [Modes -> Nat]
      BY <1>3
    <3>2. [f[a.record] EXCEPT ![a.mode] = @ + 1] \in [Modes -> Nat]
      BY <1>3, <3>1
    <3> QED
      BY <3>2
  <2>2. lookups \in [Records -> [Modes -> Nat]] /\ timeouts \in [Records -> [Modes -> Nat]]
    BY DEF TypeOK
  <2>3. lookups' \in [Records -> [Modes -> Nat]]
    BY <2>1, <2>2 DEF RecordAttempt
  <2>4. timeouts' \in [Records -> [Modes -> Nat]]
    BY <2>1, <2>2 DEF RecordAttempt
  <2> QED
    BY <2>3, <2>4
<1>6. systemFailures' \cup fqdnSuccesses' \subseteq Types \X Records
  <2>1. <<a.type, a.record>> \in Types \X Records
    BY <1>3
  <2>2. systemFailures \cup fqdnSuccesses \subseteq Types \X Records
    BY DEF TypeOK
  <2>3. systemFailures' \subseteq systemFailures \cup {<<a.type, a.record>>}
    BY DEF RecordAttempt
  <2>4. fqdnSuccesses' \subseteq fqdnSuccesses \cup {<<a.type, a.record>>}
    BY DEF RecordAttempt
  <2> QED
    BY <2>1, <2>2, <2>3, <2>4
<1>7. log' \in Seq(Attempts)
  BY AppendProperties DEF RecordAttempt, TypeOK
<1> QED
  BY <1>2, <1>4, <1>5, <1>6, <1>7

\* A new entry at the end of the log makes no earlier entry less of a repeat.
LEMMA LogGrows ==
  ASSUME IInv, NEW a \in Attempts, log' = Append(log, a)
  PROVE  /\ Len(log) \in Nat
         /\ DOMAIN log = 1..Len(log)
         /\ DOMAIN log' = 1..(Len(log) + 1)
         /\ \A i \in 1..Len(log) : log'[i] = log[i]
         /\ log'[Len(log) + 1] = a
         /\ \A i \in DOMAIN log : log'[i].noise = "duplicate_query" =>
              Lookup(i)' /\ RepeatsWithinWindow(i)'
<1>1. /\ log \in Seq(Attempts) /\ Len(log) \in Nat
      /\ DOMAIN log = 1..Len(log)
      /\ DOMAIN log' = 1..(Len(log) + 1)
      /\ \A i \in 1..Len(log) : log'[i] = log[i]
      /\ log'[Len(log) + 1] = a
  BY AppendProperties DEF IInv, TypeOK
<1>2. ASSUME NEW i \in DOMAIN log, log'[i].noise = "duplicate_query"
      PROVE  Lookup(i)' /\ RepeatsWithinWindow(i)'
  <2>1. Lookup(i) /\ RepeatsWithinWindow(i)
    BY <1>1, <1>2 DEF IInv, DuplicatesAreRepeats
  <2>2. PICK j \in 1..(i - 1) : Lookup(j) /\ SameQuery(i, j) /\ log[i].at - log[j].at <= Window
    BY <2>1 DEF RepeatsWithinWindow
  <2>3. i \in DOMAIN log' /\ j \in DOMAIN log' /\ log'[i] = log[i] /\ log'[j] = log[j]
    BY <1>1, <1>2
  <2> QED
    BY <2>1, <2>2, <2>3 DEF Lookup, SameQuery, RepeatsWithinWindow
<1> QED
  BY <1>1, <1>2

\* The end of a lookup.
LEMMA LookupStep ==
  ASSUME IInv, NEW q \in Queries, NEW outcome \in Outcomes, NEW latency \in Latencies,
         AnswerLookup(q, outcome, latency)
  PROVE  IInv'
<1> DEFINE item == WorkItem(q)
           a == [record |-> item.record, type |-> item.type, mode |-> item.mode,
                 probe |-> FALSE, outcome |-> outcome, noise |-> LookupNoise(item, outcome),
                 latency |-> latency, at |-> now]
<1>1. item \in Items
  BY WorkItemType
<1>2. now \in Nat /\ now' = now /\ latency \in Nat /\ Window \in Nat /\ Suffixes \in Nat
  BY ConstantsAssumption DEF IInv, TypeOK, AnswerLookup
<1>3. LookupNoise(item, outcome) \in NoiseTypes \cup {"none"}
  BY DEF LookupNoise, NoiseTypes
<1>4. a \in Attempts
  BY <1>1, <1>2, <1>3 DEF Attempts, Items
<1>5. Remember(item) /\ Track(item, latency) /\ NoteSuccess(item, outcome)
  BY DEF AnswerLookup
<1>6. RecordAttempt(a, IsCacheHit(item, latency))
  BY DEF AnswerLookup
<1>7. log' = Append(log, a)
  BY <1>6 DEF RecordAttempt
<1> HIDE DEF a, item
<1>8. TypeOK'
  <2>1. stage' \in [Queries -> {"none", "lookup", "probing", "done"}] /\ left' \in [Queries -> 0..Suffixes]
    BY <1>2 DEF AnswerLookup, Proceed, IInv, TypeOK
  <2>2. \A k \in DOMAIN firstLatency' : firstLatency'[k] \in Latencies
    BY <1>5 DEF Track, IInv, TypeOK
  <2>3. aSuccess' \subseteq Records
    BY <1>1, <1>5 DEF NoteSuccess, Items, IInv, TypeOK
  <2>4. window' \in Seq([item : [record : Records, mode : Modes, type : Types], at : Nat])
    BY <1>1, <1>5, RememberKeepsWindow DEF Entries, Items
  <2> QED
    BY <1>2, <1>4, <1>6, <2>1, <2>2, <2>3, <2>4, RecordKeepsTypes DEF IInv, TypeOK
<1>9. WindowIsSparse'
  BY <1>1, <1>5, RememberKeepsWindow
<1>10. WindowComesFromLog'
  <2> SUFFICES ASSUME NEW i \in DOMAIN window'
               PROVE  /\ window'[i].at <= now
                      /\ \E j \in DOMAIN log' :
                           /\ ~log'[j].probe
                           /\ window'[i].item = [record |-> log'[j].record, mode |-> log'[j].mode,
                                                 type |-> log'[j].type]
                           /\ log'[j].at = window'[i].at
    BY <1>2 DEF WindowComesFromLog
  <2>1. CASE window'[i] = [item |-> item, at |-> now]
    <3>1. Len(log) + 1 \in DOMAIN log' /\ log'[Len(log) + 1] = a
      BY <1>4, <1>7, LogGrows
    <3>2. item = [record |-> item.record, mode |-> item.mode, type |-> item.type]
      BY <1>1 DEF Items
    <3>3. ~a.probe /\ a.record = item.record /\ a.mode = item.mode /\ a.type = item.type /\ a.at = now
      BY DEF a
    <3>4. window'[i].item = item /\ window'[i].at = now
      BY <2>1
    <3> QED
      BY <1>2, <3>1, <3>2, <3>3, <3>4
  <2>2. CASE \E k \in DOMAIN window : window'[i] = window[k]
    <3>1. PICK k \in DOMAIN window : window'[i] = window[k]
      BY <2>2
    <3>2. PICK j \in DOMAIN log :
            /\ ~log[j].probe
            /\ window[k].item = [record |-> log[j].record, mode |-> log[j].mode, type |-> log[j].type]
            /\ log[j].at = window[k].at
      BY <3>1 DEF IInv, WindowComesFromLog
    <3>3. j \in DOMAIN log' /\ log'[j] = log[j]
      BY <1>4, <1>7, LogGrows
    <3> QED
      BY <3>1, <3>2, <3>3 DEF IInv, WindowComesFromLog
  <2> QED
    BY <1>1, <1>5, <2>1, <2>2, RememberKeepsWindow
<1>11. DuplicatesAreRepeats'
  <2>1. Len(log) \in Nat /\ DOMAIN log = 1..Len(log)
    BY <1>4, <1>7, LogGrows
  <2>2. ASSUME NEW i \in DOMAIN log', log'[i].noise = "duplicate_query"
        PROVE  Lookup(i)' /\ RepeatsWithinWindow(i)'
    <3>1. CASE i \in DOMAIN log
      BY <1>4, <1>7, <2>2, <3>1, LogGrows
    <3>2. CASE i = Len(log) + 1
      <4>1. log'[i] = a
        BY <1>4, <1>7, <3>2, LogGrows
      <4>2. PICK l \in DOMAIN LiveWindow : LiveWindow[l].item = item
        BY <2>2, <4>1 DEF a, LookupNoise, IsDuplicate
      <4>3. PICK k \in DOMAIN window : LiveWindow[l] = window[k]
        BY <4>2, LiveWindowIsRecent
      <4>4. PICK j \in DOMAIN log :
              /\ ~log[j].probe
              /\ window[k].item = [record |-> log[j].record, mode |-> log[j].mode,
                                   type |-> log[j].type]
              /\ log[j].at = window[k].at
        BY <4>3 DEF IInv, WindowComesFromLog
      <4>5. LiveWindow[l].at >= now - Window
        BY <4>2, LiveWindowIsRecent
      <4>6. log[j] \in Attempts
        BY <4>4 DEF IInv, TypeOK
      <4>7. log[j].at \in Nat /\ a.at = now /\ a.probe = FALSE
        BY <4>6 DEF a, Attempts
      <4>8. a.at - log[j].at <= Window
        BY <1>2, <4>3, <4>4, <4>5, <4>7
      <4>9. j \in 1..(i - 1) /\ j \in DOMAIN log' /\ log'[j] = log[j]
        BY <1>4, <1>7, <2>1, <3>2, LogGrows
      <4>10. item = [record |-> log[j].record, mode |-> log[j].mode, type |-> log[j].type]
        BY <4>2, <4>3, <4>4
      <4>11. a.record = log[j].record /\ a.type = log[j].type /\ a.mode = log[j].mode
        BY <4>10 DEF a
      <4>12. Lookup(i)' /\ Lookup(j)' /\ SameQuery(i, j)'
        BY <2>2, <4>1, <4>4, <4>7, <4>9, <4>11 DEF Lookup, SameQuery
      <4> QED
        BY <4>1, <4>8, <4>9, <4>12 DEF RepeatsWithinWindow
    <3> QED
      BY <1>4, <1>7, <2>1, <3>1, <3>2, LogGrows
  <2> QED
    BY <2>2 DEF DuplicatesAreRepeats
<1>12. ProbesLeft'
  BY <1>2 DEF AnswerLookup, Proceed, IInv, TypeOK, ProbesLeft
<1> QED
  BY <1>8, <1>9, <1>10, <1>11, <1>12 DEF IInv

\* The end of a search probe.
LEMMA ProbeStep ==
  ASSUME IInv, NEW q \in Queries, NEW outcome \in Outcomes, AnswerProbe(q, outcome)
  PROVE  IInv'
<1> DEFINE item == WorkItem(q)
           a == [record |-> item.record, type |-> item.type, mode |-> item.mode,
                 probe |-> TRUE, outcome |-> outcome, noise |-> ProbeNoise(outcome),
                 latency |-> 0, at |-> now]
<1>1. item \in Items
  BY WorkItemType
<1>2. now \in Nat /\ now' = now /\ UNCHANGED heuristicVars
  BY DEF IInv, TypeOK, AnswerProbe
<1>3. a \in Attempts /\ a.noise # "duplicate_query"
  BY <1>1, <1>2 DEF Attempts, Items, ProbeNoise, NoiseTypes
<1>4. RecordAttempt(a, FALSE) /\ log' = Append(log, a)
  BY DEF AnswerProbe, RecordAttempt
<1> HIDE DEF a
<1>5. TypeOK'
  <2>1. stage' \in [Queries -> {"none", "lookup", "probing", "done"}]
    BY DEF AnswerProbe, Proceed, IInv, TypeOK
  <2>2. left' \in [Queries -> 0..Suffixes]
    <3>1. left[q] \in 0..Suffixes /\ left[q] > 0 /\ Suffixes \in Nat
      BY ConstantsAssumption DEF AnswerProbe, IInv, TypeOK, ProbesLeft
    <3>2. left[q] - 1 \in 0..Suffixes
      BY <3>1
    <3>3. left' = [left EXCEPT ![q] = left[q] - 1]
      BY DEF AnswerProbe, Proceed
    <3> QED
      BY <3>2, <3>3 DEF IInv, TypeOK
  <2> QED
    BY <1>2, <1>3, <1>4, <2>1, <2>2, RecordKeepsTypes DEF IInv, TypeOK, heuristicVars
<1>6. WindowIsSparse'
  BY <1>2 DEF IInv, WindowIsSparse, heuristicVars
<1>7. WindowComesFromLog'
  <2>1. window' = window /\ DOMAIN window' = DOMAIN window
    BY <1>2 DEF heuristicVars
  <2>2. \A j \in DOMAIN log : j \in DOMAIN log' /\ log'[j] = log[j]
    BY <1>3, <1>4, LogGrows
  <2>3. ASSUME NEW i \in DOMAIN window
        PROVE  /\ window[i].at <= now
               /\ \E j \in DOMAIN log' :
                    /\ ~log'[j].probe
                    /\ window[i].item = [record |-> log'[j].record, mode |-> log'[j].mode,
                                         type |-> log'[j].type]
                    /\ log'[j].at = window[i].at
    <3>1. PICK j \in DOMAIN log :
            /\ ~log[j].probe
            /\ window[i].item = [record |-> log[j].record, mode |-> log[j].mode,
                                 type |-> log[j].type]
            /\ log[j].at = window[i].at
      BY DEF IInv, WindowComesFromLog
    <3> QED
      BY <2>2, <3>1 DEF IInv, WindowComesFromLog
  <2> QED
    BY <1>2, <2>1, <2>3 DEF WindowComesFromLog
<1>8. DuplicatesAreRepeats'
  <2>1. ASSUME NEW i \in DOMAIN log', log'[i].noise = "duplicate_query"
        PROVE  Lookup(i)' /\ RepeatsWithinWindow(i)'
    BY <1>3, <1>4, <2>1, LogGrows
  <2> QED
    BY <2>1 DEF DuplicatesAreRepeats
<1>9. ProbesLeft'
  BY DEF AnswerProbe, Proceed, IInv, TypeOK, ProbesLeft
<1> QED
  BY <1>5, <1>6, <1>7, <1>8, <1>9 DEF IInv

\* The inductive invariant is kept by every step.
LEMMA StatsStep == IInv /\ [Next]_vars => IInv'
<1> SUFFICES ASSUME IInv, [Next]_vars PROVE IInv'
  OBVIOUS
<1>1. ASSUME NEW q \in Queries, Ask(q)
      PROVE  IInv'
  <2>1. /\ stage' \in [Queries -> {"none", "lookup", "probing", "done"}]
        /\ \A p \in Queries : stage'[p] = "probing" => stage[p] = "probing"
    BY <1>1 DEF Ask, IInv, TypeOK
  <2>2. UNCHANGED <<now, left, heuristicVars, storeVars>>
    BY <1>1 DEF Ask
  <2>3. TypeOK' /\ ProbesLeft'
    BY <2>1, <2>2 DEF heuristicVars, storeVars, IInv, TypeOK, ProbesLeft
  <2> QED
    BY <2>2, <2>3 DEF heuristicVars, storeVars, IInv, WindowIsSparse,
      WindowComesFromLog, DuplicatesAreRepeats, Lookup, RepeatsWithinWindow, SameQuery
<1>2. CASE Tick
  <2>1. now \in Nat /\ now' = now + 1 /\ now' \in 0..MaxTime
    BY <1>2, ConstantsAssumption DEF Tick, IInv, TypeOK
  <2>2. UNCHANGED <<stage, left, heuristicVars, storeVars>>
    BY <1>2 DEF Tick
  <2>3. TypeOK'
    BY <2>1, <2>2 DEF heuristicVars, storeVars, IInv, TypeOK
  <2>4. \A i \in DOMAIN window : window[i].at \in Nat
    <3>1. window \in Seq(Entries)
      BY DEF IInv, TypeOK, Entries, Items
    <3>2. \A i \in DOMAIN window : window[i] \in Entries
      BY <3>1
    <3> QED
      BY <3>2 DEF Entries
  <2>5. WindowComesFromLog'
    BY <2>1, <2>2, <2>4 DEF heuristicVars, storeVars, IInv, WindowComesFromLog
  <2> QED
    BY <2>2, <2>3, <2>5 DEF heuristicVars, storeVars, IInv, ProbesLeft, WindowIsSparse,
      DuplicatesAreRepeats, Lookup, RepeatsWithinWindow, SameQuery
<1>3. CASE UNCHANGED vars
  BY <1>3 DEF vars, heuristicVars, storeVars, IInv, TypeOK, ProbesLeft, WindowIsSparse,
    WindowComesFromLog, DuplicatesAreRepeats, Lookup, RepeatsWithinWindow, SameQuery
<1> QED
  BY <1>1, <1>2, <1>3, LookupStep, ProbeStep DEF Next

-----------------------------------------------------------------------------
(* AAAA noise and the cache heuristic.                                      *)

\* An A lookup of the record r has succeeded.
ASucceeded(r) ==
  \E j \in DOMAIN log : Lookup(j) /\ log[j].type = "A" /\ log[j].record = r /\ IsSuccess(log[j].outcome)

\* j is the first lookup with the key k.
FirstOf(j, k) ==
  /\ Lookup(j) /\ CacheKey(log[j]) = k
  /\ \A m \in 1..(j - 1) : Lookup(m) => CacheKey(log[m]) # k

\* The lookup i beats the first one with its key.
Hit(i) ==
  /\ Lookup(i)
  /\ log[i].latency < CacheThreshold
  /\ \E j \in 1..(i - 1) : FirstOf(j, CacheKey(log[i])) /\ 2 * log[i].latency < log[j].latency

Hits == {i \in DOMAIN log : Hit(i)}

\* _a_success_records knows exactly the records whose A lookup succeeded.
SuccessesFromLog == \A r \in Records : r \in aSuccess <=> ASucceeded(r)

\* _cache_tracker has the latency of the first lookup of every key.
FirstsFromLog ==
  /\ \A i \in DOMAIN log : Lookup(i) => CacheKey(log[i]) \in DOMAIN firstLatency
  /\ \A k \in DOMAIN firstLatency :
       \E j \in DOMAIN log : FirstOf(j, k) /\ firstLatency[k] = log[j].latency

HitsAreCounted == counters["possible_cache_hits"] = Cardinality(Hits)

\* A new entry at the end of the log changes nothing about the earlier ones.
LEMMA EarlierEntriesStay ==
  ASSUME IInv, NEW a \in Attempts, log' = Append(log, a), NEW i \in DOMAIN log
  PROVE  /\ i \in DOMAIN log' /\ log'[i] = log[i]
         /\ Lookup(i)' <=> Lookup(i)
         /\ ASucceededBefore(i)' <=> ASucceededBefore(i)
         /\ Hit(i)' <=> Hit(i)
         /\ \A k : FirstOf(i, k)' <=> FirstOf(i, k)
<1>1. /\ Len(log) \in Nat /\ DOMAIN log = 1..Len(log) /\ DOMAIN log' = 1..(Len(log) + 1)
      /\ \A j \in 1..Len(log) : log'[j] = log[j]
  BY LogGrows
<1>2. \A j \in DOMAIN log : (Lookup(j)' <=> Lookup(j)) /\ j \in DOMAIN log' /\ log'[j] = log[j]
  BY <1>1 DEF Lookup
<1>3. \A j \in DOMAIN log : \A m \in 1..(j - 1) : m \in DOMAIN log
  BY <1>1
<1>4. \A j \in DOMAIN log : \A k : FirstOf(j, k)' <=> FirstOf(j, k)
  <2> SUFFICES ASSUME NEW j \in DOMAIN log, NEW k PROVE FirstOf(j, k)' <=> FirstOf(j, k)
    OBVIOUS
  <2>1. CacheKey(log[j])' = CacheKey(log[j])
    BY <1>2 DEF CacheKey, EffectiveName
  <2>2. \A m \in 1..(j - 1) : (Lookup(m)' <=> Lookup(m)) /\ CacheKey(log[m])' = CacheKey(log[m])
    BY <1>2, <1>3 DEF CacheKey, EffectiveName
  <2> QED
    BY <1>2, <2>1, <2>2 DEF FirstOf
<1>5. CacheKey(log[i])' = CacheKey(log[i])
  BY <1>2 DEF CacheKey, EffectiveName
<1>6. Hit(i)' <=> Hit(i)
  BY <1>2, <1>3, <1>4, <1>5 DEF Hit
<1>7. ASucceededBefore(i)' <=> ASucceededBefore(i)
  BY <1>2, <1>3 DEF ASucceededBefore
<1> QED
  BY <1>2, <1>4, <1>6, <1>7

\* The start of a test knows no success, no latency and no hit.
LEMMA HeuristicsInit ==
  ASSUME Init
  PROVE  SuccessesFromLog /\ AaaaNoiseIsRedundant /\ FirstsFromLog /\ HitsAreCounted
<1>1. log = <<>> /\ DOMAIN log = {} /\ aSuccess = {} /\ firstLatency = <<>> /\ DOMAIN firstLatency = {}
  BY DEF Init
<1>2. Hits = {}
  BY <1>1 DEF Hits
<1>3. counters["possible_cache_hits"] = 0
  BY DEF Init, CounterNames
<1> QED
  BY <1>1, <1>2, <1>3, FS_EmptySet
  DEF SuccessesFromLog, ASucceeded, AaaaNoiseIsRedundant, FirstsFromLog, HitsAreCounted, Lookup

\* The end of a lookup, and the marks aaaa_noise.
LEMMA LookupKeepsNoise ==
  ASSUME IInv, SuccessesFromLog, AaaaNoiseIsRedundant,
         NEW item \in Items, NEW outcome \in Outcomes, NEW a \in Attempts, log' = Append(log, a),
         a.record = item.record, a.type = item.type, ~a.probe, a.outcome = outcome,
         a.noise = LookupNoise(item, outcome), NoteSuccess(item, outcome)
  PROVE  SuccessesFromLog' /\ AaaaNoiseIsRedundant'
<1>1. PICK n \in Nat :
        /\ DOMAIN log = 1..n /\ DOMAIN log' = 1..(n + 1) /\ log'[n + 1] = a
  BY LogGrows
<1>2. \A i \in DOMAIN log : /\ i \in DOMAIN log' /\ log'[i] = log[i]
                            /\ Lookup(i)' <=> Lookup(i)
                            /\ ASucceededBefore(i)' <=> ASucceededBefore(i)
  BY EarlierEntriesStay
<1>3. Lookup(n + 1)' /\ n + 1 \in DOMAIN log' /\ item.record \in Records
  BY <1>1 DEF Lookup, Items
<1>4. SuccessesFromLog'
  <2> SUFFICES ASSUME NEW r \in Records PROVE r \in aSuccess' <=> ASucceeded(r)'
    BY DEF SuccessesFromLog
  <2>1. r \in aSuccess <=> ASucceeded(r)
    BY DEF SuccessesFromLog
  <2>2. r \in aSuccess' <=> (r \in aSuccess \/ (r = item.record /\ item.type = "A" /\ IsSuccess(outcome)))
    BY DEF NoteSuccess
  <2>3. ASucceeded(r)' <=> (ASucceeded(r) \/ (r = item.record /\ item.type = "A" /\ IsSuccess(outcome)))
    <3>1. ASucceeded(r)' => \E j \in DOMAIN log' : Lookup(j)' /\ log'[j].type = "A" /\ log'[j].record = r
                                                 /\ IsSuccess(log'[j].outcome)
      BY DEF ASucceeded, IsSuccess
    <3>2. \A j \in DOMAIN log' : j \in DOMAIN log \/ j = n + 1
      BY <1>1
    <3>3. ASucceeded(r)' => (ASucceeded(r) \/ (r = item.record /\ item.type = "A" /\ IsSuccess(outcome)))
      BY <1>1, <1>2, <3>1, <3>2 DEF ASucceeded
    <3>4. ASucceeded(r) => ASucceeded(r)'
      BY <1>2 DEF ASucceeded, IsSuccess
    <3>5. (r = item.record /\ item.type = "A" /\ IsSuccess(outcome)) => ASucceeded(r)'
      BY <1>1, <1>3 DEF ASucceeded, IsSuccess
    <3> QED
      BY <3>3, <3>4, <3>5
  <2> QED
    BY <2>1, <2>2, <2>3
<1>5. ASucceededBefore(n + 1)' <=> item.record \in aSuccess
  <2>1. 1..((n + 1) - 1) = DOMAIN log
    BY <1>1
  <2>2. ASucceededBefore(n + 1)' <=> ASucceeded(item.record)
    BY <1>1, <1>2, <2>1 DEF ASucceededBefore, ASucceeded, IsSuccess
  <2> QED
    BY <1>3, <2>2 DEF SuccessesFromLog
<1>6. /\ a.noise = "aaaa_noise" => item.type = "AAAA" /\ item.record \in aSuccess
      /\ item.type = "AAAA" /\ item.record \in aSuccess => a.noise # "none"
  BY DEF LookupNoise
<1>7. ASSUME NEW i \in DOMAIN log'
      PROVE  /\ log'[i].noise = "aaaa_noise" => log'[i].type = "AAAA" /\ ASucceededBefore(i)'
             /\ Lookup(i)' /\ log'[i].type = "AAAA" /\ ASucceededBefore(i)' => log'[i].noise # "none"
  <2>1. CASE i \in DOMAIN log
    BY <1>2, <2>1 DEF AaaaNoiseIsRedundant
  <2>2. CASE i = n + 1
    BY <1>1, <1>5, <1>6, <2>2
  <2> QED
    BY <1>1, <2>1, <2>2
<1> QED
  BY <1>4, <1>7 DEF AaaaNoiseIsRedundant

\* The counter of the hits counts attempts that are hits and nothing else.
LEMMA HitCounter ==
  ASSUME TypeOK, NEW a \in Attempts, NEW hit \in BOOLEAN, RecordAttempt(a, hit)
  PROVE  counters'["possible_cache_hits"] =
           IF hit THEN counters["possible_cache_hits"] + 1 ELSE counters["possible_cache_hits"]
<1>1. "possible_cache_hits" \in DOMAIN counters
  BY DEF TypeOK, CounterNames
<1>2. a.type # "possible_cache_hits" /\ a.mode # "possible_cache_hits"
  BY NamesAssumption DEF Attempts
<1>3. a.outcome # "possible_cache_hits"
  BY ConstantsAssumption DEF Attempts, AllOutcomes
<1>4. "possible_cache_hits" \notin CountersOf(a)
  BY <1>2, <1>3 DEF CountersOf
<1>5. counters' = Bump(counters, CountersOf(a) \cup (IF hit THEN {"possible_cache_hits"} ELSE {}))
  BY DEF RecordAttempt
<1> QED
  BY <1>1, <1>4, <1>5 DEF Bump

\* The end of a lookup, and the hits of the cache heuristic.
LEMMA LookupKeepsHits ==
  ASSUME IInv, FirstsFromLog, HitsAreCounted,
         NEW item \in Items, NEW latency \in Nat, NEW a \in Attempts,
         a.record = item.record, a.type = item.type, a.mode = item.mode, ~a.probe,
         a.latency = latency, Track(item, latency), RecordAttempt(a, IsCacheHit(item, latency))
  PROVE  FirstsFromLog' /\ HitsAreCounted'
<1> DEFINE key == CacheKey(item)
<1>0. log' = Append(log, a)
  BY DEF RecordAttempt
<1>1. PICK n \in Nat :
        /\ DOMAIN log = 1..n /\ DOMAIN log' = 1..(n + 1) /\ log'[n + 1] = a
  BY <1>0, LogGrows
<1>2. \A i \in DOMAIN log : /\ i \in DOMAIN log' /\ log'[i] = log[i]
                            /\ Lookup(i)' <=> Lookup(i)
                            /\ Hit(i)' <=> Hit(i)
                            /\ \A k : FirstOf(i, k)' <=> FirstOf(i, k)
                            /\ CacheKey(log[i])' = CacheKey(log[i])
  BY <1>0, EarlierEntriesStay DEF CacheKey, EffectiveName
<1>3. /\ Lookup(n + 1)' /\ n + 1 \in DOMAIN log' /\ CacheKey(log[n + 1])' = key
      /\ 1..((n + 1) - 1) = DOMAIN log /\ n + 1 \notin DOMAIN log
  <2>1. EffectiveName(a) = EffectiveName(item)
    BY DEF EffectiveName
  <2>2. CacheKey(a) = key
    BY <2>1 DEF CacheKey
  <2>3. CacheKey(log[n + 1])' = CacheKey(a)
    BY <1>1 DEF CacheKey, EffectiveName
  <2> QED
    BY <1>1, <2>2, <2>3 DEF Lookup
<1>4. /\ DOMAIN firstLatency' = DOMAIN firstLatency \cup {key}
      /\ \A k \in DOMAIN firstLatency : firstLatency'[k] = firstLatency[k]
      /\ key \notin DOMAIN firstLatency => firstLatency'[key] = latency
  BY DEF Track
<1>5. \A i \in DOMAIN log' : i \in DOMAIN log \/ i = n + 1
  BY <1>1
<1> HIDE DEF key
<1>6. FirstsFromLog'
  <2>1. ASSUME NEW i \in DOMAIN log', Lookup(i)'
        PROVE  CacheKey(log[i])' \in DOMAIN firstLatency'
    BY <1>2, <1>3, <1>4, <1>5, <2>1 DEF FirstsFromLog
  <2>2. ASSUME NEW k \in DOMAIN firstLatency'
        PROVE  \E j \in DOMAIN log' : FirstOf(j, k)' /\ firstLatency'[k] = log'[j].latency
    <3>1. CASE k \in DOMAIN firstLatency
      BY <1>2, <1>4, <3>1 DEF FirstsFromLog
    <3>2. CASE k \notin DOMAIN firstLatency
      <4>1. k = key
        BY <1>4, <3>2
      <4>2. FirstOf(n + 1, k)'
        BY <1>2, <1>3, <3>2, <4>1 DEF FirstOf, FirstsFromLog
      <4> QED
        BY <1>1, <1>3, <1>4, <3>2, <4>1, <4>2
    <3> QED
      BY <3>1, <3>2
  <2> QED
    BY <2>1, <2>2 DEF FirstsFromLog
<1>7. Hit(n + 1)' <=> IsCacheHit(item, latency)
  <2>1. Hit(n + 1)' <=> /\ latency < CacheThreshold
                        /\ \E j \in DOMAIN log : FirstOf(j, key) /\ 2 * latency < log[j].latency
    BY <1>1, <1>2, <1>3 DEF Hit
  <2>2. \A j \in DOMAIN log : FirstOf(j, key) => key \in DOMAIN firstLatency
    BY DEF FirstOf, FirstsFromLog
  <2>3. ASSUME NEW i \in DOMAIN log, NEW j \in DOMAIN log, FirstOf(i, key), FirstOf(j, key)
        PROVE  i = j
    <3>1. ~(i < j) /\ ~(j < i)
      BY <1>1, <2>3 DEF FirstOf
    <3> QED
      BY <1>1, <3>1
  <2>4. key \in DOMAIN firstLatency =>
          \E j \in DOMAIN log : FirstOf(j, key) /\ firstLatency[key] = log[j].latency
    BY DEF FirstsFromLog
  <2>5. IsCacheHit(item, latency) <=>
          key \in DOMAIN firstLatency /\ latency < CacheThreshold /\ 2 * latency < firstLatency[key]
    BY DEF IsCacheHit, key
  <2> QED
    BY <2>1, <2>2, <2>3, <2>4, <2>5
<1>8. Hits' = IF IsCacheHit(item, latency) THEN Hits \cup {n + 1} ELSE Hits
  BY <1>2, <1>3, <1>5, <1>7 DEF Hits
<1>9. counters'["possible_cache_hits"] =
        IF IsCacheHit(item, latency) THEN counters["possible_cache_hits"] + 1
        ELSE counters["possible_cache_hits"]
  BY HitCounter DEF IInv, IsCacheHit
<1>10. IsFiniteSet(Hits) /\ n + 1 \notin Hits
  <2>1. 1 \in Int /\ n \in Int
    BY <1>1
  <2>2. IsFiniteSet(1..n)
    BY <2>1, FS_Interval, Zenon
  <2> QED
    BY <1>1, <1>3, <2>2, FS_Subset DEF Hits
<1>11. Cardinality(Hits \cup {n + 1}) = Cardinality(Hits) + 1
  BY <1>10, FS_AddElement
<1>12. counters'["possible_cache_hits"] = Cardinality(Hits')
  BY <1>8, <1>9, <1>11 DEF HitsAreCounted
<1> QED
  BY <1>6, <1>12 DEF HitsAreCounted

\* The end of a search probe is no lookup: it changes neither heuristic.
LEMMA ProbeKeepsHeuristics ==
  ASSUME IInv, SuccessesFromLog, AaaaNoiseIsRedundant, FirstsFromLog, HitsAreCounted,
         NEW a \in Attempts, a.probe, a.noise # "aaaa_noise", RecordAttempt(a, FALSE),
         UNCHANGED heuristicVars
  PROVE  SuccessesFromLog' /\ AaaaNoiseIsRedundant' /\ FirstsFromLog' /\ HitsAreCounted'
<1>0. log' = Append(log, a) /\ aSuccess' = aSuccess /\ firstLatency' = firstLatency
  BY DEF RecordAttempt, heuristicVars
<1>1. PICK n \in Nat :
        /\ DOMAIN log = 1..n /\ DOMAIN log' = 1..(n + 1) /\ log'[n + 1] = a
  BY <1>0, LogGrows
<1>2. \A i \in DOMAIN log : /\ i \in DOMAIN log' /\ log'[i] = log[i]
                            /\ Lookup(i)' <=> Lookup(i)
                            /\ ASucceededBefore(i)' <=> ASucceededBefore(i)
                            /\ Hit(i)' <=> Hit(i)
                            /\ \A k : FirstOf(i, k)' <=> FirstOf(i, k)
                            /\ CacheKey(log[i])' = CacheKey(log[i])
  BY <1>0, EarlierEntriesStay DEF CacheKey, EffectiveName
<1>3. ~Lookup(n + 1)' /\ \A i \in DOMAIN log' : i \in DOMAIN log \/ i = n + 1
  BY <1>1 DEF Lookup
<1>4. \A r \in Records : ASucceeded(r)' <=> ASucceeded(r)
  BY <1>2, <1>3 DEF ASucceeded, IsSuccess
<1>5. Hits' = Hits
  BY <1>2, <1>3 DEF Hits, Hit
<1>6. counters'["possible_cache_hits"] = counters["possible_cache_hits"]
  BY HitCounter DEF IInv
<1>7. AaaaNoiseIsRedundant'
  BY <1>1, <1>2, <1>3 DEF AaaaNoiseIsRedundant
<1>8. FirstsFromLog'
  BY <1>0, <1>2, <1>3 DEF FirstsFromLog
<1> QED
  BY <1>0, <1>4, <1>5, <1>6, <1>7, <1>8 DEF SuccessesFromLog, HitsAreCounted

HeuristicsInv == SuccessesFromLog /\ AaaaNoiseIsRedundant /\ FirstsFromLog /\ HitsAreCounted

\* Both heuristics are kept by every step.
LEMMA HeuristicsStep ==
  ASSUME IInv, HeuristicsInv, [Next]_vars
  PROVE  HeuristicsInv'
<1> USE DEF HeuristicsInv
<1>1. ASSUME NEW q \in Queries, NEW outcome \in Outcomes, NEW latency \in Latencies,
             AnswerLookup(q, outcome, latency)
      PROVE  HeuristicsInv'
  <2> DEFINE item == WorkItem(q)
             a == [record |-> item.record, type |-> item.type, mode |-> item.mode,
                   probe |-> FALSE, outcome |-> outcome, noise |-> LookupNoise(item, outcome),
                   latency |-> latency, at |-> now]
  <2>1. item \in Items
    BY WorkItemType
  <2>2. now \in Nat /\ latency \in Nat
    BY ConstantsAssumption DEF IInv, TypeOK
  <2>3. LookupNoise(item, outcome) \in NoiseTypes \cup {"none"}
    BY DEF LookupNoise, NoiseTypes
  <2>4. a \in Attempts
    BY <2>1, <2>2, <2>3 DEF Attempts, Items
  <2>5. Track(item, latency) /\ NoteSuccess(item, outcome) /\ RecordAttempt(a, IsCacheHit(item, latency))
    BY <1>1 DEF AnswerLookup
  <2>6. log' = Append(log, a)
    BY <2>5 DEF RecordAttempt
  <2>7. /\ a.record = item.record /\ a.type = item.type /\ a.mode = item.mode /\ ~a.probe
        /\ a.outcome = outcome /\ a.noise = LookupNoise(item, outcome) /\ a.latency = latency
    OBVIOUS
  <2> HIDE DEF a, item
  <2>8. SuccessesFromLog' /\ AaaaNoiseIsRedundant'
    BY <2>1, <2>4, <2>5, <2>6, <2>7, LookupKeepsNoise
  <2>9. FirstsFromLog' /\ HitsAreCounted'
    BY <2>1, <2>2, <2>4, <2>5, <2>7, LookupKeepsHits
  <2> QED
    BY <2>8, <2>9
<1>2. ASSUME NEW q \in Queries, NEW outcome \in Outcomes, AnswerProbe(q, outcome)
      PROVE  HeuristicsInv'
  <2> DEFINE item == WorkItem(q)
             a == [record |-> item.record, type |-> item.type, mode |-> item.mode,
                   probe |-> TRUE, outcome |-> outcome, noise |-> ProbeNoise(outcome),
                   latency |-> 0, at |-> now]
  <2>1. item \in Items
    BY WorkItemType
  <2>2. now \in Nat
    BY DEF IInv, TypeOK
  <2>3. a \in Attempts /\ a.probe /\ a.noise # "aaaa_noise"
    BY <2>1, <2>2 DEF Attempts, Items, ProbeNoise, NoiseTypes
  <2>4. RecordAttempt(a, FALSE) /\ UNCHANGED heuristicVars
    BY <1>2 DEF AnswerProbe
  <2> HIDE DEF a
  <2> QED
    BY <2>3, <2>4, ProbeKeepsHeuristics
<1>3. CASE UNCHANGED <<heuristicVars, storeVars>>
  BY <1>3 DEF heuristicVars, storeVars, SuccessesFromLog, ASucceeded, AaaaNoiseIsRedundant,
    ASucceededBefore, FirstsFromLog, FirstOf, HitsAreCounted, Hits, Hit, Lookup, CacheKey,
    EffectiveName
<1> QED
  BY <1>1, <1>2, <1>3 DEF Next, Ask, Tick, vars

-----------------------------------------------------------------------------
(* Sums.                                                                    *)

\* Induction over the subsets of a finite set, as a minimal counterexample: the form in
\* which a set, and not an operator, is the parameter.
LEMMA Minimal ==
  ASSUME NEW S, IsFiniteSet(S), NEW F \in SUBSET SUBSET S, F # {}
  PROVE  \E T \in F : \A U \in F : U \subseteq T => U = T
<1>1. IsWellFoundedOn(StrictSubsetOrdering(S), FiniteSubsetsOf(S))
  BY FS_StrictSubsetOrderingWellFounded
<1>2. FiniteSubsetsOf(S) = SUBSET S
  BY FS_FiniteSubsetsOfFinite
<1>3. PICK T \in F : \A U \in F : <<U, T>> \notin StrictSubsetOrdering(S)
  BY <1>1, <1>2, WFMin
<1> QED
  BY <1>3 DEF StrictSubsetOrdering

Chosen(s) == CHOOSE x \in s : TRUE

\* it[s] is the sum of f over s, for the subsets of S.
IsSum(it, f, S) ==
  it = [s \in SUBSET S |-> IF s = {} THEN 0 ELSE f[Chosen(s)] + it[s \ {Chosen(s)}]]

\* The recursion determines the sums.
LEMMA SumsAgree ==
  ASSUME NEW S, IsFiniteSet(S), NEW f, NEW U \in SUBSET S, NEW V \in SUBSET S,
         NEW g, IsSum(g, f, U), NEW h, IsSum(h, f, V),
         NEW s \in SUBSET (U \cap V)
  PROVE  g[s] = h[s]
<1> DEFINE Bad == {T \in SUBSET (U \cap V) : g[T] # h[T]}
<1> SUFFICES ASSUME Bad # {} PROVE FALSE
  OBVIOUS
<1>1. PICK T \in Bad : \A W \in Bad : W \subseteq T => W = T
  <2>1. Bad \in SUBSET SUBSET S
    OBVIOUS
  <2> HIDE DEF Bad
  <2> QED
    BY <2>1, Minimal
<1>2. T # {}
  BY <1>1 DEF IsSum
<1>3. Chosen(T) \in T
  BY <1>2 DEF Chosen
<1>4. g[T \ {Chosen(T)}] = h[T \ {Chosen(T)}]
  BY <1>1, <1>3
<1>5. g[T] = f[Chosen(T)] + g[T \ {Chosen(T)}] /\ h[T] = f[Chosen(T)] + h[T \ {Chosen(T)}]
  BY <1>1, <1>2 DEF IsSum
<1> QED
  BY <1>1, <1>4, <1>5

\* It has a solution.
LEMMA SumExists ==
  ASSUME NEW S, IsFiniteSet(S), NEW f
  PROVE  \E it : IsSum(it, f, S)
<1> DEFINE Bad == {T \in SUBSET S : ~ \E it : IsSum(it, f, T)}
<1> SUFFICES ASSUME Bad # {} PROVE FALSE
  OBVIOUS
<1>1. PICK T \in Bad : \A W \in Bad : W \subseteq T => W = T
  <2>1. Bad \in SUBSET SUBSET S
    OBVIOUS
  <2> HIDE DEF Bad
  <2> QED
    BY <2>1, Minimal
<1> DEFINE G(U) == CHOOSE it : IsSum(it, f, U)
           it == [s \in SUBSET T |-> IF s = {} THEN 0
                    ELSE f[Chosen(s)] + G(s \ {Chosen(s)})[s \ {Chosen(s)}]]
<1>2. ASSUME NEW U \in SUBSET T, U # T
      PROVE  IsSum(G(U), f, U)
  BY <1>1, <1>2
<1> HIDE DEF G
<1>3. ASSUME NEW r \in SUBSET T, r # T
      PROVE  it[r] = G(r)[r]
  <2>1. IsSum(G(r), f, r)
    BY <1>2, <1>3
  <2>2. CASE r = {}
    BY <2>1, <2>2 DEF IsSum
  <2>3. CASE r # {}
    <3> DEFINE q == r \ {Chosen(r)}
    <3>1. Chosen(r) \in r
      BY <2>3 DEF Chosen
    <3>2. IsSum(G(q), f, q)
      BY <1>2, <1>3, <3>1
    <3>3. G(r)[q] = G(q)[q]
      <4>1. r \in SUBSET S /\ q \in SUBSET S /\ q \in SUBSET (r \cap q)
        BY <1>1
      <4> QED
        BY <2>1, <3>2, <4>1, SumsAgree
    <3>4. G(r)[r] = f[Chosen(r)] + G(r)[q]
      BY <2>1, <2>3 DEF IsSum
    <3> QED
      BY <2>3, <3>3, <3>4
  <2> QED
    BY <2>2, <2>3
<1>4. ASSUME NEW s \in SUBSET T, s # {}
      PROVE  it[s \ {Chosen(s)}] = G(s \ {Chosen(s)})[s \ {Chosen(s)}]
  <2>1. Chosen(s) \in s
    BY <1>4 DEF Chosen
  <2> HIDE DEF it
  <2> QED
    BY <1>3, <2>1
<1>5. IsSum(it, f, T)
  <2>1. it = [s \in SUBSET T |-> IF s = {} THEN 0 ELSE f[Chosen(s)] + it[s \ {Chosen(s)}]]
    BY <1>4
  <2> HIDE DEF it
  <2> QED
    BY <2>1 DEF IsSum
<1> QED
  BY <1>1, <1>5

\* FoldFunction takes the sum.
LEMMA SumIsFold ==
  ASSUME NEW f, NEW S, S = DOMAIN f, IsFiniteSet(S)
  PROVE  \E it : IsSum(it, f, S) /\ SumOf(f) = it[S]
<1> DEFINE it == CHOOSE it : IsSum(it, f, S)
<1>1. IsSum(it, f, S)
  BY SumExists
<1>2. SumOf(f) = it[S]
  BY DEF SumOf, FoldFunction, FoldFunctionOnSet, MapThenFoldSet, IsSum, Chosen
<1> QED
  BY <1>1, <1>2

\* The sum of f over a part of its domain.
On(f, S) == [x \in S |-> f[x]]

\* The recursion gives the sums over the parts as well.
LEMMA SumOnIsFold ==
  ASSUME NEW f, NEW S, IsFiniteSet(S), NEW T \in SUBSET S, NEW it, IsSum(it, f, S)
  PROVE  SumOf(On(f, T)) = it[T]
<1>1. IsFiniteSet(T)
  BY FS_Subset
<1>2. PICK g : IsSum(g, On(f, T), T) /\ SumOf(On(f, T)) = g[T]
  BY <1>1, SumIsFold DEF On
<1>3. IsSum(g, f, T)
  <2>1. \A s \in SUBSET T : s # {} => Chosen(s) \in T
    BY DEF Chosen
  <2> QED
    BY <1>2, <2>1 DEF IsSum, On
<1> QED
  BY <1>2, <1>3, SumsAgree

\* The empty sum.
LEMMA SumEmpty ==
  ASSUME NEW f, DOMAIN f = {}
  PROVE  SumOf(f) = 0
<1>1. IsFiniteSet({})
  BY FS_EmptySet
<1> QED
  BY <1>1, SumIsFold DEF IsSum

\* One argument is taken out of the sum, whichever one.
LEMMA SumPick ==
  ASSUME NEW S, IsFiniteSet(S), NEW f \in [S -> Int], NEW x \in S
  PROVE  /\ SumOf(f) \in Int
         /\ SumOf(On(f, S \ {x})) \in Int
         /\ SumOf(f) = f[x] + SumOf(On(f, S \ {x}))
<1>1. PICK it : IsSum(it, f, S) /\ SumOf(f) = it[S]
  BY SumIsFold
<1>2. \A s \in SUBSET S : it[s] \in Int
  <2> DEFINE Bad == {T \in SUBSET S : it[T] \notin Int}
  <2> SUFFICES ASSUME Bad # {} PROVE FALSE
    OBVIOUS
  <2>1. PICK T \in Bad : \A W \in Bad : W \subseteq T => W = T
    <3>1. Bad \in SUBSET SUBSET S
      OBVIOUS
    <3> HIDE DEF Bad
    <3> QED
      BY <3>1, Minimal
  <2>2. T # {}
    BY <1>1, <2>1 DEF IsSum
  <2>3. Chosen(T) \in T
    BY <2>2 DEF Chosen
  <2>4. it[T \ {Chosen(T)}] \in Int /\ f[Chosen(T)] \in Int
    BY <2>1, <2>3
  <2>5. it[T] = f[Chosen(T)] + it[T \ {Chosen(T)}]
    BY <1>1, <2>1, <2>2 DEF IsSum
  <2> QED
    BY <2>1, <2>4, <2>5
<1>3. \A s \in SUBSET S : \A y \in s : it[s] = f[y] + it[s \ {y}]
  <2> DEFINE Bad == {T \in SUBSET S : \E y \in T : it[T] # f[y] + it[T \ {y}]}
  <2> SUFFICES ASSUME Bad # {} PROVE FALSE
    OBVIOUS
  <2>1. PICK T \in Bad : \A W \in Bad : W \subseteq T => W = T
    <3>1. Bad \in SUBSET SUBSET S
      OBVIOUS
    <3> HIDE DEF Bad
    <3> QED
      BY <3>1, Minimal
  <2>2. PICK y \in T : it[T] # f[y] + it[T \ {y}]
    BY <2>1
  <2> DEFINE c == Chosen(T)
             rest == (T \ {c}) \ {y}
  <2>3. c \in T /\ it[T] = f[c] + it[T \ {c}]
    BY <1>1, <2>1, <2>2 DEF IsSum, Chosen
  <2> HIDE DEF c
  <2>4. y # c
    BY <2>2, <2>3
  <2>5. it[T \ {c}] = f[y] + it[rest]
    <3>1. T \ {c} \notin Bad /\ T \ {c} \in SUBSET S
      BY <2>1, <2>3
    <3> QED
      BY <2>4, <3>1
  <2>6. it[T \ {y}] = f[c] + it[rest]
    <3>1. T \ {y} \notin Bad /\ T \ {y} \in SUBSET S
      BY <2>1
    <3>2. (T \ {y}) \ {c} = rest
      OBVIOUS
    <3> QED
      BY <2>3, <2>4, <3>1, <3>2
  <2>7. it[rest] \in Int /\ f[c] \in Int /\ f[y] \in Int
    BY <1>2, <2>1, <2>3
  <2> QED
    BY <2>2, <2>3, <2>5, <2>6, <2>7
<1>4. SumOf(On(f, S \ {x})) = it[S \ {x}]
  BY <1>1, SumOnIsFold
<1> QED
  BY <1>1, <1>2, <1>3, <1>4

\* The same for the sum over a part.
LEMMA SumStep ==
  ASSUME NEW S, IsFiniteSet(S), NEW f \in [S -> Int], NEW T \in SUBSET S
  PROVE  /\ SumOf(On(f, T)) \in Int
         /\ \A x \in T : SumOf(On(f, T)) = f[x] + SumOf(On(f, T \ {x}))
         /\ T = {} => SumOf(On(f, T)) = 0
<1>1. IsFiniteSet(T) /\ On(f, T) \in [T -> Int]
  BY FS_Subset DEF On
<1>2. ASSUME NEW x \in T
      PROVE  SumOf(On(f, T)) = f[x] + SumOf(On(f, T \ {x})) /\ SumOf(On(f, T)) \in Int
  <2>1. On(On(f, T), T \ {x}) = On(f, T \ {x}) /\ On(f, T)[x] = f[x]
    BY DEF On
  <2> QED
    BY <1>1, <2>1, SumPick
<1>3. T = {} => SumOf(On(f, T)) = 0
  BY SumEmpty DEF On
<1>4. SumOf(On(f, T)) \in Int
  <2>1. CASE T = {}
    BY <1>3, <2>1
  <2>2. CASE T # {}
    BY <1>2, <2>2
  <2> QED
    BY <2>1, <2>2
<1> QED
  BY <1>2, <1>3, <1>4

\* The whole is a part.
LEMMA OnAll ==
  ASSUME NEW S, NEW V, NEW f \in [S -> V]
  PROVE  On(f, S) = f
BY DEF On

\* A sum of naturals is one.
LEMMA SumNat ==
  ASSUME NEW S, IsFiniteSet(S), NEW f \in [S -> Nat]
  PROVE  SumOf(f) \in Nat
<1> DEFINE Bad == {T \in SUBSET S : SumOf(On(f, T)) \notin Nat}
<1>1. f \in [S -> Int]
  OBVIOUS
<1>2. Bad = {}
  <2> SUFFICES ASSUME Bad # {} PROVE FALSE
    OBVIOUS
  <2>1. PICK T \in Bad : \A W \in Bad : W \subseteq T => W = T
    <3>1. Bad \in SUBSET SUBSET S
      OBVIOUS
    <3> HIDE DEF Bad
    <3> QED
      BY <3>1, Minimal
  <2>2. T # {}
    BY <1>1, <2>1, SumStep
  <2>3. PICK x \in T : TRUE
    BY <2>2
  <2>4. T \ {x} \notin Bad /\ T \in SUBSET S /\ f[x] \in Nat
    BY <2>1, <2>3
  <2>5. SumOf(On(f, T)) = f[x] + SumOf(On(f, T \ {x}))
    BY <1>1, <2>1, <2>3, SumStep
  <2> QED
    BY <2>1, <2>4, <2>5
<1> QED
  BY <1>2, OnAll

\* The sum is linear.
LEMMA SumPlus ==
  ASSUME NEW S, IsFiniteSet(S), NEW f \in [S -> Int], NEW g \in [S -> Int], NEW h \in [S -> Int],
         \A x \in S : h[x] = f[x] + g[x]
  PROVE  SumOf(h) = SumOf(f) + SumOf(g)
<1> DEFINE Bad == {T \in SUBSET S : SumOf(On(h, T)) # SumOf(On(f, T)) + SumOf(On(g, T))}
<1>1. Bad = {}
  <2> SUFFICES ASSUME Bad # {} PROVE FALSE
    OBVIOUS
  <2>1. PICK T \in Bad : \A W \in Bad : W \subseteq T => W = T
    <3>1. Bad \in SUBSET SUBSET S
      OBVIOUS
    <3> HIDE DEF Bad
    <3> QED
      BY <3>1, Minimal
  <2>2. T # {}
    BY <2>1, SumStep
  <2>3. PICK x \in T : TRUE
    BY <2>2
  <2> DEFINE R == T \ {x}
  <2>4. R \notin Bad /\ R \in SUBSET S /\ T \in SUBSET S /\ h[x] = f[x] + g[x]
        /\ f[x] \in Int /\ g[x] \in Int
    BY <2>1, <2>3
  <2>5. /\ SumOf(On(f, T)) = f[x] + SumOf(On(f, R)) /\ SumOf(On(f, R)) \in Int
        /\ SumOf(On(g, T)) = g[x] + SumOf(On(g, R)) /\ SumOf(On(g, R)) \in Int
        /\ SumOf(On(h, T)) = h[x] + SumOf(On(h, R))
    BY <2>3, <2>4, SumStep
  <2>6. SumOf(On(h, R)) = SumOf(On(f, R)) + SumOf(On(g, R))
    BY <2>4
  <2> HIDE DEF R
  <2>7. SumOf(On(h, T)) = SumOf(On(f, T)) + SumOf(On(g, T))
    BY <2>4, <2>5, <2>6
  <2> QED
    BY <2>1, <2>7
<1> QED
  BY <1>1, OnAll

\* It is monotonic.
LEMMA SumMonotonic ==
  ASSUME NEW S, IsFiniteSet(S), NEW f \in [S -> Int], NEW g \in [S -> Int],
         \A x \in S : f[x] <= g[x]
  PROVE  SumOf(f) <= SumOf(g)
<1> DEFINE d == [x \in S |-> g[x] - f[x]]
<1>1. d \in [S -> Nat] /\ d \in [S -> Int] /\ \A x \in S : g[x] = f[x] + d[x]
  OBVIOUS
<1> HIDE DEF d
<1>2. SumOf(g) = SumOf(f) + SumOf(d) /\ SumOf(d) \in Nat
  BY <1>1, SumPlus, SumNat
<1>3. SumOf(f) \in Int
  BY OnAll, SumStep
<1> QED
  BY <1>2, <1>3

\* The sum of a constant.
LEMMA SumConstant ==
  ASSUME NEW S, IsFiniteSet(S), NEW c \in Int, NEW f \in [S -> Int], \A x \in S : f[x] = c
  PROVE  SumOf(f) = Cardinality(S) * c
<1> DEFINE Bad == {T \in SUBSET S : SumOf(On(f, T)) # Cardinality(T) * c}
<1>1. Bad = {}
  <2> SUFFICES ASSUME Bad # {} PROVE FALSE
    OBVIOUS
  <2>1. PICK T \in Bad : \A W \in Bad : W \subseteq T => W = T
    <3>1. Bad \in SUBSET SUBSET S
      OBVIOUS
    <3> HIDE DEF Bad
    <3> QED
      BY <3>1, Minimal
  <2>2. T # {}
    <3>1. SumOf(On(f, {})) = 0 /\ Cardinality({}) = 0
      BY SumStep, FS_EmptySet
    <3>2. 0 * c = 0
      OBVIOUS
    <3> QED
      BY <2>1, <3>1, <3>2
  <2>3. PICK x \in T : TRUE
    BY <2>2
  <2> DEFINE R == T \ {x}
  <2>4. R \notin Bad /\ R \in SUBSET S /\ T \in SUBSET S /\ f[x] = c
    BY <2>1, <2>3
  <2>5. SumOf(On(f, T)) = f[x] + SumOf(On(f, R))
    BY <2>3, <2>4, SumStep
  <2>6. Cardinality(R) = Cardinality(T) - 1 /\ Cardinality(R) \in Nat /\ Cardinality(T) \in Nat
    BY <2>3, <2>4, FS_Subset, FS_RemoveElement, FS_CardinalityType
  <2>7. Cardinality(T) * c = c + Cardinality(R) * c
    BY <2>6
  <2> QED
    BY <2>1, <2>4, <2>5, <2>7
<1> QED
  BY <1>1, OnAll

\* It follows a change of one argument.
LEMMA SumChange ==
  ASSUME NEW S, IsFiniteSet(S), NEW f \in [S -> Int], NEW g \in [S -> Int],
         NEW x \in S, \A y \in S \ {x} : g[y] = f[y]
  PROVE  SumOf(g) = SumOf(f) + g[x] - f[x]
<1>1. On(f, S \ {x}) = On(g, S \ {x})
  BY DEF On
<1>2. /\ SumOf(f) = f[x] + SumOf(On(f, S \ {x})) /\ SumOf(On(f, S \ {x})) \in Int
      /\ SumOf(g) = g[x] + SumOf(On(g, S \ {x}))
      /\ f[x] \in Int /\ g[x] \in Int
  BY SumPick
<1> QED
  BY <1>1, <1>2

\* Two disjoint parts.
LEMMA SumSplit ==
  ASSUME NEW S, IsFiniteSet(S), NEW f \in [S -> Int], NEW A, NEW B, A \cup B = S, A \cap B = {}
  PROVE  SumOf(f) = SumOf(On(f, A)) + SumOf(On(f, B))
<1> DEFINE Bad == {T \in SUBSET B : SumOf(On(f, A \cup T)) # SumOf(On(f, A)) + SumOf(On(f, T))}
<1>1. Bad = {}
  <2> SUFFICES ASSUME Bad # {} PROVE FALSE
    OBVIOUS
  <2>1. PICK T \in Bad : \A W \in Bad : W \subseteq T => W = T
    <3>1. Bad \in SUBSET SUBSET S
      OBVIOUS
    <3> HIDE DEF Bad
    <3> QED
      BY <3>1, Minimal
  <2>0. A \in SUBSET S /\ T \in SUBSET S /\ A \cup T \in SUBSET S
    BY <2>1
  <2>2. T # {}
    <3>1. A \cup {} = A
      OBVIOUS
    <3>2. SumOf(On(f, {})) = 0 /\ SumOf(On(f, A)) \in Int
      BY <2>0, SumStep
    <3>3. SumOf(On(f, A \cup {})) = SumOf(On(f, A)) + SumOf(On(f, {}))
      BY <3>1, <3>2
    <3> QED
      BY <2>1, <3>3
  <2>3. PICK x \in T : TRUE
    BY <2>2
  <2>4. T \ {x} \notin Bad /\ (A \cup T) \ {x} = A \cup (T \ {x}) /\ T \ {x} \in SUBSET B
    BY <2>1, <2>3
  <2>5. /\ SumOf(On(f, T)) = f[x] + SumOf(On(f, T \ {x})) /\ SumOf(On(f, T \ {x})) \in Int
        /\ SumOf(On(f, A \cup T)) = f[x] + SumOf(On(f, A \cup (T \ {x})))
        /\ SumOf(On(f, A)) \in Int /\ f[x] \in Int
    <3>1. x \in A \cup T /\ x \in S /\ T \ {x} \in SUBSET S
      BY <2>0, <2>3
    <3> QED
      BY <2>0, <2>3, <2>4, <3>1, SumStep
  <2>6. SumOf(On(f, A \cup (T \ {x}))) = SumOf(On(f, A)) + SumOf(On(f, T \ {x}))
    BY <2>4
  <2>7. SumOf(On(f, A \cup T)) = SumOf(On(f, A)) + SumOf(On(f, T))
    BY <2>5, <2>6
  <2> QED
    BY <2>1, <2>7
<1>2. SumOf(On(f, A \cup B)) = SumOf(On(f, A)) + SumOf(On(f, B))
  BY <1>1
<1> QED
  BY <1>2, OnAll

\* The fibres of a function share out its domain.
LEMMA SumOfFibres ==
  ASSUME NEW I, IsFiniteSet(I), NEW K, IsFiniteSet(K), NEW key \in [I -> K]
  PROVE  SumOf([k \in K |-> Cardinality({i \in I : key[i] = k})]) = Cardinality(I)
<1> DEFINE fibres(T) == [k \in K |-> Cardinality({i \in T : key[i] = k})]
           Bad == {T \in SUBSET I : SumOf(fibres(T)) # Cardinality(T)}
<1>0. ASSUME NEW T \in SUBSET I
      PROVE  fibres(T) \in [K -> Int] /\ IsFiniteSet(T) /\ Cardinality(T) \in Nat
  <2>1. \A k \in K : Cardinality({i \in T : key[i] = k}) \in Nat
    <3> TAKE k \in K
    <3>1. {i \in T : key[i] = k} \in SUBSET I
      OBVIOUS
    <3> QED
      BY <3>1, FS_Subset, FS_CardinalityType
  <2> QED
    BY <2>1, FS_Subset, FS_CardinalityType
<1>1. Bad = {}
  <2> SUFFICES ASSUME Bad # {} PROVE FALSE
    OBVIOUS
  <2>1. PICK T \in Bad : \A W \in Bad : W \subseteq T => W = T
    <3>1. Bad \in SUBSET SUBSET I
      OBVIOUS
    <3> HIDE DEF Bad
    <3> QED
      BY <3>1, Minimal
  <2>2. T # {}
    <3>1. \A k \in K : fibres({})[k] = 0
      BY FS_EmptySet
    <3>2. fibres({}) \in [K -> Int] /\ Cardinality(K) \in Nat
      BY <1>0, FS_CardinalityType
    <3> HIDE DEF fibres
    <3>3. SumOf(fibres({})) = Cardinality(K) * 0
      BY <3>1, <3>2, SumConstant
    <3>4. SumOf(fibres({})) = Cardinality({})
      BY <3>2, <3>3, FS_EmptySet
    <3> QED
      BY <2>1, <3>4
  <2>3. PICK x \in T : TRUE
    BY <2>2
  <2> DEFINE R == T \ {x}
  <2>4. R \notin Bad /\ R \in SUBSET I /\ T \in SUBSET I /\ key[x] \in K
    BY <2>1, <2>3
  <2>5. \A k \in K \ {key[x]} : fibres(T)[k] = fibres(R)[k]
    <3> TAKE k \in K \ {key[x]}
    <3>1. {i \in T : key[i] = k} = {i \in R : key[i] = k}
      OBVIOUS
    <3> QED
      BY <3>1
  <2>6. fibres(T)[key[x]] = fibres(R)[key[x]] + 1
    <3> DEFINE same == {i \in T : key[i] = key[x]}
    <3>1. {i \in R : key[i] = key[x]} = same \ {x}
      OBVIOUS
    <3>2. IsFiniteSet(same) /\ Cardinality(same) \in Nat
      <4>1. same \in SUBSET I
        BY <2>4
      <4> QED
        BY <4>1, FS_Subset, FS_CardinalityType
    <3>3. x \in same
      BY <2>3
    <3>4. fibres(T)[key[x]] = Cardinality(same) /\ fibres(R)[key[x]] = Cardinality(same \ {x})
      BY <2>4, <3>1
    <3> HIDE DEF same
    <3>5. Cardinality(same \ {x}) = Cardinality(same) - 1
      BY <3>2, <3>3, FS_RemoveElement
    <3> QED
      BY <3>2, <3>4, <3>5
  <2>7. fibres(T) \in [K -> Int] /\ fibres(R) \in [K -> Int]
    BY <1>0, <2>4
  <2>8. Cardinality(R) = Cardinality(T) - 1 /\ Cardinality(T) \in Nat
    BY <1>0, <2>3, <2>4, FS_RemoveElement
  <2> DEFINE more == fibres(T)
             less == fibres(R)
  <2>9. SumOf(more) = SumOf(less) + more[key[x]] - less[key[x]]
    <3>1. more \in [K -> Int] /\ less \in [K -> Int] /\ \A k \in K \ {key[x]} : more[k] = less[k]
      BY <2>5, <2>7
    <3> HIDE DEF more, less
    <3> QED
      BY <2>4, <3>1, SumChange
  <2> HIDE DEF fibres
  <2>10. SumOf(fibres(R)) = Cardinality(R) /\ fibres(R)[key[x]] \in Int
    BY <2>4, <2>7
  <2> HIDE DEF R
  <2>11. SumOf(fibres(T)) = Cardinality(T)
    BY <2>6, <2>8, <2>9, <2>10
  <2> QED
    BY <2>1, <2>11
<1>2. SumOf(fibres(I)) = Cardinality(I)
  BY <1>1
<1> QED
  BY <1>2

-----------------------------------------------------------------------------
(* The store and the log.                                                   *)

\* The number of attempts of the log that are in A.
LogCount(A) == Cardinality({i \in DOMAIN log : log[i] \in A})

Counting(c) == {a \in Attempts : c \in CountersOf(a)}
RecordCounting(r, c) == {a \in Attempts : a.record = r /\ c \in RecordCountersOf(a)}
WithNoise(n) == {a \in Attempts : a.noise = n}
LookupsOf(r, m) == {a \in Attempts : ~a.probe /\ a.record = r /\ a.mode = m}
TimeoutsOf(r, m) == {a \in LookupsOf(r, m) : a.outcome = "timeout"}

\* Each number in the store is the number of attempts it is said to count.
CountsFromLog ==
  /\ \A c \in CounterNames \ {"possible_cache_hits"} : counters[c] = LogCount(Counting(c))
  /\ \A n \in NoiseTypes : noiseCounts[n] = LogCount(WithNoise(n))
  /\ \A r \in Records, c \in RecordCounterNames : perRecord[r][c] = LogCount(RecordCounting(r, c))
  /\ \A r \in Records, m \in Modes : lookups[r][m] = LogCount(LookupsOf(r, m))
  /\ \A r \in Records, m \in Modes : timeouts[r][m] = LogCount(TimeoutsOf(r, m))

SearchNoise == {"search_suffix_query", "search_suffix_nxdomain"}

\* The search probes, and no lookups, have the noise types of the search list.
ProbesAreSearchNoise == \A i \in DOMAIN log : log[i].probe <=> log[i].noise \in SearchNoise

LogIsPast == \A i \in DOMAIN log : log[i].at <= now

StoreInv == CountsFromLog /\ ProbesAreSearchNoise /\ LogIsPast

\* The log has finitely many attempts.
LEMMA LogCountType ==
  ASSUME TypeOK, NEW A
  PROVE  /\ LogCount(A) \in Nat
         /\ IsFiniteSet({i \in DOMAIN log : log[i] \in A})
<1>1. Len(log) \in Nat /\ DOMAIN log = 1..Len(log)
  BY DEF TypeOK
<1>2. 1 \in Int /\ Len(log) \in Int
  BY <1>1
<1>3. IsFiniteSet(1..Len(log))
  BY <1>2, FS_Interval, Zenon
<1>4. {i \in DOMAIN log : log[i] \in A} \in SUBSET (1..Len(log))
  BY <1>1
<1> QED
  BY <1>3, <1>4, FS_Subset, FS_CardinalityType DEF LogCount

\* An attempt that is recorded counts once, where it belongs.
LEMMA LogCountStep ==
  ASSUME TypeOK, NEW a \in Attempts, log' = Append(log, a), NEW A
  PROVE  LogCount(A)' = IF a \in A THEN LogCount(A) + 1 ELSE LogCount(A)
<1> DEFINE old == {i \in DOMAIN log : log[i] \in A}
           last == Len(log) + 1
<1>1. /\ Len(log) \in Nat /\ DOMAIN log = 1..Len(log) /\ DOMAIN log' = 1..last
      /\ \A i \in 1..Len(log) : log'[i] = log[i]
      /\ log'[last] = a
  BY AppendProperties DEF TypeOK
<1>2. {i \in DOMAIN log' : log'[i] \in A} = IF a \in A THEN old \cup {last} ELSE old
  BY <1>1
<1>3. IsFiniteSet(old)
  BY LogCountType
<1>4. last \notin old
  BY <1>1
<1> HIDE DEF old
<1>5. Cardinality(old \cup {last}) = Cardinality(old) + 1
  BY <1>3, <1>4, FS_AddElement
<1> QED
  BY <1>2, <1>5 DEF LogCount, old

\* record_attempt adds one to each number that counts the attempt.
LEMMA RecordCounts ==
  ASSUME TypeOK, CountsFromLog, NEW a \in Attempts, NEW hit, RecordAttempt(a, hit)
  PROVE  CountsFromLog'
<1>1. log' = Append(log, a) /\ a.record \in Records /\ a.mode \in Modes
  BY DEF RecordAttempt, Attempts
<1>2. ASSUME NEW A
      PROVE  /\ LogCount(A)' = IF a \in A THEN LogCount(A) + 1 ELSE LogCount(A)
             /\ LogCount(A) \in Nat
  BY <1>1, LogCountStep, LogCountType
<1>3. ASSUME NEW c \in CounterNames \ {"possible_cache_hits"}
      PROVE  counters'[c] = LogCount(Counting(c))'
  <2>1. counters'[c] = IF c \in CountersOf(a) THEN counters[c] + 1 ELSE counters[c]
    BY <1>3 DEF RecordAttempt, Bump, TypeOK
  <2>2. a \in Counting(c) <=> c \in CountersOf(a)
    BY DEF Counting
  <2>3. LogCount(Counting(c))' = IF a \in Counting(c) THEN LogCount(Counting(c)) + 1
                                 ELSE LogCount(Counting(c))
    BY <1>1, LogCountStep
  <2> QED
    BY <1>3, <2>1, <2>2, <2>3 DEF CountsFromLog
<1>4. ASSUME NEW n \in NoiseTypes
      PROVE  noiseCounts'[n] = LogCount(WithNoise(n))'
  <2>1. noiseCounts'[n] = IF a.noise = n THEN noiseCounts[n] + 1 ELSE noiseCounts[n]
    BY <1>4 DEF RecordAttempt, Bump, TypeOK
  <2>2. a \in WithNoise(n) <=> a.noise = n
    BY DEF WithNoise
  <2>3. LogCount(WithNoise(n))' = IF a \in WithNoise(n) THEN LogCount(WithNoise(n)) + 1
                                  ELSE LogCount(WithNoise(n))
    BY <1>1, LogCountStep
  <2> QED
    BY <1>4, <2>1, <2>2, <2>3 DEF CountsFromLog
<1>5. ASSUME NEW r \in Records, NEW c \in RecordCounterNames
      PROVE  perRecord'[r][c] = LogCount(RecordCounting(r, c))'
  <2>1. perRecord'[r][c] = IF a.record = r /\ c \in RecordCountersOf(a)
                           THEN perRecord[r][c] + 1 ELSE perRecord[r][c]
    <3>1. perRecord' = [perRecord EXCEPT ![a.record] = Bump(@, RecordCountersOf(a))]
      BY DEF RecordAttempt
    <3>2. DOMAIN perRecord = Records /\ DOMAIN perRecord[r] = RecordCounterNames
      BY DEF TypeOK
    <3>3. CASE r = a.record
      <4>1. perRecord'[r] = Bump(perRecord[r], RecordCountersOf(a))
        BY <1>1, <3>1, <3>2, <3>3
      <4> QED
        BY <3>2, <3>3, <4>1 DEF Bump
    <3>4. CASE r # a.record
      BY <3>1, <3>2, <3>4
    <3> QED
      BY <3>3, <3>4
  <2>2. a \in RecordCounting(r, c) <=> a.record = r /\ c \in RecordCountersOf(a)
    BY DEF RecordCounting
  <2>3. LogCount(RecordCounting(r, c))' =
          IF a \in RecordCounting(r, c) THEN LogCount(RecordCounting(r, c)) + 1
          ELSE LogCount(RecordCounting(r, c))
    BY <1>1, LogCountStep
  <2> QED
    BY <1>5, <2>1, <2>2, <2>3 DEF CountsFromLog
<1>6. ASSUME NEW r \in Records, NEW m \in Modes
      PROVE  /\ lookups'[r][m] = LogCount(LookupsOf(r, m))'
             /\ timeouts'[r][m] = LogCount(TimeoutsOf(r, m))'
  <2>1. ASSUME NEW f \in [Records -> [Modes -> Nat]]
        PROVE  [f EXCEPT ![a.record][a.mode] = @ + 1][r][m] =
                 IF a.record = r /\ a.mode = m THEN f[r][m] + 1 ELSE f[r][m]
    BY <1>1
  <2>2. lookups \in [Records -> [Modes -> Nat]] /\ timeouts \in [Records -> [Modes -> Nat]]
    BY DEF TypeOK
  <2>3. lookups'[r][m] = IF ~a.probe /\ a.record = r /\ a.mode = m THEN lookups[r][m] + 1
                         ELSE lookups[r][m]
    BY <2>1, <2>2 DEF RecordAttempt
  <2>4. timeouts'[r][m] = IF ~a.probe /\ a.outcome = "timeout" /\ a.record = r /\ a.mode = m
                          THEN timeouts[r][m] + 1 ELSE timeouts[r][m]
    BY <2>1, <2>2 DEF RecordAttempt
  <2>5. /\ a \in LookupsOf(r, m) <=> ~a.probe /\ a.record = r /\ a.mode = m
        /\ a \in TimeoutsOf(r, m) <=>
             ~a.probe /\ a.outcome = "timeout" /\ a.record = r /\ a.mode = m
    BY DEF LookupsOf, TimeoutsOf
  <2>6. /\ LogCount(LookupsOf(r, m))' = IF a \in LookupsOf(r, m) THEN LogCount(LookupsOf(r, m)) + 1
                                        ELSE LogCount(LookupsOf(r, m))
        /\ LogCount(TimeoutsOf(r, m))' = IF a \in TimeoutsOf(r, m) THEN LogCount(TimeoutsOf(r, m)) + 1
                                         ELSE LogCount(TimeoutsOf(r, m))
    BY <1>1, LogCountStep
  <2>7. lookups[r][m] = LogCount(LookupsOf(r, m)) /\ timeouts[r][m] = LogCount(TimeoutsOf(r, m))
    BY DEF CountsFromLog
  <2> QED
    BY <2>3, <2>4, <2>5, <2>6, <2>7
<1> QED
  BY <1>3, <1>4, <1>5, <1>6 DEF CountsFromLog

\* A test starts with an empty log and all numbers zero.
LEMMA StoreInit ==
  ASSUME Init
  PROVE  StoreInv
<1>1. log = <<>> /\ DOMAIN log = {}
  BY DEF Init
<1>2. ASSUME NEW A
      PROVE  LogCount(A) = 0
  <2>1. {i \in DOMAIN log : log[i] \in A} = {}
    BY <1>1
  <2> QED
    BY <2>1, FS_EmptySet DEF LogCount
<1>3. CountsFromLog
  BY <1>2 DEF Init, CountsFromLog
<1> QED
  BY <1>1, <1>3 DEF StoreInv, ProbesAreSearchNoise, LogIsPast

\* The end of a lookup or a probe keeps the invariant of the store.
LEMMA RecordKeepsStore ==
  ASSUME TypeOK, StoreInv, NEW a \in Attempts, NEW hit, RecordAttempt(a, hit),
         a.probe <=> a.noise \in SearchNoise, a.at = now, now' = now
  PROVE  StoreInv'
<1>1. /\ Len(log) \in Nat /\ DOMAIN log = 1..Len(log) /\ DOMAIN log' = 1..(Len(log) + 1)
      /\ \A i \in 1..Len(log) : log'[i] = log[i]
      /\ log'[Len(log) + 1] = a
  BY AppendProperties DEF TypeOK, RecordAttempt
<1>2. \A i \in DOMAIN log' : (i \in DOMAIN log /\ log'[i] = log[i]) \/ log'[i] = a
  BY <1>1
<1>3. ProbesAreSearchNoise'
  BY <1>2 DEF StoreInv, ProbesAreSearchNoise
<1>4. LogIsPast'
  <2>1. now \in Nat
    BY DEF TypeOK
  <2> QED
    BY <1>2, <2>1 DEF StoreInv, LogIsPast
<1> QED
  BY <1>3, <1>4, RecordCounts DEF StoreInv

\* The invariant of the store is kept by every step.
LEMMA StoreStep ==
  ASSUME IInv, StoreInv, [Next]_vars
  PROVE  StoreInv'
<1>1. ASSUME NEW q \in Queries, NEW outcome \in Outcomes, NEW latency \in Latencies,
             AnswerLookup(q, outcome, latency)
      PROVE  StoreInv'
  <2> DEFINE item == WorkItem(q)
             a == [record |-> item.record, type |-> item.type, mode |-> item.mode,
                   probe |-> FALSE, outcome |-> outcome, noise |-> LookupNoise(item, outcome),
                   latency |-> latency, at |-> now]
  <2>1. item \in Items
    BY WorkItemType
  <2>2. now \in Nat /\ latency \in Nat /\ now' = now
    BY <1>1, ConstantsAssumption DEF IInv, TypeOK, AnswerLookup
  <2>3. LookupNoise(item, outcome) \in (NoiseTypes \cup {"none"}) \ SearchNoise
    BY DEF LookupNoise, NoiseTypes, SearchNoise
  <2>4. a \in Attempts /\ a.at = now /\ (a.probe <=> a.noise \in SearchNoise)
    BY <2>1, <2>2, <2>3 DEF Attempts, Items
  <2>5. RecordAttempt(a, IsCacheHit(item, latency))
    BY <1>1 DEF AnswerLookup
  <2> HIDE DEF a, item
  <2> QED
    BY <2>2, <2>4, <2>5, RecordKeepsStore DEF IInv
<1>2. ASSUME NEW q \in Queries, NEW outcome \in Outcomes, AnswerProbe(q, outcome)
      PROVE  StoreInv'
  <2> DEFINE item == WorkItem(q)
             a == [record |-> item.record, type |-> item.type, mode |-> item.mode,
                   probe |-> TRUE, outcome |-> outcome, noise |-> ProbeNoise(outcome),
                   latency |-> 0, at |-> now]
  <2>1. item \in Items
    BY WorkItemType
  <2>2. now \in Nat /\ now' = now
    BY <1>2 DEF IInv, TypeOK, AnswerProbe
  <2>3. ProbeNoise(outcome) \in NoiseTypes \cap SearchNoise
    BY DEF ProbeNoise, NoiseTypes, SearchNoise
  <2>4. a \in Attempts /\ a.at = now /\ (a.probe <=> a.noise \in SearchNoise)
    BY <2>1, <2>2, <2>3 DEF Attempts, Items
  <2>5. RecordAttempt(a, FALSE)
    BY <1>2 DEF AnswerProbe
  <2> HIDE DEF a, item
  <2> QED
    BY <2>2, <2>4, <2>5, RecordKeepsStore DEF IInv
<1>3. CASE UNCHANGED storeVars /\ (now' = now \/ now' = now + 1)
  <2>1. CountsFromLog' /\ ProbesAreSearchNoise'
    BY <1>3 DEF storeVars, StoreInv, CountsFromLog, ProbesAreSearchNoise, LogCount
  <2>2. LogIsPast'
    <3>1. now \in Nat /\ now <= now'
      BY <1>3 DEF IInv, TypeOK
    <3>2. \A i \in DOMAIN log : log[i].at \in Nat
      <4>1. \A i \in DOMAIN log : log[i] \in Attempts
        BY DEF IInv, TypeOK
      <4> QED
        BY <4>1 DEF Attempts
    <3>3. log' = log /\ DOMAIN log' = DOMAIN log /\ now' \in Nat
      BY <1>3, <3>1 DEF storeVars
    <3> QED
      BY <3>1, <3>2, <3>3 DEF StoreInv, LogIsPast
  <2> QED
    BY <2>1, <2>2 DEF StoreInv
<1> QED
  BY <1>1, <1>2, <1>3 DEF Next, Ask, Tick, vars

\* The lists of the configuration are finite.
LEMMA ListsAreFinite ==
  /\ IsFiniteSet(Records) /\ IsFiniteSet(Modes)
  /\ IsFiniteSet(Types) /\ Cardinality(Types) <= Len(TypeList)
<1>1. ASSUME NEW S, NEW s \in Seq(S)
      PROVE  IsFiniteSet(Range(s)) /\ Cardinality(Range(s)) <= Len(s)
  <2>1. Len(s) \in Nat /\ DOMAIN s = 1..Len(s)
    OBVIOUS
  <2>2. 1 \in Int /\ Len(s) \in Int
    BY <2>1
  <2>3. IsFiniteSet(1..Len(s)) /\ Cardinality(1..Len(s)) = Len(s)
    <3>1. IsFiniteSet(1..Len(s)) /\ Cardinality(1..Len(s)) = IF 1 > Len(s) THEN 0 ELSE Len(s) - 1 + 1
      BY <2>2, FS_Interval, Zenon
    <3> QED
      BY <2>1, <3>1
  <2>4. s \in Surjection(1..Len(s), Range(s))
    BY <2>1 DEF Range, Surjection
  <2> QED
    BY <2>3, <2>4, FS_Surjection
<1> QED
  BY <1>1, ConstantsAssumption DEF Records, Modes, Types

\* A number kept for each value of a key shares out the attempts by that key.
LEMMA Shares ==
  ASSUME TypeOK, NEW A \in SUBSET Attempts, NEW K, IsFiniteSet(K), NEW key \in [A -> K],
         NEW f, DOMAIN f = K, f = [k \in K |-> f[k]],
         \A k \in K : f[k] = LogCount({a \in A : key[a] = k})
  PROVE  SumOf(f) = LogCount(A)
<1> DEFINE I == {i \in DOMAIN log : log[i] \in A}
           keyAt == [i \in I |-> key[log[i]]]
<1>1. IsFiniteSet(I) /\ keyAt \in [I -> K]
  BY LogCountType
<1>2. ASSUME NEW k \in K
      PROVE  f[k] = Cardinality({i \in I : keyAt[i] = k})
  <2>1. {i \in DOMAIN log : log[i] \in {a \in A : key[a] = k}} = {i \in I : keyAt[i] = k}
    OBVIOUS
  <2> QED
    BY <2>1 DEF LogCount
<1>3. f = [k \in K |-> Cardinality({i \in I : keyAt[i] = k})]
  BY <1>2
<1>4. LogCount(A) = Cardinality(I)
  BY DEF LogCount
<1> HIDE DEF I, keyAt
<1> QED
  BY <1>1, <1>3, <1>4, SumOfFibres

\* Two kinds of attempts are counted apart.
LEMMA CountApart ==
  ASSUME TypeOK, NEW A, NEW B, A \cap B = {}
  PROVE  LogCount(A \cup B) = LogCount(A) + LogCount(B)
<1> DEFINE I == {i \in DOMAIN log : log[i] \in A}
           J == {i \in DOMAIN log : log[i] \in B}
<1>1. IsFiniteSet(I) /\ IsFiniteSet(J) /\ Cardinality(I) \in Nat /\ Cardinality(J) \in Nat
  BY LogCountType DEF LogCount
<1>2. I \cap J = {} /\ {i \in DOMAIN log : log[i] \in A \cup B} = I \cup J
  OBVIOUS
<1>3. LogCount(A) = Cardinality(I) /\ LogCount(B) = Cardinality(J)
      /\ LogCount(A \cup B) = Cardinality(I \cup J)
  BY <1>2 DEF LogCount
<1> HIDE DEF I, J
<1>4. Cardinality(I \cup J) = Cardinality(I) + Cardinality(J) - Cardinality(I \cap J)
  BY <1>1, FS_Union
<1>5. Cardinality(I \cap J) = 0
  BY <1>2, FS_EmptySet
<1> QED
  BY <1>1, <1>3, <1>4, <1>5

\* More kinds of attempts are at least as many.
LEMMA CountMore ==
  ASSUME TypeOK, NEW A, NEW B, A \subseteq B
  PROVE  LogCount(A) <= LogCount(B)
<1> DEFINE I == {i \in DOMAIN log : log[i] \in A}
           J == {i \in DOMAIN log : log[i] \in B}
<1>1. IsFiniteSet(J) /\ I \in SUBSET J
  BY LogCountType
<1>2. LogCount(A) = Cardinality(I) /\ LogCount(B) = Cardinality(J)
  BY DEF LogCount
<1> HIDE DEF I, J
<1> QED
  BY <1>1, <1>2, FS_Subset

\* What an attempt is made of.
LEMMA AttemptFields ==
  ASSUME NEW a \in Attempts
  PROVE  /\ a.record \in Records /\ a.type \in Types /\ a.mode \in Modes
         /\ a.probe \in BOOLEAN /\ a.outcome \in Outcomes /\ a.outcome \in AllOutcomes
         /\ a.noise \in NoiseTypes \cup {"none"} /\ a.latency \in Nat /\ a.at \in Nat
BY ConstantsAssumption DEF Attempts

\* Which attempts a counter counts, and that it does.
LEMMA CountersCount ==
  ASSUME TypeOK, StoreInv
  PROVE  /\ \A c \in {"total", "success", "nxdomain", "timeout", "error", "noisy"} \cup Types \cup Modes :
              counters[c] = LogCount(Counting(c))
         /\ Counting("total") = Attempts
         /\ Counting("noisy") = {a \in Attempts : a.noise # "none"}
         /\ Counting("nxdomain") = {a \in Attempts : a.outcome = "nxdomain"}
         /\ Counting("success") = {a \in Attempts : IsSuccess(a.outcome)}
         /\ Counting("timeout") = {a \in Attempts : a.outcome = "timeout"}
         /\ Counting("error") = {a \in Attempts : a.outcome = "error"}
         /\ \A t \in Types : Counting(t) = {a \in Attempts : a.type = t}
         /\ \A m \in Modes : Counting(m) = {a \in Attempts : a.mode = m}
<1>1. ASSUME NEW c \in {"total", "success", "nxdomain", "timeout", "error", "noisy"} \cup Types \cup Modes
      PROVE  counters[c] = LogCount(Counting(c))
  <2>1. c \in CounterNames \ {"possible_cache_hits"}
    BY NamesAssumption DEF CounterNames
  <2> QED
    BY <2>1 DEF StoreInv, CountsFromLog
<1> QED
  BY <1>1, AttemptFields, NamesAssumption DEF Counting, CountersOf, IsSuccess, AllOutcomes

\* The lookups of a record, by mode, are those in the log.
LEMMA LookupsCount ==
  ASSUME TypeOK, StoreInv, NEW r \in Records
  PROVE  SumOf(lookups[r]) = LogCount({a \in Attempts : ~a.probe /\ a.record = r})
<1> DEFINE A == {a \in Attempts : ~a.probe /\ a.record = r}
           key == [a \in A |-> a.mode]
           f == lookups[r]
<1>1. A \in SUBSET Attempts /\ key \in [A -> Modes]
  BY AttemptFields
<1>2. DOMAIN f = Modes /\ f = [m \in Modes |-> f[m]]
  <2>1. f \in [Modes -> Nat]
    BY DEF TypeOK
  <2> QED
    BY <2>1
<1>3. \A m \in Modes : f[m] = LogCount({a \in A : key[a] = m})
  <2> TAKE m \in Modes
  <2>1. {a \in A : key[a] = m} = LookupsOf(r, m)
    BY DEF LookupsOf
  <2> QED
    BY <2>1 DEF StoreInv, CountsFromLog
<1> HIDE DEF A, key, f
<1>4. SumOf(f) = LogCount(A)
  BY <1>1, <1>2, <1>3, Shares, ListsAreFinite
<1> QED
  BY <1>4 DEF A, f

\* The numbers add up because each counts attempts, and because outcomes, types, modes,
\* records and kinds of noise are keys that share them out.
LEMMA CountsAddUp ==
  ASSUME TypeOK, StoreInv
  PROVE  StoreAddsUp
<1> DEFINE Noisy == {a \in Attempts : a.noise # "none"}
           Nxdomain == {a \in Attempts : a.outcome = "nxdomain"}
           Errors == {a \in Attempts : a.outcome \in ErrorOutcomes}
           Lookups == {a \in Attempts : ~a.probe}
           byRecord(A) == [a \in A |-> a.record]
<1>1. CountsFromLog
  BY DEF StoreInv
<1>2. ASSUME NEW c \in {"total", "success", "nxdomain", "timeout", "error", "noisy"} \cup Types \cup Modes
      PROVE  counters[c] = LogCount(Counting(c))
  BY CountersCount
<1>3. /\ Counting("total") = Attempts
      /\ Counting("noisy") = Noisy
      /\ Counting("nxdomain") = Nxdomain
      /\ Counting("success") = {a \in Attempts : IsSuccess(a.outcome)}
      /\ Counting("timeout") = {a \in Attempts : a.outcome = "timeout"}
      /\ Counting("error") = {a \in Attempts : a.outcome = "error"}
      /\ \A t \in Types : Counting(t) = {a \in Attempts : a.type = t}
      /\ \A m \in Modes : Counting(m) = {a \in Attempts : a.mode = m}
  BY CountersCount
<1>4. counters["total"] = LogCount(Attempts)
  BY <1>2, <1>3
<1>5. counters["total"] = CountersFor({"success", "nxdomain", "timeout", "error"})
  <2> DEFINE K == {"success", "nxdomain", "timeout", "error"}
             key == [a \in Attempts |-> IF IsSuccess(a.outcome) THEN "success" ELSE a.outcome]
             f == [c \in K |-> counters[c]]
  <2>1. IsFiniteSet(K)
    <3>1. IsFiniteSet({"success"} \cup {"nxdomain"}) /\ IsFiniteSet({"timeout"} \cup {"error"})
      BY FS_Singleton, FS_Union
    <3>2. K = ({"success"} \cup {"nxdomain"}) \cup ({"timeout"} \cup {"error"})
      OBVIOUS
    <3> HIDE DEF K
    <3> QED
      BY <3>1, <3>2, FS_Union
  <2>2. key \in [Attempts -> K]
    BY AttemptFields DEF IsSuccess, AllOutcomes
  <2>3. \A c \in K : {a \in Attempts : key[a] = c} = Counting(c)
    BY <1>3 DEF IsSuccess
  <2>4. \A c \in K : f[c] = LogCount({a \in Attempts : key[a] = c})
    BY <1>2, <2>3
  <2>5. CountersFor(K) = SumOf(f)
    BY DEF CountersFor
  <2>6. DOMAIN f = K /\ f = [k \in K |-> f[k]]
    OBVIOUS
  <2>7. SumOf(f) = LogCount(Attempts)
    <3> HIDE DEF K, key, f
    <3> QED
      BY <2>1, <2>2, <2>4, <2>6, Shares
  <2> QED
    BY <1>4, <2>5, <2>7
<1>6. counters["total"] = CountersFor(Types)
  <2> DEFINE key == [a \in Attempts |-> a.type]
             f == [c \in Types |-> counters[c]]
  <2>1. key \in [Attempts -> Types] /\ DOMAIN f = Types /\ f = [k \in Types |-> f[k]]
    BY AttemptFields
  <2>2. \A c \in Types : f[c] = LogCount({a \in Attempts : key[a] = c})
    <3> TAKE c \in Types
    <3>1. {a \in Attempts : key[a] = c} = Counting(c)
      BY <1>3
    <3> QED
      BY <1>2, <3>1
  <2>3. CountersFor(Types) = SumOf(f)
    BY DEF CountersFor
  <2> HIDE DEF key, f
  <2>4. SumOf(f) = LogCount(Attempts)
    BY <2>1, <2>2, Shares, ListsAreFinite
  <2> QED
    BY <1>4, <2>3, <2>4
<1>7. counters["total"] = CountersFor(Modes)
  <2> DEFINE key == [a \in Attempts |-> a.mode]
             f == [c \in Modes |-> counters[c]]
  <2>1. key \in [Attempts -> Modes] /\ DOMAIN f = Modes /\ f = [k \in Modes |-> f[k]]
    BY AttemptFields
  <2>2. \A c \in Modes : f[c] = LogCount({a \in Attempts : key[a] = c})
    <3> TAKE c \in Modes
    <3>1. {a \in Attempts : key[a] = c} = Counting(c)
      BY <1>3
    <3> QED
      BY <1>2, <3>1
  <2>3. CountersFor(Modes) = SumOf(f)
    BY DEF CountersFor
  <2> HIDE DEF key, f
  <2>4. SumOf(f) = LogCount(Attempts)
    BY <2>1, <2>2, Shares, ListsAreFinite
  <2> QED
    BY <1>4, <2>3, <2>4
<1>8. ASSUME NEW c \in RecordCounterNames, NEW A \in SUBSET Attempts,
             \A r \in Records : RecordCounting(r, c) = {a \in A : a.record = r}
      PROVE  Summed(c) = LogCount(A)
  <2> DEFINE key == [a \in A |-> a.record]
             f == [r \in Records |-> perRecord[r][c]]
  <2>1. key \in [A -> Records] /\ DOMAIN f = Records /\ f = [r \in Records |-> f[r]]
    BY AttemptFields
  <2>2. \A r \in Records : f[r] = LogCount({a \in A : key[a] = r})
    <3> TAKE r \in Records
    <3>1. {a \in A : key[a] = r} = RecordCounting(r, c)
      BY <1>8
    <3> QED
      BY <1>1, <3>1 DEF CountsFromLog
  <2>3. Summed(c) = SumOf(f)
    BY DEF Summed
  <2> HIDE DEF key, f
  <2> QED
    BY <2>1, <2>2, <2>3, Shares, ListsAreFinite
<1>9. /\ {"total_queries", "errors", "nxdomains", "search_suffix_nxdomain_count"} \subseteq RecordCounterNames
      /\ \A r \in Records :
           /\ RecordCounting(r, "total_queries") = {a \in Attempts : a.record = r}
           /\ RecordCounting(r, "nxdomains") = {a \in Nxdomain : a.record = r}
           /\ RecordCounting(r, "errors") = {a \in Errors : a.record = r}
           /\ RecordCounting(r, "search_suffix_nxdomain_count") =
                {a \in WithNoise("search_suffix_nxdomain") : a.record = r}
  <2>1. \A a \in Attempts : a.type \notin {"total_queries", "errors", "nxdomains",
                                           "noisy_system_resolves", "search_suffix_nxdomain_count"}
    BY AttemptFields, NamesAssumption
  <2> QED
    BY <2>1 DEF RecordCounterNames, RecordCounting, RecordCountersOf, WithNoise
<1>10. counters["total"] = Summed("total_queries")
  BY <1>4, <1>8, <1>9
<1>11. counters["nxdomain"] = Summed("nxdomains")
  BY <1>2, <1>3, <1>8, <1>9
<1>12. counters["timeout"] + counters["error"] = Summed("errors")
  <2>1. Counting("timeout") \cup Counting("error") = Errors /\ Counting("timeout") \cap Counting("error") = {}
    BY <1>3 DEF ErrorOutcomes
  <2>2. LogCount(Errors) = LogCount(Counting("timeout")) + LogCount(Counting("error"))
    BY <2>1, CountApart
  <2> QED
    BY <1>2, <1>8, <1>9, <2>2
<1>13. counters["noisy"] = SumOf(noiseCounts)
  <2> DEFINE key == [a \in Noisy |-> a.noise]
  <2>1. key \in [Noisy -> NoiseTypes] /\ Noisy \in SUBSET Attempts
    BY AttemptFields
  <2>2. \A n \in NoiseTypes : noiseCounts[n] = LogCount({a \in Noisy : key[a] = n})
    <3> TAKE n \in NoiseTypes
    <3>1. {a \in Noisy : key[a] = n} = WithNoise(n)
      BY DEF WithNoise, NoiseTypes
    <3> QED
      BY <1>1, <3>1 DEF CountsFromLog
  <2>3. IsFiniteSet(NoiseTypes)
    <3>1. IsFiniteSet({"search_suffix_query"}) /\ IsFiniteSet({"search_suffix_nxdomain"})
          /\ IsFiniteSet({"duplicate_query"}) /\ IsFiniteSet({"empty_answer"})
          /\ IsFiniteSet({"aaaa_noise"})
      BY FS_Singleton
    <3>2. NoiseTypes = {"search_suffix_query"} \cup {"search_suffix_nxdomain"}
                         \cup {"duplicate_query"} \cup {"empty_answer"} \cup {"aaaa_noise"}
      BY DEF NoiseTypes
    <3> QED
      BY <3>1, <3>2, FS_Union
  <2>4. DOMAIN noiseCounts = NoiseTypes /\ noiseCounts = [n \in NoiseTypes |-> noiseCounts[n]]
    BY DEF TypeOK
  <2>5. counters["noisy"] = LogCount(Noisy)
    BY <1>2, <1>3
  <2> HIDE DEF key, Noisy
  <2> QED
    BY <2>1, <2>2, <2>3, <2>4, <2>5, Shares
<1>14. noiseCounts["search_suffix_nxdomain"] = Summed("search_suffix_nxdomain_count")
  <2>1. WithNoise("search_suffix_nxdomain") \in SUBSET Attempts
    BY DEF WithNoise
  <2>2. noiseCounts["search_suffix_nxdomain"] = LogCount(WithNoise("search_suffix_nxdomain"))
    BY <1>1 DEF CountsFromLog, NoiseTypes
  <2> QED
    BY <1>8, <1>9, <2>1, <2>2
<1>15. ASSUME NEW r \in Records
       PROVE  SumOf(lookups[r]) = LogCount({a \in Lookups : a.record = r})
  <2>1. {a \in Lookups : a.record = r} = {a \in Attempts : ~a.probe /\ a.record = r}
    OBVIOUS
  <2> QED
    BY <2>1, LookupsCount
<1>16. SumOf([r \in Records |-> SumOf(lookups[r])]) = LogCount(Lookups)
  <2> DEFINE key == [a \in Lookups |-> a.record]
             f == [r \in Records |-> SumOf(lookups[r])]
  <2>1. Lookups \in SUBSET Attempts /\ key \in [Lookups -> Records]
        /\ DOMAIN f = Records /\ f = [r \in Records |-> f[r]]
    BY AttemptFields
  <2>2. \A r \in Records : f[r] = LogCount({a \in Lookups : key[a] = r})
    BY <1>15
  <2> HIDE DEF key, f, Lookups
  <2>3. SumOf(f) = LogCount(Lookups)
    BY <2>1, <2>2, Shares, ListsAreFinite
  <2> QED
    BY <2>3 DEF f
<1>17. counters["total"] = SumOf([r \in Records |-> SumOf(lookups[r])])
         + noiseCounts["search_suffix_query"] + noiseCounts["search_suffix_nxdomain"]
  <2> DEFINE Probes == {a \in Attempts : a.probe}
             OfSearch == WithNoise("search_suffix_query") \cup WithNoise("search_suffix_nxdomain")
  <2>1. Lookups \cup Probes = Attempts /\ Lookups \cap Probes = {}
    BY AttemptFields
  <2>2. LogCount(Attempts) = LogCount(Lookups) + LogCount(Probes)
    <3> HIDE DEF Lookups, Probes
    <3> QED
      BY <2>1, CountApart
  <2>3. LogCount(Probes) = LogCount(OfSearch)
    <3>1. \A i \in DOMAIN log : log[i] \in Attempts
      BY DEF TypeOK
    <3>2. {i \in DOMAIN log : log[i] \in Probes} = {i \in DOMAIN log : log[i] \in OfSearch}
      BY <3>1 DEF StoreInv, ProbesAreSearchNoise, SearchNoise, WithNoise
    <3> QED
      BY <3>2 DEF LogCount
  <2>4. LogCount(OfSearch) = LogCount(WithNoise("search_suffix_query"))
                               + LogCount(WithNoise("search_suffix_nxdomain"))
    <3>1. WithNoise("search_suffix_query") \cap WithNoise("search_suffix_nxdomain") = {}
      BY DEF WithNoise
    <3> QED
      BY <3>1, CountApart
  <2>5. /\ noiseCounts["search_suffix_query"] = LogCount(WithNoise("search_suffix_query"))
        /\ noiseCounts["search_suffix_nxdomain"] = LogCount(WithNoise("search_suffix_nxdomain"))
    BY <1>1 DEF CountsFromLog, NoiseTypes
  <2>6. /\ LogCount(Lookups) \in Nat /\ LogCount(WithNoise("search_suffix_query")) \in Nat
        /\ LogCount(WithNoise("search_suffix_nxdomain")) \in Nat
    BY LogCountType
  <2> QED
    BY <1>4, <1>16, <2>2, <2>3, <2>4, <2>5, <2>6
<1>18. \A r \in Records, m \in Modes : timeouts[r][m] <= lookups[r][m]
  <2> TAKE r \in Records, m \in Modes
  <2>1. TimeoutsOf(r, m) \subseteq LookupsOf(r, m)
    BY DEF TimeoutsOf
  <2>2. LogCount(TimeoutsOf(r, m)) <= LogCount(LookupsOf(r, m))
    BY <2>1, CountMore
  <2> QED
    BY <1>1, <2>2 DEF CountsFromLog
<1> QED
  BY <1>5, <1>6, <1>7, <1>10, <1>11, <1>12, <1>13, <1>14, <1>17, <1>18 DEF StoreAddsUp

-----------------------------------------------------------------------------
(* Names that failed with the search list and succeeded without it.         *)

\* The type and the record of an attempt.
NameOf(a) == <<a.type, a.record>>
FailedSearches == {a \in Attempts : UsesSearch(a.mode) /\ a.outcome \in FailedOutcomes}
FqdnAnswers == {a \in Attempts : ~UsesSearch(a.mode) /\ IsSuccess(a.outcome)}
NamesOf(A) == {NameOf(log[i]) : i \in {i \in DOMAIN log : log[i] \in A}}

\* Probes are made only by tasks that use the search list, if it is not empty.
ProbesUseSearch ==
  /\ \A q \in Queries : stage[q] = "probing" => UsesSearch(WorkItem(q).mode) /\ Suffixes > 0
  /\ \A i \in DOMAIN log : log[i].probe => UsesSearch(log[i].mode) /\ Suffixes > 0

NamesFromLog ==
  systemFailures = NamesOf(FailedSearches) /\ fqdnSuccesses = NamesOf(FqdnAnswers)

EventualInv == ProbesUseSearch /\ NamesFromLog

\* An attempt adds its name to the names of its kind.
LEMMA NamesStep ==
  ASSUME TypeOK, NEW a \in Attempts, log' = Append(log, a), NEW A
  PROVE  NamesOf(A)' = IF a \in A THEN NamesOf(A) \cup {NameOf(a)} ELSE NamesOf(A)
<1>1. /\ Len(log) \in Nat /\ DOMAIN log = 1..Len(log) /\ DOMAIN log' = 1..(Len(log) + 1)
      /\ \A i \in 1..Len(log) : log'[i] = log[i]
      /\ log'[Len(log) + 1] = a
  BY AppendProperties DEF TypeOK
<1>2. {i \in DOMAIN log' : log'[i] \in A} =
        {i \in DOMAIN log : log[i] \in A} \cup (IF a \in A THEN {Len(log) + 1} ELSE {})
  BY <1>1
<1>3. \A i \in DOMAIN log : NameOf(log'[i]) = NameOf(log[i])
  BY <1>1
<1>4. NameOf(log'[Len(log) + 1]) = NameOf(a)
  BY <1>1
<1>5. NamesOf(A)' = {NameOf(log'[i]) : i \in {i \in DOMAIN log' : log'[i] \in A}}
  BY DEF NamesOf, NameOf
<1>6. NamesOf(A) = {NameOf(log[i]) : i \in {i \in DOMAIN log : log[i] \in A}}
  BY DEF NamesOf
<1>7. CASE a \in A
  BY <1>2, <1>3, <1>4, <1>5, <1>6, <1>7
<1>8. CASE a \notin A
  BY <1>2, <1>3, <1>5, <1>6, <1>8
<1> QED
  BY <1>7, <1>8

\* A test starts without names and without probes.
LEMMA EventualInit ==
  ASSUME Init
  PROVE  EventualInv
<1>1. log = <<>> /\ DOMAIN log = {}
  BY DEF Init
<1>2. ASSUME NEW A
      PROVE  NamesOf(A) = {}
  BY <1>1 DEF NamesOf
<1> QED
  BY <1>1, <1>2 DEF Init, EventualInv, ProbesUseSearch, NamesFromLog

\* record_attempt keeps the names that failed and those that succeeded.
LEMMA RecordKeepsNames ==
  ASSUME TypeOK, NamesFromLog, NEW a \in Attempts, NEW hit, RecordAttempt(a, hit)
  PROVE  NamesFromLog'
<1>1. /\ NamesOf(FailedSearches)' =
           IF a \in FailedSearches THEN NamesOf(FailedSearches) \cup {NameOf(a)}
                                   ELSE NamesOf(FailedSearches)
      /\ NamesOf(FqdnAnswers)' =
           IF a \in FqdnAnswers THEN NamesOf(FqdnAnswers) \cup {NameOf(a)} ELSE NamesOf(FqdnAnswers)
  BY NamesStep DEF RecordAttempt
<1>2. /\ systemFailures' = IF a \in FailedSearches THEN systemFailures \cup {NameOf(a)}
                                                   ELSE systemFailures
      /\ fqdnSuccesses' = IF a \in FqdnAnswers THEN fqdnSuccesses \cup {NameOf(a)} ELSE fqdnSuccesses
  BY DEF RecordAttempt, FailedSearches, FqdnAnswers, NameOf
<1> QED
  BY <1>1, <1>2 DEF NamesFromLog

\* The names and the probes are kept by every step.
LEMMA EventualStep ==
  ASSUME IInv, EventualInv, [Next]_vars
  PROVE  EventualInv'
<1>1. ASSUME NEW q \in Queries, NEW a \in Attempts, NEW hit, RecordAttempt(a, hit),
             a.probe => UsesSearch(a.mode) /\ Suffixes > 0,
             NEW probes, Proceed(q, probes), probes > 0 => UsesSearch(WorkItem(q).mode) /\ Suffixes > 0
      PROVE  EventualInv'
  <2>1. NamesFromLog'
    BY <1>1, RecordKeepsNames DEF IInv, EventualInv
  <2>2. /\ Len(log) \in Nat /\ DOMAIN log = 1..Len(log) /\ DOMAIN log' = 1..(Len(log) + 1)
        /\ \A i \in 1..Len(log) : log'[i] = log[i]
        /\ log'[Len(log) + 1] = a
    BY <1>1, AppendProperties DEF IInv, TypeOK, RecordAttempt
  <2>3. \A i \in DOMAIN log' : (i \in DOMAIN log /\ log'[i] = log[i]) \/ log'[i] = a
    BY <2>2
  <2>4. \A i \in DOMAIN log' : log'[i].probe => UsesSearch(log'[i].mode) /\ Suffixes > 0
    BY <1>1, <2>3 DEF EventualInv, ProbesUseSearch
  <2>5. \A p \in Queries : stage'[p] = "probing" => UsesSearch(WorkItem(p).mode) /\ Suffixes > 0
    BY <1>1 DEF IInv, TypeOK, Proceed, EventualInv, ProbesUseSearch
  <2>6. ProbesUseSearch'
    BY <2>4, <2>5 DEF ProbesUseSearch, WorkItem, UsesSearch
  <2> QED
    BY <2>1, <2>6 DEF EventualInv
<1>2. ASSUME NEW q \in Queries, NEW outcome \in Outcomes, NEW latency \in Latencies,
             AnswerLookup(q, outcome, latency)
      PROVE  EventualInv'
  <2> DEFINE item == WorkItem(q)
             a == [record |-> item.record, type |-> item.type, mode |-> item.mode,
                   probe |-> FALSE, outcome |-> outcome, noise |-> LookupNoise(item, outcome),
                   latency |-> latency, at |-> now]
             probes == IF UsesSearch(item.mode) /\ ~item.record.dot THEN Suffixes ELSE 0
  <2>1. item \in Items /\ now \in Nat /\ latency \in Nat
    BY WorkItemType, ConstantsAssumption DEF IInv, TypeOK
  <2>2. a \in Attempts /\ ~a.probe
    <3>1. LookupNoise(item, outcome) \in NoiseTypes \cup {"none"}
      BY DEF LookupNoise, NoiseTypes
    <3> QED
      BY <2>1, <3>1 DEF Attempts, Items
  <2>3. RecordAttempt(a, IsCacheHit(item, latency)) /\ Proceed(q, probes)
    BY <1>2 DEF AnswerLookup
  <2>4. probes > 0 => UsesSearch(item.mode) /\ Suffixes > 0
    OBVIOUS
  <2> HIDE DEF a, probes
  <2> QED
    BY <1>1, <2>2, <2>3, <2>4
<1>3. ASSUME NEW q \in Queries, NEW outcome \in Outcomes, AnswerProbe(q, outcome)
      PROVE  EventualInv'
  <2> DEFINE item == WorkItem(q)
             a == [record |-> item.record, type |-> item.type, mode |-> item.mode,
                   probe |-> TRUE, outcome |-> outcome, noise |-> ProbeNoise(outcome),
                   latency |-> 0, at |-> now]
  <2>1. item \in Items /\ now \in Nat
    BY WorkItemType DEF IInv, TypeOK
  <2>2. a \in Attempts /\ a.mode = item.mode
    BY <2>1 DEF Attempts, Items, ProbeNoise, NoiseTypes
  <2>3. RecordAttempt(a, FALSE) /\ Proceed(q, left[q] - 1)
    BY <1>3 DEF AnswerProbe
  <2>4. UsesSearch(item.mode) /\ Suffixes > 0
    BY <1>3 DEF AnswerProbe, EventualInv, ProbesUseSearch
  <2> HIDE DEF a
  <2> QED
    BY <1>1, <2>2, <2>3, <2>4
<1>4. ASSUME NEW q \in Queries, Ask(q)
      PROVE  EventualInv'
  <2>1. \A p \in Queries : stage'[p] = "probing" => stage[p] = "probing"
    BY <1>4 DEF Ask, IInv, TypeOK
  <2>2. ProbesUseSearch'
    BY <1>4, <2>1 DEF Ask, storeVars, EventualInv, ProbesUseSearch, WorkItem, UsesSearch
  <2> QED
    BY <1>4, <2>2 DEF Ask, storeVars, EventualInv, NamesFromLog, NamesOf, NameOf
<1>5. CASE UNCHANGED <<stage, storeVars>>
  BY <1>5 DEF storeVars, EventualInv, ProbesUseSearch, NamesFromLog, NamesOf, NameOf, WorkItem,
    UsesSearch
<1> QED
  BY <1>2, <1>3, <1>4, <1>5 DEF Next, Tick, vars

\* eventual_fqdn_success_count, over all attempts: a search probe that failed counts like a
\* lookup that failed.
EventualFqdnCountsAttempts ==
  EventualFqdnSuccessCount = Cardinality({key \in Types \X Records :
    \E i, j \in DOMAIN log :
      /\ <<log[i].type, log[i].record>> = key
      /\ UsesSearch(log[i].mode) /\ log[i].outcome \in FailedOutcomes
      /\ Lookup(j) /\ <<log[j].type, log[j].record>> = key
      /\ ~UsesSearch(log[j].mode) /\ IsSuccess(log[j].outcome)})

\* The summary counts names with a failed attempt and a lookup that succeeded; without
\* search probes the attempt is a lookup too.
LEMMA NamesAreCounted ==
  ASSUME TypeOK, EventualInv
  PROVE  EventualFqdnCountsAttempts /\ (Suffixes = 0 => EventualFqdnCountsLookups)
<1>1. \A i \in DOMAIN log : log[i] \in Attempts
  BY DEF TypeOK
<1>2. \A i \in DOMAIN log : NameOf(log[i]) \in Types \X Records
  BY <1>1, AttemptFields DEF NameOf
<1>3. \A j \in DOMAIN log : ~UsesSearch(log[j].mode) => Lookup(j)
  BY DEF EventualInv, ProbesUseSearch, Lookup
<1>4. EventualFqdnSuccessCount = Cardinality(NamesOf(FailedSearches) \cap NamesOf(FqdnAnswers))
  BY DEF EventualInv, NamesFromLog, EventualFqdnSuccessCount
<1> DEFINE counted == {key \in Types \X Records :
             \E i, j \in DOMAIN log :
               /\ <<log[i].type, log[i].record>> = key
               /\ UsesSearch(log[i].mode) /\ log[i].outcome \in FailedOutcomes
               /\ Lookup(j) /\ <<log[j].type, log[j].record>> = key
               /\ ~UsesSearch(log[j].mode) /\ IsSuccess(log[j].outcome)}
           looked == {key \in Types \X Records :
             \E i, j \in DOMAIN log :
               /\ Lookup(i) /\ <<log[i].type, log[i].record>> = key
               /\ UsesSearch(log[i].mode) /\ log[i].outcome \in {"nxdomain", "timeout", "error"}
               /\ Lookup(j) /\ <<log[j].type, log[j].record>> = key
               /\ ~UsesSearch(log[j].mode) /\ log[j].outcome \in {"success", "empty"}}
<1>5. \A key : key \in counted <=> key \in NamesOf(FailedSearches) \cap NamesOf(FqdnAnswers)
  <2> TAKE key
  <2>1. key \in NamesOf(FailedSearches) <=>
          \E i \in DOMAIN log : /\ NameOf(log[i]) = key
                                /\ UsesSearch(log[i].mode) /\ log[i].outcome \in FailedOutcomes
    BY <1>1 DEF NamesOf, FailedSearches
  <2>2. key \in NamesOf(FqdnAnswers) <=>
          \E j \in DOMAIN log : /\ NameOf(log[j]) = key
                                /\ ~UsesSearch(log[j].mode) /\ IsSuccess(log[j].outcome)
    BY <1>1 DEF NamesOf, FqdnAnswers
  <2> QED
    BY <1>2, <1>3, <2>1, <2>2 DEF NameOf
<1>6. ASSUME Suffixes = 0
      PROVE  looked = counted
  <2>1. \A i \in DOMAIN log : Lookup(i)
    BY <1>6 DEF EventualInv, ProbesUseSearch, Lookup
  <2> QED
    BY <2>1 DEF FailedOutcomes, IsSuccess
<1>7. counted = NamesOf(FailedSearches) \cap NamesOf(FqdnAnswers)
  <2> HIDE DEF counted
  <2> QED
    BY <1>5
<1>8. EventualFqdnCountsAttempts
  BY <1>4, <1>7 DEF EventualFqdnCountsAttempts
<1>9. ASSUME Suffixes = 0
      PROVE  EventualFqdnCountsLookups
  BY <1>4, <1>6, <1>7, <1>9 DEF EventualFqdnCountsLookups
<1> QED
  BY <1>8, <1>9

-----------------------------------------------------------------------------
(* The theorems.                                                            *)

\* The inductive invariant behind the theorems about _check_duplicate and
\* record_attempt holds in every reachable state.
THEOREM StatsInductive == Spec => []IInv
<1> QED
  BY StatsInit, StatsStep, PTL DEF Spec

\* dns_runner.py, stats_store.py: heuristics and counters stay within their types.
THEOREM StatsTypeCorrect == Spec => []TypeOK
<1>1. IInv => TypeOK
  BY DEF IInv
<1> QED
  BY <1>1, StatsInductive, PTL

\* _check_duplicate: the window has one entry per work item, in the order of time,
\* whatever the rate of queries and the order in which lookups end.
THEOREM WindowSparse == Spec => []WindowIsSparse
<1>1. IInv => WindowIsSparse
  BY DEF IInv
<1> QED
  BY <1>1, StatsInductive, PTL

\* _classify_noise: an attempt marked duplicate_query repeats a lookup that ended
\* within DUPLICATE_WINDOW_SECONDS.
THEOREM DuplicatesRepeat == Spec => []DuplicatesAreRepeats
<1>1. IInv => DuplicatesAreRepeats
  BY DEF IInv
<1> QED
  BY <1>1, StatsInductive, PTL

\* What the two heuristics remember, and what they made of it, agrees with the lookups.
LEMMA HeuristicsInductive == Spec => []HeuristicsInv
<1>1. Init => HeuristicsInv
  BY HeuristicsInit DEF HeuristicsInv
<1>2. IInv /\ HeuristicsInv /\ [Next]_vars => HeuristicsInv'
  BY HeuristicsStep
<1> QED
  BY <1>1, <1>2, StatsInductive, PTL DEF Spec

\* _classify_noise, _resolve: aaaa_noise is given exactly to redundant AAAA lookups that
\* are not noise for another reason, in whatever order concurrent lookups end.
THEOREM AaaaNoiseRedundant == Spec => []AaaaNoiseIsRedundant
<1>1. HeuristicsInv => AaaaNoiseIsRedundant
  BY DEF HeuristicsInv
<1> QED
  BY <1>1, HeuristicsInductive, PTL

\* _check_cache_hit: possible_cache_hits counts the lookups that beat the first one of
\* their name, type and mode, and no others.
THEOREM CacheHitsCounted == Spec => []CacheHitsBeatFirst
<1>1. HeuristicsInv => CacheHitsBeatFirst
  <2> SUFFICES ASSUME HeuristicsInv PROVE CacheHitsBeatFirst
    OBVIOUS
  <2>1. \A i \in DOMAIN log : Hit(i) <=>
          /\ Lookup(i)
          /\ log[i].latency < CacheThreshold
          /\ \E j \in 1..(i - 1) :
               /\ Lookup(j) /\ SameCacheKey(i, j)
               /\ \A k \in 1..(j - 1) : Lookup(k) => ~SameCacheKey(i, k)
               /\ 2 * log[i].latency < log[j].latency
    BY DEF Hit, FirstOf, SameCacheKey
  <2>2. counters["possible_cache_hits"] = Cardinality(Hits)
    BY DEF HeuristicsInv, HitsAreCounted
  <2> QED
    BY <2>1, <2>2 DEF Hits, CacheHitsBeatFirst
<1> QED
  BY <1>1, HeuristicsInductive, PTL

\* The numbers of the store count the attempts of the log.
LEMMA StoreInductive == Spec => []StoreInv
<1>1. Init => StoreInv
  BY StoreInit
<1>2. IInv /\ StoreInv /\ [Next]_vars => StoreInv'
  BY StoreStep
<1> QED
  BY <1>1, <1>2, StatsInductive, PTL DEF Spec

\* record_attempt: the numbers GET /tests/{id} shows add up, in whatever order lookups and
\* probes end, whatever the lists of records, modes and types.
THEOREM StoreTotals == Spec => []StoreAddsUp
<1>1. TypeOK /\ StoreInv => StoreAddsUp
  BY CountsAddUp
<1> QED
  BY <1>1, StatsTypeCorrect, StoreInductive, PTL

\* The sets of names agree with the log.
LEMMA EventualInductive == Spec => []EventualInv
<1>1. Init => EventualInv
  BY EventualInit
<1>2. IInv /\ EventualInv /\ [Next]_vars => EventualInv'
  BY EventualStep
<1> QED
  BY <1>1, <1>2, StatsInductive, PTL DEF Spec

\* build_summary: eventual_fqdn_success_count is the number of names of which an attempt with
\* the search list failed, a probe included, and a lookup without it succeeded.
THEOREM EventualCountsAttempts == Spec => []EventualFqdnCountsAttempts
<1>1. TypeOK /\ EventualInv => EventualFqdnCountsAttempts
  BY NamesAreCounted
<1> QED
  BY <1>1, StatsTypeCorrect, EventualInductive, PTL

\* build_summary: what README.md:263 says of the number holds as long as the search list is
\* empty; with one search domain the run stats_probes shows that it does not.
THEOREM EventualCountsLookups == Suffixes = 0 /\ Spec => []EventualFqdnCountsLookups
<1>1. Suffixes = 0 /\ TypeOK /\ EventualInv => EventualFqdnCountsLookups
  BY NamesAreCounted
<1>2. Suffixes = 0 => [](Suffixes = 0)
  OBVIOUS
<1> QED
  BY <1>1, <1>2, StatsTypeCorrect, EventualInductive, PTL

=============================================================================
