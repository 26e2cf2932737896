---------------------------- MODULE SnapshotsProofs ----------------------------
(***************************************************************************)
(* Proofs about Snapshots, for all sets of tests, retention periods, file  *)
(* limits and numbers of panels, and any number of crashes and faults.     *)
(***************************************************************************)
EXTENDS Snapshots, FiniteSetTheorems, SequenceTheorems, TLAPS

\* The process while it starts, serves and stops; what a save in PostgreSQL relies on.
Memory ==
  /\ phase # "importing" => toImport = {}
  /\ \A f \in toImport : f.whole
  /\ phase = "importing" => backend = "db" /\ pool
  /\ faults = 0 /\ Up /\ backend = "db" => pool
  /\ \A t \in Tests : Saving(t) =>
       /\ Up /\ backend = "db" /\ pool
       /\ t \notin Autonomous => pending[t] = 0
       /\ phase = "closing" => [test |-> t, at |-> draft[t].at] \in late

\* A test never uses the id of a snapshot again.
SavedOnce ==
  /\ IsFiniteSet(disk) /\ IsFiniteSet(saved) /\ UniqueIds(saved)
  /\ \A s \in saved :
       /\ s.at <= s.created /\ s.at <= now
       /\ s.mtime # 0 => s.at = s.created
       /\ s.test \in Autonomous /\ Up => s.at <= since[s.test]
       /\ s.test \notin Autonomous => stage[s.test] = "over"
  /\ \A t \in Tests : Saving(t) =>
       /\ draft[t].at <= draft[t].created /\ draft[t].created <= now
       /\ t \in Autonomous => since[t] < draft[t].at

\* A whole file is a snapshot that was saved.
FilesMatch(files, sv) ==
  \A f \in files : f.whole => \E s \in sv : SameId(f, s) /\ s.mtime = f.mtime /\ f.mtime # 0

\* FilesAreKept, for any files and saves.
FilesKept(files, sv) ==
  \A s \in sv :
    \/ s.mtime = 0
    \/ Expired(s.created)
    \/ \E f \in files : SameId(f, s) /\ f.whole
    \/ Cardinality({n \in sv : n.mtime > s.mtime}) >= Limit

\* A row is a snapshot that was saved, and as old.
RowsMatch == \A r \in rows : \E s \in saved : SameId(r, s) /\ r.created = s.created

\* What the import has done so far.
ImportGoesOn ==
  faults = 0 /\ phase = "importing" => \A f \in disk : f.whole => f \in toImport \/ InDb(f)

IInv ==
  /\ TypeOK /\ Memory /\ SavedOnce
  /\ FilesMatch(disk, saved) /\ FilesKept(disk, saved)
  /\ RowsMatch /\ ImportGoesOn /\ RowsAreKept /\ PartsAgree

-----------------------------------------------------------------------------
(* Files.                                                                   *)

\* A file or row takes the place of one with its id, if there is one.
LEMMA PutKeepsIds ==
  ASSUME NEW S, NEW set \in SUBSET S, NEW x \in S, UniqueIds(set)
  PROVE  Put(set, x) \subseteq S /\ UniqueIds(Put(set, x))
BY DEF Put, UniqueIds, SameId

\* A subset has no ids of its own.
LEMMA SubsetKeepsIds ==
  ASSUME NEW set, UniqueIds(set), NEW sub \in SUBSET set
  PROVE  UniqueIds(sub)
BY DEF UniqueIds

\* What a restart leaves in memory.
LEMMA GoDownType ==
  ASSUME TypeOK, GoDown, disk' \subseteq Files, UniqueIds(disk'), writes' \in Nat,
         UNCHANGED <<rows, faults>>, saved' \subseteq Saves
  PROVE  TypeOK'
<1> USE ConstantsAssumption DEF GoDown, TypeOK
<1>1. 0 \in Clock /\ 0 \in Nat /\ NoDraft \in Drafts
  BY DEF Clock, NoDraft, Drafts
<1>2. stage' \in [Tests -> {"absent", "running", "saving", "writing", "over"}]
  OBVIOUS
<1>3. since' \in [Tests -> Clock] /\ pending' \in [Tests -> Nat] /\ recorded' \in [Tests -> Nat]
      /\ draft' \in [Tests -> Drafts]
  BY <1>1
<1> QED
  BY <1>2, <1>3

\* A start that ends in the first request.
LEMMA ServeType ==
  ASSUME TypeOK, Serve, disk' \subseteq disk, toImport' = {}, rows' \subseteq rows,
         faults' \in 0..MaxFaults, backend' \in Backends, pool' \in BOOLEAN, UNCHANGED historyVars
  PROVE  TypeOK'
<1> USE DEF Serve, TypeOK, historyVars
<1>1. UniqueIds(disk') /\ UniqueIds(rows')
  BY SubsetKeepsIds
<1>2. /\ stage' \in [Tests -> {"absent", "running", "saving", "writing", "over"}]
      /\ since' \in [Tests -> Clock]
  OBVIOUS
<1> QED
  BY <1>1, <1>2

\* What prune removes is out of retention or outnumbered by newer snapshots.
LEMMA PruneKeepsFiles ==
  ASSUME SavedOnce, TypeOK,
         NEW files \in SUBSET Files, IsFiniteSet(files), UniqueIds(files),
         NEW sv \in SUBSET Saves, IsFiniteSet(sv), UniqueIds(sv),
         \A s \in sv : s.mtime # 0 => s.at = s.created,
         FilesMatch(files, sv), FilesKept(files, sv), NEW S \in SUBSET Due(files)
  PROVE  FilesMatch(files \ S, sv) /\ FilesKept(files \ S, sv)
<1>1. FilesMatch(files \ S, sv)
  BY DEF FilesMatch
<1>2. ASSUME NEW s \in sv, s.mtime # 0, ~Expired(s.created),
             NEW f \in S, SameId(f, s), f.whole
      PROVE  Cardinality({n \in sv : n.mtime > s.mtime}) >= Limit
  <2> DEFINE New == Newer(f, files)
             Out == {n \in sv : n.mtime > s.mtime}
             SaveOf(g) == CHOOSE n \in sv : SameId(g, n) /\ n.mtime = g.mtime
             m == [g \in New |-> SaveOf(g)]
  <2>1. f \in files /\ f \in Due(files)
    BY <1>2 DEF Due
  <2>2. f.mtime = s.mtime
    BY <1>2, <2>1 DEF FilesMatch, UniqueIds, SameId
  <2>3. Cardinality(New) >= Limit
    BY <1>2, <2>1 DEF Due, FileExpired, SameId
  <2>4. \A g \in New : g \in files /\ g.whole /\ g.mtime > f.mtime
    BY DEF Newer, Listed
  <2>5. \A g \in New : SaveOf(g) \in sv /\ SameId(g, SaveOf(g)) /\ SaveOf(g).mtime = g.mtime
    BY <2>4 DEF FilesMatch
  <2>6. \A g \in New : SaveOf(g) \in Out
    BY <2>2, <2>4, <2>5
  <2>7. \A g, h \in New : SaveOf(g) = SaveOf(h) => g = h
    BY <2>4, <2>5 DEF UniqueIds, SameId
  <2>8. IsFiniteSet(New) /\ IsFiniteSet(Out)
    BY <2>4, FS_Subset
  <2> HIDE DEF New, Out, SaveOf
  <2>9. m \in Injection(New, Out)
    BY <2>6, <2>7 DEF Injection, IsInjective
  <2>10. Cardinality(New) <= Cardinality(Out)
    BY <2>8, <2>9, FS_Injection
  <2>11. Cardinality(New) \in Nat /\ Cardinality(Out) \in Nat /\ Limit \in Nat
    BY <2>8, FS_CardinalityType, ConstantsAssumption
  <2>12. Cardinality(Out) >= Limit
    BY <2>3, <2>10, <2>11
  <2> QED
    BY <2>12 DEF Out
<1> QED
  BY <1>1, <1>2 DEF FilesKept

\* A snapshot that a test saves next has an id of its own.
LEMMA IdsAreFresh ==
  ASSUME TypeOK, SavedOnce, NEW t \in Tests
  PROVE  /\ MaySave(t) => \A s \in saved : ~(s.test = t /\ s.at = now)
         /\ Saving(t) /\ Up => \A s \in saved : ~(s.test = t /\ s.at = draft[t].at)
<1>1. \A s \in saved : s.test \in Tests /\ s.at \in Nat /\ since[t] \in Nat /\ now \in Nat
  BY ConstantsAssumption DEF TypeOK, Saves, Clock
<1>2. draft[t].at \in Nat
  BY ConstantsAssumption DEF TypeOK, Drafts, Clock
<1> QED
  BY <1>1, <1>2 DEF SavedOnce, MaySave, Up, Saving

\* The writing of a file, to its end or not, loses no other one.
LEMMA WriteKeepsFiles ==
  ASSUME TypeOK, SavedOnce, FilesMatch(disk, saved), FilesKept(disk, saved),
         NEW t \in Tests, MaySave(t)
  PROVE  /\ FilesMatch(Put(disk, NewFile(t, FALSE)), saved)
         /\ FilesKept(Put(disk, NewFile(t, FALSE)), saved)
         /\ FilesMatch(Put(disk, NewFile(t, TRUE)), saved \cup {NewSave(t)})
         /\ FilesKept(Put(disk, NewFile(t, TRUE)), saved \cup {NewSave(t)})
<1> DEFINE x == NewFile(t, TRUE)
           y == NewFile(t, FALSE)
           n == NewSave(t)
<1>1. /\ x.test = t /\ x.at = now /\ x.whole /\ x.mtime = writes + 1
      /\ y.test = t /\ y.at = now /\ ~y.whole
      /\ n.test = t /\ n.at = now /\ n.mtime = writes + 1 /\ writes + 1 # 0
  BY DEF NewFile, NewSave, TypeOK
<1>2. \A s \in saved : ~(s.test = t /\ s.at = now)
  BY IdsAreFresh
<1> HIDE DEF x, y, n
<1>3. FilesMatch(Put(disk, y), saved) /\ FilesMatch(Put(disk, x), saved \cup {n})
  BY <1>1 DEF FilesMatch, Put, SameId
<1>4. \A s \in saved, f \in disk : SameId(f, s) => f \in Put(disk, x) /\ f \in Put(disk, y)
  BY <1>1, <1>2 DEF Put, SameId
<1>5. FilesKept(Put(disk, y), saved)
  BY <1>4 DEF FilesKept
<1>6. ASSUME NEW s \in saved
      PROVE  LET c == Cardinality({m \in saved : m.mtime > s.mtime})
                 d == Cardinality({m \in saved \cup {n} : m.mtime > s.mtime})
             IN  c >= Limit => d >= Limit
  <2> DEFINE C == {m \in saved : m.mtime > s.mtime}
             D == {m \in saved \cup {n} : m.mtime > s.mtime}
  <2>1. IsFiniteSet(saved \cup {n})
    BY FS_AddElement DEF SavedOnce
  <2>2. IsFiniteSet(D) /\ C \subseteq D
    BY <2>1, FS_Subset
  <2>3. IsFiniteSet(C) /\ Cardinality(C) <= Cardinality(D)
    BY <2>2, FS_Subset
  <2>4. Cardinality(C) \in Nat /\ Cardinality(D) \in Nat /\ Limit \in Nat
    BY <2>2, <2>3, FS_CardinalityType, ConstantsAssumption
  <2> QED
    BY <2>3, <2>4
<1>7. x \in Put(disk, x) /\ SameId(x, n) /\ x.whole
  BY <1>1 DEF Put, SameId
<1>8. FilesKept(Put(disk, x), saved \cup {n})
  BY <1>4, <1>6, <1>7 DEF FilesKept
<1> QED
  BY <1>3, <1>5, <1>8 DEF x, y, n

-----------------------------------------------------------------------------
(* The steps.                                                               *)

\* Before the first start nothing is saved.
LEMMA SnapshotsInit == Init => IInv
<1> SUFFICES ASSUME Init PROVE IInv
  OBVIOUS
<1> USE ConstantsAssumption DEF Init
<1>1. TypeOK
  <2>1. 0 \in Clock /\ NoDraft \in Drafts /\ 0 \in 0..MaxFaults
    BY DEF Clock, NoDraft, Drafts
  <2>2. UniqueIds({})
    BY DEF UniqueIds
  <2>3. /\ stage \in [Tests -> {"absent", "running", "saving", "writing", "over"}]
        /\ since \in [Tests -> Clock] /\ pending \in [Tests -> Nat] /\ recorded \in [Tests -> Nat]
        /\ draft \in [Tests -> Drafts]
    BY <2>1
  <2> QED
    BY <2>1, <2>2, <2>3 DEF TypeOK
<1>2. Memory /\ ImportGoesOn /\ PartsAgree
  BY DEF Memory, ImportGoesOn, PartsAgree, Up, Saving
<1>3. SavedOnce
  BY FS_EmptySet DEF SavedOnce, UniqueIds, Saving
<1>4. FilesMatch(disk, saved) /\ FilesKept(disk, saved) /\ RowsMatch /\ RowsAreKept
  BY DEF FilesMatch, FilesKept, RowsMatch, RowsAreKept, Listed, Up
<1> QED
  BY <1>1, <1>2, <1>3, <1>4 DEF IInv

\* What is out of retention stays so.
LEMMA AgesOnly ==
  ASSUME TypeOK, TypeOK', now' >= now, NEW c \in Clock, Expired(c)
  PROVE  Expired(c)'
<1>1. now \in Nat /\ now' \in Nat /\ c \in Nat /\ Retention \in Nat
  BY ConstantsAssumption DEF TypeOK, Clock
<1>2. c < now - Retention
  BY DEF Expired
<1>3. ASSUME NEW x \in Nat, NEW y \in Nat, NEW d \in Nat, NEW r \in Nat, y >= x, d < x - r
      PROVE  d < y - r
  BY <1>3
<1>4. c < now' - Retention
  BY <1>1, <1>2, <1>3
<1> QED
  BY <1>4 DEF Expired

\* A step of a test that writes nothing, or a tick.
LEMMA TestsKeepSnapshots ==
  ASSUME IInv, TypeOK', Memory', SavedOnce', PartsAgree', now' >= now,
         UNCHANGED <<processVars, disk, rows, toImport, faults, historyVars>>
  PROVE  IInv'
<1>1. \A c \in Clock : Expired(c) => Expired(c)'
  BY AgesOnly DEF IInv
<1>2. \A s \in saved : s.created \in Clock
  BY DEF IInv, TypeOK, Saves
<1>3. \A f \in disk : f.at \in Clock
  BY DEF IInv, TypeOK, Files
<1>4. FilesMatch(disk, saved)' /\ RowsMatch' /\ ImportGoesOn'
  BY DEF IInv, FilesMatch, RowsMatch, ImportGoesOn, InDb, processVars, historyVars
<1>5. FilesKept(disk, saved)'
  BY <1>1, <1>2 DEF IInv, FilesKept, historyVars
<1>6. Listed(disk)' \subseteq Listed(disk)
  BY <1>1, <1>3 DEF Listed, FileExpired
<1>7. RowsAreKept'
  BY <1>1, <1>2, <1>6 DEF IInv, RowsAreKept, InDb, Up, processVars, historyVars
<1> QED
  BY <1>4, <1>5, <1>7 DEF IInv

\* Requests, queries and cancellations.
LEMMA TestStepKeeps ==
  ASSUME IInv, NEW t \in Tests, TestStep(t)
  PROVE  IInv'
<1> USE DEF processVars, historyVars, Saving
<1>1. TypeOK /\ Memory /\ SavedOnce /\ PartsAgree
  BY DEF IInv
<1>2. CASE CreateTest(t)
  <2> USE <1>1, <1>2 DEF CreateTest
  <2>1. TypeOK'
    BY DEF TypeOK
  <2>2. Memory'
    BY DEF TypeOK, Memory, Up
  <2>3. SavedOnce'
    BY DEF TypeOK, SavedOnce, Up
  <2>4. PartsAgree'
    BY DEF TypeOK, PartsAgree
  <2> QED
    BY <2>1, <2>2, <2>3, <2>4, TestsKeepSnapshots DEF TypeOK, Clock
<1>3. CASE SpawnQuery(t)
  <2> USE <1>1, <1>3 DEF SpawnQuery
  <2>1. TypeOK'
    BY DEF TypeOK
  <2>2. Memory'
    BY DEF TypeOK, Memory, Up
  <2>3. SavedOnce'
    BY DEF SavedOnce, Up
  <2>4. PartsAgree'
    BY DEF PartsAgree
  <2> QED
    BY <2>1, <2>2, <2>3, <2>4, TestsKeepSnapshots DEF TypeOK, Clock
<1>4. CASE AnswerQuery(t)
  <2> USE <1>1, <1>4 DEF AnswerQuery
  <2>1. TypeOK'
    BY DEF TypeOK
  <2>2. Memory'
    BY DEF TypeOK, Memory, Up
  <2>3. SavedOnce'
    BY DEF SavedOnce, Up
  <2>4. PartsAgree'
    <3> SUFFICES ASSUME NEW u \in Tests, stage[u] = "saving",
                        NEW i \in DOMAIN draft[u].parts, NEW j \in DOMAIN draft[u].parts, i <= j
                 PROVE  LET parts == draft[u].parts IN
                        /\ parts[i] <= parts[j] /\ parts[j] <= recorded'[u]
                        /\ u \notin Autonomous => parts[i] = recorded'[u]
      BY DEF PartsAgree
    <3>1. draft[u].parts[j] \in Nat /\ recorded[u] \in Nat
      BY DEF TypeOK, Drafts
    <3>2. LET parts == draft[u].parts IN
          /\ parts[i] <= parts[j] /\ parts[j] <= recorded[u]
          /\ u \notin Autonomous => parts[i] = recorded[u]
      BY DEF PartsAgree
    <3>3. recorded'[u] = IF u = t THEN recorded[u] + 1 ELSE recorded[u]
      BY DEF TypeOK
    <3>4. u \notin Autonomous => u # t
      <4>1. u \notin Autonomous => pending[u] = 0
        BY DEF Memory
      <4>2. pending[t] > 0
        OBVIOUS
      <4> QED
        BY <4>1, <4>2
    <3> QED
      BY <3>1, <3>2, <3>3, <3>4
  <2> QED
    BY <2>1, <2>2, <2>3, <2>4, TestsKeepSnapshots DEF TypeOK, Clock
<1>5. CASE EndCancelled(t)
  <2> USE <1>1, <1>5 DEF EndCancelled
  <2>1. TypeOK'
    BY DEF TypeOK
  <2>2. Memory'
    BY DEF TypeOK, Memory, Up
  <2>3. SavedOnce'
    BY DEF TypeOK, SavedOnce, Up
  <2>4. PartsAgree'
    BY DEF TypeOK, PartsAgree
  <2> QED
    BY <2>1, <2>2, <2>3, <2>4, TestsKeepSnapshots DEF TypeOK, Clock
<1> QED
  BY <1>2, <1>3, <1>4, <1>5 DEF TestStep

\* The clock.
LEMMA TickKeeps ==
  ASSUME IInv, Tick
  PROVE  IInv'
<1> USE DEF Tick, processVars, testVars, historyVars, Saving
<1>1. TypeOK /\ Memory /\ SavedOnce /\ PartsAgree /\ now \in Nat /\ now' = now + 1
  BY DEF IInv, TypeOK, Clock
<1>2. TypeOK'
  BY <1>1, ConstantsAssumption DEF TypeOK, Clock
<1>3. Memory' /\ PartsAgree'
  BY <1>1 DEF Memory, PartsAgree, Up
<1>4. SavedOnce'
  <2>1. UNCHANGED <<disk, saved, stage, since, draft>> /\ (Up' <=> Up)
    BY DEF Up
  <2>2. \A s \in saved : s.at \in Nat /\ s.at <= now
    BY <1>1 DEF TypeOK, Saves, SavedOnce, Clock
  <2>3. \A t \in Tests : draft[t].created \in Nat
    BY <1>1 DEF TypeOK, Drafts, Clock
  <2>4. \A s \in saved : s.at <= now'
    BY <1>1, <2>2
  <2>5. \A t \in Tests : Saving(t) => draft[t].created <= now'
    BY <1>1, <2>3 DEF SavedOnce
  <2> QED
    BY <1>1, <2>1, <2>4, <2>5 DEF SavedOnce
<1> QED
  BY <1>1, <1>2, <1>3, <1>4, TestsKeepSnapshots

\* A sequence of numbers with one more at its end.
LEMMA Appended ==
  ASSUME NEW old \in Seq(Nat), NEW e \in Nat, NEW new, new = Append(old, e)
  PROVE  /\ DOMAIN new = 1..(Len(old) + 1)
         /\ DOMAIN old = 1..Len(old) /\ Len(old) \in Nat
         /\ \A i \in DOMAIN old : new[i] = old[i] /\ old[i] \in Nat
         /\ new[Len(old) + 1] = e
<1>1. /\ Len(new) = Len(old) + 1 /\ new \in Seq(Nat) /\ Len(old) \in Nat
      /\ \A i \in 1..Len(old) : new[i] = old[i]
      /\ new[Len(old) + 1] = e
  BY AppendProperties
<1>2. DOMAIN old = 1..Len(old) /\ DOMAIN new = 1..Len(new)
  BY <1>1
<1>3. \A i \in DOMAIN old : old[i] \in Nat
  BY <1>2
<1> QED
  BY <1>1, <1>2, <1>3

\* The parts of a snapshot for PostgreSQL.
LEMMA PanelsKeep ==
  ASSUME IInv, NEW t \in Tests, BeginSave(t) \/ ReadPanel(t) \/ BeginPersist(t)
  PROVE  IInv'
<1> USE ConstantsAssumption DEF processVars, historyVars, Saving
<1>1. TypeOK /\ Memory /\ SavedOnce /\ PartsAgree
  BY DEF IInv
<1>2. draft[t] \in Drafts /\ recorded[t] \in Nat /\ now \in Clock /\ now \in Nat /\ since[t] \in Nat
  BY <1>1 DEF TypeOK, Clock
<1>3. CASE BeginSave(t)
  <2> DEFINE d == [at |-> now, created |-> now, parts |-> <<recorded[t]>>]
  <2>1. d \in Drafts
    BY <1>2 DEF Drafts
  <2>2. draft' = [draft EXCEPT ![t] = d] /\ stage' = [stage EXCEPT ![t] = "saving"] /\ MaySave(t)
        /\ UNCHANGED <<now, processVars, since, pending, recorded, disk, writes, rows, toImport,
                       faults, historyVars>>
        /\ backend = "db" /\ pool
    BY <1>3 DEF BeginSave
  <2>3. d.at = now /\ d.created = now /\ d.parts = <<recorded[t]>>
    OBVIOUS
  <2> HIDE DEF d
  <2>4. TypeOK'
    BY <1>1, <2>1, <2>2 DEF TypeOK
  <2>5. Memory'
    BY <1>1, <2>2 DEF TypeOK, Memory, Up, MaySave
  <2>6. SavedOnce'
    BY <1>1, <1>2, <2>2, <2>3 DEF TypeOK, SavedOnce, Up, MaySave
  <2>7. PartsAgree'
    <3>1. \A u \in Tests \ {t} : draft'[u] = draft[u] /\ (stage'[u] = "saving" <=> stage[u] = "saving")
      BY <1>1, <2>2 DEF TypeOK
    <3>2. draft'[t].parts = <<recorded[t]>>
      BY <1>1, <2>2, <2>3 DEF TypeOK
    <3> QED
      BY <1>1, <1>2, <2>2, <3>1, <3>2 DEF PartsAgree
  <2> QED
    BY <1>2, <2>2, <2>4, <2>5, <2>6, <2>7, TestsKeepSnapshots
<1>4. CASE ReadPanel(t)
  <2> DEFINE d == [at |-> draft[t].at, created |-> now, parts |-> Append(draft[t].parts, recorded[t])]
  <2>1. d \in Drafts
    BY <1>2 DEF Drafts
  <2>2. /\ draft' = [draft EXCEPT ![t] = d] /\ Up /\ stage[t] = "saving"
        /\ UNCHANGED <<now, processVars, stage, since, pending, recorded, disk, writes, rows,
                       toImport, faults, historyVars>>
    BY <1>1, <1>2, <1>4 DEF ReadPanel, TypeOK, Drafts
  <2>3. d.at = draft[t].at /\ d.created = now /\ d.parts = Append(draft[t].parts, recorded[t])
    OBVIOUS
  <2> HIDE DEF d
  <2>4. TypeOK'
    BY <1>1, <2>1, <2>2 DEF TypeOK
  <2>5. Memory'
    <3>1. \A u \in Tests : draft'[u].at = draft[u].at
      BY <1>1, <2>2, <2>3 DEF TypeOK
    <3> QED
      BY <1>1, <2>2, <3>1 DEF Memory, Up
  <2>6. SavedOnce'
    <3>1. \A u \in Tests : draft'[u] = IF u = t THEN d ELSE draft[u]
      BY <1>1, <2>2 DEF TypeOK
    <3>2. draft[t].at <= now /\ now <= now
      BY <1>1, <1>2, <2>2 DEF SavedOnce, Drafts, Clock
    <3>3. \A u \in Tests : Saving(u) =>
            /\ draft'[u].at <= draft'[u].created /\ draft'[u].created <= now
            /\ u \in Autonomous => since[u] < draft'[u].at
      BY <1>1, <2>2, <2>3, <3>1, <3>2 DEF SavedOnce
    <3> QED
      BY <1>1, <2>2, <3>3 DEF SavedOnce, Up
  <2>7. PartsAgree'
    <3>1. \A u \in Tests \ {t} : draft'[u] = draft[u]
      BY <1>1, <2>2 DEF TypeOK
    <3>2. draft'[t].parts = Append(draft[t].parts, recorded[t])
      BY <1>1, <2>2, <2>3 DEF TypeOK
    <3>3. draft[t].parts \in Seq(Nat)
      BY <1>2 DEF Drafts
    <3>4. /\ DOMAIN draft'[t].parts = 1..(Len(draft[t].parts) + 1)
          /\ DOMAIN draft[t].parts = 1..Len(draft[t].parts) /\ Len(draft[t].parts) \in Nat
          /\ \A i \in DOMAIN draft[t].parts :
               draft'[t].parts[i] = draft[t].parts[i] /\ draft[t].parts[i] \in Nat
          /\ draft'[t].parts[Len(draft[t].parts) + 1] = recorded[t]
      <4>1. recorded[t] \in Nat
        BY <1>1 DEF TypeOK
      <4> QED
        BY <3>2, <3>3, <4>1, Appended
    <3>5. \A i \in DOMAIN draft[t].parts :
            /\ draft[t].parts[i] <= recorded[t]
            /\ t \notin Autonomous => draft[t].parts[i] = recorded[t]
      BY <1>1, <1>2, <2>2, <3>4 DEF PartsAgree
    <3>6. \A i, j \in DOMAIN draft[t].parts : i <= j => draft[t].parts[i] <= draft[t].parts[j]
      BY <1>1, <2>2 DEF PartsAgree
    <3>7. ASSUME NEW i \in DOMAIN draft'[t].parts, NEW j \in DOMAIN draft'[t].parts, i <= j
          PROVE  /\ draft'[t].parts[i] <= draft'[t].parts[j] /\ draft'[t].parts[j] <= recorded[t]
                 /\ t \notin Autonomous => draft'[t].parts[i] = recorded[t]
      <4>1. CASE j \in DOMAIN draft[t].parts
        <5>1. i \in DOMAIN draft[t].parts
          BY <3>4, <3>7, <4>1
        <5> QED
          BY <3>4, <3>5, <3>6, <3>7, <4>1, <5>1
      <4>2. CASE j = Len(draft[t].parts) + 1
        <5>1. draft'[t].parts[j] = recorded[t] /\ recorded[t] <= recorded[t]
          BY <1>2, <3>4, <4>2
        <5>2. i \in DOMAIN draft[t].parts \/ i = j
          BY <3>4, <3>7, <4>2
        <5> QED
          BY <3>4, <3>5, <5>1, <5>2
      <4> QED
        BY <3>4, <4>1, <4>2
    <3> QED
      BY <1>1, <2>2, <3>1, <3>7 DEF PartsAgree
  <2> QED
    BY <1>2, <2>2, <2>4, <2>5, <2>6, <2>7, TestsKeepSnapshots
<1>5. CASE BeginPersist(t)
  <2> USE <1>1, <1>5 DEF BeginPersist, PanelsRead
  <2>1. TypeOK'
    BY DEF TypeOK
  <2>2. Memory'
    BY DEF TypeOK, Memory, Up
  <2>3. SavedOnce'
    BY DEF TypeOK, SavedOnce, Up
  <2>4. PartsAgree'
    BY DEF TypeOK, PartsAgree
  <2> QED
    BY <1>2, <2>1, <2>2, <2>3, <2>4, TestsKeepSnapshots
<1> QED
  BY <1>3, <1>4, <1>5

\* A restart, also when it interrupts the writing or the removal of files.
LEMMA DownKeeps ==
  ASSUME IInv, GoDown, writes' \in Nat, UNCHANGED <<rows, faults>>,
         saved' \subseteq Saves, IsFiniteSet(saved'), UniqueIds(saved'), saved \subseteq saved',
         \A s \in saved' \ saved :
           /\ s.at = now /\ s.created = now /\ s.mtime # 0
           /\ stage[s.test] = "running",
         disk' \subseteq Files, IsFiniteSet(disk'), UniqueIds(disk'),
         FilesMatch(disk', saved'), FilesKept(disk', saved')
  PROVE  IInv'
<1> USE DEF GoDown
<1>1. TypeOK /\ SavedOnce /\ now \in Nat
  BY DEF IInv, TypeOK, Clock
<1>2. TypeOK'
  BY <1>1, GoDownType
<1>3. Memory' /\ ImportGoesOn' /\ PartsAgree'
  BY DEF Memory, ImportGoesOn, PartsAgree, Up, Saving
<1>4. SavedOnce'
  <2>1. ASSUME NEW s \in saved'
        PROVE  /\ s.at <= s.created /\ s.at <= now
               /\ s.mtime # 0 => s.at = s.created
               /\ s.test \notin Autonomous => stage'[s.test] = "over"
    <3>1. s.test \in Tests
      BY DEF Saves
    <3>2. CASE s \in saved
      BY <1>1, <3>1, <3>2 DEF SavedOnce
    <3>3. CASE s \notin saved
      BY <1>1, <3>1, <3>3
    <3> QED
      BY <3>2, <3>3
  <2>2. \A t \in Tests : ~Saving(t)'
    BY DEF Saving
  <2> QED
    BY <2>1, <2>2 DEF SavedOnce, Up
<1>5. FilesMatch(disk, saved)' /\ FilesKept(disk, saved)'
  BY DEF FilesMatch, FilesKept, Expired
<1>6. RowsMatch'
  BY DEF IInv, RowsMatch
<1>7. RowsAreKept'
  BY DEF IInv, RowsAreKept, Up, InDb, Expired
<1> QED
  BY <1>2, <1>3, <1>4, <1>5, <1>6, <1>7 DEF IInv

\* Crashes and the end of the process.
LEMMA StopKeeps ==
  ASSUME IInv, StopStep
  PROVE  IInv'
<1>1. TypeOK /\ SavedOnce /\ FilesMatch(disk, saved) /\ FilesKept(disk, saved)
      /\ disk \subseteq Files /\ IsFiniteSet(disk) /\ UniqueIds(disk)
      /\ saved \subseteq Saves /\ IsFiniteSet(saved) /\ UniqueIds(saved) /\ writes \in Nat
  BY DEF IInv, TypeOK, SavedOnce
<1>2. CASE BeginShutdown
  <2>1. UNCHANGED <<now, backend, pool, testVars, disk, writes, rows, toImport, faults, historyVars>>
        /\ phase = "serving" /\ phase' = "stopping"
    BY <1>2 DEF BeginShutdown
  <2> USE <2>1 DEF testVars, historyVars, Saving, IInv
  <2>2. TypeOK'
    BY DEF TypeOK
  <2>3. Memory' /\ ImportGoesOn' /\ PartsAgree'
    BY DEF Memory, ImportGoesOn, PartsAgree, Up
  <2>4. SavedOnce'
    BY DEF SavedOnce, Up
  <2>5. FilesMatch(disk, saved)' /\ FilesKept(disk, saved)' /\ RowsMatch'
    BY DEF FilesMatch, FilesKept, RowsMatch, Expired
  <2>6. RowsAreKept'
    BY DEF RowsAreKept, Up, InDb, Listed, FileExpired, Expired
  <2> QED
    BY <2>2, <2>3, <2>4, <2>5, <2>6
<1>3. CASE EndShutdown \/ Crash
  BY <1>1, <1>3, DownKeeps DEF EndShutdown, Crash
<1>4. CASE CrashInPrune
  <2>1. PICK S \in SUBSET Due(disk) : disk' = disk \ S
    BY <1>4 DEF CrashInPrune
  <2>2. FilesMatch(disk', saved) /\ FilesKept(disk', saved)
    BY <1>1, <2>1, PruneKeepsFiles DEF SavedOnce
  <2>3. disk' \subseteq Files /\ IsFiniteSet(disk') /\ UniqueIds(disk')
    BY <1>1, <2>1, FS_Subset, SubsetKeepsIds
  <2>4. GoDown /\ UNCHANGED <<writes, rows, faults, saved>>
    BY <1>4 DEF CrashInPrune
  <2> QED
    BY <1>1, <2>2, <2>3, <2>4, DownKeeps
<1>5. CASE ClosePool
  <2>1. /\ UNCHANGED <<now, backend, pool, testVars, disk, writes, rows, toImport, faults, saved>>
        /\ phase = "stopping" /\ phase' = "closing" /\ late \subseteq late'
        /\ (RunsEnded /\ late' = late) \/ late' = late \cup InTheMaking
    BY <1>5 DEF ClosePool
  <2> USE <2>1 DEF testVars, IInv
  <2>2. InTheMaking \subseteq [test : Tests, at : Clock]
    BY DEF InTheMaking, TypeOK, Drafts
  <2>3. TypeOK'
    BY <2>2 DEF TypeOK
  <2>4. \A t \in Tests : Saving(t) => [test |-> t, at |-> draft[t].at] \in late'
    BY DEF RunsEnded, InTheMaking
  <2>5. Memory' /\ ImportGoesOn' /\ PartsAgree'
    BY <2>4 DEF Memory, ImportGoesOn, PartsAgree, Up, Saving
  <2>6. SavedOnce'
    BY DEF SavedOnce, Up, Saving
  <2>7. FilesMatch(disk, saved)' /\ FilesKept(disk, saved)' /\ RowsMatch'
    BY DEF FilesMatch, FilesKept, RowsMatch, Expired
  <2>8. RowsAreKept'
    BY DEF RowsAreKept, Up, InDb, Listed, FileExpired, Expired
  <2> QED
    BY <2>3, <2>5, <2>6, <2>7, <2>8
<1> QED
  BY <1>2, <1>3, <1>4, <1>5 DEF StopStep

\* The files after a write, whatever prune removed then.
LEMMA WrittenFiles ==
  ASSUME IInv, NEW t \in Tests, MaySave(t)
  PROVE  /\ \A w \in BOOLEAN : LET files == Put(disk, NewFile(t, w)) IN
              files \subseteq Files /\ IsFiniteSet(files) /\ UniqueIds(files)
         /\ LET all == saved \cup {NewSave(t)} IN
            /\ all \subseteq Saves /\ IsFiniteSet(all) /\ UniqueIds(all)
            /\ \A S \in SUBSET Due(Put(disk, NewFile(t, TRUE))) :
                 LET files == Put(disk, NewFile(t, TRUE)) \ S IN
                 /\ files \subseteq Files /\ IsFiniteSet(files) /\ UniqueIds(files)
                 /\ FilesMatch(files, all) /\ FilesKept(files, all)
<1>1. TypeOK /\ SavedOnce /\ FilesMatch(disk, saved) /\ FilesKept(disk, saved)
      /\ now \in Clock /\ writes \in Nat
  BY DEF IInv, TypeOK
<1>2. ASSUME NEW w \in BOOLEAN
      PROVE  LET files == Put(disk, NewFile(t, w)) IN
             files \subseteq Files /\ IsFiniteSet(files) /\ UniqueIds(files)
  <2>1. NewFile(t, w) \in Files
    BY <1>1 DEF NewFile, Files
  <2>2. IsFiniteSet({y \in disk : ~SameId(NewFile(t, w), y)})
    BY <1>1, FS_Subset DEF SavedOnce
  <2>3. IsFiniteSet(Put(disk, NewFile(t, w)))
    <3> DEFINE other == {y \in disk : ~SameId(NewFile(t, w), y)}
    <3>1. IsFiniteSet(other)
      BY <2>2
    <3>2. Put(disk, NewFile(t, w)) = other \cup {NewFile(t, w)}
      BY DEF Put
    <3> HIDE DEF other
    <3>3. IsFiniteSet(other \cup {NewFile(t, w)})
      BY <3>1, FS_AddElement
    <3> QED
      BY <3>2, <3>3
  <2> QED
    BY <1>1, <2>1, <2>3, PutKeepsIds DEF TypeOK
<1> DEFINE x == NewFile(t, TRUE)
           n == NewSave(t)
           all == saved \cup {n}
<1>3. n \in Saves /\ n.test = t /\ n.at = now /\ n.created = now
  BY <1>1, ConstantsAssumption DEF NewSave, Saves, Clock
<1> HIDE DEF x, n
<1>4. IsFiniteSet(all) /\ all \subseteq Saves
  BY <1>1, <1>3, FS_AddElement DEF SavedOnce, TypeOK
<1>5. UniqueIds(all)
  BY <1>1, <1>3, IdsAreFresh DEF SavedOnce, UniqueIds, SameId
<1>6. \A s \in all : s.mtime # 0 => s.at = s.created
  BY <1>1, <1>3 DEF SavedOnce
<1>7. FilesMatch(Put(disk, x), all) /\ FilesKept(Put(disk, x), all)
  BY <1>1, WriteKeepsFiles DEF x, n
<1>8. Put(disk, x) \subseteq Files /\ IsFiniteSet(Put(disk, x)) /\ UniqueIds(Put(disk, x))
  BY <1>2 DEF x
<1>9. ASSUME NEW S \in SUBSET Due(Put(disk, x))
      PROVE  LET files == Put(disk, x) \ S IN
             /\ files \subseteq Files /\ IsFiniteSet(files) /\ UniqueIds(files)
             /\ FilesMatch(files, all) /\ FilesKept(files, all)
  <2>1. FilesMatch(Put(disk, x) \ S, all) /\ FilesKept(Put(disk, x) \ S, all)
    BY <1>1, <1>4, <1>5, <1>6, <1>7, <1>8, PruneKeepsFiles
  <2>2. IsFiniteSet(Put(disk, x) \ S) /\ UniqueIds(Put(disk, x) \ S)
    BY <1>8, FS_Subset, SubsetKeepsIds
  <2> QED
    BY <1>8, <2>1, <2>2
<1> QED
  BY <1>2, <1>4, <1>5, <1>9 DEF x, n

\* A save that has ended changes only the test's own state.
LEMMA EndSaveKeeps ==
  ASSUME IInv, NEW t \in Tests, NEW failed \in BOOLEAN, EndSave(t, failed),
         stage[t] \in {"running", "saving", "writing"}, Up,
         stage[t] = "running" => MaySave(t),
         writes' \in Nat, faults' \in 0..MaxFaults, faults <= faults',
         saved' \subseteq Saves, IsFiniteSet(saved'), UniqueIds(saved'), saved \subseteq saved',
         \A s \in saved' \ saved :
           ~failed /\ s.test = t /\ s.at <= s.created /\ s.at <= now /\ (s.mtime # 0 => s.at = s.created),
         disk' \subseteq Files, IsFiniteSet(disk'), UniqueIds(disk'),
         rows' \subseteq Rows, UniqueIds(rows')
  PROVE  TypeOK' /\ Memory' /\ SavedOnce' /\ ImportGoesOn' /\ PartsAgree'
<1> USE DEF EndSave, processVars, Saving
<1>1. TypeOK /\ Memory /\ SavedOnce /\ PartsAgree /\ now \in Nat
  BY DEF IInv, TypeOK, Clock
<1>2. NoDraft \in Drafts /\ 0 \in Clock
  BY ConstantsAssumption DEF NoDraft, Drafts, Clock
<1>3. phase \in {"serving", "stopping", "closing"} /\ toImport = {}
  BY <1>1 DEF Up, Memory
<1>4. TypeOK'
  BY <1>1, <1>2, <1>3 DEF TypeOK
<1>5. /\ \A u \in Tests \ {t} : stage'[u] = stage[u] /\ draft'[u] = draft[u] /\ since'[u] = since[u]
      /\ stage'[t] = (IF t \in Autonomous THEN "running" ELSE "over")
      /\ since'[t] = (IF t \in Autonomous /\ ~failed THEN now ELSE since[t])
  BY <1>1 DEF TypeOK
<1>6. Memory'
  <2>1. faults' = 0 => faults = 0
    BY <1>1, ConstantsAssumption DEF TypeOK
  <2>2. \A u \in Tests : stage'[u] \in {"saving", "writing"} => u # t /\ stage'[u] = stage[u] /\ draft'[u] = draft[u]
    BY <1>5
  <2> QED
    BY <1>1, <1>3, <2>1, <2>2 DEF Memory, Up
<1>7. SavedOnce'
  <2>1. ASSUME NEW s \in saved'
        PROVE  /\ s.at <= s.created /\ s.at <= now
               /\ s.mtime # 0 => s.at = s.created
               /\ s.test \in Autonomous => s.at <= since'[s.test]
               /\ s.test \notin Autonomous => stage'[s.test] = "over"
    <3>1. s.test \in Tests
      BY DEF Saves
    <3>2. CASE s \in saved
      BY <1>1, <1>5, <3>1, <3>2 DEF SavedOnce
    <3>3. CASE s \notin saved
      BY <1>5, <3>1, <3>3
    <3> QED
      BY <3>2, <3>3
  <2>2. \A u \in Tests : stage'[u] \in {"saving", "writing"} =>
          stage'[u] = stage[u] /\ draft'[u] = draft[u] /\ since'[u] = since[u]
    BY <1>5
  <2> QED
    BY <1>1, <2>1, <2>2 DEF SavedOnce
<1>8. ImportGoesOn'
  BY <1>3 DEF ImportGoesOn
<1>9. PartsAgree'
  BY <1>1, <1>5 DEF PartsAgree
<1> QED
  BY <1>4, <1>6, <1>7, <1>8, <1>9

\* A save that is given up.
LEMMA CancelSaveKeeps ==
  ASSUME IInv, NEW t \in Tests, CancelSave(t)
  PROVE  IInv'
<1>1. /\ EndSave(t, TRUE) /\ UNCHANGED <<disk, writes, rows, faults, saved>>
      /\ stage[t] \in {"saving", "writing"} /\ Up
  BY DEF CancelSave, Saving, Up
<1>2. /\ writes \in Nat /\ faults \in 0..MaxFaults /\ faults <= faults
      /\ saved \subseteq Saves /\ IsFiniteSet(saved) /\ UniqueIds(saved)
      /\ disk \subseteq Files /\ IsFiniteSet(disk) /\ UniqueIds(disk)
      /\ rows \subseteq Rows /\ UniqueIds(rows)
  BY ConstantsAssumption DEF IInv, TypeOK, SavedOnce
<1>3. TypeOK' /\ Memory' /\ SavedOnce' /\ ImportGoesOn' /\ PartsAgree'
  BY <1>1, <1>2, EndSaveKeeps
<1>4. now' = now /\ backend' = backend /\ phase' = phase /\ late' = late
  BY <1>1 DEF EndSave, processVars
<1>5. FilesMatch(disk, saved)' /\ FilesKept(disk, saved)' /\ RowsMatch'
  BY <1>1, <1>4 DEF IInv, FilesMatch, FilesKept, RowsMatch, Expired
<1>6. RowsAreKept'
  BY <1>1, <1>4 DEF IInv, RowsAreKept, InDb, Listed, FileExpired, Expired, Up
<1> QED
  BY <1>3, <1>5, <1>6 DEF IInv

\* Saving to files.
LEMMA FileSaveKeeps ==
  ASSUME IInv, NEW t \in Tests, SaveToFile(t) \/ SaveToFileFails(t) \/ CrashInSave(t)
  PROVE  IInv'
<1> DEFINE x == NewFile(t, TRUE)
           y == NewFile(t, FALSE)
           all == saved \cup {NewSave(t)}
<1>1. TypeOK /\ SavedOnce /\ MaySave(t) /\ backend = "file" /\ writes \in Nat /\ writes' = writes + 1
      /\ stage[t] = "running" /\ phase = "serving" /\ Up /\ faults \in Nat /\ rows' = rows /\ now \in Nat
  <2>1. TypeOK /\ SavedOnce /\ writes \in Nat /\ faults \in Nat /\ now \in Nat
    BY ConstantsAssumption DEF IInv, TypeOK, Clock
  <2>2. MaySave(t) /\ backend = "file" /\ writes' = writes + 1 /\ rows' = rows
    BY DEF SaveToFile, SaveToFileFails, CrashInSave
  <2> QED
    BY <2>1, <2>2 DEF MaySave, Up
<1>2. NewSave(t).test = t /\ NewSave(t).at = now /\ NewSave(t).created = now
      /\ NewSave(t).mtime = writes + 1 /\ writes + 1 # 0
  BY <1>1 DEF NewSave
<1>3. /\ Put(disk, y) \subseteq Files /\ IsFiniteSet(Put(disk, y)) /\ UniqueIds(Put(disk, y))
      /\ FilesMatch(Put(disk, y), saved) /\ FilesKept(Put(disk, y), saved)
  BY <1>1, WrittenFiles, WriteKeepsFiles DEF IInv
<1>4. /\ all \subseteq Saves /\ IsFiniteSet(all) /\ UniqueIds(all)
      /\ \A S \in SUBSET Due(Put(disk, x)) :
           LET files == Put(disk, x) \ S IN
           /\ files \subseteq Files /\ IsFiniteSet(files) /\ UniqueIds(files)
           /\ FilesMatch(files, all) /\ FilesKept(files, all)
  BY <1>1, WrittenFiles
<1>5. saved \subseteq Saves /\ IsFiniteSet(saved) /\ UniqueIds(saved)
      /\ rows \subseteq Rows /\ UniqueIds(rows)
  BY <1>1 DEF SavedOnce, TypeOK
<1>6. ASSUME NEW failed \in BOOLEAN, EndSave(t, failed), faults' \in 0..MaxFaults, faults <= faults',
             saved' = saved \/ (~failed /\ saved' = all),
             disk' \subseteq Files, IsFiniteSet(disk'), UniqueIds(disk'),
             FilesMatch(disk', saved'), FilesKept(disk', saved')
      PROVE  IInv'
  <2>1. saved' \subseteq Saves /\ IsFiniteSet(saved') /\ UniqueIds(saved') /\ saved \subseteq saved'
    BY <1>4, <1>5, <1>6
  <2>2. \A s \in saved' \ saved : ~failed /\ s = NewSave(t)
    BY <1>6
  <2>3. TypeOK' /\ Memory' /\ SavedOnce' /\ ImportGoesOn' /\ PartsAgree'
    BY <1>1, <1>2, <1>5, <1>6, <2>1, <2>2, EndSaveKeeps
  <2>4. now' = now /\ backend' = backend /\ late' = late /\ phase' = phase
    BY <1>6 DEF EndSave, processVars
  <2>5. FilesMatch(disk, saved)' /\ FilesKept(disk, saved)'
    BY <1>6, <2>4 DEF FilesMatch, FilesKept, Expired
  <2>6. RowsMatch'
    BY <1>1, <2>1 DEF IInv, RowsMatch
  <2>7. \A s \in saved' : s.mtime = 0 => s \in saved
    BY <1>2, <2>2
  <2>8. faults' = 0 => faults = 0
    BY <1>1, <1>6
  <2>9. RowsAreKept'
    BY <1>1, <2>4, <2>7, <2>8 DEF IInv, RowsAreKept, InDb, Expired
  <2> QED
    BY <2>3, <2>5, <2>6, <2>9 DEF IInv
<1> HIDE DEF x, y, all
<1>7. CASE SaveToFile(t)
  <2>1. disk' = Put(disk, x) \ Due(Put(disk, x)) /\ saved' = all /\ EndSave(t, FALSE) /\ faults' = faults
    BY <1>7 DEF SaveToFile, Pruned, x, all
  <2>2. faults' \in 0..MaxFaults /\ faults <= faults'
    BY <1>1, <2>1 DEF TypeOK
  <2> QED
    BY <1>4, <1>6, <2>1, <2>2
<1>8. CASE SaveToFileFails(t)
  <2>1. disk' = Put(disk, y) /\ saved' = saved /\ EndSave(t, TRUE) /\ faults < MaxFaults /\ faults' = faults + 1
    BY <1>8 DEF SaveToFileFails, Fault, y
  <2>2. faults' \in 0..MaxFaults /\ faults <= faults'
    BY <1>1, <2>1, ConstantsAssumption
  <2> QED
    BY <1>3, <1>6, <2>1, <2>2
<1>9. CASE CrashInSave(t)
  <2>1. GoDown /\ UNCHANGED <<rows, faults>>
    BY <1>9 DEF CrashInSave
  <2>2. CASE disk' = Put(disk, y) /\ saved' = saved
    BY <1>1, <1>3, <1>5, <2>1, <2>2, DownKeeps
  <2>3. CASE (\E S \in SUBSET Due(Put(disk, x)) : disk' = Put(disk, x) \ S) /\ saved' = all
    <3>1. PICK S \in SUBSET Due(Put(disk, x)) : disk' = Put(disk, x) \ S
      BY <2>3
    <3>2. \A s \in saved' \ saved : s = NewSave(t)
      BY <2>3 DEF all
    <3>3. saved \subseteq saved'
      BY <2>3 DEF all
    <3> QED
      BY <1>1, <1>2, <1>4, <2>1, <2>3, <3>1, <3>2, <3>3, DownKeeps
  <2> QED
    BY <1>9, <2>2, <2>3 DEF CrashInSave, x, y, all
<1> QED
  BY <1>7, <1>8, <1>9

-----------------------------------------------------------------------------
(* Rows.                                                                    *)

\* Ids agree, so do ages: a row is as old as the snapshot it is, and so is a file.
LEMMA AgesAgree ==
  ASSUME IInv, NEW s \in saved
  PROVE  /\ \A r \in rows : SameId(r, s) => r.created = s.created
         /\ \A f \in disk : f.whole /\ SameId(f, s) => f.at = s.created
<1>1. \A r \in rows : SameId(r, s) => r.created = s.created
  BY DEF IInv, RowsMatch, SavedOnce, UniqueIds, SameId
<1>2. \A f \in disk : f.whole /\ SameId(f, s) => f.at = s.created
  BY DEF IInv, FilesMatch, SavedOnce, UniqueIds, SameId
<1> QED
  BY <1>1, <1>2

\* The cleanup of the database removes nothing that is within retention.
LEMMA CleanupKeepsRows ==
  ASSUME IInv
  PROVE  /\ LiveRows \subseteq Rows /\ UniqueIds(LiveRows)
         /\ \A r \in LiveRows : \E s \in saved : SameId(r, s) /\ r.created = s.created
         /\ \A s \in saved : ~Expired(s.created) /\ InDb(s) => \E r \in LiveRows : SameId(r, s)
         /\ \A f \in Listed(disk) : InDb(f) => \E r \in LiveRows : SameId(r, f)
<1>1. LiveRows \subseteq rows /\ rows \subseteq Rows /\ UniqueIds(rows)
  BY DEF IInv, TypeOK, LiveRows
<1>2. UniqueIds(LiveRows)
  BY <1>1, SubsetKeepsIds
<1>3. \A r \in LiveRows : \E s \in saved : SameId(r, s) /\ r.created = s.created
  BY <1>1 DEF IInv, RowsMatch
<1>4. \A s \in saved : ~Expired(s.created) /\ InDb(s) => \E r \in LiveRows : SameId(r, s)
  BY AgesAgree DEF InDb, LiveRows, RowExpired
<1>5. ASSUME NEW f \in Listed(disk), InDb(f)
      PROVE  \E r \in LiveRows : SameId(r, f)
  <2>1. f \in disk /\ f.whole /\ ~Expired(f.at)
    BY DEF Listed, FileExpired
  <2>2. PICK s \in saved : SameId(f, s)
    BY <2>1 DEF IInv, FilesMatch
  <2>3. PICK r \in rows : SameId(r, f)
    BY <1>5 DEF InDb
  <2>4. r.created = s.created /\ f.at = s.created
    BY <2>1, <2>2, <2>3, AgesAgree DEF SameId
  <2> QED
    BY <2>1, <2>3, <2>4 DEF LiveRows, RowExpired
<1> QED
  BY <1>1, <1>2, <1>3, <1>4, <1>5

\* Saving to PostgreSQL.
LEMMA DbSaveKeeps ==
  ASSUME IInv, NEW t \in Tests, SaveDropped(t) \/ PersistSnapshot(t) \/ PersistTooLate(t)
  PROVE  IInv'
<1>1. /\ TypeOK /\ Memory /\ SavedOnce /\ RowsMatch /\ faults \in 0..MaxFaults /\ faults \in Nat
      /\ saved \subseteq Saves /\ IsFiniteSet(saved) /\ UniqueIds(saved)
      /\ disk \subseteq Files /\ IsFiniteSet(disk) /\ UniqueIds(disk)
      /\ rows \subseteq Rows /\ UniqueIds(rows) /\ writes \in Nat
  BY ConstantsAssumption DEF IInv, SavedOnce, TypeOK
<1>2. ASSUME NEW n \in Saves, n.test = t, n.at <= n.created, n.at <= now, n.mtime = 0,
             \A s \in saved : ~(s.test = t /\ s.at = n.at),
             stage[t] \in {"running", "saving", "writing"}, Up, stage[t] = "running" => MaySave(t),
             EndSave(t, FALSE), saved' = saved \cup {n}, UNCHANGED <<disk, writes>>,
             faults' \in 0..MaxFaults, faults <= faults',
             \/ rows' = rows /\ (faults' # 0 \/ (faults' = faults /\ \E l \in late : SameId(l, n)))
             \/ \E r \in Rows : SameId(r, n) /\ r.created = n.created /\ rows' = Put(rows, r)
      PROVE  IInv'
  <2>1. saved' \subseteq Saves /\ IsFiniteSet(saved') /\ UniqueIds(saved') /\ saved \subseteq saved'
    <3>1. UniqueIds(saved')
      BY <1>1, <1>2 DEF UniqueIds, SameId
    <3> QED
      BY <1>1, <1>2, <3>1, FS_AddElement
  <2>2. rows' \subseteq Rows /\ UniqueIds(rows')
    BY <1>1, <1>2, PutKeepsIds
  <2>3. \A s \in saved' \ saved : ~FALSE /\ s.test = t /\ s.at <= s.created /\ s.at <= now
                                /\ (s.mtime # 0 => s.at = s.created)
    BY <1>2
  <2>4. TypeOK' /\ Memory' /\ SavedOnce' /\ ImportGoesOn' /\ PartsAgree'
    BY <1>1, <1>2, <2>1, <2>2, <2>3, EndSaveKeeps
  <2>5. now' = now /\ backend' = backend /\ phase' = phase /\ late' = late
    BY <1>2 DEF EndSave, processVars
  <2>6. FilesMatch(disk, saved)'
    BY <1>2 DEF IInv, FilesMatch
  <2>7. FilesKept(disk, saved)'
    <3>1. ASSUME NEW s \in saved
          PROVE  LET c == Cardinality({m \in saved : m.mtime > s.mtime})
                     d == Cardinality({m \in saved' : m.mtime > s.mtime})
                 IN  c >= Limit => d >= Limit
      <4>1. {m \in saved : m.mtime > s.mtime} \subseteq {m \in saved' : m.mtime > s.mtime}
        BY <2>1
      <4>2. IsFiniteSet({m \in saved' : m.mtime > s.mtime})
        BY <2>1, FS_Subset
      <4> DEFINE C == {m \in saved : m.mtime > s.mtime}
                 D == {m \in saved' : m.mtime > s.mtime}
      <4>3. IsFiniteSet(C) /\ Cardinality(C) <= Cardinality(D)
        BY <4>1, <4>2, FS_Subset
      <4>4. Cardinality(C) \in Nat /\ Cardinality(D) \in Nat /\ Limit \in Nat
        BY <4>2, <4>3, FS_CardinalityType, ConstantsAssumption
      <4> QED
        BY <4>3, <4>4
    <3> QED
      BY <1>2, <2>5, <3>1 DEF IInv, FilesKept, Expired
  <2>9. \A x : InDb(x) => InDb(x)'
    BY <1>2 DEF InDb, Put, SameId
  <2>10. faults' = 0 => (InDb(n)' \/ \E l \in late : SameId(l, n)) /\ faults = 0
    BY <1>1, <1>2 DEF InDb, Put
  <2>11. RowsMatch'
    BY <1>1, <1>2 DEF RowsMatch, Put, SameId
  <2>12. RowsAreKept'
    <3>1. Listed(disk)' = Listed(disk) /\ Up' = Up
      BY <1>2, <2>5 DEF Listed, FileExpired, Expired, Up
    <3> QED
      BY <1>2, <2>5, <2>9, <2>10, <3>1 DEF IInv, RowsAreKept, Expired
  <2> QED
    BY <2>4, <2>6, <2>7, <2>11, <2>12 DEF IInv
<1>3. CASE SaveDropped(t)
  <2> DEFINE n == [NewSave(t) EXCEPT !.mtime = 0]
  <2>1. now \in Clock /\ now \in Nat
    BY <1>1 DEF TypeOK, Clock
  <2>2. n \in Saves /\ n.test = t /\ n.at = now /\ n.created = now /\ n.mtime = 0
    BY <2>1 DEF NewSave, Saves
  <2>3. MaySave(t) /\ EndSave(t, FALSE) /\ saved' = saved \cup {n} /\ UNCHANGED <<disk, writes, rows, faults>>
        /\ backend = "db" /\ ~pool
    BY <1>3 DEF SaveDropped
  <2> HIDE DEF n
  <2>4. stage[t] = "running" /\ Up
    BY <2>3 DEF MaySave, Up
  <2>5. faults # 0
    BY <1>1, <2>3, <2>4 DEF Memory
  <2>6. \A s \in saved : ~(s.test = t /\ s.at = n.at)
    BY <1>1, <2>2, <2>3, IdsAreFresh
  <2>7. /\ faults' \in 0..MaxFaults /\ faults <= faults' /\ rows' = rows /\ faults' # 0
        /\ n.at <= n.created /\ n.at <= now /\ UNCHANGED <<disk, writes>>
    BY <1>1, <2>1, <2>2, <2>3, <2>5
  <2> QED
    BY <1>2, <2>2, <2>3, <2>4, <2>6, <2>7
<1>4. CASE PersistSnapshot(t) \/ PersistTooLate(t)
  <2> DEFINE n == [test |-> t, at |-> draft[t].at, created |-> draft[t].created, mtime |-> 0]
  <2>1. draft[t] \in Drafts /\ draft[t].at \in Clock /\ draft[t].created \in Clock /\ now \in Nat
    BY <1>1 DEF TypeOK, Drafts, Clock
  <2>2. n \in Saves /\ n.test = t /\ n.at = draft[t].at /\ n.created = draft[t].created /\ n.mtime = 0
    BY <2>1 DEF Saves
  <2>3. /\ stage[t] \in {"saving", "writing"} /\ EndSave(t, FALSE) /\ saved' = saved \cup {n}
        /\ UNCHANGED <<disk, writes>>
    BY <1>4 DEF PersistSnapshot, PersistTooLate, PanelsRead, LogSaved
  <2>4. DraftRow(t) \in Rows /\ SameId(DraftRow(t), n) /\ DraftRow(t).created = n.created
    BY <2>1 DEF DraftRow, Rows, SameId
  <2>5. /\ Up /\ draft[t].at <= draft[t].created /\ draft[t].created <= now
        /\ phase = "closing" => [test |-> t, at |-> draft[t].at] \in late
    BY <1>1, <2>3 DEF Memory, SavedOnce, Saving
  <2>6. \/ rows' = Put(rows, DraftRow(t)) /\ faults' = faults
        \/ rows' = rows /\ faults < MaxFaults /\ faults' = faults + 1
        \/ rows' = rows /\ faults' = faults /\ phase = "closing"
    BY <1>4 DEF PersistSnapshot, PersistTooLate, Fault
  <2>7. phase = "closing" => \E l \in late : SameId(l, n)
    BY <2>2, <2>5 DEF SameId
  <2> HIDE DEF n
  <2>8. \A s \in saved : ~(s.test = t /\ s.at = n.at)
    BY <1>1, <2>2, <2>3, <2>5, IdsAreFresh DEF Saving
  <2>9. /\ faults' \in 0..MaxFaults /\ faults <= faults'
        /\ \/ rows' = rows /\ (faults' # 0 \/ (faults' = faults /\ phase = "closing"))
           \/ rows' = Put(rows, DraftRow(t))
    BY <1>1, <2>6, ConstantsAssumption
  <2>10. n.at <= n.created /\ n.at <= now
    BY <2>1, <2>2, <2>5 DEF Clock
  <2> QED
    BY <1>2, <2>2, <2>3, <2>4, <2>5, <2>7, <2>8, <2>9, <2>10
<1> QED
  BY <1>3, <1>4

-----------------------------------------------------------------------------
(* Starts, and the cleanup loop.                                            *)

\* The first request of a life of the process.
LEMMA ServeKeeps ==
  ASSUME IInv, Serve, phase \in {"down", "importing"}, UNCHANGED historyVars,
         backend' \in Backends, pool' \in BOOLEAN, faults' \in 0..MaxFaults, faults <= faults',
         faults' = 0 /\ backend' = "db" => pool',
         disk' \subseteq disk, FilesMatch(disk', saved), FilesKept(disk', saved),
         toImport' = {}, rows' \subseteq rows,
         faults' = 0 => \A s \in saved : ~Expired(s.created) /\ InDb(s) => InDb(s)',
         faults' = 0 /\ backend' = "db" => \A f \in Listed(disk) : InDb(f)'
  PROVE  IInv'
<1> USE DEF Serve, historyVars
<1>1. TypeOK /\ Memory /\ SavedOnce /\ now \in Nat /\ saved \subseteq Saves /\ faults \in Nat
  BY ConstantsAssumption DEF IInv, TypeOK, Clock
<1>2. TypeOK'
  BY <1>1, ServeType
<1>3. \A t \in Tests : ~Saving(t) /\ ~Saving(t)'
  BY <1>1 DEF Memory, Up, Saving
<1>4. Memory' /\ PartsAgree' /\ ImportGoesOn'
  BY <1>3 DEF Memory, PartsAgree, ImportGoesOn, Up, Saving
<1>5. SavedOnce'
  <2>1. IsFiniteSet(disk')
    BY <1>1, FS_Subset DEF SavedOnce
  <2>2. ASSUME NEW s \in saved
        PROVE  /\ s.test \in Autonomous => s.at <= since'[s.test]
               /\ s.test \notin Autonomous => stage'[s.test] = "over"
    BY <1>1 DEF SavedOnce, TypeOK, Saves
  <2> QED
    BY <1>1, <1>3, <2>1, <2>2 DEF SavedOnce
<1>6. FilesMatch(disk, saved)' /\ FilesKept(disk, saved)'
  BY DEF FilesMatch, FilesKept, Expired
<1>7. RowsMatch'
  BY DEF IInv, RowsMatch
<1>8. RowsAreKept'
  <2>1. Listed(disk)' \subseteq Listed(disk)
    BY DEF Listed, FileExpired, Expired
  <2>2. faults' = 0 => faults = 0
    BY <1>1
  <2>3. faults' = 0 => \A s \in saved : s.mtime = 0 /\ ~Expired(s.created) => InDb(s)' \/ \E l \in late : SameId(l, s)
    BY <2>2 DEF IInv, RowsAreKept
  <2> QED
    BY <2>1, <2>3 DEF RowsAreKept, Expired
<1> QED
  BY <1>2, <1>4, <1>5, <1>6, <1>7, <1>8 DEF IInv

\* A start, of either backend.
LEMMA StartKeeps ==
  ASSUME IInv, StartStep
  PROVE  IInv'
<1>1. /\ TypeOK /\ Memory /\ SavedOnce /\ FilesMatch(disk, saved) /\ FilesKept(disk, saved)
      /\ RowsMatch /\ ImportGoesOn /\ faults \in Nat /\ faults \in 0..MaxFaults
      /\ saved \subseteq Saves /\ IsFiniteSet(saved) /\ UniqueIds(saved)
      /\ disk \subseteq Files /\ IsFiniteSet(disk) /\ UniqueIds(disk)
      /\ rows \subseteq Rows /\ UniqueIds(rows)
      /\ \A s \in saved : s.mtime # 0 => s.at = s.created
  BY ConstantsAssumption DEF IInv, SavedOnce, TypeOK
<1>2. CASE StartWithFiles
  <2>1. /\ Serve /\ phase = "down" /\ backend' = "file" /\ pool' = FALSE /\ disk' = disk \ Due(disk)
        /\ UNCHANGED <<rows, toImport, faults, historyVars>>
    BY <1>2 DEF StartWithFiles, Pruned
  <2>2. FilesMatch(disk', saved) /\ FilesKept(disk', saved)
    BY <1>1, <2>1, PruneKeepsFiles
  <2>3. toImport = {} /\ faults <= faults
    BY <1>1, <2>1 DEF Memory
  <2>4. "file" \in Backends /\ FALSE \in BOOLEAN /\ "file" # "db"
    BY DEF Backends
  <2> QED
    BY <1>1, <2>1, <2>2, <2>3, <2>4, ServeKeeps DEF InDb
<1>3. CASE StartWithDb
  <2>1. /\ phase = "down" /\ phase' = "importing" /\ backend' = "db" /\ pool' = TRUE
        /\ toImport' = {f \in disk : f.whole}
        /\ UNCHANGED <<now, testVars, disk, writes, rows, faults, historyVars>>
    BY <1>3 DEF StartWithDb
  <2> USE <1>1, <2>1 DEF testVars, historyVars, Saving
  <2>2. TypeOK'
    BY DEF TypeOK, Backends
  <2>3. Memory' /\ PartsAgree'
    BY DEF Memory, PartsAgree, Up
  <2>4. SavedOnce'
    BY DEF SavedOnce, Up
  <2>5. FilesMatch(disk, saved)' /\ FilesKept(disk, saved)' /\ RowsMatch' /\ ImportGoesOn'
    BY DEF FilesMatch, FilesKept, Expired, RowsMatch, ImportGoesOn
  <2>6. RowsAreKept'
    BY DEF IInv, RowsAreKept, Up, InDb, Expired
  <2> QED
    BY <2>2, <2>3, <2>4, <2>5, <2>6 DEF IInv
<1>4. CASE ConnectFails
  <2>1. /\ Serve /\ phase = "down" /\ backend' = "db" /\ pool' = FALSE
        /\ faults < MaxFaults /\ faults' = faults + 1
        /\ UNCHANGED <<disk, rows, toImport, historyVars>>
    BY <1>4 DEF ConnectFails, Fault
  <2>2. faults' \in 0..MaxFaults /\ faults <= faults' /\ faults' # 0
    BY <1>1, <2>1, ConstantsAssumption
  <2>3. toImport = {} /\ "db" \in Backends
    BY <1>1, <2>1 DEF Memory, Backends
  <2> QED
    BY <1>1, <2>1, <2>2, <2>3, ServeKeeps
<1>5. ASSUME NEW f \in toImport, ImportFile(f) \/ ImportFails(f)
      PROVE  IInv'
  <2>1. /\ phase = "importing" /\ toImport' = toImport \ {f} /\ f \in disk
        /\ UNCHANGED <<now, processVars, testVars, disk, writes, historyVars>>
    BY <1>1, <1>5 DEF ImportFile, ImportFails, TypeOK
  <2>2. \/ rows' = Put(rows, RowOf(f)) /\ faults' = faults
        \/ rows' = rows /\ faults < MaxFaults /\ faults' = faults + 1
    BY <1>5 DEF ImportFile, ImportFails, Fault
  <2>3. RowOf(f) \in Rows /\ SameId(RowOf(f), f) /\ RowOf(f).created = f.at
    BY <1>1, <2>1 DEF RowOf, Rows, Files, SameId
  <2>4. faults' \in 0..MaxFaults /\ faults <= faults' /\ (rows' = rows => faults' # 0 \/ rows' = Put(rows, RowOf(f)))
    BY <1>1, <2>2, ConstantsAssumption
  <2>5. rows' \subseteq Rows /\ UniqueIds(rows')
    BY <1>1, <2>2, <2>3, PutKeepsIds
  <2> USE <2>1 DEF processVars, testVars, historyVars, Saving
  <2>6. TypeOK'
    BY <1>1, <2>4, <2>5 DEF TypeOK
  <2>7. Memory' /\ PartsAgree'
    BY <1>1 DEF IInv, Memory, PartsAgree, Up
  <2>8. SavedOnce'
    BY <1>1 DEF SavedOnce, Up
  <2>9. FilesMatch(disk, saved)' /\ FilesKept(disk, saved)'
    BY <1>1 DEF FilesMatch, FilesKept, Expired
  <2>10. \A x : InDb(x) => InDb(x)'
    BY <2>2 DEF InDb, Put, SameId
  <2>11. RowsMatch'
    <3>1. f.whole => \E s \in saved : SameId(RowOf(f), s) /\ RowOf(f).created = s.created
      BY <1>1, <2>3 DEF FilesMatch, SameId
    <3>2. f.whole
      BY <1>1 DEF Memory
    <3> QED
      BY <1>1, <2>2, <3>1, <3>2 DEF RowsMatch, Put
  <2>12. ImportGoesOn'
    <3>1. faults' = 0 => faults = 0 /\ InDb(f)'
      BY <1>1, <2>2, <2>3 DEF InDb, Put
    <3> QED
      BY <1>1, <2>10, <3>1 DEF ImportGoesOn
  <2>13. RowsAreKept'
    <3>1. faults' = 0 => faults = 0
      BY <1>1, <2>4
    <3> QED
      BY <2>10, <3>1 DEF IInv, RowsAreKept, Up, Expired
  <2> QED
    BY <1>1, <2>6, <2>7, <2>8, <2>9, <2>11, <2>12, <2>13 DEF IInv
<1>6. CASE StartUpCleanup
  <2>1. /\ Serve /\ phase = "importing" /\ toImport = {} /\ UNCHANGED <<backend, pool, disk, toImport, historyVars>>
        /\ \/ rows' = LiveRows /\ faults' = faults
           \/ rows' = rows /\ faults < MaxFaults /\ faults' = faults + 1
    BY <1>6 DEF StartUpCleanup, Fault
  <2>2. faults' \in 0..MaxFaults /\ faults <= faults' /\ (faults' = 0 => rows' = LiveRows /\ faults = 0)
        /\ pool /\ backend \in Backends /\ pool \in BOOLEAN
    BY <1>1, <2>1, ConstantsAssumption DEF Memory, TypeOK
  <2>3. rows' \subseteq rows
    BY <2>1 DEF LiveRows
  <2>4. faults' = 0 => \A s \in saved : ~Expired(s.created) /\ InDb(s) => InDb(s)'
    BY <2>2, CleanupKeepsRows DEF InDb
  <2>5. faults' = 0 => \A f \in Listed(disk) : InDb(f)'
    BY <1>1, <2>1, <2>2, CleanupKeepsRows DEF ImportGoesOn, InDb, Listed
  <2> QED
    BY <1>1, <2>1, <2>2, <2>3, <2>4, <2>5, ServeKeeps
<1> QED
  BY <1>2, <1>3, <1>4, <1>5, <1>6 DEF StartStep

\* The cleanup loop.
LEMMA CleanupKeeps ==
  ASSUME IInv, Cleanup
  PROVE  IInv'
<1>1. /\ TypeOK /\ Memory /\ SavedOnce /\ FilesMatch(disk, saved) /\ FilesKept(disk, saved)
      /\ saved \subseteq Saves /\ IsFiniteSet(saved) /\ UniqueIds(saved)
      /\ disk \subseteq Files /\ IsFiniteSet(disk) /\ UniqueIds(disk)
      /\ rows \subseteq Rows /\ UniqueIds(rows)
      /\ \A s \in saved : s.mtime # 0 => s.at = s.created
  BY DEF IInv, SavedOnce, TypeOK
<1>2. /\ phase = "serving" /\ UNCHANGED <<now, processVars, testVars, writes, toImport, faults, historyVars>>
      /\ \/ backend = "file" /\ disk' = disk \ Due(disk) /\ rows' = rows
         \/ backend = "db" /\ rows' = LiveRows /\ disk' = disk
  BY DEF Cleanup, Pruned
<1> USE <1>2 DEF processVars, testVars, historyVars, Saving
<1>3. disk' \subseteq disk /\ rows' \subseteq rows /\ toImport = {}
  BY <1>1 DEF LiveRows, Memory
<1>4. TypeOK'
  <2>1. UniqueIds(disk') /\ UniqueIds(rows')
    BY <1>1, <1>3, SubsetKeepsIds
  <2> QED
    BY <1>1, <1>3, <2>1 DEF TypeOK
<1>5. Memory' /\ PartsAgree' /\ ImportGoesOn'
  BY <1>1, <1>3 DEF IInv, Memory, PartsAgree, ImportGoesOn, Up
<1>6. SavedOnce'
  <2>1. IsFiniteSet(disk')
    BY <1>1, <1>3, FS_Subset
  <2> QED
    BY <1>1, <2>1 DEF SavedOnce, Up
<1>7. FilesMatch(disk', saved) /\ FilesKept(disk', saved)
  BY <1>1, PruneKeepsFiles
<1>8. FilesMatch(disk, saved)' /\ FilesKept(disk, saved)'
  BY <1>7 DEF FilesMatch, FilesKept, Expired
<1>9. RowsMatch'
  BY <1>3 DEF IInv, RowsMatch
<1>10. RowsAreKept'
  <2>1. CASE backend = "file"
    BY <2>1 DEF IInv, RowsAreKept, InDb, Expired
  <2>2. CASE backend = "db" /\ rows' = LiveRows /\ disk' = disk
    <3>1. Listed(disk)' = Listed(disk)
      BY <2>2 DEF Listed, FileExpired, Expired
    <3>2. \A s \in saved : ~Expired(s.created) /\ InDb(s) => InDb(s)'
      BY <2>2, CleanupKeepsRows DEF InDb
    <3>3. \A f \in Listed(disk) : InDb(f) => InDb(f)'
      BY <2>2, CleanupKeepsRows DEF InDb
    <3> QED
      BY <2>2, <3>1, <3>2, <3>3 DEF IInv, RowsAreKept, Up, Expired
  <2> QED
    BY <2>1, <2>2
<1> QED
  BY <1>4, <1>5, <1>6, <1>8, <1>9, <1>10 DEF IInv

\* The inductive invariant is kept by every step.
LEMMA SnapshotsStep == IInv /\ [Next]_vars => IInv'
<1> SUFFICES ASSUME IInv, [Next]_vars PROVE IInv'
  OBVIOUS
<1>1. ASSUME NEW t \in Tests, SaveStep(t)
      PROVE  IInv'
  BY <1>1, FileSaveKeeps, DbSaveKeeps, PanelsKeep, CancelSaveKeeps DEF SaveStep
<1>2. CASE UNCHANGED vars
  <2> USE <1>2 DEF vars, processVars, testVars, historyVars, Saving, IInv
  <2>1. TypeOK'
    BY DEF TypeOK
  <2>2. Memory' /\ PartsAgree' /\ ImportGoesOn'
    BY DEF Memory, PartsAgree, ImportGoesOn, InDb, Up
  <2>3. SavedOnce'
    BY DEF SavedOnce, Up
  <2>4. FilesMatch(disk, saved)' /\ FilesKept(disk, saved)' /\ RowsMatch'
    BY DEF FilesMatch, FilesKept, RowsMatch, Expired
  <2>5. RowsAreKept'
    BY DEF RowsAreKept, Up, InDb, Listed, FileExpired, Expired
  <2> QED
    BY <2>1, <2>2, <2>3, <2>4, <2>5
<1> QED
  BY <1>1, <1>2, StartKeeps, StopKeeps, CleanupKeeps, TickKeeps, TestStepKeeps DEF Next

-----------------------------------------------------------------------------
(* The theorems.                                                            *)

\* The inductive invariant behind the theorems about snapshots holds in every reachable
\* state, over any number of restarts, crashes and faults.
THEOREM SnapshotsInductive == Spec => []IInv
<1> QED
  BY SnapshotsInit, SnapshotsStep, PTL DEF Spec

\* snapshot_store.py, db/repository.py: files and rows stay within their types, and no
\* two files and no two rows ever have the same id.
THEOREM SnapshotsTypeCorrect == Spec => []TypeOK
<1>1. IInv => TypeOK
  BY DEF IInv
<1> QED
  BY <1>1, SnapshotsInductive, PTL

\* save_snapshot, prune_snapshots: a saved file is lost only to age or to newer ones,
\* wherever the process crashes and whichever write fails.
THEOREM SavedFilesKept == Spec => []FilesAreKept
<1>1. IInv => FilesAreKept
  BY DEF IInv, FilesKept, FilesAreKept, OnDisk
<1> QED
  BY <1>1, SnapshotsInductive, PTL

\* persist_snapshot, run_retention_cleanup, import_file_snapshots: with a database that
\* never fails no snapshot that is logged as saved, and no readable file, is missing in it,
\* but for those that were in the making when a shutdown stopped waiting for the runs.
THEOREM SavedRowsKept == Spec => []RowsAreKept
<1>1. IInv => RowsAreKept
  BY DEF IInv
<1> QED
  BY <1>1, SnapshotsInductive, PTL

\* list_snapshots: what is out of retention is not shown, whichever backend wrote it and
\* whichever one shows it.
THEOREM OldHidden == Spec => []OldStaysHidden
<1>1. IInv => OldStaysHidden
  <2> SUFFICES ASSUME IInv, NEW s \in saved, Found(s)
               PROVE  ~Expired(s.created)
    BY DEF OldStaysHidden
  <2>1. CASE backend = "file"
    BY <2>1, AgesAgree DEF Found, Listed, FileExpired
  <2>2. CASE backend # "file"
    BY <2>2, AgesAgree DEF Found, LiveRows, RowExpired
  <2> QED
    BY <2>1, <2>2
<1> QED
  BY <1>1, SnapshotsInductive, PTL

\* build_snapshot: the panels of a completed test agree, those of a checkpoint are read
\* in the order of time.
THEOREM PartsOfASnapshotAgree == Spec => []PartsAgree
<1>1. IInv => PartsAgree
  BY DEF IInv
<1> QED
  BY <1>1, SnapshotsInductive, PTL

=============================================================================
