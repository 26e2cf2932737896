--------------------------- MODULE RateLimiterProofs ---------------------------
(***************************************************************************)
(* Proofs about RateLimiter, for all clients, rates, bursts and times.      *)
(***************************************************************************)
EXTENDS RateLimiter, FiniteSetTheorems, SequenceTheorems, TLAPS

\* A bucket was last looked at by the last request of its key.
LastRequest ==
  \A key \in DOMAIN buckets : buckets[key].last = requests[key][Len(requests[key])].at

\* What was admitted since any request, and what is left in the bucket, come from the
\* burst and the refill since that request.
BudgetKept ==
  \A key \in DOMAIN buckets : \A i \in DOMAIN requests[key] :
    Cardinality(Admitted(key, i, Len(requests[key]))) * Token + buckets[key].tokens
      <= Full + (buckets[key].last - requests[key][i].at) * RefillRate(key)

\* Before its request i, the client waited long enough for n tokens.
WaitedFor(key, i, n) ==
  LET waited == requests[key][i].at - requests[key][i - 1].at
  IN  waited * Rpm(key[2]) >= n * Token \/ waited >= n * Token

\* Tokens waited for and not yet asked for are in the bucket.
SavingsKept ==
  \A key \in DOMAIN buckets : \A i \in DOMAIN requests[key] : \A n \in 1..Burst :
    (i > 1 /\ WaitedFor(key, i, n) /\ Len(requests[key]) < i + n) =>
      buckets[key].tokens >= (n - (Len(requests[key]) - i + 1)) * Token

IInv ==
  TypeOK /\ LastRequest /\ BudgetKept /\ AdmittedWithinLimit /\ SavingsKept /\ WaitingIsRewarded

-----------------------------------------------------------------------------
(* The refill.                                                              *)

\* _rpm_to_rate: the rate is at least one token in a minute and the configured rate.
LEMMA RateType ==
  ASSUME NEW key \in Keys
  PROVE  /\ RefillRate(key) \in Nat \ {0} /\ Rpm(key[2]) \in Int
         /\ RefillRate(key) >= Rpm(key[2])
<1>1. key[2] \in LimitedClasses
  BY LimitsAssumption DEF Keys
<1>2. Rpm(key[2]) \in Int
  BY <1>1, LimitsAssumption DEF Rpm, LimitedClasses
<1> QED
  BY <1>2 DEF RefillRate

\* The arithmetic of the refill: intervals of time add up, a longer wait earns no less,
\* and what is earned in the time of n tokens is n tokens.
LEMMA Earning ==
  ASSUME NEW rate \in Nat \ {0}
  PROVE  /\ \A a, b, c \in Int : (a - c) * rate = (b - c) * rate + (a - b) * rate
         /\ \A gap \in Nat : gap * rate \in Nat /\ gap * rate >= gap
         /\ \A gap \in Nat, rpm \in Int : rpm <= rate => gap * rpm <= gap * rate
<1>1. \A a, b, c \in Int : (a - c) * rate = (b - c) * rate + (a - b) * rate
  OBVIOUS
<1>2. ASSUME NEW gap \in Nat
      PROVE  gap * rate \in Nat /\ gap * rate >= gap
  <2>1. rate - 1 \in Nat /\ gap * (rate - 1) \in Nat
    OBVIOUS
  <2>2. gap * rate = gap * (rate - 1) + gap
    OBVIOUS
  <2> QED
    BY <2>1, <2>2
<1>3. ASSUME NEW gap \in Nat, NEW rpm \in Int, rpm <= rate
      PROVE  gap * rpm <= gap * rate
  <2>1. rate - rpm \in Nat /\ gap * (rate - rpm) \in Nat
    BY <1>3
  <2>2. gap * rate = gap * rpm + gap * (rate - rpm) /\ gap * rpm \in Int
    OBVIOUS
  <2> QED
    BY <2>1, <2>2
<1> QED
  BY <1>1, <1>2, <1>3

\* allow: the refill is bounded by the burst and by what the elapsed time earned, and
\* loses nothing else.
LEMMA RefillBounds ==
  ASSUME IInv, NEW key \in DOMAIN buckets
  PROVE  LET earned == (now - buckets[key].last) * RefillRate(key) IN
         /\ earned \in Nat /\ Full \in Nat
         /\ buckets[key].tokens \in 0..Full
         /\ TokensNow(key) \in 0..Full
         /\ TokensNow(key) <= buckets[key].tokens + earned
         /\ \A x \in Int : x <= Full /\ x <= buckets[key].tokens + earned => x <= TokensNow(key)
<1> DEFINE gap == now - buckets[key].last
<1>1. /\ key \in Keys
      /\ buckets[key].tokens \in 0..Full
      /\ buckets[key].last \in 0..now
      /\ now \in Nat
  BY LimitsAssumption DEF IInv, TypeOK
<1>2. gap \in Nat
  BY <1>1
<1>3. gap * RefillRate(key) \in Nat
  BY <1>1, <1>2, RateType, Earning
<1>4. Full \in Nat
  BY LimitsAssumption DEF Full, Token
<1>5. TokensNow(key) = Capped(buckets[key].tokens + gap * RefillRate(key))
  BY DEF TokensNow
<1> HIDE DEF gap
<1>6. DEFINE earned == gap * RefillRate(key)
<1> HIDE DEF earned
<1>7. /\ TokensNow(key) \in 0..Full
      /\ TokensNow(key) <= buckets[key].tokens + earned
      /\ \A x \in Int : x <= Full /\ x <= buckets[key].tokens + earned => x <= TokensNow(key)
  BY <1>1, <1>3, <1>4, <1>5 DEF Capped, earned
<1> QED
  BY <1>1, <1>3, <1>4, <1>7 DEF gap, earned

-----------------------------------------------------------------------------
(* The steps.                                                               *)

\* What a request does to its own bucket and history, and to those of the others.
LEMMA RequestEffect ==
  ASSUME IInv, NEW key \in Keys, Request(key)
  PROVE  LET size == Len(requests[key])
             entry == [at |-> now, admitted |-> Admits(key)]
         IN
         /\ size \in Nat /\ DOMAIN requests[key] = 1..size
         /\ requests'[key] = Append(requests[key], entry)
         /\ requests'[key] \in Seq([at : 0..now, admitted : BOOLEAN])
         /\ Len(requests'[key]) = size + 1 /\ DOMAIN requests'[key] = 1..(size + 1)
         /\ \A i \in 1..size : requests'[key][i] = requests[key][i]
         /\ requests'[key][size + 1] = entry
         /\ DOMAIN buckets' = DOMAIN buckets \cup {key}
         /\ buckets'[key] = [tokens |-> TokensNow(key) - (IF Admits(key) THEN Token ELSE 0),
                             last |-> now]
         /\ \A k \in Keys \ {key} : requests'[k] = requests[k]
         /\ \A k \in DOMAIN buckets \ {key} : buckets'[k] = buckets[k]
         /\ now' = now /\ now \in Nat
<1> DEFINE entry == [at |-> now, admitted |-> Admits(key)]
           Entries == [at : 0..now, admitted : BOOLEAN]
<1>1. requests[key] \in Seq(Entries) /\ now \in Nat
  <2>1. now \in Nat
    BY LimitsAssumption DEF IInv, TypeOK
  <2>2. requests \in [Keys -> Seq(Entries)]
    BY DEF IInv, TypeOK
  <2> QED
    BY <2>1, <2>2
<1>2. entry \in Entries
  BY <1>1 DEF Admits
<1>3. requests' = [requests EXCEPT ![key] = Append(@, entry)] /\ now' = now
  BY DEF Request
<1>4. requests'[key] = Append(requests[key], entry) /\ \A k \in Keys \ {key} : requests'[k] = requests[k]
  BY <1>3 DEF IInv, TypeOK
<1> HIDE DEF entry, Entries
<1>5. /\ requests'[key] \in Seq(Entries)
      /\ Len(requests'[key]) = Len(requests[key]) + 1
      /\ \A i \in 1..Len(requests[key]) : requests'[key][i] = requests[key][i]
      /\ requests'[key][Len(requests[key]) + 1] = entry
  BY <1>1, <1>2, <1>4, AppendProperties
<1>6. /\ Len(requests[key]) \in Nat /\ DOMAIN requests[key] = 1..Len(requests[key])
      /\ DOMAIN requests'[key] = 1..(Len(requests[key]) + 1)
  BY <1>1, <1>5
<1>7. /\ DOMAIN buckets' = DOMAIN buckets \cup {key}
      /\ buckets'[key] = [tokens |-> TokensNow(key) - (IF Admits(key) THEN Token ELSE 0),
                          last |-> now]
      /\ \A k \in DOMAIN buckets \ {key} : buckets'[k] = buckets[k]
  BY DEF Request
<1> QED
  BY <1>1, <1>3, <1>4, <1>5, <1>6, <1>7 DEF entry, Entries

\* The number of admitted requests since request i grows by the new one, if it is admitted.
LEMMA CountGrows ==
  ASSUME IInv, NEW key \in Keys, Request(key), NEW i \in 1..(Len(requests[key]) + 1)
  PROVE  /\ Cardinality(Admitted(key, i, Len(requests[key]))) \in Nat
         /\ Cardinality({l \in i..(Len(requests[key]) + 1) : requests'[key][l].admitted})
              = Cardinality(Admitted(key, i, Len(requests[key]))) + (IF Admits(key) THEN 1 ELSE 0)
         /\ i = Len(requests[key]) + 1 =>
              Cardinality(Admitted(key, i, Len(requests[key]))) = 0
<1> DEFINE size == Len(requests[key])
           old == Admitted(key, i, size)
           new == {l \in i..(size + 1) : requests'[key][l].admitted}
<1>1. /\ size \in Nat
      /\ \A l \in 1..size : requests'[key][l] = requests[key][l]
      /\ requests'[key][size + 1].admitted = Admits(key)
  <2>1. requests'[key][size + 1] = [at |-> now, admitted |-> Admits(key)]
    BY RequestEffect
  <2>2. requests'[key][size + 1].admitted = Admits(key)
    BY <2>1
  <2>3. size \in Nat /\ \A l \in 1..size : requests'[key][l] = requests[key][l]
    BY RequestEffect
  <2> QED
    BY <2>2, <2>3
<1>2. IsFiniteSet(old) /\ Cardinality(old) \in Nat /\ size + 1 \notin old
  <2>1. IsFiniteSet(i..size)
    BY <1>1, FS_Interval
  <2>2. old \subseteq i..size
    BY DEF Admitted
  <2> QED
    BY <1>1, <2>1, <2>2, FS_Subset, FS_CardinalityType
<1>3. new = IF Admits(key) THEN old \cup {size + 1} ELSE old
  <2>1. i \in Nat /\ 1 <= i /\ i <= size + 1
    BY <1>1
  <2>2. \A l : l \in i..(size + 1) <=> l \in i..size \/ l = size + 1
    BY <1>1, <2>1
  <2>3. \A l \in i..size : l \in 1..size
    BY <1>1, <2>1
  <2> QED
    BY <1>1, <2>2, <2>3 DEF Admitted
<1>4. i = size + 1 => Cardinality(old) = 0
  <2>1. i = size + 1 => old = {}
    BY <1>1 DEF Admitted
  <2> QED
    BY <2>1, FS_EmptySet
<1>5. CASE Admits(key)
  <2>1. Cardinality(old \cup {size + 1}) = Cardinality(old) + 1
    BY <1>2, FS_AddElement
  <2> QED
    BY <1>2, <1>3, <1>4, <1>5, <2>1
<1>6. CASE ~Admits(key)
  <2>1. new = old
    BY <1>3, <1>6
  <2>2. Cardinality(old) = Cardinality(old) + (IF Admits(key) THEN 1 ELSE 0)
    BY <1>2, <1>6
  <2> QED
    BY <1>2, <1>4, <2>1, <2>2
<1> QED
  BY <1>5, <1>6

\* A request keeps the inductive invariant.
LEMMA RequestStep ==
  ASSUME IInv, NEW key \in Keys, Request(key)
  PROVE  IInv'
<1> DEFINE size == Len(requests[key])
           count(i) == Cardinality(Admitted(key, i, size))
           newCount(i) == Cardinality({l \in i..(size + 1) : requests'[key][l].admitted})
           rate == RefillRate(key)
           cost == IF Admits(key) THEN Token ELSE 0
<1>1. /\ size \in Nat /\ DOMAIN requests[key] = 1..size
      /\ Len(requests'[key]) = size + 1 /\ DOMAIN requests'[key] = 1..(size + 1)
      /\ \A i \in 1..size : requests'[key][i] = requests[key][i]
      /\ now' = now /\ now \in Nat
      /\ \A k \in Keys \ {key} : requests'[k] = requests[k]
      /\ \A k \in DOMAIN buckets \ {key} : buckets'[k] = buckets[k]
      /\ DOMAIN buckets' = DOMAIN buckets \cup {key} /\ DOMAIN buckets' \subseteq Keys
      /\ requests'[key] \in Seq([at : 0..now, admitted : BOOLEAN])
  <2>1. DOMAIN buckets \subseteq Keys
    BY DEF IInv, TypeOK
  <2> QED
    BY <2>1, RequestEffect
<1>2. requests'[key][size + 1].at = now /\ requests'[key][size + 1].admitted = Admits(key)
  <2>1. requests'[key][size + 1] = [at |-> now, admitted |-> Admits(key)]
    BY RequestEffect
  <2> QED
    BY <2>1
<1>3. buckets'[key].tokens = TokensNow(key) - cost /\ buckets'[key].last = now
      /\ buckets'[key] = [tokens |-> TokensNow(key) - cost, last |-> now]
  <2>1. buckets'[key] = [tokens |-> TokensNow(key) - cost, last |-> now]
    BY RequestEffect
  <2> QED
    BY <2>1
<1>4. /\ rate \in Nat \ {0} /\ Full \in Nat
      /\ TokensNow(key) \in 0..Full
      /\ cost \in {0, Token}
      /\ TokensNow(key) - cost \in 0..Full
  <2>1. Full \in Nat
    BY LimitsAssumption DEF Full, Token
  <2>2. TokensNow(key) \in 0..Full
    <3>1. CASE key \in DOMAIN buckets
      BY <3>1, RefillBounds
    <3>2. CASE key \notin DOMAIN buckets
      BY <2>1, <3>2 DEF TokensNow, Capped
    <3> QED
      BY <3>1, <3>2
  <2> QED
    BY <2>1, <2>2, RateType DEF Admits, Token
<1>5. \A i \in 1..size : requests[key][i].at \in 0..now
  <2> DEFINE Entries == [at : 0..now, admitted : BOOLEAN]
  <2>1. requests[key] \in Seq(Entries)
    BY DEF IInv, TypeOK
  <2> HIDE DEF Entries
  <2>2. \A i \in 1..size : requests[key][i] \in Entries
    BY <1>1, <2>1
  <2> QED
    BY <2>2 DEF Entries
<1>6. key \notin DOMAIN buckets => size = 0
  BY <1>1, EmptySeq DEF IInv, TypeOK
<1>7. TypeOK'
  <2>1. now' \in 0..MaxTime
    BY <1>1 DEF IInv, TypeOK
  <2>2. requests' \in [Keys -> Seq([at : 0..now', admitted : BOOLEAN])]
    <3>1. requests' = [requests EXCEPT ![key] = requests'[key]]
      BY DEF Request, IInv, TypeOK
    <3>2. requests \in [Keys -> Seq([at : 0..now, admitted : BOOLEAN])]
      BY DEF IInv, TypeOK
    <3> QED
      BY <1>1, <3>1, <3>2
  <2>3. DOMAIN buckets' = {k \in Keys : requests'[k] # << >>}
    <3>1. requests'[key] # << >>
      BY <1>1, EmptySeq
    <3> QED
      BY <1>1, <3>1 DEF IInv, TypeOK
  <2>4. \A k \in DOMAIN buckets' : buckets'[k] \in [tokens : 0..Full, last : 0..now']
    <3>1. buckets'[key] \in [tokens : 0..Full, last : 0..now']
      BY <1>1, <1>3, <1>4
    <3> QED
      BY <1>1, <3>1 DEF IInv, TypeOK
  <2> QED
    BY <2>1, <2>2, <2>3, <2>4 DEF TypeOK
<1>8. LastRequest'
  BY <1>1, <1>2, <1>3 DEF IInv, LastRequest
<1>9. ASSUME NEW i \in 1..size
      PROVE  LET earned == (now - buckets[key].last) * rate IN
             /\ key \in DOMAIN buckets
             /\ count(i) * Token + buckets[key].tokens
                  <= Full + (buckets[key].last - requests[key][i].at) * rate
             /\ (now - requests[key][i].at) * rate
                  = (buckets[key].last - requests[key][i].at) * rate + earned
             /\ earned \in Nat
             /\ buckets[key].tokens \in Nat
             /\ (buckets[key].last - requests[key][i].at) * rate \in Int
  <2>1. key \in DOMAIN buckets
    BY <1>1, <1>6
  <2>2. /\ now \in Int /\ buckets[key].last \in Int /\ requests[key][i].at \in Int
        /\ buckets[key].tokens \in Nat
    <3>1. buckets[key] \in [tokens : 0..Full, last : 0..now]
      BY <2>1 DEF IInv, TypeOK
    <3>2. buckets[key].tokens \in 0..Full /\ buckets[key].last \in 0..now
      BY <3>1
    <3>3. requests[key][i].at \in 0..now
      BY <1>5
    <3> QED
      BY <1>1, <1>4, <3>2, <3>3
  <2>3. (now - requests[key][i].at) * rate
          = (buckets[key].last - requests[key][i].at) * rate + (now - buckets[key].last) * rate
    BY <1>4, <2>2, Earning
  <2>4. (buckets[key].last - requests[key][i].at) * rate \in Int
    BY <1>4, <2>2
  <2>5. (now - buckets[key].last) * rate \in Nat
    BY <2>1, RefillBounds
  <2>6. count(i) * Token + buckets[key].tokens
          <= Full + (buckets[key].last - requests[key][i].at) * rate
    BY <1>1, <2>1 DEF IInv, BudgetKept
  <2> QED
    BY <2>1, <2>2, <2>3, <2>4, <2>5, <2>6
<1>10. ASSUME NEW i \in 1..(size + 1)
       PROVE  newCount(i) * Token + buckets'[key].tokens
                <= Full + (now - requests'[key][i].at) * rate
  <2>1. /\ newCount(i) = count(i) + (IF Admits(key) THEN 1 ELSE 0)
        /\ count(i) \in Nat /\ (i = size + 1 => count(i) = 0)
    BY CountGrows
  <2> HIDE DEF count, newCount, rate
  <2>2. newCount(i) * Token + buckets'[key].tokens
          = count(i) * Token + TokensNow(key)
    BY <1>3, <1>4, <2>1, LimitsAssumption DEF Token, Full
  <2>3. CASE i = size + 1
    <3>1. (now - requests'[key][i].at) * rate = 0
      BY <1>1, <1>2, <1>4, <2>3
    <3>2. count(i) * Token = 0
      BY <2>1, <2>3 DEF Token
    <3> QED
      BY <1>4, <2>2, <3>1, <3>2
  <2>4. CASE i \in 1..size
    <3> DEFINE earned == (now - buckets[key].last) * rate
    <3>1. TokensNow(key) <= buckets[key].tokens + earned
      BY <1>9, <2>4, RefillBounds DEF rate
    <3>2. requests'[key][i].at = requests[key][i].at
      BY <1>1, <2>4
    <3> DEFINE before == (buckets[key].last - requests[key][i].at) * rate
               after == (now - requests'[key][i].at) * rate
    <3> HIDE DEF earned
    <3>3. /\ count(i) * Token + buckets[key].tokens <= Full + before
          /\ (now - requests[key][i].at) * rate = before + earned
          /\ earned \in Nat /\ buckets[key].tokens \in Nat /\ before \in Int
      BY <1>9, <2>4 DEF earned, count, rate
    <3>4. after = before + earned
      BY <3>2, <3>3
    <3> HIDE DEF before, after
    <3>5. count(i) * Token + TokensNow(key) <= Full + after
      <4>1. count(i) * Token \in Nat /\ TokensNow(key) \in Nat
        BY <1>4, <2>1 DEF Token
      <4> QED
        BY <1>4, <3>1, <3>3, <3>4, <4>1
    <3> QED
      BY <2>2, <3>5 DEF after
  <2> QED
    BY <1>1, <2>3, <2>4
<1>11. BudgetKept'
  <2> SUFFICES ASSUME NEW k \in DOMAIN buckets', NEW i \in DOMAIN requests'[k]
               PROVE  Cardinality({l \in i..Len(requests'[k]) : requests'[k][l].admitted}) * Token
                        + buckets'[k].tokens
                        <= Full + (buckets'[k].last - requests'[k][i].at) * RefillRate(k)
    BY DEF BudgetKept, Admitted
  <2>1. CASE k = key
    BY <1>1, <1>3, <1>10, <2>1
  <2>2. CASE k # key
    <3>1. k \in DOMAIN buckets /\ requests'[k] = requests[k] /\ buckets'[k] = buckets[k]
      BY <1>1, <2>2
    <3> QED
      BY <3>1 DEF IInv, BudgetKept, Admitted
  <2> QED
    BY <2>1, <2>2
<1>12. AdmittedWithinLimit'
  <2> SUFFICES ASSUME NEW k \in Keys, NEW i \in DOMAIN requests'[k], NEW j \in DOMAIN requests'[k],
                      i <= j
               PROVE  Cardinality({l \in i..j : requests'[k][l].admitted}) * Token
                        <= Full + (requests'[k][j].at - requests'[k][i].at) * RefillRate(k)
    BY DEF AdmittedWithinLimit, Admitted
  <2>1. CASE k = key /\ j = size + 1
    <3> DEFINE allowed == Full + (now - requests'[key][i].at) * rate
    <3>1. newCount(i) * Token + buckets'[key].tokens <= allowed
      BY <1>1, <1>10, <2>1
    <3>2. buckets'[key].tokens \in Nat
      BY <1>3, <1>4
    <3>3. newCount(i) \in Nat /\ allowed \in Int
      <4>1. requests'[key][i].at \in Int
        <5>1. i \in 1..size \/ i = size + 1
          <6>1. i \in 1..(size + 1) /\ size \in Nat
            BY <1>1, <2>1
          <6> HIDE DEF size
          <6> QED
            BY <6>1
        <5>2. CASE i \in 1..size
          <6>1. requests'[key][i] = requests[key][i] /\ requests[key][i].at \in 0..now
            BY <1>1, <1>5, <5>2
          <6> QED
            BY <6>1
        <5>3. CASE i = size + 1
          <6>1. now \in Int
            BY <1>1
          <6> QED
            BY <1>2, <5>3, <6>1
        <5> QED
          BY <5>1, <5>2, <5>3
      <4>2. newCount(i) \in Nat
        <5>1. i \in 1..(size + 1)
          BY <1>1, <2>1
        <5>2. count(i) \in Nat /\ newCount(i) = count(i) + (IF Admits(key) THEN 1 ELSE 0)
          BY <5>1, CountGrows
        <5> HIDE DEF count, newCount
        <5> QED
          BY <5>2
      <4>3. now \in Int /\ rate \in Int /\ Full \in Int
        BY <1>1, <1>4
      <4> HIDE DEF rate, newCount
      <4> QED
        BY <4>1, <4>2, <4>3
    <3> HIDE DEF allowed, newCount
    <3>4. newCount(i) * Token <= allowed
      BY <3>1, <3>2, <3>3 DEF Token
    <3> QED
      BY <1>2, <2>1, <3>4 DEF allowed, newCount
  <2>2. CASE k = key /\ j \in 1..size
    <3>1. i \in 1..size /\ \A l \in i..j : l \in 1..size
      <4>1. i \in 1..(size + 1) /\ size \in Nat
        BY <1>1, <2>2
      <4> HIDE DEF size
      <4> QED
        BY <2>2, <4>1
    <3>2. {l \in i..j : requests'[key][l].admitted} = Admitted(key, i, j)
      BY <1>1, <3>1 DEF Admitted
    <3>3. requests'[key][i] = requests[key][i] /\ requests'[key][j] = requests[key][j]
      BY <1>1, <2>2, <3>1
    <3> QED
      BY <1>1, <2>2, <3>1, <3>2, <3>3 DEF IInv, AdmittedWithinLimit
  <2>3. CASE k # key
    BY <1>1, <2>3 DEF IInv, AdmittedWithinLimit, Admitted
  <2> QED
    BY <1>1, <2>1, <2>2, <2>3
<1>13. ASSUME NEW i \in 2..(size + 1), NEW n \in 1..Burst, WaitedFor(key, i, n)', size + 1 < i + n
       PROVE  Admits(key) /\ TokensNow(key) >= (n - (size - i + 1)) * Token
  <2> DEFINE owed == (n - (size - i + 1)) * Token
  <2>1. owed \in Int /\ owed >= Token /\ owed <= Full
    <3>1. size \in Nat /\ Burst \in Nat
      BY <1>1, LimitsAssumption
    <3> HIDE DEF size
    <3> QED
      BY <1>13, <3>1 DEF Token, Full
  <2>2. key \in DOMAIN buckets
    BY <1>1, <1>6, <1>13
  <2>3. CASE i = size + 1
    <3> DEFINE gap == now - buckets[key].last
               earned == gap * rate
    <3>1. size \in 1..size /\ buckets[key].last = requests'[key][size].at
      <4>1. size \in Nat /\ size + 1 \in 2..(size + 1)
        BY <1>1, <1>13, <2>3
      <4>2. size \in 1..size
        <5> HIDE DEF size
        <5> QED
          BY <4>1
      <4>3. requests'[key][size] = requests[key][size]
        BY <1>1, <4>2
      <4>4. buckets[key].last = requests[key][size].at
        BY <2>2 DEF IInv, LastRequest
      <4> QED
        BY <4>2, <4>3, <4>4
    <3>2. requests'[key][i].at - requests'[key][i - 1].at = gap
      BY <1>1, <1>2, <2>3, <3>1
    <3>3. gap * Rpm(key[2]) >= n * Token \/ gap >= n * Token
      BY <1>13, <3>2 DEF WaitedFor
    <3>4. gap \in Nat
      <4>1. buckets[key] \in [tokens : 0..Full, last : 0..now]
        BY <2>2 DEF IInv, TypeOK
      <4>2. buckets[key].last \in 0..now
        BY <4>1
      <4> QED
        BY <1>1, <4>2
    <3> HIDE DEF gap
    <3>5. /\ Rpm(key[2]) \in Int /\ Rpm(key[2]) <= rate /\ earned \in Nat
          /\ gap * Rpm(key[2]) <= earned /\ gap <= earned
      <4>1. Rpm(key[2]) \in Int /\ Rpm(key[2]) <= rate
        BY RateType, <1>4
      <4>2. \A rpm \in Int : rpm <= rate => gap * rpm <= gap * rate
        BY <1>4, <3>4, Earning
      <4>3. gap * rate \in Nat /\ gap * rate >= gap
        BY <1>4, <3>4, Earning
      <4> QED
        BY <4>1, <4>2, <4>3
    <3> DEFINE paid == gap * Rpm(key[2])
    <3>6. paid \in Int
      BY <3>4, <3>5
    <3> HIDE DEF earned, paid
    <3>7. n * Token <= earned /\ owed = n * Token
      <4>1. paid >= n * Token \/ gap >= n * Token
        BY <3>3 DEF paid
      <4>2. paid <= earned /\ gap <= earned /\ earned \in Nat
        BY <3>5 DEF paid
      <4> QED
        BY <1>1, <2>3, <3>4, <3>6, <4>1, <4>2 DEF Token
    <3>8. buckets[key].tokens \in Nat
      BY <2>2, RefillBounds
    <3>9. \A x \in Int : x <= Full /\ x <= buckets[key].tokens + earned => x <= TokensNow(key)
      BY <2>2, RefillBounds DEF earned, gap
    <3> HIDE DEF owed
    <3>10. owed <= buckets[key].tokens + earned
      BY <2>1, <3>5, <3>7, <3>8 DEF earned
    <3>11. owed <= TokensNow(key)
      BY <2>1, <3>9, <3>10
    <3>12. TokensNow(key) >= Token /\ TokensNow(key) >= owed
      BY <1>4, <2>1, <3>11 DEF Token
    <3> QED
      BY <3>12 DEF Admits, owed
  <2>4. CASE i \in 2..size
    <3>1. i - 1 \in 1..size /\ i \in 1..size /\ size < i + n
      BY <1>1, <1>13, <2>4
    <3>2. WaitedFor(key, i, n)
      BY <1>1, <1>13, <3>1 DEF WaitedFor
    <3>3. buckets[key].tokens >= owed
      <4>1. i \in DOMAIN requests[key] /\ i > 1
        BY <1>1, <2>4
      <4> QED
        BY <2>2, <3>1, <3>2, <4>1 DEF IInv, SavingsKept
    <3> DEFINE earned == (now - buckets[key].last) * rate
    <3>4. /\ \A x \in Int : x <= Full /\ x <= buckets[key].tokens + earned => x <= TokensNow(key)
          /\ buckets[key].tokens \in 0..Full /\ earned \in Nat
      BY <2>2, RefillBounds
    <3> HIDE DEF owed, earned
    <3>5. owed <= TokensNow(key)
      BY <1>4, <2>1, <3>3, <3>4
    <3>6. TokensNow(key) >= Token
      BY <1>4, <2>1, <3>5 DEF Token
    <3> QED
      BY <1>4, <2>1, <3>5, <3>6 DEF Admits, owed
  <2>5. i = size + 1 \/ i \in 2..size
    <3>1. size \in Nat
      BY <1>1
    <3> HIDE DEF size
    <3> QED
      BY <3>1
  <2> QED
    BY <2>3, <2>4, <2>5
<1>14. SavingsKept'
  <2> SUFFICES ASSUME NEW k \in DOMAIN buckets', NEW i \in DOMAIN requests'[k], NEW n \in 1..Burst,
                      i > 1, WaitedFor(k, i, n)', Len(requests'[k]) < i + n
               PROVE  buckets'[k].tokens >= (n - (Len(requests'[k]) - i + 1)) * Token
    BY DEF SavingsKept
  <2>1. CASE k = key
    <3>1. i \in 2..(size + 1) /\ size + 1 < i + n
      BY <1>1, <2>1
    <3>2. Admits(key) /\ TokensNow(key) >= (n - (size - i + 1)) * Token
      BY <1>13, <2>1, <3>1
    <3>3. buckets'[key].tokens = TokensNow(key) - Token
      BY <1>3, <3>2
    <3>4. TokensNow(key) \in Nat /\ size \in Nat /\ Len(requests'[k]) = size + 1 /\ Burst \in Nat
      BY <1>1, <1>4, <2>1, LimitsAssumption
    <3> HIDE DEF size
    <3>5. (n - (size + 1 - i + 1)) * Token = (n - (size - i + 1)) * Token - Token
      BY <3>1, <3>4 DEF Token
    <3>6. (n - (size - i + 1)) * Token \in Int
      BY <3>1, <3>4 DEF Token
    <3>7. TokensNow(key) - Token >= (n - (size + 1 - i + 1)) * Token
      BY <3>2, <3>4, <3>5, <3>6 DEF Token
    <3> QED
      BY <2>1, <3>3, <3>4, <3>7
  <2>2. CASE k # key
    <3>1. k \in DOMAIN buckets /\ requests'[k] = requests[k] /\ buckets'[k] = buckets[k]
      BY <1>1, <2>2
    <3> QED
      BY <3>1 DEF IInv, SavingsKept, WaitedFor
  <2> QED
    BY <2>1, <2>2
<1>15. WaitingIsRewarded'
  <2> SUFFICES ASSUME NEW k \in Keys, NEW i \in DOMAIN requests'[k], NEW n \in 1..Burst,
                      i > 1, WaitedFor(k, i, n)', NEW j \in DOMAIN requests'[k],
                      i <= j, j < i + n
               PROVE  requests'[k][j].admitted
    BY DEF WaitingIsRewarded, WaitedFor
  <2>0. k = key => j \in 1..size \/ j = size + 1
    <3>1. k = key => j \in 1..(size + 1) /\ size \in Nat
      BY <1>1
    <3> HIDE DEF size
    <3> QED
      BY <3>1
  <2>1. CASE k = key /\ j = size + 1
    <3>1. i \in 2..(size + 1)
      BY <1>1, <2>1
    <3>2. Admits(key)
      BY <1>13, <2>1, <3>1
    <3> QED
      BY <1>2, <2>1, <3>2
  <2>2. CASE k = key /\ j \in 1..size
    <3>1. i \in 1..size /\ i - 1 \in 1..size
      <4>1. size \in Nat /\ i \in 1..(size + 1)
        BY <1>1, <2>2
      <4> HIDE DEF size
      <4> QED
        BY <2>2, <4>1
    <3>2. WaitedFor(key, i, n)
      BY <1>1, <2>2, <3>1 DEF WaitedFor
    <3> QED
      BY <1>1, <2>2, <3>1, <3>2 DEF IInv, WaitingIsRewarded, WaitedFor
  <2>3. CASE k # key
    BY <1>1, <2>3 DEF IInv, WaitingIsRewarded, WaitedFor
  <2> QED
    BY <2>0, <2>1, <2>2, <2>3
<1> QED
  BY <1>7, <1>8, <1>11, <1>12, <1>14, <1>15 DEF IInv

-----------------------------------------------------------------------------
(* The theorems.                                                            *)

\* The limiter starts without buckets.
LEMMA LimiterInit == Init => IInv
<1> SUFFICES ASSUME Init PROVE IInv
  OBVIOUS
<1>1. TypeOK
  BY LimitsAssumption DEF Init, TypeOK
<1>2. DOMAIN buckets = {} /\ \A key \in Keys : DOMAIN requests[key] = {}
  BY DEF Init
<1> QED
  BY <1>1, <1>2 DEF IInv, LastRequest, BudgetKept, AdmittedWithinLimit, SavingsKept, WaitingIsRewarded

\* Requests, waiting and stuttering keep the inductive invariant.
LEMMA LimiterStep == IInv /\ [Next]_vars => IInv'
<1> SUFFICES ASSUME IInv, [Next]_vars PROVE IInv'
  OBVIOUS
<1>1. ASSUME UNCHANGED <<buckets, requests>>, now' \in 0..MaxTime, now' >= now
      PROVE  IInv'
  <2> DEFINE Entries(t) == [at : 0..t, admitted : BOOLEAN]
  <2>1. now \in Nat /\ now' \in Nat /\ 0..now \subseteq 0..now'
    BY <1>1, LimitsAssumption DEF IInv, TypeOK
  <2>2. \A key \in Keys : requests[key] \in Seq(Entries(now'))
    <3> SUFFICES ASSUME NEW key \in Keys PROVE requests[key] \in Seq(Entries(now'))
      OBVIOUS
    <3>1. requests[key] \in Seq(Entries(now))
      BY DEF IInv, TypeOK
    <3>2. Entries(now) \subseteq Entries(now')
      BY <2>1
    <3> HIDE DEF Entries
    <3> QED
      BY <3>1, <3>2
  <2>3. TypeOK'
    <3>1. requests \in [Keys -> Seq(Entries(now'))]
      BY <2>2 DEF IInv, TypeOK
    <3>2. \A key \in DOMAIN buckets : buckets[key] \in [tokens : 0..Full, last : 0..now']
      BY <2>1 DEF IInv, TypeOK
    <3> QED
      BY <1>1, <3>1, <3>2 DEF IInv, TypeOK
  <2>4. LastRequest' /\ BudgetKept' /\ AdmittedWithinLimit'
    BY <1>1 DEF IInv, LastRequest, BudgetKept, AdmittedWithinLimit, Admitted
  <2>5. SavingsKept' /\ WaitingIsRewarded'
    BY <1>1 DEF IInv, SavingsKept, WaitingIsRewarded, WaitedFor
  <2> QED
    BY <2>3, <2>4, <2>5 DEF IInv
<1>2. ASSUME NEW seconds \in Waits, Wait(seconds)
      PROVE  IInv'
  <2>1. now \in Nat /\ seconds \in Nat
    BY LimitsAssumption DEF IInv, TypeOK
  <2>2. now' \in 0..MaxTime /\ now' >= now
    BY <1>2, <2>1, LimitsAssumption DEF Wait
  <2> QED
    BY <1>1, <1>2, <2>2 DEF Wait
<1>3. CASE UNCHANGED vars
  <2>1. now \in 0..MaxTime /\ now' = now /\ now \in Nat
    BY <1>3, LimitsAssumption DEF vars, IInv, TypeOK
  <2>2. now' \in 0..MaxTime /\ now' >= now
    BY <2>1
  <2> QED
    BY <1>1, <1>3, <2>2 DEF vars
<1> QED
  BY <1>2, <1>3, RequestStep DEF Next

\* The inductive invariant behind the theorems about the token buckets holds in every
\* reachable state.
THEOREM LimiterInductive == Spec => []IInv
<1> QED
  BY LimiterInit, LimiterStep, PTL DEF Spec

\* rate_limit.py: a key has a bucket as soon as it has sent a request, with at most
\* Burst tokens.
THEOREM LimiterTypeCorrect == Spec => []TypeOK
<1>1. IInv => TypeOK
  BY DEF IInv
<1> QED
  BY <1>1, LimiterInductive, PTL

\* RateLimiter.allow never admits more than the burst and the rate of the time that
\* passed, in any stretch of a client's requests.
THEOREM LimitHolds == Spec => []AdmittedWithinLimit
<1>1. IInv => AdmittedWithinLimit
  BY DEF IInv
<1> QED
  BY <1>1, LimiterInductive, PTL

\* RateLimiter.allow admits the requests a client has waited for.
THEOREM WaitingRewarded == Spec => []WaitingIsRewarded
<1>1. IInv => WaitingIsRewarded
  BY DEF IInv
<1> QED
  BY <1>1, LimiterInductive, PTL

=============================================================================
