---------------------------- MODULE DashboardProofs ----------------------------
(***************************************************************************)
(* Proofs about Dashboard, for any page, limits and clients: the page is a *)
(* client of the limiter like others, and a live page recovers whenever    *)
(* the limiter has enough tokens for one refresh per period.               *)
(***************************************************************************)
EXTENDS Dashboard, RateLimiterProofs

-----------------------------------------------------------------------------
(* The page is a client of the limiter.                                     *)

\* A step of the page is a request, a wait, or nothing to the limiter.
LEMMA PageStepIsLimiterStep == [PageNext]_pageVars => [Next]_vars
<1> SUFFICES ASSUME [PageNext]_pageVars PROVE [Next]_vars
  OBVIOUS
<1> USE DashboardAssumption
<1>1. CASE UserStep
  BY <1>1 DEF UserStep, ChangeFilter, ChooseMode, ChooseLanguage, ToggleAuto, ShowEvents, Next
<1>2. CASE ConnectionFails \/ Answer \/ StrayAnswer \/ TimerFires
  BY <1>2 DEF ConnectionFails, Answer, StrayAnswer, TimerFires, Next
<1>3. CASE \E key \in Keys : FreeRequest(key)
  BY <1>3 DEF FreeRequest, Next
<1>4. CASE \E seconds \in Waits : PageWait(seconds)
  BY <1>4 DEF PageWait, Next
<1>5. CASE UNCHANGED pageVars
  BY <1>5 DEF pageVars
<1> QED
  BY <1>1, <1>2, <1>3, <1>4, <1>5 DEF PageNext

\* The dashboard with the limiter behaves, as far as the limiter is concerned, like some
\* clients of the limiter: all that is proved about RateLimiter holds with the page.
THEOREM PageUsesLimiter == PageSpec => Spec
<1>1. PageInit => Init
  BY DEF PageInit
<1> QED
  BY <1>1, PageStepIsLimiterStep, PTL DEF PageSpec, Spec

-----------------------------------------------------------------------------
(* The recovery of a live page.                                             *)

Active == open /\ viewMode = "live" /\ auto

\* When the timer fired last, or was set.
Fired == timer - RefreshSeconds

AllShown == \A p \in 1..Panels : shown[p] = View("live", filter)

\* The timer runs exactly on an active page, and one period at most; a refresh is under
\* way as long as answers are missing.
PageState ==
  /\ open \in BOOLEAN /\ auto \in BOOLEAN
  /\ timer \in Nat /\ (timer # 0 <=> Active)
  /\ timer # 0 => now <= timer /\ timer <= now + RefreshSeconds
  /\ unanswered \in 0..Panels /\ loading \in BOOLEAN /\ (loading <=> unanswered > 0)
  /\ stray \in Nat
  /\ calmSince \in Nat /\ calmSince <= now

\* Requests of the page are made when the timer fires or the user clicks, and never later.
RequestsAreDue ==
  /\ open /\ PageKey \notin DOMAIN buckets => stray > 0
  /\ unanswered > 0 \/ stray > 0 => now = calmSince \/ (Active /\ now = Fired)
  /\ open /\ PageKey \in DOMAIN buckets =>
       \/ buckets[PageKey].last <= calmSince
       \/ Active /\ buckets[PageKey].last <= Fired

\* Since the first time the timer fired a period or more after the last click, refreshes
\* find the tokens they need; since the second time, one of them is complete.
Recovers ==
  Active /\ Fired >= calmSince + RefreshSeconds =>
    /\ unanswered = 0 => AllShown
    /\ Fired >= calmSince + 2 * RefreshSeconds => AllShown
    /\ unanswered > 0 =>
         /\ now = Fired /\ stray = 0
         /\ asked = View("live", filter)
         /\ TokensNow(PageKey) >= unanswered * Token

PageInv == PageState /\ RequestsAreDue /\ Recovers

\* The burst holds the tokens of a refresh, and a period refills them.
EnoughTokens ==
  /\ Panels <= Burst
  /\ Panels * Token <= RefreshSeconds * RefillRate(PageKey)

\* A page that has just been loaded asks for its panels.
LEMMA PageInitInv == PageInit => PageInv
<1> SUFFICES ASSUME PageInit PROVE PageInv
  OBVIOUS
<1> USE DashboardAssumption DEF PageInit
<1>1. now = 0 /\ DOMAIN buckets = {}
  BY DEF Init
<1>2. PageState
  BY <1>1 DEF PageState, Active
<1>3. RequestsAreDue
  BY <1>1 DEF RequestsAreDue
<1>4. Recovers
  BY <1>1 DEF Recovers, Active, Fired
<1> QED
  BY <1>2, <1>3, <1>4 DEF PageInv

\* What any refresh does, at the request of the user.
LEMMA RefreshState ==
  ASSUME PageState, NEW mode, NEW f, RefreshAll(mode, f)
  PROVE  /\ unanswered' \in 0..Panels /\ stray' = stray
         /\ loading' \in BOOLEAN /\ (loading' <=> unanswered' > 0)
<1>1. CASE UNCHANGED <<loading, unanswered, stray>>
  BY <1>1 DEF PageState
<1>2. CASE loading' = TRUE /\ unanswered' = Panels /\ stray' = stray
  BY <1>2, DashboardAssumption
<1> QED
  BY <1>1, <1>2 DEF RefreshAll, refreshVars

\* What a failed refresh leaves.
LEMMA NotLoadedState ==
  ASSUME PageState, unanswered > 0, NotLoaded
  PROVE  /\ unanswered' = 0 /\ loading' = FALSE
         /\ stray' \in Nat /\ stray' >= stray
<1>1. unanswered \in Nat /\ stray \in Nat
  BY DashboardAssumption DEF PageState
<1>2. CASE Sequential
  BY <1>1, <1>2 DEF NotLoaded, AfterFailure
<1>3. CASE ~Sequential
  BY <1>1, <1>3 DEF NotLoaded, AfterFailure
<1> QED
  BY <1>2, <1>3

\* A click starts the wait anew.
LEMMA EventKeeps ==
  ASSUME IInv, PageInv, Event, now' = now, open' = open, auto' \in BOOLEAN,
         \/ UNCHANGED <<viewMode, auto, timer>>
         \/ timer' = (IF viewMode' = "live" /\ auto' THEN now + RefreshSeconds ELSE 0),
         unanswered' \in 0..Panels, loading' \in BOOLEAN, loading' <=> unanswered' > 0, stray' \in Nat,
         PageKey \notin DOMAIN buckets' => stray' >= stray /\ PageKey \notin DOMAIN buckets,
         PageKey \in DOMAIN buckets' => buckets'[PageKey].last <= now
  PROVE  PageInv'
<1> USE DashboardAssumption
<1>1. now \in Nat /\ RefreshSeconds \in Nat \ {0} /\ open /\ calmSince' = now
  BY LimitsAssumption DEF IInv, TypeOK, Event
<1>2. timer' \in Nat /\ (timer' # 0 <=> Active') /\ (timer' # 0 => now <= timer' /\ timer' <= now + RefreshSeconds)
  BY <1>1 DEF PageInv, PageState, Active
<1>3. PageState'
  BY <1>1, <1>2 DEF PageInv, PageState
<1>4. RequestsAreDue'
  BY <1>1 DEF PageInv, PageState, RequestsAreDue
<1>5. Recovers'
  BY <1>1, <1>2 DEF Recovers, Fired
<1> QED
  BY <1>3, <1>4, <1>5 DEF PageInv

\* A request at a time at which one is due.
LEMMA BucketAfter ==
  ASSUME IInv, Request(PageKey)
  PROVE  /\ PageKey \in DOMAIN buckets' /\ buckets'[PageKey].last = now /\ now' = now
         /\ TokensNow(PageKey) \in 0..Full
         /\ Admits(PageKey) => TokensNow(PageKey)' = TokensNow(PageKey) - Token
<1> USE DashboardAssumption
<1>1. /\ DOMAIN buckets' = DOMAIN buckets \cup {PageKey} /\ now' = now /\ now \in Nat
      /\ buckets'[PageKey] = [tokens |-> TokensNow(PageKey) - (IF Admits(PageKey) THEN Token ELSE 0),
                              last |-> now]
  BY RequestEffect
<1>2. TokensNow(PageKey) \in 0..Full /\ Full \in Nat
  <2>1. Full \in Nat
    BY LimitsAssumption DEF Full, Token
  <2>2. CASE PageKey \in DOMAIN buckets
    BY <2>2, RefillBounds
  <2>3. CASE PageKey \notin DOMAIN buckets
    BY <2>1, <2>3 DEF TokensNow, Capped
  <2> QED
    BY <2>1, <2>2, <2>3
<1>3. ASSUME Admits(PageKey)
      PROVE  TokensNow(PageKey)' = TokensNow(PageKey) - Token
  <2>1. TokensNow(PageKey)' = Capped(buckets'[PageKey].tokens + (now - now) * RefillRate(PageKey))
    BY <1>1 DEF TokensNow, Capped
  <2>2. (now - now) * RefillRate(PageKey) = 0
    BY <1>1, RateType
  <2>3. buckets'[PageKey].tokens = TokensNow(PageKey) - Token
    BY <1>1, <1>3
  <2> QED
    BY <1>2, <2>1, <2>2, <2>3 DEF Capped, Token
<1> QED
  BY <1>1, <1>2, <1>3

\* A click or a lost connection starts a new wait.
LEMMA UserKeepsPage ==
  ASSUME IInv, PageInv, UserStep \/ ConnectionFails
  PROVE  PageInv'
<1> USE DashboardAssumption
<1>1. PageKey \in DOMAIN buckets => buckets[PageKey].last <= now
  <2> SUFFICES ASSUME PageKey \in DOMAIN buckets PROVE buckets[PageKey].last <= now
    OBVIOUS
  <2>1. buckets[PageKey].last \in 0..now /\ now \in Nat
    BY LimitsAssumption DEF IInv, TypeOK
  <2> QED
    BY <2>1
<1>2. PageState /\ auto \in BOOLEAN /\ stray \in Nat /\ stray >= stray
  BY DEF PageInv, PageState
<1>3. ASSUME NEW f \in Filters, ChangeFilter(f)
      PROVE  PageInv'
  <2>1. RefreshAll(viewMode, f) /\ Event /\ UNCHANGED <<vars, open, viewMode, auto, timer>>
    BY <1>3 DEF ChangeFilter
  <2>2. /\ unanswered' \in 0..Panels /\ stray' = stray
        /\ loading' \in BOOLEAN /\ (loading' <=> unanswered' > 0)
    BY <1>2, <2>1, RefreshState
  <2> QED
    BY <1>1, <1>2, <2>1, <2>2, EventKeeps DEF vars
<1>4. ASSUME NEW mode \in ViewModes, ChooseMode(mode)
      PROVE  PageInv'
  <2>1. /\ RefreshAll(mode, filter) /\ Event /\ UNCHANGED <<vars, open>>
        /\ auto' \in BOOLEAN
        /\ timer' = (IF viewMode' = "live" /\ auto' THEN now + RefreshSeconds ELSE 0)
    BY <1>4 DEF ChooseMode, Armed
  <2>2. /\ unanswered' \in 0..Panels /\ stray' = stray
        /\ loading' \in BOOLEAN /\ (loading' <=> unanswered' > 0)
    BY <1>2, <2>1, RefreshState
  <2> QED
    BY <1>1, <1>2, <2>1, <2>2, EventKeeps DEF vars
<1>5. CASE ChooseLanguage
  <2>1. /\ RefreshAll(viewMode, filter) /\ Event /\ UNCHANGED <<vars, open>>
        /\ auto' \in BOOLEAN
        /\ timer' = (IF viewMode' = "live" /\ auto' THEN now + RefreshSeconds ELSE 0)
    BY <1>5 DEF ChooseLanguage, Armed
  <2>2. /\ unanswered' \in 0..Panels /\ stray' = stray
        /\ loading' \in BOOLEAN /\ (loading' <=> unanswered' > 0)
    BY <1>2, <2>1, RefreshState
  <2> QED
    BY <1>1, <1>2, <2>1, <2>2, EventKeeps DEF vars
<1>6. CASE ToggleAuto
  <2>1. /\ Event /\ UNCHANGED <<vars, open>> /\ auto' \in BOOLEAN
        /\ timer' = (IF viewMode' = "live" /\ auto' THEN now + RefreshSeconds ELSE 0)
        /\ UNCHANGED <<loading, unanswered, stray>>
    BY <1>6 DEF ToggleAuto, Armed, refreshVars
  <2>2. /\ unanswered' \in 0..Panels /\ stray' = stray
        /\ loading' \in BOOLEAN /\ (loading' <=> unanswered' > 0)
    BY <2>1 DEF PageInv, PageState
  <2> QED
    BY <1>1, <1>2, <2>1, <2>2, EventKeeps DEF vars
<1>7. CASE ShowEvents
  <2>1. /\ Event /\ Request(PageKey)
        /\ UNCHANGED <<open, viewMode, auto, timer, loading, unanswered, stray>>
    BY <1>7 DEF ShowEvents, controlVars, refreshVars
  <2>2. /\ unanswered' \in 0..Panels /\ stray' = stray
        /\ loading' \in BOOLEAN /\ (loading' <=> unanswered' > 0)
    BY <2>1 DEF PageInv, PageState
  <2>3. PageKey \in DOMAIN buckets' /\ buckets'[PageKey].last = now /\ now' = now
    BY <2>1, BucketAfter
  <2>4. buckets'[PageKey].last <= now
    BY <2>3, LimitsAssumption DEF IInv, TypeOK
  <2> QED
    BY <1>2, <2>1, <2>2, <2>3, <2>4, EventKeeps
<1>8. CASE ConnectionFails
  <2>1. Event /\ NotLoaded /\ unanswered > 0 /\ UNCHANGED <<vars, open, viewMode, auto, timer>>
    BY <1>8 DEF ConnectionFails, controlVars
  <2>2. unanswered' = 0 /\ loading' = FALSE /\ stray' \in Nat /\ stray' >= stray
    BY <1>2, <2>1, NotLoadedState
  <2>3. unanswered' \in 0..Panels /\ (loading' <=> unanswered' > 0)
    BY <2>2
  <2> QED
    BY <1>1, <1>2, <2>1, <2>2, <2>3, EventKeeps DEF vars
<1> QED
  BY <1>3, <1>4, <1>5, <1>6, <1>7, <1>8 DEF UserStep

\* An answer, awaited or not, comes when requests are due; while the page recovers there
\* is a token for it.
LEMMA AnswerKeepsPage ==
  ASSUME IInv, PageInv, Answer \/ StrayAnswer
  PROVE  PageInv'
<1> USE DashboardAssumption
<1>1. /\ Request(PageKey) /\ UNCHANGED <<controlVars, eventVars>>
      /\ unanswered > 0 \/ stray > 0
  BY DEF Answer, StrayAnswer
<1>2. /\ PageKey \in DOMAIN buckets' /\ buckets'[PageKey].last = now /\ now' = now
      /\ TokensNow(PageKey) \in 0..Full
      /\ Admits(PageKey) => TokensNow(PageKey)' = TokensNow(PageKey) - Token
  BY <1>1, BucketAfter
<1>3. now \in Nat /\ unanswered \in 0..Panels /\ Panels \in Nat /\ stray \in Nat /\ Full \in Nat
  BY LimitsAssumption DEF IInv, TypeOK, PageInv, PageState, Full, Token
<1>4. /\ unanswered' \in 0..Panels /\ stray' \in Nat
      /\ loading' \in BOOLEAN /\ (loading' <=> unanswered' > 0)
  <2>1. CASE Answer /\ Admits(PageKey)
    <3>1. unanswered > 0 /\ unanswered' = unanswered - 1 /\ stray' = stray
          /\ loading' = (unanswered > 1)
      BY <2>1 DEF Answer, Loaded
    <3>2. unanswered - 1 \in 0..Panels /\ (unanswered > 1 <=> unanswered - 1 > 0)
      BY <1>3, <3>1
    <3>3. loading' \in BOOLEAN
      BY <3>1
    <3>4. loading' <=> unanswered' > 0
      BY <3>1, <3>2
    <3> QED
      BY <1>3, <3>1, <3>2, <3>3, <3>4
  <2>2. CASE Answer /\ ~Admits(PageKey)
    BY <1>3, <2>2, NotLoadedState DEF Answer, PageInv
  <2>3. CASE StrayAnswer
    BY <1>3, <2>3 DEF StrayAnswer, PageInv, PageState
  <2> QED
    BY <2>1, <2>2, <2>3
<1>5. /\ UNCHANGED <<open, viewMode, filter, auto, timer, calmSince, now>>
      /\ (Active' <=> Active) /\ Fired' = Fired
  BY <1>1, <1>2 DEF controlVars, eventVars, Active, Fired
<1>6. PageState'
  BY <1>4, <1>5 DEF PageInv, PageState
<1>7. now = calmSince \/ (Active /\ now = Fired)
  BY <1>1 DEF PageInv, RequestsAreDue
<1>8. RequestsAreDue'
  <2>1. now <= calmSince \/ (Active /\ now <= Fired)
    BY <1>3, <1>7
  <2> QED
    BY <1>2, <1>5, <1>7, <2>1 DEF RequestsAreDue
<1>9. ASSUME Active, Fired >= calmSince + RefreshSeconds
      PROVE  /\ unanswered' = 0 => AllShown'
             /\ Fired >= calmSince + 2 * RefreshSeconds => AllShown'
             /\ unanswered' > 0 =>
                  /\ now = Fired /\ stray' = 0
                  /\ asked' = View("live", filter)
                  /\ TokensNow(PageKey)' >= unanswered' * Token
  <2>1. /\ unanswered = 0 => AllShown
        /\ Fired >= calmSince + 2 * RefreshSeconds => AllShown
        /\ unanswered > 0 =>
             /\ now = Fired /\ stray = 0
             /\ asked = View("live", filter)
             /\ TokensNow(PageKey) >= unanswered * Token
    BY <1>9 DEF PageInv, Recovers
  <2>2. CASE unanswered > 0
    <3>1. /\ now = Fired /\ stray = 0
          /\ asked = View("live", filter)
          /\ TokensNow(PageKey) >= unanswered * Token
      BY <2>1, <2>2
    <3>2. Admits(PageKey)
      BY <1>2, <1>3, <2>2, <3>1 DEF Admits, Token
    <3>3. ~Sequential
      BY <3>1 DEF Sequential, View
    <3>4. /\ unanswered' = unanswered - 1 /\ stray' = stray /\ asked' = asked
          /\ shown' = IF unanswered > 1 THEN shown ELSE [p \in 1..Panels |-> asked]
      BY <3>1, <3>2, <3>3 DEF Answer, StrayAnswer, Loaded
    <3>5. TokensNow(PageKey)' >= unanswered' * Token
      <4>1. TokensNow(PageKey)' = TokensNow(PageKey) - Token
        BY <1>2, <3>2
      <4> QED
        BY <1>2, <1>3, <3>1, <3>4, <4>1 DEF Token
    <3>6. unanswered = 1 => AllShown'
      BY <1>5, <3>1, <3>4 DEF AllShown
    <3>7. AllShown => AllShown'
      BY <1>5, <3>1, <3>4 DEF AllShown
    <3>8. unanswered' = 0 => unanswered = 1
      BY <1>3, <3>4
    <3> QED
      BY <2>1, <3>1, <3>4, <3>5, <3>6, <3>7, <3>8
  <2>3. CASE unanswered = 0
    <3>1. unanswered' = 0 /\ shown' = shown
      BY <2>3 DEF Answer, StrayAnswer
    <3>2. AllShown'
      BY <1>5, <2>1, <2>3, <3>1 DEF AllShown
    <3> QED
      BY <3>1, <3>2
  <2> QED
    BY <1>3, <2>2, <2>3
<1>10. Recovers'
  BY <1>5, <1>9 DEF Recovers
<1> QED
  BY <1>6, <1>8, <1>10 DEF PageInv

\* A timer that fires a period after the last click finds no request under way and, with
\* the tokens of that period, a bucket with enough for the refresh.
LEMMA TimerKeepsPage ==
  ASSUME EnoughTokens, IInv, PageInv, TimerFires
  PROVE  PageInv'
<1> USE DashboardAssumption
<1>1. /\ timer # 0 /\ timer = now /\ timer' = now + RefreshSeconds
      /\ RefreshAll(viewMode, filter)
      /\ UNCHANGED <<now, buckets, requests, open, viewMode, filter, auto, events, calmSince>>
  BY DEF TimerFires, vars, eventVars
<1>2. /\ Active /\ now \in Nat /\ RefreshSeconds \in Nat \ {0} /\ calmSince \in Nat
      /\ unanswered \in 0..Panels /\ stray \in Nat /\ Panels \in Nat /\ calmSince <= now
  BY <1>1, LimitsAssumption DEF IInv, TypeOK, PageInv, PageState
<1>3. Active' /\ Fired' = now /\ Fired = now - RefreshSeconds
  BY <1>1, <1>2 DEF Active, Fired
<1>4. /\ unanswered' \in 0..Panels /\ stray' = stray
      /\ loading' \in BOOLEAN /\ (loading' <=> unanswered' > 0)
  BY <1>1, RefreshState DEF PageInv
<1>5. PageState'
  BY <1>1, <1>2, <1>3, <1>4 DEF PageInv, PageState
<1>6. PageKey \in DOMAIN buckets =>
        buckets[PageKey].last \in Int
        /\ (buckets[PageKey].last <= calmSince \/ buckets[PageKey].last <= now - RefreshSeconds)
  <2> SUFFICES ASSUME PageKey \in DOMAIN buckets
               PROVE  buckets[PageKey].last \in Int
                      /\ (buckets[PageKey].last <= calmSince \/ buckets[PageKey].last <= now - RefreshSeconds)
    OBVIOUS
  <2>1. buckets[PageKey].last \in 0..now
    BY DEF IInv, TypeOK
  <2> QED
    BY <1>2, <1>3, <2>1 DEF PageInv, RequestsAreDue, Active
<1>7. RequestsAreDue'
  <2>1. PageKey \in DOMAIN buckets => buckets[PageKey].last <= calmSince \/ buckets[PageKey].last <= now
    BY <1>2, <1>6
  <2>2. open /\ PageKey \notin DOMAIN buckets => stray > 0
    BY DEF PageInv, RequestsAreDue
  <2> QED
    BY <1>1, <1>3, <1>4, <2>1, <2>2 DEF RequestsAreDue
<1>8. ASSUME now >= calmSince + RefreshSeconds
      PROVE  /\ unanswered' = Panels /\ stray' = 0 /\ shown' = shown
             /\ asked' = View("live", filter)
             /\ TokensNow(PageKey)' >= Panels * Token
             /\ now >= calmSince + 2 * RefreshSeconds => AllShown
  <2>1. unanswered = 0 /\ stray = 0
    <3>1. now # calmSince /\ now # Fired
      BY <1>2, <1>3, <1>8
    <3> QED
      BY <1>2, <3>1 DEF PageInv, RequestsAreDue
  <2>2. ~loading
    BY <2>1 DEF PageInv, PageState
  <2>3. /\ unanswered' = Panels /\ stray' = 0 /\ shown' = shown
        /\ asked' = View("live", filter)
    BY <1>1, <1>2, <2>1, <2>2 DEF RefreshAll, HasScope, Active
  <2>4. PageKey \in DOMAIN buckets
    BY <1>2, <2>1 DEF PageInv, RequestsAreDue, Active
  <2>5. TokensNow(PageKey) >= Panels * Token
    <3> DEFINE gap == now - buckets[PageKey].last
    <3>1. gap \in Nat /\ gap >= RefreshSeconds
      <4>1. buckets[PageKey].last \in Int
            /\ (buckets[PageKey].last <= calmSince \/ buckets[PageKey].last <= now - RefreshSeconds)
        BY <1>6, <2>4
      <4> QED
        BY <1>2, <1>8, <4>1
    <3> DEFINE rate == RefillRate(PageKey)
    <3>2. rate \in Nat /\ rate >= 0
      BY RateType
    <3>3. gap * rate \in Nat /\ buckets[PageKey].tokens \in Nat
          /\ \A x \in Int : x <= Full /\ x <= buckets[PageKey].tokens + gap * rate => x <= TokensNow(PageKey)
      BY <2>4, RefillBounds
    <3>4. Panels * Token <= RefreshSeconds * rate
      BY DEF EnoughTokens
    <3> HIDE DEF gap, rate
    <3>5. RefreshSeconds * rate <= gap * rate
      <4>1. gap - RefreshSeconds \in Nat /\ (gap - RefreshSeconds) * rate \in Nat
        BY <1>2, <3>1, <3>2
      <4>2. gap * rate = RefreshSeconds * rate + (gap - RefreshSeconds) * rate
        BY <1>2, <3>1, <3>2
      <4>3. RefreshSeconds * rate \in Nat
        BY <1>2, <3>2
      <4> QED
        BY <4>1, <4>2, <4>3
    <3>6. Panels * Token \in Nat /\ Panels * Token <= Full
      BY <1>2, LimitsAssumption DEF EnoughTokens, Full, Token
    <3>7. Panels * Token <= gap * rate
      <4>1. RefreshSeconds * rate \in Nat
        BY <1>2, <3>2
      <4> QED
        BY <3>3, <3>4, <3>5, <3>6, <4>1
    <3>8. Panels * Token <= buckets[PageKey].tokens + gap * rate
      BY <3>3, <3>6, <3>7
    <3> QED
      BY <3>3, <3>6, <3>8
  <2>6. TokensNow(PageKey)' = TokensNow(PageKey)
    BY <1>1 DEF TokensNow, Capped
  <2>7. now >= calmSince + 2 * RefreshSeconds => AllShown
    BY <1>2, <1>3, <2>1 DEF PageInv, Recovers
  <2> QED
    BY <2>3, <2>5, <2>6, <2>7
<1>9. Recovers'
  <2>1. now' = now /\ calmSince' = calmSince /\ filter' = filter
    BY <1>1
  <2>2. shown' = shown /\ AllShown => AllShown'
    BY <2>1 DEF AllShown
  <2>3. now >= calmSince + RefreshSeconds => Panels # 0
    OBVIOUS
  <2> QED
    BY <1>3, <1>8, <2>1, <2>2, <2>3 DEF Recovers
<1> QED
  BY <1>5, <1>7, <1>9 DEF PageInv

\* The inductive invariant is kept by every step.
LEMMA PageStep ==
  ASSUME EnoughTokens, IInv, PageInv, [PageNext]_pageVars
  PROVE  PageInv'
<1> USE DashboardAssumption
<1>1. ASSUME NEW key \in Keys, FreeRequest(key)
      PROVE  PageInv'
  <2>1. ~open /\ UNCHANGED <<controlVars, refreshVars, eventVars>> /\ now' = now
    BY <1>1 DEF FreeRequest, Request
  <2>2. UNCHANGED <<open, viewMode, filter, auto, timer, loading, unanswered, stray, calmSince, now>>
    BY <2>1 DEF controlVars, refreshVars, eventVars
  <2>3. PageState'
    BY <2>2 DEF PageInv, PageState, Active
  <2>4. RequestsAreDue'
    BY <2>1, <2>2 DEF PageInv, RequestsAreDue, Active, Fired
  <2>5. Recovers'
    BY <2>1, <2>2 DEF Recovers, Active
  <2> QED
    BY <2>3, <2>4, <2>5 DEF PageInv
<1>2. ASSUME NEW seconds \in Waits, PageWait(seconds)
      PROVE  PageInv'
  <2>1. /\ unanswered = 0 /\ stray = 0 /\ now' = now + seconds /\ buckets' = buckets
        /\ timer = 0 \/ now + seconds <= timer
        /\ UNCHANGED <<controlVars, refreshVars, eventVars>>
    BY <1>2 DEF PageWait, Wait
  <2>2. UNCHANGED <<open, viewMode, filter, auto, timer, loading, unanswered, stray, shown, calmSince>>
    BY <2>1 DEF controlVars, refreshVars, eventVars
  <2>3. now \in Nat /\ seconds \in Nat
    BY LimitsAssumption DEF IInv, TypeOK
  <2>4. PageState'
    BY <2>1, <2>2, <2>3 DEF PageInv, PageState, Active
  <2>5. RequestsAreDue'
    BY <2>1, <2>2 DEF PageInv, RequestsAreDue, Active, Fired
  <2>6. Recovers'
    BY <2>1, <2>2 DEF PageInv, Recovers, Active, Fired, AllShown
  <2> QED
    BY <2>4, <2>5, <2>6 DEF PageInv
<1>3. CASE UNCHANGED pageVars
  <2>1. UNCHANGED <<now, buckets, open, viewMode, filter, auto, timer,
                    loading, asked, unanswered, stray, shown, calmSince>>
    BY <1>3 DEF pageVars, vars, controlVars, refreshVars, eventVars
  <2>2. TokensNow(PageKey)' = TokensNow(PageKey)
    BY <2>1 DEF TokensNow, Capped
  <2>3. PageState' /\ RequestsAreDue'
    BY <2>1 DEF PageInv, PageState, RequestsAreDue, Active, Fired
  <2>4. Recovers'
    BY <2>1, <2>2 DEF PageInv, Recovers, Active, Fired, AllShown
  <2> QED
    BY <2>3, <2>4 DEF PageInv
<1> QED
  BY <1>1, <1>2, <1>3, UserKeepsPage, AnswerKeepsPage, TimerKeepsPage DEF PageNext

\* The recovery follows: the timer is at most a period ahead.
LEMMA PageInvRecovers ==
  ASSUME IInv, PageInv
  PROVE  LiveCatchesUp
<1> SUFFICES ASSUME open, viewMode = "live", auto, now >= calmSince + 2 * RefreshSeconds
             PROVE  AllShown
  BY DEF LiveCatchesUp, AllShown
<1>1. /\ Active /\ now \in Nat /\ RefreshSeconds \in Nat /\ calmSince \in Nat
      /\ timer \in Nat /\ timer <= now + RefreshSeconds /\ now <= timer
      /\ unanswered \in 0..Panels
  BY DashboardAssumption, LimitsAssumption DEF IInv, TypeOK, PageInv, PageState, Active
<1>2. Fired >= calmSince + RefreshSeconds
  BY <1>1 DEF Fired
<1>3. CASE unanswered = 0
  BY <1>1, <1>2, <1>3 DEF PageInv, Recovers
<1>4. CASE unanswered > 0
  BY <1>1, <1>2, <1>4 DEF PageInv, Recovers
<1> QED
  BY <1>1, <1>3, <1>4, DashboardAssumption

\* dashboard.js: a live page makes up for skipped, refused and lost refreshes within two
\* periods of its timer, whatever the other clients do, if the burst covers one refresh
\* and the rate one refresh per period, and however exactly it covers it.
THEOREM PageRecovers ==
  ASSUME EnoughTokens
  PROVE  PageSpec => []LiveCatchesUp
<1>1. PageInit => PageInv
  BY PageInitInv
<1>2. IInv /\ PageInv /\ [PageNext]_pageVars => PageInv'
  BY PageStep
<1>3. IInv /\ PageInv => LiveCatchesUp
  BY PageInvRecovers
<1>4. PageSpec => []IInv
  BY PageUsesLimiter, LimiterInductive, PTL
<1> QED
  BY <1>1, <1>2, <1>3, <1>4, PTL DEF PageSpec

=============================================================================
