------------------------------- MODULE Dashboard -------------------------------
(***************************************************************************)
(* The dashboard (app/ui/static/js/dashboard.js) against the rate limiter: *)
(* when it loads its panels, what clicks and the timer do while it does,   *)
(* and what it shows when the limiter refuses one of its requests.         *)
(*                                                                         *)
(* One browser has the page open, in one tab, and is alone with its key;   *)
(* while it is closed, clients send what they like (RateLimiter).  Timers  *)
(* are punctual, and every request is answered before the clock moves on.  *)
(* A view is what a panel shows: a mode and values of the filter controls. *)
(*                                                                         *)
(* The definition named Faulty... is not part of the model: it is a        *)
(* plausible slip in the definition after it, and breaks the property.     *)
(***************************************************************************)
EXTENDS RateLimiter

CONSTANTS
  PageKey,       \* address and credential of the browser, protected_read
  Filters,       \* values of the filter controls
  Scoped,        \* those that select a scope, in historical and in compare mode
  Panels,        \* requests of one refresh
  RefreshSeconds,  \* DNS_DEBUG_UI_REFRESH_SECONDS
  FreeRequests,  \* bound: requests with one key when the page is closed
  MaxEvents      \* bound: clicks and failures of the connection

ASSUME DashboardAssumption ==
  /\ PageKey \in Keys
  /\ Scoped \subseteq Filters /\ Filters # {}
  /\ Panels \in Nat \ {0} /\ RefreshSeconds \in Nat \ {0}
  /\ {FreeRequests, MaxEvents} \subseteq Nat

VARIABLES
  open,         \* the page is open
  viewMode,
  filter,       \* values of the controls
  auto,         \* autoRefreshEnabled
  timer,        \* when refreshTimer fires, 0: it is not set
  loading,
  asked,        \* the view the refresh under way has asked for
  unanswered,   \* answers it still needs
  stray,        \* requests of refreshes that failed, still under way
  shown,        \* shown[p]: the view on panel p
  events,       \* clicks and failures so far
  calmSince     \* when the last of them was: only the property looks at it

controlVars == <<open, viewMode, filter, auto, timer>>
refreshVars == <<loading, asked, unanswered, stray, shown>>
eventVars == <<events, calmSince>>
pageVars == <<vars, controlVars, refreshVars, eventVars>>

ViewModes == {"live", "historical", "compare"}
Views == [mode : ViewModes, filter : Filters]
View(mode, f) == [mode |-> mode, filter |-> f]

\* A panel without data.
Blank == [mode |-> "none"]

-----------------------------------------------------------------------------
(* Refreshing.                                                              *)

\* In compare mode the panels are asked for one after the other.
Sequential == asked.mode = "compare"

HasScope(mode, f) == mode = "live" \/ f \in Scoped

\* refreshAll: does nothing while a refresh is under way.
RefreshAll(mode, f) ==
  \/ /\ loading
     /\ UNCHANGED refreshVars
  \/ /\ ~loading /\ ~HasScope(mode, f)
     /\ shown' = [p \in 1..Panels |-> Blank]
     /\ UNCHANGED <<loading, asked, unanswered, stray>>
  \/ /\ ~loading /\ HasScope(mode, f)
     /\ loading' = TRUE
     /\ asked' = View(mode, f)
     /\ unanswered' = Panels
     /\ UNCHANGED <<stray, shown>>

\* setupRefreshTimer.
Armed(mode, on) == IF mode = "live" /\ on THEN now + RefreshSeconds ELSE 0

\* Live and historical panels are rendered when all answers are there; a panel of a
\* comparison at once, and the next one is asked for with the controls as they are now.
Loaded ==
  /\ unanswered' = unanswered - 1
  /\ loading' = (unanswered > 1)
  /\ IF Sequential
     THEN /\ shown' = [shown EXCEPT ![Panels - unanswered + 1] = asked]
          /\ asked' = View("compare", filter)
     ELSE /\ shown' = IF unanswered > 1 THEN shown ELSE [p \in 1..Panels |-> asked]
          /\ UNCHANGED asked
  /\ UNCHANGED stray

FaultyAfterFailure == loading

AfterFailure == FALSE

\* The first failure ends the refresh; its other requests are under way.
NotLoaded ==
  /\ loading' = AfterFailure
  /\ unanswered' = 0
  /\ stray' = IF Sequential THEN stray ELSE stray + unanswered - 1
  /\ UNCHANGED <<asked, shown>>

Answer ==
  /\ unanswered > 0
  /\ Request(PageKey)
  /\ IF Admits(PageKey) THEN Loaded ELSE NotLoaded
  /\ UNCHANGED <<controlVars, eventVars>>

\* Nobody waits for it, but the limiter counts it.
StrayAnswer ==
  /\ stray > 0
  /\ Request(PageKey)
  /\ stray' = stray - 1
  /\ UNCHANGED <<controlVars, loading, asked, unanswered, shown, eventVars>>

TimerFires ==
  /\ timer # 0 /\ timer = now
  /\ timer' = now + RefreshSeconds
  /\ RefreshAll(viewMode, filter)
  /\ UNCHANGED <<vars, open, viewMode, filter, auto, eventVars>>

-----------------------------------------------------------------------------
(* The user.                                                                *)

Event ==
  /\ open /\ events < MaxEvents
  /\ events' = events + 1
  /\ calmSince' = now

\* Also clearChip, resetAllFilters and, with the same values, the refresh button.
ChangeFilter(f) ==
  /\ Event
  /\ filter' = f
  /\ RefreshAll(viewMode, f)
  /\ UNCHANGED <<vars, open, viewMode, auto, timer>>

\* The click on a mode, with setModeUi.
ChooseMode(mode) ==
  /\ Event
  /\ viewMode' = mode
  /\ auto' = (mode = "live")
  /\ timer' = Armed(mode, mode = "live")
  /\ RefreshAll(mode, filter)
  /\ UNCHANGED <<vars, open, filter>>

\* onLangChange calls setModeUi.
ChooseLanguage ==
  /\ Event
  /\ auto' = (auto /\ viewMode = "live")
  /\ timer' = Armed(viewMode, auto)
  /\ RefreshAll(viewMode, filter)
  /\ UNCHANGED <<vars, open, viewMode, filter>>

ToggleAuto ==
  /\ Event
  /\ auto' = ~auto
  /\ timer' = Armed(viewMode, ~auto)
  /\ UNCHANGED <<vars, open, viewMode, filter, refreshVars>>

\* The list of events and the reports are loaded on a click.
ShowEvents ==
  /\ Event
  /\ Request(PageKey)
  /\ UNCHANGED <<controlVars, refreshVars>>

ConnectionFails ==
  /\ unanswered > 0
  /\ Event
  /\ NotLoaded
  /\ UNCHANGED <<vars, controlVars>>

-----------------------------------------------------------------------------
\* An open page has just been loaded, with empty controls: its script asks for the list of snapshots, whose
\* answer makes no difference here, and for the panels.
PageInit ==
  /\ Init
  /\ open \in BOOLEAN
  /\ viewMode = "live"
  /\ filter \in Filters \ Scoped
  /\ auto = TRUE
  /\ timer = IF open THEN RefreshSeconds ELSE 0
  /\ loading = open
  /\ asked = View("live", filter)
  /\ unanswered = IF open THEN Panels ELSE 0
  /\ stray = IF open THEN 1 ELSE 0
  /\ shown = [p \in 1..Panels |-> Blank]
  /\ events = 0
  /\ calmSince = 0

FreeRequest(key) ==
  /\ ~open /\ Len(requests[key]) < FreeRequests
  /\ Request(key)
  /\ UNCHANGED <<controlVars, refreshVars, eventVars>>

PageWait(seconds) ==
  /\ unanswered = 0 /\ stray = 0
  /\ timer = 0 \/ (now < timer /\ now + seconds <= timer)
  /\ Wait(seconds)
  /\ UNCHANGED <<controlVars, refreshVars, eventVars>>

UserStep ==
  \/ \E f \in Filters : ChangeFilter(f)
  \/ \E mode \in ViewModes : ChooseMode(mode)
  \/ ChooseLanguage
  \/ ToggleAuto
  \/ ShowEvents

PageNext ==
  \/ UserStep
  \/ ConnectionFails
  \/ Answer
  \/ StrayAnswer
  \/ TimerFires
  \/ \E key \in Keys : FreeRequest(key)
  \/ \E seconds \in Waits : PageWait(seconds)

PageSpec == PageInit /\ [][PageNext]_pageVars

-----------------------------------------------------------------------------
(* Property.                                                                *)

\* A live page recovers by itself: refreshes that were skipped because another was under
\* way (dashboard.js:1268), that the limiter refused in part, with the rest of their
\* requests still using up tokens, or that a lost connection ended, are made up for.  Two
\* periods after the last click all panels show what is chosen, although a refresh
\* every five seconds asks for exactly as many tokens as the default limit gives.
LiveCatchesUp ==
  open /\ viewMode = "live" /\ auto /\ now >= calmSince + 2 * RefreshSeconds =>
    \A p \in 1..Panels : shown[p] = View("live", filter)

=============================================================================
