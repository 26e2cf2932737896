------------------------------ MODULE TestRuns ------------------------------
(***************************************************************************)
(* What the service promises about a DNS test, without tasks, semaphores   *)
(* or registries: a test is created, runs, records attempts only while it  *)
(* runs, and ends once: COMPLETED when nobody asked to cancel it, and      *)
(* CANCELLED only when somebody did.  When it ends, its summary shows all  *)
(* attempts ever recorded.                                                 *)
(***************************************************************************)
EXTENDS Naturals

CONSTANT Tests

VARIABLES
  status,     \* the status GET /tests/{id} shows
  requested,  \* tests somebody (a client or the shutdown) asked to cancel
  attempts,   \* number of attempts recorded
  shown       \* number of attempts in the summary

vars == <<status, requested, attempts, shown>>

Init ==
  /\ status \in [Tests -> {"absent", "pending"}]
  /\ requested = {}
  /\ attempts = [t \in Tests |-> 0]
  /\ shown = [t \in Tests |-> 0]

Create(t) ==
  /\ status[t] = "absent"
  /\ status' = [status EXCEPT ![t] = "pending"]
  /\ UNCHANGED <<requested, attempts, shown>>

Start(t) ==
  /\ status[t] = "pending"
  /\ status' = [status EXCEPT ![t] = "running"]
  /\ UNCHANGED <<requested, attempts, shown>>

Record(t) ==
  /\ status[t] = "running"
  /\ attempts' = [attempts EXCEPT ![t] = @ + 1]
  /\ UNCHANGED <<status, requested, shown>>

\* One client asks for one test, the shutdown for all that are registered.
Request(S) ==
  /\ \A t \in S : status[t] # "absent"
  /\ requested' = requested \cup S
  /\ UNCHANGED <<status, attempts, shown>>

End(t) ==
  /\ status[t] = "running"
  /\ status' = [status EXCEPT ![t] = IF t \in requested THEN "cancelled" ELSE "completed"]
  /\ shown' = [shown EXCEPT ![t] = attempts[t]]
  /\ UNCHANGED <<requested, attempts>>

Next ==
  \/ \E t \in Tests : Create(t) \/ Start(t) \/ Record(t) \/ End(t)
  \/ \E S \in SUBSET Tests : Request(S)

Spec == Init /\ [][Next]_vars

=============================================================================
