------------------------------ MODULE RateLimiter ------------------------------
(***************************************************************************)
(* The token buckets of app/security/rate_limit.py.  A bucket is made by   *)
(* the first request of a client in a protection class, is refilled when   *)
(* it is looked at, and gives one token to each request it admits.  The    *)
(* middleware decides without suspending: one request is one action.       *)
(* Time is in seconds and tokens are in sixtieths, so that the refill of a *)
(* second is a whole number.                                               *)
(*                                                                         *)
(* The definitions named Faulty... are not part of the model: each is a    *)
(* plausible slip in the definition after it, and breaks a property below. *)
(***************************************************************************)
EXTENDS Integers, Sequences, FiniteSets

CONSTANTS
  Clients,       \* pairs of client address and credential
  Classes,       \* protection classes of the requests: a subset of LimitedClasses
  ReadRpm,       \* API_RATE_LIMIT_READ_RPM
  WriteRpm,      \* API_RATE_LIMIT_WRITE_RPM
  ExpensiveRpm,  \* API_RATE_LIMIT_EXPENSIVE_RPM
  Burst,         \* API_RATE_LIMIT_BURST
  Waits,         \* bound: how far the clock moves at once
  MaxTime,       \* bound: the clock
  MaxRequests    \* bound: requests with one key

\* ProtectionClass without PUBLIC, which check_rate_limit lets pass.
LimitedClasses == {"protected_read", "protected_write", "expensive", "metrics", "admin"}

ASSUME LimitsAssumption ==
  /\ Classes \subseteq LimitedClasses
  /\ {ReadRpm, WriteRpm, ExpensiveRpm} \subseteq Int
  /\ Burst \in Nat
  /\ Waits \subseteq Nat
  /\ {MaxTime, MaxRequests} \subseteq Nat

Keys == Clients \X Classes
Token == 60
Full == Burst * Token

VARIABLES
  now,      \* time.monotonic()
  buckets,  \* _buckets: a partial function on Keys
  requests  \* requests[key]: all requests so far, in order: only the properties look at it

vars == <<now, buckets, requests>>

\* _limit_for_class.
Rpm(class) ==
  CASE class = "expensive"                      -> ExpensiveRpm
    [] class \in {"protected_write", "admin"}   -> WriteRpm
    [] class \in {"protected_read", "metrics"}  -> ReadRpm

FaultyRefillRate(key) == Rpm(key[2])

\* _rpm_to_rate, in sixtieths of a token per second.
RefillRate(key) == IF Rpm(key[2]) < 1 THEN 1 ELSE Rpm(key[2])

Init ==
  /\ now = 0
  /\ buckets = << >>
  /\ requests = [key \in Keys |-> << >>]

FaultyCapped(tokens) == tokens

Capped(tokens) == IF tokens < Full THEN tokens ELSE Full

\* What allow finds in the bucket after the refill.
TokensNow(key) ==
  IF key \in DOMAIN buckets
  THEN Capped(buckets[key].tokens + (now - buckets[key].last) * RefillRate(key))
  ELSE Capped(0)

Admits(key) == TokensNow(key) >= Token

\* allow: the time of the bucket moves on, whether the request is admitted or not.
Request(key) ==
  /\ Len(requests[key]) < MaxRequests
  /\ buckets' = [k \in DOMAIN buckets \cup {key} |->
       IF k # key THEN buckets[k]
       ELSE [tokens |-> TokensNow(key) - (IF Admits(key) THEN Token ELSE 0), last |-> now]]
  /\ requests' = [requests EXCEPT ![key] = Append(@, [at |-> now, admitted |-> Admits(key)])]
  /\ UNCHANGED now

Wait(seconds) ==
  /\ now + seconds <= MaxTime
  /\ now' = now + seconds
  /\ UNCHANGED <<buckets, requests>>

Next ==
  \/ \E key \in Keys : Request(key)
  \/ \E seconds \in Waits : Wait(seconds)

Spec == Init /\ [][Next]_vars

-----------------------------------------------------------------------------
(* Properties.                                                              *)

\* A key has a bucket as soon as it has sent a request, with at most Burst tokens.
TypeOK ==
  /\ now \in 0..MaxTime
  /\ requests \in [Keys -> Seq([at : 0..now, admitted : BOOLEAN])]
  /\ DOMAIN buckets = {key \in Keys : requests[key] # << >>}
  /\ \A key \in DOMAIN buckets : buckets[key] \in [tokens : 0..Full, last : 0..now]

Admitted(key, i, j) == {l \in i..j : requests[key][l].admitted}

\* The limit: from any request of a client to any later one, no more are admitted
\* than the burst and what the rate allows in the time between them, however the
\* client spaces its requests and however many of them are refused.
AdmittedWithinLimit ==
  \A key \in Keys : \A i, j \in DOMAIN requests[key] :
    i <= j => Cardinality(Admitted(key, i, j)) * Token
                <= Full + (requests[key][j].at - requests[key][i].at) * RefillRate(key)

\* The other direction: a client that waited for n tokens, n at most Burst, gets its
\* next n requests admitted, however fast they come.  At least one token comes in a
\* minute, even when the configured rate is zero.
WaitingIsRewarded ==
  \A key \in Keys : \A i \in DOMAIN requests[key] : \A n \in 1..Burst :
    LET waited == requests[key][i].at - requests[key][i - 1].at IN
    (i > 1 /\ (waited * Rpm(key[2]) >= n * Token \/ waited >= n * Token)) =>
      \A j \in DOMAIN requests[key] : i <= j /\ j < i + n => requests[key][j].admitted

=============================================================================
