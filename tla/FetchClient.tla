----------------------------- MODULE FetchClient -----------------------------
(***************************************************************************)
(* AnmlClient::fetch_url (src/src/client.rs): concurrent fetches from one  *)
(* origin, the retry policy and the circuit breaker between them.  What    *)
(* one attempt (execute_fetch) does is reduced to how it ends: in a        *)
(* document, in an error is_retryable_error retries, or in another error.  *)
(* The per-request timeout ends every attempt, as a retryable error.       *)
(* Module PagedFetch has the fairness, and checks the properties below.    *)
(***************************************************************************)
EXTENDS Integers, FiniteSets

CONSTANTS
    Tasks,
    Threshold,    \* failure_threshold
    Cooldown,     \* cooldown, in ticks
    MaxRetries, BaseDelay, MaxDelay,   \* the RetryPolicy; its multiplier is 2
    Never         \* no failure has been recorded

ASSUME TasksAssumption == IsFiniteSet(Tasks)
ASSUME PolicyAssumption ==
    /\ Threshold \in Nat /\ Cooldown \in Nat
    /\ MaxRetries \in Nat /\ BaseDelay \in Nat /\ MaxDelay \in Nat
ASSUME NeverAssumption == Never \notin Int

VARIABLES
    failures,   \* CircuitBreakerState.failures, counted up to Threshold
    age,        \* ticks since CircuitBreakerState.last_failure, up to Cooldown
    fetch       \* per task, where its fetch_url is

clientVars == <<failures, age, fetch>>

-----------------------------------------------------------------------------
Delay(attempt) ==
    LET delay == BaseDelay * 2 ^ attempt
    IN  IF delay \in 0..MaxDelay THEN delay ELSE MaxDelay

FaultyCoolingDown == age # Never /\ age + 1 < Cooldown
CoolingDown == age # Never /\ age < Cooldown

Tripped == failures >= Threshold

NoFetch == [at |-> "idle", attempt |-> 0, wait |-> 0, barred |-> 0]

\* The breaker as the sum of its two cells.
Open == Tripped /\ age # Never /\ age < Cooldown

ClientInit ==
    /\ failures = 0
    /\ age = Never
    /\ fetch = [t \in Tasks |-> NoFetch]

Go(t, at) == fetch' = [fetch EXCEPT ![t].at = at]
At(t, at) == fetch[t].at = at

\* is_open loads the count ...
Begin(t) ==
    /\ fetch[t].at \in {"idle", "done"}
    /\ fetch' = [fetch EXCEPT ![t] = [at |-> IF Tripped THEN "checking" ELSE "fetching",
                                      attempt |-> 0, wait |-> 0,
                                      barred |-> IF Open THEN Cooldown - age ELSE 0]]
    /\ UNCHANGED <<failures, age>>

\* ... and, if it has reached the threshold, looks at the time of the last failure:
\* the fetch is blocked, or let through.
FaultyCheckCooldown(t) ==
    /\ At(t, "checking")
    /\ IF CoolingDown THEN Go(t, "done") /\ age' = 0
       ELSE Go(t, "fetching") /\ UNCHANGED age
    /\ UNCHANGED failures

CheckCooldown(t) ==
    /\ At(t, "checking")
    /\ Go(t, IF CoolingDown THEN "done" ELSE "fetching")
    /\ UNCHANGED <<failures, age>>

\* The attempt yields a document: record_success.
Succeed(t) ==
    /\ At(t, "fetching")
    /\ failures' = 0
    /\ Go(t, "done")
    /\ UNCHANGED age

\* A transient error: sleep and retry; after the last attempt, record_failure adds
\* to the count ...
FaultyFailTransiently(t) ==
    /\ At(t, "fetching")
    /\ IF fetch[t].attempt <= MaxRetries
       THEN /\ fetch' = [fetch EXCEPT ![t].at = "sleeping", ![t].attempt = @ + 1,
                                      ![t].wait = Delay(fetch[t].attempt)]
            /\ UNCHANGED failures
       ELSE /\ failures' = IF Tripped THEN failures ELSE failures + 1
            /\ Go(t, "stamping")
    /\ UNCHANGED age

FaultyRetryForever(t) ==
    /\ At(t, "fetching")
    /\ fetch' = [fetch EXCEPT ![t].at = "sleeping", ![t].wait = Delay(0)]
    /\ UNCHANGED <<age, failures>>

FailTransiently(t) ==
    /\ At(t, "fetching")
    /\ IF fetch[t].attempt < MaxRetries
       THEN /\ fetch' = [fetch EXCEPT ![t].at = "sleeping", ![t].attempt = @ + 1,
                                      ![t].wait = Delay(fetch[t].attempt)]
            /\ UNCHANGED failures
       ELSE /\ failures' = IF Tripped THEN failures ELSE failures + 1
            /\ Go(t, "stamping")
    /\ UNCHANGED age

\* ... and then, under a lock of its own, sets the time of the last failure.
StampFailure(t) ==
    /\ At(t, "stamping")
    /\ age' = 0
    /\ Go(t, "done")
    /\ UNCHANGED failures

\* Any other error is returned at once, and the breaker hears nothing of it.
FailFinally(t) ==
    /\ At(t, "fetching")
    /\ Go(t, "done")
    /\ UNCHANGED <<failures, age>>

Wake(t) ==
    /\ At(t, "sleeping") /\ fetch[t].wait = 0
    /\ Go(t, "fetching")
    /\ UNCHANGED <<failures, age>>

Down(n) == IF n = 0 THEN 0 ELSE n - 1

Tick ==
    /\ age' = IF CoolingDown THEN age + 1 ELSE age
    /\ fetch' = [t \in Tasks |-> [fetch[t] EXCEPT !.wait = Down(@), !.barred = Down(@)]]
    /\ UNCHANGED failures

Step(t) ==
    \/ CheckCooldown(t) \/ Succeed(t) \/ FailTransiently(t) \/ FailFinally(t)
    \/ StampFailure(t) \/ Wake(t)

ClientNext == Tick \/ \E t \in Tasks : Begin(t) \/ Step(t)

ClientSpec == ClientInit /\ [][ClientNext]_clientVars

-----------------------------------------------------------------------------
(* Properties.                                                              *)

\* The cells hold what they can hold; in particular a fetch makes no more attempts
\* than the policy allows and never waits longer than its cap.
ClientTypeOK ==
    /\ failures \in 0..Threshold
    /\ age \in 0..Cooldown \cup {Never}
    /\ fetch \in [Tasks -> [at : {"idle", "checking", "fetching", "sleeping", "stamping",
                                  "done"},
                            attempt : 0..MaxRetries, wait : 0..MaxDelay,
                            barred : 0..Cooldown]]

\* A fetch that found the breaker open sends nothing before the cooldown that was
\* running then is over, whatever other fetches record between its two looks.
OpenBreakerHolds == \A t \in Tasks : At(t, "fetching") => fetch[t].barred = 0

\* The breaker never shuts an origin out for good: fetches it blocks, however many,
\* do not prolong the cooldown.
BreakerReleases == []<>~Open

\* Every fetch comes to an end, though the service fails each attempt; a dropped one
\* leaves its task idle.
FetchReturns ==
    \A t \in Tasks : At(t, "fetching") ~> fetch[t].at \in {"done", "idle"}
=============================================================================
