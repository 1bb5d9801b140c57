----------------------------- MODULE RateLimit -----------------------------
(***************************************************************************)
(* The per-field disclosure rate limiter of                                *)
(* src/src/disclosure/rate_limit.rs, for one (field, origin) key: the map  *)
(* keeps the keys apart.  Tasks share the tracker.  check_and_record reads *)
(* the clock first and takes the write lock afterwards, so another task    *)
(* may come in between; what happens under the lock is one step.           *)
(*                                                                         *)
(* The vector of timestamps is the set of positions in `log` (every        *)
(* disclosure recorded so far, oldest call first) that it still holds:     *)
(* the vector's order is the order of the positions.                       *)
(***************************************************************************)
EXTENDS Integers, Sequences, FiniteSets

CONSTANTS
    Tasks,            \* threads that disclose the field
    Limits,           \* rate-limit values of the rules in force
    Window,           \* 24 hours, in ticks
    TicksPerSecond,   \* Instant is finer than the whole seconds reported
    StartTime,        \* the Instant of process start: uptime of the machine
    UnsignedInstants, \* the platform's Instant cannot precede its epoch
    MaxTime,          \* bound on the clock
    MaxLog            \* bound on the disclosures recorded

ASSUME LimitsAssumption == Limits \subseteq Nat
ASSUME WindowAssumption == Window \in Nat \ {0} /\ TicksPerSecond \in Nat \ {0}
ASSUME ClockAssumption == StartTime \in Nat /\ UnsignedInstants \in BOOLEAN
ASSUME BoundsAssumption == MaxTime \in Nat /\ MaxLog \in Nat

VARIABLES
    clock,       \* Instant::now()
    call,        \* per task, the call in progress: a set of at most one
    timestamps,  \* the positions in log the vector still holds
    log,         \* history: every disclosure recorded
    refusal      \* history: the last refusal, while the tracker is untouched

vars == <<clock, call, timestamps, log, refusal>>

Call == [now : Nat, max : Limits]
Disclosure == [at : Nat, max : Limits, decided : Nat]

-----------------------------------------------------------------------------
(* `now.checked_sub(WINDOW_DURATION).unwrap_or(now)`.                       *)
Cutoff(now) == IF UnsignedInstants /\ now < Window THEN now ELSE now - Window

\* The code, and a wrong variant that forgets an entry one tick too early.
FaultyRetained(now) == {i \in timestamps : log[i].at > Cutoff(now) + 1}

Retained(now) == {i \in timestamps : log[i].at > Cutoff(now)}

\* timestamps.first() and its expiry, in whole seconds from now.
FaultyRetryAfter(now, kept) ==
    IF kept = {} THEN 0
    ELSE LET newest == CHOOSE i \in kept : \A j \in kept : j <= i
         IN  (log[newest].at + Window - now) \div TicksPerSecond

SwappedRetryAfter(now, kept) ==
    IF kept = {} THEN 0
    ELSE LET first == CHOOSE i \in kept : \A j \in kept : i <= j
         IN  (now - (log[first].at + Window)) \div TicksPerSecond

RetryAfter(now, kept) ==
    IF kept = {} THEN 0
    ELSE LET first == CHOOSE i \in kept : \A j \in kept : i <= j
             left == log[first].at + Window - now
         IN  IF left > 0 THEN left \div TicksPerSecond ELSE 0

Init ==
    /\ clock = StartTime
    /\ call = [t \in Tasks |-> {}]
    /\ timestamps = {}
    /\ log = << >>
    /\ refusal = {}

\* check_and_record: Instant::now(), before the lock.
Sample(t) ==
    /\ call[t] = {} /\ Len(log) < MaxLog
    /\ \E max \in Limits : call' = [call EXCEPT ![t] = {[now |-> clock, max |-> max]}]
    /\ UNCHANGED <<clock, timestamps, log, refusal>>

\* check_and_record_at, under the write lock.
Accept(t) ==
    \E c \in call[t] :
        /\ Cardinality(Retained(c.now)) < c.max
        /\ log' = Append(log, [at |-> c.now, max |-> c.max, decided |-> clock])
        /\ timestamps' = Retained(c.now) \cup {Len(log) + 1}
        /\ refusal' = {}
        /\ call' = [call EXCEPT ![t] = {}]
        /\ UNCHANGED clock

Refuse(t) ==
    \E c \in call[t] :
        /\ Cardinality(Retained(c.now)) >= c.max
        /\ timestamps' = Retained(c.now)
        /\ refusal' = {[now |-> c.now, max |-> c.max,
                        retry_after |-> RetryAfter(c.now, Retained(c.now))]}
        /\ call' = [call EXCEPT ![t] = {}]
        /\ UNCHANGED <<clock, log>>

CheckAndRecord(t) == Accept(t) \/ Refuse(t)

\* The application empties the tracker: counting starts again.
Clear ==
    /\ timestamps' = {} /\ log' = << >> /\ refusal' = {}
    /\ UNCHANGED <<clock, call>>

Tick ==
    /\ clock < MaxTime
    /\ clock' = clock + 1
    /\ UNCHANGED <<call, timestamps, log, refusal>>

Next == Tick \/ Clear \/ \E t \in Tasks : Sample(t) \/ CheckAndRecord(t)

Spec == Init /\ [][Next]_vars

-----------------------------------------------------------------------------
(* Properties.                                                              *)

\* The variables hold values of the shapes the code's fields can hold.
TypeOK ==
    /\ clock \in Nat
    /\ call \in [Tasks -> SUBSET Call]
    /\ log \in Seq(Disclosure)
    /\ timestamps \in SUBSET (1..Len(log))
    /\ refusal \subseteq [now : Nat, max : Limits, retry_after : Nat]

\* The disclosures up to the k-th that fall in the window ending at time `end`.
InWindow(k, end) == {j \in 1..k : log[j].at > end - Window}

\* At the moment the tracker lets a disclosure through, no more than the limit
\* were made in the 24 hours before that moment, however many tasks share it and
\* however long each waits for the lock.
BoundAtDecision ==
    \A k \in 1..Len(log) : Cardinality(InWindow(k, log[k].decided)) <= log[k].max

\* The tasks have taken the lock in the order in which they read the clock.
InOrder == \A i, j \in 1..Len(log) : i < j => log[i].at <= log[j].at

\* Nobody is told to wait longer than needed: before the reported retry time the
\* tracker would still refuse, again unless a call was overtaken.
RetryNotTooLate ==
    InOrder =>
        \A r \in refusal :
            \A u \in r.now..(r.now + r.retry_after * TicksPerSecond - 1) :
                Cardinality({i \in timestamps : log[i].at > u - Window}) >= r.max
=============================================================================
