-------------------------- MODULE RateLimitProofs --------------------------
(***************************************************************************)
(* For any number of tasks, any limits and any window: the types; nobody   *)
(* is told to wait longer than needed; and, where Instant arithmetic can   *)
(* reach a window into the past, the limit holds at each decision.         *)
(***************************************************************************)
EXTENDS RateLimit, WellFoundedInduction, FiniteSetTheorems, TLAPS

\* Either Instants can precede their epoch, or the machine has been up for a
\* window when the process starts.
PastReachable == UnsignedInstants => StartTime >= Window

\* Every call in progress sampled the clock since the start, and the vector
\* still holds whatever the last window holds.
Kept ==
    /\ clock >= StartTime
    /\ \A t \in Tasks : \A c \in call[t] : StartTime <= c.now /\ c.now <= clock
    /\ \A j \in 1..Len(log) : log[j].at > clock - Window => j \in timestamps

IInv == TypeOK /\ Kept /\ BoundAtDecision

\* With the past reachable, the cutoff is one window before the sampled time.
LEMMA CutoffValue ==
    ASSUME PastReachable, NEW now \in Nat, StartTime <= now
    PROVE  Cutoff(now) = now - Window
  BY WindowAssumption, ClockAssumption DEF Cutoff, PastReachable

\* What the vector holds, and retains, is finite.
LEMMA TimestampsFinite ==
    ASSUME TypeOK, NEW now
    PROVE  /\ IsFiniteSet(timestamps)
           /\ IsFiniteSet(Retained(now))
           /\ Retained(now) \subseteq timestamps
           /\ Cardinality(Retained(now)) \in Nat
<1>1. Len(log) \in Nat
  BY DEF TypeOK
<1>2. IsFiniteSet(1..Len(log))
  BY <1>1, FS_Interval
<1>3. IsFiniteSet(timestamps)
  BY <1>2, FS_Subset DEF TypeOK
<1>4. Retained(now) \subseteq timestamps
  BY DEF Retained
<1> QED
  BY <1>3, <1>4, FS_Subset, FS_CardinalityType

LessThan == {p \in Nat \X Nat : p[1] < p[2]}

\* What the vector holds has a first entry.
LEMMA SmallestNat ==
    ASSUME NEW S \in SUBSET Nat, S # {}
    PROVE  \E i \in S : \A j \in S : i <= j
<1>1. \A x, y \in Nat : <<y, x>> \in LessThan <=> y < x
  BY DEF LessThan
<1>2. IsWellFoundedOn(LessThan, Nat)
  BY NatLessThanWellFounded DEF OpToRel, LessThan
<1>3. PICK x \in S : \A y \in S : ~ (<<y, x>> \in LessThan)
  BY <1>2, WFMin
<1>4. ASSUME NEW y \in S PROVE x <= y
  <2>1. x \in Nat /\ y \in Nat
    BY <1>3
  <2>2. ~ (y < x)
    BY <1>1, <1>3, <2>1, Zenon
  <2> QED
    BY <2>1, <2>2
<1> QED
  BY <1>4

\* The retry time reported is a number of seconds, and with its first entry still
\* in the vector the seconds are whole ones that have not yet run out.
LEMMA RetryAfterValue ==
    ASSUME TypeOK, NEW now \in Nat
    PROVE  /\ RetryAfter(now, Retained(now)) \in Nat
           /\ RetryAfter(now, Retained(now)) > 0 =>
                \E first \in Retained(now) :
                    /\ \A j \in Retained(now) : first <= j
                    /\ RetryAfter(now, Retained(now)) * TicksPerSecond
                            <= log[first].at + Window - now
<1> DEFINE kept == Retained(now)
           first == CHOOSE i \in kept : \A j \in kept : i <= j
           left == log[first].at + Window - now
<1>1. /\ timestamps \subseteq 1..Len(log) /\ Len(log) \in Nat
      /\ \A i \in 1..Len(log) : log[i] \in Disclosure
  BY DEF TypeOK
<1>2. kept \subseteq 1..Len(log)
  BY <1>1 DEF Retained
<1>3. CASE kept = {}
  BY <1>3 DEF RetryAfter
<1>4. CASE kept # {}
  <2>1. \E i \in kept : \A j \in kept : i <= j
    <3>1. kept \subseteq Nat
      BY <1>1, <1>2
    <3> QED
      BY <1>4, <3>1, SmallestNat
  <2>2. first \in kept /\ \A j \in kept : first <= j
    BY <2>1
  <2>3. log[first].at \in Nat
    BY <1>1, <1>2, <2>2 DEF Disclosure
  <2>4. left \in Int
    BY <2>3, WindowAssumption
  <2>5. RetryAfter(now, kept) = IF left > 0 THEN left \div TicksPerSecond ELSE 0
    BY <1>4 DEF RetryAfter
  <2> HIDE DEF kept, first, left
  <2>6. /\ RetryAfter(now, kept) \in Nat
        /\ RetryAfter(now, kept) > 0 => RetryAfter(now, kept) * TicksPerSecond <= left
    BY <2>4, <2>5, WindowAssumption
  <2> QED
    BY <2>2, <2>6 DEF kept, left
<1> QED
  BY <1>3, <1>4

LEMMA InitType == Init => TypeOK
  BY ClockAssumption DEF Init, TypeOK, Disclosure

\* A disclosure recorded is the entry after the last, and one the vector holds.
LEMMA AcceptRecords ==
    ASSUME TypeOK, NEW t \in Tasks, NEW c \in call[t], NEW entry,
           entry = [at |-> c.now, max |-> c.max, decided |-> clock],
           log' = Append(log, entry)
    PROVE  /\ c.now \in Nat /\ c.max \in Limits /\ c.max \in Nat
           /\ clock \in Nat /\ Len(log) \in Nat
           /\ entry \in Disclosure
           /\ Len(log') = Len(log) + 1
           /\ log'[Len(log) + 1] = entry
           /\ \A j \in 1..Len(log) : log'[j] = log[j]
           /\ log' \in Seq(Disclosure)
<1>1. c \in Call /\ clock \in Nat /\ log \in Seq(Disclosure)
  BY DEF TypeOK
<1>2. c.now \in Nat /\ c.max \in Limits /\ c.max \in Nat
  BY <1>1, LimitsAssumption DEF Call
<1>3. entry \in Disclosure
  BY <1>1, <1>2 DEF Disclosure
<1> QED
  BY <1>1, <1>2, <1>3

\* Every step keeps the types.
LEMMA NextType == TypeOK /\ [Next]_vars => TypeOK'
<1> SUFFICES ASSUME TypeOK, [Next]_vars PROVE TypeOK'
  OBVIOUS
<1>1. CASE Tick
  BY <1>1 DEF Tick, TypeOK
<1>2. CASE Clear
  BY <1>2 DEF Clear, TypeOK, Disclosure
<1>3. ASSUME NEW t \in Tasks, Sample(t) PROVE TypeOK'
  BY <1>3 DEF Sample, TypeOK, Call
<1>4. ASSUME NEW t \in Tasks, Accept(t) PROVE TypeOK'
  <2>1. PICK c \in call[t] :
            /\ log' = Append(log, [at |-> c.now, max |-> c.max, decided |-> clock])
            /\ timestamps' = Retained(c.now) \cup {Len(log) + 1}
            /\ refusal' = {}
            /\ call' = [call EXCEPT ![t] = {}]
            /\ UNCHANGED clock
    BY <1>4 DEF Accept
  <2>2. Len(log') = Len(log) + 1 /\ Len(log) \in Nat /\ log' \in Seq(Disclosure)
    BY <2>1, AcceptRecords
  <2>3. timestamps' \in SUBSET (1..Len(log'))
    BY <2>1, <2>2 DEF TypeOK, Retained
  <2>4. call' \in [Tasks -> SUBSET Call]
    BY <2>1 DEF TypeOK
  <2> QED
    BY <2>1, <2>2, <2>3, <2>4 DEF TypeOK
<1>5. ASSUME NEW t \in Tasks, Refuse(t) PROVE TypeOK'
  <2>1. PICK c \in call[t] :
            /\ timestamps' = Retained(c.now)
            /\ refusal' = {[now |-> c.now, max |-> c.max,
                            retry_after |-> RetryAfter(c.now, Retained(c.now))]}
            /\ call' = [call EXCEPT ![t] = {}]
            /\ UNCHANGED <<clock, log>>
    BY <1>5 DEF Refuse
  <2>2. c.now \in Nat /\ c.max \in Limits
    BY DEF TypeOK, Call
  <2>3. RetryAfter(c.now, Retained(c.now)) \in Nat
    BY <2>2, RetryAfterValue
  <2>4. refusal' \subseteq [now : Nat, max : Limits, retry_after : Nat]
    BY <2>1, <2>2, <2>3
  <2>5. timestamps' \in SUBSET (1..Len(log'))
    BY <2>1 DEF TypeOK, Retained
  <2>6. call' \in [Tasks -> SUBSET Call]
    BY <2>1 DEF TypeOK
  <2> QED
    BY <2>1, <2>4, <2>5, <2>6 DEF TypeOK
<1>6. CASE UNCHANGED vars
  BY <1>6 DEF vars, TypeOK
<1> QED
  BY <1>1, <1>2, <1>3, <1>4, <1>5, <1>6 DEF Next, CheckAndRecord

\* The vector, the log and the calls in progress keep their shapes.
THEOREM TypeCorrect == Spec => []TypeOK
  BY InitType, NextType, PTL DEF Spec

-----------------------------------------------------------------------------
(* How long a refused caller is told to wait.                               *)

\* The retry time of a refusal ends no later than its first entry leaves the
\* window: until then, with the entries in order, all of them are still in it.
LEMMA RefusalHolds ==
    ASSUME TypeOK, NEW c, c.now \in Nat, c.max \in Limits, InOrder,
           Cardinality(Retained(c.now)) >= c.max,
           NEW u \in c.now..(c.now
                        + RetryAfter(c.now, Retained(c.now)) * TicksPerSecond - 1)
    PROVE  Cardinality({i \in Retained(c.now) : log[i].at > u - Window}) >= c.max
<1> DEFINE kept == Retained(c.now)
           wait == RetryAfter(c.now, kept)
<1>1. wait \in Nat /\ wait > 0
  BY RetryAfterValue, WindowAssumption
<1>2. PICK first \in kept : /\ \A j \in kept : first <= j
                            /\ wait * TicksPerSecond <= log[first].at + Window - c.now
  BY <1>1, RetryAfterValue
<1>3. /\ kept \subseteq 1..Len(log) /\ Len(log) \in Nat
      /\ \A i \in 1..Len(log) : log[i] \in Disclosure
  BY DEF TypeOK, Retained
<1>4. \A i \in kept : log[i].at \in Nat /\ log[first].at <= log[i].at
  <2> SUFFICES ASSUME NEW i \in kept
               PROVE  log[i].at \in Nat /\ log[first].at <= log[i].at
    OBVIOUS
  <2>1. log[i].at \in Nat /\ log[first].at \in Nat
    BY <1>3 DEF Disclosure
  <2>2. CASE first = i
    BY <2>1, <2>2
  <2>3. CASE first < i
    BY <1>3, <2>1, <2>3 DEF InOrder
  <2> QED
    BY <1>2, <1>3, <2>2, <2>3
<1>5. wait * TicksPerSecond \in Nat
  BY <1>1, WindowAssumption
<1>6. u - Window < log[first].at
  <2> HIDE DEF wait, kept
  <2>1. u <= c.now + wait * TicksPerSecond - 1 /\ u \in Int
    BY <1>5 DEF wait, kept
  <2>2. log[first].at \in Nat
    BY <1>2, <1>4
  <2> QED
    BY <1>2, <1>5, <2>1, <2>2, WindowAssumption
<1>7. \A i \in kept : log[i].at > u - Window
  <2> HIDE DEF wait, kept
  <2>1. u \in Int /\ log[first].at \in Nat
    BY <1>2, <1>4, <1>5 DEF wait, kept
  <2> QED
    BY <1>4, <1>6, <2>1, WindowAssumption
<1>8. {i \in kept : log[i].at > u - Window} = kept
  BY <1>7
<1> QED
  BY <1>8

\* RetryNotTooLate is inductive: a refusal is written only as it is decided, and
\* the entries it was decided on stay until the next decision clears it.
LEMMA NextRetry == TypeOK /\ RetryNotTooLate /\ [Next]_vars => RetryNotTooLate'
<1> SUFFICES ASSUME TypeOK, RetryNotTooLate, [Next]_vars PROVE RetryNotTooLate'
  OBVIOUS
<1>1. CASE UNCHANGED <<timestamps, log, refusal>>
  BY <1>1 DEF RetryNotTooLate, InOrder
<1>2. CASE refusal' = {}
  BY <1>2 DEF RetryNotTooLate
<1>3. ASSUME NEW t \in Tasks, Refuse(t) PROVE RetryNotTooLate'
  <2>1. PICK c \in call[t] :
            /\ Cardinality(Retained(c.now)) >= c.max
            /\ timestamps' = Retained(c.now)
            /\ refusal' = {[now |-> c.now, max |-> c.max,
                            retry_after |-> RetryAfter(c.now, Retained(c.now))]}
            /\ UNCHANGED log
    BY <1>3 DEF Refuse
  <2>2. c.now \in Nat /\ c.max \in Limits
    BY DEF TypeOK, Call
  <2>3. InOrder' => InOrder
    BY <2>1 DEF InOrder
  <2>4. SUFFICES
            ASSUME InOrder,
                   NEW u \in c.now..(c.now
                        + RetryAfter(c.now, Retained(c.now)) * TicksPerSecond - 1)
            PROVE  Cardinality({i \in timestamps' : log'[i].at > u - Window}) >= c.max
    BY <2>1, <2>3 DEF RetryNotTooLate
  <2>5. Cardinality({i \in Retained(c.now) : log[i].at > u - Window}) >= c.max
    BY <2>1, <2>2, <2>4, RefusalHolds
  <2> QED
    BY <2>1, <2>5
<1> QED
  BY <1>1, <1>2, <1>3 DEF Next, CheckAndRecord, Tick, Clear, Sample, Accept, vars

\* Before the retry time it was told, a refused caller would still be refused,
\* unless a call was overtaken on its way to the lock.
THEOREM RetryInTime == Spec => []RetryNotTooLate
<1>1. Init => TypeOK /\ RetryNotTooLate
  <2>1. Init => RetryNotTooLate
    BY DEF Init, RetryNotTooLate
  <2> QED
    BY <2>1, InitType
<1>2. (TypeOK /\ RetryNotTooLate) /\ [Next]_vars => (TypeOK /\ RetryNotTooLate)'
  BY NextType, NextRetry
<1> QED
  BY <1>1, <1>2, PTL DEF Spec

-----------------------------------------------------------------------------
(* The limit at the moment of each decision.                                *)

\* The tracker starts empty.
LEMMA InitIInv == Init => IInv
  BY ClockAssumption DEF Init, IInv, TypeOK, Kept, BoundAtDecision, Disclosure

\* Every step keeps the invariant.
LEMMA NextIInv == PastReachable /\ IInv /\ [Next]_vars => IInv'
<1> SUFFICES ASSUME PastReachable, IInv, [Next]_vars PROVE IInv'
  OBVIOUS
<1> USE DEF IInv
<1>0. TypeOK'
  BY NextType
<1>1. CASE Tick
  <2>1. clock' = clock + 1 /\ UNCHANGED <<call, timestamps, log, refusal>>
    BY <1>1 DEF Tick
  <2>2. TypeOK'
    BY <1>0
  <2>3. Kept'
    <3>1. clock \in Nat /\ \A j \in 1..Len(log) : log[j].at \in Nat
      <4>1. \A j \in 1..Len(log) : log[j] \in Disclosure
        BY DEF TypeOK
      <4> QED
        BY <4>1 DEF TypeOK, Disclosure
    <3>2. \A t \in Tasks : \A c \in call[t] : c.now \in Nat
      BY DEF TypeOK, Call
    <3>3. \A t \in Tasks : \A c \in call'[t] : StartTime <= c.now /\ c.now <= clock'
      BY <2>1, <3>1, <3>2, ClockAssumption DEF Kept
    <3>4. clock' >= StartTime
      BY <2>1, <3>1, ClockAssumption DEF Kept
    <3>5. \A j \in 1..Len(log) : log[j].at > clock' - Window => j \in timestamps
      BY <2>1, <3>1, WindowAssumption DEF Kept
    <3> QED
      BY <2>1, <3>3, <3>4, <3>5 DEF Kept
  <2>4. BoundAtDecision'
    BY <2>1 DEF BoundAtDecision, InWindow
  <2> QED
    BY <2>2, <2>3, <2>4
<1>2. CASE Clear
  BY <1>2 DEF Clear, TypeOK, Kept, BoundAtDecision, Disclosure
<1>3. ASSUME NEW t \in Tasks, Sample(t) PROVE IInv'
  <2>1. PICK max \in Limits : call' = [call EXCEPT ![t] = {[now |-> clock, max |-> max]}]
    BY <1>3 DEF Sample
  <2>2. UNCHANGED <<clock, timestamps, log, refusal>>
    BY <1>3 DEF Sample
  <2>3. TypeOK'
    BY <1>0
  <2>4. Kept'
    BY <2>1, <2>2, ClockAssumption DEF Kept, TypeOK, Call
  <2>5. BoundAtDecision'
    BY <2>2 DEF BoundAtDecision, InWindow
  <2> QED
    BY <2>3, <2>4, <2>5
<1>4. ASSUME NEW t \in Tasks, Accept(t) PROVE IInv'
  <2>1. PICK c \in call[t] :
            /\ Cardinality(Retained(c.now)) < c.max
            /\ log' = Append(log, [at |-> c.now, max |-> c.max, decided |-> clock])
            /\ timestamps' = Retained(c.now) \cup {Len(log) + 1}
            /\ refusal' = {}
            /\ call' = [call EXCEPT ![t] = {}]
            /\ UNCHANGED clock
    BY <1>4 DEF Accept
  <2> DEFINE n == Len(log)
             entry == [at |-> c.now, max |-> c.max, decided |-> clock]
             kept == Retained(c.now)
  <2>2. /\ c.now \in Nat /\ c.max \in Limits /\ c.max \in Nat
        /\ n \in Nat /\ clock \in Nat /\ entry \in Disclosure
    BY <2>1, AcceptRecords
  <2>3. /\ Len(log') = n + 1
        /\ log'[n + 1] = entry
        /\ \A j \in 1..n : log'[j] = log[j]
        /\ log' \in Seq(Disclosure)
    BY <2>1, AcceptRecords
  <2>4. /\ IsFiniteSet(kept) /\ kept \subseteq timestamps /\ Cardinality(kept) \in Nat
        /\ kept \subseteq 1..n
    BY TimestampsFinite DEF TypeOK
  <2>5. Cutoff(c.now) = c.now - Window /\ c.now <= clock
    BY <2>2, CutoffValue DEF Kept
  <2>6. TypeOK'
    BY <1>0
  <2>7. \A j \in 1..n : log[j].at > clock - Window => j \in kept
    <3>1. \A j \in 1..n : log[j] \in Disclosure
      BY DEF TypeOK
    <3> QED
      BY <2>2, <2>5, <3>1, WindowAssumption DEF Kept, Retained, Disclosure
  <2>8. Kept'
    <3>1. \A j \in 1..(n + 1) : log'[j].at > clock - Window => j \in timestamps'
      BY <2>1, <2>2, <2>3, <2>7
    <3>2. \A s \in Tasks : \A d \in call'[s] : d \in call[s]
      BY <2>1 DEF TypeOK
    <3> QED
      BY <2>1, <2>3, <3>1, <3>2 DEF Kept
  <2>9. ASSUME NEW k \in 1..n
        PROVE  Cardinality(InWindow(k, log[k].decided))' <= log'[k].max
    <3>1. log'[k] = log[k]
      BY <2>3
    <3>2. {j \in 1..k : log'[j].at > log'[k].decided - Window}
            = {j \in 1..k : log[j].at > log[k].decided - Window}
      <4>1. \A j \in 1..k : log'[j] = log[j]
        BY <2>2, <2>3
      <4> QED
        BY <3>1, <4>1
    <3>3. Cardinality({j \in 1..k : log[j].at > log[k].decided - Window}) <= log[k].max
      BY DEF BoundAtDecision, InWindow
    <3> QED
      BY <3>1, <3>2, <3>3 DEF InWindow
  <2>10. Cardinality({j \in 1..(n + 1) : log'[j].at > clock - Window}) <= c.max
    <3> DEFINE recent == {j \in 1..(n + 1) : log'[j].at > clock - Window}
    <3>1. recent \subseteq kept \cup {n + 1}
      BY <2>2, <2>3, <2>7
    <3>2. /\ IsFiniteSet(kept \cup {n + 1})
          /\ Cardinality(kept \cup {n + 1}) = Cardinality(kept) + 1
      <4>1. n + 1 \notin kept
        BY <2>2, <2>4
      <4> HIDE DEF kept, n
      <4> QED
        BY <2>4, <4>1, FS_AddElement
    <3>3. /\ Cardinality(recent) <= Cardinality(kept) + 1
          /\ Cardinality(recent) \in Nat
      <4> HIDE DEF recent, kept
      <4> QED
        BY <3>1, <3>2, FS_Subset, FS_CardinalityType
    <3>4. Cardinality(kept) + 1 <= c.max
      BY <2>1, <2>2, <2>4
    <3> HIDE DEF recent, kept
    <3>5. Cardinality(recent) <= c.max
      BY <2>2, <2>4, <3>3, <3>4
    <3> QED
      BY <3>5 DEF recent
  <2>11. BoundAtDecision'
    <3>1. log'[n + 1].decided = clock /\ log'[n + 1].max = c.max
      BY <2>3
    <3>2. Cardinality({j \in 1..(n + 1) : log'[j].at > log'[n + 1].decided - Window})
            <= log'[n + 1].max
      BY <2>10, <3>1
    <3>3. \A k \in 1..(n + 1) : k \in 1..n \/ k = n + 1
      BY <2>2
    <3> QED
      BY <2>3, <2>9, <3>2, <3>3 DEF BoundAtDecision, InWindow
  <2> QED
    BY <2>6, <2>8, <2>11
<1>5. ASSUME NEW t \in Tasks, Refuse(t) PROVE IInv'
  <2>1. PICK c \in call[t] :
            /\ timestamps' = Retained(c.now)
            /\ refusal' = {[now |-> c.now, max |-> c.max,
                            retry_after |-> RetryAfter(c.now, Retained(c.now))]}
            /\ call' = [call EXCEPT ![t] = {}]
            /\ UNCHANGED <<clock, log>>
    BY <1>5 DEF Refuse
  <2>0. timestamps \subseteq 1..Len(log) /\ log \in Seq(Disclosure) /\ Len(log) \in Nat
    BY DEF TypeOK
  <2>2. c.now \in Nat /\ c.max \in Limits /\ clock \in Nat
    BY DEF TypeOK, Call
  <2>3. Retained(c.now) \subseteq timestamps
    BY TimestampsFinite
  <2>4. Cutoff(c.now) = c.now - Window /\ c.now <= clock
    BY <2>2, CutoffValue DEF Kept
  <2>6. TypeOK'
    BY <1>0
  <2>7. Kept'
    <3>1. \A j \in 1..Len(log) : log[j].at > clock - Window => j \in Retained(c.now)
      <4>1. \A j \in 1..Len(log) : log[j] \in Disclosure
        BY DEF TypeOK
      <4> QED
        BY <2>2, <2>4, <4>1, WindowAssumption DEF Kept, Retained, Disclosure
    <3>2. \A s \in Tasks : \A d \in call'[s] : d \in call[s]
      BY <2>1 DEF TypeOK
    <3> QED
      BY <2>1, <3>1, <3>2 DEF Kept
  <2>8. BoundAtDecision'
    BY <2>1 DEF BoundAtDecision, InWindow
  <2> QED
    BY <2>6, <2>7, <2>8
<1>6. CASE UNCHANGED vars
  BY <1>6 DEF vars, TypeOK, Kept, BoundAtDecision, InWindow
<1> QED
  BY <1>1, <1>2, <1>3, <1>4, <1>5, <1>6 DEF Next, CheckAndRecord

\* At every decision, no more disclosures than the limit lie in the trailing
\* window, for any number of concurrent tasks.
THEOREM DecisionsBounded ==
    ASSUME PastReachable
    PROVE  Spec => []BoundAtDecision
<1>1. IInv => BoundAtDecision
  BY DEF IInv
<1>2. IInv /\ [Next]_vars => IInv'
  BY NextIInv
<1> QED
  BY <1>1, <1>2, InitIInv, PTL DEF Spec
=============================================================================
