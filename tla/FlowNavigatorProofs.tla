------------------------ MODULE FlowNavigatorProofs ------------------------
(***************************************************************************)
(* Theorems about FlowNavigator, for every flow, every response, every     *)
(* budget and every timeout.                                               *)
(***************************************************************************)
EXTENDS FlowNavigator, WellFoundedInduction, TLAPS

\* SetStatus changes statuses only: a flow stays a flow, with its budgets.
LEMMA SetStatusType ==
    ASSUME NEW f \in [Steps -> StepInfo], NEW S, NEW status \in StepStatus
    PROVE  /\ SetStatus(f, S, status) \in [Steps -> StepInfo]
           /\ \A i \in Steps :
                SetStatus(f, S, status)[i].retry_budget = f[i].retry_budget
  BY DEF SetStatus, StepInfo

LessThan == {p \in Nat \X Nat : p[1] < p[2]}

\* Of a set of steps there is a first.
LEMMA SmallestNat ==
    ASSUME NEW S \in SUBSET Nat, S # {}
    PROVE  \E i \in S : \A j \in S : i <= j
<1>1. \A x, y \in Nat : <<y, x>> \in LessThan <=> y < x
  BY DEF LessThan
<1>2. IsWellFoundedOn(LessThan, Nat)
  BY NatLessThanWellFounded DEF OpToRel, LessThan
<1>3. PICK x \in S : \A y \in S : ~ (<<y, x>> \in LessThan)
  BY <1>2, WFMin
<1>4. ASSUME NEW y \in S PROVE x <= y
  <2>1. x \in Nat /\ y \in Nat
    BY <1>3
  <2>2. ~ (y < x)
    BY <1>1, <1>3, <2>1, Zenon
  <2> QED
    BY <2>1, <2>2
<1> QED
  BY <1>4

\* A set of naturals that holds 0 and the successor of each of its members holds
\* every natural.
LEMMA SetInduction ==
    ASSUME NEW S \in SUBSET Nat, 0 \in S, \A n \in S : n + 1 \in S
    PROVE  S = Nat
<1> SUFFICES ASSUME Nat \ S # {} PROVE FALSE
  OBVIOUS
<1>1. PICK i \in Nat \ S : \A j \in Nat \ S : i <= j
  BY SmallestNat
<1>2. i # 0 /\ i - 1 \in Nat
  BY <1>1
<1>3. i - 1 \in S
  BY <1>1, <1>2
<1> QED
  BY <1>1, <1>2, <1>3

\* What entry k of a response leaves of a step: its status, where it lists that step.
LEMMA StatusStep ==
    ASSUME NEW f, NEW doc \in Seq(Listed), NEW i
    PROVE  /\ StatusBefore(f, doc, 1, i) = f[i].status
           /\ \A k \in 1..Len(doc) :
                StatusBefore(f, doc, k + 1, i) =
                  IF doc[k].step_id = i THEN doc[k].status ELSE StatusBefore(f, doc, k, i)
<1> DEFINE earlier(k) == {j \in 1..(k - 1) : doc[j].step_id = i}
<1>1. earlier(1) = {}
  OBVIOUS
<1>2. ASSUME NEW k \in 1..Len(doc)
      PROVE  StatusBefore(f, doc, k + 1, i) =
               IF doc[k].step_id = i THEN doc[k].status ELSE StatusBefore(f, doc, k, i)
  <2>1. CASE doc[k].step_id = i
    <3>1. k \in earlier(k + 1) /\ \A j \in earlier(k + 1) : j \in Nat /\ j <= k
      BY <2>1
    <3>2. Latest(earlier(k + 1)) = k
      <4> HIDE DEF earlier
      <4>1. /\ Latest(earlier(k + 1)) \in earlier(k + 1)
            /\ \A j \in earlier(k + 1) : j <= Latest(earlier(k + 1))
        BY <3>1 DEF Latest
      <4> QED
        BY <3>1, <4>1
    <3>3. StatusBefore(f, doc, k + 1, i) = doc[Latest(earlier(k + 1))].status
      BY <3>1 DEF StatusBefore
    <3> QED
      BY <2>1, <3>2, <3>3
  <2>2. CASE doc[k].step_id # i
    <3>1. earlier(k + 1) = earlier(k)
      BY <2>2
    <3> QED
      BY <2>2, <3>1 DEF StatusBefore
  <2> QED
    BY <2>1, <2>2
<1> QED
  BY <1>1, <1>2 DEF StatusBefore

\* The entries taken over are those before the first regression.
LEMMA TakenBounds ==
    ASSUME NEW f, NEW doc \in Seq(Listed)
    PROVE  /\ Taken(f, doc) \in 1..(Len(doc) + 1)
           /\ \A k \in 1..Len(doc) : k < Taken(f, doc) => k \notin Regressions(f, doc)
<1> DEFINE R == Regressions(f, doc)
<1>1. R \subseteq 1..Len(doc)
  BY DEF Regressions
<1> HIDE DEF R
<1>2. CASE R = {}
  BY <1>2 DEF Taken, R
<1>3. CASE R # {}
  <2>1. \E i \in R : \A j \in R : i <= j
    BY <1>1, <1>3, SmallestNat
  <2>2. First(R) \in R /\ \A j \in R : First(R) <= j
    BY <2>1 DEF First
  <2>3. Taken(f, doc) = First(R)
    BY <1>3 DEF Taken, R
  <2> QED
    BY <1>1, <2>2, <2>3 DEF R
<1> QED
  BY <1>2, <1>3

\* A response gives statuses only, too, regressing or not.
LEMMA UpdateType ==
    ASSUME NEW f \in [Steps -> StepInfo], NEW doc \in Seq(Listed)
    PROVE  /\ UpdateFromDocument(f, doc) \in [Steps -> StepInfo]
           /\ \A i \in Steps :
                UpdateFromDocument(f, doc)[i].retry_budget = f[i].retry_budget
<1> DEFINE after(i, n) == StatusBefore(f, doc, n + 1, i)
<1>1. ASSUME NEW i \in Steps, NEW n \in Nat, n <= Len(doc)
      PROVE  after(i, n) \in StepStatus
  <2> DEFINE S == {m \in Nat : m <= Len(doc) => after(i, m) \in StepStatus}
  <2>1. 0 \in S
    <3>1. after(i, 0) = f[i].status
      BY StatusStep
    <3>2. f[i].status \in StepStatus
      BY DEF StepInfo
    <3> QED
      BY <3>1, <3>2
  <2>2. ASSUME NEW m \in S PROVE m + 1 \in S
    <3> SUFFICES ASSUME m + 1 <= Len(doc) PROVE after(i, m + 1) \in StepStatus
      OBVIOUS
    <3>1. m + 1 \in 1..Len(doc) /\ doc[m + 1] \in Listed
      OBVIOUS
    <3>2. after(i, m + 1) = IF doc[m + 1].step_id = i THEN doc[m + 1].status ELSE after(i, m)
      BY <3>1, StatusStep
    <3>3. after(i, m) \in StepStatus
      OBVIOUS
    <3> HIDE DEF after
    <3> QED
      BY <3>1, <3>2, <3>3 DEF Listed
  <2> HIDE DEF after
  <2>3. S = Nat
    <3> HIDE DEF S
    <3> QED
      BY <2>1, <2>2, SetInduction DEF S
  <2>4. n \in S
    BY <2>3
  <2> QED
    BY <1>1, <2>4
<1>2. \A i \in Steps : StatusBefore(f, doc, Taken(f, doc), i) \in StepStatus
  <2>1. Taken(f, doc) - 1 \in Nat /\ Taken(f, doc) - 1 <= Len(doc)
    BY TakenBounds
  <2>2. \A i \in Steps : after(i, Taken(f, doc) - 1) \in StepStatus
    BY <1>1, <2>1
  <2>3. (Taken(f, doc) - 1) + 1 = Taken(f, doc)
    BY TakenBounds
  <2> QED
    BY <2>2, <2>3
<1> QED
  BY <1>2 DEF UpdateFromDocument, StepInfo

\* A sequence over S, with an element of S appended, is a sequence over S.
LEMMA AppendType ==
    ASSUME NEW S, NEW s \in Seq(S), NEW e \in S
    PROVE  Append(s, e) \in Seq(S)
  OBVIOUS

\* The backoff delay is a number of seconds.
LEMMA BackoffType ==
    ASSUME TypeOK, NEW n \in Nat
    PROVE  BackoffDelay(n) \in Nat
  BY TimeAssumption DEF BackoffDelay, TypeOK

\* The steps skipped on the way to the next one, and the place where skipping
\* stops, are steps of the flow.
LEMMA ExitType ==
    ASSUME TypeOK, NEW e \in ExitsFrom(current_index)
    PROVE  e \in Steps /\ (NextOf(e) # End => NextOf(e) \in Steps)
<1>1. e \in Steps
  BY DEF ExitsFrom, SkippedFrom, TypeOK
<1>2. steps[e] \in StepInfo
  BY <1>1 DEF TypeOK
<1> QED
  BY <1>1, <1>2, StepCountAssumption DEF NextOf, End, Steps, StepInfo, NoId, StepRef

\* Wherever advance_to_next_step ends, the navigator is well formed and no
\* budget has changed.
LEMMA AdvanceToNextStepType ==
    ASSUME TypeOK, NEW f \in [Steps -> StepInfo], AdvanceToNextStep(f),
           \A i \in Steps : f[i].retry_budget = steps[i].retry_budget
    PROVE  /\ steps' \in [Steps -> StepInfo]
           /\ current_index' \in Steps
           /\ history' \in Seq(HistoryEntry)
           /\ pc' \in {"idle", "overflowed"}
           /\ outcome' \in {"none", "ok", "aborted", "regression"}
           /\ \A i \in Steps : steps'[i].retry_budget = steps[i].retry_budget
<1>1. CASE ExitsFrom(current_index) = {}
  BY <1>1 DEF AdvanceToNextStep, TypeOK
<1>2. CASE ExitsFrom(current_index) # {}
  <2>1. PICK e \in ExitsFrom(current_index) :
            LET g == SetStatus(f, SkippedFrom(current_index), "skipped")
            IN  /\ pc' = "idle" /\ outcome' = "ok"
                /\ \/ /\ NextOf(e) = End
                      /\ current_index' = e
                      /\ steps' = g
                      /\ UNCHANGED history
                   \/ /\ NextOf(e) # End
                      /\ current_index' = NextOf(e)
                      /\ steps' = SetStatus(g, {NextOf(e)}, "current")
                      /\ RecordHistory(NextOf(e), "current")
    BY <1>2 DEF AdvanceToNextStep
  <2> DEFINE g == SetStatus(f, SkippedFrom(current_index), "skipped")
             h == SetStatus(g, {NextOf(e)}, "current")
  <2>2. /\ g \in [Steps -> StepInfo]
        /\ \A i \in Steps : g[i].retry_budget = f[i].retry_budget
    BY SetStatusType DEF StepStatus
  <2>3. /\ h \in [Steps -> StepInfo]
        /\ \A i \in Steps : h[i].retry_budget = g[i].retry_budget
    <3> HIDE DEF g
    <3> QED
      BY <2>2, SetStatusType DEF StepStatus
  <2>4. steps' = g \/ steps' = h
    BY <2>1
  <2>5. e \in Steps /\ (NextOf(e) # End => NextOf(e) \in Steps)
    BY ExitType
  <2>6. current_index' \in Steps
    BY <2>1, <2>5
  <2>7. history' \in Seq(HistoryEntry)
    <3>1. CASE NextOf(e) = End
      BY <2>1, <3>1 DEF TypeOK
    <3>2. CASE NextOf(e) # End
      <4>1. [step_id |-> NextOf(e), status |-> "current"] \in HistoryEntry
        BY <2>5, <3>2 DEF HistoryEntry, StepStatus
      <4>2. history \in Seq(HistoryEntry)
        BY DEF TypeOK
      <4>3. history' = Append(history, [step_id |-> NextOf(e), status |-> "current"])
        BY <2>1, <3>2 DEF RecordHistory
      <4> QED
        BY <4>1, <4>2, <4>3, AppendType
    <3> QED
      BY <3>1, <3>2
  <2> HIDE DEF g, h
  <2> QED
    BY <2>1, <2>2, <2>3, <2>4, <2>6, <2>7
<1> QED
  BY <1>1, <1>2

-----------------------------------------------------------------------------
(* Type correctness.                                                        *)

\* The navigator starts well formed.
LEMMA InitType == Init => TypeOK
<1> SUFFICES ASSUME Init PROVE TypeOK
  OBVIOUS
<1>1. steps \in [Steps -> StepInfo]
  BY FlowsAssumption DEF Init
<1>2. current_index \in Steps
  <2>1. PICK context \in Contexts :
            current_index = ResolveCurrentIndex(steps, context)
    BY DEF Init
  <2>2. 1 \in Steps
    BY StepCountAssumption DEF Steps
  <2>3. ASSUME NEW status, WithStatus(steps, status) # {}
        PROVE  First(WithStatus(steps, status)) \in Steps
    <3>1. WithStatus(steps, status) \subseteq Nat
      BY StepCountAssumption DEF WithStatus, Steps
    <3>2. \E i \in WithStatus(steps, status) :
            \A j \in WithStatus(steps, status) : i <= j
      BY <2>3, <3>1, SmallestNat
    <3> QED
      BY <3>2 DEF First, WithStatus
  <2> QED
    BY <2>1, <2>2, <2>3 DEF ResolveCurrentIndex
<1>3. history \in Seq(HistoryEntry)
  <2>1. steps[current_index] \in StepInfo
    BY <1>1, <1>2
  <2>2. [step_id |-> current_index, status |-> steps[current_index].status]
            \in HistoryEntry
    BY <1>2, <2>1 DEF HistoryEntry, StepInfo
  <2> QED
    BY <2>2 DEF Init
<1>4. granted \in [Steps -> Nat]
  BY <1>1 DEF Init, StepInfo
<1> QED
  BY <1>1, <1>2, <1>3, <1>4 DEF Init, TypeOK

\* Every step keeps the navigator well formed.
LEMMA NextType == TypeOK /\ [Next]_vars => TypeOK'
<1> SUFFICES ASSUME TypeOK, [Next]_vars PROVE TypeOK'
  OBVIOUS
<1> USE DEF TypeOK
<1>1. CASE AdvanceTimedOut
  BY <1>1 DEF AdvanceTimedOut, Return, data, ghosts
<1>2. CASE AdvanceSkips
  <2>1. /\ SetStatus(steps, {current_index}, "skipped") \in [Steps -> StepInfo]
        /\ \A i \in Steps : SetStatus(steps, {current_index}, "skipped")[i].retry_budget
                                = steps[i].retry_budget
    BY SetStatusType DEF StepStatus
  <2> QED
    BY <1>2, <2>1, AdvanceToNextStepType DEF AdvanceSkips, ghosts
<1>3. CASE AdvanceWithoutAction
  BY <1>3 DEF AdvanceWithoutAction, Return, data, ghosts
<1>4. CASE AdvanceExecutes
  BY <1>4 DEF AdvanceExecutes, Execute, data
<1>5. CASE ExecutorSucceeds
  <2> DEFINE done == SetStatus(steps, {current_index}, "completed")
  <2>1. /\ done \in [Steps -> StepInfo]
        /\ \A i \in Steps : done[i].retry_budget = steps[i].retry_budget
    BY SetStatusType DEF StepStatus
  <2>2. PICK doc \in Documents :
            /\ response' = doc
            /\ \/ /\ steps' = UpdateFromDocument(done, doc)
                  /\ Return("regression")
                  /\ UNCHANGED <<current_index, history, document>>
               \/ /\ document' = served'
                  /\ AdvanceToNextStep(UpdateFromDocument(done, doc))
    BY <1>5 DEF ExecutorSucceeds
  <2>0. doc \in Seq(Listed)
    BY DocumentsAssumption
  <2>3. /\ UpdateFromDocument(done, doc) \in [Steps -> StepInfo]
        /\ \A i \in Steps :
            UpdateFromDocument(done, doc)[i].retry_budget = steps[i].retry_budget
    <3> HIDE DEF done
    <3> QED
      BY <2>0, <2>1, UpdateType
  <2> HIDE DEF done
  <2>4. CASE /\ steps' = UpdateFromDocument(done, doc)
             /\ Return("regression")
             /\ UNCHANGED <<current_index, history, document>>
    BY <1>5, <2>0, <2>2, <2>3, <2>4 DEF ExecutorSucceeds, Return
  <2>5. CASE /\ document' = served'
             /\ AdvanceToNextStep(UpdateFromDocument(done, doc))
    <3>1. served' \in Nat
      BY <1>5 DEF ExecutorSucceeds
    <3> QED
      BY <1>5, <2>0, <2>2, <2>3, <2>5, <3>1, AdvanceToNextStepType DEF ExecutorSucceeds
  <2> QED
    BY <2>2, <2>4, <2>5
<1>6. CASE FailureRetries
  <2>1. current_index \in DOMAIN retry_states /\ retry_states \in [Steps -> Nat]
    BY <1>6 DEF FailureRetries
  <2>2. retry_states' \in [Steps -> Nat] /\ retry_states'[current_index] \in Nat
    BY <1>6, <2>1 DEF FailureRetries
  <2>3. BackoffDelay(retry_states'[current_index]) \in Nat
    BY <2>2, BackoffType
  <2>4. wake' \in Nat
    BY <1>6, <2>3 DEF FailureRetries
  <2> QED
    BY <1>6, <2>2, <2>4 DEF FailureRetries, ghosts
<1>7. CASE FailureFallsBack
  <2> DEFINE fallback == steps[current_index].next_on_error
             g == SetStatus(steps, {current_index}, "skipped")
  <2>1. g \in [Steps -> StepInfo]
    BY SetStatusType DEF StepStatus
  <2>2. SetStatus(g, {fallback}, "current") \in [Steps -> StepInfo]
    <3> HIDE DEF g
    <3> QED
      BY <2>1, SetStatusType DEF StepStatus
  <2>3. history' \in Seq(HistoryEntry)
    <3>1. [step_id |-> fallback, status |-> "current"] \in HistoryEntry
      BY <1>7 DEF FailureFallsBack, HistoryEntry, StepStatus
    <3>2. history' = Append(history, [step_id |-> fallback, status |-> "current"])
      BY <1>7 DEF FailureFallsBack, RecordHistory
    <3>3. history \in Seq(HistoryEntry)
      OBVIOUS
    <3> QED
      BY <3>1, <3>2, <3>3, AppendType
  <2>4. steps' \in [Steps -> StepInfo] /\ current_index' \in Steps
    BY <1>7, <2>2 DEF FailureFallsBack
  <2> QED
    BY <1>7, <2>3, <2>4 DEF FailureFallsBack, Return, ghosts
<1>8. CASE FailureAborts
  BY <1>8 DEF FailureAborts, Return, data, ghosts
<1>9. CASE FailurePanics
  BY <1>9 DEF FailurePanics, data, ghosts
<1>10. CASE WakeUp
  BY <1>10 DEF WakeUp, Execute, Return, data
<1>11. CASE Cancel
  BY <1>11 DEF Cancel, Return, data, ghosts
<1>12. CASE SetRetryBudget
  <2>1. PICK i \in Steps, b \in Budgets :
            /\ steps' = [steps EXCEPT ![i].retry_budget = b]
            /\ granted' = [granted EXCEPT ![i] = IF b > @ THEN b ELSE @]
    BY <1>12 DEF SetRetryBudget
  <2>2. b \in Nat
    BY SettersAssumption
  <2>3. steps' \in [Steps -> StepInfo]
    BY <2>1, <2>2 DEF StepInfo
  <2>4. granted' \in [Steps -> Nat]
    BY <2>1, <2>2
  <2> QED
    BY <1>12, <2>3, <2>4 DEF SetRetryBudget
<1>13. CASE SetNextOnError
  <2>1. PICK i \in Steps, r \in Fallbacks :
            steps' = [steps EXCEPT ![i].next_on_error = r]
    BY <1>13 DEF SetNextOnError
  <2>2. steps' \in [Steps -> StepInfo]
    BY <2>1, SettersAssumption DEF StepInfo
  <2> QED
    BY <1>13, <2>2 DEF SetNextOnError, ghosts
<1>14. CASE ToSnapshot
  BY <1>14 DEF ToSnapshot, data, ghosts
<1>15. CASE FromSnapshot
  <2>1. document' \in Nat
    BY <1>15 DEF FromSnapshot
  <2>2. steps' \in [Steps -> StepInfo] /\ current_index' \in Steps
        /\ history' \in Seq(HistoryEntry)
    BY <1>15 DEF FromSnapshot
  <2>3. retry_states' \in [{} -> Nat]
    BY <1>15 DEF FromSnapshot
  <2> QED
    BY <1>15, <2>1, <2>2, <2>3 DEF FromSnapshot, Return, ghosts
<1>16. CASE Tick
  BY <1>16 DEF Tick, data, ghosts
<1>17. CASE EvaluatorChanges
  BY <1>17 DEF EvaluatorChanges, data, ghosts
<1>18. CASE UNCHANGED vars
  BY <1>18 DEF vars, data, ghosts
<1> QED
  BY <1>1, <1>2, <1>3, <1>4, <1>5, <1>6, <1>7, <1>8, <1>9, <1>10, <1>11, <1>12,
     <1>13, <1>14, <1>15, <1>16, <1>17, <1>18 DEF Next, ExecutorFails

\* The navigator is well formed in every reachable state.
THEOREM TypeCorrect == Spec => []TypeOK
  BY InitType, NextType, PTL DEF Spec

-----------------------------------------------------------------------------
(* How often an action can run.  The invariant counts executions against    *)
(* the attempts the navigator remembers; a restored navigator remembers     *)
(* none, and can no longer retry.                                           *)

Accounting ==
    /\ \A i \in Steps : steps[i].retry_budget <= granted[i]
    /\ \A s \in snapshot : \A i \in Steps : s.steps[i].retry_budget <= granted[i]
    /\ \A i \in DOMAIN retry_states :
            /\ retry_states[i] <= granted[i]
            /\ execs[i] <= calls[i] + retry_states[i]
    /\ pc = "sleeping" =>
            /\ current_index \in DOMAIN retry_states
            /\ execs[current_index] < calls[current_index] + retry_states[current_index]
    /\ BoundedExecutions

\* Nothing has run yet.
LEMMA InitAccounting == Init => Accounting
<1> SUFFICES ASSUME Init PROVE Accounting
  OBVIOUS
<1>1. TypeOK
  BY InitType
<1>2. \A i \in Steps : steps[i].retry_budget \in Nat /\ granted[i] = steps[i].retry_budget
  BY <1>1 DEF Init, TypeOK, StepInfo
<1> QED
  BY <1>2 DEF Init, Accounting, BoundedExecutions

\* Every step keeps the account: only AdvanceExecutes and a retry run the action,
\* and each is paid for by a call or by an attempt.
LEMMA NextAccounting == TypeOK /\ Accounting /\ [Next]_vars => Accounting'
<1> SUFFICES ASSUME TypeOK, Accounting, [Next]_vars PROVE Accounting'
  OBVIOUS
<1> USE DEF Accounting, BoundedExecutions
<1>0. DOMAIN retry_states \subseteq Steps
  BY DEF TypeOK
<1>1. CASE AdvanceTimedOut
  BY <1>1 DEF AdvanceTimedOut, Return, data, ghosts
<1>2. CASE AdvanceSkips
  <2>1. /\ SetStatus(steps, {current_index}, "skipped") \in [Steps -> StepInfo]
        /\ \A i \in Steps : SetStatus(steps, {current_index}, "skipped")[i].retry_budget
                                = steps[i].retry_budget
    BY SetStatusType DEF StepStatus, TypeOK
  <2>2. /\ \A i \in Steps : steps'[i].retry_budget = steps[i].retry_budget
        /\ pc' # "sleeping"
    BY <1>2, <2>1, AdvanceToNextStepType DEF AdvanceSkips
  <2> QED
    BY <1>2, <2>2 DEF AdvanceSkips, ghosts
<1>3. CASE AdvanceWithoutAction
  BY <1>3 DEF AdvanceWithoutAction, Return, data, ghosts
<1>4. CASE AdvanceExecutes
  <2>1. /\ calls' = [calls EXCEPT ![current_index] = @ + 1]
        /\ execs' = [execs EXCEPT ![current_index] = @ + 1]
        /\ pc' # "sleeping"
        /\ UNCHANGED <<steps, retry_states, snapshot, granted>>
    BY <1>4 DEF AdvanceExecutes, Execute, data
  <2>2. \A i \in Steps : /\ calls[i] \in Nat /\ execs[i] \in Nat
                          /\ calls'[i] - calls[i] = execs'[i] - execs[i]
                          /\ calls'[i] \in Nat /\ execs'[i] \in Nat
    <3>1. calls \in [Steps -> Nat] /\ execs \in [Steps -> Nat] /\ current_index \in Steps
      BY DEF TypeOK
    <3>2. ASSUME NEW i \in Steps, i = current_index
          PROVE  calls'[i] = calls[i] + 1 /\ execs'[i] = execs[i] + 1
      BY <2>1, <3>1, <3>2
    <3>3. ASSUME NEW i \in Steps, i # current_index
          PROVE  calls'[i] = calls[i] /\ execs'[i] = execs[i]
      BY <2>1, <3>1, <3>3
    <3>4. \A i \in Steps : calls[i] \in Nat /\ execs[i] \in Nat
      BY <3>1
    <3> QED
      BY <3>2, <3>3, <3>4
  <2>3. \A i \in DOMAIN retry_states : retry_states[i] \in Nat
    BY DEF TypeOK
  <2>4. \A i \in Steps : granted[i] \in Nat
    BY DEF TypeOK
  <2>5. \A i \in DOMAIN retry_states : execs'[i] <= calls'[i] + retry_states[i]
    BY <1>0, <2>2, <2>3
  <2>6. \A i \in Steps : execs'[i] <= calls'[i] + granted[i]
    BY <2>2, <2>4
  <2> QED
    BY <2>1, <2>5, <2>6
<1>5. CASE ExecutorSucceeds
  <2> DEFINE done == SetStatus(steps, {current_index}, "completed")
  <2>1. /\ done \in [Steps -> StepInfo]
        /\ \A i \in Steps : done[i].retry_budget = steps[i].retry_budget
    BY SetStatusType DEF StepStatus, TypeOK
  <2>2. PICK doc \in Documents :
            \/ steps' = UpdateFromDocument(done, doc) /\ Return("regression")
            \/ AdvanceToNextStep(UpdateFromDocument(done, doc))
    BY <1>5 DEF ExecutorSucceeds
  <2> HIDE DEF done
  <2>3. /\ UpdateFromDocument(done, doc) \in [Steps -> StepInfo]
        /\ \A i \in Steps :
            UpdateFromDocument(done, doc)[i].retry_budget = steps[i].retry_budget
    BY <2>1, UpdateType, DocumentsAssumption
  <2>4. /\ \A i \in Steps : steps'[i].retry_budget = steps[i].retry_budget
        /\ pc' # "sleeping"
    <3>1. CASE steps' = UpdateFromDocument(done, doc) /\ Return("regression")
      BY <2>3, <3>1 DEF Return
    <3>2. CASE AdvanceToNextStep(UpdateFromDocument(done, doc))
      BY <2>3, <3>2, AdvanceToNextStepType
    <3> QED
      BY <2>2, <3>1, <3>2
  <2> QED
    BY <1>5, <2>4 DEF ExecutorSucceeds
<1>6. CASE FailureRetries
  <2>1. retry_states \in [Steps -> Nat] /\ current_index \in Steps
    BY <1>6 DEF FailureRetries, TypeOK
  <2>2. /\ retry_states[current_index] < granted[current_index]
        /\ \A i \in Steps : execs[i] \in Nat /\ calls[i] \in Nat /\ granted[i] \in Nat
    <3>1. steps[current_index].retry_budget \in Nat
      BY <2>1 DEF TypeOK, StepInfo
    <3> QED
      BY <1>6, <2>1, <3>1 DEF FailureRetries, MayRetry, TypeOK
  <2>3. retry_states' = [retry_states EXCEPT ![current_index] = @ + 1]
        /\ UNCHANGED <<steps, current_index, snapshot, ghosts>>
    BY <1>6 DEF FailureRetries
  <2> QED
    BY <2>1, <2>2, <2>3 DEF ghosts
<1>7. CASE FailureFallsBack
  <2> DEFINE fallback == steps[current_index].next_on_error
             g == SetStatus(steps, {current_index}, "skipped")
  <2>1. g \in [Steps -> StepInfo]
        /\ \A i \in Steps : g[i].retry_budget = steps[i].retry_budget
    BY SetStatusType DEF StepStatus, TypeOK
  <2>2. steps' = SetStatus(g, {fallback}, "current")
    BY <1>7 DEF FailureFallsBack
  <2>3. \A i \in Steps : steps'[i].retry_budget = steps[i].retry_budget
    <3> HIDE DEF g
    <3> QED
      BY <2>1, <2>2, SetStatusType DEF StepStatus
  <2> QED
    BY <1>7, <2>3 DEF FailureFallsBack, Return, ghosts
<1>8. CASE FailureAborts
  BY <1>8 DEF FailureAborts, Return, data, ghosts
<1>9. CASE FailurePanics
  BY <1>9 DEF FailurePanics, data, ghosts
<1>10. CASE WakeUp
  <2>1. CASE UNCHANGED execs
    BY <1>10, <2>1 DEF WakeUp, Return, Execute, data
  <2>2. CASE Execute
    <3>1. /\ execs' = [execs EXCEPT ![current_index] = @ + 1] /\ pc' # "sleeping"
          /\ UNCHANGED <<data, snapshot, calls, granted>>
      BY <1>10, <2>2 DEF WakeUp, Execute
    <3>2. \A i \in DOMAIN retry_states : execs'[i] <= calls[i] + retry_states[i]
      BY <1>0, <1>10, <3>1 DEF WakeUp, TypeOK
    <3>3. \A i \in Steps : execs'[i] <= calls[i] + granted[i]
      BY <1>0, <1>10, <3>1 DEF WakeUp, TypeOK
    <3> QED
      BY <3>1, <3>2, <3>3 DEF data
  <2> QED
    BY <1>10, <2>1, <2>2 DEF WakeUp
<1>11. CASE Cancel
  BY <1>11 DEF Cancel, Return, data, ghosts
<1>12. CASE SetRetryBudget
  <2>1. PICK k \in Steps, b \in Budgets :
            /\ steps' = [steps EXCEPT ![k].retry_budget = b]
            /\ granted' = [granted EXCEPT ![k] = IF b > @ THEN b ELSE @]
    BY <1>12 DEF SetRetryBudget
  <2>2. \A i \in Steps : granted'[i] \in Nat /\ granted[i] \in Nat /\ granted[i] <= granted'[i]
    <3>1. b \in Nat /\ granted \in [Steps -> Nat]
      BY SettersAssumption DEF TypeOK
    <3> QED
      BY <2>1, <3>1
  <2>3. \A i \in Steps : steps'[i].retry_budget <= granted'[i]
    BY <2>1, <2>2, SettersAssumption DEF TypeOK, StepInfo
  <2>4. UNCHANGED <<current_index, retry_states, pc, snapshot, calls, execs>>
    BY <1>12 DEF SetRetryBudget
  <2>5. \A s \in snapshot : \A i \in Steps : s.steps[i].retry_budget <= granted'[i]
    <3>1. \A s \in snapshot : \A i \in Steps : s.steps[i].retry_budget \in Nat
      BY DEF TypeOK, StepInfo
    <3> QED
      BY <2>2, <3>1
  <2>6. \A i \in DOMAIN retry_states : retry_states[i] <= granted'[i]
    <3>1. \A i \in DOMAIN retry_states : retry_states[i] \in Nat
      BY DEF TypeOK
    <3> QED
      BY <1>0, <2>2, <3>1
  <2>7. \A i \in Steps : execs[i] <= calls[i] + granted'[i]
    <3>1. \A i \in Steps : execs[i] \in Nat /\ calls[i] \in Nat
      BY DEF TypeOK
    <3> QED
      BY <2>2, <3>1
  <2> QED
    BY <1>0, <2>3, <2>4, <2>5, <2>6, <2>7
<1>13. CASE SetNextOnError
  <2>1. \A i \in Steps : steps'[i].retry_budget = steps[i].retry_budget
    BY <1>13 DEF SetNextOnError, TypeOK, StepInfo
  <2> QED
    BY <1>13, <2>1 DEF SetNextOnError, ghosts
<1>14. CASE ToSnapshot
  BY <1>14 DEF ToSnapshot, data, ghosts
<1>15. CASE FromSnapshot
  <2>1. \A i \in Steps : steps'[i].retry_budget <= granted[i]
    BY <1>15 DEF FromSnapshot
  <2>2. DOMAIN retry_states' = {}
    BY <1>15 DEF FromSnapshot
  <2> QED
    BY <1>15, <2>1, <2>2 DEF FromSnapshot, Return, ghosts
<1>16. CASE Tick
  BY <1>16 DEF Tick, data, ghosts
<1>17. CASE EvaluatorChanges
  BY <1>17 DEF EvaluatorChanges, data, ghosts
<1>18. CASE UNCHANGED vars
  BY <1>18 DEF vars, data, ghosts
<1> QED
  BY <1>1, <1>2, <1>3, <1>4, <1>5, <1>6, <1>7, <1>8, <1>9, <1>10, <1>11, <1>12,
     <1>13, <1>14, <1>15, <1>16, <1>17, <1>18 DEF Next, ExecutorFails

\* The action of a step runs at most once per advance call plus the retries its
\* budget ever allowed, whatever the service, the caller and crashes do.
THEOREM ExecutionsBounded == Spec => []BoundedExecutions
<1>1. Init => TypeOK /\ Accounting
  BY InitType, InitAccounting
<1>2. (TypeOK /\ Accounting) /\ [Next]_vars => (TypeOK /\ Accounting)'
  BY NextType, NextAccounting
<1>3. TypeOK /\ Accounting => BoundedExecutions
  BY DEF Accounting
<1> QED
  BY <1>1, <1>2, <1>3, PTL DEF Spec

-----------------------------------------------------------------------------
(* Where the navigator stands.  One lemma says of every step but a restore  *)
(* what it may do to the flow, the position and the history; the invariants *)
(* and the action property follow from it.                                  *)

\* No step rewires the flow.
LinksKept == \A i \in Steps : steps'[i].next = steps[i].next

\* The position stays, moves off the end of the flow by skipping, or is recorded.
MoveRecorded ==
    \/ UNCHANGED <<history, current_index>>
    \/ NextOf(current_index') = End /\ UNCHANGED history
    \/ history' = Append(history, [step_id |-> current_index', status |-> "current"])

\* An Ok is new, and leaves the flow navigable, or is an earlier one, left alone.
OkEarned ==
    pc' = "idle" /\ outcome' = "ok" =>
        \/ steps'[current_index'].status = "current"
        \/ NextOf(current_index') = End
        \/ /\ pc = "idle" /\ outcome = "ok" /\ UNCHANGED current_index
           /\ \A i \in Steps : steps'[i].status = steps[i].status

\* A completed step is reopened by the client's recorded move to it, or by a response
\* that lists it as skipped first.
ReopenedProperly ==
    \A i \in Steps :
        (steps[i].status = "completed" \/ Completes(i))
          /\ steps'[i].status \in {"current", "pending"}
            => \/ /\ i = current_index' /\ steps'[i].status = "current"
                  /\ history' = Append(history, [step_id |-> i, status |-> "current"])
               \/ served' # served /\ OpensSkipped(response', i)

\* Nothing moves: the position, what led to it and the last response stay.
Unmoved ==
    /\ UNCHANGED <<current_index, history, document, served>>
    /\ DOMAIN retry_states' = DOMAIN retry_states
    /\ pc = "overflowed" => pc' = "overflowed"
    /\ steps'[current_index].status = steps[current_index].status

\* A step that ends on a completed step has run off the end of the flow, has broken
\* off, has dropped a response, or has not moved at all.
LeavesCompleted ==
    steps'[current_index'].status = "completed" =>
        \/ NextOf(current_index') = End
        \/ pc' = "overflowed"
        \/ UNCHANGED document /\ served' = served + 1
        \/ Unmoved

OrdinaryStep ==
    LinksKept /\ MoveRecorded /\ OkEarned /\ ReopenedProperly /\ LeavesCompleted

\* SetStatus gives the steps of a set their status and leaves the rest alone.
LEMMA SetStatusEffect ==
    ASSUME NEW f \in [Steps -> StepInfo], NEW S, NEW status \in StepStatus
    PROVE  \A i \in Steps :
              /\ SetStatus(f, S, status)[i].next = f[i].next
              /\ SetStatus(f, S, status)[i].status = IF i \in S THEN status ELSE f[i].status
  BY DEF SetStatus, StepInfo

\* A response changes no link, and opens a completed step only after it has listed it
\* as skipped.
LEMMA UpdateEffect ==
    ASSUME NEW f \in [Steps -> StepInfo], NEW doc \in Seq(Listed), NEW i \in Steps
    PROVE  /\ UpdateFromDocument(f, doc)[i].next = f[i].next
           /\ f[i].status = "completed" =>
                \/ UpdateFromDocument(f, doc)[i].status \notin {"current", "pending"}
                \/ OpensSkipped(doc, i)
<1> DEFINE after(n) == StatusBefore(f, doc, n + 1, i)
           skips(j) == doc[j] = [step_id |-> i, status |-> "skipped"]
           sound(n) == \/ after(n) = "completed"
                       \/ \E j \in 1..Len(doc) :
                            /\ j <= n /\ skips(j)
                            /\ after(n) \in {"current", "pending"} => OpensSkipped(doc, i)
           last == Taken(f, doc) - 1
<1>1. /\ UpdateFromDocument(f, doc)[i].next = f[i].next
      /\ UpdateFromDocument(f, doc)[i].status = after(last)
  <2>1. last + 1 = Taken(f, doc)
    BY TakenBounds
  <2> QED
    BY <2>1 DEF UpdateFromDocument, StepInfo
<1>2. ASSUME NEW n \in Nat, n + 1 <= last, sound(n) PROVE sound(n + 1)
  <2>1. n + 1 \in 1..Len(doc) /\ n + 1 \notin Regressions(f, doc) /\ doc[n + 1] \in Listed
    BY <1>2, TakenBounds
  <2>2. after(n + 1) = IF doc[n + 1].step_id = i THEN doc[n + 1].status ELSE after(n)
    BY <2>1, StatusStep
  <2>3. doc[n + 1].step_id = i => ~DetectRegression(after(n), doc[n + 1].status)
    BY <2>1 DEF Regressions
  <2> HIDE DEF after
  <2>4. CASE doc[n + 1].step_id # i
    BY <1>2, <2>2, <2>4
  <2>5. CASE doc[n + 1].step_id = i /\ doc[n + 1].status = "completed"
    BY <2>2, <2>5
  <2>6. CASE doc[n + 1].step_id = i /\ doc[n + 1].status = "skipped"
    <3>1. skips(n + 1)
      BY <2>1, <2>6 DEF Listed
    <3> QED
      BY <2>1, <2>2, <2>6, <3>1
  <2>7. CASE doc[n + 1].step_id = i /\ doc[n + 1].status \in {"current", "pending"}
    <3>1. after(n) # "completed"
      BY <2>3, <2>7 DEF DetectRegression
    <3>2. PICK j \in 1..Len(doc) : j <= n /\ skips(j)
      BY <1>2, <3>1
    <3>3. OpensSkipped(doc, i)
      BY <2>1, <2>7, <3>2 DEF OpensSkipped
    <3> QED
      BY <3>2, <3>3
  <2> QED
    BY <2>1, <2>4, <2>5, <2>6, <2>7 DEF Listed, StepStatus
<1>3. ASSUME f[i].status = "completed" PROVE sound(last)
  <2> DEFINE S == {n \in Nat : n <= last => sound(n)}
  <2>1. 0 \in S
    BY <1>3, StatusStep
  <2>2. last \in Nat
    BY TakenBounds
  <2> HIDE DEF sound, last
  <2>3. ASSUME NEW n \in S PROVE n + 1 \in S
    BY <1>2, <2>2, <2>3
  <2>4. S = Nat
    <3> HIDE DEF S
    <3> QED
      BY <2>1, <2>3, SetInduction DEF S
  <2> QED
    BY <2>2, <2>4
<1>4. ASSUME f[i].status = "completed", after(last) \in {"current", "pending"}
      PROVE  OpensSkipped(doc, i)
  <2> HIDE DEF after, last
  <2> QED
    BY <1>3, <1>4
<1> HIDE DEF after, last, sound
<1> QED
  BY <1>1, <1>4

\* advance_to_next_step is an ordinary step, from steps updated so that none is
\* rewired or reopened.
LEMMA AdvanceToNextStepEffect ==
    ASSUME TypeOK, NEW f \in [Steps -> StepInfo], AdvanceToNextStep(f),
           \A i \in Steps : f[i].next = steps[i].next,
           \A i \in Steps : steps[i].status = "completed" \/ Completes(i) =>
              \/ f[i].status \notin {"current", "pending"}
              \/ served' # served /\ OpensSkipped(response', i)
    PROVE  OrdinaryStep
<1>1. CASE ExitsFrom(current_index) = {}
  <2>1. pc' = "overflowed" /\ UNCHANGED <<steps, current_index, history>>
    BY <1>1 DEF AdvanceToNextStep
  <2> QED
    BY <2>1 DEF OrdinaryStep, LinksKept, MoveRecorded, OkEarned, ReopenedProperly,
                LeavesCompleted, Completes
<1>2. CASE ExitsFrom(current_index) # {}
  <2> DEFINE g == SetStatus(f, SkippedFrom(current_index), "skipped")
             h(e) == SetStatus(g, {NextOf(e)}, "current")
  <2>1. PICK e \in ExitsFrom(current_index) :
            \/ /\ NextOf(e) = End /\ current_index' = e
               /\ steps' = g /\ UNCHANGED history
            \/ /\ NextOf(e) # End /\ current_index' = NextOf(e)
               /\ steps' = h(e) /\ RecordHistory(NextOf(e), "current")
    BY <1>2 DEF AdvanceToNextStep
  <2>2. /\ g \in [Steps -> StepInfo]
        /\ \A i \in Steps : /\ g[i].next = steps[i].next
                            /\ steps[i].status = "completed" \/ Completes(i) =>
                                  \/ g[i].status \notin {"current", "pending"}
                                  \/ served' # served /\ OpensSkipped(response', i)
    <3>1. g \in [Steps -> StepInfo]
      BY SetStatusType DEF StepStatus
    <3>2. \A i \in Steps : /\ g[i].next = f[i].next
                           /\ g[i].status = "skipped" \/ g[i].status = f[i].status
      BY SetStatusEffect DEF StepStatus
    <3> QED
      BY <3>1, <3>2
  <2> HIDE DEF g
  <2>3. CASE NextOf(e) = End
    BY <2>1, <2>2, <2>3
       DEF OrdinaryStep, LinksKept, MoveRecorded, OkEarned, ReopenedProperly, LeavesCompleted
  <2>4. CASE NextOf(e) # End
    <3>1. \A i \in Steps :
              /\ steps'[i].next = steps[i].next
              /\ steps'[i].status = IF i = NextOf(e) THEN "current" ELSE g[i].status
      BY <2>1, <2>2, <2>4, SetStatusEffect DEF StepStatus
    <3>2. /\ current_index' = NextOf(e) /\ NextOf(e) \in Steps
          /\ history' = Append(history, [step_id |-> NextOf(e), status |-> "current"])
      BY <2>1, <2>4, ExitType DEF RecordHistory
    <3>3. steps'[current_index'].status = "current"
      BY <3>1, <3>2
    <3> QED
      BY <2>2, <3>1, <3>2, <3>3
         DEF OrdinaryStep, LinksKept, MoveRecorded, OkEarned, ReopenedProperly,
             LeavesCompleted
  <2> QED
    BY <2>3, <2>4
<1> QED
  BY <1>1, <1>2

\* A step that leaves the steps alone, and the position and what led to it, is ordinary
\* unless it claims an Ok.
LEMMA QuietEffect ==
    ASSUME TypeOK, UNCHANGED steps, Unmoved,
           pc' = "idle" /\ outcome' = "ok" => pc = "idle" /\ outcome = "ok"
    PROVE  OrdinaryStep
  BY DEF OrdinaryStep, LinksKept, MoveRecorded, OkEarned, ReopenedProperly, Completes,
         LeavesCompleted, Unmoved, TypeOK, StepInfo

\* A failing step that falls back is skipped, and the fallback is current.
LEMMA FallBackEffect ==
    ASSUME TypeOK, FailureFallsBack
    PROVE  OrdinaryStep
<1> DEFINE fallback == steps[current_index].next_on_error
           g == SetStatus(steps, {current_index}, "skipped")
<1>1. /\ fallback \in Steps
      /\ steps' = SetStatus(g, {fallback}, "current")
      /\ current_index' = fallback
      /\ history' = Append(history, [step_id |-> fallback, status |-> "current"])
      /\ UNCHANGED served
  BY DEF FailureFallsBack, RecordHistory, ghosts
<1>2. /\ g \in [Steps -> StepInfo]
      /\ \A i \in Steps : /\ g[i].next = steps[i].next
                          /\ g[i].status = "skipped" \/ g[i].status = steps[i].status
  <2>1. steps \in [Steps -> StepInfo] /\ "skipped" \in StepStatus
    BY DEF TypeOK, StepStatus
  <2>2. g \in [Steps -> StepInfo]
    BY <2>1, SetStatusType
  <2>3. \A i \in Steps : /\ g[i].next = steps[i].next
                         /\ g[i].status = "skipped" \/ g[i].status = steps[i].status
    BY <2>1, SetStatusEffect
  <2> QED
    BY <2>2, <2>3
<1> HIDE DEF g
<1>3. \A i \in Steps :
          /\ steps'[i].next = steps[i].next
          /\ steps'[i].status = IF i = fallback THEN "current" ELSE g[i].status
  BY <1>1, <1>2, SetStatusEffect DEF StepStatus
<1> HIDE DEF fallback
<1>4. steps'[current_index'].status = "current"
  BY <1>1, <1>3
<1> QED
  BY <1>1, <1>2, <1>3, <1>4
     DEF OrdinaryStep, LinksKept, MoveRecorded, OkEarned, ReopenedProperly, Completes,
         LeavesCompleted

\* Every step but a restore is ordinary.
LEMMA StepEffect ==
    ASSUME TypeOK, [Next]_vars
    PROVE  OrdinaryStep \/ FromSnapshot
<1>1. CASE AdvanceTimedOut
  BY <1>1, QuietEffect DEF AdvanceTimedOut, Return, Unmoved, data, ghosts
<1>2. CASE AdvanceSkips
  <2> DEFINE f == SetStatus(steps, {current_index}, "skipped")
  <2>1. f \in [Steps -> StepInfo] /\ AdvanceToNextStep(f) /\ UNCHANGED served
    BY <1>2, SetStatusType DEF AdvanceSkips, TypeOK, StepStatus, ghosts
  <2>2. \A i \in Steps : /\ f[i].next = steps[i].next
                         /\ f[i].status = "skipped" \/ f[i].status = steps[i].status
    <3>1. steps \in [Steps -> StepInfo] /\ "skipped" \in StepStatus
      BY DEF TypeOK, StepStatus
    <3> QED
      BY <3>1, SetStatusEffect
  <2> HIDE DEF f
  <2>3. \A i \in Steps : steps[i].status = "completed" \/ Completes(i) =>
              \/ f[i].status \notin {"current", "pending"}
              \/ served' # served /\ OpensSkipped(response', i)
    BY <2>1, <2>2 DEF Completes
  <2> QED
    BY <2>1, <2>2, <2>3, AdvanceToNextStepEffect
<1>3. CASE AdvanceWithoutAction
  BY <1>3, QuietEffect DEF AdvanceWithoutAction, Return, MayAdvance, Unmoved, data, ghosts
<1>4. CASE AdvanceExecutes
  BY <1>4, QuietEffect DEF AdvanceExecutes, Execute, MayAdvance, Unmoved, data
<1>5. CASE ExecutorSucceeds
  <2> DEFINE done == SetStatus(steps, {current_index}, "completed")
  <2>1. PICK doc \in Documents :
            /\ response' = doc
            /\ \/ /\ steps' = UpdateFromDocument(done, doc)
                  /\ Return("regression")
                  /\ UNCHANGED <<current_index, history, document>>
               \/ AdvanceToNextStep(UpdateFromDocument(done, doc))
    BY <1>5 DEF ExecutorSucceeds
  <2>2. doc \in Seq(Listed) /\ served' = served + 1 /\ served' # served
    BY <1>5, DocumentsAssumption DEF ExecutorSucceeds, TypeOK
  <2>3. /\ done \in [Steps -> StepInfo]
        /\ \A i \in Steps : /\ done[i].next = steps[i].next
                            /\ steps[i].status = "completed" \/ Completes(i)
                                  => done[i].status = "completed"
    <3>1. steps \in [Steps -> StepInfo] /\ "completed" \in StepStatus
      BY DEF TypeOK, StepStatus
    <3>2. done \in [Steps -> StepInfo]
      BY <3>1, SetStatusType
    <3>3. \A i \in Steps : /\ done[i].next = steps[i].next
                           /\ steps[i].status = "completed" \/ Completes(i)
                                  => done[i].status = "completed"
      BY <3>1, SetStatusEffect DEF Completes
    <3> QED
      BY <3>2, <3>3
  <2> HIDE DEF done
  <2>4. /\ UpdateFromDocument(done, doc) \in [Steps -> StepInfo]
        /\ \A i \in Steps :
              /\ UpdateFromDocument(done, doc)[i].next = steps[i].next
              /\ steps[i].status = "completed" \/ Completes(i) =>
                    \/ UpdateFromDocument(done, doc)[i].status \notin {"current", "pending"}
                    \/ served' # served /\ OpensSkipped(response', i)
    BY <2>1, <2>2, <2>3, UpdateType, UpdateEffect
  <2>5. CASE /\ steps' = UpdateFromDocument(done, doc)
             /\ Return("regression")
             /\ UNCHANGED <<current_index, history, document>>
    BY <2>2, <2>4, <2>5
       DEF Return, OrdinaryStep, LinksKept, MoveRecorded, OkEarned, ReopenedProperly,
           LeavesCompleted
  <2>6. CASE AdvanceToNextStep(UpdateFromDocument(done, doc))
    BY <2>4, <2>6, AdvanceToNextStepEffect
  <2> QED
    BY <2>1, <2>5, <2>6
<1>6. CASE FailureRetries
  <2>1. DOMAIN retry_states' = DOMAIN retry_states
    BY <1>6 DEF FailureRetries
  <2> QED
    BY <1>6, <2>1, QuietEffect DEF FailureRetries, Unmoved, ghosts
<1>7. CASE FailureFallsBack
  BY <1>7, FallBackEffect
<1>8. CASE FailureAborts
  BY <1>8, QuietEffect DEF FailureAborts, Return, Unmoved, data, ghosts
<1>9. CASE FailurePanics
  BY <1>9, QuietEffect DEF FailurePanics, Unmoved, data, ghosts
<1>10. CASE WakeUp
  BY <1>10, QuietEffect DEF WakeUp, Execute, Return, Unmoved, data
<1>11. CASE Cancel
  BY <1>11, QuietEffect DEF Cancel, Return, Unmoved, data, ghosts
<1>12. CASE SetRetryBudget
  <2>1. PICK k \in Steps, b \in Budgets : steps' = [steps EXCEPT ![k].retry_budget = b]
    BY <1>12 DEF SetRetryBudget
  <2>2. \A i \in Steps : /\ steps'[i].next = steps[i].next
                         /\ steps'[i].status = steps[i].status
    BY <2>1 DEF TypeOK, StepInfo
  <2> QED
    BY <1>12, <2>2
       DEF SetRetryBudget, OrdinaryStep, LinksKept, MoveRecorded, OkEarned,
           ReopenedProperly, Completes, LeavesCompleted, Unmoved, TypeOK
<1>13. CASE SetNextOnError
  <2>1. PICK k \in Steps, r \in Fallbacks : steps' = [steps EXCEPT ![k].next_on_error = r]
    BY <1>13 DEF SetNextOnError
  <2>2. \A i \in Steps : /\ steps'[i].next = steps[i].next
                         /\ steps'[i].status = steps[i].status
    BY <2>1 DEF TypeOK, StepInfo
  <2> QED
    BY <1>13, <2>2
       DEF SetNextOnError, OrdinaryStep, LinksKept, MoveRecorded, OkEarned,
           ReopenedProperly, Completes, LeavesCompleted, Unmoved, TypeOK, ghosts
<1>14. CASE ToSnapshot
  BY <1>14, QuietEffect DEF ToSnapshot, Unmoved, data, ghosts
<1>15. CASE Tick
  BY <1>15, QuietEffect DEF Tick, Unmoved, data, ghosts
<1>16. CASE EvaluatorChanges
  BY <1>16, QuietEffect DEF EvaluatorChanges, Unmoved, data, ghosts
<1>17. CASE UNCHANGED vars
  BY <1>17, QuietEffect DEF vars, Unmoved, data, ghosts
<1> QED
  BY <1>1, <1>2, <1>3, <1>4, <1>5, <1>6, <1>7, <1>8, <1>9, <1>10, <1>11, <1>12,
     <1>13, <1>14, <1>15, <1>16, <1>17 DEF Next, ExecutorFails

\* Where the links are kept, every step still leads where it led.
LEMMA NextOfKept ==
    ASSUME LinksKept
    PROVE  \A i \in Steps : NextOf(i)' = NextOf(i)
  BY DEF LinksKept, NextOf

\* What HistoryTracksCurrent says of the navigator, said of the persisted
\* snapshot: without it a restore could bring back any history.  The snapshot is
\* of the same flow, so that its steps lead where the navigator's do.
SnapshotTracks ==
    \A s \in snapshot :
        /\ \A i \in Steps : s.steps[i].next = steps[i].next
        /\ s.history # << >>
        /\ \/ s.history[Len(s.history)].step_id = s.current_index
           \/ NextOf(s.current_index) = End

Tracking == HistoryTracksCurrent /\ SnapshotTracks

LEMMA InitTracking == Init => Tracking
<1> SUFFICES ASSUME Init PROVE Tracking
  OBVIOUS
<1>1. history # << >> /\ history[Len(history)].step_id = current_index
  BY DEF Init
<1>2. snapshot = {}
  BY DEF Init
<1> QED
  BY <1>1, <1>2 DEF Tracking, HistoryTracksCurrent, SnapshotTracks

\* An ordinary step keeps the history on the current step.
LEMMA OrdinaryTracks ==
    ASSUME TypeOK, TypeOK', HistoryTracksCurrent, OrdinaryStep
    PROVE  HistoryTracksCurrent'
<1>1. current_index \in Steps /\ current_index' \in Steps /\ history \in Seq(HistoryEntry)
  BY DEF TypeOK
<1>2. /\ NextOf(current_index)' = NextOf(current_index')
      /\ LinksKept /\ MoveRecorded
  <2>1. \A i \in Steps : NextOf(i)' = NextOf(i)
    BY NextOfKept DEF OrdinaryStep
  <2>2. NextOf(current_index)' = NextOf(current_index')
    BY <1>1 DEF OrdinaryStep, LinksKept, NextOf
  <2> QED
    BY <2>2 DEF OrdinaryStep
<1>3. CASE UNCHANGED <<history, current_index>>
  BY <1>2, <1>3 DEF HistoryTracksCurrent
<1>4. CASE NextOf(current_index') = End /\ UNCHANGED history
  BY <1>2, <1>4 DEF HistoryTracksCurrent
<1>5. CASE history' = Append(history, [step_id |-> current_index', status |-> "current"])
  <2>1. history' # << >> /\ history'[Len(history')].step_id = current_index'
    BY <1>1, <1>5
  <2> QED
    BY <2>1 DEF HistoryTracksCurrent
<1> QED
  BY <1>2, <1>3, <1>4, <1>5 DEF MoveRecorded

\* No step but to_snapshot writes the snapshot.
LEMMA SnapshotWrites ==
    ASSUME [Next]_vars
    PROVE  UNCHANGED snapshot \/ ToSnapshot
  BY DEF Next, vars, data, ExecutorFails, AdvanceTimedOut, AdvanceSkips,
         AdvanceWithoutAction, AdvanceExecutes, ExecutorSucceeds, FailureRetries,
         FailureFallsBack, FailureAborts, FailurePanics, WakeUp, Cancel, SetRetryBudget,
         SetNextOnError, FromSnapshot, Tick, EvaluatorChanges

\* An ordinary step keeps the snapshot on the navigator's flow.
LEMMA OrdinarySnapshot ==
    ASSUME TypeOK, Tracking, OrdinaryStep, UNCHANGED snapshot \/ ToSnapshot
    PROVE  SnapshotTracks'
<1>1. LinksKept /\ \A i \in Steps : NextOf(i)' = NextOf(i)
  BY NextOfKept DEF OrdinaryStep
<1>2. SUFFICES ASSUME NEW s \in snapshot'
               PROVE  /\ \A i \in Steps : s.steps[i].next = steps'[i].next
                      /\ s.history # << >>
                      /\ \/ s.history[Len(s.history)].step_id = s.current_index
                         \/ NextOf(s.current_index)' = End
  BY DEF SnapshotTracks
<1>3. CASE UNCHANGED snapshot
  <2>1. /\ \A i \in Steps : s.steps[i].next = steps[i].next
        /\ s.history # << >>
        /\ \/ s.history[Len(s.history)].step_id = s.current_index
           \/ NextOf(s.current_index) = End
        /\ s.current_index \in Steps
    BY <1>2, <1>3 DEF Tracking, SnapshotTracks, TypeOK
  <2>2. \A i \in Steps : s.steps[i].next = steps'[i].next
    BY <1>1, <2>1 DEF LinksKept
  <2>3. NextOf(s.current_index)' = NextOf(s.current_index)
    BY <1>1, <2>1
  <2> QED
    BY <2>1, <2>2, <2>3
<1>4. CASE ToSnapshot
  <2>1. /\ s.steps = steps /\ s.current_index = current_index /\ s.history = history
        /\ UNCHANGED <<steps, current_index, history>>
    BY <1>2, <1>4 DEF ToSnapshot, data
  <2>2. current_index \in Steps /\ HistoryTracksCurrent
    BY DEF TypeOK, Tracking
  <2>3. NextOf(s.current_index)' = NextOf(current_index)
    BY <1>1, <2>1, <2>2
  <2> QED
    BY <2>1, <2>2, <2>3 DEF HistoryTracksCurrent
<1> QED
  BY <1>3, <1>4

\* A restore brings back what the snapshot recorded, on the same flow.
LEMMA RestoreTracks ==
    ASSUME TypeOK, Tracking, FromSnapshot
    PROVE  Tracking'
<1>1. PICK s \in snapshot : /\ steps' = s.steps
                            /\ current_index' = s.current_index
                            /\ history' = s.history
  BY DEF FromSnapshot
<1>2. LinksKept /\ s.current_index \in Steps
  BY <1>1 DEF Tracking, SnapshotTracks, LinksKept, TypeOK
<1>3. \A i \in Steps : NextOf(i)' = NextOf(i)
  BY <1>2, NextOfKept
<1>4. HistoryTracksCurrent'
  <2>1. /\ s.history # << >>
        /\ \/ s.history[Len(s.history)].step_id = s.current_index
           \/ NextOf(s.current_index) = End
    BY <1>1 DEF Tracking, SnapshotTracks
  <2>2. NextOf(current_index)' = NextOf(s.current_index)
    BY <1>1, <1>2 DEF LinksKept, NextOf
  <2> QED
    BY <1>1, <2>1, <2>2 DEF HistoryTracksCurrent
<1>5. SnapshotTracks'
  <2>1. UNCHANGED snapshot
    BY DEF FromSnapshot
  <2>2. SUFFICES ASSUME NEW t \in snapshot
                 PROVE  /\ \A i \in Steps : t.steps[i].next = steps'[i].next
                        /\ t.history # << >>
                        /\ \/ t.history[Len(t.history)].step_id = t.current_index
                           \/ NextOf(t.current_index)' = End
    BY <2>1 DEF SnapshotTracks
  <2>3. /\ \A i \in Steps : t.steps[i].next = steps[i].next
        /\ t.history # << >>
        /\ \/ t.history[Len(t.history)].step_id = t.current_index
           \/ NextOf(t.current_index) = End
        /\ t.current_index \in Steps
    BY <2>2 DEF Tracking, SnapshotTracks, TypeOK
  <2>4. \A i \in Steps : t.steps[i].next = steps'[i].next
    BY <1>2, <2>3 DEF LinksKept
  <2>5. NextOf(t.current_index)' = NextOf(t.current_index)
    BY <1>3, <2>3
  <2> QED
    BY <2>3, <2>4, <2>5
<1> QED
  BY <1>4, <1>5 DEF Tracking

LEMMA NextTracking == TypeOK /\ TypeOK' /\ Tracking /\ [Next]_vars => Tracking'
<1> SUFFICES ASSUME TypeOK, TypeOK', Tracking, [Next]_vars PROVE Tracking'
  OBVIOUS
<1>1. CASE OrdinaryStep
  <2>1. HistoryTracksCurrent'
    BY <1>1, OrdinaryTracks DEF Tracking
  <2>2. SnapshotTracks'
    BY <1>1, OrdinarySnapshot, SnapshotWrites
  <2> QED
    BY <2>1, <2>2 DEF Tracking
<1>2. CASE FromSnapshot
  BY <1>2, RestoreTracks
<1> QED
  BY <1>1, <1>2, StepEffect

\* The history never lags behind the current step, whatever a response says,
\* whatever is skipped, and across snapshots and restores.
THEOREM HistoryTracked == Spec => []HistoryTracksCurrent
<1>1. Init => TypeOK /\ Tracking
  BY InitType, InitTracking
<1>2. (TypeOK /\ Tracking) /\ [Next]_vars => (TypeOK /\ Tracking)'
  BY NextType, NextTracking
<1>3. TypeOK /\ Tracking => HistoryTracksCurrent
  BY DEF Tracking
<1> QED
  BY <1>1, <1>2, <1>3, PTL DEF Spec

\* An Ok is never answered from a place the flow cannot go on from, and no later
\* call takes that back while it is the last answer.
THEOREM OkNavigable == Spec => []OkLeavesNavigable
<1>1. Init => TypeOK /\ OkLeavesNavigable
  <2>1. Init => OkLeavesNavigable
    BY DEF Init, OkLeavesNavigable
  <2> QED
    BY <2>1, InitType
<1>2. (TypeOK /\ OkLeavesNavigable) /\ [Next]_vars => (TypeOK /\ OkLeavesNavigable)'
  <2> SUFFICES ASSUME TypeOK, OkLeavesNavigable, [Next]_vars
               PROVE  TypeOK' /\ OkLeavesNavigable'
    OBVIOUS
  <2>1. TypeOK'
    BY NextType
  <2>2. CASE OrdinaryStep
    <3>1. NextOf(current_index)' = NextOf(current_index')
      <4>1. current_index' \in Steps
        BY <2>1 DEF TypeOK
      <4> QED
        BY <2>2, <4>1 DEF OrdinaryStep, LinksKept, NextOf
    <3>2. current_index \in Steps /\ OkEarned
      BY <2>2 DEF TypeOK, OrdinaryStep
    <3> QED
      BY <2>1, <3>1, <3>2 DEF OkEarned, OkLeavesNavigable
  <2>3. CASE FromSnapshot
    BY <2>1, <2>3 DEF FromSnapshot, Return, OkLeavesNavigable
  <2> QED
    BY <2>1, <2>2, <2>3, StepEffect
<1> QED
  BY <1>1, <1>2, PTL DEF Spec

\* A response reopens a completed step, the one just executed included, only after
\* listing it as skipped, in whatever order and however often it lists the steps;
\* besides, only the client's own recorded move to it, and a restore, do.
THEOREM ReopeningThroughSkipped == Spec => ReopenedOnlyThroughSkipped
<1> DEFINE Reopened == \A i \in Steps :
        (steps[i].status = "completed" \/ Completes(i))
          /\ steps'[i].status \in {"current", "pending"}
            => \/ FromSnapshot
               \/ /\ i = current_index' /\ steps'[i].status = "current"
                  /\ history' = Append(history, [step_id |-> i, status |-> "current"])
               \/ served' # served /\ OpensSkipped(response', i)
<1>1. TypeOK /\ [Next]_vars => [Reopened]_vars
  BY StepEffect DEF OrdinaryStep, ReopenedProperly
<1>2. Spec => []TypeOK
  BY TypeCorrect
<1>3. ReopenedOnlyThroughSkipped <=> [][Reopened]_vars
  BY PTL DEF ReopenedOnlyThroughSkipped
<1> HIDE DEF Reopened
<1> QED
  BY <1>1, <1>2, <1>3, PTL DEF Spec

\* The document kept is one that has been served.
DocumentServed == document <= served

LEMMA NextServed == TypeOK /\ DocumentServed /\ [Next]_vars => DocumentServed'
<1> SUFFICES ASSUME TypeOK, DocumentServed, [Next]_vars PROVE DocumentServed'
  OBVIOUS
<1>1. document \in Nat /\ served \in Nat
  BY DEF TypeOK
<1>2. CASE ExecutorSucceeds
  <2>1. /\ served' = served + 1
        /\ document' \in {document, served'}
    BY <1>2 DEF ExecutorSucceeds
  <2> QED
    BY <1>1, <2>1 DEF DocumentServed
<1>3. CASE FromSnapshot
  BY <1>1, <1>3 DEF FromSnapshot, DocumentServed, ghosts
<1>4. CASE ~ExecutorSucceeds /\ ~FromSnapshot
  <2>1. UNCHANGED <<document, served>>
    BY <1>4 DEF Next, vars, data, ghosts, ExecutorFails, AdvanceTimedOut, AdvanceSkips,
         AdvanceWithoutAction, AdvanceExecutes, FailureRetries, FailureFallsBack,
         FailureAborts, FailurePanics, WakeUp, Cancel, SetRetryBudget, SetNextOnError,
         ToSnapshot, Tick, EvaluatorChanges
  <2> QED
    BY <2>1 DEF DocumentServed
<1> QED
  BY <1>2, <1>3, <1>4

\* An ordinary step leaves a completed step, or stands where it may.
LEMMA OrdinaryLeaves ==
    ASSUME TypeOK, TypeOK', DocumentServed, CompletedStepsAreLeft, OrdinaryStep
    PROVE  CompletedStepsAreLeft'
<1> SUFFICES ASSUME steps'[current_index'].status = "completed"
             PROVE  \/ NextOf(current_index)' = End
                    \/ Len(history') = 1 \/ document' # served'
                    \/ DOMAIN retry_states' = {} \/ pc' = "overflowed"
  BY DEF CompletedStepsAreLeft
<1>1. NextOf(current_index)' = NextOf(current_index')
  BY DEF TypeOK, OrdinaryStep, LinksKept, NextOf
<1>2. CASE UNCHANGED document /\ served' = served + 1
  BY <1>2 DEF DocumentServed, TypeOK
<1>3. CASE Unmoved
  BY <1>1, <1>3 DEF Unmoved, CompletedStepsAreLeft
<1> QED
  BY <1>1, <1>2, <1>3 DEF OrdinaryStep, LeavesCompleted

\* The navigator stands on a completed step only where it may: the next advance repeats
\* no action the service has done, unless the response that said so was dropped.
THEOREM CompletedLeft == Spec => []CompletedStepsAreLeft
<1> DEFINE Inv == TypeOK /\ DocumentServed /\ CompletedStepsAreLeft
<1>1. Init => Inv
  <2> SUFFICES ASSUME Init PROVE DocumentServed /\ CompletedStepsAreLeft
    BY InitType
  <2>1. Len(history) = 1 /\ document = 0 /\ served = 0
    BY DEF Init
  <2> QED
    BY <2>1 DEF DocumentServed, CompletedStepsAreLeft
<1>2. Inv /\ [Next]_vars => Inv'
  <2> SUFFICES ASSUME TypeOK, DocumentServed, CompletedStepsAreLeft, [Next]_vars
               PROVE  Inv'
    OBVIOUS
  <2>1. TypeOK' /\ DocumentServed'
    BY NextType, NextServed
  <2>2. CASE FromSnapshot
    <3>1. DOMAIN retry_states' = {}
      BY <2>2 DEF FromSnapshot
    <3> QED
      BY <2>1, <3>1 DEF CompletedStepsAreLeft
  <2>3. CASE OrdinaryStep
    BY <2>1, <2>3, OrdinaryLeaves
  <2> QED
    BY <2>2, <2>3, StepEffect
<1>3. Inv => CompletedStepsAreLeft
  OBVIOUS
<1> QED
  BY <1>1, <1>2, <1>3, PTL DEF Spec

\* No execution begins once the flow's time is over, retries included.
THEOREM ExecutionsInTime == Spec => NoLateExecution
<1>1. [Next]_vars => [execs' # execs => elapsed < FlowTimeout]_vars
  <2> SUFFICES ASSUME [Next]_vars, execs' # execs
               PROVE  elapsed < FlowTimeout
    OBVIOUS
  <2>1. AdvanceExecutes \/ WakeUp
    BY DEF Next, vars, data, ghosts, ExecutorFails, AdvanceTimedOut, AdvanceSkips,
           AdvanceWithoutAction, ExecutorSucceeds, FailureRetries, FailureFallsBack,
           FailureAborts, FailurePanics, Cancel, SetRetryBudget, SetNextOnError,
           ToSnapshot, FromSnapshot, Tick, EvaluatorChanges
  <2> QED
    BY <2>1 DEF AdvanceExecutes, MayAdvance, WakeUp
<1> QED
  BY <1>1, PTL DEF Spec, NoLateExecution

=============================================================================
