--------------------------- MODULE FlowNavigator ---------------------------
(***************************************************************************)
(* The multi-step flow navigator of src/src/flow/mod.rs: one navigator,    *)
(* the application task that owns it (`advance` takes &mut self, so at     *)
(* most one call is in flight), the action executor it awaits, the         *)
(* condition evaluator it consults, the clock, and the snapshot an         *)
(* application may persist and restore after a crash (feature `serde`).    *)
(*                                                                         *)
(* Steps are the indices of the `steps` vector; an attribute that names a  *)
(* step holds its index, NoId when absent and UnknownId when no step has   *)
(* that id.  A response is the list of the steps in its flow with their    *)
(* statuses, in its own order, where a step may come more than once, and   *)
(* the empty list without a flow; a step without a status is pending.      *)
(***************************************************************************)
EXTENDS Integers, Sequences

CONSTANTS
    StepCount,      \* steps in the flow
    InitialFlows,   \* the flows a document may open with
    Contexts,       \* what <context step=".."> may name at construction
    Documents,      \* the responses the service may give
    Budgets,        \* arguments of set_retry_budget
    Fallbacks,      \* arguments of set_next_on_error
    FlowTimeout,    \* per-flow timeout, in seconds
    BackoffCap,     \* 60 s in the code
    SerdeFeature,   \* whether to_snapshot / from_snapshot are compiled in
    MaxElapsed,     \* bound: the clock stops here unless a sleep is pending
    MaxCalls,       \* bound: executing advance calls per step
    MaxHistory      \* bound: no advance once the history is this long

Steps == 1..StepCount
NoId == 0
UnknownId == StepCount + 1
StepRef == 0..(StepCount + 1)
End == 0

StepStatus == {"pending", "current", "completed", "skipped"}
StepInfo == [status : StepStatus, next : StepRef, condition : BOOLEAN,
             action : BOOLEAN, next_on_error : StepRef, retry_budget : Nat]
HistoryEntry == [step_id : Steps, status : StepStatus]
Listed == [step_id : 1..UnknownId, status : StepStatus]

ASSUME StepCountAssumption == StepCount \in Nat \ {0}
ASSUME FlowsAssumption == InitialFlows \subseteq [Steps -> StepInfo]
ASSUME ContextsAssumption == Contexts \subseteq StepRef
ASSUME DocumentsAssumption == Documents \subseteq Seq(Listed)
ASSUME SettersAssumption == Budgets \subseteq Nat /\ Fallbacks \subseteq StepRef
ASSUME TimeAssumption == FlowTimeout \in Nat /\ BackoffCap \in Nat
ASSUME SerdeAssumption == SerdeFeature \in BOOLEAN
ASSUME BoundsAssumption ==
    MaxElapsed \in Nat /\ MaxCalls \in Nat /\ MaxHistory \in Nat

VARIABLES
    steps, current_index, history, document, retry_states,
    elapsed,    \* now - created_at
    pc,         \* where the navigator is
    wake,       \* when the pending backoff sleep ends
    cond,       \* what the condition evaluator would answer for each step
    outcome,    \* how the last advance ended
    snapshot,   \* the persisted snapshot, a set of at most one
    served,     \* history: how many responses the executor has returned,
    response,   \* history: and the last of them
    calls,      \* history: advance calls that reached each step's action
    execs,      \* history: executions of each step's action
    granted     \* history: the largest retry budget each step has had

data == <<steps, current_index, history, document, retry_states>>
ghosts == <<served, response, calls, execs, granted>>
vars == <<data, elapsed, pc, wake, cond, outcome, snapshot, ghosts>>

-----------------------------------------------------------------------------
(* Helpers.  A definition named Faulty.. is a deliberately wrong variant of *)
(* the one after it; no behaviour of Spec uses it.                          *)

First(S) == CHOOSE i \in S : \A j \in S : i <= j
Latest(S) == CHOOSE i \in S : \A j \in S : j <= i

WithStatus(f, status) == {i \in Steps : f[i].status = status}

\* resolve_current_index: the current step, else the context's, else the
\* first pending one, else the first.
ResolveCurrentIndex(f, context) ==
    CASE WithStatus(f, "current") # {} -> First(WithStatus(f, "current"))
      [] WithStatus(f, "current") = {} /\ context \in Steps -> context
      [] WithStatus(f, "current") = {} /\ context \notin Steps
            /\ WithStatus(f, "pending") # {} -> First(WithStatus(f, "pending"))
      [] OTHER -> 1

FaultyDetectRegression(old, new) == old = "current" /\ new = "pending"

DetectRegression(old, new) ==
    <<old, new>> \in {<<"completed", "current">>, <<"completed", "pending">>,
                      <<"current", "pending">>}

\* The step after i: its `next` attribute, or document order without one.
FaultyNextOf(i) ==
    IF steps[i].next \in Steps THEN steps[i].next
    ELSE IF i < StepCount THEN i + 1 ELSE i

FaultyUncheckedNextOf(i) ==
    IF steps[i].next # NoId THEN steps[i].next
    ELSE IF i < StepCount THEN i + 1 ELSE End

NextOf(i) ==
    IF steps[i].next # NoId
    THEN IF steps[i].next \in Steps THEN steps[i].next ELSE End
    ELSE IF i < StepCount THEN i + 1 ELSE End

\* evaluate_condition: a step without a condition is always available.
Available(i) == steps[i].condition => cond[i]
Blocked == {i \in Steps : ~Available(i)}

\* The steps advance_to_next_step skips from i: the least set that holds each
\* blocked successor of i and of its own members.
SkippedFrom(i) ==
    LET Closed(S) == \A j \in S \cup {i} : NextOf(j) \in Blocked => NextOf(j) \in S
    IN  {j \in Steps : \A S \in SUBSET Steps : Closed(S) => j \in S}

\* Where the skipping stops; empty when `next` attributes run in a circle of
\* blocked steps and the recursion never ends.
ExitsFrom(i) == {e \in SkippedFrom(i) \cup {i} : NextOf(e) \notin Blocked}

SetStatus(f, S, status) ==
    [i \in Steps |-> IF i \in S THEN [f[i] EXCEPT !.status = status] ELSE f[i]]

RecordHistory(i, status) ==
    history' = Append(history, [step_id |-> i, status |-> status])

\* The bookkeeping of advance_to_next_step, with f the steps as updated so far.
FaultyAdvanceToNextStep(f) ==
    \E e \in ExitsFrom(current_index) :
        /\ current_index' = IF NextOf(e) = End THEN e ELSE NextOf(e)
        /\ steps' = SetStatus(SetStatus(f, SkippedFrom(current_index), "skipped"),
                              {NextOf(e)}, "current")
        /\ pc' = "idle" /\ outcome' = "ok"
        /\ UNCHANGED history

AdvanceToNextStep(f) ==
    \/ /\ ExitsFrom(current_index) = {}
       /\ pc' = "overflowed"
       /\ UNCHANGED <<steps, current_index, history, outcome>>
    \/ \E e \in ExitsFrom(current_index) :
        LET g == SetStatus(f, SkippedFrom(current_index), "skipped")
        IN  /\ pc' = "idle" /\ outcome' = "ok"
            /\ \/ /\ NextOf(e) = End
                  /\ current_index' = e
                  /\ steps' = g
                  /\ UNCHANGED history
               \/ /\ NextOf(e) # End
                  /\ current_index' = NextOf(e)
                  /\ steps' = SetStatus(g, {NextOf(e)}, "current")
                  /\ RecordHistory(NextOf(e), "current")

\* update_state_from_document, the loop over the listed steps.  What entry k of the
\* list finds: step i as the last of the entries before has left it.
StatusBefore(f, doc, k, i) ==
    LET earlier == {j \in 1..(k - 1) : doc[j].step_id = i}
    IN  IF earlier = {} THEN f[i].status ELSE doc[Latest(earlier)].status

Regressions(f, doc) ==
    {k \in DOMAIN doc :
        /\ doc[k].step_id \in Steps
        /\ DetectRegression(StatusBefore(f, doc, k, doc[k].step_id), doc[k].status)}

\* The first regression ends the loop, with the entries before it taken over.
Taken(f, doc) ==
    IF Regressions(f, doc) = {} THEN Len(doc) + 1 ELSE First(Regressions(f, doc))

UpdateFromDocument(f, doc) ==
    [i \in Steps |-> [f[i] EXCEPT !.status = StatusBefore(f, doc, Taken(f, doc), i)]]

\* RetryState::backoff_delay: 1 s doubled per attempt, capped at BackoffCap and
\* at the time left; remaining_ttl is None, no cap, once the timeout has passed.
BackoffDelay(attempts) ==
    LET delay == IF 2 ^ attempts \in 0..BackoffCap THEN 2 ^ attempts ELSE BackoffCap
    IN  IF elapsed <= FlowTimeout /\ FlowTimeout - elapsed < delay
        THEN FlowTimeout - elapsed ELSE delay

-----------------------------------------------------------------------------
Init ==
    /\ steps \in InitialFlows
    /\ \E context \in Contexts :
            current_index = ResolveCurrentIndex(steps, context)
    /\ history = <<[step_id |-> current_index, status |-> steps[current_index].status]>>
    /\ document = 0
    /\ retry_states = [i \in Steps |-> 0]
    /\ elapsed = 0
    /\ pc = "idle"
    /\ wake = 0
    /\ cond = [i \in Steps |-> TRUE]
    /\ outcome = "none"
    /\ snapshot = {}
    /\ served = 0
    /\ response = << >>
    /\ calls = [i \in Steps |-> 0]
    /\ execs = [i \in Steps |-> 0]
    /\ granted = [i \in Steps |-> steps[i].retry_budget]

Return(result) == pc' = "idle" /\ outcome' = result

Execute == pc' = "executing" /\ execs' = [execs EXCEPT ![current_index] = @ + 1]

\* advance, up to its first await.
AdvanceTimedOut ==
    /\ pc = "idle" /\ elapsed >= FlowTimeout
    /\ Return("aborted")
    /\ UNCHANGED <<data, elapsed, wake, cond, snapshot, ghosts>>

MayAdvance == pc = "idle" /\ elapsed < FlowTimeout /\ Len(history) < MaxHistory

AdvanceSkips ==
    /\ MayAdvance /\ current_index \in Blocked
    /\ AdvanceToNextStep(SetStatus(steps, {current_index}, "skipped"))
    /\ UNCHANGED <<document, retry_states, elapsed, wake, cond, snapshot, ghosts>>

AdvanceWithoutAction ==
    /\ MayAdvance /\ current_index \notin Blocked /\ ~steps[current_index].action
    /\ Return("aborted")
    /\ UNCHANGED <<data, elapsed, wake, cond, snapshot, ghosts>>

AdvanceExecutes ==
    /\ MayAdvance /\ current_index \notin Blocked /\ steps[current_index].action
    /\ calls[current_index] < MaxCalls
    /\ Execute
    /\ calls' = [calls EXCEPT ![current_index] = @ + 1]
    /\ UNCHANGED <<data, elapsed, wake, cond, outcome, snapshot, served, response,
                   granted>>

\* The executor returns a document: the rest of advance (or of the retry in
\* handle_step_error, which does the same).
ExecutorSucceeds ==
    /\ pc = "executing"
    /\ served' = served + 1
    /\ \E doc \in Documents :
        LET done == SetStatus(steps, {current_index}, "completed")
        IN  /\ response' = doc
            /\ \/ /\ Regressions(done, doc) # {}
                  /\ steps' = UpdateFromDocument(done, doc)
                  /\ Return("regression")
                  /\ UNCHANGED <<current_index, history, document>>
               \/ /\ Regressions(done, doc) = {}
                  /\ document' = served'
                  /\ AdvanceToNextStep(UpdateFromDocument(done, doc))
    /\ UNCHANGED <<retry_states, elapsed, wake, cond, snapshot, calls, execs, granted>>

\* The executor fails: handle_step_error, whose first act is to index
\* retry_states.
FaultyMayRetry == retry_states[current_index] <= steps[current_index].retry_budget

MayRetry == retry_states[current_index] < steps[current_index].retry_budget

FailureRetries ==
    /\ pc = "executing" /\ current_index \in DOMAIN retry_states /\ MayRetry
    /\ retry_states' = [retry_states EXCEPT ![current_index] = @ + 1]
    /\ wake' = elapsed + BackoffDelay(retry_states'[current_index])
    /\ pc' = "sleeping"
    /\ UNCHANGED <<steps, current_index, history, document, elapsed, cond, outcome,
                   snapshot, ghosts>>

FaultyFailureFallsBack ==
    LET fallback == steps[current_index].next_on_error
    IN  /\ pc = "executing" /\ current_index \in DOMAIN retry_states /\ ~MayRetry
        /\ fallback \in Steps
        /\ steps' = SetStatus(steps, {current_index}, "skipped")
        /\ current_index' = fallback
        /\ RecordHistory(fallback, "current")
        /\ Return("ok")
        /\ UNCHANGED <<document, retry_states, elapsed, wake, cond, snapshot, ghosts>>

FailureFallsBack ==
    LET fallback == steps[current_index].next_on_error
    IN  /\ pc = "executing" /\ current_index \in DOMAIN retry_states /\ ~MayRetry
        /\ fallback \in Steps
        /\ steps' = SetStatus(SetStatus(steps, {current_index}, "skipped"),
                              {fallback}, "current")
        /\ current_index' = fallback
        /\ RecordHistory(fallback, "current")
        /\ Return("ok")
        /\ UNCHANGED <<document, retry_states, elapsed, wake, cond, snapshot, ghosts>>

FailureAborts ==
    /\ pc = "executing" /\ current_index \in DOMAIN retry_states /\ ~MayRetry
    /\ steps[current_index].next_on_error \notin Steps
    /\ Return("aborted")
    /\ UNCHANGED <<data, elapsed, wake, cond, snapshot, ghosts>>

FailurePanics ==
    /\ pc = "executing" /\ current_index \notin DOMAIN retry_states
    /\ pc' = "panicked"
    /\ UNCHANGED <<data, elapsed, wake, cond, outcome, snapshot, ghosts>>

ExecutorFails ==
    FailureRetries \/ FailureFallsBack \/ FailureAborts \/ FailurePanics

FaultyWakeUp ==
    /\ pc = "sleeping" /\ elapsed >= wake
    /\ Execute
    /\ UNCHANGED <<data, elapsed, wake, cond, outcome, snapshot, served, response, calls, granted>>

\* The backoff sleep ends: the timeout is checked again, then the action retried.
WakeUp ==
    /\ pc = "sleeping" /\ elapsed >= wake
    /\ \/ elapsed >= FlowTimeout /\ Return("aborted") /\ UNCHANGED execs
       \/ elapsed < FlowTimeout /\ Execute /\ UNCHANGED outcome
    /\ UNCHANGED <<data, elapsed, wake, cond, snapshot, served, response, calls, granted>>

\* The application drops the future of advance at one of its awaits.
Cancel ==
    /\ pc \in {"executing", "sleeping"}
    /\ Return("none")
    /\ UNCHANGED <<data, elapsed, wake, cond, snapshot, ghosts>>

SetRetryBudget ==
    /\ pc = "idle"
    /\ \E i \in Steps, b \in Budgets :
        /\ steps' = [steps EXCEPT ![i].retry_budget = b]
        /\ granted' = [granted EXCEPT ![i] = IF b > @ THEN b ELSE @]
    /\ UNCHANGED <<current_index, history, document, retry_states, elapsed, pc, wake,
                   cond, outcome, snapshot, served, response, calls, execs>>

SetNextOnError ==
    /\ pc = "idle"
    /\ \E i \in Steps, r \in Fallbacks :
        steps' = [steps EXCEPT ![i].next_on_error = r]
    /\ UNCHANGED <<current_index, history, document, retry_states, elapsed, pc, wake,
                   cond, outcome, snapshot, ghosts>>

ToSnapshot ==
    /\ SerdeFeature /\ pc = "idle"
    /\ snapshot' = {[steps |-> steps, current_index |-> current_index,
                     history |-> history]}
    /\ UNCHANGED <<data, elapsed, pc, wake, cond, outcome, ghosts>>

\* The process crashes, or drops the navigator, and rebuilds it with
\* from_snapshot: a fresh clock, and a retry_states vector of length zero.
FromSnapshot ==
    /\ SerdeFeature
    /\ \E s \in snapshot :
        /\ steps' = s.steps /\ current_index' = s.current_index
        /\ history' = s.history
    /\ document' \in 0..served
    /\ retry_states' = [i \in {} |-> 0]
    /\ elapsed' = 0
    /\ Return("none")
    /\ UNCHANGED <<wake, cond, snapshot, ghosts>>

Tick ==
    /\ elapsed < MaxElapsed \/ (pc = "sleeping" /\ elapsed < wake)
    /\ elapsed' = elapsed + 1
    /\ UNCHANGED <<data, pc, wake, cond, outcome, snapshot, ghosts>>

\* The application's state changes what its ConditionEvaluator answers; only
\* the answers for steps with a condition are ever read.
EvaluatorChanges ==
    /\ \E i \in Steps : steps[i].condition /\ cond' = [cond EXCEPT ![i] = ~@]
    /\ UNCHANGED <<data, elapsed, pc, wake, outcome, snapshot, ghosts>>

Next ==
    \/ AdvanceTimedOut \/ AdvanceSkips \/ AdvanceWithoutAction \/ AdvanceExecutes
    \/ ExecutorSucceeds \/ ExecutorFails \/ WakeUp \/ Cancel
    \/ SetRetryBudget \/ SetNextOnError \/ ToSnapshot \/ FromSnapshot
    \/ Tick \/ EvaluatorChanges

Spec == Init /\ [][Next]_vars

\* The executor's request has a timeout of its own, so its future resolves;
\* timers fire; the clock moves.  Nothing obliges the application to act.
FairSpec ==
    /\ Spec
    /\ WF_vars(ExecutorSucceeds \/ ExecutorFails)
    /\ WF_vars(WakeUp)
    /\ WF_vars(Tick)
-----------------------------------------------------------------------------
(* Properties.                                                              *)

\* The variables hold values of the shapes the code's fields can hold.
TypeOK ==
    /\ steps \in [Steps -> StepInfo]
    /\ current_index \in Steps
    /\ history \in Seq(HistoryEntry)
    /\ document \in Nat
    /\ retry_states \in [Steps -> Nat] \cup [{} -> Nat]
    /\ elapsed \in Nat
    /\ pc \in {"idle", "executing", "sleeping", "panicked", "overflowed"}
    /\ wake \in Nat
    /\ cond \in [Steps -> BOOLEAN]
    /\ outcome \in {"none", "ok", "aborted", "regression"}
    /\ snapshot \subseteq [steps : [Steps -> StepInfo], current_index : Steps,
                          history : Seq(HistoryEntry)]
    /\ served \in Nat /\ response \in Seq(Listed)
    /\ calls \in [Steps -> Nat]
    /\ execs \in [Steps -> Nat]
    /\ granted \in [Steps -> Nat]

\* A step's action (a booking, a payment) runs at most once per advance call
\* plus the retries its budget ever allowed, over the whole life of the
\* navigator: cancelled calls, loops, snapshots and restores included.
BoundedExecutions == \A i \in Steps : execs[i] <= calls[i] + granted[i]

\* The history never lags behind: its last entry is the current step, unless
\* the flow has run off its end by skipping blocked steps.
HistoryTracksCurrent ==
    /\ history # << >>
    /\ \/ history[Len(history)].step_id = current_index
       \/ NextOf(current_index) = End

\* An advance that returns Ok leaves the flow somewhere to go on from: on a
\* step marked current, or at the end of the flow.
OkLeavesNavigable ==
    pc = "idle" /\ outcome = "ok" =>
        steps[current_index].status = "current" \/ NextOf(current_index) = End

\* The response lists a step as skipped, and further on as one that is open.
OpensSkipped(doc, i) ==
    \E j, k \in DOMAIN doc :
        /\ j < k /\ doc[j] = [step_id |-> i, status |-> "skipped"]
        /\ doc[k].step_id = i /\ doc[k].status \in {"current", "pending"}

Completes(i) == served' # served /\ i = current_index /\ pc' = "idle"

\* A completed step, the one whose action has just run included, does not become
\* current or pending under the client's hands, in whatever order and however often a
\* response lists it: only by a restore, by the client's own recorded move to it
\* (`next`, next_on_error), or by way of skipped.  detect_regression takes skipped for
\* the end of a step, yet lets a skipped step be opened again: so a response that lists
\* a completed step as skipped can reopen it, itself or the one after it.
ReopenedOnlyThroughSkipped ==
    [][\A i \in Steps :
        (steps[i].status = "completed" \/ Completes(i))
          /\ steps'[i].status \in {"current", "pending"}
            => \/ FromSnapshot
               \/ /\ i = current_index' /\ steps'[i].status = "current"
                  /\ history' = Append(history, [step_id |-> i, status |-> "current"])
               \/ served' # served /\ OpensSkipped(response', i)]_vars

\* The navigator leaves a step it has completed, so that the next advance does not run
\* its action (the booking, the payment) again.  It stands on a completed step only at
\* the end of the flow, if the flow was opened on it, or since a response was dropped
\* for a regression, when the service has done what it will be asked for again; or if a
\* snapshot taken then was restored, which leaves retry_states empty; or if the process
\* is gone, its stack exhausted by a circle of blocked steps.
CompletedStepsAreLeft ==
    steps[current_index].status = "completed" =>
        \/ NextOf(current_index) = End
        \/ Len(history) = 1
        \/ document # served
        \/ DOMAIN retry_states = {}
        \/ pc = "overflowed"

\* Once the per-flow timeout has passed no execution of an action begins, not
\* even a retry whose backoff began in time.
NoLateExecution == [][execs' # execs => elapsed < FlowTimeout]_vars

\* An advance in flight returns, whatever the executor answers, as long as it
\* answers: retries do not go on for ever and skipping reaches an end.
AdvanceReturns == pc # "idle" ~> pc = "idle"

\* "will be resized below" (the comment in from_snapshot): a restored navigator
\* handles a failing step.  It does not.
RestoredHandlesFailure == pc # "panicked"
=============================================================================
