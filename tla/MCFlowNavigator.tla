-------------------------- MODULE MCFlowNavigator --------------------------
(***************************************************************************)
(* Instances of FlowNavigator for TLC: three steps, in flows chosen so     *)
(* that document order, explicit `next`, dangling ids, loops, conditions   *)
(* and missing actions all occur.                                          *)
(***************************************************************************)
EXTENDS FlowNavigator, TLC

Step(status, next, condition, action) ==
    [status |-> status, next |-> next, condition |-> condition, action |-> action,
     next_on_error |-> NoId, retry_budget |-> 0]

\* search -> select -> confirm in document order, the last two conditional.
LinearFlow == <<Step("current", NoId, FALSE, TRUE), Step("pending", NoId, TRUE, TRUE),
                Step("pending", NoId, TRUE, TRUE)>>

\* The first step jumps to the last, which goes back to the first; the middle
\* one has no action and its `next` names no step.
JumpingFlow == <<Step("pending", 3, FALSE, TRUE),
                 Step("pending", UnknownId, FALSE, FALSE),
                 Step("pending", 1, TRUE, TRUE)>>

\* Two conditional steps that name each other: skipping may never end.
CircularFlow == <<Step("completed", 2, FALSE, TRUE), Step("skipped", 3, TRUE, TRUE),
                  Step("completed", 2, TRUE, TRUE)>>

AcyclicFlows == {LinearFlow, JumpingFlow}
AllFlows == {LinearFlow, JumpingFlow, CircularFlow}

\* Two steps, for the run with snapshots and restores: document order and an end whose
\* `next` names no step, a jump back from the end, a step without an action, and a
\* conditional step that names itself after a completed one the flow may open on.
ShortFlows ==
    {<<Step("current", NoId, FALSE, TRUE), Step("pending", UnknownId, FALSE, TRUE)>>,
     <<Step("current", NoId, FALSE, TRUE), Step("pending", 1, TRUE, TRUE)>>,
     <<Step("pending", NoId, FALSE, FALSE), Step("current", 1, FALSE, TRUE)>>,
     <<Step("skipped", 1, TRUE, TRUE), Step("completed", 1, FALSE, TRUE)>>}

Entry(i, status) == [step_id |-> i, status |-> status]

\* No flow; regressions after an entry that is taken over; steps out of order, listed
\* twice, not the flow's own, and reopened by way of skipped.
Silent == << >>
ShortDocuments ==
    {Silent, <<Entry(2, "current"), Entry(1, "completed")>>,
     <<Entry(1, "skipped"), Entry(3, "pending"), Entry(1, "current"), Entry(2, "pending")>>}

MCDocuments ==
    {<<Entry(2, "current"), Entry(1, "completed"), Entry(3, "pending")>>,
     <<Entry(2, "skipped"), Entry(1, "skipped"), Entry(2, "pending"), Entry(1, "pending")>>}
MCContexts == {NoId, 2}
=============================================================================
