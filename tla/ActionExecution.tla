--------------------------- MODULE ActionExecution ---------------------------
(***************************************************************************)
(* execute_action of src/src/action/mod.rs, run by several tasks for one   *)
(* document, so with one ActionBudgetTracker: the pipeline up to the HTTP  *)
(* exchange, its 401 retry and timeouts, and the network and server it     *)
(* talks to (external).  A task carries out one action; after a failure on *)
(* the way its caller (FlowNavigator::advance, or the application) may     *)
(* call execute_action for it again, at most MaxRetries times.             *)
(***************************************************************************)
EXTENDS Integers, FiniteSets

CONSTANTS
    Tasks, Origins,
    Actions,      \* what the document's actions may be
    Setups,       \* which handlers the ActionContext may carry
    MaxRequests, MaxOrigins,   \* the ActionBudget
    MaxRetries,   \* bound on repeated calls for one task
    MaxResets     \* bound on ActionBudgetTracker::reset

Action == [origin : Origins, confirm : BOOLEAN,
           auth : {"none", "optional", "required"}]
Setup == [confirm : BOOLEAN, auth : BOOLEAN, disclosure : BOOLEAN]

ASSUME TasksAssumption == IsFiniteSet(Tasks) /\ Tasks # {}
ASSUME OriginsAssumption == IsFiniteSet(Origins)
ASSUME ActionsAssumption == Actions \subseteq Action
ASSUME SetupsAssumption == Setups \subseteq Setup
ASSUME BoundsAssumption ==
    MaxRequests \in Nat /\ MaxOrigins \in Nat /\ MaxRetries \in Nat /\ MaxResets \in Nat

VARIABLES
    setup,
    action,      \* the action each task carries out
    call,        \* per task, where its execute_action is
    count,       \* ActionBudgetTracker.request_count
    origins,     \* ActionBudgetTracker.origins
    resets,      \* how often reset has been called
    resetting,   \* whether a reset is between its two steps
    requests,    \* HTTP requests on their way
    replies,     \* HTTP responses on their way
    applied      \* the requests the server has applied

vars == <<setup, action, call, count, origins, resets, resetting, requests, replies,
          applied>>

-----------------------------------------------------------------------------
Fresh(retries) == [at |-> "idle", confirmed |-> FALSE, denied |-> FALSE, sends |-> 0,
                   refreshed |-> FALSE, retries |-> retries]

Init ==
    /\ setup \in Setups
    /\ action \in [Tasks -> Actions]
    /\ call = [t \in Tasks |-> Fresh(0)]
    /\ count = 0
    /\ origins = {}
    /\ resets = 0
    /\ resetting = FALSE
    /\ requests = {}
    /\ replies = {}
    /\ applied = {}

Go(t, at) == call' = [call EXCEPT ![t].at = at]
At(t, at) == call[t].at = at
NeedsAuth(t) == action[t].auth # "none"

\* Steps 1 to 4: find the action, resolve its endpoint, await the SSRF check's name
\* resolution, validate the parameters.  Any of them may fail.
Prepare(t) ==
    /\ At(t, "idle")
    /\ Go(t, "disclosing") \/ Go(t, "failed")
    /\ UNCHANGED <<setup, action, count, origins, resets, resetting, requests, replies,
                   applied>>

\* Step 5: evaluate the disclosure rules for the values.  A denial is logged.
Disclose(t) ==
    /\ At(t, "disclosing")
    /\ \E denied \in IF setup.disclosure THEN BOOLEAN ELSE {FALSE} :
        call' = [call EXCEPT ![t].at = "confirming", ![t].denied = denied]
    /\ UNCHANGED <<setup, action, count, origins, resets, resetting, requests, replies,
                   applied>>

\* Steps 6 to 8: the principal confirms, if the action asks for it.
FaultyConfirm(t) ==
    /\ At(t, "confirming")
    /\ IF action[t].confirm /\ setup.confirm
       THEN \/ call' = [call EXCEPT ![t].at = "checking", ![t].confirmed = TRUE]
            \/ Go(t, "failed")
       ELSE Go(t, "checking")
    /\ UNCHANGED <<setup, action, count, origins, resets, resetting, requests, replies,
                   applied>>

Confirm(t) ==
    /\ At(t, "confirming")
    /\ IF action[t].confirm
       THEN \/ /\ setup.confirm
               /\ call' = [call EXCEPT ![t].at = "checking", ![t].confirmed = TRUE]
            \/ Go(t, "failed")
       ELSE Go(t, "checking")
    /\ UNCHANGED <<setup, action, count, origins, resets, resetting, requests, replies,
                   applied>>

\* Step 9, check_and_record, one atomic access at a time: load the count ...
FaultyCheckCount(t) ==
    /\ At(t, "checking")
    /\ IF count <= MaxRequests THEN Go(t, "recording") ELSE Go(t, "failed")
    /\ UNCHANGED <<setup, action, count, origins, resets, resetting, requests, replies,
                   applied>>

CheckCount(t) ==
    /\ At(t, "checking")
    /\ IF count < MaxRequests THEN Go(t, "recording") ELSE Go(t, "failed")
    /\ UNCHANGED <<setup, action, count, origins, resets, resetting, requests, replies,
                   applied>>

\* ... check and extend the origins under the lock ...
FaultyRecordOrigin(t) ==
    /\ At(t, "recording")
    /\ IF Cardinality(origins) <= MaxOrigins
       THEN origins' = origins \cup {action[t].origin} /\ Go(t, "counting")
       ELSE UNCHANGED origins /\ Go(t, "failed")
    /\ UNCHANGED <<setup, action, count, resets, resetting, requests, replies, applied>>

RecordOrigin(t) ==
    /\ At(t, "recording")
    /\ IF action[t].origin \in origins \/ Cardinality(origins) < MaxOrigins
       THEN origins' = origins \cup {action[t].origin} /\ Go(t, "counting")
       ELSE UNCHANGED origins /\ Go(t, "failed")
    /\ UNCHANGED <<setup, action, count, resets, resetting, requests, replies, applied>>

\* ... and add to the count.
CountRequest(t) ==
    /\ At(t, "counting")
    /\ count' = count + 1
    /\ Go(t, "credentials")
    /\ UNCHANGED <<setup, action, origins, resets, resetting, requests, replies, applied>>

\* Steps 10 and 11: credentials, then the request, under the per-action timeout.
\* The Idempotency-Key, drawn anew for each call, is the call's number.
Send(t) ==
    /\ At(t, "credentials")
    /\ IF action[t].auth = "required" /\ ~setup.auth
       THEN Go(t, "failed") /\ UNCHANGED requests
       ELSE /\ call' = [call EXCEPT ![t].at = "waiting", ![t].sends = @ + 1]
            /\ requests' = requests \cup {[task |-> t, key |-> call[t].retries,
                                           send |-> call[t].sends + 1]}
    /\ UNCHANGED <<setup, action, count, origins, resets, resetting, replies, applied>>

\* The response arrives, headers and body; a 401 may be answered with fresh
\* credentials, once.
FaultyReceive(t) ==
    /\ At(t, "waiting")
    /\ \E r \in replies :
        /\ r.request = [task |-> t, key |-> call[t].retries, send |-> call[t].sends]
        /\ replies' = replies \ {r}
        /\ Go(t, IF r.status = 401 /\ NeedsAuth(t) /\ setup.auth
                 THEN "refreshing" ELSE "done")
    /\ UNCHANGED <<setup, action, count, origins, resets, resetting, requests, applied>>

Receive(t) ==
    /\ At(t, "waiting")
    /\ \E r \in replies :
        /\ r.request = [task |-> t, key |-> call[t].retries, send |-> call[t].sends]
        /\ replies' = replies \ {r}
        /\ Go(t, IF r.status = 401 /\ NeedsAuth(t) /\ setup.auth /\ ~call[t].refreshed
                 THEN "refreshing" ELSE "done")
    /\ UNCHANGED <<setup, action, count, origins, resets, resetting, requests, applied>>

\* on_unauthorized: Refreshed sends the same body and key again; Failed returns 401.
Refresh(t) ==
    /\ At(t, "refreshing")
    /\ \/ call' = [call EXCEPT ![t].at = "credentials", ![t].refreshed = TRUE]
       \/ Go(t, "done")
    /\ UNCHANGED <<setup, action, count, origins, resets, resetting, requests, replies,
                   applied>>

\* The request, or the whole exchange, times out, or the connection fails.
FaultyTimeout(t) ==
    /\ call[t].at \in {"credentials", "waiting", "refreshing"}
    /\ IF At(t, "waiting") /\ ~call[t].refreshed
       THEN call' = [call EXCEPT ![t].at = "credentials", ![t].refreshed = TRUE]
       ELSE Go(t, "lost")
    /\ UNCHANGED <<setup, action, count, origins, resets, resetting, requests, replies,
                   applied>>

Timeout(t) ==
    /\ call[t].at \in {"credentials", "waiting", "refreshing"}
    /\ Go(t, "lost")
    /\ UNCHANGED <<setup, action, count, origins, resets, resetting, requests, replies,
                   applied>>

\* The caller tries the same action again: a new call, with a key of its own.
Retry(t) ==
    /\ At(t, "lost")
    /\ call[t].retries < MaxRetries
    /\ call' = [call EXCEPT ![t] = Fresh(call[t].retries + 1)]
    /\ UNCHANGED <<setup, action, count, origins, resets, resetting, requests, replies,
                   applied>>

\* reset stores zero, then locks and clears the origins; the application calls it
\* between documents, here also while calls are under way.
ResetCount ==
    /\ resets < MaxResets /\ ~resetting
    /\ count' = 0
    /\ resetting' = TRUE
    /\ resets' = resets + 1
    /\ UNCHANGED <<setup, action, call, origins, requests, replies, applied>>

ResetOrigins ==
    /\ resetting
    /\ origins' = {}
    /\ resetting' = FALSE
    /\ UNCHANGED <<setup, action, call, count, resets, requests, replies, applied>>

\* The server, external: it refuses, or applies the action and replies.
Serve ==
    /\ \E r \in requests, status \in {200, 401} :
        /\ requests' = requests \ {r}
        /\ replies' = replies \cup {[request |-> r, status |-> status]}
        /\ applied' = IF status = 200 THEN applied \cup {r} ELSE applied
    /\ UNCHANGED <<setup, action, call, count, origins, resets, resetting>>

\* Either direction may lose what it carries.
Lose ==
    /\ \/ \E r \in requests : requests' = requests \ {r} /\ UNCHANGED replies
       \/ \E r \in replies : replies' = replies \ {r} /\ UNCHANGED requests
    /\ UNCHANGED <<setup, action, call, count, origins, resets, resetting, applied>>

Execute(t) ==
    \/ Prepare(t) \/ Disclose(t) \/ Confirm(t)
    \/ CheckCount(t) \/ RecordOrigin(t) \/ CountRequest(t)
    \/ Send(t) \/ Receive(t) \/ Refresh(t) \/ Timeout(t)

Next ==
    \/ \E t \in Tasks : Execute(t) \/ Retry(t)
    \/ ResetCount \/ ResetOrigins \/ Serve \/ Lose

Spec == Init /\ [][Next]_vars

-----------------------------------------------------------------------------
(* Properties.                                                              *)

Request == [task : Tasks, key : 0..MaxRetries, send : 1..2]

Places == {"idle", "disclosing", "confirming", "checking", "recording", "counting",
           "credentials", "waiting", "refreshing", "done", "lost", "failed"}

Call == [at : Places, confirmed : BOOLEAN, denied : BOOLEAN, sends : 0..2,
         refreshed : BOOLEAN, retries : 0..MaxRetries]

\* Every variable keeps the shape of what it stands for; in particular a call
\* sends at most two requests.
TypeOK ==
    /\ setup \in Setup
    /\ action \in [Tasks -> Action]
    /\ call \in [Tasks -> Call]
    /\ count \in Nat
    /\ origins \subseteq Origins
    /\ resets \in 0..MaxResets /\ resetting \in BOOLEAN
    /\ requests \subseteq Request /\ applied \subseteq Request
    /\ replies \subseteq [request : Request, status : {200, 401}]

\* Calls that have passed the count's check and not yet added to it.
Counting == {t \in Tasks : call[t].at \in {"recording", "counting"}}

\* The check and the increment are apart, so concurrent calls can take the last place
\* together; but no more than one for each other task gets past the limit, whatever
\* is retried or reset meanwhile.
OvershootBounded == count + Cardinality(Counting) <= MaxRequests + Cardinality(Tasks) - 1

\* The origins are checked and recorded under one lock, and before any request:
\* the document's actions never reach more origins than the budget allows.
OriginsWithinBudget ==
    /\ Cardinality(origins) <= MaxOrigins
    /\ resets = 0 => \A t \in Tasks : call[t].sends > 0 => action[t].origin \in origins

\* A confirm="true" action is never sent, first or again, unless the principal
\* confirmed this very call; without a handler it is never sent.
ConfirmedBeforeSent ==
    \A t \in Tasks : action[t].confirm /\ call[t].sends > 0 => call[t].confirmed

\* The server applies a call at most once: only a 401, which applied nothing, makes
\* execute_http_request send again, never a timeout, whose request may yet arrive.
AppliedOncePerCall ==
    \A p, q \in applied : p.task = q.task /\ p.key = q.key => p = q

\* "If any step fails, a <refuse> is emitted instead of an <answer>"
\* (requirements.md): a value whose disclosure is denied is not sent.  It is.
DeniedIsNotSent == \A t \in Tasks : call[t].denied => call[t].sends = 0
=============================================================================
