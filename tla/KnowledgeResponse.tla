------------------------- MODULE KnowledgeResponse -------------------------
(***************************************************************************)
(* Agent responses (src/src/knowledge/response.rs): each task answers the  *)
(* fields a service asks for, one evaluation after the other, and gathers  *)
(* an <answer> or a <refuse> for each.  The caller may record what was     *)
(* allowed in the client's audit log (audit.rs), and the client's state,   *)
(* consents and audit entries, may be exported and restored by a new       *)
(* client after the process has ended (client.rs, feature `serde`).        *)
(* Elements that are added without an evaluation are left out, as are the  *)
(* rule and the time of an audit entry.                                    *)
(***************************************************************************)
EXTENDS Disclosure, Sequences

CONSTANTS
    MaxElements,   \* bound on the elements of a response
    MaxEntries,    \* bound on the audit entries
    MaxRestarts    \* bound on restarts; without any, nothing is exported

ASSUME BoundsAssumption == MaxElements \in Nat /\ MaxEntries \in Nat /\ MaxRestarts \in Nat

VARIABLES
    response,    \* per task, the elements of the response it builds
    log,         \* InMemoryAuditLog; stays empty with a NoOpAuditLog
    exporting,   \* export_state between its two locks: the grants it has read
    snapshot,    \* the exported ClientState
    restarts     \* how often the process has restarted

responseVars == <<response, log>>
stateVars == <<exporting, snapshot, restarts>>
vars == <<evaluationVars, responseVars, stateVars>>

Init ==
    /\ EvaluationInit
    /\ response = [t \in Tasks |-> << >>]
    /\ log = << >>
    /\ exporting = {} /\ snapshot = {} /\ restarts = 0

-----------------------------------------------------------------------------
(* The response.                                                            *)

\* extract_rules: all the document itself can say of a field is what it requires.
ExtractRule(requires) ==
    [requires |-> requires, scope |-> "session", limit |-> Absent, tokenize |-> FALSE]

\* The wire has fewer reasons than the client.
RefuseReasonToAnml(reason) == IF reason = "rate-limited" THEN "policy-violation" ELSE reason

\* build_answer's outcome for the decision task t has come to; `answer` is history.
FaultyElement(t) ==
    LET e == eval[t]
        outcome(kind, attribute, content) ==
            [kind |-> kind, key |-> e.key, attribute |-> attribute, content |-> content,
             answer |-> e.answer]
    IN  IF e.at = "denied" THEN outcome("refuse", RefuseReasonToAnml(e.reason), "none")
        ELSE outcome("answer", BasisOfGrant(t), Disclosed(e.key.field))

Element(t) ==
    LET e == eval[t]
        outcome(kind, attribute, content) ==
            [kind |-> kind, key |-> e.key, attribute |-> attribute, content |-> content,
             answer |-> e.answer]
    IN  IF e.at = "denied" THEN outcome("refuse", RefuseReasonToAnml(e.reason), "none")
        ELSE outcome("answer", e.basis, Disclosed(e.key.field))

\* A field is answered while the response is not full.
Evaluates(t) ==
    /\ eval[t].at = "idle" => Len(response[t]) < MaxElements
    /\ Evaluate(t)
    /\ UNCHANGED <<responseVars, stateVars>>

\* The caller records the disclosure; evaluate leaves that to it.
Record(t) ==
    /\ eval[t].at = "allowed" /\ config.log /\ Len(log) < MaxEntries
    /\ log' = Append(log, [field |-> eval[t].key.field, origin |-> eval[t].key.origin,
                           basis |-> eval[t].basis])
    /\ Go(t, "recorded")
    /\ UNCHANGED <<rule, config, grants, used, approved, unspent, allows, response, stateVars>>

\* answer_checked and the loop of build_response: add the element.
AddElement(t) ==
    /\ eval[t].at \in {"allowed", "recorded", "denied"}
    /\ response' = [response EXCEPT ![t] = Append(@, Element(t))]
    /\ eval' = [eval EXCEPT ![t] = Idle]
    /\ UNCHANGED <<rule, config, grants, used, approved, unspent, allows, log, stateVars>>

\* build gives the document away, and the task may start another.
Finish(t) ==
    /\ eval[t].at = "idle" /\ response[t] # << >>
    /\ response' = [response EXCEPT ![t] = << >>]
    /\ UNCHANGED <<evaluationVars, log, stateVars>>

\* refused_fields.
Refused(t) == SelectSeq(response[t], LAMBDA e : e.kind = "refuse")

-----------------------------------------------------------------------------
(* The client's state.                                                      *)

CallsStore == StoreCall /\ UNCHANGED <<responseVars, stateVars>>

\* export_state reads the grants under the store's lock, then the entries under the
\* log's, if it is one in memory.  The rate limiter is not part of ClientState.
ExportGrants ==
    /\ restarts < MaxRestarts
    /\ IF config.log THEN exporting' = {grants} /\ UNCHANGED snapshot
       ELSE snapshot' = {[grants |-> grants, entries |-> << >>]} /\ UNCHANGED exporting
    /\ UNCHANGED <<evaluationVars, responseVars, restarts>>

ExportEntries ==
    /\ exporting # {}
    /\ snapshot' = {[grants |-> g, entries |-> log] : g \in exporting}
    /\ exporting' = {}
    /\ UNCHANGED <<evaluationVars, responseVars, restarts>>

\* The process ends, at any point; build makes a new client, with the exported state
\* if there is one and it is passed to restore_state.  No state is restored twice.
NewClient(state) ==
    /\ grants' = state.grants
    /\ log' = state.entries
    /\ used' = NothingUsed /\ allows' = NothingUsed
    /\ unspent' = [k \in Key |-> IF state.grants[k] = Absent THEN 0 ELSE 1]
    /\ eval' = [t \in Tasks |-> Idle]
    /\ response' = [t \in Tasks |-> << >>]

Restart ==
    /\ restarts < MaxRestarts
    /\ restarts' = restarts + 1
    /\ exporting' = {} /\ snapshot' = {}
    /\ \E state \in snapshot \cup {[grants |-> NoGrants, entries |-> << >>]} : NewClient(state)
    /\ UNCHANGED <<rule, config, approved>>

Next ==
    \/ \E t \in Tasks : Evaluates(t) \/ Record(t) \/ AddElement(t) \/ Finish(t)
    \/ CallsStore \/ ExportGrants \/ ExportEntries \/ Restart

Spec == Init /\ [][Next]_vars

-----------------------------------------------------------------------------
(* Properties.                                                              *)

\* The variables hold values of the shapes the code's fields can hold.
TypeOK ==
    /\ EvaluationTypeOK
    /\ \A t \in Tasks : Len(response[t]) <= MaxElements
    /\ Len(log) <= MaxEntries /\ (log # << >> => config.log)
    /\ restarts \in 0..MaxRestarts

\* Under the rule of its field, `basis` is what somebody consented with: a yes of the
\* principal to this key, a grant that covers it, or what needs no consent.
Consented(key, basis) ==
    LET requires == rule[key.field].requires
    IN  CASE requires \in {"explicit", "unknown"} ->
                basis = "explicit" /\ <<key, "explicit">> \in approved
          [] requires = "implicit" ->
                \/ <<key, basis>> \in approved
                \/ /\ key.scope # "session"
                   /\ \E a \in approved : /\ a[1].field = key.field /\ a[1].scope = "global"
                                          /\ a[2] = basis
          [] requires = "authentication" -> basis = "delegated" /\ config.auth
          [] requires = "none" -> basis = "implicit"

\* Whatever the store went through since, an answer's `consent` and an audit entry's
\* basis name a consent that was given for the field, the origin and the scope of its
\* rule, or for the field globally, by this client or the one it was restored from;
\* and under an explicit rule the principal was asked for this very answer.
AnswersCiteConsent ==
    /\ \A t \in Tasks : \A i \in DOMAIN response[t] :
        LET e == response[t][i]
        IN  e.kind = "answer" =>
                /\ Consented(e.key, e.attribute)
                /\ rule[e.key.field].requires \in {"explicit", "unknown"} => e.answer = "yes"
    /\ \A i \in DOMAIN log :
        Consented([field |-> log[i].field, origin |-> log[i].origin,
                   scope |-> rule[log[i].field].scope], log[i].basis)

\* A refusal tells the service what stopped the disclosure: the principal's no if and
\* only if that was it, a policy if the places of the rate limit are all taken, a
\* constraint if the client has no means to meet it; and it never hides a yes behind
\* any of them.
RefusalsAreTruthful ==
    \A t \in Tasks : \A i \in DOMAIN response[t] :
        LET e == response[t][i]
            f == e.key.field
        IN  e.kind = "refuse" =>
                /\ e.attribute = "user-denied" <=> e.answer = "no"
                /\ e.attribute = "policy-violation" =>
                      used[f][e.key.origin] = rule[f].limit
                /\ e.attribute = "constraint-violation" =>
                      IF rule[f].requires = "authentication" THEN ~config.auth
                      ELSE ~config.handler
                /\ e.answer = "yes" => e.attribute \in {"trust-insufficient",
                                                        "unsupported-field"}
=============================================================================
