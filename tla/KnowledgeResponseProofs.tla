---------------------- MODULE KnowledgeResponseProofs ----------------------
(***************************************************************************)
(* What the answers, refusals and audit entries say, for any tasks, rules, *)
(* handlers and grants.  The properties speak of responses, logs and the   *)
(* store; the invariant adds what each evaluation carries from one lock to *)
(* the next, and what an exported state carries to the next client.        *)
(***************************************************************************)
EXTENDS KnowledgeResponse, FiniteSetTheorems, TLAPS

-----------------------------------------------------------------------------
(* The invariant.                                                           *)

Evaluation == [at : {"idle", "consent", "asking", "granting", "trust", "allowed",
                     "recorded", "denied"},
               key : Key \cup {Absent}, basis : Bases \cup {Absent},
               reason : Reasons \cup {Absent}, answer : {"yes", "no", Absent}]

Outcome == [kind : {"answer", "refuse"}, key : Key,
            attribute : Bases \cup Reasons \cup {"policy-violation", Absent},
            content : {"value", "token", "none"}, answer : {"yes", "no", Absent}]

Entry == [field : Fields, origin : Origins, basis : Bases \cup {Absent}]

Store == [Key -> Bases \cup {Absent}]

LogFits(entries) == Len(entries) <= MaxEntries /\ (entries # << >> => config.log)

Typed ==
    /\ EvaluationTypeOK
    /\ response \in [Tasks -> Seq(Outcome)] /\ log \in Seq(Entry) /\ LogFits(log)
    /\ exporting \subseteq Store
    /\ snapshot \subseteq [grants : Store, entries : Seq(Entry)]
    /\ \A state \in snapshot : LogFits(state.entries)
    /\ restarts \in 0..MaxRestarts

\* An evaluation has the scope of its field's rule, and room for its outcome.
Keyed(t) ==
    eval[t].at # "idle" => /\ eval[t].key \in Key
                           /\ eval[t].key.scope = RuleFor(t).scope
                           /\ Len(response[t]) < MaxElements

WellFormed ==
    /\ Typed
    /\ \A t \in Tasks : Keyed(t) /\ Len(response[t]) <= MaxElements

\* The evaluations that have taken a place of a limit and may yet allow.
Holding(f, o) ==
    {t \in Tasks : /\ eval[t].at \in {"consent", "asking", "granting", "trust"}
                   /\ eval[t].key.field = f /\ eval[t].key.origin = o}

PlacesTaken ==
    \A f \in Fields, o \in Origins :
        rule[f].limit # Absent => allows[f][o] + Cardinality(Holding(f, o)) <= used[f][o]

\* The yeses to a key that have not ended are the one its grant in force stands for and
\* those on their way to the store.
InForce(k) == IF grants[k] = Absent THEN 0 ELSE 1

YesesAccounted == \A k \in Key : unspent[k] = InForce(k) + Cardinality(Granting(k))

\* Every grant, stored or exported, was given.
Given(store) == \A k \in Key : store[k] # Absent => <<k, store[k]>> \in approved

EntriesCite(entries) ==
    \A i \in DOMAIN entries :
        Consented([field |-> entries[i].field, origin |-> entries[i].origin,
                   scope |-> rule[entries[i].field].scope], entries[i].basis)

AsksFirst(t) == RuleFor(t).requires \in {"explicit", "unknown"}

\* What an evaluation goes on with is a consent.
Consenting(t) ==
    /\ eval[t].at \in {"asking", "granting"} => AsksFirst(t) \/ RuleFor(t).requires = "implicit"
    /\ eval[t].at = "granting" =>
          <<eval[t].key, BasisOfGrant(t)>> \in approved /\ eval[t].answer = "yes"
    /\ eval[t].at \in {"trust", "allowed", "recorded"} =>
          /\ Consented(eval[t].key, eval[t].basis)
          /\ AsksFirst(t) => eval[t].answer = "yes"

ConsentsGiven ==
    /\ Given(grants)
    /\ \A store \in exporting : Given(store)
    /\ \A state \in snapshot : Given(state.grants) /\ EntriesCite(state.entries)
    /\ \A t \in Tasks : Consenting(t)

\* What an evaluation was refused for, and what the principal said to it.
Reasoned(t) ==
    LET e == eval[t]
        f == e.key.field
    IN  /\ e.at \in {"consent", "asking"} => e.answer = Absent
        /\ e.at \in {"trust", "allowed", "recorded"} => e.answer # "no"
        /\ e.at = "granting" => e.answer = "yes"
        /\ e.at = "denied" =>
              /\ e.reason \in Reasons
              /\ e.reason = "user-denied" <=> e.answer = "no"
              /\ e.reason = "rate-limited" => used[f][e.key.origin] = rule[f].limit
              /\ e.reason = "constraint-violation" =>
                    IF rule[f].requires = "authentication" THEN ~config.auth
                    ELSE ~config.handler
              /\ e.answer = "yes" => e.reason \in {"trust-insufficient", "unsupported-field"}

ReasonsHold == \A t \in Tasks : Reasoned(t)

-----------------------------------------------------------------------------
(* The steps of an evaluation, field by field.                              *)

\* Only task t's evaluation moves, from one place to another, for one key.
Moves(t, from, to) ==
    /\ eval[t].at = from /\ eval'[t].at = to
    /\ \A u \in Tasks \ {t} : eval'[u] = eval[u]
    /\ eval' \in [Tasks -> Evaluation]

GoesOn(t, from, to) == Moves(t, from, to) /\ eval'[t].key = eval[t].key

Begins(t) ==
    \E f \in Fields, o \in Origins :
        /\ eval'[t].key = [field |-> f, origin |-> o, scope |-> rule[f].scope]
        /\ eval'[t].answer = Absent
        /\ \/ /\ UnderLimit(f, o) /\ Moves(t, "idle", "consent")
              /\ used' = IF rule[f].limit # Absent
                         THEN [used EXCEPT ![f][o] = @ + 1] ELSE used
           \/ /\ ~UnderLimit(f, o) /\ Moves(t, "idle", "denied")
              /\ eval'[t].reason = "rate-limited" /\ used' = used

\* The outcomes of check_consent.
Passes(t) ==
    /\ GoesOn(t, "consent", "trust") /\ eval'[t].answer = eval[t].answer
    /\ \/ RuleFor(t).requires = "implicit" /\ eval'[t].basis \in Check(eval[t].key)
       \/ /\ RuleFor(t).requires = "authentication" /\ config.auth
          /\ eval'[t].basis = "delegated"
       \/ RuleFor(t).requires = "none" /\ eval'[t].basis = "implicit"

Asks(t) ==
    /\ GoesOn(t, "consent", "asking") /\ eval'[t].answer = eval[t].answer
    /\ AsksFirst(t) \/ RuleFor(t).requires = "implicit"

CannotAsk(t) ==
    /\ GoesOn(t, "consent", "denied") /\ eval'[t].answer = eval[t].answer
    /\ eval'[t].reason = "constraint-violation"
    /\ IF RuleFor(t).requires = "authentication" THEN ~config.auth ELSE ~config.handler

Considers(t) == Passes(t) \/ Asks(t) \/ CannotAsk(t)

\* Begin takes an idle evaluation to check_consent or, at the limit, to a refusal.
LEMMA BeginEffect ==
    ASSUME WellFormed, NEW t \in Tasks, Begin(t)
    PROVE  Begins(t)
<1>0. eval \in [Tasks -> Evaluation] /\ rule \in [Fields -> Rule]
  BY DEF WellFormed, Typed, EvaluationTypeOK, Evaluation
<1>1. PICK f \in Fields, o \in Origins :
        /\ eval' = [eval EXCEPT ![t] =
                        [Idle EXCEPT !.key = [field |-> f, origin |-> o,
                                              scope |-> rule[f].scope],
                                     !.at = IF UnderLimit(f, o) THEN "consent" ELSE "denied",
                                     !.reason = IF UnderLimit(f, o) THEN Absent
                                                ELSE "rate-limited"]]
        /\ used' = IF rule[f].limit # Absent /\ UnderLimit(f, o)
                   THEN [used EXCEPT ![f][o] = @ + 1] ELSE used
  BY DEF Begin
<1> DEFINE k == [field |-> f, origin |-> o, scope |-> rule[f].scope]
           place == IF UnderLimit(f, o) THEN "consent" ELSE "denied"
           r == IF UnderLimit(f, o) THEN Absent ELSE "rate-limited"
           e == [Idle EXCEPT !.key = k, !.at = place, !.reason = r]
<1>2. k \in Key
  BY <1>0 DEF Rule, Key
<1>3. place \in {"consent", "denied"} /\ r \in Reasons \cup {Absent}
  BY DEF Reasons
<1>4. eval' = [eval EXCEPT ![t] = e]
  BY <1>1
<1> HIDE DEF k, place, r
<1>5. /\ e.key = k /\ e.at = place /\ e.reason = r /\ e.answer = Absent
      /\ e \in Evaluation
  BY <1>2, <1>3 DEF Idle, Evaluation
<1> HIDE DEF e
<1>6. /\ eval'[t] = e /\ \A u \in Tasks \ {t} : eval'[u] = eval[u]
      /\ eval' \in [Tasks -> Evaluation] /\ eval[t].at = "idle"
  BY <1>0, <1>4, <1>5 DEF Begin
<1>7. Moves(t, "idle", place)
  BY <1>5, <1>6 DEF Moves
<1>8. CASE UnderLimit(f, o)
  <2>1. place = "consent"
    BY <1>8 DEF place
  <2> QED
    BY <1>1, <1>5, <1>6, <1>7, <1>8, <2>1 DEF Begins, k
<1>9. CASE ~UnderLimit(f, o)
  <2>1. place = "denied" /\ r = "rate-limited"
    BY <1>9 DEF place, r
  <2> QED
    BY <1>1, <1>5, <1>6, <1>7, <1>9, <2>1 DEF Begins, k
<1> QED
  BY <1>8, <1>9

\* The evaluations have all the parts of an evaluation.
LEMMA Parts == WellFormed => eval \in [Tasks -> Evaluation]
BY DEF WellFormed, Typed, EvaluationTypeOK, Evaluation

\* Go changes the place of one evaluation and nothing else of it.
LEMMA GoEffect ==
    ASSUME WellFormed, NEW t \in Tasks, NEW to, Go(t, to),
           to \in {"consent", "asking", "granting", "trust", "allowed", "recorded", "denied"}
    PROVE  /\ GoesOn(t, eval[t].at, to)
           /\ eval'[t].basis = eval[t].basis /\ eval'[t].answer = eval[t].answer
BY Parts DEF Go, GoesOn, Moves, Evaluation

\* Pass leads to the trust policy with the basis it names.
LEMMA PassEffect ==
    ASSUME WellFormed, NEW t \in Tasks, NEW b \in Bases, Pass(t, b)
    PROVE  /\ GoesOn(t, eval[t].at, "trust")
           /\ eval'[t].basis = b /\ eval'[t].answer = eval[t].answer
BY Parts DEF Pass, GoesOn, Moves, Evaluation

\* Deny refuses one evaluation for the reason it names.
LEMMA DenyEffect ==
    ASSUME WellFormed, NEW t \in Tasks, NEW r \in Reasons, Deny(t, r)
    PROVE  /\ GoesOn(t, eval[t].at, "denied")
           /\ eval'[t].reason = r /\ eval'[t].answer = eval[t].answer
BY Parts DEF Deny, GoesOn, Moves, Evaluation

\* check_consent has one of its three outcomes.
LEMMA CheckEffect ==
    ASSUME WellFormed, NEW t \in Tasks, CheckConsent(t)
    PROVE  Considers(t)
<1>1. AskOrDeny(t) => \/ config.handler /\ Go(t, "asking")
                      \/ ~config.handler /\ Deny(t, "constraint-violation")
  BY DEF AskOrDeny
<1>2. /\ eval[t].at = "consent" /\ eval[t].key \in Key
      /\ Check(eval[t].key) \subseteq Bases
  <2>1. eval[t].at = "consent" /\ eval[t].key \in Key
    BY DEF CheckConsent, WellFormed, Keyed
  <2>2. grants \in [Key -> Bases \cup {Absent}]
    BY DEF WellFormed, Typed, EvaluationTypeOK
  <2> QED
    BY <2>1, <2>2 DEF Check, Covering
<1>3. Go(t, "asking") => GoesOn(t, "consent", "asking") /\ eval'[t].answer = eval[t].answer
  BY <1>2, GoEffect
<1>4. Deny(t, "constraint-violation") =>
        /\ GoesOn(t, "consent", "denied") /\ eval'[t].answer = eval[t].answer
        /\ eval'[t].reason = "constraint-violation"
  BY <1>2, DenyEffect DEF Reasons
<1>5. \A b \in Bases : Pass(t, b) =>
        /\ GoesOn(t, "consent", "trust") /\ eval'[t].answer = eval[t].answer
        /\ eval'[t].basis = b
  BY <1>2, PassEffect
<1>6. CASE RuleFor(t).requires \in {"explicit", "unknown"} /\ AskOrDeny(t)
  BY <1>1, <1>3, <1>4, <1>6 DEF Considers, Asks, CannotAsk, AsksFirst
<1>7. CASE /\ RuleFor(t).requires = "implicit"
           /\ \/ \E basis \in Check(eval[t].key) : Pass(t, basis)
              \/ Check(eval[t].key) = {} /\ AskOrDeny(t)
  BY <1>1, <1>2, <1>3, <1>4, <1>5, <1>7 DEF Considers, Passes, Asks, CannotAsk
<1>8. CASE /\ RuleFor(t).requires = "authentication"
           /\ IF config.auth THEN Pass(t, "delegated") ELSE Deny(t, "constraint-violation")
  BY <1>4, <1>5, <1>8 DEF Considers, Passes, CannotAsk, Bases
<1>9. CASE RuleFor(t).requires = "none" /\ Pass(t, "implicit")
  BY <1>5, <1>9 DEF Considers, Passes, Bases
<1> QED
  BY <1>6, <1>7, <1>8, <1>9 DEF CheckConsent

\* A yes leads to the store.
LEMMA YesEffect ==
    ASSUME WellFormed, NEW t \in Tasks, AnswerYes(t)
    PROVE  GoesOn(t, "asking", "granting") /\ eval'[t].answer = "yes"
BY Parts DEF AnswerYes, GoesOn, Moves, Evaluation

\* A no refuses the evaluation as denied by the user.
LEMMA NoEffect ==
    ASSUME WellFormed, NEW t \in Tasks, AnswerNo(t)
    PROVE  /\ GoesOn(t, "asking", "denied")
           /\ eval'[t].reason = "user-denied" /\ eval'[t].answer = "no"
<1>1. "user-denied" \in Reasons
  BY DEF Reasons
<1> DEFINE e == [eval[t] EXCEPT !.at = "denied", !.reason = "user-denied", !.answer = "no"]
<1>3. /\ e.at = "denied" /\ e.key = eval[t].key /\ e.reason = "user-denied" /\ e.answer = "no"
      /\ e \in Evaluation
  BY <1>1, Parts DEF Evaluation
<1>2. eval' = [eval EXCEPT ![t] = e]
  BY Parts DEF AnswerNo, Evaluation
<1> HIDE DEF e
<1> QED
  BY <1>2, <1>3, Parts DEF AnswerNo, GoesOn, Moves

\* What the store has been told goes on with the basis it was told.
LEMMA StoreEffect ==
    ASSUME WellFormed, NEW t \in Tasks, StoreGrant(t)
    PROVE  /\ GoesOn(t, "granting", "trust")
           /\ eval'[t].basis = BasisOfGrant(t) /\ eval'[t].answer = eval[t].answer
<1>1. BasisOfGrant(t) \in Bases
  BY DEF BasisOfGrant, Bases
<1>2. Pass(t, BasisOfGrant(t)) /\ eval[t].at = "granting"
  BY DEF StoreGrant
<1> HIDE DEF BasisOfGrant
<1> QED
  BY <1>1, <1>2, PassEffect

\* The trust policy and the value check refuse for a reason of their own.
LEMMA RefuseEffect ==
    ASSUME WellFormed, NEW t \in Tasks, Refuse(t)
    PROVE  /\ GoesOn(t, "trust", "denied")
           /\ eval'[t].reason \in {"trust-insufficient", "unsupported-field"}
           /\ eval'[t].answer = eval[t].answer
<1>1. PICK r \in {"trust-insufficient", "unsupported-field"} : Deny(t, r)
  BY DEF Refuse
<1>2. r \in Reasons /\ eval[t].at = "trust"
  BY DEF Reasons, Refuse
<1> QED
  BY <1>1, <1>2, DenyEffect

\* Allow keeps the basis and the answer.
LEMMA AllowEffect ==
    ASSUME WellFormed, NEW t \in Tasks, Allow(t)
    PROVE  /\ GoesOn(t, "trust", "allowed")
           /\ eval'[t].basis = eval[t].basis /\ eval'[t].answer = eval[t].answer
<1>1. Go(t, "allowed") /\ eval[t].at = "trust"
  BY DEF Allow
<1> QED
  BY <1>1, GoEffect

\* So does recording.
LEMMA RecordEffect ==
    ASSUME WellFormed, NEW t \in Tasks, Record(t)
    PROVE  /\ GoesOn(t, "allowed", "recorded")
           /\ eval'[t].basis = eval[t].basis /\ eval'[t].answer = eval[t].answer
<1>1. Go(t, "recorded") /\ eval[t].at = "allowed"
  BY DEF Record
<1> QED
  BY <1>1, GoEffect

\* Adding an element ends the evaluation.
LEMMA AddEffect ==
    ASSUME WellFormed, NEW t \in Tasks, AddElement(t)
    PROVE  /\ eval[t].at \in {"allowed", "recorded", "denied"}
           /\ Moves(t, eval[t].at, "idle") /\ eval'[t].answer = Absent
           /\ response' = [response EXCEPT ![t] = Append(@, Element(t))]
<1>1. Idle \in Evaluation /\ Idle.at = "idle" /\ Idle.answer = Absent
  BY DEF Idle, Evaluation
<1>2. eval' = [eval EXCEPT ![t] = Idle]
  BY DEF AddElement
<1> QED
  BY <1>1, <1>2, Parts DEF AddElement, Moves

-----------------------------------------------------------------------------
(* Type correctness: what an evaluation carries fits where it is put.       *)

\* An evaluation under way keeps its key, and room for its outcome.
LEMMA KeyedMove ==
    ASSUME WellFormed, NEW t \in Tasks, NEW from, NEW to, from # "idle",
           GoesOn(t, from, to), rule' = rule, response' = response
    PROVE  \A u \in Tasks : Keyed(u)' /\ Len(response'[u]) <= MaxElements
<1> TAKE u \in Tasks
<1>1. eval[u].at # "idle" =>
        /\ eval[u].key \in Key /\ eval[u].key.scope = RuleFor(u).scope
        /\ Len(response[u]) < MaxElements
  BY DEF WellFormed, Keyed
<1>2. eval'[u].key = eval[u].key /\ (eval'[u].at # "idle" => eval[u].at # "idle")
  BY DEF GoesOn, Moves
<1> QED
  BY <1>1, <1>2 DEF WellFormed, Keyed, RuleFor

\* What build_answer makes of a decision is an element of a response.
LEMMA ElementType ==
    ASSUME WellFormed, NEW t \in Tasks, eval[t].at \in {"allowed", "recorded", "denied"}
    PROVE  Element(t) \in Outcome
<1>1. eval[t] \in Evaluation /\ eval[t].key \in Key
  BY Parts DEF WellFormed, Keyed
<1>2. Disclosed(eval[t].key.field) \in {"value", "token"}
  BY DEF Disclosed
<1>3. RefuseReasonToAnml(eval[t].reason) \in Reasons \cup {"policy-violation", Absent}
  BY <1>1 DEF RefuseReasonToAnml, Evaluation
<1> HIDE DEF Disclosed, RefuseReasonToAnml
<1> QED
  BY <1>1, <1>2, <1>3 DEF Element, Outcome, Evaluation

\* A count that goes up.
LEMMA CountUp ==
    ASSUME NEW count \in [Fields -> [Origins -> Nat]], NEW f \in Fields, NEW o \in Origins
    PROVE  [count EXCEPT ![f][o] = @ + 1] \in [Fields -> [Origins -> Nat]]
OBVIOUS

\* Ending grants takes one from the count of each that is in force.
LEMMA EndedEffect ==
    ASSUME unspent \in [Key -> Int], NEW K
    PROVE  /\ Ended(K) \in [Key -> Int]
           /\ \A k \in Key : Ended(K)[k] =
                 IF k \in K /\ grants[k] # Absent THEN unspent[k] - 1 ELSE unspent[k]
BY DEF Ended

\* The evaluations' own steps.
LEMMA EvaluatesWellFormed ==
    ASSUME WellFormed, NEW t \in Tasks, Evaluates(t)
    PROVE  WellFormed'
<1> USE DEF WellFormed, Typed, EvaluationTypeOK
<1>a. /\ response' = response /\ log' = log /\ exporting' = exporting
      /\ snapshot' = snapshot /\ restarts' = restarts /\ Evaluate(t)
      /\ eval[t].at = "idle" => Len(response[t]) < MaxElements
  BY DEF Evaluates, responseVars, stateVars
<1>b. eval[t].at # "idle" => eval[t].key \in Key
  BY DEF Keyed
<1>c. BasisOfGrant(t) \in Bases
  BY DEF BasisOfGrant, Bases
<1>1. CASE Begin(t)
  <2>1. Begins(t) /\ UNCHANGED <<rule, config, grants, approved, unspent, allows>>
    BY <1>1, BeginEffect DEF Begin
  <2>2. PICK f \in Fields, o \in Origins :
          /\ eval'[t].key = [field |-> f, origin |-> o, scope |-> rule[f].scope]
          /\ Moves(t, "idle", "consent") \/ Moves(t, "idle", "denied")
          /\ \/ used' = used
             \/ /\ UnderLimit(f, o) /\ rule[f].limit # Absent
                /\ used' = [used EXCEPT ![f][o] = @ + 1]
    BY <2>1 DEF Begins
  <2>3. used' \in [Fields -> [Origins -> Nat]]
    <3>1. used \in [Fields -> [Origins -> Nat]]
      OBVIOUS
    <3>2. [used EXCEPT ![f][o] = @ + 1] \in [Fields -> [Origins -> Nat]]
      BY <3>1, CountUp
    <3> QED
      BY <2>2, <3>1, <3>2
  <2>4. \A g \in Fields, h \in Origins :
          used'[g][h] <= IF rule[g].limit = Absent THEN 0 ELSE rule[g].limit
    <3>1. rule[f].limit # Absent => rule[f].limit \in Nat
      BY DEF Rule
    <3> TAKE g \in Fields, h \in Origins
    <3>2. used[g][h] <= IF rule[g].limit = Absent THEN 0 ELSE rule[g].limit
      OBVIOUS
    <3>3. CASE g = f /\ h = o /\ used' # used
      <4>1. used[f][o] < rule[f].limit /\ rule[f].limit # Absent
            /\ used'[f][o] = used[f][o] + 1 /\ used[f][o] \in Nat
        BY <2>2, <3>3 DEF UnderLimit
      <4> QED
        BY <3>1, <3>3, <4>1
    <3>4. CASE used' = used
      BY <3>2, <3>4
    <3>5. CASE ~(g = f /\ h = o) /\ used' # used
      <4>1. used'[g][h] = used[g][h]
        BY <2>2, <3>5
      <4> QED
        BY <3>2, <4>1
    <3> QED
      BY <3>3, <3>4, <3>5
  <2>5. eval'[t].key \in Key /\ eval'[t].key.scope = rule[eval'[t].key.field].scope
    BY <2>2 DEF Key, Rule
  <2>6. eval' \in [Tasks -> Evaluation] /\ \A u \in Tasks \ {t} : eval'[u] = eval[u]
    BY <2>2 DEF Moves
  <2>7. eval[t].at = "idle"
    BY <1>1 DEF Begin
  <2>8. \A u \in Tasks : Keyed(u)'
    BY <1>a, <2>1, <2>5, <2>6, <2>7 DEF Keyed, RuleFor
  <2> QED
    BY <1>a, <2>1, <2>3, <2>4, <2>6, <2>8 DEF LogFits, EvaluationTypeOK, Evaluation
<1>2. CASE CheckConsent(t) \/ AnswerNo(t) \/ Refuse(t)
  <2>1. UNCHANGED <<rule, config, grants, used, approved, unspent, allows>>
    BY <1>2 DEF CheckConsent, AnswerNo, Refuse
  <2>2. \E from, to \in {"consent", "asking", "trust", "denied"} : GoesOn(t, from, to)
    BY <1>2, CheckEffect, NoEffect, RefuseEffect DEF Considers, Passes, Asks, CannotAsk
  <2> QED
    BY <1>a, <2>1, <2>2, KeyedMove DEF GoesOn, Moves, LogFits, Evaluation
<1>3. CASE AnswerYes(t)
  <2>1. UNCHANGED <<rule, config, grants, used, allows>> /\ eval[t].at = "asking"
    BY <1>3 DEF AnswerYes
  <2>2. GoesOn(t, "asking", "granting")
    BY <1>3, YesEffect
  <2>3. approved' \subseteq Key \X Bases /\ unspent' \in [Key -> Int]
    BY <1>3, <1>b, <1>c DEF AnswerYes
  <2> QED
    BY <1>a, <2>1, <2>2, <2>3, KeyedMove DEF GoesOn, Moves, LogFits, Evaluation
<1>4. CASE StoreGrant(t)
  <2>1. UNCHANGED <<rule, config, used, approved, allows>>
    BY <1>4 DEF StoreGrant
  <2>2. GoesOn(t, "granting", "trust")
    BY <1>4, StoreEffect
  <2>3. grants' \in [Key -> Bases \cup {Absent}] /\ unspent' \in [Key -> Int]
    BY <1>4, <1>c, EndedEffect DEF StoreGrant
  <2> QED
    BY <1>a, <2>1, <2>2, <2>3, KeyedMove DEF GoesOn, Moves, LogFits, Evaluation
<1>5. CASE Allow(t)
  <2>1. UNCHANGED <<rule, config, grants, used, approved, unspent>>
    BY <1>5 DEF Allow
  <2>2. GoesOn(t, "trust", "allowed")
    BY <1>5, AllowEffect
  <2>3. allows' \in [Fields -> [Origins -> Nat]]
    <3>1. \/ allows' = allows
          \/ allows' = [allows EXCEPT ![eval[t].key.field][eval[t].key.origin] = @ + 1]
      BY <1>5 DEF Allow
    <3>2. eval[t].key \in Key
      BY <1>b, <1>5 DEF Allow
    <3>3. PICK f \in Fields, o \in Origins : eval[t].key.field = f /\ eval[t].key.origin = o
      BY <3>2 DEF Key
    <3>4. allows' = allows \/ allows' = [allows EXCEPT ![f][o] = @ + 1]
      BY <3>1, <3>3
    <3>5. allows \in [Fields -> [Origins -> Nat]]
      OBVIOUS
    <3>6. [allows EXCEPT ![f][o] = @ + 1] \in [Fields -> [Origins -> Nat]]
      BY <3>5, CountUp
    <3> QED
      BY <3>4, <3>5, <3>6
  <2> QED
    BY <1>a, <2>1, <2>2, <2>3, KeyedMove DEF GoesOn, Moves, LogFits, Evaluation
<1> QED
  BY <1>a, <1>1, <1>2, <1>3, <1>4, <1>5 DEF Evaluate

\* An audit entry fits the log, which only an audit log in memory has.
LEMMA RecordWellFormed ==
    ASSUME WellFormed, NEW t \in Tasks, Record(t)
    PROVE  WellFormed'
<1> USE DEF WellFormed, Typed
<1>1. GoesOn(t, "allowed", "recorded")
  BY RecordEffect
<1>2. /\ UNCHANGED <<rule, config, grants, used, approved, unspent, allows, response>>
      /\ UNCHANGED <<exporting, snapshot, restarts>>
      /\ config.log /\ Len(log) < MaxEntries /\ eval[t].at = "allowed"
      /\ log' = Append(log, [field |-> eval[t].key.field, origin |-> eval[t].key.origin,
                             basis |-> eval[t].basis])
  BY DEF Record, stateVars
<1>3. [field |-> eval[t].key.field, origin |-> eval[t].key.origin,
       basis |-> eval[t].basis] \in Entry
  <2>1. eval[t].key \in Key /\ eval[t].basis \in Bases \cup {Absent}
    BY <1>2, Parts DEF Keyed, Evaluation
  <2> QED
    BY <2>1 DEF Key, Entry
<1>4. log' \in Seq(Entry) /\ LogFits(log')
  BY <1>2, <1>3, BoundsAssumption DEF LogFits
<1>5. EvaluationTypeOK'
  BY <1>1, <1>2 DEF GoesOn, Moves, Evaluation, EvaluationTypeOK
<1>6. \A state \in snapshot : LogFits(state.entries)'
  BY <1>2 DEF LogFits
<1> QED
  BY <1>1, <1>2, <1>4, <1>5, <1>6, KeyedMove DEF LogFits

\* The element an evaluation ends in has room in its response.
LEMMA AddWellFormed ==
    ASSUME WellFormed, NEW t \in Tasks, AddElement(t)
    PROVE  WellFormed'
<1> USE DEF WellFormed, Typed
<1>1. /\ eval[t].at \in {"allowed", "recorded", "denied"}
      /\ Moves(t, eval[t].at, "idle")
      /\ response' = [response EXCEPT ![t] = Append(@, Element(t))]
  BY AddEffect
<1>2. /\ UNCHANGED <<rule, config, grants, used, approved, unspent, allows, log>>
      /\ UNCHANGED <<exporting, snapshot, restarts>>
  BY DEF AddElement, stateVars
<1>3. Len(response[t]) < MaxElements
  BY <1>1 DEF Keyed
<1>4. Element(t) \in Outcome
  BY <1>1, ElementType
<1> HIDE DEF Element
<1>5. Append(response[t], Element(t)) \in Seq(Outcome)
      /\ Len(Append(response[t], Element(t))) <= MaxElements
  BY <1>3, <1>4, BoundsAssumption
<1>6. response' \in [Tasks -> Seq(Outcome)] /\ \A u \in Tasks : Len(response'[u]) <= MaxElements
  BY <1>1, <1>5
<1>7. \A u \in Tasks : Keyed(u)'
  BY <1>1, <1>2 DEF Moves, Keyed, RuleFor
<1>8. EvaluationTypeOK'
  BY <1>1, <1>2 DEF Moves, Evaluation, EvaluationTypeOK
<1> QED
  BY <1>2, <1>6, <1>7, <1>8 DEF LogFits

\* A new response is empty.
LEMMA FinishWellFormed ==
    ASSUME WellFormed, NEW t \in Tasks, Finish(t)
    PROVE  WellFormed'
<1> USE DEF WellFormed, Typed
<1>1. /\ UNCHANGED <<rule, config, grants, used, eval, approved, unspent, allows, log>>
      /\ UNCHANGED <<exporting, snapshot, restarts>>
      /\ eval[t].at = "idle" /\ response' = [response EXCEPT ![t] = << >>]
  BY DEF Finish, stateVars, evaluationVars
<1>2. response' \in [Tasks -> Seq(Outcome)] /\ \A u \in Tasks : Len(response'[u]) <= MaxElements
  BY <1>1, BoundsAssumption
<1>3. \A u \in Tasks : Keyed(u)'
  BY <1>1 DEF Keyed, RuleFor
<1>4. EvaluationTypeOK'
  BY <1>1 DEF EvaluationTypeOK
<1> QED
  BY <1>1, <1>2, <1>3, <1>4 DEF LogFits

\* The application's calls leave a store of grants.
LEMMA CallsStoreWellFormed ==
    ASSUME WellFormed, CallsStore
    PROVE  WellFormed'
<1> USE DEF WellFormed, Typed
<1>1. /\ UNCHANGED <<rule, config, used, eval, allows, response, log>>
      /\ UNCHANGED <<exporting, snapshot, restarts>>
  BY DEF CallsStore, StoreCall, AppGrant, Revoke, ClearGrants, stateVars, responseVars
<1>2. /\ grants' \in [Key -> Bases \cup {Absent}]
      /\ approved' \subseteq Key \X Bases /\ unspent' \in [Key -> Int]
  <2>1. CASE AppGrant
    <3>1. PICK g \in AppGrants : /\ grants' = [grants EXCEPT ![g[1]] = g[2]]
                                 /\ approved' = approved \cup {g}
                                 /\ unspent' = [Ended({g[1]}) EXCEPT ![g[1]] = @ + 1]
      BY <2>1 DEF AppGrant
    <3>2. g \in Key \X Bases
      BY AppGrantsAssumption
    <3> QED
      BY <3>1, <3>2, EndedEffect DEF EvaluationTypeOK
  <2>2. CASE Revoke
    BY <2>2, EndedEffect DEF Revoke, Without, EvaluationTypeOK
  <2>3. CASE ClearGrants
    BY <2>3, EndedEffect DEF ClearGrants, NoGrants, EvaluationTypeOK
  <2> QED
    BY <2>1, <2>2, <2>3 DEF CallsStore, StoreCall
<1>3. \A u \in Tasks : Keyed(u)'
  BY <1>1 DEF Keyed, RuleFor
<1>4. EvaluationTypeOK'
  BY <1>1, <1>2 DEF EvaluationTypeOK
<1> QED
  BY <1>1, <1>3, <1>4 DEF LogFits

\* An exported state is made of a store and a log.
LEMMA ExportsWellFormed ==
    ASSUME WellFormed, ExportGrants \/ ExportEntries
    PROVE  WellFormed'
<1> USE DEF WellFormed, Typed
<1>1. /\ UNCHANGED <<rule, config, grants, used, eval, approved, unspent, allows>>
      /\ UNCHANGED <<response, log, restarts>>
  BY DEF ExportGrants, ExportEntries, evaluationVars, responseVars
<1>2. /\ exporting' \subseteq Store
      /\ snapshot' \subseteq [grants : Store, entries : Seq(Entry)]
      /\ \A state \in snapshot' : LogFits(state.entries)
  <2>1. grants \in Store
    BY DEF EvaluationTypeOK, Store
  <2>2. CASE ExportGrants
    <3>1. << >> \in Seq(Entry) /\ LogFits(<< >>)
      BY BoundsAssumption DEF LogFits
    <3>2. CASE exporting' = {grants} /\ snapshot' = snapshot
      BY <2>1, <3>2
    <3>3. CASE snapshot' = {[grants |-> grants, entries |-> << >>]} /\ exporting' = exporting
      BY <2>1, <3>1, <3>3
    <3> QED
      BY <2>2, <3>2, <3>3 DEF ExportGrants
  <2>3. CASE ExportEntries
    BY <2>1, <2>3 DEF ExportEntries
  <2> QED
    BY <2>2, <2>3
<1>3. \A u \in Tasks : Keyed(u)'
  BY <1>1 DEF Keyed, RuleFor
<1>4. EvaluationTypeOK'
  BY <1>1 DEF EvaluationTypeOK
<1>5. \A entries : LogFits(entries)' <=> LogFits(entries)
  BY <1>1 DEF LogFits
<1> QED
  BY <1>1, <1>2, <1>3, <1>4 DEF LogFits

\* What a client starts with.
LEMMA FreshCounts ==
    ASSUME rule \in [Fields -> Rule]
    PROVE  /\ NothingUsed \in [Fields -> [Origins -> Nat]]
           /\ \A f \in Fields, o \in Origins :
                NothingUsed[f][o] <= IF rule[f].limit = Absent THEN 0 ELSE rule[f].limit
<1>1. \A f \in Fields : rule[f].limit # Absent => rule[f].limit \in Nat
  BY DEF Rule
<1> QED
  BY <1>1 DEF NothingUsed

\* A new client has no grants and no evaluation under way.
LEMMA FreshClient ==
    /\ Idle \in Evaluation /\ Idle.at = "idle" /\ Idle.answer = Absent
    /\ NoGrants \in Store /\ \A k \in Key : NoGrants[k] = Absent
BY DEF Idle, Evaluation, NoGrants, Store

\* A restart leaves a client that is new but for the state restored, if any.
LEMMA RestartEffect ==
    ASSUME WellFormed, Restart
    PROVE  /\ UNCHANGED <<rule, config, approved>>
           /\ eval' = [t \in Tasks |-> Idle] /\ response' = [t \in Tasks |-> << >>]
           /\ used' = NothingUsed /\ allows' = NothingUsed
           /\ unspent' = [k \in Key |-> IF grants'[k] = Absent THEN 0 ELSE 1]
           /\ exporting' = {} /\ snapshot' = {} /\ restarts' \in 0..MaxRestarts
           /\ \/ [grants |-> grants', entries |-> log'] \in snapshot
              \/ grants' = NoGrants /\ log' = << >>
<1>1. PICK state \in snapshot \cup {[grants |-> NoGrants, entries |-> << >>]} : NewClient(state)
  BY DEF Restart
<1>2. grants' = state.grants /\ log' = state.entries
  BY <1>1 DEF NewClient
<1>3. state \in snapshot => state = [grants |-> state.grants, entries |-> state.entries]
  BY DEF WellFormed, Typed
<1>4. restarts' \in 0..MaxRestarts
  BY BoundsAssumption DEF Restart, WellFormed, Typed
<1>5. \/ [grants |-> grants', entries |-> log'] \in snapshot
      \/ grants' = NoGrants /\ log' = << >>
  BY <1>2, <1>3
<1> QED
  BY <1>1, <1>4, <1>5 DEF Restart, NewClient

\* A restored client has the types of the one that exported.
LEMMA RestartWellFormed ==
    ASSUME WellFormed, Restart
    PROVE  WellFormed'
<1> USE DEF WellFormed, Typed
<1>1. grants' \in Store /\ log' \in Seq(Entry) /\ LogFits(log')
  <2>1. CASE [grants |-> grants', entries |-> log'] \in snapshot
    <3> DEFINE state == [grants |-> grants', entries |-> log']
    <3>1. state.grants \in Store /\ state.entries \in Seq(Entry) /\ LogFits(state.entries)
      BY <2>1
    <3> QED
      BY <3>1
  <2>2. CASE grants' = NoGrants /\ log' = << >>
    BY <2>2, FreshClient, BoundsAssumption DEF LogFits
  <2> QED
    BY <2>1, <2>2, RestartEffect
<1>2. EvaluationTypeOK'
  <2>1. rule' = rule /\ config' = config /\ approved' = approved
        /\ unspent' \in [Key -> Int]
    BY RestartEffect
  <2>2. eval' \in [Tasks -> Evaluation]
    BY RestartEffect, FreshClient
  <2>3. /\ used' \in [Fields -> [Origins -> Nat]] /\ allows' \in [Fields -> [Origins -> Nat]]
        /\ \A f \in Fields, o \in Origins :
            used'[f][o] <= IF rule[f].limit = Absent THEN 0 ELSE rule[f].limit
    BY RestartEffect, FreshCounts DEF EvaluationTypeOK
  <2> QED
    BY <1>1, <2>1, <2>2, <2>3 DEF EvaluationTypeOK, Evaluation, Store
<1>3. \A u \in Tasks : Keyed(u)' /\ Len(response'[u]) <= MaxElements
  BY RestartEffect, FreshClient, BoundsAssumption DEF Keyed
<1>4. response' \in [Tasks -> Seq(Outcome)]
  <2>1. << >> \in Seq(Outcome)
    OBVIOUS
  <2>2. response' = [t \in Tasks |-> << >>]
    BY RestartEffect
  <2> QED
    BY <2>1, <2>2
<1>5. LogFits(log)'
  BY <1>1, RestartEffect DEF LogFits
<1> QED
  BY <1>1, <1>2, <1>3, <1>4, <1>5, RestartEffect

\* The first client is well formed.
LEMMA InitWellFormed == Init => WellFormed
<1> SUFFICES ASSUME Init PROVE WellFormed
  OBVIOUS
<1>1. rule \in [Fields -> Rule] /\ config \in Config
  BY SetupsAssumption DEF Init, EvaluationInit
<1>2. EvaluationTypeOK
  <2>1. /\ grants = NoGrants /\ used = NothingUsed /\ allows = NothingUsed
        /\ eval = [t \in Tasks |-> Idle] /\ approved = {}
        /\ unspent \in [Key -> Int]
    BY DEF Init, EvaluationInit
  <2>2. /\ NothingUsed \in [Fields -> [Origins -> Nat]]
        /\ \A f \in Fields, o \in Origins :
             NothingUsed[f][o] <= IF rule[f].limit = Absent THEN 0 ELSE rule[f].limit
    BY <1>1, FreshCounts
  <2> QED
    BY <1>1, <2>1, <2>2, FreshClient DEF EvaluationTypeOK, Evaluation, Store
<1>3. \A t \in Tasks : Keyed(t) /\ Len(response[t]) <= MaxElements
  BY FreshClient, BoundsAssumption DEF Init, EvaluationInit, Keyed
<1> QED
  BY <1>2, <1>3, BoundsAssumption DEF Init, WellFormed, Typed, LogFits

\* Every step keeps it so.
LEMMA WellFormedStep ==
    ASSUME WellFormed, [Next]_vars
    PROVE  WellFormed'
<1>1. ASSUME NEW t \in Tasks, Evaluates(t) \/ Record(t) \/ AddElement(t) \/ Finish(t)
      PROVE  WellFormed'
  BY <1>1, EvaluatesWellFormed, RecordWellFormed, AddWellFormed, FinishWellFormed
<1>2. CASE UNCHANGED vars
  BY <1>2 DEF vars, evaluationVars, responseVars, stateVars, WellFormed, Typed,
              EvaluationTypeOK, Keyed, RuleFor, LogFits
<1> QED
  BY <1>1, <1>2, CallsStoreWellFormed, ExportsWellFormed, RestartWellFormed DEF Next

\* Types: an evaluation never leaves its states, the limiter never holds more than the
\* limit, and the log stays empty without an audit log in memory.
THEOREM TypesHold == Spec => []TypeOK
<1>1. WellFormed => TypeOK
  BY DEF WellFormed, Typed, TypeOK, LogFits
<1> QED
  BY <1>1, InitWellFormed, WellFormedStep, PTL DEF Spec

-----------------------------------------------------------------------------
(* The quota: a place that is taken is allowed at most once.                *)

\* Finitely many evaluations hold a place.
LEMMA HoldingFinite ==
    ASSUME NEW f, NEW o
    PROVE  IsFiniteSet(Holding(f, o)) /\ Cardinality(Holding(f, o)) \in Nat
<1>1. Holding(f, o) \subseteq Tasks
  BY DEF Holding
<1> QED
  BY <1>1, TasksAssumption, FS_Subset, FS_CardinalityType

\* No evaluation comes to hold a place, and no count moves.
LEMMA NoneTaken ==
    ASSUME WellFormed, PlacesTaken, rule' = rule, used' = used, allows' = allows,
           \A f \in Fields, o \in Origins : Holding(f, o)' \subseteq Holding(f, o)
    PROVE  PlacesTaken'
<1> SUFFICES ASSUME NEW f \in Fields, NEW o \in Origins, rule[f].limit # Absent
             PROVE  allows[f][o] + Cardinality(Holding(f, o)') <= used[f][o]
  BY DEF PlacesTaken
<1>1. allows[f][o] \in Nat /\ used[f][o] \in Nat
  BY DEF WellFormed, Typed, EvaluationTypeOK
<1>2. /\ Cardinality(Holding(f, o)') <= Cardinality(Holding(f, o))
      /\ Cardinality(Holding(f, o)') \in Nat
  BY HoldingFinite, FS_Subset, FS_CardinalityType
<1>3. allows[f][o] + Cardinality(Holding(f, o)) <= used[f][o]
  BY DEF PlacesTaken
<1> QED
  BY <1>1, <1>2, <1>3, HoldingFinite

\* Once begun, an evaluation does not come to hold a place.
LEMMA HoldingMove ==
    ASSUME NEW t \in Tasks, NEW from, NEW to, GoesOn(t, from, to),
           from \in {"consent", "asking", "granting", "trust"} \/ to \in {"denied", "recorded"}
    PROVE  \A f \in Fields, o \in Origins : Holding(f, o)' \subseteq Holding(f, o)
BY DEF Holding, GoesOn, Moves

\* A place is taken with the count.
LEMMA BeginTakes ==
    ASSUME WellFormed, PlacesTaken, NEW t \in Tasks, Begin(t)
    PROVE  PlacesTaken'
<1>1. Begins(t) /\ UNCHANGED <<rule, allows>>
  BY BeginEffect DEF Begin
<1>2. PICK f \in Fields, o \in Origins :
        /\ eval'[t].key = [field |-> f, origin |-> o, scope |-> rule[f].scope]
        /\ \/ /\ UnderLimit(f, o) /\ Moves(t, "idle", "consent")
              /\ used' = IF rule[f].limit # Absent
                         THEN [used EXCEPT ![f][o] = @ + 1] ELSE used
           \/ Moves(t, "idle", "denied") /\ used' = used
  BY <1>1 DEF Begins
<1>3. CASE Moves(t, "idle", "denied") /\ used' = used
  <2>1. \A g \in Fields, h \in Origins : Holding(g, h)' \subseteq Holding(g, h)
    BY <1>3 DEF Holding, Moves
  <2> QED
    BY <1>1, <1>3, <2>1, NoneTaken
<1>4. CASE /\ Moves(t, "idle", "consent")
           /\ used' = IF rule[f].limit # Absent THEN [used EXCEPT ![f][o] = @ + 1] ELSE used
  <2> SUFFICES ASSUME NEW g \in Fields, NEW h \in Origins, rule[g].limit # Absent
               PROVE  allows[g][h] + Cardinality(Holding(g, h)') <= used'[g][h]
    BY <1>1 DEF PlacesTaken
  <2>1. /\ allows[g][h] + Cardinality(Holding(g, h)) <= used[g][h]
        /\ allows[g][h] \in Nat /\ used[g][h] \in Nat
    BY DEF PlacesTaken, WellFormed, Typed, EvaluationTypeOK
  <2>2. CASE g = f /\ h = o
    <3>1. t \notin Holding(g, h) /\ Holding(g, h)' = Holding(g, h) \cup {t}
      BY <1>2, <1>4, <2>2 DEF Holding, Moves
    <3>2. Cardinality(Holding(g, h)') = Cardinality(Holding(g, h)) + 1
      BY <3>1, HoldingFinite, FS_AddElement
    <3>3. used'[g][h] = used[g][h] + 1
      BY <1>4, <2>2 DEF WellFormed, Typed, EvaluationTypeOK
    <3> QED
      BY <2>1, <3>2, <3>3, HoldingFinite
  <2>3. CASE ~(g = f /\ h = o)
    <3>1. Holding(g, h)' = Holding(g, h)
      BY <1>2, <1>4, <2>3 DEF Holding, Moves
    <3>2. used'[g][h] = used[g][h]
      BY <1>4, <2>3 DEF WellFormed, Typed, EvaluationTypeOK
    <3> QED
      BY <2>1, <3>1, <3>2
  <2> QED
    BY <2>2, <2>3
<1> QED
  BY <1>2, <1>3, <1>4

\* What is allowed gives its place up.
LEMMA AllowGivesUp ==
    ASSUME WellFormed, PlacesTaken, NEW t \in Tasks, Allow(t)
    PROVE  PlacesTaken'
<1>1. GoesOn(t, "trust", "allowed") /\ UNCHANGED <<rule, used>> /\ eval[t].at = "trust"
  BY AllowEffect DEF Allow
<1>2. eval[t].key \in Key
  BY <1>1 DEF WellFormed, Keyed
<1> SUFFICES ASSUME NEW g \in Fields, NEW h \in Origins, rule[g].limit # Absent
             PROVE  allows'[g][h] + Cardinality(Holding(g, h)') <= used[g][h]
  BY <1>1 DEF PlacesTaken
<1>3. /\ allows[g][h] + Cardinality(Holding(g, h)) <= used[g][h]
      /\ allows[g][h] \in Nat /\ used[g][h] \in Nat
  BY DEF PlacesTaken, WellFormed, Typed, EvaluationTypeOK
<1>4. allows \in [Fields -> [Origins -> Nat]]
  BY DEF WellFormed, Typed, EvaluationTypeOK
<1>5. CASE eval[t].key.field = g /\ eval[t].key.origin = h
  <2>1. t \in Holding(g, h) /\ Holding(g, h)' = Holding(g, h) \ {t}
    BY <1>1, <1>5 DEF Holding, GoesOn, Moves
  <2>2. Cardinality(Holding(g, h)') = Cardinality(Holding(g, h)) - 1
    BY <2>1, HoldingFinite, FS_RemoveElement
  <2>3. allows' = [allows EXCEPT ![g][h] = @ + 1]
    BY <1>5 DEF Allow, RuleFor
  <2>4. allows'[g][h] = allows[g][h] + 1
    BY <1>4, <2>3
  <2> QED
    BY <1>3, <2>2, <2>4, HoldingFinite
<1>6. CASE ~(eval[t].key.field = g /\ eval[t].key.origin = h)
  <2>1. Holding(g, h)' = Holding(g, h)
    BY <1>1, <1>6 DEF Holding, GoesOn, Moves
  <2>2. allows'[g][h] = allows[g][h]
    <3>1. \/ allows' = allows
          \/ allows' = [allows EXCEPT ![eval[t].key.field][eval[t].key.origin] = @ + 1]
      BY DEF Allow
    <3> QED
      BY <1>4, <1>6, <3>1
  <2> QED
    BY <1>3, <2>1, <2>2
<1> QED
  BY <1>5, <1>6

\* Every step keeps the places that are taken within the count.
LEMMA PlacesTakenStep ==
    ASSUME WellFormed, PlacesTaken, [Next]_vars
    PROVE  PlacesTaken'
<1>1. ASSUME NEW t \in Tasks, Evaluates(t)
      PROVE  PlacesTaken'
  <2>1. CASE CheckConsent(t) \/ AnswerYes(t) \/ AnswerNo(t) \/ StoreGrant(t) \/ Refuse(t)
    <3>1. UNCHANGED <<rule, used, allows>>
      BY <2>1 DEF CheckConsent, AnswerYes, AnswerNo, StoreGrant, Refuse
    <3>2. \E from, to \in {"consent", "asking", "granting", "trust", "denied"} :
            /\ GoesOn(t, from, to) /\ from # "denied"
      BY <2>1, CheckEffect, YesEffect, NoEffect, StoreEffect, RefuseEffect
         DEF Considers, Passes, Asks, CannotAsk
    <3> QED
      BY <3>1, <3>2, HoldingMove, NoneTaken
  <2> QED
    BY <1>1, <2>1, BeginTakes, AllowGivesUp DEF Evaluates, Evaluate
<1>2. ASSUME NEW t \in Tasks, Record(t) \/ AddElement(t) \/ Finish(t)
      PROVE  PlacesTaken'
  <2>1. UNCHANGED <<rule, used, allows>>
    BY <1>2 DEF Record, AddElement, Finish, evaluationVars
  <2>2. CASE Record(t)
    BY <2>1, <2>2, RecordEffect, HoldingMove, NoneTaken
  <2>3. CASE AddElement(t)
    <3>1. \A f \in Fields, o \in Origins : Holding(f, o)' \subseteq Holding(f, o)
      BY <2>3, AddEffect DEF Holding, Moves
    <3> QED
      BY <2>1, <3>1, NoneTaken
  <2>4. CASE Finish(t)
    <3>1. \A f \in Fields, o \in Origins : Holding(f, o)' \subseteq Holding(f, o)
      BY <2>4 DEF Finish, Holding, evaluationVars
    <3> QED
      BY <2>1, <3>1, NoneTaken
  <2> QED
    BY <1>2, <2>2, <2>3, <2>4
<1>3. CASE CallsStore \/ ExportGrants \/ ExportEntries \/ UNCHANGED vars
  <2>1. UNCHANGED <<rule, used, allows, eval>>
    BY <1>3 DEF CallsStore, StoreCall, AppGrant, Revoke, ClearGrants, ExportGrants,
                ExportEntries, vars, evaluationVars
  <2>2. \A f \in Fields, o \in Origins : Holding(f, o)' \subseteq Holding(f, o)
    BY <2>1 DEF Holding
  <2> QED
    BY <2>1, <2>2, NoneTaken
<1>4. CASE Restart
  <2>1. \A f \in Fields, o \in Origins : Holding(f, o)' = {}
    BY <1>4, RestartEffect, FreshClient DEF Holding
  <2>2. \A f \in Fields, o \in Origins : used'[f][o] = 0 /\ allows'[f][o] = 0
    BY <1>4, RestartEffect DEF NothingUsed
  <2>3. \A f \in Fields, o \in Origins : Cardinality(Holding(f, o)') = 0
    BY <2>1, FS_EmptySet
  <2> QED
    BY <2>2, <2>3 DEF PlacesTaken
<1> QED
  BY <1>1, <1>2, <1>3, <1>4 DEF Next

\* A field is never allowed more often than its limit, however evaluations of one client
\* interleave: each holds the place it took until it allows or is refused.
THEOREM WithinQuota == Spec => []AllowsWithinQuota
<1>1. Init => PlacesTaken
  <2> SUFFICES ASSUME Init PROVE PlacesTaken
    OBVIOUS
  <2>1. \A f \in Fields, o \in Origins : Holding(f, o) = {}
    BY FreshClient DEF Init, EvaluationInit, Holding
  <2>2. \A f \in Fields, o \in Origins : used[f][o] = 0 /\ allows[f][o] = 0
    BY DEF Init, EvaluationInit, NothingUsed
  <2> QED
    BY <2>1, <2>2, FS_EmptySet DEF PlacesTaken
<1>2. WellFormed /\ PlacesTaken => AllowsWithinQuota
  <2> SUFFICES ASSUME WellFormed, PlacesTaken, NEW f \in Fields, NEW o \in Origins,
                      rule[f].limit # Absent
               PROVE  allows[f][o] <= rule[f].limit
    BY DEF AllowsWithinQuota
  <2>1. /\ used[f][o] <= rule[f].limit /\ used[f][o] \in Nat /\ allows[f][o] \in Nat
        /\ rule[f].limit \in Nat
    BY DEF WellFormed, Typed, EvaluationTypeOK, Rule
  <2>2. allows[f][o] + Cardinality(Holding(f, o)) <= used[f][o]
    BY DEF PlacesTaken
  <2> QED
    BY <2>1, <2>2, HoldingFinite
<1> QED
  BY <1>1, <1>2, InitWellFormed, WellFormedStep, PlacesTakenStep, PTL DEF Spec

-----------------------------------------------------------------------------
(* Yeses: each is on its way to the store, stands in it, or has ended.      *)

\* Finitely many evaluations have a yes on its way.
LEMMA GrantingFinite ==
    ASSUME NEW k
    PROVE  IsFiniteSet(Granting(k)) /\ Cardinality(Granting(k)) \in Nat
<1>1. Granting(k) \subseteq Tasks
  BY DEF Granting
<1> QED
  BY <1>1, TasksAssumption, FS_Subset, FS_CardinalityType

\* A step that neither writes the store nor moves a yes keeps the account.
LEMMA NothingGranted ==
    ASSUME YesesAccounted, grants' = grants, unspent' = unspent,
           \A k \in Key : Granting(k)' = Granting(k)
    PROVE  YesesAccounted'
BY DEF YesesAccounted, InForce

\* An evaluation that neither comes to grant nor was granting moves no yes.
LEMMA GrantingMove ==
    ASSUME NEW t \in Tasks, NEW from, NEW to, Moves(t, from, to),
           from # "granting", to # "granting"
    PROVE  \A k \in Key : Granting(k)' = Granting(k)
BY DEF Granting, Moves

\* A yes given is one more on its way.
LEMMA YesAccounted ==
    ASSUME WellFormed, YesesAccounted, NEW t \in Tasks, AnswerYes(t)
    PROVE  YesesAccounted'
<1>1. GoesOn(t, "asking", "granting") /\ grants' = grants
      /\ unspent' = [unspent EXCEPT ![eval[t].key] = @ + 1]
  BY YesEffect DEF AnswerYes
<1>2. unspent \in [Key -> Int] /\ eval[t].at = "asking"
  BY DEF WellFormed, Typed, EvaluationTypeOK, AnswerYes
<1> SUFFICES ASSUME NEW k \in Key
             PROVE  unspent'[k] = InForce(k) + Cardinality(Granting(k)')
  BY <1>1 DEF YesesAccounted, InForce
<1>3. unspent[k] = InForce(k) + Cardinality(Granting(k)) /\ InForce(k) \in Nat
  BY DEF YesesAccounted, InForce
<1>4. CASE k = eval[t].key
  <2>1. t \notin Granting(k) /\ Granting(k)' = Granting(k) \cup {t}
    BY <1>1, <1>2, <1>4 DEF Granting, GoesOn, Moves
  <2>2. Cardinality(Granting(k)') = Cardinality(Granting(k)) + 1
    BY <2>1, GrantingFinite, FS_AddElement
  <2>3. unspent'[k] = unspent[k] + 1
    BY <1>1, <1>2, <1>4
  <2> QED
    BY <1>3, <2>2, <2>3, GrantingFinite
<1>5. CASE k # eval[t].key
  <2>1. Granting(k)' = Granting(k)
    BY <1>1, <1>5 DEF Granting, GoesOn, Moves
  <2>2. unspent'[k] = unspent[k]
    BY <1>1, <1>2, <1>5
  <2> QED
    BY <1>3, <2>1, <2>2
<1> QED
  BY <1>4, <1>5

\* A yes that reaches the store takes the place of the one there, if any.
LEMMA StoreAccounted ==
    ASSUME WellFormed, YesesAccounted, NEW t \in Tasks, StoreGrant(t)
    PROVE  YesesAccounted'
<1>1. GoesOn(t, "granting", "trust") /\ unspent' = Ended({eval[t].key})
      /\ grants' = [grants EXCEPT ![eval[t].key] = BasisOfGrant(t)]
  BY StoreEffect DEF StoreGrant
<1>2. /\ unspent \in [Key -> Int] /\ eval[t].at = "granting"
      /\ grants \in [Key -> Bases \cup {Absent}] /\ BasisOfGrant(t) # Absent
  BY AbsentAssumption DEF WellFormed, Typed, EvaluationTypeOK, StoreGrant, BasisOfGrant, Bases
<1> SUFFICES ASSUME NEW k \in Key
             PROVE  unspent'[k] = InForce(k)' + Cardinality(Granting(k)')
  BY DEF YesesAccounted
<1>3. unspent[k] = InForce(k) + Cardinality(Granting(k)) /\ InForce(k) \in Nat
  BY DEF YesesAccounted, InForce
<1>4. CASE k = eval[t].key
  <2>1. t \in Granting(k) /\ Granting(k)' = Granting(k) \ {t}
    BY <1>1, <1>2, <1>4 DEF Granting, GoesOn, Moves
  <2>2. Cardinality(Granting(k)') = Cardinality(Granting(k)) - 1
    BY <2>1, GrantingFinite, FS_RemoveElement
  <2>3. unspent'[k] = unspent[k] - InForce(k)
    BY <1>1, <1>2, <1>4, EndedEffect DEF InForce
  <2>4. InForce(k)' = 1
    BY <1>1, <1>2, <1>4 DEF InForce
  <2> QED
    BY <1>3, <2>2, <2>3, <2>4, GrantingFinite
<1>5. CASE k # eval[t].key
  <2>1. Granting(k)' = Granting(k)
    BY <1>1, <1>5 DEF Granting, GoesOn, Moves
  <2>2. unspent'[k] = unspent[k]
    BY <1>1, <1>2, <1>5, EndedEffect
  <2>3. InForce(k)' = InForce(k)
    BY <1>1, <1>2, <1>5 DEF InForce
  <2> QED
    BY <1>3, <2>1, <2>2, <2>3
<1> QED
  BY <1>4, <1>5

\* The application's grants put one yes in the place of another, and its removals end
\* what was in force.
LEMMA CallsStoreAccounted ==
    ASSUME WellFormed, YesesAccounted, CallsStore
    PROVE  YesesAccounted'
<1>1. unspent \in [Key -> Int] /\ grants \in [Key -> Bases \cup {Absent}]
  BY DEF WellFormed, Typed, EvaluationTypeOK
<1> SUFFICES ASSUME NEW k \in Key
             PROVE  unspent'[k] = InForce(k)' + Cardinality(Granting(k)')
  BY DEF YesesAccounted
<1>2. unspent[k] = InForce(k) + Cardinality(Granting(k)) /\ InForce(k) \in Nat
  BY DEF YesesAccounted, InForce
<1>3. Granting(k)' = Granting(k)
  BY DEF CallsStore, StoreCall, AppGrant, Revoke, ClearGrants, Granting
<1>4. CASE AppGrant
  <2>1. PICK g \in AppGrants : /\ grants' = [grants EXCEPT ![g[1]] = g[2]]
                               /\ unspent' = [Ended({g[1]}) EXCEPT ![g[1]] = @ + 1]
    BY <1>4 DEF AppGrant
  <2>2. g[1] \in Key /\ g[2] # Absent
    BY AppGrantsAssumption, AbsentAssumption
  <2>3. CASE k = g[1]
    <3>1. unspent'[k] = (unspent[k] - InForce(k)) + 1
      BY <1>1, <2>1, <2>2, <2>3, EndedEffect DEF InForce
    <3>2. InForce(k)' = 1
      BY <1>1, <2>1, <2>2, <2>3 DEF InForce
    <3> QED
      BY <1>2, <1>3, <3>1, <3>2, GrantingFinite
  <2>4. CASE k # g[1]
    <3>1. unspent'[k] = unspent[k]
      BY <1>1, <2>1, <2>2, <2>4, EndedEffect
    <3>2. InForce(k)' = InForce(k)
      BY <1>1, <2>1, <2>2, <2>4 DEF InForce
    <3> QED
      BY <1>2, <1>3, <3>1, <3>2
  <2> QED
    BY <2>3, <2>4
<1>5. CASE Revoke \/ ClearGrants
  <2>1. PICK K \in SUBSET Key :
          /\ unspent' = Ended(K)
          /\ \A j \in Key : grants'[j] = IF j \in K THEN Absent ELSE grants[j]
    <3>1. CASE Revoke
      <4>1. PICK h \in Key : grants' = Without(h) /\ unspent' = Ended({h})
        BY <3>1 DEF Revoke
      <4>2. \A j \in Key : grants'[j] = IF j \in {h} THEN Absent ELSE grants[j]
        BY <1>1, <4>1 DEF Without
      <4> QED
        BY <4>1, <4>2
    <3>2. CASE ClearGrants
      BY <3>2, FreshClient DEF ClearGrants
    <3> QED
      BY <1>5, <3>1, <3>2
  <2>2. unspent'[k] = IF k \in K THEN unspent[k] - InForce(k) ELSE unspent[k]
    BY <1>1, <2>1, EndedEffect DEF InForce
  <2>3. InForce(k)' = IF k \in K THEN 0 ELSE InForce(k)
    BY <2>1 DEF InForce
  <2> QED
    BY <1>2, <1>3, <2>2, <2>3, GrantingFinite
<1> QED
  BY <1>4, <1>5 DEF CallsStore, StoreCall

\* Every step keeps the account of the yeses.
LEMMA YesesStep ==
    ASSUME WellFormed, YesesAccounted, [Next]_vars
    PROVE  YesesAccounted'
<1>1. ASSUME NEW t \in Tasks, Evaluates(t)
      PROVE  YesesAccounted'
  <2>1. CASE Begin(t)
    <3>1. UNCHANGED <<grants, unspent>>
      BY <2>1 DEF Begin
    <3>2. Moves(t, "idle", "consent") \/ Moves(t, "idle", "denied")
      BY <2>1, BeginEffect DEF Begins
    <3> QED
      BY <3>1, <3>2, GrantingMove, NothingGranted
  <2>2. CASE CheckConsent(t) \/ AnswerNo(t) \/ Refuse(t) \/ Allow(t)
    <3>1. UNCHANGED <<grants, unspent>>
      BY <2>2 DEF CheckConsent, AnswerNo, Refuse, Allow
    <3>2. \E from, to \in {"consent", "asking", "trust", "denied", "allowed"} :
            Moves(t, from, to)
      BY <2>2, CheckEffect, NoEffect, RefuseEffect, AllowEffect
         DEF Considers, Passes, Asks, CannotAsk, GoesOn
    <3> QED
      BY <3>1, <3>2, GrantingMove, NothingGranted
  <2> QED
    BY <1>1, <2>1, <2>2, YesAccounted, StoreAccounted DEF Evaluates, Evaluate
<1>2. ASSUME NEW t \in Tasks, Record(t) \/ AddElement(t) \/ Finish(t)
      PROVE  YesesAccounted'
  <2>1. UNCHANGED <<grants, unspent>>
    BY <1>2 DEF Record, AddElement, Finish, evaluationVars
  <2>2. CASE Record(t)
    <3>1. Moves(t, "allowed", "recorded")
      BY <2>2, RecordEffect DEF GoesOn
    <3> QED
      BY <2>1, <3>1, GrantingMove, NothingGranted
  <2>3. CASE AddElement(t)
    <3>1. \A k \in Key : Granting(k)' = Granting(k)
      BY <2>3, AddEffect DEF AddElement, Granting, Moves
    <3> QED
      BY <2>1, <3>1, NothingGranted
  <2>4. CASE Finish(t)
    <3>1. \A k \in Key : Granting(k)' = Granting(k)
      BY <2>4 DEF Finish, Granting, evaluationVars
    <3> QED
      BY <2>1, <3>1, NothingGranted
  <2> QED
    BY <1>2, <2>2, <2>3, <2>4
<1>3. CASE ExportGrants \/ ExportEntries \/ UNCHANGED vars
  <2>1. UNCHANGED <<grants, unspent, eval>>
    BY <1>3 DEF ExportGrants, ExportEntries, vars, evaluationVars
  <2>2. \A k \in Key : Granting(k)' = Granting(k)
    BY <2>1 DEF Granting
  <2> QED
    BY <2>1, <2>2, NothingGranted
<1>4. CASE Restart
  <2>1. \A k \in Key : Granting(k)' = {}
    BY <1>4, RestartEffect, FreshClient DEF Granting
  <2>2. \A k \in Key : unspent'[k] = InForce(k)'
    BY <1>4, RestartEffect DEF InForce
  <2>3. \A k \in Key : Cardinality(Granting(k)') = 0 /\ InForce(k)' \in Nat
    BY <2>1, FS_EmptySet DEF InForce
  <2> QED
    BY <2>2, <2>3 DEF YesesAccounted
<1> QED
  BY <1>1, <1>2, <1>3, <1>4, CallsStoreAccounted DEF Next

\* Only check_consent takes an evaluation past consent without asking, and under an
\* implicit rule only on what the store holds.
LEMMA PassesOnGrant ==
    ASSUME WellFormed, [Next]_vars, NEW t \in Tasks, eval[t].at = "consent",
           eval'[t].at = "trust", RuleFor(t).requires = "implicit"
    PROVE  Check(eval[t].key) # {}
<1>1. ASSUME NEW u \in Tasks, Evaluates(u)
      PROVE  Check(eval[t].key) # {}
  <2>1. u = t
    <3>1. \A v \in Tasks \ {u} : eval'[v] = eval[v]
      <4>1. Evaluate(u)
        BY <1>1 DEF Evaluates
      <4> QED
        BY <4>1, BeginEffect, CheckEffect, YesEffect, NoEffect, StoreEffect, RefuseEffect,
           AllowEffect
           DEF Evaluate, Begins, Considers, Passes, Asks, CannotAsk, GoesOn, Moves
    <3> QED
      BY <3>1
  <2>2. CheckConsent(t)
    BY <1>1, <2>1
       DEF Evaluates, Evaluate, Begin, AnswerYes, AnswerNo, StoreGrant, Refuse, Allow
  <2>3. Passes(t)
    BY <2>2, CheckEffect DEF Considers, Asks, CannotAsk, GoesOn, Moves
  <2> QED
    BY <2>3 DEF Passes
<1>2. ASSUME NEW u \in Tasks, Record(u) \/ AddElement(u) \/ Finish(u)
      PROVE  FALSE
  <2>1. CASE Record(u)
    BY <1>2, <2>1, RecordEffect DEF GoesOn, Moves
  <2>2. CASE AddElement(u)
    BY <1>2, <2>2, AddEffect DEF AddElement, Moves
  <2>3. CASE Finish(u)
    BY <1>2, <2>3 DEF Finish, evaluationVars
  <2> QED
    BY <1>2, <2>1, <2>2, <2>3
<1>3. CASE CallsStore \/ ExportGrants \/ ExportEntries \/ UNCHANGED vars
  BY <1>3 DEF CallsStore, StoreCall, AppGrant, Revoke, ClearGrants, ExportGrants,
              ExportEntries, vars, evaluationVars
<1>4. CASE Restart
  BY <1>4, RestartEffect, FreshClient
<1> QED
  BY <1>1, <1>2, <1>3, <1>4 DEF Next

\* A field disclosed unasked rests on a yes that has reached the store and that no
\* revocation, no clear and no later grant has ended since, whatever handlers were
\* still to answer and whatever the application called meanwhile.
THEOREM UnaskedOnConsent == Spec => UnaskedRestsOnConsent
<1> DEFINE Rests ==
        \A t \in Tasks :
            eval[t].at = "consent" /\ eval'[t].at = "trust" /\ RuleFor(t).requires = "implicit"
              => \E g \in Key :
                    /\ \/ g = eval[t].key
                       \/ /\ g.field = eval[t].key.field /\ g.scope = "global"
                          /\ eval[t].key.scope # "session"
                    /\ unspent[g] > Cardinality(Granting(g))
<1>1. Init => YesesAccounted
  <2> SUFFICES ASSUME Init PROVE YesesAccounted
    OBVIOUS
  <2>1. \A k \in Key : unspent[k] = 0 /\ InForce(k) = 0
    BY FreshClient DEF Init, EvaluationInit, InForce
  <2>2. \A k \in Key : Granting(k) = {}
    BY FreshClient DEF Init, EvaluationInit, Granting
  <2> QED
    BY <2>1, <2>2, FS_EmptySet DEF YesesAccounted
<1>2. WellFormed /\ YesesAccounted /\ [Next]_vars => Rests
  <2> SUFFICES ASSUME WellFormed, YesesAccounted, [Next]_vars, NEW t \in Tasks,
                      eval[t].at = "consent", eval'[t].at = "trust",
                      RuleFor(t).requires = "implicit"
               PROVE  \E g \in Key :
                        /\ \/ g = eval[t].key
                           \/ /\ g.field = eval[t].key.field /\ g.scope = "global"
                              /\ eval[t].key.scope # "session"
                        /\ unspent[g] > Cardinality(Granting(g))
    OBVIOUS
  <2>1. eval[t].key \in Key /\ Check(eval[t].key) # {}
    BY PassesOnGrant DEF WellFormed, Keyed
  <2>2. PICK g \in Key : /\ grants[g] # Absent
                         /\ \/ g = eval[t].key
                            \/ /\ g.field = eval[t].key.field /\ g.scope = "global"
                               /\ eval[t].key.scope # "session"
    BY <2>1 DEF Check, Covering
  <2>3. unspent[g] = 1 + Cardinality(Granting(g)) /\ Cardinality(Granting(g)) \in Nat
    BY <2>2, GrantingFinite DEF YesesAccounted, InForce
  <2> QED
    BY <2>2, <2>3
<1>3. UnaskedRestsOnConsent <=> [][Rests]_evaluationVars
  BY PTL DEF UnaskedRestsOnConsent
<1>4. Rests => [Rests]_evaluationVars
  OBVIOUS
<1> HIDE DEF Rests
<1> QED
  BY <1>1, <1>2, <1>3, <1>4, InitWellFormed, WellFormedStep, YesesStep, PTL DEF Spec

-----------------------------------------------------------------------------
(* Consents: what was granted stays granted in history, and is carried from *)
(* the principal's yes to the store, the answer, the log and the state.     *)

\* A consent remains one as the history of approvals grows.
LEMMA ConsentStays ==
    ASSUME rule' = rule, config' = config, approved \subseteq approved',
           rule \in [Fields -> Rule], NEW key, key.field \in Fields, NEW basis
    PROVE  Consented(key, basis) => Consented(key, basis)'
<1>1. rule[key.field].requires \in Requirements
  BY DEF Rule
<1> QED
  BY <1>1 DEF Consented, Requirements

\* So do the grants of a store,
LEMMA GivenStays ==
    ASSUME approved \subseteq approved', NEW store, Given(store)
    PROVE  Given(store)'
BY DEF Given

\* the entries of a log,
LEMMA CitesStay ==
    ASSUME WellFormed, rule' = rule, config' = config, approved \subseteq approved',
           NEW entries \in Seq(Entry), EntriesCite(entries)
    PROVE  EntriesCite(entries)'
<1> DEFINE key(i) == [field |-> entries[i].field, origin |-> entries[i].origin,
                      scope |-> rule[entries[i].field].scope]
<1> SUFFICES ASSUME NEW i \in DOMAIN entries
             PROVE  Consented(key(i), entries[i].basis)'
  BY DEF EntriesCite
<1>1. key(i).field \in Fields /\ rule \in [Fields -> Rule]
  <2>1. entries[i] \in Entry
    OBVIOUS
  <2> QED
    BY <2>1 DEF Entry, WellFormed, Typed, EvaluationTypeOK
<1>2. Consented(key(i), entries[i].basis)
  BY DEF EntriesCite
<1> QED
  BY <1>1, <1>2, ConsentStays

AnswersCite(t) ==
    \A i \in DOMAIN response[t] :
        response[t][i].kind = "answer" =>
            /\ Consented(response[t][i].key, response[t][i].attribute)
            /\ rule[response[t][i].key.field].requires \in {"explicit", "unknown"}
                    => response[t][i].answer = "yes"

\* AnswersCiteConsent speaks of each task's answers and of the log.
LEMMA AnswersAndEntries ==
    AnswersCiteConsent <=> (\A t \in Tasks : AnswersCite(t)) /\ EntriesCite(log)
BY DEF AnswersCiteConsent, AnswersCite, EntriesCite

\* The answers of a task that adds none still cite a consent,
LEMMA AnswersStay ==
    ASSUME WellFormed, rule' = rule, config' = config, approved \subseteq approved',
           NEW t \in Tasks, response'[t] = response[t], AnswersCite(t)
    PROVE  AnswersCite(t)'
<1> SUFFICES ASSUME NEW i \in DOMAIN response[t], response[t][i].kind = "answer"
             PROVE  /\ Consented(response[t][i].key, response[t][i].attribute)'
                    /\ rule[response[t][i].key.field].requires \in {"explicit", "unknown"}
                            => response[t][i].answer = "yes"
  BY DEF AnswersCite
<1>1. response[t][i].key.field \in Fields /\ rule \in [Fields -> Rule]
  <2>1. response[t] \in Seq(Outcome)
    BY DEF WellFormed, Typed
  <2>2. response[t][i] \in Outcome
    BY <2>1
  <2> QED
    BY <2>2 DEF Outcome, Key, WellFormed, Typed, EvaluationTypeOK
<1>2. Consented(response[t][i].key, response[t][i].attribute)
  BY DEF AnswersCite
<1>3. Consented(response[t][i].key, response[t][i].attribute)'
  BY <1>1, <1>2, ConsentStays
<1> QED
  BY <1>3 DEF AnswersCite

\* and an evaluation that does not move still goes on with one.
LEMMA ConsentingStays ==
    ASSUME WellFormed, rule' = rule, config' = config, approved \subseteq approved',
           NEW t \in Tasks, eval'[t] = eval[t], Consenting(t)
    PROVE  Consenting(t)'
<1>1. eval[t].at # "idle" => eval[t].key \in Key /\ eval[t].key.field \in Fields
  BY DEF WellFormed, Keyed, Key
<1>2. rule \in [Fields -> Rule]
  BY DEF WellFormed, Typed, EvaluationTypeOK
<1>3. CASE eval[t].at \in {"trust", "allowed", "recorded"}
  <2>1. Consented(eval[t].key, eval[t].basis)
    BY <1>3 DEF Consenting
  <2>2. Consented(eval[t].key, eval[t].basis)'
    BY <1>1, <1>2, <1>3, <2>1, ConsentStays
  <2> QED
    BY <1>3, <2>2 DEF Consenting, AsksFirst, RuleFor
<1>4. CASE eval[t].at \notin {"trust", "allowed", "recorded"}
  BY <1>4 DEF Consenting, AsksFirst, RuleFor, BasisOfGrant
<1> QED
  BY <1>3, <1>4

\* The step of one evaluation that leaves the rest alone.
LEMMA OthersConsenting ==
    ASSUME WellFormed, ConsentsGiven, AnswersCiteConsent,
           rule' = rule, config' = config, approved \subseteq approved',
           exporting' = exporting, snapshot' = snapshot, response' = response, log' = log,
           NEW t \in Tasks, NEW from, NEW to, Moves(t, from, to), Given(grants)', Consenting(t)'
    PROVE  ConsentsGiven' /\ AnswersCiteConsent'
<1>1. \A u \in Tasks : Consenting(u)'
  BY ConsentingStays DEF Moves, ConsentsGiven
<1>2. \A store \in exporting' : Given(store)'
  BY GivenStays DEF ConsentsGiven
<1>3. \A state \in snapshot' : Given(state.grants)' /\ EntriesCite(state.entries)'
  BY GivenStays, CitesStay DEF ConsentsGiven, WellFormed, Typed
<1>4. EntriesCite(log)'
  <2>1. EntriesCite(log)
    BY AnswersAndEntries
  <2> QED
    BY <2>1, CitesStay DEF WellFormed, Typed, EntriesCite
<1>5. \A u \in Tasks : AnswersCite(u)'
  BY AnswersStay, AnswersAndEntries
<1>6. AnswersCiteConsent'
  BY <1>4, <1>5 DEF AnswersCiteConsent, AnswersCite, EntriesCite
<1> QED
  BY <1>1, <1>2, <1>3, <1>6 DEF ConsentsGiven, Given

\* Check finds what was given for the key, or globally for the field.
LEMMA CheckConsented ==
    ASSUME WellFormed, Given(grants), NEW key \in Key, rule[key.field].requires = "implicit",
           NEW basis \in Check(key)
    PROVE  Consented(key, basis)
<1>1. <<key, basis>> \in approved
      \/ \E g \in Key : /\ <<g, basis>> \in approved /\ g.field = key.field
                        /\ g.scope = "global" /\ key.scope # "session"
  <2>1. CASE grants[key] # Absent
    BY <2>1 DEF Check, Given
  <2>2. CASE grants[key] = Absent
    <3>1. PICK g \in Covering(key) : basis = grants[g] /\ basis # Absent
      BY <2>2 DEF Check
    <3>2. g \in Key /\ (g = key \/ /\ key.scope \in {"origin", "global"}
                                   /\ g.field = key.field /\ g.scope = "global")
      BY <3>1 DEF Covering
    <3> QED
      BY <2>2, <3>1, <3>2 DEF Given
  <2> QED
    BY <2>1, <2>2
<1>2. CASE <<key, basis>> \in approved
  BY <1>2 DEF Consented
<1>3. ASSUME NEW g \in Key, <<g, basis>> \in approved, g.field = key.field,
             g.scope = "global", key.scope # "session"
      PROVE  Consented(key, basis)
  <2> DEFINE a == <<g, basis>>
  <2>1. a \in approved /\ a[1] = g /\ a[2] = basis
    BY <1>3
  <2> QED
    BY <1>3, <2>1 DEF Consented
<1> QED
  BY <1>1, <1>2, <1>3

\* Each step of an evaluation takes a consent along.
LEMMA ConsentCarried ==
    ASSUME WellFormed, UNCHANGED <<rule, config, approved>>, NEW t \in Tasks,
           eval'[t].key.field \in Fields, Consented(eval'[t].key, eval'[t].basis)
    PROVE  Consented(eval[t].key, eval[t].basis)'
<1> DEFINE k == eval'[t].key
           b == eval'[t].basis
<1>1. rule \in [Fields -> Rule] /\ rule[k.field].requires \in Requirements
  BY DEF WellFormed, Typed, EvaluationTypeOK, Rule
<1>2. rule' = rule /\ config' = config /\ approved' = approved
  OBVIOUS
<1> QED
  BY <1>1, <1>2 DEF Consented, Requirements

\* An evaluation that begins has no consent to show.
LEMMA BeginConsenting ==
    ASSUME WellFormed, NEW t \in Tasks, Begin(t)
    PROVE  Consenting(t)'
BY BeginEffect DEF Begins, Moves, Consenting

\* What check_consent passes has the consent its rule requires.
LEMMA CheckConsenting ==
    ASSUME WellFormed, Given(grants), NEW t \in Tasks, CheckConsent(t)
    PROVE  Consenting(t)'
<1>1. Considers(t) /\ UNCHANGED <<rule, config, approved>>
  BY CheckEffect DEF CheckConsent
<1>2. eval[t].key \in Key /\ eval[t].key.field \in Fields
  BY <1>1 DEF CheckConsent, WellFormed, Keyed, Key
<1>3. CASE Passes(t)
  <2>1. eval'[t].at = "trust" /\ eval'[t].key = eval[t].key
    BY <1>3 DEF Passes, GoesOn, Moves
  <2>2. Consented(eval[t].key, eval'[t].basis) /\ ~AsksFirst(t)
    <3>1. CASE RuleFor(t).requires = "implicit" /\ eval'[t].basis \in Check(eval[t].key)
      BY <1>2, <3>1, CheckConsented DEF RuleFor, AsksFirst
    <3>2. CASE RuleFor(t).requires = "authentication" /\ config.auth
               /\ eval'[t].basis = "delegated"
      BY <3>2 DEF RuleFor, AsksFirst, Consented
    <3>3. CASE RuleFor(t).requires = "none" /\ eval'[t].basis = "implicit"
      BY <3>3 DEF RuleFor, AsksFirst, Consented
    <3> QED
      BY <1>3, <3>1, <3>2, <3>3 DEF Passes
  <2>3. Consented(eval[t].key, eval[t].basis)'
    BY <1>1, <1>2, <2>1, <2>2, ConsentCarried
  <2> QED
    BY <1>1, <2>1, <2>2, <2>3 DEF Consenting, AsksFirst, RuleFor
<1>4. CASE Asks(t) \/ CannotAsk(t)
  BY <1>1, <1>4 DEF Asks, CannotAsk, GoesOn, Moves, Consenting, AsksFirst, RuleFor
<1> QED
  BY <1>1, <1>3, <1>4 DEF Considers

\* A yes is on record before the store learns of it.
LEMMA YesConsenting ==
    ASSUME WellFormed, NEW t \in Tasks, Consenting(t), AnswerYes(t)
    PROVE  Consenting(t)' /\ approved \subseteq approved'
<1>1. /\ GoesOn(t, "asking", "granting") /\ eval'[t].answer = "yes"
      /\ UNCHANGED <<rule, config>> /\ eval[t].at = "asking"
      /\ approved' = approved \cup {<<eval[t].key, BasisOfGrant(t)>>}
  BY YesEffect DEF AnswerYes
<1>2. BasisOfGrant(t)' = BasisOfGrant(t)
  BY <1>1 DEF BasisOfGrant, RuleFor, GoesOn
<1> QED
  BY <1>1, <1>2 DEF GoesOn, Moves, Consenting, AsksFirst, RuleFor

\* What the store learns was given, and the evaluation goes on with it.
LEMMA StoreConsenting ==
    ASSUME WellFormed, Given(grants), NEW t \in Tasks, Consenting(t), StoreGrant(t)
    PROVE  Consenting(t)' /\ Given(grants)'
<1>1. /\ GoesOn(t, "granting", "trust") /\ eval'[t].basis = BasisOfGrant(t)
      /\ eval'[t].answer = eval[t].answer /\ eval[t].at = "granting"
      /\ UNCHANGED <<rule, config, approved>>
      /\ grants' = [grants EXCEPT ![eval[t].key] = BasisOfGrant(t)]
  BY StoreEffect DEF StoreGrant
<1>2. /\ <<eval[t].key, BasisOfGrant(t)>> \in approved /\ eval[t].answer = "yes"
      /\ AsksFirst(t) \/ RuleFor(t).requires = "implicit"
  BY <1>1 DEF Consenting
<1>3. grants \in [Key -> Bases \cup {Absent}]
  BY DEF WellFormed, Typed, EvaluationTypeOK
<1>4. Given(grants)'
  BY <1>1, <1>2, <1>3 DEF Given
<1>5. eval'[t].at = "trust" /\ eval'[t].key = eval[t].key
  BY <1>1 DEF GoesOn, Moves
<1>6. Consented(eval[t].key, eval[t].basis)'
  BY <1>1, <1>2, <1>5 DEF Consented, BasisOfGrant, AsksFirst, RuleFor
<1> QED
  BY <1>1, <1>2, <1>4, <1>5, <1>6 DEF Consenting

\* Allow and Record go on with the same consent.
LEMMA OnConsenting ==
    ASSUME WellFormed, NEW t \in Tasks, Consenting(t), NEW from, NEW to,
           GoesOn(t, from, to), UNCHANGED <<rule, config, approved>>,
           eval'[t].answer = eval[t].answer, eval'[t].basis = eval[t].basis,
           from \in {"trust", "allowed"} /\ to \in {"allowed", "recorded"}
    PROVE  Consenting(t)'
<1>1. /\ eval[t].at \in {"trust", "allowed"} /\ eval'[t].at \in {"allowed", "recorded"}
      /\ eval'[t].key = eval[t].key
  BY DEF GoesOn, Moves
<1>2. Consented(eval[t].key, eval[t].basis) /\ (AsksFirst(t) => eval[t].answer = "yes")
  BY <1>1 DEF Consenting
<1>3. Consented(eval[t].key, eval[t].basis)'
  <2>1. eval[t].key.field \in Fields
    BY <1>1 DEF WellFormed, Keyed, Key
  <2> QED
    BY <1>1, <1>2, <2>1, ConsentCarried
<1> QED
  BY <1>1, <1>2, <1>3 DEF Consenting, AsksFirst, RuleFor

\* A refusal needs none.
LEMMA RefusedConsenting ==
    ASSUME NEW t \in Tasks, NEW from, GoesOn(t, from, "denied")
    PROVE  Consenting(t)'
BY DEF GoesOn, Moves, Consenting

\* The steps of an evaluation keep every consent cited.
LEMMA EvaluatesConsents ==
    ASSUME WellFormed, ConsentsGiven, AnswersCiteConsent, NEW t \in Tasks, Evaluates(t)
    PROVE  ConsentsGiven' /\ AnswersCiteConsent'
<1>1. /\ Evaluate(t) /\ UNCHANGED <<response, log, exporting, snapshot>>
      /\ Given(grants) /\ Consenting(t)
  BY DEF Evaluates, responseVars, stateVars, ConsentsGiven
<1>2. \E from, to : Moves(t, from, to)
  BY <1>1, BeginEffect, CheckEffect, YesEffect, NoEffect, StoreEffect, RefuseEffect, AllowEffect,
     ZenonT(60) DEF Evaluate, Begins, Considers, Passes, Asks, CannotAsk, GoesOn
<1>3. UNCHANGED <<rule, config>> /\ approved \subseteq approved'
  BY <1>1, YesConsenting
     DEF Evaluate, Begin, CheckConsent, AnswerYes, AnswerNo, StoreGrant, Refuse, Allow
<1>4. Given(grants)'
  <2>1. CASE StoreGrant(t)
    BY <1>1, <2>1, StoreConsenting
  <2>2. CASE ~StoreGrant(t)
    <3>1. grants' = grants
      BY <1>1, <2>2 DEF Evaluate, Begin, CheckConsent, AnswerYes, AnswerNo, Refuse, Allow
    <3> QED
      BY <1>1, <1>3, <3>1 DEF Given
  <2> QED
    BY <2>1, <2>2
<1>5. Consenting(t)'
  <2>1. CASE AnswerNo(t) \/ Refuse(t)
    BY <2>1, NoEffect, RefuseEffect, RefusedConsenting
  <2>2. CASE Allow(t)
    <3>1. UNCHANGED <<rule, config, approved>>
      BY <2>2 DEF Allow
    <3> QED
      BY <1>1, <2>2, <3>1, AllowEffect, OnConsenting
  <2> QED
    BY <1>1, <2>1, <2>2, BeginConsenting, CheckConsenting, YesConsenting, StoreConsenting
       DEF Evaluate
<1> QED
  BY <1>1, <1>2, <1>3, <1>4, <1>5, OthersConsenting

\* What the caller records is what the evaluation went on with.
LEMMA RecordConsents ==
    ASSUME WellFormed, ConsentsGiven, AnswersCiteConsent, NEW t \in Tasks, Record(t)
    PROVE  ConsentsGiven' /\ AnswersCiteConsent'
<1> DEFINE entry == [field |-> eval[t].key.field, origin |-> eval[t].key.origin,
                     basis |-> eval[t].basis]
<1>1. /\ UNCHANGED <<rule, config, grants, approved, response, exporting, snapshot>>
      /\ eval[t].at = "allowed" /\ log' = Append(log, entry)
  BY DEF Record, stateVars
<1>2. /\ GoesOn(t, "allowed", "recorded")
      /\ eval'[t].basis = eval[t].basis /\ eval'[t].answer = eval[t].answer
  BY RecordEffect
<1>3. \A u \in Tasks : Consenting(u)'
  <2>1. Consenting(t)'
    BY <1>1, <1>2, OnConsenting DEF ConsentsGiven
  <2>2. \A u \in Tasks \ {t} : eval'[u] = eval[u]
    BY <1>2 DEF GoesOn, Moves
  <2> QED
    BY <1>1, <2>1, <2>2, ConsentingStays DEF ConsentsGiven
<1>4. ConsentsGiven'
  <2>1. \A store : Given(store) => Given(store)'
    BY <1>1, GivenStays
  <2>2. \A state \in snapshot : EntriesCite(state.entries)'
    BY <1>1, CitesStay DEF ConsentsGiven, WellFormed, Typed
  <2> QED
    BY <1>1, <1>3, <2>1, <2>2 DEF ConsentsGiven, Given
<1>5. \A u \in Tasks : AnswersCite(u)'
  BY <1>1, AnswersStay, AnswersAndEntries
<1>6. EntriesCite(log)'
  <2>2. EntriesCite(log) /\ log \in Seq(Entry)
    BY AnswersAndEntries DEF WellFormed, Typed
  <2>4. ASSUME NEW i \in DOMAIN log
        PROVE  /\ log'[i] = log[i]
               /\ Consented([field |-> log[i].field, origin |-> log[i].origin,
                             scope |-> rule[log[i].field].scope], log[i].basis)
    BY <1>1, <2>2, <2>4 DEF EntriesCite
  <2>5. /\ entry.field = eval[t].key.field /\ entry.origin = eval[t].key.origin
        /\ entry.basis = eval[t].basis
    OBVIOUS
  <2>6. /\ [field |-> entry.field, origin |-> entry.origin, scope |-> rule[entry.field].scope]
             = eval[t].key
        /\ Consented(eval[t].key, eval[t].basis)
    <3>1. eval[t].key \in Key /\ eval[t].key.scope = rule[eval[t].key.field].scope
      BY <1>1 DEF WellFormed, Keyed, RuleFor
    <3>2. Consented(eval[t].key, eval[t].basis)
      BY <1>1 DEF ConsentsGiven, Consenting
    <3> QED
      BY <3>1, <3>2 DEF Key
  <2> HIDE DEF entry
  <2>7. \A i \in DOMAIN log' : i \in DOMAIN log \/ log'[i] = entry
    BY <1>1, <2>2
  <2>8. \A k, b : Consented(k, b)' <=> Consented(k, b)
    BY <1>1 DEF Consented
  <2>9. \A i \in DOMAIN log' :
          Consented([field |-> log'[i].field, origin |-> log'[i].origin,
                     scope |-> rule[log'[i].field].scope], log'[i].basis)
    BY <2>4, <2>5, <2>6, <2>7
  <2> QED
    BY <1>1, <2>8, <2>9 DEF EntriesCite
<1> QED
  BY <1>4, <1>5, <1>6 DEF AnswersCiteConsent, AnswersCite, EntriesCite

\* The steps that leave rules, consents and evaluations that carry one alone.
LEMMA CarriedOver ==
    ASSUME WellFormed, ConsentsGiven, UNCHANGED <<rule, config>>, approved \subseteq approved',
           \A u \in Tasks : eval'[u] = eval[u] \/ eval'[u].at = "idle",
           exporting' = exporting /\ snapshot' = snapshot, Given(grants)'
    PROVE  ConsentsGiven'
<1>1. \A u \in Tasks : Consenting(u)'
  <2> TAKE u \in Tasks
  <2>1. CASE eval'[u] = eval[u]
    BY <2>1, ConsentingStays DEF ConsentsGiven
  <2>2. CASE eval'[u].at = "idle"
    BY <2>2 DEF Consenting
  <2> QED
    BY <2>1, <2>2
<1>2. \A store \in exporting' : Given(store)'
  BY GivenStays DEF ConsentsGiven
<1>3. \A state \in snapshot' : Given(state.grants)' /\ EntriesCite(state.entries)'
  BY GivenStays, CitesStay DEF ConsentsGiven, WellFormed, Typed
<1> QED
  BY <1>1, <1>2, <1>3 DEF ConsentsGiven, Given

\* A log that is left alone still cites consents.
LEMMA EntriesStay ==
    ASSUME WellFormed, AnswersCiteConsent, UNCHANGED <<rule, config, log>>,
           approved \subseteq approved'
    PROVE  EntriesCite(log)'
<1>1. EntriesCite(log) /\ log \in Seq(Entry)
  BY AnswersAndEntries DEF WellFormed, Typed
<1> QED
  BY <1>1, CitesStay DEF EntriesCite

\* An answer says what its evaluation went on with.
LEMMA AddConsents ==
    ASSUME WellFormed, ConsentsGiven, AnswersCiteConsent, NEW t \in Tasks, AddElement(t)
    PROVE  ConsentsGiven' /\ AnswersCiteConsent'
<1>1. /\ UNCHANGED <<rule, config, grants, approved, log, exporting, snapshot>>
      /\ eval[t].at \in {"allowed", "recorded", "denied"} /\ Moves(t, eval[t].at, "idle")
      /\ response' = [response EXCEPT ![t] = Append(@, Element(t))]
  BY AddEffect DEF AddElement, stateVars
<1>2. ConsentsGiven'
  <2>1. Given(grants)'
    BY <1>1 DEF ConsentsGiven, Given
  <2>2. \A u \in Tasks : eval'[u] = eval[u] \/ eval'[u].at = "idle"
    BY <1>1 DEF Moves
  <2> QED
    BY <1>1, <2>1, <2>2, CarriedOver
<1>3. Element(t).kind = "answer" =>
        /\ Element(t).key = eval[t].key /\ Element(t).attribute = eval[t].basis
        /\ Element(t).answer = eval[t].answer /\ eval[t].at \in {"allowed", "recorded"}
  BY <1>1 DEF Element
<1>4. eval[t].at \in {"allowed", "recorded"} =>
        /\ Consented(eval[t].key, eval[t].basis)
        /\ rule[eval[t].key.field].requires \in {"explicit", "unknown"}
                => eval[t].answer = "yes"
  BY DEF ConsentsGiven, Consenting, AsksFirst, RuleFor
<1> HIDE DEF Element
<1>5. \A k, b : Consented(k, b)' <=> Consented(k, b)
  BY <1>1 DEF Consented
<1>6. \A i \in DOMAIN response'[t] :
        response'[t][i].kind = "answer" =>
            /\ Consented(response'[t][i].key, response'[t][i].attribute)
            /\ rule[response'[t][i].key.field].requires \in {"explicit", "unknown"}
                    => response'[t][i].answer = "yes"
  <2>1. response'[t] = Append(response[t], Element(t)) /\ response[t] \in Seq(Outcome)
    BY <1>1 DEF WellFormed, Typed
  <2>2. \A i \in DOMAIN response'[t] :
          \/ i \in DOMAIN response[t] /\ response'[t][i] = response[t][i]
          \/ response'[t][i] = Element(t)
    BY <2>1
  <2>3. AnswersCite(t)
    BY AnswersAndEntries
  <2> QED
    BY <1>3, <1>4, <2>2, <2>3 DEF AnswersCite
<1>7. AnswersCite(t)'
  BY <1>1, <1>5, <1>6 DEF AnswersCite
<1>8. \A u \in Tasks \ {t} : AnswersCite(u)'
  BY <1>1, AnswersStay, AnswersAndEntries DEF WellFormed, Typed
<1>9. EntriesCite(log)'
  BY <1>1, EntriesStay
<1> QED
  BY <1>2, <1>7, <1>8, <1>9 DEF AnswersCiteConsent, AnswersCite, EntriesCite

\* A new response has no answer that could cite anything.
LEMMA FinishConsents ==
    ASSUME WellFormed, ConsentsGiven, AnswersCiteConsent, NEW t \in Tasks, Finish(t)
    PROVE  ConsentsGiven' /\ AnswersCiteConsent'
<1>1. /\ UNCHANGED <<rule, config, grants, approved, eval, log, exporting, snapshot>>
      /\ response' = [response EXCEPT ![t] = << >>]
  BY DEF Finish, stateVars, evaluationVars
<1>2. ConsentsGiven'
  <2>1. Given(grants)'
    BY <1>1 DEF ConsentsGiven, Given
  <2> QED
    BY <1>1, <2>1, CarriedOver
<1>3. AnswersCite(t)'
  <2>1. response'[t] = << >>
    BY <1>1 DEF WellFormed, Typed
  <2> QED
    BY <2>1 DEF AnswersCite
<1>4. \A u \in Tasks \ {t} : AnswersCite(u)'
  BY <1>1, AnswersStay, AnswersAndEntries DEF WellFormed, Typed
<1>5. EntriesCite(log)'
  BY <1>1, EntriesStay
<1> QED
  BY <1>2, <1>3, <1>4, <1>5 DEF AnswersCiteConsent, AnswersCite, EntriesCite

\* What the application grants is on record; revoking takes nothing from history.
LEMMA CallsStoreConsents ==
    ASSUME WellFormed, ConsentsGiven, AnswersCiteConsent, CallsStore
    PROVE  ConsentsGiven' /\ AnswersCiteConsent'
<1>1. /\ UNCHANGED <<rule, config, eval, log, response, exporting, snapshot>>
      /\ approved \subseteq approved'
  BY DEF CallsStore, StoreCall, AppGrant, Revoke, ClearGrants, stateVars, responseVars
<1>2. Given(grants)'
  <2>1. Given(grants) /\ grants \in [Key -> Bases \cup {Absent}]
    BY DEF ConsentsGiven, WellFormed, Typed, EvaluationTypeOK
  <2>2. CASE AppGrant
    <3>1. PICK g \in AppGrants : /\ grants' = [grants EXCEPT ![g[1]] = g[2]]
                                 /\ approved' = approved \cup {g}
      BY <2>2 DEF AppGrant
    <3>2. g = <<g[1], g[2]>>
      BY AppGrantsAssumption
    <3> QED
      BY <2>1, <3>1, <3>2 DEF Given
  <2>3. CASE Revoke
    BY <2>1, <2>3 DEF Revoke, Without, Given
  <2>4. CASE ClearGrants
    BY <2>4, FreshClient DEF ClearGrants, Given
  <2> QED
    BY <2>2, <2>3, <2>4 DEF CallsStore, StoreCall
<1>3. ConsentsGiven'
  BY <1>1, <1>2, CarriedOver
<1>4. \A u \in Tasks : AnswersCite(u)'
  BY <1>1, AnswersStay, AnswersAndEntries
<1>5. EntriesCite(log)'
  BY <1>1, EntriesStay
<1> QED
  BY <1>3, <1>4, <1>5 DEF AnswersCiteConsent, AnswersCite, EntriesCite

\* What is exported was given, and what is restored was exported.
LEMMA ExportsConsents ==
    ASSUME WellFormed, ConsentsGiven, AnswersCiteConsent, ExportGrants \/ ExportEntries
    PROVE  ConsentsGiven' /\ AnswersCiteConsent'
<1>1. UNCHANGED <<rule, config, grants, approved, eval, response, log>>
  BY DEF ExportGrants, ExportEntries, evaluationVars, responseVars
<1>2. \A k, b : Consented(k, b)' <=> Consented(k, b)
  BY <1>1 DEF Consented
<1>3. AnswersCiteConsent'
  BY <1>1, <1>2 DEF AnswersCiteConsent
<1>4. \A u \in Tasks : Consenting(u)'
  BY <1>1, ConsentingStays DEF ConsentsGiven
<1>5. /\ \A store : Given(store)' <=> Given(store)
      /\ \A entries : EntriesCite(entries)' <=> EntriesCite(entries)
  BY <1>1, <1>2 DEF Given, EntriesCite
<1>6. Given(grants) /\ EntriesCite(log) /\ EntriesCite(<< >>)
  BY AnswersAndEntries DEF ConsentsGiven, EntriesCite
<1>7. /\ \A store \in exporting' : Given(store)
      /\ \A state \in snapshot' : Given(state.grants) /\ EntriesCite(state.entries)
  <2>1. CASE exporting' = {grants} /\ snapshot' = snapshot
    BY <1>6, <2>1 DEF ConsentsGiven
  <2>2. CASE snapshot' = {[grants |-> grants, entries |-> << >>]} /\ exporting' = exporting
    BY <1>6, <2>2 DEF ConsentsGiven
  <2>3. CASE /\ snapshot' = {[grants |-> g, entries |-> log] : g \in exporting}
             /\ exporting' = {}
    BY <1>6, <2>3 DEF ConsentsGiven
  <2> QED
    BY <2>1, <2>2, <2>3 DEF ExportGrants, ExportEntries
<1> QED
  BY <1>1, <1>3, <1>4, <1>5, <1>6, <1>7 DEF ConsentsGiven, Given

\* A restored client has only grants and entries of the one that exported.
LEMMA RestartConsents ==
    ASSUME WellFormed, ConsentsGiven, AnswersCiteConsent, Restart
    PROVE  ConsentsGiven' /\ AnswersCiteConsent'
<1>1. /\ UNCHANGED <<rule, config, approved>> /\ exporting' = {} /\ snapshot' = {}
      /\ eval' = [t \in Tasks |-> Idle] /\ response' = [t \in Tasks |-> << >>]
  BY RestartEffect
<1>2. \A k, b : Consented(k, b)' <=> Consented(k, b)
  BY <1>1 DEF Consented
<1>3. Given(grants') /\ EntriesCite(log')
  <2>1. CASE [grants |-> grants', entries |-> log'] \in snapshot
    <3> DEFINE state == [grants |-> grants', entries |-> log']
    <3>1. Given(state.grants) /\ EntriesCite(state.entries)
      BY <2>1 DEF ConsentsGiven
    <3> QED
      BY <3>1
  <2>2. CASE grants' = NoGrants /\ log' = << >>
    BY <2>2, FreshClient DEF Given, EntriesCite
  <2> QED
    BY <2>1, <2>2, RestartEffect
<1>4. Given(grants)' /\ EntriesCite(log)'
  BY <1>1, <1>2, <1>3 DEF Given, EntriesCite
<1>5. \A u \in Tasks : Consenting(u)' /\ AnswersCite(u)'
  BY <1>1, FreshClient DEF Consenting, AnswersCite
<1>6. AnswersCiteConsent'
  BY <1>4, <1>5 DEF AnswersCiteConsent, AnswersCite, EntriesCite
<1> QED
  BY <1>1, <1>4, <1>5, <1>6 DEF ConsentsGiven

\* Every step keeps every answer and entry citing a consent.
LEMMA ConsentsStep ==
    ASSUME WellFormed, ConsentsGiven, AnswersCiteConsent, [Next]_vars
    PROVE  ConsentsGiven' /\ AnswersCiteConsent'
<1>1. CASE UNCHANGED vars
  <2>1. /\ UNCHANGED <<rule, config, grants, approved, eval>>
        /\ UNCHANGED <<response, log, exporting, snapshot>>
    BY <1>1 DEF vars, evaluationVars, responseVars, stateVars
  <2>2. Given(grants)'
    BY <2>1 DEF ConsentsGiven, Given
  <2>3. ConsentsGiven'
    BY <2>1, <2>2, CarriedOver
  <2>4. \A k, b : Consented(k, b)' <=> Consented(k, b)
    BY <2>1 DEF Consented
  <2> QED
    BY <2>1, <2>3, <2>4 DEF AnswersCiteConsent
<1> QED
  BY <1>1, EvaluatesConsents, RecordConsents, AddConsents, FinishConsents,
     CallsStoreConsents, ExportsConsents, RestartConsents DEF Next

\* Answers and audit entries, restored ones included, cite a consent that was given.
THEOREM AnswersConsented == Spec => []AnswersCiteConsent
<1>1. Init => ConsentsGiven /\ AnswersCiteConsent
  BY FreshClient DEF Init, EvaluationInit, ConsentsGiven, AnswersCiteConsent, Given, Consenting
<1> QED
  BY <1>1, InitWellFormed, WellFormedStep, ConsentsStep, PTL DEF Spec

-----------------------------------------------------------------------------
(* Refusals: the reason is settled with the principal's answer, and the     *)
(* places of a limit that are all taken stay so while the client lives.     *)

RefusalsTrue(t) ==
    \A i \in DOMAIN response[t] :
        LET e == response[t][i]
            f == e.key.field
        IN  e.kind = "refuse" =>
                /\ e.attribute = "user-denied" <=> e.answer = "no"
                /\ e.attribute = "policy-violation" =>
                      used[f][e.key.origin] = rule[f].limit
                /\ e.attribute = "constraint-violation" =>
                      IF rule[f].requires = "authentication" THEN ~config.auth
                      ELSE ~config.handler
                /\ e.answer = "yes" => e.attribute \in {"trust-insufficient",
                                                        "unsupported-field"}

\* RefusalsAreTruthful speaks of each task's refusals.
LEMMA RefusalsTogether == RefusalsAreTruthful <=> \A t \in Tasks : RefusalsTrue(t)
BY DEF RefusalsAreTruthful, RefusalsTrue

\* Places that are all taken stay taken.
StaysFull ==
    \A f \in Fields, o \in Origins :
        used[f][o] = rule[f].limit => used'[f][o] = rule[f].limit

\* The refusals of a task that adds none stay true,
LEMMA RefusalsStay ==
    ASSUME WellFormed, UNCHANGED <<rule, config>>, StaysFull,
           NEW t \in Tasks, response'[t] = response[t], RefusalsTrue(t)
    PROVE  RefusalsTrue(t)'
<1> SUFFICES ASSUME NEW i \in DOMAIN response[t], response[t][i].kind = "refuse"
             PROVE  LET e == response[t][i]
                        f == e.key.field
                    IN  /\ e.attribute = "user-denied" <=> e.answer = "no"
                        /\ e.attribute = "policy-violation" =>
                              used'[f][e.key.origin] = rule[f].limit
                        /\ e.attribute = "constraint-violation" =>
                              IF rule[f].requires = "authentication" THEN ~config.auth
                              ELSE ~config.handler
                        /\ e.answer = "yes" => e.attribute \in {"trust-insufficient",
                                                                "unsupported-field"}
  BY DEF RefusalsTrue
<1>1. response[t][i].key.field \in Fields /\ response[t][i].key.origin \in Origins
  <2>1. response[t] \in Seq(Outcome)
    BY DEF WellFormed, Typed
  <2>2. response[t][i] \in Outcome
    BY <2>1
  <2> QED
    BY <2>2 DEF Outcome, Key
<1> QED
  BY <1>1 DEF RefusalsTrue, StaysFull

\* and an evaluation that does not move keeps its reason.
LEMMA ReasonedStays ==
    ASSUME WellFormed, UNCHANGED <<rule, config>>, StaysFull,
           NEW t \in Tasks, eval'[t] = eval[t], Reasoned(t)
    PROVE  Reasoned(t)'
<1>1. eval[t].at # "idle" => eval[t].key.field \in Fields /\ eval[t].key.origin \in Origins
  BY DEF WellFormed, Keyed, Key
<1> QED
  BY <1>1 DEF Reasoned, StaysFull

\* Taking a place never unfills a limit, for a full one gives none.
LEMMA FullAfterBegin ==
    ASSUME WellFormed, NEW t \in Tasks, Begin(t)
    PROVE  StaysFull
<1>1. PICK f \in Fields, o \in Origins :
        used' = IF rule[f].limit # Absent /\ UnderLimit(f, o)
                THEN [used EXCEPT ![f][o] = @ + 1] ELSE used
  BY DEF Begin
<1>2. used \in [Fields -> [Origins -> Nat]] /\ rule \in [Fields -> Rule]
  BY DEF WellFormed, Typed, EvaluationTypeOK
<1>3. CASE used' = used
  BY <1>3 DEF StaysFull
<1>4. CASE /\ rule[f].limit # Absent /\ used[f][o] < rule[f].limit
           /\ used' = [used EXCEPT ![f][o] = @ + 1]
  <2> SUFFICES ASSUME NEW g \in Fields, NEW h \in Origins, used[g][h] = rule[g].limit
               PROVE  used'[g][h] = rule[g].limit
    BY DEF StaysFull
  <2>1. ~(g = f /\ h = o)
    BY <1>2, <1>4 DEF Rule
  <2> QED
    BY <1>2, <1>4, <2>1
<1> QED
  BY <1>1, <1>3, <1>4 DEF UnderLimit

\* Each step of an evaluation keeps its reason and its answer in agreement.
LEMMA ReasonedStep ==
    ASSUME WellFormed, NEW t \in Tasks, Reasoned(t), Evaluate(t)
    PROVE  Reasoned(t)'
<1>0. Absent \notin {"yes", "no"}
  BY AbsentAssumption
<1>1. CASE Begin(t)
  <2>1. Begins(t) /\ UNCHANGED <<rule, config>>
    BY <1>1, BeginEffect DEF Begin
  <2>2. PICK f \in Fields, o \in Origins :
          /\ eval'[t].key = [field |-> f, origin |-> o, scope |-> rule[f].scope]
          /\ eval'[t].answer = Absent
          /\ \/ Moves(t, "idle", "consent")
             \/ /\ ~UnderLimit(f, o) /\ Moves(t, "idle", "denied")
                /\ eval'[t].reason = "rate-limited" /\ used' = used
    BY <2>1 DEF Begins
  <2>3. CASE Moves(t, "idle", "consent")
    BY <1>0, <2>2, <2>3 DEF Moves, Reasoned
  <2>4. CASE /\ ~UnderLimit(f, o) /\ Moves(t, "idle", "denied")
             /\ eval'[t].reason = "rate-limited" /\ used' = used
    <3>1. used[f][o] = rule[f].limit
      <4>1. /\ rule[f].limit \in Nat /\ used[f][o] \in Nat
            /\ used[f][o] <= rule[f].limit /\ ~(used[f][o] < rule[f].limit)
        BY <2>4 DEF UnderLimit, WellFormed, Typed, EvaluationTypeOK, Rule
      <4> QED
        BY <4>1
    <3>2. eval'[t].key.field = f /\ eval'[t].key.origin = o /\ eval'[t].at = "denied"
      BY <2>2, <2>4 DEF Moves
    <3> QED
      BY <1>0, <2>1, <2>2, <2>4, <3>1, <3>2 DEF Reasoned, Reasons
  <2> QED
    BY <2>2, <2>3, <2>4
<1>2. CASE CheckConsent(t)
  <2>1. Considers(t) /\ UNCHANGED <<rule, config, used>> /\ eval[t].answer = Absent
    BY <1>2, CheckEffect DEF CheckConsent, Reasoned
  <2>2. CASE Passes(t) \/ Asks(t)
    BY <1>0, <2>1, <2>2 DEF Passes, Asks, GoesOn, Moves, Reasoned
  <2>3. CASE CannotAsk(t)
    <3>1. /\ eval'[t].at = "denied" /\ eval'[t].key = eval[t].key
          /\ eval'[t].answer = Absent /\ eval'[t].reason = "constraint-violation"
          /\ IF rule[eval[t].key.field].requires = "authentication" THEN ~config.auth
             ELSE ~config.handler
      BY <2>1, <2>3 DEF CannotAsk, GoesOn, Moves, RuleFor
    <3> QED
      BY <1>0, <2>1, <3>1 DEF Reasoned, Reasons
  <2> QED
    BY <2>1, <2>2, <2>3 DEF Considers
<1>3. CASE AnswerYes(t)
  BY <1>3, YesEffect DEF GoesOn, Moves, Reasoned
<1>4. CASE AnswerNo(t)
  <2>1. /\ eval'[t].at = "denied" /\ eval'[t].reason = "user-denied"
        /\ eval'[t].answer = "no"
    BY <1>4, NoEffect DEF GoesOn, Moves
  <2> QED
    BY <2>1 DEF Reasoned, Reasons
<1>5. CASE StoreGrant(t)
  <2>1. eval[t].answer = "yes"
    BY <1>5 DEF StoreGrant, Reasoned
  <2> QED
    BY <1>5, <2>1, StoreEffect DEF GoesOn, Moves, Reasoned
<1>6. CASE Refuse(t)
  <2>1. eval[t].answer # "no"
    BY <1>6 DEF Refuse, Reasoned
  <2>2. /\ eval'[t].at = "denied" /\ eval'[t].answer # "no"
        /\ eval'[t].reason \in {"trust-insufficient", "unsupported-field"}
    BY <1>6, <2>1, RefuseEffect DEF GoesOn, Moves
  <2> QED
    BY <2>2 DEF Reasoned, Reasons
<1>7. CASE Allow(t)
  <2>1. eval[t].answer # "no"
    BY <1>7 DEF Allow, Reasoned
  <2> QED
    BY <1>7, <2>1, AllowEffect DEF GoesOn, Moves, Reasoned
<1> QED
  BY <1>1, <1>2, <1>3, <1>4, <1>5, <1>6, <1>7 DEF Evaluate

\* A refusal says why its evaluation was refused, in the words of the wire.
LEMMA AddReasons ==
    ASSUME WellFormed, NEW t \in Tasks, Reasoned(t), RefusalsTrue(t), AddElement(t)
    PROVE  Reasoned(t)' /\ RefusalsTrue(t)'
<1>1. /\ UNCHANGED <<rule, config, used>>
      /\ eval[t].at \in {"allowed", "recorded", "denied"} /\ Moves(t, eval[t].at, "idle")
      /\ response' = [response EXCEPT ![t] = Append(@, Element(t))]
  BY AddEffect DEF AddElement
<1>2. Element(t).kind = "refuse" =>
        /\ Element(t).key = eval[t].key /\ Element(t).answer = eval[t].answer
        /\ Element(t).attribute = RefuseReasonToAnml(eval[t].reason)
        /\ eval[t].at = "denied"
  BY <1>1 DEF Element
<1>3. eval[t].at = "denied" =>
        LET f == eval[t].key.field
            attribute == RefuseReasonToAnml(eval[t].reason)
        IN  /\ attribute = "user-denied" <=> eval[t].answer = "no"
            /\ attribute = "policy-violation" => used[f][eval[t].key.origin] = rule[f].limit
            /\ attribute = "constraint-violation" =>
                  IF rule[f].requires = "authentication" THEN ~config.auth
                  ELSE ~config.handler
            /\ eval[t].answer = "yes" => attribute \in {"trust-insufficient",
                                                        "unsupported-field"}
  BY DEF Reasoned, RefuseReasonToAnml, Reasons
<1> HIDE DEF Element
<1>4. response'[t] = Append(response[t], Element(t)) /\ response[t] \in Seq(Outcome)
  BY <1>1 DEF WellFormed, Typed
<1>5. \A i \in DOMAIN response'[t] :
        \/ i \in DOMAIN response[t] /\ response'[t][i] = response[t][i]
        \/ response'[t][i] = Element(t)
  BY <1>4, SMTT(60)
<1>6. RefusalsTrue(t)'
  BY <1>1, <1>2, <1>3, <1>5 DEF RefusalsTrue
<1>7. Reasoned(t)'
  BY <1>1 DEF Moves, Reasoned
<1> QED
  BY <1>6, <1>7

\* Every step keeps refusals true.
LEMMA ReasonsStep ==
    ASSUME WellFormed, ReasonsHold, RefusalsAreTruthful, [Next]_vars
    PROVE  ReasonsHold' /\ RefusalsAreTruthful'
<1>0. \A t \in Tasks : Reasoned(t) /\ RefusalsTrue(t)
  BY RefusalsTogether DEF ReasonsHold
<1> SUFFICES \A t \in Tasks : Reasoned(t)' /\ RefusalsTrue(t)'
  BY DEF ReasonsHold, RefusalsAreTruthful, RefusalsTrue
<1>1. ASSUME NEW t \in Tasks, Evaluates(t)
      PROVE  \A u \in Tasks : Reasoned(u)' /\ RefusalsTrue(u)'
  <2>1. Evaluate(t) /\ response' = response
    BY <1>1, SMTT(60) DEF Evaluates, responseVars
  <2>2. UNCHANGED <<rule, config>>
    BY <2>1 DEF Evaluate, Begin, CheckConsent, AnswerYes, AnswerNo, StoreGrant, Refuse, Allow
  <2>3. StaysFull
    <3>1. CASE Begin(t)
      BY <3>1, FullAfterBegin
    <3>2. CASE ~Begin(t)
      <4>1. used' = used
        BY <2>1, <3>2 DEF Evaluate, CheckConsent, AnswerYes, AnswerNo, StoreGrant, Refuse, Allow
      <4> QED
        BY <4>1 DEF StaysFull
    <3> QED
      BY <3>1, <3>2
  <2>4. \A u \in Tasks \ {t} : eval'[u] = eval[u]
    BY <2>1, BeginEffect, CheckEffect, YesEffect, NoEffect, StoreEffect, RefuseEffect, AllowEffect
       DEF Evaluate, Begins, Considers, Passes, Asks, CannotAsk, GoesOn, Moves
  <2>5. Reasoned(t)'
    BY <1>0, <2>1, ReasonedStep
  <2>6. \A u \in Tasks \ {t} : Reasoned(u)'
    BY <1>0, <2>2, <2>3, <2>4, ReasonedStays
  <2>7. \A u \in Tasks : RefusalsTrue(u)'
    BY <1>0, <2>1, <2>2, <2>3, RefusalsStay
  <2> QED
    BY <2>5, <2>6, <2>7
<1>2. ASSUME NEW t \in Tasks, Record(t) \/ AddElement(t) \/ Finish(t)
      PROVE  \A u \in Tasks : Reasoned(u)' /\ RefusalsTrue(u)'
  <2>1. UNCHANGED <<rule, config>> /\ StaysFull
    BY <1>2 DEF Record, AddElement, Finish, evaluationVars, StaysFull
  <2>2. \A u \in Tasks \ {t} : eval'[u] = eval[u] /\ response'[u] = response[u]
    BY <1>2, RecordEffect, AddEffect
       DEF Record, AddElement, Finish, evaluationVars, GoesOn, Moves, WellFormed, Typed
  <2>3. \A u \in Tasks \ {t} : Reasoned(u)' /\ RefusalsTrue(u)'
    BY <1>0, <2>1, <2>2, ReasonedStays, RefusalsStay
  <2>4. Reasoned(t)' /\ RefusalsTrue(t)'
    <3>1. CASE Record(t)
      <4>1. eval[t].answer # "no" /\ response' = response
        BY <1>0, <3>1 DEF Record, Reasoned
      <4>2. Reasoned(t)'
        BY <3>1, <4>1, RecordEffect DEF GoesOn, Moves, Reasoned
      <4> QED
        BY <1>0, <2>1, <4>1, <4>2, RefusalsStay
    <3>2. CASE AddElement(t)
      BY <1>0, <3>2, AddReasons
    <3>3. CASE Finish(t)
      <4>1. eval' = eval /\ response'[t] = << >>
        BY <3>3 DEF Finish, evaluationVars, WellFormed, Typed
      <4>2. RefusalsTrue(t)'
        BY <4>1 DEF RefusalsTrue
      <4> QED
        BY <1>0, <2>1, <4>1, <4>2, ReasonedStays
    <3> QED
      BY <1>2, <3>1, <3>2, <3>3
  <2> QED
    BY <2>3, <2>4
<1>3. CASE CallsStore \/ ExportGrants \/ ExportEntries \/ UNCHANGED vars
  <2>1. UNCHANGED <<rule, config, used, eval, response>>
    BY <1>3 DEF CallsStore, StoreCall, AppGrant, Revoke, ClearGrants, ExportGrants,
                ExportEntries, vars, evaluationVars, responseVars
  <2>2. StaysFull
    BY <2>1 DEF StaysFull
  <2> QED
    BY <1>0, <2>1, <2>2, ReasonedStays, RefusalsStay
<1>4. CASE Restart
  BY <1>4, RestartEffect, FreshClient DEF Reasoned, RefusalsTrue
<1> QED
  BY <1>1, <1>2, <1>3, <1>4 DEF Next

\* A refusal never misstates what stopped the disclosure, nor hides the principal's word.
THEOREM RefusalsHold == Spec => []RefusalsAreTruthful
<1>1. Init => ReasonsHold /\ RefusalsAreTruthful
  BY FreshClient DEF Init, EvaluationInit, ReasonsHold, Reasoned, RefusalsAreTruthful
<1> QED
  BY <1>1, InitWellFormed, WellFormedStep, ReasonsStep, PTL DEF Spec
=============================================================================
