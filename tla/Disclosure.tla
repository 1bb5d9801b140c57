----------------------------- MODULE Disclosure -----------------------------
(***************************************************************************)
(* The seven-step disclosure evaluation of src/src/disclosure/mod.rs, run  *)
(* by several tasks that share the client's consent store (consent.rs) and *)
(* rate limiter, with the application granting and revoking meanwhile.     *)
(* Module KnowledgeResponse has what the tasks evaluate for.               *)
(*                                                                         *)
(* evaluate is synchronous, but it takes the limiter's lock, the store's   *)
(* read lock and the store's write lock one after the other and calls the  *)
(* consent handler between the last two with none held: each is a step.    *)
(* The limiter is seen within one 24-hour window (module RateLimit has the *)
(* sliding window), as the number of entries it holds.                     *)
(***************************************************************************)
EXTENDS Integers, FiniteSets

CONSTANTS
    Tasks, Fields, Origins,
    Setups,        \* the documents' rules, and what a client is built with
    AppGrants,     \* what the application itself may grant: <<key, basis>>
    Absent         \* no grant, no limit, no key

Scopes == {"session", "origin", "global"}
Bases == {"explicit", "implicit", "delegated"}
Requirements == {"explicit", "implicit", "authentication", "none", "unknown"}
Reasons == {"rate-limited", "user-denied", "constraint-violation", "trust-insufficient",
            "unsupported-field"}

Rule == [requires : Requirements, scope : Scopes, limit : Nat \cup {Absent},
         tokenize : BOOLEAN]

\* Whether there is a consent handler, an auth provider, a tokenizer together with a
\* principal, and an audit log in memory.
Config == [handler : BOOLEAN, auth : BOOLEAN, tokenizer : BOOLEAN, log : BOOLEAN]

Key == [field : Fields, origin : Origins, scope : Scopes]

ASSUME SetupsAssumption == Setups \subseteq [rule : [Fields -> Rule], config : Config]
ASSUME AppGrantsAssumption == AppGrants \subseteq Key \X Bases
ASSUME AbsentAssumption ==
    Absent \notin Nat \cup Bases \cup Reasons \cup Key \cup {"yes", "no", "policy-violation"}
ASSUME TasksAssumption == IsFiniteSet(Tasks)

VARIABLES
    rule,      \* the disclosure rule resolved for each field
    config,
    grants,    \* the consent store
    used,      \* the rate limiter: entries per (field, origin)
    eval,      \* per task, where its evaluation is
    approved,  \* history: what the principal, or the application, has granted
    unspent,   \* history: per key, the yeses given whose grant has not ended yet
    allows     \* history: Allow decisions of this client under a rate limit

evaluationVars == <<rule, config, grants, used, eval, approved, unspent, allows>>

-----------------------------------------------------------------------------
(* The consent store.                                                       *)

\* The keys a check consults: the exact one, else, for origin and global scope,
\* any global grant of the field, whichever the map yields first.
Covering(k) ==
    {k} \cup {g \in Key : /\ k.scope \in {"origin", "global"}
                          /\ g.field = k.field /\ g.scope = "global"}

\* ConsentStore::check: the bases it may return.
Check(k) ==
    IF grants[k] # Absent THEN {grants[k]}
    ELSE {grants[g] : g \in Covering(k)} \ {Absent}

\* ConsentStore::revoke removes the one entry with this very key.
FaultyWithout(k) == [grants EXCEPT ![[k EXCEPT !.scope = "session"]] = Absent]
Without(k) == [grants EXCEPT ![k] = Absent]

NoGrants == [k \in Key |-> Absent]

\* History: the grants in force among the keys K come to their end, removed or
\* replaced, and each uses up the yes it stood for.
Ended(K) ==
    [k \in Key |-> IF k \in K /\ grants[k] # Absent THEN unspent[k] - 1 ELSE unspent[k]]

-----------------------------------------------------------------------------
\* `answer` is history: what the principal said to this evaluation.
Idle == [at |-> "idle", key |-> Absent, basis |-> Absent, reason |-> Absent,
         answer |-> Absent]

NothingUsed == [f \in Fields |-> [o \in Origins |-> 0]]

EvaluationInit ==
    /\ \E setup \in Setups : rule = setup.rule /\ config = setup.config
    /\ grants = NoGrants
    /\ used = NothingUsed
    /\ eval = [t \in Tasks |-> Idle]
    /\ approved = {}
    /\ unspent = [k \in Key |-> 0]
    /\ allows = NothingUsed

RuleFor(t) == rule[eval[t].key.field]
Go(t, at) == eval' = [eval EXCEPT ![t].at = at]
Pass(t, basis) == eval' = [eval EXCEPT ![t].at = "trust", ![t].basis = basis]
Deny(t, reason) == eval' = [eval EXCEPT ![t].at = "denied", ![t].reason = reason]

\* Steps 1 and 2: resolve the rule, then check_and_record.
FaultyUnderLimit(f, o) == rule[f].limit # Absent => used[f][o] <= rule[f].limit

UnderLimit(f, o) == rule[f].limit # Absent => used[f][o] < rule[f].limit

Begin(t) ==
    /\ eval[t].at = "idle"
    /\ \E f \in Fields, o \in Origins :
        /\ eval' = [eval EXCEPT ![t] =
                        [Idle EXCEPT !.key = [field |-> f, origin |-> o,
                                              scope |-> rule[f].scope],
                                     !.at = IF UnderLimit(f, o) THEN "consent"
                                            ELSE "denied",
                                     !.reason = IF UnderLimit(f, o) THEN Absent
                                                ELSE "rate-limited"]]
        /\ used' = IF rule[f].limit # Absent /\ UnderLimit(f, o)
                   THEN [used EXCEPT ![f][o] = @ + 1] ELSE used
    /\ UNCHANGED <<rule, config, grants, approved, unspent, allows>>

\* Step 3, check_consent, up to the handler.
AskOrDeny(t) == IF config.handler THEN Go(t, "asking") ELSE Deny(t, "constraint-violation")

CheckConsent(t) ==
    /\ eval[t].at = "consent"
    /\ \/ RuleFor(t).requires \in {"explicit", "unknown"} /\ AskOrDeny(t)
       \/ /\ RuleFor(t).requires = "implicit"
          /\ \/ \E basis \in Check(eval[t].key) : Pass(t, basis)
             \/ Check(eval[t].key) = {} /\ AskOrDeny(t)
       \/ /\ RuleFor(t).requires = "authentication"
          /\ IF config.auth THEN Pass(t, "delegated") ELSE Deny(t, "constraint-violation")
       \/ RuleFor(t).requires = "none" /\ Pass(t, "implicit")
    /\ UNCHANGED <<rule, config, grants, used, approved, unspent, allows>>

\* What a yes is recorded as.
BasisOfGrant(t) == IF RuleFor(t).requires = "implicit" THEN "implicit" ELSE "explicit"

\* The principal answers the ConsentHandler.
AnswerYes(t) ==
    /\ eval[t].at = "asking"
    /\ eval' = [eval EXCEPT ![t].at = "granting", ![t].answer = "yes"]
    /\ approved' = approved \cup {<<eval[t].key, BasisOfGrant(t)>>}
    /\ unspent' = [unspent EXCEPT ![eval[t].key] = @ + 1]
    /\ UNCHANGED <<rule, config, grants, used, allows>>

AnswerNo(t) ==
    /\ eval[t].at = "asking"
    /\ eval' = [eval EXCEPT ![t].at = "denied", ![t].reason = "user-denied",
                            ![t].answer = "no"]
    /\ UNCHANGED <<rule, config, grants, used, approved, unspent, allows>>

\* ConsentStore::grant, after the handler's yes.
StoreGrant(t) ==
    /\ eval[t].at = "granting"
    /\ grants' = [grants EXCEPT ![eval[t].key] = BasisOfGrant(t)]
    /\ Pass(t, BasisOfGrant(t))
    /\ unspent' = Ended({eval[t].key})
    /\ UNCHANGED <<rule, config, used, approved, allows>>

\* Step 4, the trust policy, and step 5, the value against the ask's type.
FaultyRefuse(t) ==
    /\ eval[t].at = "trust"
    /\ Deny(t, "user-denied")
    /\ UNCHANGED <<rule, config, grants, used, approved, unspent, allows>>

Refuse(t) ==
    /\ eval[t].at = "trust"
    /\ Deny(t, "trust-insufficient") \/ Deny(t, "unsupported-field")
    /\ UNCHANGED <<rule, config, grants, used, approved, unspent, allows>>

\* Steps 6 and 7: the value is allowed, as a token or as it is.
Disclosed(f) == IF rule[f].tokenize /\ config.tokenizer THEN "token" ELSE "value"

Allow(t) ==
    LET k == eval[t].key
    IN  /\ eval[t].at = "trust"
        /\ Go(t, "allowed")
        /\ allows' = IF RuleFor(t).limit # Absent
                     THEN [allows EXCEPT ![k.field][k.origin] = @ + 1] ELSE allows
        /\ UNCHANGED <<rule, config, grants, used, approved, unspent>>

Evaluate(t) ==
    \/ Begin(t) \/ CheckConsent(t) \/ AnswerYes(t) \/ AnswerNo(t)
    \/ StoreGrant(t) \/ Refuse(t) \/ Allow(t)

-----------------------------------------------------------------------------
(* The application's own calls on the store.                                *)

AppGrant ==
    /\ \E g \in AppGrants :
        /\ grants' = [grants EXCEPT ![g[1]] = g[2]]
        /\ approved' = approved \cup {g}
        /\ unspent' = [Ended({g[1]}) EXCEPT ![g[1]] = @ + 1]
    /\ UNCHANGED <<rule, config, used, eval, allows>>

Revoke ==
    /\ \E k \in {g \in Key : grants[g] # Absent} :
        /\ grants' = Without(k)
        /\ unspent' = Ended({k})
    /\ UNCHANGED <<rule, config, used, eval, approved, allows>>

ClearGrants ==
    /\ grants' = NoGrants
    /\ unspent' = Ended(Key)
    /\ UNCHANGED <<rule, config, used, eval, approved, allows>>

StoreCall == AppGrant \/ Revoke \/ ClearGrants

-----------------------------------------------------------------------------
(* Properties.                                                              *)

\* The variables hold values of the shapes the code's fields can hold, and the
\* limiter never holds more entries than the field's limit.
EvaluationTypeOK ==
    /\ rule \in [Fields -> Rule] /\ config \in Config
    /\ grants \in [Key -> Bases \cup {Absent}]
    /\ used \in [Fields -> [Origins -> Nat]]
    /\ \A f \in Fields, o \in Origins :
        used[f][o] <= IF rule[f].limit = Absent THEN 0 ELSE rule[f].limit
    /\ eval \in [Tasks -> [at : {"idle", "consent", "asking", "granting", "trust",
                                 "allowed", "recorded", "denied"},
                           key : Key \cup {Absent}, basis : Bases \cup {Absent},
                           reason : Reasons \cup {Absent}, answer : {"yes", "no", Absent}]]
    /\ approved \subseteq Key \X Bases /\ unspent \in [Key -> Int]
    /\ allows \in [Fields -> [Origins -> Nat]]

\* Concurrent evaluations of one client never allow a field more often than its
\* rate limit: a place is taken before consent is asked for, not checked before and
\* taken after.
AllowsWithinQuota ==
    \A f \in Fields, o \in Origins :
        rule[f].limit # Absent => allows[f][o] <= rule[f].limit

\* The evaluations with a yes to this key that is on its way to the store.
Granting(k) == {t \in Tasks : eval[t].at = "granting" /\ eval[t].key = k}

\* A field is disclosed unasked only where somebody's yes covers it, to the very key or
\* to a global one, that has reached the store and that nothing has ended since: no
\* revocation, no clear, no grant in its place.  Nobody's yes counts twice: what was
\* revoked stays revoked, through any interleaving of handlers that answer late, except
\* that a yes which reaches the store after the revocation undoes it, once; and the
\* revocation of one key leaves the yes to another in force, global ones included.  A
\* restored snapshot counts as a yes to each of the grants it holds.
UnaskedRestsOnConsent ==
    [][\A t \in Tasks :
        eval[t].at = "consent" /\ eval'[t].at = "trust" /\ RuleFor(t).requires = "implicit"
          => \E g \in Key :
                /\ \/ g = eval[t].key
                   \/ /\ g.field = eval[t].key.field /\ g.scope = "global"
                      /\ eval[t].key.scope # "session"
                /\ unspent[g] > Cardinality(Granting(g))]_evaluationVars
=============================================================================
