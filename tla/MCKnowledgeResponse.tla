------------------------ MODULE MCKnowledgeResponse ------------------------
(***************************************************************************)
(* Instances of KnowledgeResponse for TLC: one field whose rule asks or    *)
(* looks up consent in each scope, or needs none, under every mix of       *)
(* handlers; one setup keeps an audit log.                                 *)
(***************************************************************************)
EXTENDS KnowledgeResponse, TLC

RuleOf(requires, scope, limit) ==
    [requires |-> requires, scope |-> scope, limit |-> limit, tokenize |-> limit = 1]

ConfigOf(full, logs) == [handler |-> full, auth |-> full, tokenizer |-> full, log |-> logs]

Setup(r, c) == [rule |-> [f \in Fields |-> r], config |-> c]

Bare == ConfigOf(FALSE, FALSE)
Full == ConfigOf(TRUE, FALSE)

SomeSetups ==
    {Setup(r, Bare) : r \in {RuleOf("implicit", "origin", 1), ExtractRule("unknown"),
                             RuleOf("authentication", "global", 1)}}
    \cup {Setup(r, Full) : r \in {RuleOf("implicit", "session", 1),
                                  RuleOf("explicit", "origin", 1), ExtractRule("explicit"),
                                  RuleOf("authentication", "global", 1),
                                  RuleOf("none", "global", 1)}}
    \cup {Setup(RuleOf("implicit", "origin", 1), ConfigOf(TRUE, TRUE))}

\* What the application grants itself: a global key, for one of the origins only.
SomeKeys == {<<k, "delegated">> : k \in {g \in Key : g.scope = "global" /\ g.origin = 1}}

TaskSymmetry == Permutations(Tasks)
=============================================================================
