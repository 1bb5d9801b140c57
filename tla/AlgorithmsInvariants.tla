------------------------ MODULE AlgorithmsInvariants ------------------------
(***************************************************************************)
(* What the proofs of AlgorithmsProofs say of the functions that           *)
(* Algorithms calls: the unfoldings of their folds, the invariants of      *)
(* their loops, and the relations between what goes in and what comes out. *)
(***************************************************************************)
EXTENDS Algorithms

-----------------------------------------------------------------------------
(* What a call returned is what its function computes.                      *)

Answered ==
    /\ call \in Calls
    /\ Returned("rule") => result = ResolveRule(call.field, call.rules)
    /\ Returned("request") => result = Request(call.actions, call.id, call.calls)
    /\ Returned("endpoint") => result = Direct(call.endpoint)
    /\ Returned("fetch") => result = Attempt(call.exchange)
    /\ Returned("value") => result = ValidateValue(call.doc, call.field, call.text)
    /\ Returned("media") =>
          result = IF call.integrity = {}
                   THEN EnforceInferenceIntegrity(call.inference, {})
                   ELSE VerifyIntegrity(call.bytes, Only(call.integrity))
    /\ Returned("client") =>
          LET client == Client(call.calls)
          IN  result = [client |-> client,
                        trusted |-> TrustEvaluate(client.settings.trust_policy, call.origin)]

-----------------------------------------------------------------------------
(* Least and largest elements.                                              *)

LessThan == {p \in Nat \X Nat : p[1] < p[2]}

-----------------------------------------------------------------------------
(* The endpoint of an action.                                               *)

SameBits(ip, net, n) == \A k \in 1..n : Bit(ip, k) = Bit(net, k)

Loopback6 == Append(Zeros(15), 1)

UniqueLocal6 == <<252>> \o Zeros(15)

\* An address lies in a listed network iff it agrees with it in its leading bits.
InNetwork(ip, address, bits) == Len(address) = Len(ip) /\ SameBits(ip, address, bits)

-----------------------------------------------------------------------------
(* One attempt of a fetch.                                                  *)

\* Sequences of at most one element each, the elements of an onion in their order, of
\* which the first i sequences have made[i].
Layered(m, seqs, onion, made) ==
    /\ Len(seqs) = m
    /\ made \in [0..m -> 0..Len(onion)] /\ made[0] = 0
    /\ \A i \in 1..m :
          \/ made[i] = made[i - 1] /\ seqs[i] = << >>
          \/ made[i] = made[i - 1] + 1 /\ seqs[i] = <<onion[made[i]]>>

\* A sequence, of whatever elements.
IsSequence(s) == \E S : s \in Seq(S)

\* Where in an attempt each stage stands.
StagesInPlace(x, n) ==
    /\ n \in Nat /\ IsSequence(Stages(x)) /\ Len(Stages(x)) = 2 * n + 14
    /\ Stages(x)[1] = SchemeStage(x)[1]
    /\ \A i \in 1..n : Stages(x)[1 + i] = RequestStages(x)[i]
    /\ \A k \in 1..4 : Stages(x)[n + 1 + k] = ExchangeStages(x)[k]
    /\ Stages(x)[n + 6] = ContentTypeStage(x)[1]
    /\ \A i \in 1..n : Stages(x)[n + 6 + i] = ResponseStages(x)[i]
    /\ \A k \in 1..4 : Stages(x)[2 * n + 6 + k] = BodyStages(x)[k]
    /\ \A k \in 1..2 : Stages(x)[2 * n + 10 + k] = HttpStages(x)[k]
    /\ \A k \in 1..2 : Stages(x)[2 * n + 12 + k] = MetaStages(x)[k]

\* How a check ends, at stage i, of which only an error in passing is one to retry.
Asks(x, i, holds, error, cause) ==
    /\ Stages(x)[i].calls = << >>
    /\ holds => Stages(x)[i].result = Fine
    /\ ~holds => Stages(x)[i].result = Err(error, cause) /\ Stages(x)[i].result # Fine

ChecksAsk(x, n) ==
    /\ Asks(x, 1,
             x.scheme = "https" \/ x.allow_plaintext_http,
             "TransportInsecure", "scheme")
    /\ Asks(x, n + 2, x.answer # "timeout", "Timeout", "per_request")
    /\ Asks(x, n + 3, x.answer # "refused", "Http", "connect")
    /\ Asks(x, n + 4, x.status # "406", "UnsupportedVersion", "406")
    /\ Asks(x, n + 5, x.status \notin ServerErrors \cup ClientErrors, "Http", x.status)
    /\ Asks(x, n + 6, x.anml_content_type, "ContentTypeMismatch", "type")
    /\ Asks(x, 2 * n + 7, x.body.arrives, "Http", "timeout")
    /\ Asks(x, 2 * n + 8,
             x.body.size <= MaxDocumentSize(x),
             "ResourceLimitExceeded", "max_document_size")
    /\ Asks(x, 2 * n + 9, x.body.utf8, "MalformedDocument", "utf8")
    /\ Asks(x, 2 * n + 10, x.body.parses, "Parse", "anml")
    /\ Asks(x, 2 * n + 11,
             (x.scheme = "http" => ~x.body.doc.constraints),
             "TransportInsecure", "constraints")
    /\ Asks(x, 2 * n + 12,
             (x.scheme = "http" => ~x.body.doc.interact),
             "TransportInsecure", "interact")
    /\ Asks(x, 2 * n + 13,
             (\A meta \in ToSet(x.body.doc.metas) : meta.name # "requires-ext"),
             "UnsupportedExtension", "requires-ext")
    /\ Asks(x, 2 * n + 14,
             (\A meta \in ToSet(x.body.doc.metas) :
                 meta.name = "profile" => meta.value \in SupportedProfiles),
             "UnsupportedProfile", "profile")

\* An attempt ends with the first stage that fails, or with the last one.
EndsAt(x, m, last) ==
    /\ last \in 1..m
    /\ \A i \in 1..(last - 1) : Stages(x)[i].result = Fine
    /\ Stages(x)[last].result = Fine => last = m
    /\ Attempt(x).result = Stages(x)[last].result
    /\ Attempt(x).calls = FlattenSeq([i \in 1..last |-> Stages(x)[i].calls])

\* How many calls the first i stages make.
Made(n, i) ==
    IF i <= 1 THEN 0
    ELSE IF i <= n + 1 THEN i - 1
    ELSE IF i <= n + 6 THEN n
    ELSE IF i <= 2 * n + 6 THEN i - 6
    ELSE 2 * n

-----------------------------------------------------------------------------
(* The trust policy.                                                        *)

\* At most one port.
OptionalPort == {{}} \cup {{port} : port \in Nat}

\* URLs as a policy may be given: those that parse are of the web.
WebUrls(urls) ==
    \A i \in DOMAIN urls :
        urls[i].parses => urls[i].scheme \in WebSchemes /\ NamesOnePort(urls[i])

-----------------------------------------------------------------------------
(* A fold over a list.                                                      *)

\* What resolve_rule's loop over the rules of a kind makes of one of them.
KindMatches(kind, f, r) ==
    r.kind = kind /\ (IF kind = "prefix" THEN MatchesPrefix(f, r.text)
                      ELSE MatchesPattern(f, r.text))

KindBeats(kind, r, best) ==
    IF kind = "prefix" THEN PrefixBeats(r, best) ELSE PatternBeats(r, best)

Considered(kind, f, best, r) ==
    IF KindMatches(kind, f, r) /\ KindBeats(kind, r, best) THEN r ELSE best

\* A fold is the client builder's over its calls, the rule matcher's over the rules of a
\* kind, the sum of a text's bytes, the request builder's over its calls, the collection
\* of an action's parameters, or a validation's over a definition's checks or over the
\* definitions.
Start(how) ==
    CASE how.fold = "builder" -> NewBuilder
      [] how.fold = "rules" -> None
      [] how.fold = "bytes" -> 0
      [] how.fold = "request" -> NewRequest(how.actions, how.id)
      [] how.fold = "collect" -> << >>
      [] how.fold = "checks" -> "ok"
      [] how.fold = "validate" -> [param |-> "", constraint |-> "ok"]
      [] how.fold = "number" -> 0
      [] how.fold \in {"text", "pairs", "parts", "values", "members"} -> << >>

Stepped(how, prior, item) ==
    CASE how.fold = "builder" -> Configured(prior, item)
      [] how.fold = "rules" -> Considered(how.kind, how.field, prior, item)
      [] how.fold = "bytes" -> prior + Width(item)
      [] how.fold = "request" -> Continued(prior, item)
      [] how.fold = "collect" -> Collected(how.user, prior, item)
      [] how.fold = "checks" -> FirstFailed(prior, item)
      [] how.fold = "validate" -> Validated(how.params, prior, item)
      [] how.fold = "number" -> 10 * prior + Digit[item]
      [] how.fold = "text" -> prior \o Bytes(item)
      [] how.fold = "pairs" -> Joined(prior, item)
      [] how.fold = "parts" -> Parted(prior, item)
      [] how.fold = "values" -> Gathers(how.name, prior, item)
      [] how.fold = "members" -> Emitted(how.params, prior, item)

Unfolding(how, f, items, S) ==
    IF S = {} THEN Start(how) ELSE Stepped(how, f[S \ {Max(S)}], items[Max(S)])

IsUnfolding(how, f, items, n) == f = [S \in SUBSET (1..n) |-> Unfolding(how, f, items, S)]

\* What the fold has made after each item.
Folded(how, items, n, stage) ==
    /\ stage[0] = Start(how)
    /\ \A k \in 0..(n - 1) : stage[k + 1] = Stepped(how, stage[k], items[k + 1])

\* The fold is the last of the builders its calls make one after the other.
BuiltBy(built, calls) ==
    /\ built[0] = NewBuilder
    /\ \A k \in 0..(Len(calls) - 1) : built[k + 1] = Configured(built[k], calls[k + 1])

-----------------------------------------------------------------------------
(* What a builder holds after each of its calls.                            *)

\* The last of the first k calls to be one of these setters, or 0.
Latest(calls, k, ops) ==
    LET told == {i \in 1..k : calls[i].op \in ops} IN IF told = {} THEN 0 ELSE Max(told)

\* The list holds the values of the first k calls of this setter, in their order.
Enumerates(at, list, calls, k, op) ==
    /\ at \in [DOMAIN list -> 1..k]
    /\ \A i, j \in DOMAIN list : i < j => at[i] < at[j]
    /\ \A i \in DOMAIN list : calls[at[i]].op = op /\ list[i] = calls[at[i]].value
    /\ \A i \in 1..k : calls[i].op = op => \E j \in DOMAIN list : at[j] = i

Listed(list, calls, k, op) ==
    IsSequence(list) /\ \E at : Enumerates(at, list, calls, k, op)

Lists == {"default_headers", "middleware"}

Setters == DOMAIN Defaults \cup {"timeout"} \cup Lists

IsBuilder(b) ==
    /\ b = [settings |-> b.settings, default_headers |-> b.default_headers,
            middleware |-> b.middleware]
    /\ b.settings = [s \in DOMAIN Defaults |-> b.settings[s]]

\* Setters as they may be called.
SetterCalls(calls) ==
    /\ IsList(calls)
    /\ \A i \in DOMAIN calls :
          /\ calls[i].op \in Setters
          /\ calls[i].op = "timeouts" => calls[i].value \in [DOMAIN DefaultTimeouts -> Nat]

Told(calls, k, s) ==
    LET i == Latest(calls, k, {s}) IN IF i = 0 THEN {} ELSE {calls[i].value}

TimedAsTold(t, calls, k) ==
    LET all == Latest(calls, k, {"timeouts"})
        any == Latest(calls, k, {"timeout", "timeouts"})
    IN  /\ t = [x \in DOMAIN DefaultTimeouts |-> t[x]]
        /\ \A x \in DOMAIN DefaultTimeouts \ {"per_request"} :
              t[x] = IF all = 0 THEN DefaultTimeouts[x] ELSE calls[all].value[x]
        /\ t.per_request = IF any = 0 THEN DefaultTimeouts.per_request
                           ELSE IF calls[any].op = "timeout" THEN calls[any].value
                           ELSE calls[any].value.per_request

\* A builder is what its first k calls said.
AsTold(b, calls, k) ==
    /\ IsBuilder(b)
    /\ \A s \in DOMAIN Defaults \ {"timeouts"} : b.settings[s] = Told(calls, k, s)
    /\ TimedAsTold(Setting(b, "timeouts"), calls, k)
    /\ Listed(b.default_headers, calls, k, "default_headers")
    /\ Listed(b.middleware, calls, k, "middleware")

-----------------------------------------------------------------------------
(* What the client is built with.                                           *)

\* Calls as a client may be built by.
ClientCalls(calls) ==
    /\ SetterCalls(calls)
    /\ \A i \in DOMAIN calls :
          /\ calls[i].op = "resource_limits" => calls[i].value \in [DOMAIN DefaultLimits -> Nat]
          /\ calls[i].op = "trust_policy" => WebUrls(calls[i].value)

-----------------------------------------------------------------------------
(* A pattern matches what can be cut for its tokens.                        *)

Kinds == {"literal", "question", "star", "doublestar"}

\* Token i may stand for the input after a up to b.
Piece(tokens, input, i, a, b) == a <= b /\ Fits(tokens[i], SubSeq(input, a + 1, b))

\* The input after ii can be cut into segments that the tokens after ti stand for.
Cuts(tokens, input, ti, ii) ==
    \E at \in [ti..Len(tokens) -> 0..Len(input)] :
        /\ at[ti] = ii /\ at[Len(tokens)] = Len(input)
        /\ \A i \in (ti + 1)..Len(tokens) : Piece(tokens, input, i, at[i - 1], at[i])

Single(s, ch) == s = <<ch>>

\* What one token may stand for, by its kind.
StandsFor(t, input, a, b) ==
    CASE t.kind = "literal" -> a < Len(input) /\ b = a + 1 /\ input[a + 1] = t.ch
      [] t.kind = "question" -> a < Len(input) /\ b = a + 1 /\ input[a + 1] # "."
      [] t.kind = "star" -> b \in a..Len(input) /\ \A m \in (a + 1)..b : input[m] # "."
      [] t.kind = "doublestar" -> b \in a..Len(input)

\* The positions from which the tokens after ti match the input.
Ends(tokens, input, ti) == {ii \in 0..Len(input) : Cuts(tokens, input, ti, ii)}

\* The equation of the matcher at ti < Len(tokens).
Before(t, input, rest) ==
    {ii \in 0..Len(input) :
        CASE t.kind = "literal" ->
                ii < Len(input) /\ input[ii + 1] = t.ch /\ ii + 1 \in rest
          [] t.kind = "question" ->
                ii < Len(input) /\ input[ii + 1] # "." /\ ii + 1 \in rest
          [] t.kind = "star" ->
                \E j \in ii..Len(input) :
                    /\ \A m \in (ii + 1)..j : input[m] # "."
                    /\ j \in rest
          [] t.kind = "doublestar" -> \E j \in ii..Len(input) : j \in rest}

\* The function the matcher computes.
IsMatcher(m, tokens, input) ==
    m = [ti \in 0..Len(tokens) |->
            IF ti = Len(tokens) THEN {Len(input)}
            ELSE Before(tokens[ti + 1], input, m[ti + 1])]

CutAt(cut, n, k, i) == IF i = 0 THEN 0 ELSE IF i = n THEN k ELSE cut[i]

-----------------------------------------------------------------------------
(* Reading a pattern.                                                       *)

\* One step of the tokenizer, and of the count of a pattern's literal prefix, at i, where
\* one and two characters further they yielded a and b.
Scan(kind, p, i, a, b) ==
    IF kind = "tokens"
    THEN IF i > Len(p) THEN <<>>
         ELSE CASE p[i] = "\\" /\ i < Len(p) -> <<Token("literal", p[i + 1])>> \o b
                [] p[i] = "*" /\ i < Len(p) /\ p[i + 1] = "*" ->
                     <<Token("doublestar", "*")>> \o b
                [] p[i] = "*" /\ ~(i < Len(p) /\ p[i + 1] = "*") ->
                     <<Token("star", "*")>> \o a
                [] p[i] = "?" -> <<Token("question", "?")>> \o a
                [] OTHER -> <<Token("literal", p[i])>> \o a
    ELSE IF i > Len(p) \/ (i <= Len(p) /\ p[i] \in {"*", "?"}) THEN 0
         ELSE 1 + (IF p[i] = "\\" THEN b ELSE a)

TokenOf(p) == [kind : Kinds, ch : Range(p) \cup {"*", "?"}]

Yield(kind, p) == IF kind = "tokens" THEN Seq(TokenOf(p)) ELSE Nat

EndOf(kind, p) == IF kind = "tokens" THEN Len(p) + 1 ELSE Len(p) + 2

IsScan(kind, p, from) ==
    from = [i \in 1..EndOf(kind, p) |-> Scan(kind, p, i, from[i + 1], from[i + 2])]

\* A scan of the pattern from lo on.
IsScanFrom(kind, p, lo, from) ==
    from = [i \in lo..EndOf(kind, p) |-> Scan(kind, p, i, from[i + 1], from[i + 2])]

-----------------------------------------------------------------------------
(* The precedence among rules.                                              *)

RuleKinds == {"exact", "prefix", "pattern", "default"}

IsRule(r) == r.kind \in RuleKinds /\ r.text \in Seq(Range(r.text)) /\ r.order \in Nat

\* Rules compare by kind, then by the two numbers of the kind, then by order.
Compares(a, b, m, n) ==
    \/ a[1] < b[1]
    \/ a[1] = b[1] /\ a[2] < b[2]
    \/ a[1] = b[1] /\ a[2] = b[2] /\ a[3] < b[3]
    \/ a[1] = b[1] /\ a[2] = b[2] /\ a[3] = b[3] /\ m < n

\* The best rules of a kind so far, one rule after the other.
Improves(kind, f, list, best) ==
    /\ best[0] = None
    /\ \A k \in 0..(Len(list) - 1) : best[k + 1] = Considered(kind, f, best[k], list[k + 1])

PrefixOf(f, list) ==
    Best(list, LAMBDA r : r.kind = "prefix" /\ MatchesPrefix(f, r.text), PrefixBeats)

PatternOf(f, list) ==
    Best(list, LAMBDA r : r.kind = "pattern" /\ MatchesPattern(f, r.text), PatternBeats)

\* Rules as a document has them.
IsRuleList(list) ==
    /\ IsList(list)
    /\ \A i \in DOMAIN list :
          IsRule(list[i]) /\ \A j \in 1..(i - 1) : list[j].order < list[i].order

Applies(kind, f, r) == r.kind = kind /\ Governs(f, r)

\* x is the rule of its kind that precedence puts first among the first k, or None.
Foremost(kind, f, list, k, x) ==
    \/ x = None /\ \A j \in 1..k : ~Applies(kind, f, list[j])
    \/ \E m \in 1..k :
          /\ x = list[m] /\ Applies(kind, f, list[m])
          /\ \A j \in 1..k : Applies(kind, f, list[j]) /\ j # m => Precedes(list[m], list[j])

ExactOf(f, list) == First(list, LAMBDA r : r.kind = "exact" /\ r.text = f)

DefaultOf(f, list) == First(list, LAMBDA r : r.kind = "default")

-----------------------------------------------------------------------------
(* The bytes of a text.                                                     *)

\* The bytes of a text's first characters, one more at a time.
Sums(text, sum) ==
    /\ sum[0] = 0
    /\ \A k \in 0..(Len(text) - 1) : sum[k + 1] = sum[k] + Width(text[k + 1])

-----------------------------------------------------------------------------
(* Splitting a text.                                                        *)

NextCuts(text, ch, i) == {j \in i..Len(text) : text[j] = ch}

\* One step of the split at i, where the rest of the text yields rest.
Cutting(text, ch, i, rest) ==
    IF NextCuts(text, ch, i) = {} THEN <<SubSeq(text, i, Len(text))>>
    ELSE <<SubSeq(text, i, Min(NextCuts(text, ch, i)) - 1)>> \o rest

IsSplit(text, ch, lo, from) ==
    from = [i \in lo..(Len(text) + 1) |->
               Cutting(text, ch, i, from[Min(NextCuts(text, ch, i)) + 1])]

-----------------------------------------------------------------------------
(* Dates.                                                                   *)

\* Where the cuts of a text in three parts are.
CutTwice(text, ch, a, b) ==
    /\ a < b /\ text[a] = ch /\ text[b] = ch
    /\ Split(text, ch)[1] = SubSeq(text, 1, a - 1)
    /\ Split(text, ch)[2] = SubSeq(text, a + 1, b - 1)
    /\ Split(text, ch)[3] = SubSeq(text, b + 1, Len(text))

-----------------------------------------------------------------------------
(* Disclosed values.                                                        *)

AsksOf(asks, field) == {i \in DOMAIN asks : asks[i].field = field}

FirstAsk(asks, field) ==
    {i \in DOMAIN asks : /\ asks[i].field = field
                         /\ \A j \in 1..(i - 1) : asks[j].field # field}

-----------------------------------------------------------------------------
(* Folds of an action request.                                              *)

BuilderStages(stage, actions, id, calls) ==
    /\ stage[0] = NewRequest(actions, id)
    /\ \A k \in 0..(Len(calls) - 1) : stage[k + 1] = Continued(stage[k], calls[k + 1])

CollectStages(stage, defs, user) ==
    /\ stage[0] = << >>
    /\ \A k \in 0..(Len(defs) - 1) : stage[k + 1] = Collected(user, stage[k], defs[k + 1])

TestedStages(stage, checks) ==
    /\ stage[0] = "ok"
    /\ \A k \in 0..(Len(checks) - 1) : stage[k + 1] = FirstFailed(stage[k], checks[k + 1])

VerdictStages(stage, defs, params) ==
    /\ stage[0] = [param |-> "", constraint |-> "ok"]
    /\ \A k \in 0..(Len(defs) - 1) : stage[k + 1] = Validated(params, stage[k], defs[k + 1])

-----------------------------------------------------------------------------
(* What a request builder holds.                                            *)

SetterOps == {"param", "param_i64", "param_f64", "param_bool"}

RequestOps == SetterOps \cup {"with_consent", "with_consent_str"}

\* What a builder's parameters are after the first k calls: only names that were set, and
\* at the last place of each the text it was set to last.
Carries(params, calls, k) ==
    /\ IsSequence(params)
    /\ \A j \in DOMAIN params : \E i \in 1..k : Sets(calls[i], params[j].name)
    /\ \A i \in 1..k : \A name :
          Sets(calls[i], name) /\ (\A l \in (i + 1)..k : ~Sets(calls[l], name)) =>
              \E j \in DOMAIN params :
                 /\ params[j].name = name /\ params[j].value = TextOf(calls[i])
                 /\ \A m \in (j + 1)..Len(params) : params[m].name # name

Building(action, params, consent) ==
    [outcome |-> "building", action |-> action, params |-> params, consent |-> consent]

Stopped(b) == b.outcome = "rejected" /\ b.param \in {"", "consent_basis"}

\* What a call makes of a builder.
MadeOf(b, action, params, consent, c) ==
    \/ /\ c.op \in SetterOps
       /\ b = Building(action, Append(params, [name |-> c.name, value |-> TextOf(c)]), consent)
    \/ c.op \notin SetterOps /\ \E basis : b = Building(action, params, basis)
    \/ c.op \notin SetterOps /\ Stopped(b)

\* The first action with the id.
FirstAction(actions, id) ==
    actions[CHOOSE i \in DOMAIN actions : /\ actions[i].id = id
                                         /\ \A j \in 1..(i - 1) : actions[j].id # id]

-----------------------------------------------------------------------------
(* What is collected.                                                       *)

Gathered(user, def) ==
    [name |-> def.name, type |-> def.type, value |-> Only(ValueOf(user, def))]

Valued(defs, user, k) == {i \in 1..k : ValueOf(user, defs[i]) # {}}

\* The values of the first k definitions, each at its place.
CollectedBy(params, defs, user, k) ==
    /\ IsSequence(params) /\ Len(params) = Cardinality(Valued(defs, user, k))
    /\ \A i \in Valued(defs, user, k) :
          LET place == Cardinality(Valued(defs, user, i))
          IN  place \in 1..Len(params) /\ params[place] = Gathered(user, defs[i])
    /\ \A v \in 1..Len(params) : \E i \in Valued(defs, user, k) :
          v = Cardinality(Valued(defs, user, i))

-----------------------------------------------------------------------------
(* Patterns and numbers.                                                    *)

\* The pattern without the anchors it has.
Headless(p) == IF p # << >> /\ p[1] = "^" THEN Tail(p) ELSE p

Inner(p) ==
    IF Headless(p) # << >> /\ Headless(p)[Len(Headless(p))] = "$"
    THEN SubSeq(Headless(p), 1, Len(Headless(p)) - 1) ELSE Headless(p)

Literal(p) ==
    SubSeq(p, IF p # << >> /\ p[1] = "^" THEN 2 ELSE 1,
           IF p # << >> /\ p[Len(p)] = "$" THEN Len(p) - 1 ELSE Len(p))

Plain(text) == \A i \in DOMAIN text : text[i] \notin Meta

-----------------------------------------------------------------------------
(* Validation.                                                              *)

\* What a definition's constraints are written in.
Spells(def) == \A p \in def.pattern \cup def.min \cup def.max : p \in Seq(Range(p))

Sizes(def, text) == IF def.type = "number" THEN Spelled(text) ELSE {ByteLength(text)}

Bounds(def, m) ==
    IF def.type # "number" /\ m # << >> /\ m[1] = "-" THEN {} ELSE Spelled(m)

AcceptedByMin(def, text) ==
    \A m \in def.min : \A size \in Sizes(def, text), bound \in Bounds(def, m) : size >= bound

AcceptedByMax(def, text) ==
    \A m \in def.max : \A size \in Sizes(def, text), bound \in Bounds(def, m) : size <= bound

AcceptedByPattern(def, text) ==
    \A p \in def.pattern : text = Literal(p) /\ Plain(text)

-----------------------------------------------------------------------------
(* Execution.                                                               *)

DueOf(defs, calls) == {i \in DOMAIN defs : Meant(defs[i], calls) # {}}

PlaceOf(defs, calls, i) == Cardinality({j \in DueOf(defs, calls) : j <= i})

\* The values collected are those meant, in their order.
ValuesAsMeant(values, defs, calls) ==
    /\ DOMAIN values = 1..Len(values) /\ Len(values) \in Nat
    /\ Len(values) = Cardinality(DueOf(defs, calls))
    /\ \A i \in DueOf(defs, calls) :
          /\ PlaceOf(defs, calls, i) \in DOMAIN values
          /\ values[PlaceOf(defs, calls, i)].name = defs[i].name
          /\ values[PlaceOf(defs, calls, i)].value = Only(Meant(defs[i], calls))
          /\ values[PlaceOf(defs, calls, i)].type = defs[i].type
    /\ \A v \in DOMAIN values : \E i \in DueOf(defs, calls) : v = PlaceOf(defs, calls, i)

FirstAsMeant(first, defs, calls, i) ==
    /\ first = {} => Meant(defs[i], calls) = {}
    /\ first # {} => \E j \in DueOf(defs, calls) :
          defs[j].name = defs[i].name /\ first = {Only(Meant(defs[j], calls))}

RejectedFairly(defs, calls, param) ==
    LET named == {i \in DOMAIN defs : defs[i].name = param}
    IN  \E i \in named :
            \/ defs[i].required /\ Meant(defs[i], calls) = {}
            \/ \E j \in named : \E text \in Meant(defs[j], calls) : ~Acceptable(defs[i], text)

SentFairly(defs, calls, values) ==
    LET meant(i) == Meant(defs[i], calls)
        due == {i \in DOMAIN defs : meant(i) # {}}
        place(i) == Cardinality({j \in due : j <= i})
    IN  /\ Len(values) = Cardinality(due)
        /\ \A i \in due : /\ values[place(i)].name = defs[i].name
                          /\ values[place(i)].value = Only(meant(i))
        /\ \A i \in DOMAIN defs : defs[i].required => i \in due
        /\ OwnNames(defs) => \A i \in due : Acceptable(defs[i], Only(meant(i)))

-----------------------------------------------------------------------------
(* Folds of a request's body.                                               *)

SpelledStages(stage, digits) ==
    /\ stage[0] = 0
    /\ \A k \in 0..(Len(digits) - 1) : stage[k + 1] = 10 * stage[k] + Digit[digits[k + 1]]

WrittenStages(stage, text) ==
    /\ stage[0] = << >>
    /\ \A k \in 0..(Len(text) - 1) : stage[k + 1] = stage[k] \o Bytes(text[k + 1])

PairStages(stage, params) ==
    /\ stage[0] = << >>
    /\ \A k \in 0..(Len(params) - 1) : stage[k + 1] = Joined(stage[k], params[k + 1])

GatheredOf(params, name) ==
    FoldLeft(LAMBDA made, p : Gathers(name, made, p), << >>, params)

ValueStages(stage, name, params) ==
    /\ stage[0] = << >>
    /\ \A k \in 0..(Len(params) - 1) : stage[k + 1] = Gathers(name, stage[k], params[k + 1])

MemberStages(stage, params) ==
    /\ stage[0] = << >>
    /\ \A k \in 0..(Len(params) - 1) : stage[k + 1] = Emitted(params, stage[k], params[k + 1])

-----------------------------------------------------------------------------
(* Digits and numerals.                                                     *)

DigitSet == {"0", "1", "2", "3", "4", "5", "6", "7", "8", "9"}

\* One step of a numeral, where the number's tenth has the numeral rest.
Spelling(n, rest) == IF n < 10 THEN <<Digits[n + 1]>> ELSE Append(rest, Digits[(n % 10) + 1])

IsDecimal(f, n) == f = [i \in 0..n |-> Spelling(i, f[i \div 10])]

-----------------------------------------------------------------------------
(* Percent-encoding.                                                        *)

\* What a body is written in.
Symbols ==
    {Encoded(byte) : byte \in Byte} \cup {"&", "="}
        \cup Character \cup {Delimiter, "disposition", "--"}

\* What a text is written as.
Encodes(e, text) ==
    /\ e \in Seq(Symbols) /\ BytesOf(text) = [i \in DOMAIN e |-> DecodeByte(e[i])]
    /\ \A i \in 1..Len(e) : e[i] \notin {"&", "="}

-----------------------------------------------------------------------------
(* A body is cut where it was joined.                                       *)

\* A text that a separator joins, and a last piece without the separator.
OnePiece(S, text, ch, last) ==
    /\ text \in Seq(S) /\ ch \in S /\ last \in Seq(S)
    /\ \A i \in 1..Len(last) : last[i] # ch

AddsPiece(text, ch, last) ==
    Split(text \o <<ch>> \o last, ch) = Split(text, ch) \o <<last>>

\* How a pair is read.
DecodedText(text) == [i \in DOMAIN text |-> DecodeByte(text[i])]

DecodedPair(pair) ==
    LET at == SelectInSeq(pair, LAMBDA ch : ch = "=")
    IN  [name |-> DecodedText(SubSeq(pair, 1, at - 1)),
         bytes |-> DecodedText(SubSeq(pair, at + 1, Len(pair)))]

Readable(p) == p.name \in Character /\ p.value \in Seq(Character)

ReadBack(p) == [name |-> BytesOf(<<p.name>>), bytes |-> BytesOf(Canonical(p))]

\* A body of k pairs.
Carried(body, params, k) ==
    /\ body \in Seq(Symbols) /\ body # << >>
    /\ Split(body, "&") \in Seq(Seq(Symbols)) /\ Len(Split(body, "&")) = k
    /\ \A i \in 1..k : Split(body, "&")[i] = Pair(params[i])

\* A list of texts with one more at its end.
HasOneMore(pieces, pair) ==
    /\ pieces \o <<pair>> \in Seq(Seq(Symbols)) /\ Len(pieces \o <<pair>>) = Len(pieces) + 1
    /\ (pieces \o <<pair>>)[Len(pieces) + 1] = pair
    /\ \A i \in 1..Len(pieces) : (pieces \o <<pair>>)[i] = pieces[i]

\* A body that has taken k parameters.
Begun(body, params, k) == \/ k = 0 /\ body = << >>
                          \/ k > 0 /\ Carried(body, params, k)

-----------------------------------------------------------------------------
(* A multipart body is cut at its delimiters.                                *)

PartStages(stage, params) ==
    /\ stage[0] = << >>
    /\ \A k \in 0..(Len(params) - 1) : stage[k + 1] = Parted(stage[k], params[k + 1])

PartsOf(params) == FoldLeft(Parted, << >>, params)

\* Names that do not end a header.
PlainName(p) == p.name \notin {"quote", "crlf"}

PartRead(p) == [name |-> <<p.name>>, value |-> Canonical(p)]

\* A body of k parts, before which there is nothing.
PartedBy(body, params, k) ==
    /\ body \in Seq(Symbols)
    /\ Split(body, Delimiter) \in Seq(Seq(Symbols)) /\ Len(Split(body, Delimiter)) = k + 1
    /\ \A i \in 1..k : Split(body, Delimiter)[i + 1] = Part(params[i])

\* A delimiter and a piece without it make one piece more.
PieceAdded(body, pieces, piece) ==
    /\ body \o <<Delimiter>> \o piece \in Seq(Symbols)
    /\ Split(body \o <<Delimiter>> \o piece, Delimiter) = pieces \o <<piece>>
    /\ HasOneMore(pieces, piece)

-----------------------------------------------------------------------------
(* The values of a JSON body.                                               *)

\* What a string of JSON is written in.
JsonSymbols == {JsonEscaped(ch) : ch \in Character} \cup {"quote"}

-----------------------------------------------------------------------------
(* The members of a JSON body.                                              *)

NamedIn(params, name, k) == {i \in 1..k : params[i].name = name}

\* The values of a name among the first k parameters, each at its place.
ValuesBy(values, params, name, k) ==
    /\ IsSequence(values) /\ Len(values) = Cardinality(NamedIn(params, name, k))
    /\ \A i \in NamedIn(params, name, k) :
          LET place == Cardinality(NamedIn(params, name, i))
          IN  place \in 1..Len(values) /\ values[place] = JsonValue(params[i])

\* The members after the first k parameters: each has a name's values, and each name
\* stands where it came first.
MembersBy(members, params, k) ==
    /\ IsSequence(members)
    /\ \A m \in 1..Len(members) : /\ members[m] = Member(params, members[m].name)
                                  /\ \E i \in 1..k : params[i].name = members[m].name
    /\ \A i \in 1..k : \E m \in 1..Len(members) : members[m].name = params[i].name
    /\ \A m \in 1..Len(members) : \A l \in 1..(m - 1) : \E i \in 1..k :
          /\ params[i].name = members[l].name
          /\ \A j \in 1..Len(params) : params[j].name = members[m].name => i < j

\* The calls that can be written as text.
Speaks(c) ==
    /\ c.op \in {"param", "param_f64"} => c.text \in Seq(Character)
    /\ c.op = "param_i64" => c.n \in Int

\* What a service reads of a body of the type.
ReadFairly(defs, type, values, body) ==
    LET named(name) == {i \in DOMAIN values : values[i].name = name}
        place(i) == Cardinality({j \in named(values[i].name) : j <= i})
    IN  CASE type = "json" ->
                /\ \A i \in DOMAIN values : \E k \in DOMAIN body :
                      body[k].name = values[i].name
                /\ \A k \in DOMAIN body :
                      LET count == Cardinality(named(body[k].name))
                      IN  /\ ReadJson(body[k].key) = [kind |-> "string", text |-> <<body[k].name>>]
                          /\ Len(body[k].values) = count /\ (body[k].array <=> count > 1)
                          /\ \A i \in named(body[k].name) :
                                OwnNames(defs) \/ values[i].type # "boolean" =>
                                    ReadJson(body[k].values[place(i)]) = JsonMeant(values[i])
                /\ \A k \in DOMAIN body : \A l \in 1..(k - 1) :
                      \E i \in named(body[l].name) : \A j \in named(body[k].name) : i < j
          [] type = "multipart" ->
                (\A i \in DOMAIN values : values[i].name \notin {"quote", "crlf"}) =>
                    DecodeMultipart(body)
                      = [i \in DOMAIN values |->
                           [name |-> <<values[i].name>>, value |-> Canonical(values[i])]]
          [] OTHER ->
                DecodeUrlencoded(body)
                  = [i \in DOMAIN values |->
                       [name |-> BytesOf(<<values[i].name>>),
                        bytes |-> BytesOf(Canonical(values[i]))]]

\* Booleans are true or false, unless definitions share a name.
Booleans(defs, values) ==
    \A i \in DOMAIN values :
        OwnNames(defs) /\ values[i].type = "boolean" => values[i].value \in {<<"true">>, <<"false">>}

\* A value is what was meant for a definition, of that definition's type.
MeantBy(p, defs, calls) ==
    \E i \in DueOf(defs, calls) : /\ p.value = Only(Meant(defs[i], calls))
                                  /\ p.type = defs[i].type
=============================================================================
