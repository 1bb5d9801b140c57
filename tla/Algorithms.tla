----------------------------- MODULE Algorithms -----------------------------
(***************************************************************************)
(* The functions of the crate that neither await nor share state, each     *)
(* called once on an input: matching.rs, builder.rs with params.rs and     *)
(* validation.rs, the endpoint of an action in action/mod.rs, one attempt  *)
(* and the builder of client.rs, the trust policies of config.rs, step 5   *)
(* of disclosure/mod.rs, discovery/ and integrity.rs.                      *)
(* Their results are compared with what the documentation says of them.    *)
(***************************************************************************)
EXTENDS Matching, ActionRequest, DisclosedValue, FetchAttempt, Endpoint, Discovery,
    Integrity

CONSTANTS
    Calls,      \* the calls and their arguments, by `kind`
    Pending     \* the call has not returned

ASSUME CallsAssumption ==
    \A c \in Calls :
        c.kind \in {"rule", "request", "endpoint", "fetch", "discover", "media", "client",
                    "value"}

\* What the functions may be called with, where a proof needs to know.
IsList(s) == Len(s) \in Nat /\ DOMAIN s = 1..Len(s)

\* Rules are extracted from a document in its order.
ASSUME RuleAssumption ==
    \A c \in Calls : c.kind = "rule" =>
        /\ c.field \in Seq(Range(c.field)) /\ IsList(c.rules)
        /\ \A i \in DOMAIN c.rules :
              LET rule == c.rules[i]
              IN  /\ rule.kind \in {"exact", "prefix", "pattern", "default"}
                  /\ rule.text \in Seq(Range(rule.text)) /\ rule.order \in Nat
                  /\ \A j \in 1..(i - 1) : c.rules[j].order < rule.order

\* The calls are the builder's, of characters the model knows, and what an action
\* declares has lists where the code has.
ASSUME RequestAssumption ==
    \A c \in Calls : c.kind = "request" =>
        /\ IsList(c.actions) /\ IsList(c.calls)
        /\ \A k \in DOMAIN c.calls :
              /\ c.calls[k].op \in {"param", "param_i64", "param_f64", "param_bool",
                                   "with_consent", "with_consent_str"}
              /\ (c.calls[k].op \in {"param", "param_f64"} => c.calls[k].text \in Seq(Character))
              /\ (c.calls[k].op = "param_i64" => c.calls[k].n \in Int)
        /\ \A a \in DOMAIN c.actions :
              LET defs == c.actions[a].params
              IN  /\ IsList(defs)
                  /\ \A i \in DOMAIN defs :
                        /\ defs[i].name \in Character /\ defs[i].default \subseteq Seq(Character)
                        /\ \A p \in defs[i].pattern \cup defs[i].min \cup defs[i].max :
                              p \in Seq(Range(p))

ASSUME MediaAssumption ==
    \A c \in Calls : c.kind = "media" => \A attr \in c.integrity : IsList(attr)

ASSUME FetchAssumption ==
    \A c \in Calls : c.kind = "fetch" => c.exchange \in Exchange

ASSUME ClientAssumption ==
    \A c \in Calls : c.kind = "client" =>
        /\ IsList(c.calls) /\ c.origin \in Origin /\ NamesOnePort(c.origin)
        /\ \A i \in DOMAIN c.calls :
              LET told == c.calls[i]
              IN  /\ told.op \in DOMAIN Defaults \cup {"timeout", "default_headers", "middleware"}
                  /\ told.op = "timeouts" => told.value \in [DOMAIN DefaultTimeouts -> Nat]
                  /\ told.op = "resource_limits" => told.value \in [DOMAIN DefaultLimits -> Nat]
                  /\ told.op = "trust_policy" =>
                        \A j \in DOMAIN told.value :
                            told.value[j].parses => /\ told.value[j].scheme \in WebSchemes
                                                    /\ NamesOnePort(told.value[j])

ASSUME EndpointAssumption ==
    \A c \in Calls : c.kind = "endpoint" =>
        LET x == c.endpoint
        IN  /\ x.endpoint \in Reference /\ x.origin \in Reference
            /\ x.xml_base \subseteq Reference
            /\ \A ref \in {x.endpoint, x.origin} \cup x.xml_base :
                    ref.url.host \subseteq DOMAIN x.addresses
            /\ \A host \in DOMAIN x.addresses : x.addresses[host] \subseteq Address

\* An <ask> has at most one type.
ASSUME ValueAssumption ==
    \A c \in Calls : c.kind = "value" =>
        /\ c.text \in Seq(Range(c.text))
        /\ \A list \in c.doc.knowledge \cup c.doc.asks :
              /\ IsList(list)
              /\ \A i \in DOMAIN list : \A type, other \in list[i].type : type = other

VARIABLES call, result

vars == <<call, result>>

Init == call \in Calls /\ result = Pending

Calling(kind) == call.kind = kind /\ result = Pending /\ UNCHANGED call

ResolvesRule == Calling("rule") /\ result' = ResolveRule(call.field, call.rules)

ExecutesRequest ==
    Calling("request") /\ result' = Request(call.actions, call.id, call.calls)

DirectsRequest == Calling("endpoint") /\ result' = Direct(call.endpoint)

AttemptsFetch == Calling("fetch") /\ result' = Attempt(call.exchange)

Discovers ==
    Calling("discover") /\ result' = Discover(Publish(call.site, call.links))

VerifiesMedia ==
    /\ Calling("media")
    /\ result' = IF call.integrity = {} THEN EnforceInferenceIntegrity(call.inference, {})
                 ELSE VerifyIntegrity(call.bytes, Only(call.integrity))

\* A client is built, and its trust policy asked about an origin.
BuildsClient ==
    /\ Calling("client")
    /\ LET client == Client(call.calls)
       IN  result' = [client |-> client,
                      trusted |-> TrustEvaluate(client.settings.trust_policy, call.origin)]

ValidatesValue ==
    Calling("value") /\ result' = ValidateValue(call.doc, call.field, call.text)

Next ==
    \/ ResolvesRule \/ ExecutesRequest \/ DirectsRequest \/ AttemptsFetch \/ Discovers
    \/ VerifiesMedia \/ BuildsClient \/ ValidatesValue

Spec == Init /\ [][Next]_vars

Returned(kind) == call.kind = kind /\ result # Pending

-----------------------------------------------------------------------------
(* Rule matching.                                                           *)

\* The running best of the three loops is the rule the documented precedence puts
\* first: exact, longest prefix, fewest metacharacters, longest literal prefix,
\* default, then document order; and nothing is synthesized if any rule applies.  A
\* pattern applies exactly when the field can be cut into segments its tokens stand
\* for: the backtracking misses no cut, and "*" and "?" never cross a dot.
ResolvesByPrecedence ==
    Returned("rule") =>
        LET rules == call.rules
            governing == {i \in DOMAIN rules : Governs(call.field, rules[i])}
        IN  IF governing = {} THEN result = None
            ELSE \E i \in governing :
                    /\ result = rules[i]
                    /\ \A j \in governing \ {i} : Precedes(rules[i], rules[j])

\* "`S` matches field names that are exactly `S` or start with `S` followed by `.`".
PrefixIsSegmentPrefix ==
    call.kind = "rule" =>
        \A i \in DOMAIN call.rules :
            LET s == call.rules[i].text
            IN  call.rules[i].kind = "prefix" =>
                    (MatchesPrefix(call.field, s)
                        <=> call.field = s \/ IsPrefix(s \o <<".">>, call.field))

-----------------------------------------------------------------------------
(* Action requests.                                                         *)

Sent == Returned("request") /\ result.outcome = "sent"
Refused == Returned("request") /\ result.outcome = "rejected"

RequestedAction == call.actions[CHOOSE i \in DOMAIN call.actions :
                       /\ call.actions[i].id = call.id
                       /\ \A j \in 1..(i - 1) : call.actions[j].id # call.id]

OwnNames(defs) == \A i, j \in DOMAIN defs : defs[i].name = defs[j].name => i = j

\* A request that is sent carries, in document order, for each declared parameter the
\* value last set for it, trimmed, or its default, and no other; no required one is
\* missing, and each value is one its definition admits; and one that is refused for a
\* parameter lacks it, or has a value it does not admit.  (Values are validated if the
\* definitions have names of their own: of several with one name, each is validated
\* with the first's value.)
SentAsMeant ==
    /\ Sent =>
        LET defs == RequestedAction.params
            meant(i) == Meant(defs[i], call.calls)
            due == {i \in DOMAIN defs : meant(i) # {}}
            place(i) == Cardinality({j \in due : j <= i})
        IN  /\ Len(result.values) = Cardinality(due)
            /\ \A i \in due : /\ result.values[place(i)].name = defs[i].name
                              /\ result.values[place(i)].value = Only(meant(i))
            /\ \A i \in DOMAIN defs : defs[i].required => i \in due
            /\ OwnNames(defs) => \A i \in due : Acceptable(defs[i], Only(meant(i)))
    /\ Refused /\ result.param \notin {"", "consent_basis"} =>
        LET defs == RequestedAction.params
            named == {i \in DOMAIN defs : defs[i].name = result.param}
        IN  \E i \in named :
                \/ defs[i].required /\ Meant(defs[i], call.calls) = {}
                \/ \E j \in named : \E text \in Meant(defs[j], call.calls) :
                        ~Acceptable(defs[i], text)

\* The service that decodes a body finds in it the values that were collected, in their
\* canonical form.  Urlencoded, the pairs are those of the names and values and no other,
\* byte for byte, so that nothing in a value ends it or starts another.  Multipart, the
\* parts are the same, if no name has a quote or a line's end, which would end it.  JSON
\* has each name once, in document order, with all its values in theirs, each of its kind
\* and none malformed; but a boolean is one only if the definitions have names of their
\* own, for of several with one name each is validated with the first's value.
BodiesDecode ==
    Sent =>
        LET defs == RequestedAction.params
            values == result.values
            body == result.body
            type == RequestedAction.enctype
            named(name) == {i \in DOMAIN values : values[i].name = name}
            place(i) == Cardinality({j \in named(values[i].name) : j <= i})
        IN  CASE type = "json" ->
                    /\ \A i \in DOMAIN values : \E k \in DOMAIN body :
                          body[k].name = values[i].name
                    /\ \A k \in DOMAIN body :
                          LET count == Cardinality(named(body[k].name))
                          IN  /\ ReadJson(body[k].key)
                                   = [kind |-> "string", text |-> <<body[k].name>>]
                              /\ Len(body[k].values) = count /\ (body[k].array <=> count > 1)
                              /\ \A i \in named(body[k].name) :
                                    OwnNames(defs) \/ values[i].type # "boolean" =>
                                        ReadJson(body[k].values[place(i)]) = JsonMeant(values[i])
                    /\ \A k \in DOMAIN body : \A l \in 1..(k - 1) :
                          \E i \in named(body[l].name) : \A j \in named(body[k].name) : i < j
              [] type = "multipart" ->
                    (\A i \in DOMAIN values : values[i].name \notin {"quote", "crlf"}) =>
                        DecodeMultipart(body)
                          = [i \in DOMAIN values |->
                               [name |-> <<values[i].name>>, value |-> Canonical(values[i])]]
              [] OTHER ->
                    DecodeUrlencoded(body)
                      = [i \in DOMAIN values |->
                           [name |-> BytesOf(<<values[i].name>>),
                            bytes |-> BytesOf(Canonical(values[i]))]]

\* A request goes where its endpoint says, an absolute one as it is, another relative
\* to xml:base or else to the document's origin, and that place is what the budget
\* counts; unless it cannot be resolved, or any address known of its host lies in one
\* of the networks the documentation lists, whichever bits of an octet these end in.
DirectedAsWritten ==
    Returned("endpoint") =>
        LET x == call.endpoint
            ref == x.endpoint
            base == IF x.xml_base # {} THEN Only(x.xml_base) ELSE x.origin
            addresses(hosts) == UNION {x.addresses[host] : host \in hosts}
            host == IF ref.kind \in {"absolute", "network"} THEN ref.url.host
                    ELSE base.url.host
            url == result.url
        IN  IF \/ ref.kind = "bad" \/ host = {}
               \/ ref.kind # "absolute" /\ base.kind # "absolute"
            THEN result.outcome = "malformed"
            ELSE IF \E ip \in addresses(host) : Reserved(ip)
            THEN result.outcome = "blocked"
            ELSE /\ result.outcome = "ok"
                 /\ url.host = host
                 /\ ref.kind = "absolute" => url = ref.url
                 /\ ref.kind # "absolute" => url.scheme = base.url.scheme
                 /\ ref.kind \in {"rooted", "path"} => url.port = base.url.port
                 /\ IsSuffix(ref.url.path, url.path)
                 /\ result.origin.scheme = url.scheme /\ result.origin.host = host
                 /\ result.origin.port \subseteq url.port

-----------------------------------------------------------------------------
(* Fetching.                                                                *)

\* An attempt yields a document exactly if nothing is wrong with it or the exchange;
\* what the middleware sees are layers around the exchange, and on_response runs only
\* for answers of the right status and type; and no attempt is repeated unless the
\* server or the way to it failed in passing: a bad document is never asked for again.
AttemptsAreSound ==
    Returned("fetch") =>
        LET x == call.exchange
            calls == result.calls
        IN  /\ result.result = Fine <=> Trustworthy(x)
            /\ result.result = Fine => calls = Onion(x)
            /\ IsPrefix(calls, Onion(x))
            /\ Len(calls) > Len(x.middleware) =>
                  /\ x.answer = "answer" /\ x.status \in {"200", "304"}
                  /\ x.anml_content_type
            /\ Retryable(result.result) => TransientFault(x)

-----------------------------------------------------------------------------
(* Discovery.                                                               *)

\* The service is found through the first mechanism that offers it, in the order of
\* the RFC, whatever the others hold; of the links a site prints into its Link headers
\* it is the first alternate one, though references contain commas.
FindsFirstOffer ==
    Returned("discover") =>
        LET offers == Offers(call.site, call.links)
        IN  IF offers = << >> THEN result.kind # "found"
            ELSE /\ result.mechanism = offers[1]
                 /\ offers[1] = "link" =>
                        result.endpoint = Resolve(Only(AdvertisedLinks(call.links)[1].href),
                                                  call.site.origin)

-----------------------------------------------------------------------------
(* Integrity.                                                               *)

\* Bytes that are accepted are those a token of the strongest algorithm names: a
\* weaker or unknown token beside it neither saves other bytes nor condemns these.
StrongestDecides ==
    Returned("media") /\ call.integrity # {} =>
        LET attr == Only(call.integrity)
            known == {i \in DOMAIN attr : attr[i].algorithm \in Range(Algorithms)}
            strength(i) == Strength(attr[i].algorithm)
            strongest == {i \in known : \A j \in known : strength(j) <= strength(i)}
        IN  /\ result = "ok" => \E i \in strongest :
                  attr[i].digest = DigestOf(attr[i].algorithm, call.bytes)
            /\ (strongest # {} /\ \A i \in strongest :
                    attr[i].digest = DigestOf(attr[i].algorithm, call.bytes)) => result = "ok"

-----------------------------------------------------------------------------
(* Configuration.                                                           *)

\* Whatever the order of the setters, a client is what the last call of each said:
\* setting the request's timeout keeps the other timeouts and setting all replaces it,
\* no limit is below its floor, of a header's values the last that is well formed is
\* sent, and the middleware is in the order it was given; and an origin is trusted
\* exactly if the last trust policy lists it.
BuiltAsToldLast ==
    Returned("client") =>
        LET calls == call.calls
            settings == result.client.settings
            limits == ToldLast(calls, "resource_limits")
        IN  /\ \A s \in DOMAIN Defaults \ {"timeouts", "resource_limits"} :
                  settings[s] = ToldLast(calls, s)
            /\ \A t \in DOMAIN DefaultTimeouts \ {"per_request"} :
                  settings.timeouts[t] = ToldLast(calls, "timeouts")[t]
            /\ \A c \in LastTold(calls, {"timeout", "timeouts"}) :
                  settings.timeouts.per_request =
                      IF c.op = "timeout" THEN c.value ELSE c.value.per_request
            /\ \A l \in DOMAIN Floors :
                  /\ settings.resource_limits[l] >= Floors[l]
                  /\ settings.resource_limits[l] \in {Floors[l], limits[l]}
                  /\ settings.resource_limits[l] >= limits[l]
            /\ HeadersTold(result.client.headers, calls)
            /\ AddedInOrder(result.client.middleware, calls)
            /\ result.trusted <=> ListsOrigin(ToldLast(calls, "trust_policy"), call.origin)

-----------------------------------------------------------------------------
(* The value of a disclosure.                                               *)

\* The two validations of a value agree as far as a user can tell: what an action's
\* parameter of a type admits is not refused when an <ask> of that type is answered
\* with it, and what is disclosed for a number, a truth value or a URI is one.  It is
\* measured by the first <ask> for the field in the list that counts, and by no other.
ValidationsAgree ==
    Returned("value") =>
        LET list == IF call.doc.knowledge # {} THEN call.doc.knowledge ELSE call.doc.asks
            asks == IF list = {} THEN << >> ELSE Only(list)
            first == {i \in DOMAIN asks : /\ asks[i].field = call.field
                                         /\ \A j \in 1..(i - 1) : asks[j].field # call.field}
            types == UNION {asks[i].type : i \in first}
        IN  /\ (\A type \in types : TypeHolds(call.text, type)) => result = "yes"
            /\ result = "yes" =>
                  \A type \in types \ {"date"} : TypeHolds(call.text, type)
            /\ result = "panics" => \E i \in DOMAIN call.text : Width(call.text[i]) > 1
=============================================================================
