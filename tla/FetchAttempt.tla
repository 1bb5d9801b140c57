---------------------------- MODULE FetchAttempt ----------------------------
(***************************************************************************)
(* One attempt of a fetch (AnmlClient::execute_fetch of src/src/client.rs) *)
(* with the checks of fetch_url before it: request middleware, exchange,   *)
(* status and content type, response middleware, body, parser, and the     *)
(* checks of the document.  An attempt is a sequence of stages, of which   *)
(* the first that fails is its outcome.  An exchange `x` is everything the *)
(* outcome depends on: URL scheme, configuration, middleware and server.   *)
(* Module FetchClient has the attempts, the sleeps and the breaker.        *)
(***************************************************************************)
EXTENDS Configuration

Fine == [error |-> "none", cause |-> "none"]
Err(error, cause) == [error |-> error, cause |-> cause]

\* A stage: how it ends, and the middleware call it makes, if any.
Stage(result) == [result |-> result, calls |-> << >>]
Check(holds, error, cause) == Stage(IF holds THEN Fine ELSE Err(error, cause))
CallStage(hook, i, result) == [result |-> result, calls |-> <<[hook |-> hook, of |-> i]>>]

-----------------------------------------------------------------------------
(* Configuration.                                                           *)

\* build clamps the limits.
MaxDocumentSize(x) == Clamp(x.max_document_size, Floors.max_document_size)

SupportedProfiles == {"urn:ietf:anml:profile:core-1.0", "core-1.0"}

-----------------------------------------------------------------------------
(* The stages.                                                              *)

\* fetch_url: the scheme is looked at before the breaker is asked.
SchemeStage(x) ==
    <<Check(x.scheme = "https" \/ x.allow_plaintext_http, "TransportInsecure", "scheme")>>

\* on_request, first to last.
RequestStages(x) ==
    [i \in DOMAIN x.middleware |-> CallStage("on_request", i, x.middleware[i].on_request)]

\* The exchange, under the per-request timeout, and the status; a 406 carries the
\* versions the server supports.
ServerErrors == {"500", "501", "502", "503", "504"}
ClientErrors == {"401", "404", "429"}

ExchangeStages(x) ==
    <<Check(x.answer # "timeout", "Timeout", "per_request"),
      Check(x.answer # "refused", "Http", "connect"),
      Check(x.status # "406", "UnsupportedVersion", "406"),
      Check(x.status \notin ServerErrors \cup ClientErrors, "Http", x.status)>>

\* Everything an attempt depends on.
Outcome == [error : STRING, cause : STRING]
Document == [constraints : BOOLEAN, interact : BOOLEAN,
             metas : Seq([name : STRING, value : STRING])]
Exchange ==
    [scheme : {"http", "https"}, allow_plaintext_http : BOOLEAN, max_document_size : Nat,
     middleware : Seq([on_request : Outcome, on_response : Outcome]),
     answer : {"timeout", "refused", "answer"},
     status : {"200", "304", "406"} \cup ServerErrors \cup ClientErrors,
     anml_content_type : BOOLEAN,
     body : [arrives : BOOLEAN, size : Nat, utf8 : BOOLEAN, parses : BOOLEAN, doc : Document]]

ContentTypeStage(x) == <<Check(x.anml_content_type, "ContentTypeMismatch", "type")>>

\* on_response, last to first, once status and content type have passed.
FaultyResponseStages(x) ==
    [i \in DOMAIN x.middleware |-> CallStage("on_response", i, x.middleware[i].on_response)]

ResponseStages(x) ==
    Reverse([i \in DOMAIN x.middleware |->
                CallStage("on_response", i, x.middleware[i].on_response)])

\* The body is read whole and then measured; reqwest's own timeout may end the read.
\* The parser runs without an await, so the timeout around it cannot fire.
BodyStages(x) ==
    <<Check(x.body.arrives, "Http", "timeout"),
      Check(x.body.size <= MaxDocumentSize(x), "ResourceLimitExceeded", "max_document_size"),
      Check(x.body.utf8, "MalformedDocument", "utf8"),
      Check(x.body.parses, "Parse", "anml")>>

\* check_http_restrictions, whatever allow_plaintext_http says.
HttpStages(x) ==
    LET doc == x.body.doc
    IN  <<Check(x.scheme = "http" => ~doc.constraints, "TransportInsecure", "constraints"),
          Check(x.scheme = "http" => ~doc.interact, "TransportInsecure", "interact")>>

\* check_required_extensions knows none; check_required_profiles wants all supported.
MetaStages(x) ==
    LET metas == ToSet(x.body.doc.metas)
    IN  <<Check(\A meta \in metas : meta.name # "requires-ext",
                "UnsupportedExtension", "requires-ext"),
          Check(\A meta \in metas : meta.name = "profile" => meta.value \in SupportedProfiles,
                "UnsupportedProfile", "profile")>>

Stages(x) ==
    SchemeStage(x) \o RequestStages(x) \o ExchangeStages(x) \o ContentTypeStage(x)
        \o ResponseStages(x) \o BodyStages(x) \o HttpStages(x) \o MetaStages(x)

\* How an attempt ends, and the calls the middleware got.
Attempt(x) ==
    LET stages == Stages(x)
        failed == {i \in DOMAIN stages : stages[i].result # Fine}
        last == IF failed = {} THEN Len(stages) ELSE Min(failed)
    IN  [result |-> stages[last].result,
         calls |-> FlattenSeq([i \in 1..last |-> stages[i].calls])]

\* is_retryable_error.
RetryableStatuses == {"500", "502", "503", "504"}

Retryable(result) ==
    \/ result.error = "Timeout"
    \/ result.error = "Http" /\ result.cause \in RetryableStatuses \cup {"connect", "timeout"}

-----------------------------------------------------------------------------
(* What an attempt should come to.                                          *)

\* A document the client may hand on.
Trustworthy(x) ==
    /\ \/ x.scheme = "https"
       \/ x.allow_plaintext_http /\ ~x.body.doc.constraints /\ ~x.body.doc.interact
    /\ x.answer = "answer" /\ x.status \in {"200", "304"} /\ x.anml_content_type
    /\ x.body.arrives /\ x.body.utf8 /\ x.body.parses
    /\ x.body.size <= 1024 \/ x.body.size <= x.max_document_size
    /\ \A i \in DOMAIN x.body.doc.metas :
          LET meta == x.body.doc.metas[i]
          IN  /\ meta.name # "requires-ext"
              /\ meta.name = "profile" => meta.value \in SupportedProfiles
    /\ \A i \in DOMAIN x.middleware : /\ x.middleware[i].on_request = Fine
                                      /\ x.middleware[i].on_response = Fine

\* The layers of middleware around a complete exchange.
Onion(x) ==
    LET n == Len(x.middleware)
    IN  [k \in 1..(2 * n) |-> IF k <= n THEN [hook |-> "on_request", of |-> k]
                              ELSE [hook |-> "on_response", of |-> 2 * n + 1 - k]]

\* The server, or the way to it, failed in passing; or a middleware said so.
TransientFault(x) ==
    \/ x.answer # "answer" \/ ~x.body.arrives
    \/ x.status \in ServerErrors \ {"501"}
    \/ \E i \in DOMAIN x.middleware : \/ Retryable(x.middleware[i].on_request)
                                      \/ Retryable(x.middleware[i].on_response)
=============================================================================
