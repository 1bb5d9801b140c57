--------------------------- MODULE Configuration ---------------------------
(***************************************************************************)
(* Building a client (AnmlClientBuilder of src/src/client.rs with          *)
(* ClientConfigBuilder of config.rs) and the trust policies (config.rs).   *)
(* Every setter consumes the builder, so a client is made by a sequence of *)
(* calls.  Handlers, policies and texts are values; a setting that was     *)
(* never made is the empty set.                                            *)
(***************************************************************************)
EXTENDS Integers, Sequences, SequencesExt

-----------------------------------------------------------------------------
(* Values and their defaults, in seconds.                                   *)

DefaultTimeouts ==
    [per_request |-> 30, per_action |-> 60, per_flow |-> 300, per_media_fetch |-> 15,
     parse |-> 5]

DefaultLimits ==
    [max_document_size |-> 1048576, max_depth |-> 64, max_elements |-> 10000,
     max_attribute_value_length |-> 65536, max_attributes_per_element |-> 256,
     max_text_per_element |-> 262144, max_entity_expansion_ratio |-> 64,
     max_parse_time |-> 5, max_disclosure_rules |-> 1000,
     max_knowledge_primitives |-> 1000, max_steps_per_flow |-> 256]

Floors ==
    [max_document_size |-> 1024, max_depth |-> 4, max_elements |-> 10,
     max_attribute_value_length |-> 256, max_attributes_per_element |-> 4,
     max_text_per_element |-> 256, max_entity_expansion_ratio |-> 1,
     max_parse_time |-> 1, max_disclosure_rules |-> 1,
     max_knowledge_primitives |-> 1, max_steps_per_flow |-> 1]

\* ResourceLimits::clamp: a limit below its floor is its floor.
Clamp(limit, floor) == IF limit < floor THEN floor ELSE limit
ClampAll(limits) == [l \in DOMAIN Floors |-> Clamp(limits[l], Floors[l])]

-----------------------------------------------------------------------------
(* Trust policies.  An origin, and a URL that parses, has a scheme, a host  *)
(* and perhaps a port.                                                      *)

DenyAll == << >>

\* external: Url::port leaves out the port its scheme has anyway.
StandardPort == [https |-> 443, http |-> 80]
NamedPort(url) == url.port \ {StandardPort[url.scheme]}

WebSchemes == DOMAIN StandardPort
Origin == [scheme : WebSchemes, host : STRING, port : SUBSET Nat]
NamesOnePort(url) == url.port \subseteq Nat /\ \A p, q \in url.port : p = q

\* AllowListTrustPolicy with the origins of these URLs; one that does not parse is
\* left out.
AllowList(urls) ==
    {[scheme |-> urls[i].scheme, host |-> urls[i].host, port |-> NamedPort(urls[i])] :
        i \in {j \in DOMAIN urls : urls[j].parses}}

\* An entry without a port stands for all ports of its host.
TrustEvaluate(policy, origin) ==
    origin \in AllowList(policy) \/ [origin EXCEPT !.port = {}] \in AllowList(policy)

-----------------------------------------------------------------------------
(* The builder.                                                             *)

\* What holds if it is never set, by setting.
Defaults ==
    [base_url |-> {}, timeouts |-> DefaultTimeouts, allow_plaintext_http |-> FALSE,
     resource_limits |-> DefaultLimits, action_budget |-> "default", trust_policy |-> DenyAll,
     auth_provider |-> {}, consent_handler |-> {}, confirm_handler |-> {},
     condition_evaluator |-> {}, audit_log |-> "noop", retry_policy |-> "default",
     circuit_breaker_threshold |-> 5, circuit_breaker_cooldown |-> 60, restore_state |-> {}]

NewBuilder ==
    [settings |-> [s \in DOMAIN Defaults |-> {}], default_headers |-> << >>,
     middleware |-> << >>]

Setting(b, s) ==
    IF b.settings[s] = {} THEN Defaults[s] ELSE CHOOSE v \in b.settings[s] : TRUE

\* Most setters replace what was set before; `timeout` changes one of the timeouts,
\* and the other two add to a list.
FaultyConfigured(b, call) ==
    CASE call.op = "timeout" ->
            [b EXCEPT !.settings["timeouts"] =
                {[DefaultTimeouts EXCEPT !.per_request = call.value]}]
      [] call.op \in {"default_headers", "middleware"} ->
            [b EXCEPT ![call.op] = Append(@, call.value)]
      [] OTHER -> [b EXCEPT !.settings[call.op] = {call.value}]

Configured(b, call) ==
    CASE call.op = "timeout" ->
            [b EXCEPT !.settings["timeouts"] =
                {[Setting(b, "timeouts") EXCEPT !.per_request = call.value]}]
      [] call.op \in {"default_headers", "middleware"} ->
            [b EXCEPT ![call.op] = Append(@, call.value)]
      [] OTHER -> [b EXCEPT !.settings[call.op] = {call.value}]

\* The headers of the HTTP client: those that are well formed, of one name the last.
HeadersSent(list) ==
    LET good == {i \in DOMAIN list : list[i].valid}
    IN  [name \in {list[i].name : i \in good} |->
            list[Max({i \in good : list[i].name = name})].value]

BuildClient(b) ==
    [settings |-> [s \in DOMAIN Defaults |->
                      IF s = "resource_limits" THEN ClampAll(Setting(b, s)) ELSE Setting(b, s)],
     headers |-> HeadersSent(b.default_headers),
     middleware |-> b.middleware]

\* AnmlClient::builder, the setters, and build.
Client(calls) == BuildClient(FoldLeft(Configured, NewBuilder, calls))

-----------------------------------------------------------------------------
(* What the calls asked for.                                                *)

\* The value of the last call of one of these setters, if there is one.
LastTold(calls, ops) ==
    LET told == {i \in DOMAIN calls : calls[i].op \in ops}
    IN  IF told = {} THEN {} ELSE {calls[Max(told)]}

\* The value of the last call of this setter, or its default.
ToldLast(calls, s) ==
    IF LastTold(calls, {s}) = {} THEN Defaults[s]
    ELSE (CHOOSE c \in LastTold(calls, {s}) : TRUE).value

\* The well formed headers, of one name the last.
HeadersTold(headers, calls) ==
    LET sent == {i \in DOMAIN calls : calls[i].op = "default_headers" /\ calls[i].value.valid}
    IN  /\ DOMAIN headers = {calls[i].value.name : i \in sent}
        /\ \A n \in DOMAIN headers :
              headers[n] = calls[Max({i \in sent : calls[i].value.name = n})].value.value

\* All that was added, in the order of the calls.
AddedInOrder(list, calls) ==
    LET added == {i \in DOMAIN calls : calls[i].op = "middleware"}
    IN  \E at \in [DOMAIN list -> added] :
            /\ added = Range(at)
            /\ \A i, j \in DOMAIN at : i < j => at[i] < at[j]
            /\ \A i \in DOMAIN at : list[i] = calls[at[i]].value

\* The port a connection would be made to.
PortOf(origin) == IF origin.port = {} THEN {StandardPort[origin.scheme]} ELSE origin.port

\* The origin is one of those listed: a URL with a port of its own lists that port.
ListsOrigin(urls, origin) ==
    \E i \in DOMAIN urls :
        /\ urls[i].parses /\ urls[i].scheme = origin.scheme /\ urls[i].host = origin.host
        /\ PortOf(urls[i]) = PortOf(origin) \/ PortOf(urls[i]) = {StandardPort[origin.scheme]}
=============================================================================
