---------------------------- MODULE MCAlgorithms ----------------------------
(***************************************************************************)
(* The calls of Algorithms for TLC: short texts over small alphabets, and  *)
(* exchanges and sites in which any one part, or two, go wrong, builders   *)
(* of up to three calls, and values of each type and none.                 *)
(***************************************************************************)
EXTENDS Algorithms

-----------------------------------------------------------------------------
(* Rules.                                                                   *)

Words(alphabet, n) == UNION {[1..k -> alphabet] : k \in 0..n}

ShortFields == Words({"a", "b", "."}, 3)

\* A list of selectors becomes rules numbered in document order.
Listed(selectors) ==
    [i \in DOMAIN selectors |-> [kind |-> selectors[i][1], text |-> selectors[i][2],
                                 order |-> i]]

OnePattern == {Listed(<<<<"pattern", p>>>>) : p \in Words({"a", ".", "*", "?", "\\"}, 4)}

OnePrefix == {Listed(<<<<"prefix", p>>>>) : p \in Words({"a", "b", "."}, 2)}

Selectors ==
    {<<"default", <<>>>>}
    \cup {<<"exact", t>> : t \in {<<"a">>, <<"a", ".", "b">>}}
    \cup {<<"prefix", t>> : t \in {<<>>, <<"a">>, <<"b">>, <<"a", ".", "b">>}}
    \cup {<<"pattern", t>> : t \in {<<"*">>, <<"*", "*">>, <<"a", "*">>, <<"?", ".", "?">>,
                                    <<"a", "?", "*">>, <<"\\", "a", "*">>}}

ThreeRules == {Listed(s) : s \in Words(Selectors, 3)}

RuleCalls(lists) == [kind : {"rule"}, field : ShortFields, rules : lists]

PrefixCalls == RuleCalls(OnePrefix)

-----------------------------------------------------------------------------
(* Requests.                                                                *)

Def(name, type) == [name |-> name, type |-> type, required |-> FALSE, default |-> {},
                    pattern |-> {}, min |-> {}, max |-> {}, options |-> {}]

SomeDate == <<"2", "0", "2", "4", "-", "0", "2", "-", "3", "1">>

\* A first definition of every type and constraint, then perhaps one more, of another
\* name or of the same.
FirstDefs ==
    LET kinds == {Def("a", "string"), Def("a", "date"), Def("a", "boolean"),
                  [Def("a", "string") EXCEPT !.min = {<<"2">>}, !.max = {<<"2">>}],
                  [Def("a", "string") EXCEPT !.pattern = {<<"^", "a", "$">>}],
                  [Def("a", "string") EXCEPT !.options = {<<"a">>, <<"5">>}],
                  [Def("a", "string") EXCEPT !.pattern = {<<"a", "$">>}, !.max = {<<"-", "1">>}],
                  [Def("a", "number") EXCEPT !.min = {<<"-", "2">>}, !.max = {<<"+", "9">>}]}
    IN  UNION {{d, [d EXCEPT !.required = TRUE], [d EXCEPT !.default = {<<"4">>}]} : d \in kinds}

DefLists ==
    {<<d>> : d \in FirstDefs}
    \cup {<<d, [Def(name, "string") EXCEPT !.default = {<<"a">>}]>> :
              d \in FirstDefs, name \in {"a", "b"}}
    \cup {<<Def("a", "string"), [d EXCEPT !.default = {<<"a">>}]>> :
              d \in {Def("a", "boolean"), Def("quote", "string")}}

Setters ==
    LET none == [op |-> "", name |-> "", text |-> << >>, n |-> 0, b |-> FALSE, basis |-> ""]
        texts == {<<>>, <<"a">>, <<" ", "5">>, <<"1", "0">>, <<"eacute">>, <<"&", "=", "\\">>,
                  <<"a", "crlf", "crlf", " ", "%", "quote">>, <<"True">>, SomeDate}
    IN  {[none EXCEPT !.op = "param", !.name = "a", !.text = t] : t \in texts}
        \cup {[none EXCEPT !.op = "param", !.name = name, !.text = <<"+">>] : name \in {"b", "c"}}
        \cup {[none EXCEPT !.op = "param_i64", !.name = "a", !.n = n] : n \in {-3, 5}}
        \cup {[none EXCEPT !.op = "param_f64", !.name = "a", !.text = <<"NaN">>],
              [none EXCEPT !.op = "param_bool", !.name = "a", !.b = TRUE],
              [none EXCEPT !.op = "with_consent", !.basis = "explicit"],
              [none EXCEPT !.op = "with_consent_str", !.basis = "Implied"]}

RequestCalls ==
    LET action(id, enctype, defs) == [id |-> id, enctype |-> enctype, params |-> defs]
    IN  UNION {[kind : {"request"}, id : {"book"}, calls : Words(Setters, 2),
                actions : {<<action("find", "json", << >>), action("book", e, defs)>>}] :
                    e \in {"urlencoded", "multipart", "json"}, defs \in DefLists}
        \cup [kind : {"request"}, id : {"", "find", "sell"}, calls : Words(Setters, 1),
              actions : {<<action("find", "json", << >>)>>}]

-----------------------------------------------------------------------------
(* Fetches.                                                                 *)

EmptyDoc == [constraints |-> FALSE, interact |-> FALSE, metas |-> << >>]

Docs ==
    {[constraints |-> c, interact |-> i, metas |-> m] :
        c \in BOOLEAN, i \in BOOLEAN,
        m \in {<< >>, <<[name |-> "profile", value |-> "core-1.0"]>>,
               <<[name |-> "profile", value |-> "core-1.0"],
                 [name |-> "profile", value |-> "core-2.0"]>>,
               <<[name |-> "profile", value |-> "core-2.0"],
                 [name |-> "requires-ext", value |-> "urn:x"]>>}}

Bodies ==
    LET body == [arrives |-> TRUE, size |-> 100, utf8 |-> TRUE, parses |-> TRUE,
                 doc |-> EmptyDoc]
    IN  {[body EXCEPT !.doc = d] : d \in Docs}
        \cup {[body EXCEPT !.size = n] : n \in {1024, 1500, 3000}}
        \cup {[body EXCEPT !.arrives = FALSE], [body EXCEPT !.utf8 = FALSE],
              [body EXCEPT !.parses = FALSE]}

Middlewares ==
    LET quiet == [on_request |-> Fine, on_response |-> Fine]
    IN  {<< >>, <<quiet, quiet>>}
        \cup {<<quiet, [quiet EXCEPT !.on_request = e]>> :
                  e \in {Err("Timeout", "middleware"), Err("Auth", "middleware")}}
        \cup {<<[quiet EXCEPT !.on_response = Err("Auth", "middleware")], quiet>>}

FetchCalls ==
    LET exchanges(answers, statuses, bodies) ==
            [scheme : {"http", "https"}, allow_plaintext_http : BOOLEAN,
             max_document_size : {100, 2000}, middleware : Middlewares,
             answer : answers, status : statuses, anml_content_type : BOOLEAN, body : bodies]
        some == CHOOSE b \in Bodies : b.size = 100 /\ b.doc = EmptyDoc /\ b.arrives
                                      /\ b.utf8 /\ b.parses
    IN  [kind : {"fetch"},
         exchange : exchanges({"timeout", "refused"}, {"200"}, {some})
                    \cup exchanges({"answer"}, {"404", "406", "500", "501"}, {some})
                    \cup exchanges({"answer"}, {"200", "304"}, Bodies)]

-----------------------------------------------------------------------------
(* Discovery.                                                               *)

Link(href, rel, type, key, quoted) ==
    [href |-> href, rel |-> <<rel>>, type |-> <<type>>, key |-> key, quoted |-> quoted]

HeaderLinks ==
    {Link({<<"/", "a">>}, "alternate", "anml", "rel", TRUE),
     Link({<<"https://", "a", ",", "b">>}, "alternate", "anml", "Rel", FALSE),
     Link({<<"/", "a", ",", ";">>}, "next", "anml", "rel", TRUE),
     Link({<<"b">>}, "alternate", "html", "rel", FALSE)}

\* An HTML link may lack its reference.
HtmlLinks == {Link({}, "alternate", "anml", "rel", TRUE),
              Link({<<"http://", "h">>}, "alternate", "anml", "rel", TRUE),
              Link({<<"h">>}, "next", "html", "rel", TRUE)}

WellKnowns == [answers : BOOLEAN, success : BOOLEAN, anml_content_type : BOOLEAN, parses : BOOLEAN]

Txt(key, value) == [key |-> key, value |-> value]

Dnss == [srv : {<< >>, <<[target |-> "s", port |-> "80"], [target |-> "t", port |-> "81"]>>},
         txt : {<< >>, <<Txt("v", <<"anml1">>)>>, <<Txt("v", <<"anml2">>)>>,
                <<Txt("path", <<"p">>), Txt("v", <<"anml1">>), Txt("path", <<"/", "q">>)>>}]

Sites(wellKnowns, htmls, dnss) ==
    [origin : {<<"https://", "o">>, <<"https://", "o", "/">>},
     features : SUBSET {"html-discovery", "dns-sd"},
     well_known : wellKnowns, link : [answers : BOOLEAN, headers : {<< >>}],
     html : [answers : {TRUE}, success : BOOLEAN, links : htmls], dns : dnss]

NoWellKnown == [answers |-> FALSE, success |-> FALSE, anml_content_type |-> FALSE,
                parses |-> FALSE]
NoDns == [srv |-> << >>, txt |-> << >>]

DiscoverCalls ==
    [kind : {"discover"}, links : Words(Words(HeaderLinks, 2), 2),
     site : Sites({NoWellKnown}, {<< >>}, {NoDns})]
    \cup [kind : {"discover"}, links : {<< >>} \cup {<<<<l>>>> : l \in HeaderLinks},
          site : Sites(WellKnowns, Words(HtmlLinks, 2), Dnss)]

-----------------------------------------------------------------------------
(* Media.                                                                   *)

Attributes ==
    Words([algorithm : {"md5", "sha256", "sha384", "sha512"},
           digest : {<<a, "bytes">> : a \in {"sha256", "sha384", "sha512"}}
                    \cup {<<"sha512", "other">>}], 3)

MediaCalls ==
    [kind : {"media"}, bytes : {"bytes"}, inference : {{}, {"required"}},
     integrity : {{}} \cup {{attr} : attr \in Attributes}]

-----------------------------------------------------------------------------
(* Clients.                                                                 *)

ListedUrl(scheme, host, port, parses) ==
    [scheme |-> scheme, host |-> host, port |-> port, parses |-> parses]

Lists == {<< >>, <<ListedUrl("https", "a", {8443}, TRUE)>>,
          <<ListedUrl("https", "a", {443}, TRUE), ListedUrl("http", "b", {81}, TRUE)>>,
          <<ListedUrl("https", "a", {}, FALSE), ListedUrl("http", "a", {}, TRUE)>>}

BuilderCalls ==
    LET calls(op, values) == {[op |-> op, value |-> v] : v \in values}
        header(name, value, valid) == [name |-> name, value |-> value, valid |-> valid]
    IN  calls("timeout", {10, 45})
        \cup calls("timeouts", {[DefaultTimeouts EXCEPT !.per_request = 20, !.per_flow = 90]})
        \cup calls("resource_limits", {[DefaultLimits EXCEPT !.max_depth = 2, !.max_elements = 11]})
        \cup calls("default_headers", {header("accept", "x", TRUE), header("accept", "y", TRUE),
                                       header("accept", "z", FALSE), header("from", "x", TRUE)})
        \cup calls("middleware", {1, 2})
        \cup calls("trust_policy", Lists)
        \cup calls("circuit_breaker_threshold", {3})
        \cup calls("allow_plaintext_http", BOOLEAN)

ClientCalls ==
    [kind : {"client"}, calls : Words(BuilderCalls, 3),
     origin : [scheme : {"https", "http"}, host : {"a"}, port : {{}, {8443}, {443}}]
              \cup [scheme : {"http"}, host : {"b"}, port : {{}, {81}}]]

-----------------------------------------------------------------------------
(* Endpoints.                                                               *)

Address4 == {<<a, b, 0, d>> : a \in {0, 9, 10, 126, 127, 171, 172, 192},
                              b \in {0, 15, 16, 31, 32, 48, 168, 169}, d \in {0, 1}}
Address6 == {<<a>> \o Zeros(14) \o <<d>> : a \in {0, 251, 252, 253, 254}, d \in {0, 1, 2}}

PublicAddress == <<9, 0, 0, 1>>

\* The addresses of a host: none, one, or a public one and another.
Lookups == {{}} \cup {{ip} : ip \in Address4 \cup Address6}
               \cup {{PublicAddress, ip} : ip \in Address4}

Ref(kind, url) == [kind |-> kind, url |-> url]

Bases == {Ref("absolute", Url("https", {"h"}, {8443}, <<"d", "">>)),
          Ref("absolute", Url("https", {"h"}, {}, << >>)),
          Ref("rooted", Url("", {}, {}, <<"d">>))}

References ==
    {Ref("absolute", Url(s, {"e"}, port, <<"x">>)) : s \in {"http", "https"},
                                                          port \in {{}, {443}, {81}}}
    \cup {Ref("absolute", Url("mailto", {}, {}, <<"x">>)),
          Ref("rooted", Url("", {}, {}, <<"x", "y">>)),
          Ref("path", Url("", {}, {}, <<"x">>)),
          Ref("network", Url("", {"e"}, {81}, <<"x">>)),
          Ref("bad", Url("", {}, {}, << >>))}

EndpointCalls ==
    LET exchange(ref, origin, base, h, e) ==
            [endpoint |-> ref, origin |-> origin, xml_base |-> base,
             addresses |-> [host \in {"h", "e"} |-> IF host = "h" THEN h ELSE e]]
        some == {{}, {PublicAddress}, {<<127, 0, 0, 1>>}}
    IN  [kind : {"endpoint"},
         endpoint : {exchange(r, o, b, h, e) : r \in References, o \in Bases,
                        b \in {{}} \cup {{base} : base \in Bases}, h \in some, e \in some}
                    \cup {exchange(r, o, {}, h, {}) :
                        r \in {Ref("path", Url("", {}, {}, <<"x">>))},
                        o \in Bases, h \in Lookups}]

-----------------------------------------------------------------------------
(* Values.                                                                  *)

Ask(field, types) == [field |-> field, type |-> types]

AskLists ==
    LET types == {{}} \cup {{t} : t \in {"string", "number", "boolean", "date", "datetime", "uri"}}
    IN  {{}, {<< >>}}
        \cup {{<<Ask("b", {"number"}), Ask("a", t)>>} : t \in types}
        \cup {{<<Ask("a", t), Ask("a", {"boolean"})>>} : t \in types}

Date(y, m, d) == y \o <<"-">> \o m \o <<"-">> \o d

SomeValues ==
    Words({"a", "5", "-", "+", ":", "eacute", "NaN", "true"}, 3)
    \cup {Date(y, m, d) : y \in {<<"2", "0", "2", "4">>, <<"+", "1", "2", "3">>,
                                 <<"2", "0", "eacute">>, <<"2", "0", "2", "eacute">>},
                         m \in {<<"0", "2">>, <<"1", "3">>, <<"eacute">>, <<"+", "1">>},
                         d \in {<<"3", "1">>, <<"3", "2">>, <<"eacute">>, <<"1">>}}
    \cup {SomeDate \o <<"T", "0", "1", ":", "0", "2", ":", "0", "3">>, SomeDate \o <<"T">>}

ValueCalls ==
    [kind : {"value"}, field : {"a", "c"}, text : SomeValues,
     doc : [knowledge : AskLists, asks : {{}, {<<Ask("a", {"number"})>>}}]]

-----------------------------------------------------------------------------
AllCalls ==
    RuleCalls(OnePattern \cup ThreeRules) \cup RequestCalls \cup FetchCalls
        \cup DiscoverCalls \cup MediaCalls \cup ClientCalls \cup EndpointCalls
        \cup ValueCalls
=============================================================================
