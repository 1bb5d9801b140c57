---------------------------- MODULE ActionRequest ----------------------------
(***************************************************************************)
(* ActionRequestBuilder (src/src/action/builder.rs): an application names  *)
(* an action of the document, sets parameters and a consent basis in any   *)
(* order, and executes.  Every method consumes the builder, so a request   *)
(* is the sequence of the calls that made it.  Execution is followed up to *)
(* the body; module ActionExecution has the exchange.                      *)
(***************************************************************************)
EXTENDS Parameters

Rejected(param, constraint) ==
    [outcome |-> "rejected", param |-> param, constraint |-> constraint]

\* find_action: the first action with the id.
FindAction(actions, id) ==
    LET named == {i \in DOMAIN actions : actions[i].id = id}
    IN  IF named = {} THEN {} ELSE {actions[Min(named)]}

\* new: a deferred ask names no action.
NewRequest(actions, id) ==
    CASE id = "" -> Rejected("", "deferred")
      [] id # "" /\ FindAction(actions, id) = {} -> Rejected("", "unknown action")
      [] OTHER -> [outcome |-> "building", action |-> Only(FindAction(actions, id)),
                   params |-> << >>, consent |-> {}]

SetParam(b, name, text) ==
    [b EXCEPT !.params = Append(@, [name |-> name, value |-> text])]

\* parse_consent_basis, in any case of letters.
ParseConsentBasis(s) ==
    CASE s \in {"explicit", "Explicit"} -> {"explicit"}
      [] s \in {"implicit", "Implicit"} -> {"implicit"}
      [] s \in {"delegated", "Delegated"} -> {"delegated"}
      [] OTHER -> {}

WithConsent(b, basis) == [b EXCEPT !.consent = {basis}]

WithConsentStr(b, s) ==
    IF ParseConsentBasis(s) = {} THEN Rejected("consent_basis", "one-of")
    ELSE WithConsent(b, Only(ParseConsentBasis(s)))

\* The setters by type: each turns its value into text.
Called(b, call) ==
    CASE call.op = "param" -> SetParam(b, call.name, call.text)
      [] call.op = "param_i64" -> SetParam(b, call.name, Numeral(call.n))
      [] call.op = "param_f64" -> SetParam(b, call.name, CanonicalNumber(call.text))
      [] call.op = "param_bool" ->
            SetParam(b, call.name, IF call.b THEN <<"true">> ELSE <<"false">>)
      [] call.op = "with_consent" -> WithConsent(b, call.basis)
      [] call.op = "with_consent_str" -> WithConsentStr(b, call.basis)

\* An error ends the chain of calls.
Continued(b, call) == IF b.outcome = "building" THEN Called(b, call) ELSE b

Build(actions, id, calls) == FoldLeft(Continued, NewRequest(actions, id), calls)

\* validate_required_params: set by a call, or with a default.
MissingParams(b) ==
    {i \in DOMAIN b.action.params :
        LET def == b.action.params[i]
        IN  /\ def.required /\ def.default = {}
            /\ \A k \in DOMAIN b.params : b.params[k].name # def.name}

Execute(b) ==
    LET defs == b.action.params
        values == CollectParams(defs, b.params)
        verdict == ValidateParams(defs, values)
    IN  CASE MissingParams(b) # {} ->
                Rejected(defs[Min(MissingParams(b))].name, "required")
          [] MissingParams(b) = {} /\ verdict.constraint # "ok" ->
                Rejected(verdict.param, verdict.constraint)
          [] OTHER -> [outcome |-> "sent", values |-> values,
                       body |-> EncodeBody(b.action.enctype, values)]

Request(actions, id, calls) ==
    LET b == Build(actions, id, calls)
    IN  IF b.outcome = "building" THEN Execute(b) ELSE b

-----------------------------------------------------------------------------
(* What a request should have carried.                                      *)

Sets(c, name) ==
    c.op \in {"param", "param_i64", "param_f64", "param_bool"} /\ c.name = name

TextOf(c) ==
    CASE c.op = "param_i64" -> Numeral(c.n)
      [] c.op = "param_bool" -> IF c.b THEN <<"true">> ELSE <<"false">>
      [] c.op = "param_f64" -> CanonicalNumber(c.text)
      [] c.op = "param" -> c.text

\* The text of the last call for the name, or else the default.
Meant(def, calls) ==
    LET given == {k \in DOMAIN calls : Sets(calls[k], def.name)}
        last == {k \in given : \A later \in given : later <= k}
    IN  IF given = {} THEN def.default ELSE {Trim(TextOf(calls[k])) : k \in last}

\* The number a text spells, if it does: a sign, perhaps, and digits.
Spelled(text) ==
    LET signed == text # << >> /\ text[1] \in {"+", "-"}
        digits == IF signed THEN Tail(text) ELSE text
    IN  IF ~IsDigits(digits) THEN {}
        ELSE IF signed /\ text[1] = "-" THEN {-Value(digits)} ELSE {Value(digits)}

\* Acceptable as a value of the parameter.  Numbers bound a number, unsigned ones a
\* length; a pattern, which may spell out its anchors, has no metacharacter.
Acceptable(def, text) ==
    LET number == def.type = "number"
        sizes == IF number THEN Spelled(text) ELSE {ByteLength(text)}
        bounds(m) == IF ~number /\ m # << >> /\ m[1] = "-" THEN {} ELSE Spelled(m)
        literal(p) ==
            SubSeq(p, IF p # << >> /\ p[1] = "^" THEN 2 ELSE 1,
                   IF p # << >> /\ p[Len(p)] = "$" THEN Len(p) - 1 ELSE Len(p))
    IN  /\ TypeHolds(text, def.type)
        /\ \A p \in def.pattern :
              text = literal(p) /\ \A i \in DOMAIN text : text[i] \notin Meta
        /\ \A m \in def.min : \A size \in sizes, bound \in bounds(m) : size >= bound
        /\ \A m \in def.max : \A size \in sizes, bound \in bounds(m) : size <= bound
        /\ def.options = {} \/ text \in def.options

\* The body read back: what a service that decodes it finds.
DecodeByte(symbol) ==
    LET escapes == {byte \in OtherBytes : Escaped[byte] = symbol}
    IN  IF symbol = "+" THEN " " ELSE IF escapes = {} THEN symbol ELSE Only(escapes)

DecodeUrlencoded(body) ==
    LET pairs == IF body = << >> THEN << >> ELSE Split(body, "&")
        decoded(text) == [i \in DOMAIN text |-> DecodeByte(text[i])]
    IN  [i \in DOMAIN pairs |->
           LET at == SelectInSeq(pairs[i], LAMBDA ch : ch = "=")
           IN  [name |-> decoded(SubSeq(pairs[i], 1, at - 1)),
                bytes |-> decoded(SubSeq(pairs[i], at + 1, Len(pairs[i])))]]

\* A part between two delimiters (RFC 2046): the name in the quotes of its header, then
\* what is between the empty line and the line's end before the next delimiter.
DecodePart(part) ==
    LET quotes(i) == {j \in i..Len(part) : part[j] = "quote"}
        opens == Min(quotes(1))
        header == Min({i \in 1..(Len(part) - 1) : part[i] = "crlf" /\ part[i + 1] = "crlf"})
    IN  [name |-> SubSeq(part, opens + 1, Min(quotes(opens + 1)) - 1),
         value |-> SubSeq(part, header + 2, Len(part) - 1)]

\* Nothing counts before the first delimiter or after the last.
DecodeMultipart(body) ==
    LET pieces == Split(body, Delimiter)
    IN  [i \in 1..(Len(pieces) - 2) |-> DecodePart(pieces[i + 1])]

\* A JSON value (RFC 8259): a string if it is quoted and nothing between the quotes is
\* left unescaped that must not be, a number if it is digits without a leading zero.
Unescaped(symbol) ==
    CASE symbol = "escaped quote" -> "quote" [] symbol = "escaped backslash" -> "\\"
      [] symbol = "escaped crlf" -> "crlf" [] OTHER -> symbol

IsJsonString(token) ==
    /\ Len(token) > 1 /\ token[1] = "quote" /\ token[Len(token)] = "quote"
    /\ \A i \in 2..(Len(token) - 1) : token[i] \notin {"quote", "\\", "crlf"}

IsJsonNumber(token) ==
    LET digits == IF token # << >> /\ token[1] = "-" THEN Tail(token) ELSE token
    IN  IsDigits(digits) /\ (Len(digits) > 1 => digits[1] # "0")

ReadJson(token) ==
    CASE IsJsonString(token) ->
            [kind |-> "string",
             text |-> [i \in 1..(Len(token) - 2) |-> Unescaped(token[i + 1])]]
      [] IsJsonNumber(token) -> [kind |-> "number", text |-> token]
      [] token \in {<<"true">>, <<"false">>} -> [kind |-> "boolean", text |-> token]
      [] OTHER -> [kind |-> "malformed", text |-> token]

\* What should be read of a value.
JsonMeant(p) ==
    [kind |-> CASE p.type = "boolean" -> "boolean"
                [] p.type = "number" /\ Number(p.value) # {} -> "number"
                [] OTHER -> "string",
     text |-> Canonical(p)]
=============================================================================
