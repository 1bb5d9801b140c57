----------------------------- MODULE Parameters -----------------------------
(***************************************************************************)
(* Action parameters: collecting and validating them (collect_params of    *)
(* src/src/action/params.rs, validation.rs), and the three bodies they are *)
(* sent in.  A text is a sequence of symbols; a symbol is a character, or  *)
(* a whole word where only the word matters ("true", "NaN").  Numbers are  *)
(* integers within f64's exact range, and NaN.  Names and values are       *)
(* written out in each body, symbol by symbol; a JSON body is left         *)
(* structured between them: it is the sequence of its members.             *)
(***************************************************************************)
EXTENDS Integers, Sequences, SequencesExt

\* Optional attributes are sets of at most one value.
Only(set) == CHOOSE x \in set : TRUE

Digits == <<"0", "1", "2", "3", "4", "5", "6", "7", "8", "9">>

Digit == [d \in {"0", "1", "2", "3", "4", "5", "6", "7", "8", "9"} |->
            CHOOSE n \in 0..9 : Digits[n + 1] = d]

\* The characters that is_unreserved lets through, and the escapes of the others: a
\* triple %XX is one symbol.  "quote" is the double quote, "crlf" a line's end.
Unreserved == DOMAIN Digit \cup {"a", "b", "c", "m", "n", "true", "True", "false", "NaN",
                                "-", ".", "_", "~"}

OtherBytes == {"&", "=", "+", "%", "C3", "A9", "quote", "\\", "CR", "LF"}

Escaped == [byte \in OtherBytes |->
              CASE byte = "&" -> "%26" [] byte = "=" -> "%3D" [] byte = "+" -> "%2B"
                [] byte = "%" -> "%25" [] byte = "C3" -> "%C3" [] byte = "A9" -> "%A9"
                [] byte = "quote" -> "%22" [] byte = "\\" -> "%5C"
                [] byte = "CR" -> "%0D" [] byte = "LF" -> "%0A"]

Byte == Unreserved \cup OtherBytes \cup {" "}
Character == (Byte \ {"C3", "A9", "CR", "LF"}) \cup {"eacute", "crlf"}

-----------------------------------------------------------------------------
(* Texts and what they parse to (external: Rust's parsing and trimming).    *)

Trim(text) ==
    LET kept == {i \in DOMAIN text : text[i] \notin {" ", "crlf"}}
    IN  IF kept = {} THEN << >> ELSE SubSeq(text, Min(kept), Max(kept))

\* Bytes of a symbol, and of a text, in UTF-8.
Bytes(ch) ==
    CASE ch = "eacute" -> <<"C3", "A9">> [] ch = "crlf" -> <<"CR", "LF">> [] OTHER -> <<ch>>
BytesOf(text) == FoldLeft(LAMBDA bytes, ch : bytes \o Bytes(ch), << >>, text)
Width(ch) == CASE ch \in {"eacute", "crlf"} -> 2 [] ch \in {"true", "True"} -> 4 [] ch = "NaN" -> 3 [] OTHER -> 1
ByteLength(text) == FoldLeft(LAMBDA n, ch : n + Width(ch), 0, text)

IsDigits(text) == text # << >> /\ \A i \in DOMAIN text : text[i] \in DOMAIN Digit
Value(digits) == FoldLeft(LAMBDA n, d : 10 * n + Digit[d], 0, digits)

\* parse::<usize> and its kin, which take a leading "+".
Unsigned(text) ==
    LET digits == IF text # << >> /\ text[1] = "+" THEN Tail(text) ELSE text
    IN  IF IsDigits(digits) THEN {Value(digits)} ELSE {}

\* parse::<f64>: a number, NaN, or an error; the set of the number, if it is one.
Number(text) ==
    IF text # << >> /\ text[1] = "-"
    THEN {-Value(digits) : digits \in {t \in {Tail(text)} : IsDigits(t)}}
    ELSE Unsigned(text)

Parses(text) == text = <<"NaN">> \/ Number(text) # {}

Decimal[n \in Nat] ==
    IF n < 10 THEN <<Digits[n + 1]>> ELSE Append(Decimal[n \div 10], Digits[(n % 10) + 1])

Numeral(n) == IF n < 0 THEN <<"-">> \o Decimal[-n] ELSE Decimal[n]

-----------------------------------------------------------------------------
(* Canonical forms.                                                         *)

CanonicalNumber(text) ==
    LET number == Number(text)
    IN  IF number # {} THEN Numeral(Only(number)) ELSE text

CanonicalBoolean(text) ==
    CASE Trim(text) \in {<<"true">>, <<"True">>, <<"1">>} -> <<"true">>
      [] Trim(text) \in {<<"false">>, <<"0">>} -> <<"false">>
      [] OTHER -> text

CanonicalValue(text, type) ==
    CASE type = "number" -> CanonicalNumber(text)
      [] type = "boolean" -> CanonicalBoolean(text)
      [] OTHER -> text

Canonical(p) == CanonicalValue(p.value, p.type)

-----------------------------------------------------------------------------
(* collect_params: one value per definition that has one, in the order of   *)
(* the definitions.  The user's values are a sequence of names and texts;   *)
(* the map made of it keeps the last of a name.                             *)

FaultyUserValue(user, name) ==
    LET given == {i \in DOMAIN user : user[i].name = name}
    IN  IF given = {} THEN {} ELSE {Trim(user[Min(given)].value)}

UserValue(user, name) ==
    LET given == {i \in DOMAIN user : user[i].name = name}
    IN  IF given = {} THEN {} ELSE {Trim(user[Max(given)].value)}

ValueOf(user, def) ==
    IF UserValue(user, def.name) # {} THEN UserValue(user, def.name) ELSE def.default

Collected(user, params, def) ==
    IF ValueOf(user, def) = {} THEN params
    ELSE Append(params, [name |-> def.name, type |-> def.type,
                         value |-> Only(ValueOf(user, def))])

CollectParams(defs, user) ==
    FoldLeft(LAMBDA params, def : Collected(user, params, def), << >>, defs)

-----------------------------------------------------------------------------
(* validate_param.                                                          *)

Split(text, ch) ==
    LET from[i \in 1..(Len(text) + 1)] ==
            LET next == {j \in i..Len(text) : text[j] = ch}
            IN  IF next = {} THEN <<SubSeq(text, i, Len(text))>>
                ELSE <<SubSeq(text, i, Min(next) - 1)>> \o from[Min(next) + 1]
    IN  from[1]

IsDate(text) ==
    LET parts == Split(text, "-")
    IN  /\ ByteLength(text) = 10 /\ Len(parts) = 3
        /\ Len(parts[1]) = 4 /\ Len(parts[2]) = 2 /\ Len(parts[3]) = 2
        /\ Unsigned(parts[1]) # {}
        /\ Unsigned(parts[2]) # {} /\ Only(Unsigned(parts[2])) \in 1..12
        /\ Unsigned(parts[3]) # {} /\ Only(Unsigned(parts[3])) \in 1..31

IsDatetime(text) == Contains(text, "T") /\ ByteLength(text) >= 19

\* external: Url::parse, which wants a scheme.
IsUri(text) == Len(text) > 1 /\ text[1] = "a" /\ Contains(text, ":")

TypeHolds(value, type) ==
    CASE type = "number" -> Parses(value)
      [] type = "boolean" -> value \in {<<"true">>, <<"false">>}
      [] type = "date" -> IsDate(value)
      [] type = "datetime" -> IsDatetime(value)
      [] type = "uri" -> IsUri(value)
      [] OTHER -> TRUE

\* regex_lite_match: without its anchors a pattern is a literal, or not understood,
\* and then nothing matches it.
Meta == {".", "*", "+", "?", "[", "]", "(", ")", "{", "}", "|", "\\"}

PatternHolds(value, pattern) ==
    LET headless == IF pattern # << >> /\ pattern[1] = "^" THEN Tail(pattern) ELSE pattern
        inner == IF headless # << >> /\ Last(headless) = "$" THEN Front(headless) ELSE headless
    IN  (\A i \in DOMAIN inner : inner[i] \notin Meta) /\ value = inner

\* min and max bound the number, or the length; a bound that does not parse bounds
\* nothing, and NaN is on neither side of any.
Size(value, type) == IF type = "number" THEN Number(value) ELSE {ByteLength(value)}
Bound(text, type) == IF type = "number" THEN Number(text) ELSE Unsigned(text)

MinHolds(value, min, type) == \A n \in Size(value, type), m \in Bound(min, type) : n >= m

MaxHolds(value, max, type) == \A n \in Size(value, type), m \in Bound(max, type) : n <= m

EnumHolds(value, options) == options = {} \/ value \in options

\* The constraints in the order they are looked at; the first that fails is reported.
Checks(def, value) ==
    <<[constraint |-> "type", holds |-> TypeHolds(value, def.type)],
      [constraint |-> "pattern", holds |-> \A p \in def.pattern : PatternHolds(value, p)],
      [constraint |-> "min", holds |-> \A m \in def.min : MinHolds(value, m, def.type)],
      [constraint |-> "max", holds |-> \A m \in def.max : MaxHolds(value, m, def.type)],
      [constraint |-> "enum", holds |-> EnumHolds(value, def.options)]>>

\* `value` is the set of the value, if there is one.
FirstFailed(verdict, check) ==
    IF verdict = "ok" /\ ~check.holds THEN check.constraint ELSE verdict

ValidateParam(def, value) ==
    IF value = {} THEN IF def.required THEN "required" ELSE "ok"
    ELSE FoldLeft(FirstFailed, "ok", Checks(def, Only(value)))

\* The loop over the definitions: each is looked at with the first value of its name,
\* until one is violated.
FirstNamed(params, name) ==
    LET named == {i \in DOMAIN params : params[i].name = name}
    IN  IF named = {} THEN {} ELSE {params[Min(named)].value}

Validated(params, verdict, def) ==
    IF verdict.constraint # "ok" THEN verdict
    ELSE [param |-> def.name,
          constraint |-> ValidateParam(def, FirstNamed(params, def.name))]

ValidateParams(defs, params) ==
    FoldLeft(LAMBDA verdict, def : Validated(params, verdict, def),
             [param |-> "", constraint |-> "ok"], defs)

-----------------------------------------------------------------------------
(* The bodies.                                                              *)

FaultyPercentEncode(text) ==
    LET bytes == BytesOf(text)
    IN  [i \in DOMAIN bytes |-> IF bytes[i] \in Unreserved \cup {"+"} THEN bytes[i]
                                ELSE IF bytes[i] = " " THEN "+" ELSE Escaped[bytes[i]]]

Encoded(byte) ==
    CASE byte = " " -> "+" [] byte \in Unreserved -> byte [] OTHER -> Escaped[byte]

PercentEncode(text) ==
    LET bytes == BytesOf(text) IN [i \in DOMAIN bytes |-> Encoded(bytes[i])]

Pair(p) == PercentEncode(<<p.name>>) \o <<"=">> \o PercentEncode(Canonical(p))

Joined(body, p) == IF body = << >> THEN Pair(p) ELSE body \o <<"&">> \o Pair(p)

EncodeUrlencoded(params) == FoldLeft(Joined, << >>, params)

\* The delimiter, "--" and the boundary, is one symbol, and no text has it: 96 of the
\* boundary's bits are random.  The name is written as it is.
Delimiter == "--boundary"

Part(p) ==
    <<"crlf", "disposition", "quote", p.name, "quote", "crlf", "crlf">>
        \o Canonical(p) \o <<"crlf">>

Parted(body, p) == body \o <<Delimiter>> \o Part(p)

EncodeMultipart(params) ==
    FoldLeft(Parted, << >>, params) \o <<Delimiter>> \o <<"--", "crlf">>

\* json_escape_string, an escape being one symbol.
JsonEscaped(ch) ==
    CASE ch = "quote" -> "escaped quote" [] ch = "\\" -> "escaped backslash"
      [] ch = "crlf" -> "escaped crlf" [] OTHER -> ch

FaultyJsonString(text) == <<"quote">> \o text \o <<"quote">>

JsonString(text) ==
    <<"quote">> \o [i \in DOMAIN text |-> JsonEscaped(text[i])] \o <<"quote">>

\* A number that is none, or not finite, is a string; a boolean goes out bare, whatever
\* its canonical form is.
JsonValue(p) ==
    CASE p.type = "number" ->
            IF Number(p.value) # {} THEN CanonicalNumber(p.value) ELSE JsonString(p.value)
      [] p.type = "boolean" -> CanonicalBoolean(p.value)
      [] OTHER -> JsonString(Canonical(p))

\* The first loop gathers the values of each name, the second emits a name at its first
\* place, with an array if it comes again.
Gathers(name, values, p) == IF p.name = name THEN Append(values, JsonValue(p)) ELSE values

Member(params, name) ==
    LET values == FoldLeft(LAMBDA made, p : Gathers(name, made, p), << >>, params)
    IN  [name |-> name, key |-> JsonString(<<name>>),
         array |-> Len(values) > 1, values |-> values]

Emitted(params, members, p) ==
    IF \E k \in DOMAIN members : members[k].name = p.name THEN members
    ELSE Append(members, Member(params, p.name))

EncodeJson(params) ==
    FoldLeft(LAMBDA members, p : Emitted(params, members, p), << >>, params)

\* encode_body: anything but the other two is urlencoded.
EncodeBody(enctype, params) ==
    CASE enctype = "multipart" -> EncodeMultipart(params)
      [] enctype = "json" -> EncodeJson(params)
      [] OTHER -> EncodeUrlencoded(params)
=============================================================================
