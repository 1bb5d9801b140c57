--------------------------- MODULE DisclosedValue ---------------------------
(***************************************************************************)
(* Step 5 of the disclosure evaluation (validate_value of                  *)
(* src/src/disclosure/mod.rs): the value against the type its field's      *)
(* <ask> wants.  A document has, or has not, a <knowledge> section with    *)
(* asks and asks of its own: `knowledge` and `asks` are sets of at most    *)
(* one sequence.  The same types are checked for action parameters, by     *)
(* other code (module Parameters).                                         *)
(***************************************************************************)
EXTENDS Parameters

\* find_ask: the asks of the document itself count only without a <knowledge> that
\* has some.
FindAsk(doc, field) ==
    LET list == IF doc.knowledge # {} THEN doc.knowledge ELSE doc.asks
        asks == IF list = {} THEN << >> ELSE Only(list)
        named == {i \in DOMAIN asks : asks[i].field = field}
    IN  IF named = {} THEN {} ELSE {asks[Min(named)]}

-----------------------------------------------------------------------------
(* The date check looks at characters, then cuts the text at bytes.         *)

\* The number of characters before a byte, if a character begins there.
CharsBefore(text, byte) == {n \in 0..Len(text) : ByteLength(SubSeq(text, 1, n)) = byte}

Parsed(text, from, to) ==
    IF CharsBefore(text, from) = {} \/ CharsBefore(text, to) = {} THEN "panics"
    ELSE IF Unsigned(SubSeq(text, Only(CharsBefore(text, from)) + 1,
                            Only(CharsBefore(text, to)))) # {} THEN "yes" ELSE "no"

FaultyDateFits(text) ==
    LET parts == <<Parsed(text, 0, 4), Parsed(text, 4, 7), Parsed(text, 8, 10)>>
        decided == {i \in DOMAIN parts : parts[i] # "yes"}
    IN  IF ~(ByteLength(text) = 10 /\ Len(text) >= 8 /\ text[5] = "-" /\ text[8] = "-") THEN "no"
        ELSE IF decided = {} THEN "yes" ELSE parts[Min(decided)]

DateFits(text) ==
    LET parts == <<Parsed(text, 0, 4), Parsed(text, 5, 7), Parsed(text, 8, 10)>>
        decided == {i \in DOMAIN parts : parts[i] # "yes"}
    IN  IF ~(ByteLength(text) = 10 /\ Len(text) >= 8 /\ text[5] = "-" /\ text[8] = "-") THEN "no"
        ELSE IF decided = {} THEN "yes" ELSE parts[Min(decided)]

\* validate_type; an unknown type admits everything.
TypeFits(text, type) ==
    CASE type = "date" -> DateFits(text)
      [] type \in {"number", "boolean", "datetime", "uri"} ->
            IF TypeHolds(text, type) THEN "yes" ELSE "no"
      [] OTHER -> "yes"

\* validate_value; an ask need not have a type.
ValidateValue(doc, field, text) ==
    LET types == UNION {ask.type : ask \in FindAsk(doc, field)}
    IN  IF types = {} THEN "yes" ELSE TypeFits(text, Only(types))
=============================================================================
