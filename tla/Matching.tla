------------------------------ MODULE Matching ------------------------------
(***************************************************************************)
(* Disclosure rule matching (src/src/disclosure/matching.rs): which of a   *)
(* document's rules governs a field.  Names, prefixes and patterns are     *)
(* sequences of characters; what a rule requires does not matter here.     *)
(* Module Algorithms puts the functions to work.                           *)
(***************************************************************************)
EXTENDS Integers, Sequences, FiniteSets, SequencesExt

None == [kind |-> "none"]

-----------------------------------------------------------------------------
(* field-prefix.                                                            *)

\* The byte after the prefix's length decides; the prefix itself is not compared.
MatchesPrefix(f, s) == f = s \/ (Len(f) > Len(s) /\ f[Len(s) + 1] = ".")

-----------------------------------------------------------------------------
(* field-pattern.                                                           *)

Token(kind, ch) == [kind |-> kind, ch |-> ch]

\* "\X" is the literal X (a last "\" is itself), "**" is one token, read greedily.
Tokens(p) ==
    LET from[i \in 1..(Len(p) + 1)] ==
            IF i > Len(p) THEN <<>>
            ELSE CASE p[i] = "\\" /\ i < Len(p) ->
                        <<Token("literal", p[i + 1])>> \o from[i + 2]
                   [] p[i] = "*" /\ i < Len(p) /\ p[i + 1] = "*" ->
                        <<Token("doublestar", "*")>> \o from[i + 2]
                   [] p[i] = "*" /\ ~(i < Len(p) /\ p[i + 1] = "*") ->
                        <<Token("star", "*")>> \o from[i + 1]
                   [] p[i] = "?" -> <<Token("question", "?")>> \o from[i + 1]
                   [] OTHER -> <<Token("literal", p[i])>> \o from[i + 1]
    IN  from[1]

\* The recursive matcher: match[ti] holds each ii such that the tokens after ti match
\* the input after ii.
FaultyPatternMatch(tokens, input) ==
    LET n == Len(tokens)
        k == Len(input)
        match[ti \in 0..n] ==
            IF ti = n THEN {k}
            ELSE LET t == tokens[ti + 1]
                     rest == match[ti + 1]
                 IN  {ii \in 0..k :
                        CASE t.kind = "literal" ->
                                ii < k /\ input[ii + 1] = t.ch /\ ii + 1 \in rest
                          [] t.kind = "question" -> ii < k /\ ii + 1 \in rest
                          [] OTHER -> \E j \in ii..k : j \in rest}
    IN  0 \in match[0]

PatternMatch(tokens, input) ==
    LET n == Len(tokens)
        k == Len(input)
        match[ti \in 0..n] ==
            IF ti = n THEN {k}
            ELSE LET t == tokens[ti + 1]
                     rest == match[ti + 1]
                 IN  {ii \in 0..k :
                        CASE t.kind = "literal" ->
                                ii < k /\ input[ii + 1] = t.ch /\ ii + 1 \in rest
                          [] t.kind = "question" ->
                                ii < k /\ input[ii + 1] # "." /\ ii + 1 \in rest
                          [] t.kind = "star" ->
                                \E j \in ii..k : /\ \A m \in (ii + 1)..j : input[m] # "."
                                                 /\ j \in rest
                          [] t.kind = "doublestar" -> \E j \in ii..k : j \in rest}
    IN  0 \in match[0]

MatchesPattern(f, p) == PatternMatch(Tokens(p), f)

CountMetacharacters(p) ==
    LET tokens == Tokens(p)
    IN  Cardinality({i \in DOMAIN tokens : tokens[i].kind # "literal"})

\* Characters, an escaped one counted once, before the first metacharacter.
LiteralPrefixLength(p) ==
    LET from[i \in 1..(Len(p) + 2)] ==
            IF i > Len(p) \/ (i <= Len(p) /\ p[i] \in {"*", "?"}) THEN 0
            ELSE 1 + from[i + (IF p[i] = "\\" THEN 2 ELSE 1)]
    IN  from[1]

-----------------------------------------------------------------------------
(* resolve_rule.                                                            *)

\* Does a matching rule replace the best one found so far?
PrefixBeats(r, best) ==
    \/ best = None
    \/ Len(r.text) > Len(best.text)
    \/ Len(r.text) = Len(best.text) /\ r.order < best.order

FaultyPatternBeats(r, best) ==
    \/ best = None
    \/ CountMetacharacters(r.text) < CountMetacharacters(best.text)
    \/ LiteralPrefixLength(r.text) > LiteralPrefixLength(best.text)

PatternBeats(r, best) ==
    LET meta(s) == CountMetacharacters(s.text)
        literal(s) == LiteralPrefixLength(s.text)
    IN  \/ best = None
        \/ meta(r) < meta(best)
        \/ meta(r) = meta(best) /\ literal(r) > literal(best)
        \/ /\ meta(r) = meta(best) /\ literal(r) = literal(best)
           /\ r.order < best.order

Best(list, Matches(_), Beats(_, _)) ==
    FoldLeft(LAMBDA best, r : IF Matches(r) /\ Beats(r, best) THEN r ELSE best, None, list)

First(list, Matches(_)) ==
    IF \E i \in DOMAIN list : Matches(list[i])
    THEN list[CHOOSE i \in DOMAIN list :
                  Matches(list[i]) /\ \A j \in 1..(i - 1) : ~Matches(list[j])]
    ELSE None

\* The governing rule, or None: the caller then synthesizes explicit / session.
ResolveRule(f, list) ==
    LET exact == First(list, LAMBDA r : r.kind = "exact" /\ r.text = f)
        prefix == Best(list, LAMBDA r : r.kind = "prefix" /\ MatchesPrefix(f, r.text),
                       PrefixBeats)
        pattern == Best(list, LAMBDA r : r.kind = "pattern" /\ MatchesPattern(f, r.text),
                        PatternBeats)
        default == First(list, LAMBDA r : r.kind = "default")
    IN  CASE exact # None -> exact
          [] exact = None /\ prefix # None -> prefix
          [] exact = None /\ prefix = None /\ pattern # None -> pattern
          [] OTHER -> default

-----------------------------------------------------------------------------
(* What the documentation says of matching and precedence.                  *)

\* A segment of the field that one token may stand for.
Fits(t, segment) ==
    \/ t.kind = "literal" /\ segment = <<t.ch>>
    \/ t.kind = "question" /\ Len(segment) = 1 /\ segment # <<".">>
    \/ t.kind = "star" /\ \A i \in DOMAIN segment : segment[i] # "."
    \/ t.kind = "doublestar"

\* A pattern matches iff the field can be cut into one segment per token.
MatchesByCuts(f, p) ==
    LET tokens == Tokens(p)
        n == Len(tokens)
    IN  \E cut \in [1..(n - 1) -> 0..Len(f)] :
            LET at(i) == IF i = 0 THEN 0 ELSE IF i = n THEN Len(f) ELSE cut[i]
            IN  IF n = 0 THEN f = <<>>
                ELSE \A i \in 1..n : /\ at(i - 1) <= at(i)
                                     /\ Fits(tokens[i], SubSeq(f, at(i - 1) + 1, at(i)))

Governs(f, r) ==
    \/ r.kind = "exact" /\ r.text = f
    \/ r.kind = "prefix" /\ MatchesPrefix(f, r.text)
    \/ r.kind = "pattern" /\ MatchesByCuts(f, r.text)
    \/ r.kind = "default"

\* The documented precedence as one number per key, compared from the left.
Rank(r) ==
    CASE r.kind = "exact" -> <<1, 0, 0>>
      [] r.kind = "prefix" -> <<2, -Len(r.text), 0>>
      [] r.kind = "pattern" -> <<3, CountMetacharacters(r.text), -LiteralPrefixLength(r.text)>>
      [] r.kind = "default" -> <<4, 0, 0>>

Precedes(r, s) ==
    LET a == Append(Rank(r), r.order)
        b == Append(Rank(s), s.order)
    IN  \E i \in DOMAIN a : a[i] < b[i] /\ \A j \in 1..(i - 1) : a[j] = b[j]
=============================================================================
