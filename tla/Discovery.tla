----------------------------- MODULE Discovery -----------------------------
(***************************************************************************)
(* Service discovery (src/src/discovery/): the four mechanisms and the     *)
(* order they are tried in.  A site is what its owner published: per       *)
(* mechanism, how the exchange ends and what it carries.  Link headers are *)
(* texts, sequences of symbols as in module Parameters, because how they   *)
(* are cut up matters; HTML and ANML documents are given parsed.           *)
(***************************************************************************)
EXTENDS Parameters

\* The outcome of one mechanism: a result, none, or a panic of the parser.
Found(endpoint, mechanism) ==
    [kind |-> "found", endpoint |-> endpoint, mechanism |-> mechanism]
NotFound == [kind |-> "none", endpoint |-> << >>, mechanism |-> "none"]
Panics == [kind |-> "panics", endpoint |-> << >>, mechanism |-> "none"]

TrimEndSlash(text) ==
    LET kept == {i \in DOMAIN text : text[i] # "/"}
    IN  IF kept = {} THEN << >> ELSE SubSeq(text, 1, Max(kept))

\* A reference without a scheme is appended to the origin.
Resolve(href, origin) ==
    IF href # << >> /\ href[1] \in {"http://", "https://"} THEN href
    ELSE TrimEndSlash(origin) \o href

-----------------------------------------------------------------------------
(* The Link header.                                                         *)

\* Within angle brackets: the last bracket before the symbol opens.
InAngle(header, i) ==
    LET brackets == {j \in 1..(i - 1) : header[j] \in {"<", ">"}}
    IN  brackets # {} /\ header[Max(brackets)] = "<"

Cut(header, cuts) ==
    LET at == SetToSortSeq({0, Len(header) + 1} \cup cuts, <)
        pieces == [k \in 1..(Len(at) - 1) |-> Trim(SubSeq(header, at[k] + 1, at[k + 1] - 1))]
    IN  SelectSeq(pieces, LAMBDA piece : piece # << >>)

FaultySplitLinks(header) == Cut(header, {i \in DOMAIN header : header[i] = ","})

\* A comma outside angle brackets separates links, one within quotes too.
SplitLinks(header) ==
    Cut(header, {i \in DOMAIN header : header[i] = "," /\ ~InAngle(header, i)})

Lower(text) == [i \in DOMAIN text |-> IF text[i] = "Rel" THEN "rel" ELSE text[i]]

Quoted(value) == value # << >> /\ value[1] = Last(value) /\ value[1] \in {"\"", "'"}
Unquote(value) == IF Quoted(value) THEN SubSeq(value, 2, Len(value) - 1) ELSE value

\* The parameters of an entry as key and value, in order; the map of the code keeps
\* the last of a key.
ParseParams(text) ==
    LET parts == [k \in DOMAIN Split(text, ";") |-> Trim(Split(text, ";")[k])]
        pairs == SelectSeq(parts, LAMBDA part : Contains(part, "="))
        at(part) == SelectInSeq(part, LAMBDA ch : ch = "=")
    IN  [k \in DOMAIN pairs |->
           [key |-> Lower(Trim(SubSeq(pairs[k], 1, at(pairs[k]) - 1))),
            value |-> Trim(SubSeq(pairs[k], at(pairs[k]) + 1, Len(pairs[k])))]]

Param(params, key) ==
    LET named == {k \in DOMAIN params : params[k].key = key}
    IN  IF named = {} THEN {} ELSE {Unquote(params[Max(named)].value)}

\* One entry of the header: it has no reference, which ends the search in this
\* header; it is the alternate link; or it is another link.  Stripping the quotes of
\* a value that is one quote panics.
ParseEntry(entry, origin) ==
    LET open == SelectInSeq(entry, LAMBDA ch : ch = "<")
        rest == SubSeq(entry, open, Len(entry))
        close == open - 1 + SelectInSeq(rest, LAMBDA ch : ch = ">")
        params == ParseParams(SubSeq(entry, close + 1, Len(entry)))
    IN  CASE open = 0 \/ (open > 0 /\ ~Contains(rest, ">")) -> NotFound
          [] open > 0 /\ Contains(rest, ">")
                /\ \E k \in DOMAIN params : params[k].value \in {<<"\"">>, <<"'">>} -> Panics
          [] open > 0 /\ Contains(rest, ">")
                /\ Param(params, <<"rel">>) = {<<"alternate">>}
                /\ Param(params, <<"type">>) = {<<"anml">>} ->
                    Found(Resolve(SubSeq(entry, open + 1, close - 1), origin), "link")
          [] OTHER -> [NotFound EXCEPT !.kind = "other"]

FirstDecided(outcomes, goesOn) ==
    LET decided == {k \in DOMAIN outcomes : outcomes[k].kind # goesOn}
    IN  IF decided = {} THEN NotFound ELSE outcomes[Min(decided)]

ParseLinkHeader(header, origin) ==
    LET entries == SplitLinks(header)
    IN  FirstDecided([k \in DOMAIN entries |-> ParseEntry(entries[k], origin)], "other")

-----------------------------------------------------------------------------
(* The mechanisms.                                                          *)

WellKnownPath == <<"/", ".well-known", "/", "anml">>

DiscoverWellKnown(site) ==
    LET w == site.well_known
    IN  IF w.answers /\ w.success /\ w.anml_content_type /\ w.parses
        THEN Found(TrimEndSlash(site.origin) \o WellKnownPath, "well-known")
        ELSE NotFound

\* Any status will do: only the headers are looked at.
DiscoverLinkHeader(site) ==
    LET headers == site.link.headers
    IN  IF site.link.answers
        THEN FirstDecided([k \in DOMAIN headers |-> ParseLinkHeader(headers[k], site.origin)],
                          "none")
        ELSE NotFound

\* The first <link> with the two attributes and a reference; what `href` has not is {}.
DiscoverHtmlLink(site) ==
    LET links == SelectSeq(site.html.links, LAMBDA l : /\ l.rel = <<"alternate">>
                                                       /\ l.type = <<"anml">> /\ l.href # {})
    IN  IF site.html.answers /\ site.html.success /\ links # << >>
        THEN Found(Resolve(Only(links[1].href), site.origin), "html")
        ELSE NotFound

\* The first SRV record; the TXT entries must have the version, and the last path
\* counts.  A TXT lookup that fails has no entries.
DiscoverDnsSd(site) ==
    LET dns == site.dns
        versions == {k \in DOMAIN dns.txt : dns.txt[k] = [key |-> "v", value |-> <<"anml1">>]}
        paths == {k \in DOMAIN dns.txt : dns.txt[k].key = "path"}
        path == IF paths = {} THEN << >> ELSE dns.txt[Max(paths)].value
        absolute == IF path = << >> \/ (path # << >> /\ path[1] = "/") THEN path
                    ELSE <<"/">> \o path
    IN  IF dns.srv = << >> \/ versions = {} THEN NotFound
        ELSE Found(<<site.origin[1], dns.srv[1].target, ":", dns.srv[1].port>> \o absolute,
                   "dns-sd")

\* discover: each mechanism in its order, those behind a feature only with it; the
\* first result is returned and the rest is not asked.
Mechanisms(site) ==
    <<"well-known", "link">>
        \o (IF "html-discovery" \in site.features THEN <<"html">> ELSE << >>)
        \o (IF "dns-sd" \in site.features THEN <<"dns-sd">> ELSE << >>)

Discover(site) ==
    LET ask(mechanism) ==
            CASE mechanism = "well-known" -> DiscoverWellKnown(site)
              [] mechanism = "link" -> DiscoverLinkHeader(site)
              [] mechanism = "html" -> DiscoverHtmlLink(site)
              [] mechanism = "dns-sd" -> DiscoverDnsSd(site)
        order == Mechanisms(site)
    IN  FirstDecided([k \in DOMAIN order |-> ask(order[k])], "none")

-----------------------------------------------------------------------------
(* What a site means, before it is printed.                                 *)

\* A link as its owner would write it in a header.
PrintLink(link) ==
    LET value(text) == IF link.quoted THEN <<"\"">> \o text \o <<"\"">> ELSE text
    IN  <<"<">> \o Only(link.href) \o <<">", ";", " ", link.key, "=">> \o value(link.rel)
            \o <<";", " ", "type", "=">> \o value(link.type)

PrintHeader(links) ==
    FlattenSeq([k \in DOMAIN links |->
                  IF k = 1 THEN PrintLink(links[k]) ELSE <<",", " ">> \o PrintLink(links[k])])

\* The same, published: site.links has the headers as lists of links.
Publish(site, links) ==
    [site EXCEPT !.link.headers = [k \in DOMAIN links |-> PrintHeader(links[k])]]

AdvertisedLinks(links) ==
    SelectSeq(FlattenSeq(links), LAMBDA l : /\ l.rel = <<"alternate">> /\ l.type = <<"anml">>
                                            /\ l.href # {})

\* The mechanisms through which a site offers the service, in the order of the RFC.
Offers(site, links) ==
    SelectSeq(<<"well-known", "link", "html", "dns-sd">>, LAMBDA mechanism :
        CASE mechanism = "well-known" -> /\ site.well_known.answers /\ site.well_known.success
                                         /\ site.well_known.anml_content_type
                                         /\ site.well_known.parses
          [] mechanism = "link" -> site.link.answers /\ AdvertisedLinks(links) # << >>
          [] mechanism = "html" -> /\ "html-discovery" \in site.features
                                   /\ site.html.answers /\ site.html.success
                                   /\ AdvertisedLinks(<<site.html.links>>) # << >>
          [] mechanism = "dns-sd" -> /\ "dns-sd" \in site.features /\ site.dns.srv # << >>
                                     /\ \E k \in DOMAIN site.dns.txt :
                                            /\ site.dns.txt[k].key = "v"
                                            /\ site.dns.txt[k].value = <<"anml1">>)
=============================================================================
