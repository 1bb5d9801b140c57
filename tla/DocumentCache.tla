---------------------------- MODULE DocumentCache ----------------------------
(***************************************************************************)
(* The TTL document cache of src/src/cache.rs, and the loop of a caller    *)
(* around it: look a URL up, fetch it on a miss, insert what came.  Every  *)
(* operation runs under the cache's one lock, so it is one step; between   *)
(* a caller's steps others come.  A document is its version, the number of *)
(* the fetch that brought it, and its `ttl` attribute.                     *)
(***************************************************************************)
EXTENDS Integers, FiniteSets

CONSTANTS
    Callers, Urls,
    Ttls,          \* values of the ttl attribute
    NoTtl,         \* the attribute is missing or no integer
    DefaultTtl, MaxEntries,
    MaxFetches     \* bound on the fetches

ASSUME UrlsAssumption == IsFiniteSet(Urls)
ASSUME TtlsAssumption == Ttls \subseteq Nat \cup {NoTtl} /\ NoTtl \notin Nat
ASSUME ConfigAssumption ==
    DefaultTtl \in Nat /\ MaxEntries \in Nat /\ MaxFetches \in Nat

VARIABLES
    entries,   \* URLs in the cache, with version, ttl and age of the entry
    caller,    \* per caller, where it is and what it holds
    fetches    \* fetches so far: the next document's version

vars == <<entries, caller, fetches>>

Entry == [version : Nat, ttl : Nat, age : Nat]

-----------------------------------------------------------------------------
Without(m, S) == [u \in DOMAIN m \ S |-> m[u]]
With(m, u, e) == [v \in DOMAIN m \cup {u} |-> IF v = u THEN e ELSE m[v]]

FaultyExpired(e) == e.age > e.ttl + 1
Expired(e) == e.age > e.ttl

FaultyRetained == Without(entries, DOMAIN entries)
Retained == Without(entries, {u \in DOMAIN entries : Expired(entries[u])})

TtlOf(ttl) == IF ttl = NoTtl THEN DefaultTtl ELSE ttl

Init ==
    /\ entries = [u \in {} |-> 0]
    /\ caller = [c \in Callers |-> [at |-> "idle", url |-> NoTtl, version |-> 0,
                                    ttl |-> NoTtl, age |-> 0]]
    /\ fetches = 0

\* get: an expired entry is removed, a live one returned.
Get(c) ==
    /\ caller[c].at \in {"idle", "served"}
    /\ \E u \in Urls :
        IF u \in DOMAIN entries /\ ~Expired(entries[u])
        THEN /\ caller' = [caller EXCEPT ![c] = [at |-> "served", url |-> u,
                              version |-> entries[u].version, ttl |-> entries[u].ttl,
                              age |-> entries[u].age]]
             /\ UNCHANGED entries
        ELSE /\ caller' = [caller EXCEPT ![c].at = "missed", ![c].url = u]
             /\ entries' = Without(entries, {u})
    /\ UNCHANGED fetches

\* The caller fetches the document: external.
Fetch(c) ==
    /\ caller[c].at = "missed" /\ fetches < MaxFetches
    /\ fetches' = fetches + 1
    /\ \E ttl \in Ttls :
        caller' = [caller EXCEPT ![c].at = "inserting", ![c].version = fetches', ![c].ttl = ttl]
    /\ UNCHANGED entries

\* insert, or insert_with_ttl: nothing with a zero ttl; expired entries make room if
\* the cache is full; if it still is, nothing.
FaultyInsert(c) ==
    LET ttl == TtlOf(caller[c].ttl)
        fresh == [version |-> caller[c].version, ttl |-> ttl, age |-> 0]
        kept == IF Cardinality(DOMAIN entries) > MaxEntries THEN Retained ELSE entries
    IN  /\ caller[c].at = "inserting"
        /\ entries' = IF ttl = 0 THEN entries
                      ELSE IF Cardinality(DOMAIN kept) > MaxEntries THEN kept
                      ELSE With(kept, caller[c].url, fresh)
        /\ caller' = [caller EXCEPT ![c].at = "idle"]
        /\ UNCHANGED fetches

Insert(c) ==
    LET ttl == TtlOf(caller[c].ttl)
        fresh == [version |-> caller[c].version, ttl |-> ttl, age |-> 0]
        kept == IF Cardinality(DOMAIN entries) >= MaxEntries THEN Retained ELSE entries
    IN  /\ caller[c].at = "inserting"
        /\ entries' = IF ttl = 0 THEN entries
                      ELSE IF Cardinality(DOMAIN kept) >= MaxEntries THEN kept
                      ELSE With(kept, caller[c].url, fresh)
        /\ caller' = [caller EXCEPT ![c].at = "idle"]
        /\ UNCHANGED fetches

Invalidate ==
    /\ \E u \in Urls : entries' = Without(entries, {u})
    /\ UNCHANGED <<caller, fetches>>

Clear == entries' = [u \in {} |-> 0] /\ UNCHANGED <<caller, fetches>>

EvictExpired == entries' = Retained /\ UNCHANGED <<caller, fetches>>

\* Time passes; an expired entry's age no longer matters.
Tick ==
    /\ entries' = [u \in DOMAIN entries |->
                      [entries[u] EXCEPT !.age = IF @ > entries[u].ttl THEN @ ELSE @ + 1]]
    /\ UNCHANGED <<caller, fetches>>

Next ==
    \/ \E c \in Callers : Get(c) \/ Fetch(c) \/ Insert(c)
    \/ Invalidate \/ Clear \/ EvictExpired \/ Tick

Spec == Init /\ [][Next]_vars

-----------------------------------------------------------------------------
(* Properties.                                                              *)

\* The cache holds at most max_entries entries, however many callers found it not
\* full before they fetched, and each with a positive ttl.
WithinCapacity ==
    /\ Cardinality(DOMAIN entries) <= MaxEntries
    /\ \A u \in DOMAIN entries : entries[u] \in Entry /\ entries[u].ttl > 0

\* No caller is served a document past the ttl it was stored with.
ServedFresh ==
    \A c \in Callers : caller[c].at = "served" => caller[c].age <= TtlOf(caller[c].ttl)

\* Making room for one document never costs another its place while it is live:
\* an insertion changes no other URL's live entry.
LiveEntriesSurvive ==
    [][\A c \in Callers : caller[c].at = "inserting" /\ caller'[c].at = "idle" =>
        \A u \in DOMAIN entries \ {caller[c].url} :
            ~Expired(entries[u]) => u \in DOMAIN entries' /\ entries'[u] = entries[u]]_vars
=============================================================================
