------------------------ MODULE DocumentCacheProofs ------------------------
(***************************************************************************)
(* What the cache promises, for any callers, URLs, lifetimes and capacity. *)
(* WithinCapacity and ServedFresh need the types of what a caller carries  *)
(* from its fetch to the insertion; LiveEntriesSurvive follows from the    *)
(* types and the step alone.                                               *)
(***************************************************************************)
EXTENDS DocumentCache, FiniteSetTheorems, TLAPS

Caller == [at : {"idle", "served", "missed", "inserting"}, url : Urls \cup {NoTtl},
           version : Nat, ttl : Nat \cup {NoTtl}, age : Nat]

\* The entries of a cache: live or not, each may be stored.
Stored(m) ==
    /\ DOMAIN m \subseteq Urls
    /\ m \in [DOMAIN m -> Entry]
    /\ \A u \in DOMAIN m : m[u].ttl > 0

Typed ==
    /\ Stored(entries)
    /\ caller \in [Callers -> Caller]
    /\ \A c \in Callers : caller[c].at \in {"missed", "inserting"} => caller[c].url \in Urls
    /\ fetches \in Nat

IInv == Typed /\ WithinCapacity /\ ServedFresh

-----------------------------------------------------------------------------
(* The operations on a cache.                                               *)

\* A cache never holds more entries than there are URLs.
LEMMA EntriesFinite ==
    ASSUME NEW m, DOMAIN m \subseteq Urls
    PROVE  IsFiniteSet(DOMAIN m) /\ Cardinality(DOMAIN m) \in Nat
BY UrlsAssumption, FS_Subset, FS_CardinalityType

\* Removing entries leaves the others as they are, and no more of them.
LEMMA WithoutSmaller ==
    ASSUME NEW m, Stored(m), NEW S
    PROVE  /\ Stored(Without(m, S))
           /\ DOMAIN Without(m, S) = DOMAIN m \ S
           /\ \A u \in DOMAIN m \ S : Without(m, S)[u] = m[u]
           /\ Cardinality(DOMAIN Without(m, S)) <= Cardinality(DOMAIN m)
<1>1. /\ DOMAIN Without(m, S) = DOMAIN m \ S
      /\ \A u \in DOMAIN m \ S : Without(m, S)[u] = m[u]
  BY DEF Without
<1>2. Stored(Without(m, S))
  BY <1>1 DEF Stored, Without
<1>3. Cardinality(DOMAIN m \ S) <= Cardinality(DOMAIN m)
  BY EntriesFinite, FS_Subset DEF Stored
<1> QED
  BY <1>1, <1>2, <1>3

\* Adding one adds at most one.
LEMMA WithOneMore ==
    ASSUME NEW m, Stored(m), NEW u \in Urls, NEW e \in Entry, e.ttl > 0
    PROVE  /\ Stored(With(m, u, e))
           /\ \A v \in DOMAIN m \ {u} : v \in DOMAIN With(m, u, e) /\ With(m, u, e)[v] = m[v]
           /\ Cardinality(DOMAIN With(m, u, e)) <= Cardinality(DOMAIN m) + 1
<1>1. DOMAIN With(m, u, e) = DOMAIN m \cup {u}
  BY DEF With
<1>2. Stored(With(m, u, e))
  BY DEF Stored, With
<1>3. \A v \in DOMAIN m \ {u} : v \in DOMAIN With(m, u, e) /\ With(m, u, e)[v] = m[v]
  BY DEF With
<1>4. IsFiniteSet(DOMAIN m) /\ Cardinality(DOMAIN m) \in Nat
  BY EntriesFinite DEF Stored
<1>5. Cardinality(DOMAIN m \cup {u})
        = IF u \in DOMAIN m THEN Cardinality(DOMAIN m) ELSE Cardinality(DOMAIN m) + 1
  BY <1>4, FS_AddElement
<1>6. Cardinality(DOMAIN m \cup {u}) <= Cardinality(DOMAIN m) + 1
  BY <1>4, <1>5
<1> QED
  BY <1>1, <1>2, <1>3, <1>6

\* Eviction keeps what has not expired.
LEMMA RetainedLive ==
    ASSUME Typed
    PROVE  /\ Stored(Retained)
           /\ \A u \in DOMAIN entries : ~Expired(entries[u]) =>
                 u \in DOMAIN Retained /\ Retained[u] = entries[u]
           /\ Cardinality(DOMAIN Retained) <= Cardinality(DOMAIN entries)
BY WithoutSmaller, ZenonT(60) DEF Typed, Retained

\* The two properties of a cache are one of its entries and their number.
LEMMA CapacityOf ==
    ASSUME Stored(entries), Cardinality(DOMAIN entries) <= MaxEntries
    PROVE  WithinCapacity
BY DEF Stored, WithinCapacity

\* What is inserted may be stored, if its lifetime is not zero.
LEMMA FreshEntry ==
    ASSUME Typed, NEW c \in Callers
    PROVE  /\ TtlOf(caller[c].ttl) \in Nat
           /\ [version |-> caller[c].version, ttl |-> TtlOf(caller[c].ttl), age |-> 0] \in Entry
<1>1. caller[c] \in Caller
  BY DEF Typed
<1>2. caller[c].version \in Nat /\ caller[c].ttl \in Nat \cup {NoTtl}
  BY <1>1 DEF Caller
<1> QED
  BY <1>2, ConfigAssumption DEF TtlOf, Entry

\* An insertion keeps the cache within its capacity and its entries as they should be,
\* and every other live entry in its place.
LEMMA InsertKeeps ==
    ASSUME Typed, WithinCapacity, NEW c \in Callers, Insert(c)
    PROVE  /\ Stored(entries')
           /\ Cardinality(DOMAIN entries') <= MaxEntries
           /\ \A u \in DOMAIN entries \ {caller[c].url} :
                 ~Expired(entries[u]) => u \in DOMAIN entries' /\ entries'[u] = entries[u]
<1> DEFINE ttl == TtlOf(caller[c].ttl)
           fresh == [version |-> caller[c].version, ttl |-> ttl, age |-> 0]
           kept == IF Cardinality(DOMAIN entries) >= MaxEntries THEN Retained ELSE entries
<1>1. /\ Stored(kept)
      /\ \A u \in DOMAIN entries : ~Expired(entries[u]) =>
            u \in DOMAIN kept /\ kept[u] = entries[u]
      /\ Cardinality(DOMAIN kept) <= Cardinality(DOMAIN entries)
  BY RetainedLive, EntriesFinite DEF Typed, Stored
<1>2. /\ Cardinality(DOMAIN entries) \in Nat /\ Cardinality(DOMAIN kept) \in Nat
      /\ Cardinality(DOMAIN entries) <= MaxEntries
  BY <1>1, EntriesFinite DEF Typed, Stored, WithinCapacity
<1>3. entries' = IF ttl = 0 THEN entries
                 ELSE IF Cardinality(DOMAIN kept) >= MaxEntries THEN kept
                 ELSE With(kept, caller[c].url, fresh)
  BY DEF Insert
<1>4. CASE ttl = 0
  BY <1>2, <1>3, <1>4 DEF Typed
<1>5. CASE ttl # 0 /\ Cardinality(DOMAIN kept) >= MaxEntries
  <2>1. entries' = kept
    BY <1>3, <1>5
  <2> HIDE DEF kept
  <2> QED
    BY <1>1, <1>2, <2>1, ConfigAssumption
<1>6. CASE ttl # 0 /\ ~(Cardinality(DOMAIN kept) >= MaxEntries)
  <2>1. entries' = With(kept, caller[c].url, fresh)
    BY <1>3, <1>6
  <2>2. fresh \in Entry /\ fresh.ttl > 0 /\ caller[c].url \in Urls
    BY <1>6, FreshEntry DEF Typed, Insert
  <2> HIDE DEF kept, fresh, ttl
  <2>3. /\ Stored(entries')
        /\ \A v \in DOMAIN kept \ {caller[c].url} :
              v \in DOMAIN entries' /\ entries'[v] = kept[v]
        /\ Cardinality(DOMAIN entries') <= Cardinality(DOMAIN kept) + 1
    BY <1>1, <2>1, <2>2, WithOneMore
  <2>4. Cardinality(DOMAIN entries') \in Nat
    BY <2>3, EntriesFinite DEF Stored
  <2>5. Cardinality(DOMAIN entries') <= MaxEntries
    BY <1>2, <1>6, <2>3, <2>4, ConfigAssumption
  <2> QED
    BY <1>1, <2>3, <2>5
<1> QED
  BY <1>4, <1>5, <1>6

-----------------------------------------------------------------------------
(* The invariant.                                                           *)

\* It holds at first.
LEMMA InitIInv == Init => IInv
<1> SUFFICES ASSUME Init PROVE IInv
  OBVIOUS
<1>1. DOMAIN entries = {} /\ Stored(entries)
  BY DEF Init, Stored
<1>2. Cardinality(DOMAIN entries) <= MaxEntries
  BY <1>1, FS_EmptySet, ConfigAssumption
<1>3. Typed /\ ServedFresh
  BY <1>1 DEF Init, Typed, Caller, ServedFresh
<1> QED
  BY <1>1, <1>2, <1>3, CapacityOf DEF IInv

\* Steps that only take entries away keep it.
LEMMA FewerEntries ==
    ASSUME IInv, NEW S, entries' = Without(entries, S)
    PROVE  Stored(entries') /\ WithinCapacity'
<1>1. Stored(entries') /\ Cardinality(DOMAIN entries') <= Cardinality(DOMAIN entries)
  BY WithoutSmaller DEF IInv, Typed
<1>2. Cardinality(DOMAIN entries) \in Nat /\ Cardinality(DOMAIN entries') \in Nat
  BY <1>1, EntriesFinite DEF IInv, Typed, Stored
<1>3. Cardinality(DOMAIN entries') <= MaxEntries
  BY <1>1, <1>2, ConfigAssumption DEF IInv, WithinCapacity
<1> QED
  BY <1>1, <1>3, CapacityOf DEF Stored, WithinCapacity

\* Every step keeps it.
LEMMA NextIInv == IInv /\ [Next]_vars => IInv'
<1> SUFFICES ASSUME IInv, [Next]_vars PROVE IInv'
  OBVIOUS
<1> USE DEF IInv
<1>1. ASSUME NEW c \in Callers, Get(c) PROVE IInv'
  <2>1. PICK u \in Urls :
          IF u \in DOMAIN entries /\ ~Expired(entries[u])
          THEN /\ caller' = [caller EXCEPT ![c] = [at |-> "served", url |-> u,
                                version |-> entries[u].version, ttl |-> entries[u].ttl,
                                age |-> entries[u].age]]
               /\ UNCHANGED entries
          ELSE /\ caller' = [caller EXCEPT ![c].at = "missed", ![c].url = u]
               /\ entries' = Without(entries, {u})
    BY <1>1 DEF Get
  <2>2. CASE u \in DOMAIN entries /\ ~Expired(entries[u])
    <3>1. entries[u] \in Entry
      BY <2>2 DEF Typed, Stored
    <3>2. /\ entries[u].version \in Nat /\ entries[u].ttl \in Nat /\ entries[u].age \in Nat
          /\ entries[u].age <= TtlOf(entries[u].ttl)
      BY <3>1, <2>2, TtlsAssumption DEF Entry, Expired, TtlOf
    <3>3. Typed' /\ ServedFresh'
      BY <1>1, <2>1, <2>2, <3>2 DEF Get, Typed, Caller, ServedFresh
    <3> QED
      BY <2>1, <2>2, <3>3 DEF WithinCapacity
  <2>3. CASE ~(u \in DOMAIN entries /\ ~Expired(entries[u]))
    <3>1. Stored(entries') /\ WithinCapacity'
      BY <2>1, <2>3, FewerEntries
    <3>2. Typed' /\ ServedFresh'
      BY <1>1, <2>1, <2>3, <3>1 DEF Get, Typed, Caller, ServedFresh
    <3> QED
      BY <3>1, <3>2
  <2> QED
    BY <2>2, <2>3
<1>2. ASSUME NEW c \in Callers, Fetch(c) PROVE IInv'
  <2>1. PICK ttl \in Ttls :
          caller' = [caller EXCEPT ![c].at = "inserting", ![c].version = fetches', ![c].ttl = ttl]
    BY <1>2 DEF Fetch
  <2>2. entries' = entries /\ caller[c].at = "missed" /\ fetches' \in Nat
    BY <1>2 DEF Fetch, Typed
  <2>3. caller[c] \in Caller /\ ttl \in Nat \cup {NoTtl}
    BY TtlsAssumption DEF Typed
  <2>4. [caller[c] EXCEPT !.at = "inserting", !.version = fetches', !.ttl = ttl] \in Caller
    BY <2>2, <2>3 DEF Caller
  <2>5. /\ caller'[c] = [caller[c] EXCEPT !.at = "inserting", !.version = fetches', !.ttl = ttl]
        /\ \A d \in Callers \ {c} : caller'[d] = caller[d]
        /\ caller' \in [Callers -> Caller]
    BY <2>1, <2>4 DEF Typed
  <2>6. /\ caller'[c].at = "inserting" /\ caller'[c].url = caller[c].url
    BY <2>3, <2>5 DEF Caller
  <2>7. Stored(entries') /\ WithinCapacity'
    BY <2>2 DEF Typed, WithinCapacity
  <2>8. Typed'
    BY <2>2, <2>5, <2>6, <2>7 DEF Typed
  <2>9. ServedFresh'
    BY <2>5, <2>6 DEF ServedFresh
  <2> QED
    BY <2>7, <2>8, <2>9
<1>3. ASSUME NEW c \in Callers, Insert(c) PROVE IInv'
  <2>1. Stored(entries') /\ Cardinality(DOMAIN entries') <= MaxEntries
    BY <1>3, InsertKeeps
  <2>2. WithinCapacity'
    BY <2>1 DEF Stored, WithinCapacity
  <2>3. Typed' /\ ServedFresh'
    BY <1>3, <2>1 DEF Insert, Typed, Caller, ServedFresh
  <2> QED
    BY <2>2, <2>3
<1>4. CASE Invalidate
  <2>1. PICK u \in Urls : entries' = Without(entries, {u})
    BY <1>4 DEF Invalidate
  <2>2. Stored(entries') /\ WithinCapacity'
    BY <2>1, FewerEntries
  <2> QED
    BY <1>4, <2>2 DEF Invalidate, Typed, ServedFresh
<1>5. CASE Clear
  <2>1. DOMAIN entries' = {} /\ Stored(entries')
    BY <1>5 DEF Clear, Stored
  <2>2. WithinCapacity'
    BY <2>1, FS_EmptySet, ConfigAssumption DEF WithinCapacity
  <2> QED
    BY <1>5, <2>1, <2>2 DEF Clear, Typed, ServedFresh
<1>6. CASE EvictExpired
  <2>1. Stored(entries') /\ WithinCapacity'
    BY <1>6, FewerEntries DEF EvictExpired, Retained
  <2> QED
    BY <1>6, <2>1 DEF EvictExpired, Typed, ServedFresh
<1>7. CASE Tick
  <2>1. DOMAIN entries' = DOMAIN entries
    BY <1>7 DEF Tick
  <2>2. ASSUME NEW u \in DOMAIN entries
        PROVE  entries'[u] \in Entry /\ entries'[u].ttl = entries[u].ttl
    <3>1. entries[u] \in Entry
      BY DEF Typed, Stored
    <3> QED
      BY <1>7, <3>1 DEF Tick, Entry
  <2>3. Stored(entries')
    BY <1>7, <2>1, <2>2 DEF Tick, Typed, Stored
  <2>4. WithinCapacity'
    BY <2>1, <2>2 DEF WithinCapacity
  <2> QED
    BY <1>7, <2>3, <2>4 DEF Tick, Typed, ServedFresh
<1>8. CASE UNCHANGED vars
  BY <1>8 DEF vars, Typed, Stored, WithinCapacity, ServedFresh
<1> QED
  BY <1>1, <1>2, <1>3, <1>4, <1>5, <1>6, <1>7, <1>8 DEF Next

\* The invariant always holds.
LEMMA Inductive == Spec => []IInv
BY InitIInv, NextIInv, PTL DEF Spec

-----------------------------------------------------------------------------

\* However many callers found the cache not full before they fetched, it never holds
\* more than max_entries entries.
THEOREM CapacityHolds == Spec => []WithinCapacity
<1>1. IInv => WithinCapacity
  BY DEF IInv
<1> QED
  BY <1>1, Inductive, PTL

\* Nobody is served a document past the lifetime it was stored with.
THEOREM FreshlyServed == Spec => []ServedFresh
<1>1. IInv => ServedFresh
  BY DEF IInv
<1> QED
  BY <1>1, Inductive, PTL

\* Only its own insertion ends an insertion.
LEMMA OnlyInsertEnds ==
    ASSUME IInv, [Next]_vars, NEW c \in Callers,
           caller[c].at = "inserting", caller'[c].at = "idle"
    PROVE  Insert(c)
<1> USE DEF IInv, Typed
<1>1. ASSUME NEW d \in Callers, Get(d) PROVE FALSE
  BY <1>1 DEF Get
<1>2. ASSUME NEW d \in Callers, Fetch(d) PROVE FALSE
  BY <1>2 DEF Fetch
<1>3. ASSUME NEW d \in Callers, Insert(d) PROVE d = c
  BY <1>3 DEF Insert
<1>4. ASSUME UNCHANGED caller PROVE FALSE
  BY <1>4
<1> QED
  BY <1>1, <1>2, <1>3, <1>4 DEF Next, vars, Invalidate, Clear, EvictExpired, Tick

\* Room for one document is made of expired entries only.
THEOREM LiveEntriesStay == Spec => LiveEntriesSurvive
<1>1. IInv /\ [Next]_vars =>
        [\A c \in Callers : caller[c].at = "inserting" /\ caller'[c].at = "idle" =>
            \A u \in DOMAIN entries \ {caller[c].url} :
                ~Expired(entries[u]) => u \in DOMAIN entries' /\ entries'[u] = entries[u]]_vars
  BY OnlyInsertEnds, InsertKeeps DEF IInv
<1> QED
  BY <1>1, Inductive, PTL DEF Spec, LiveEntriesSurvive
=============================================================================
