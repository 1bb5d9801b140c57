-------------------------- MODULE PagedFetchProofs --------------------------
(***************************************************************************)
(* The page iterator, alone and over the client it fetches with.  First,   *)
(* of module Pagination: the pages follow the links, for any service and   *)
(* however calls fail or are dropped.  PagesFollowLinks alone is not       *)
(* inductive: what the iterator holds, next_url or the URL being fetched,  *)
(* must be the link of the page yielded last, so that appending the answer *)
(* extends the chain.  Then, of module PagedFetch: the types, the circuit  *)
(* breaker, and the order of the pages.                                    *)
(***************************************************************************)
EXTENDS PagedFetch, TLAPS

-----------------------------------------------------------------------------
(* Pagination.                                                              *)

\* The variables' types, as far as the argument needs them.
PagesTyped ==
    /\ service \in [Urls -> Seq(Page)]
    /\ first_doc \in Page /\ next_url \in Page /\ fetching \in Page
    /\ yielded \in Seq(Urls)

\* The initial document comes first, and what is to come is the link of the last page.
OnTheChain ==
    /\ first_doc # Absent =>
          yielded = << >> /\ fetching = Absent /\ next_url = NextUrl(service[first_doc])
    /\ first_doc = Absent =>
          /\ Len(yielded) > 0
          /\ next_url # Absent => next_url = NextUrl(service[yielded[Len(yielded)]])
          /\ fetching # Absent => fetching = NextUrl(service[yielded[Len(yielded)]])

PagesIInv == PagesTyped /\ OnTheChain /\ PagesFollowLinks

\* find_nav's link is a URL or none.
LEMMA NextUrlType ==
    ASSUME NEW doc \in Seq(Page)
    PROVE  NextUrl(doc) \in Page
BY DEF NextUrl, Page

\* A page that the last one links to may be appended.
LEMMA ChainGrows ==
    ASSUME PagesTyped, PagesFollowLinks, NEW u \in Urls,
           Len(yielded) > 0 => u = NextUrl(service[yielded[Len(yielded)]]),
           yielded' = Append(yielded, u), service' = service
    PROVE  /\ yielded' \in Seq(Urls)
           /\ Len(yielded') > 0 /\ yielded'[Len(yielded')] = u
           /\ PagesFollowLinks'
<1>1. yielded \in Seq(Urls) /\ Len(yielded) \in Nat
  BY DEF PagesTyped
<1>2. /\ yielded' \in Seq(Urls)
      /\ Len(yielded') = Len(yielded) + 1
      /\ yielded'[Len(yielded) + 1] = u
      /\ \A k \in 1..Len(yielded) : yielded'[k] = yielded[k]
  BY <1>1
<1>3. ASSUME NEW k \in 1..(Len(yielded') - 1)
      PROVE  yielded'[k + 1] = NextUrl(service'[yielded'[k]])
  <2>1. CASE k < Len(yielded)
    BY <1>1, <1>2, <2>1 DEF PagesFollowLinks
  <2>2. CASE k = Len(yielded)
    BY <1>1, <1>2, <2>2
  <2> QED
    BY <1>1, <1>2, <2>1, <2>2
<1> QED
  BY <1>1, <1>2, <1>3 DEF PagesFollowLinks

\* The invariant holds at first.
LEMMA InitPagesIInv == Init => PagesIInv
<1> SUFFICES ASSUME Init PROVE PagesIInv
  OBVIOUS
<1>1. service \in [Urls -> Seq(Page)] /\ first_doc \in Urls
  BY ServicesAssumption DEF Init
<1>2. NextUrl(service[first_doc]) \in Page
  BY <1>1, NextUrlType
<1>3. first_doc # Absent
  BY <1>1, AbsentAssumption
<1> QED
  BY <1>1, <1>2, <1>3 DEF Init, PagesIInv, PagesTyped, OnTheChain, PagesFollowLinks, Page

\* Every step keeps the invariant.
LEMMA NextPagesIInv == PagesIInv /\ [Next]_vars => PagesIInv'
<1> SUFFICES ASSUME PagesIInv, [Next]_vars PROVE PagesIInv'
  OBVIOUS
<1> USE DEF PagesIInv
<1>1. CASE YieldFirst
  <2>1. first_doc \in Urls /\ yielded = << >> /\ fetching = Absent
    BY <1>1 DEF YieldFirst, PagesTyped, OnTheChain, Page
  <2>2. /\ yielded' \in Seq(Urls)
        /\ Len(yielded') > 0 /\ yielded'[Len(yielded')] = first_doc
        /\ PagesFollowLinks'
    BY <1>1, <2>1, ChainGrows DEF YieldFirst
  <2>3. PagesTyped'
    BY <1>1, <2>2 DEF YieldFirst, PagesTyped, Page
  <2>4. OnTheChain'
    BY <1>1, <2>1, <2>2 DEF YieldFirst, OnTheChain
  <2> QED
    BY <2>2, <2>3, <2>4
<1>2. CASE TakeUrl
  BY <1>2 DEF TakeUrl, PagesTyped, OnTheChain, PagesFollowLinks, Page
<1>3. CASE Exhausted
  BY <1>3 DEF Exhausted, PagesTyped, OnTheChain, PagesFollowLinks
<1>4. CASE FetchSucceeds
  <2>1. /\ fetching \in Urls /\ first_doc = Absent
        /\ fetching = NextUrl(service[yielded[Len(yielded)]])
    BY <1>4 DEF FetchSucceeds, PagesTyped, OnTheChain, Page
  <2>2. /\ yielded' \in Seq(Urls)
        /\ Len(yielded') > 0 /\ yielded'[Len(yielded')] = fetching
        /\ PagesFollowLinks'
    BY <1>4, <2>1, ChainGrows DEF FetchSucceeds
  <2>3. NextUrl(service[fetching]) \in Page
    BY <2>1, NextUrlType DEF PagesTyped
  <2>4. PagesTyped'
    BY <1>4, <2>2, <2>3 DEF FetchSucceeds, PagesTyped, Page
  <2>5. OnTheChain'
    BY <1>4, <2>1, <2>2 DEF FetchSucceeds, OnTheChain
  <2> QED
    BY <2>2, <2>4, <2>5
<1>5. CASE FetchFails
  BY <1>5 DEF FetchFails, PagesTyped, OnTheChain, PagesFollowLinks, Page
<1>6. CASE Cancel
  BY <1>6 DEF Cancel, PagesTyped, OnTheChain, PagesFollowLinks, Page
<1>7. CASE UNCHANGED vars
  BY <1>7 DEF vars, PagesTyped, OnTheChain, PagesFollowLinks
<1> QED
  BY <1>1, <1>2, <1>3, <1>4, <1>5, <1>6, <1>7 DEF Next

\* For any service, with circles or without, the iterator yields the pages in the
\* order of the links, none twice in a row and none left out, whatever calls fail or
\* are dropped.
THEOREM PagesInOrder == Spec => []PagesFollowLinks
<1>1. Init => PagesIInv
  BY InitPagesIInv
<1>2. PagesIInv /\ [Next]_vars => PagesIInv'
  BY NextPagesIInv
<1>3. PagesIInv => PagesFollowLinks
  BY DEF PagesIInv
<1> QED
  BY <1>1, <1>2, <1>3, PTL DEF Spec

-----------------------------------------------------------------------------
(* The client under concurrent fetches.                                     *)

\* What is left of the cooldown.
Remaining == IF CoolingDown THEN Cooldown - age ELSE 0

\* OpenBreakerHolds with what carries it: a fetch that is between the two looks of
\* is_open is barred for no longer than the breaker will hold, since a failure that is
\* recorded meanwhile can only prolong it, and one that sleeps is no longer barred.
BreakerRespected ==
    \A t \in Tasks :
        /\ fetch[t].at \in {"fetching", "sleeping"} => fetch[t].barred = 0
        /\ At(t, "checking") => fetch[t].barred <= Remaining

ClientIInv == ClientTypeOK /\ BreakerRespected

FetchState == [at : {"idle", "checking", "fetching", "sleeping", "stamping", "done"},
               attempt : 0..MaxRetries, wait : 0..MaxDelay, barred : 0..Cooldown]

\* A backoff delay is capped.
LEMMA DelayBounded ==
    ASSUME NEW n \in Nat
    PROVE  Delay(n) \in 0..MaxDelay
  BY PolicyAssumption DEF Delay

\* What is left of the cooldown never exceeds it, and after a step neither.
LEMMA RemainingType ==
    ASSUME ClientTypeOK
    PROVE  /\ Remaining \in 0..Cooldown
           /\ age = 0 => Remaining = Cooldown
  BY PolicyAssumption, NeverAssumption DEF ClientTypeOK, Remaining, CoolingDown

LEMMA RemainingTypeNext ==
    ASSUME age' \in 0..Cooldown \cup {Never}
    PROVE  Remaining' \in 0..Cooldown
<1>1. CASE CoolingDown'
  <2>1. age' \in 0..Cooldown /\ Remaining' = Cooldown - age'
    BY <1>1 DEF Remaining, CoolingDown
  <2>2. \A n \in 0..Cooldown : Cooldown - n \in 0..Cooldown
    BY PolicyAssumption
  <2> QED
    BY <2>1, <2>2, Zenon
<1>2. CASE ~CoolingDown'
  <2>1. Remaining' = 0
    BY <1>2 DEF Remaining
  <2> QED
    BY <2>1, PolicyAssumption
<1> QED
  BY <1>1, <1>2

\* A step that moves one task only, to a state that may be barred no longer than the
\* breaker holds, keeps the client's invariant if it does not shorten the cooldown.
LEMMA OneTaskMoves ==
    ASSUME ClientIInv, NEW t \in Tasks, NEW state \in FetchState,
           fetch' = [fetch EXCEPT ![t] = state],
           failures' \in 0..Threshold, age' \in 0..Cooldown \cup {Never},
           Remaining' >= Remaining,
           state.at \in {"fetching", "sleeping"} => state.barred = 0,
           state.at = "checking" => state.barred <= Remaining'
    PROVE  ClientIInv'
<1>1. fetch \in [Tasks -> FetchState]
  BY DEF ClientIInv, ClientTypeOK, FetchState
<1>2. fetch' \in [Tasks -> FetchState] /\ fetch'[t] = state
  BY <1>1
<1>3. ClientTypeOK'
  BY <1>2 DEF ClientTypeOK, FetchState
<1>4. Remaining \in 0..Cooldown /\ Remaining' \in 0..Cooldown
  BY RemainingType, RemainingTypeNext DEF ClientIInv
<1>5. ASSUME NEW s \in Tasks
      PROVE  /\ fetch'[s].at \in {"fetching", "sleeping"} => fetch'[s].barred = 0
             /\ fetch'[s].at = "checking" => fetch'[s].barred <= Remaining'
  <2>1. CASE s = t
    BY <1>2, <2>1
  <2>2. CASE s # t
    <3>1. fetch'[s] = fetch[s] /\ fetch[s].barred \in 0..Cooldown
      BY <1>1, <2>2 DEF FetchState
    <3>2. /\ fetch[s].at \in {"fetching", "sleeping"} => fetch[s].barred = 0
          /\ fetch[s].at = "checking" => fetch[s].barred <= Remaining
      BY DEF ClientIInv, BreakerRespected, At
    <3> QED
      BY <1>4, <3>1, <3>2, PolicyAssumption
  <2> QED
    BY <2>1, <2>2
<1> QED
  BY <1>3, <1>5 DEF ClientIInv, BreakerRespected, At

\* is_open's first look: barred, if at all, for what is left of the cooldown.
LEMMA BeginKeeps ==
    ASSUME ClientIInv, NEW t \in Tasks, Begin(t)
    PROVE  ClientIInv'
<1> DEFINE state == [at |-> IF Tripped THEN "checking" ELSE "fetching",
                     attempt |-> 0, wait |-> 0,
                     barred |-> IF Open THEN Cooldown - age ELSE 0]
<1>1. fetch' = [fetch EXCEPT ![t] = state] /\ UNCHANGED <<failures, age>>
  BY DEF Begin
<1>2. /\ failures \in 0..Threshold /\ age \in 0..Cooldown \cup {Never}
      /\ Remaining \in 0..Cooldown
  BY RemainingType DEF ClientIInv, ClientTypeOK
<1>3. Open => Tripped /\ Remaining = Cooldown - age
  BY DEF Open, Remaining, CoolingDown
<1>4. /\ state \in FetchState
      /\ state.at = "fetching" => state.barred = 0
      /\ state.barred <= Remaining
      /\ state.at # "sleeping"
  BY <1>2, <1>3, PolicyAssumption DEF FetchState
<1>5. /\ failures' \in 0..Threshold /\ age' \in 0..Cooldown \cup {Never}
      /\ Remaining' = Remaining /\ Remaining' >= Remaining
  BY <1>1, <1>2 DEF Remaining, CoolingDown
<1> HIDE DEF state
<1> QED
  BY <1>1, <1>2, <1>4, <1>5, OneTaskMoves

\* The steps of a fetch: of those that go on to an attempt, CheckCooldown has seen the
\* cooldown over, and Wake comes from an attempt.
LEMMA StepKeeps ==
    ASSUME ClientIInv, NEW t \in Tasks, Step(t)
    PROVE  ClientIInv'
<1>1. /\ fetch \in [Tasks -> FetchState] /\ fetch[t] \in FetchState
      /\ failures \in 0..Threshold /\ age \in 0..Cooldown \cup {Never}
      /\ Remaining \in 0..Cooldown
      /\ fetch[t].at \in {"fetching", "sleeping"} => fetch[t].barred = 0
      /\ At(t, "checking") => fetch[t].barred <= Remaining
  BY RemainingType DEF ClientIInv, ClientTypeOK, FetchState, BreakerRespected
<1>2. ASSUME NEW at \in {"checking", "fetching", "sleeping", "stamping", "done"}, Go(t, at),
             failures' \in 0..Threshold, age' \in {age, 0},
             at \in {"fetching", "sleeping"} => fetch[t].barred = 0,
             at # "checking"
      PROVE  ClientIInv'
  <2> DEFINE state == [fetch[t] EXCEPT !.at = at]
  <2>1. fetch' = [fetch EXCEPT ![t] = state]
    BY <1>2 DEF Go
  <2>2. state \in FetchState /\ state.at = at /\ state.barred = fetch[t].barred
    BY <1>1 DEF FetchState
  <2>3. age' \in 0..Cooldown \cup {Never} /\ Remaining' >= Remaining
    <3>1. CASE age' = age
      BY <1>1, <3>1 DEF Remaining, CoolingDown
    <3>2. CASE age' = 0
      BY <1>1, <3>2, PolicyAssumption, NeverAssumption DEF Remaining, CoolingDown
    <3> QED
      BY <1>2, <3>1, <3>2
  <2> HIDE DEF state
  <2> QED
    BY <1>2, <2>1, <2>2, <2>3, OneTaskMoves
<1>3. CASE CheckCooldown(t)
  <2>1. ~CoolingDown => fetch[t].barred = 0
    BY <1>1, <1>3 DEF CheckCooldown, Remaining, FetchState
  <2> QED
    BY <1>1, <1>2, <1>3, <2>1 DEF CheckCooldown
<1>4. CASE Succeed(t)
  BY <1>1, <1>2, <1>4, PolicyAssumption DEF Succeed
<1>5. CASE FailTransiently(t)
  <2>1. CASE fetch[t].attempt < MaxRetries
    <3> DEFINE state == [fetch[t] EXCEPT !.at = "sleeping", !.attempt = @ + 1,
                                         !.wait = Delay(fetch[t].attempt)]
    <3>1. fetch' = [fetch EXCEPT ![t] = state] /\ UNCHANGED <<failures, age>>
      BY <1>5, <2>1 DEF FailTransiently
    <3>2. fetch[t].attempt \in 0..MaxRetries /\ fetch[t].attempt \in Nat
      BY <1>1 DEF FetchState
    <3>3. fetch[t].attempt + 1 \in 0..MaxRetries
      BY <2>1, <3>2, PolicyAssumption
    <3>4. Delay(fetch[t].attempt) \in 0..MaxDelay
      BY <3>2, DelayBounded
    <3>5. state \in FetchState /\ state.at = "sleeping" /\ state.barred = 0
      BY <1>1, <1>5, <3>3, <3>4 DEF FetchState, FailTransiently, At
    <3>6. /\ failures' \in 0..Threshold /\ age' \in 0..Cooldown \cup {Never}
          /\ Remaining' >= Remaining
      BY <1>1, <3>1 DEF Remaining, CoolingDown
    <3> HIDE DEF state
    <3> QED
      BY <3>1, <3>5, <3>6, OneTaskMoves
  <2>2. CASE ~(fetch[t].attempt < MaxRetries)
    <3>1. failures' \in 0..Threshold
      BY <1>1, <1>5, <2>2, PolicyAssumption DEF FailTransiently, Tripped
    <3> QED
      BY <1>2, <1>5, <2>2, <3>1 DEF FailTransiently
  <2> QED
    BY <2>1, <2>2
<1>6. CASE FailFinally(t)
  BY <1>1, <1>2, <1>6 DEF FailFinally
<1>7. CASE StampFailure(t)
  BY <1>1, <1>2, <1>7 DEF StampFailure
<1>8. CASE Wake(t)
  BY <1>1, <1>2, <1>8 DEF Wake, At
<1> QED
  BY <1>3, <1>4, <1>5, <1>6, <1>7, <1>8 DEF Step

\* A tick shortens what a fetch is barred for by as much as the cooldown.
LEMMA TickKeeps ==
    ASSUME ClientIInv, Tick
    PROVE  ClientIInv'
<1>1. /\ fetch \in [Tasks -> FetchState]
      /\ failures \in 0..Threshold /\ age \in 0..Cooldown \cup {Never}
  BY DEF ClientIInv, ClientTypeOK, FetchState
<1>2. /\ failures' = failures /\ age' \in 0..Cooldown \cup {Never}
      /\ Remaining \in 0..Cooldown /\ Remaining' = Down(Remaining)
  <2>1. failures' = failures /\ age' = IF CoolingDown THEN age + 1 ELSE age
    BY DEF Tick
  <2>2. CASE age = Never
    BY <1>1, <2>1, <2>2, PolicyAssumption DEF Down, Remaining, CoolingDown
  <2>3. CASE age \in 0..Cooldown
    <3>1. age # Never
      BY <2>3, PolicyAssumption, NeverAssumption
    <3>2. CASE age < Cooldown
      <4>1. age' = age + 1 /\ age' # Never /\ age' \in 0..Cooldown
        BY <2>1, <2>3, <3>1, <3>2, PolicyAssumption, NeverAssumption DEF CoolingDown
      <4> QED
        BY <2>1, <2>3, <3>1, <3>2, <4>1, PolicyAssumption DEF Down, Remaining, CoolingDown
    <3>3. CASE ~(age < Cooldown)
      BY <2>1, <2>3, <3>1, <3>3, PolicyAssumption DEF Down, Remaining, CoolingDown
    <3> QED
      BY <3>2, <3>3
  <2> QED
    BY <1>1, <2>2, <2>3
<1>3. ASSUME NEW t \in Tasks
      PROVE  /\ fetch'[t] \in FetchState
             /\ fetch'[t].at = fetch[t].at
             /\ fetch'[t].barred = Down(fetch[t].barred)
             /\ fetch[t].barred \in 0..Cooldown
  <2>1. fetch[t] \in FetchState
    BY <1>1
  <2>2. fetch'[t] = [fetch[t] EXCEPT !.wait = Down(@), !.barred = Down(@)]
    BY DEF Tick
  <2>3. Down(fetch[t].wait) \in 0..MaxDelay /\ Down(fetch[t].barred) \in 0..Cooldown
    BY <2>1, PolicyAssumption DEF Down, FetchState
  <2> QED
    BY <2>1, <2>2, <2>3 DEF FetchState
<1>4. fetch' \in [Tasks -> FetchState]
  <2>1. DOMAIN fetch' = Tasks /\ fetch' = [t \in Tasks |-> fetch'[t]]
    BY DEF Tick
  <2> QED
    BY <1>3, <2>1
<1>5. ClientTypeOK'
  BY <1>1, <1>2, <1>4 DEF ClientTypeOK, FetchState
<1>6. BreakerRespected'
  <2> SUFFICES ASSUME NEW t \in Tasks
               PROVE  /\ fetch'[t].at \in {"fetching", "sleeping"} => fetch'[t].barred = 0
                      /\ fetch'[t].at = "checking" => fetch'[t].barred <= Remaining'
    BY DEF BreakerRespected, At
  <2>1. /\ fetch[t].at \in {"fetching", "sleeping"} => fetch[t].barred = 0
        /\ fetch[t].at = "checking" => fetch[t].barred <= Remaining
    BY DEF ClientIInv, BreakerRespected, At
  <2> QED
    BY <1>2, <1>3, <2>1, PolicyAssumption DEF Down
<1> QED
  BY <1>5, <1>6 DEF ClientIInv

\* The dropped fetch is gone.
LEMMA DropKeeps ==
    ASSUME ClientIInv, PageDropped
    PROVE  ClientIInv'
<1>1. fetch' = [fetch EXCEPT ![Pager] = NoFetch] /\ UNCHANGED <<failures, age>>
  BY DEF PageDropped
<1>2. NoFetch \in FetchState /\ NoFetch.at = "idle"
  BY PolicyAssumption DEF NoFetch, FetchState
<1>3. /\ failures \in 0..Threshold /\ age \in 0..Cooldown \cup {Never}
      /\ Remaining \in 0..Cooldown
  BY RemainingType DEF ClientIInv, ClientTypeOK
<1>4. /\ failures' \in 0..Threshold /\ age' \in 0..Cooldown \cup {Never}
      /\ Remaining' >= Remaining
  BY <1>1, <1>3 DEF Remaining, CoolingDown
<1> QED
  BY <1>1, <1>2, <1>4, PagerAssumption, OneTaskMoves

-----------------------------------------------------------------------------
(* The composition.                                                         *)

\* The iterator's part of TypeOK: it waits for a URL exactly while its fetch_url is
\* under way.
IteratorOK ==
    /\ service \in Services /\ yielded \in Seq(Urls)
    /\ {first_doc, next_url, fetching} \subseteq Page /\ ended \in BOOLEAN
    /\ fetching = Absent <=> fetch[Pager].at \in {"idle", "done"}

PagedIInv == ClientIInv /\ IteratorOK

\* What a step of the composition does to the client.
LEMMA ClientMoves ==
    ASSUME PagedNext
    PROVE  \/ UNCHANGED clientVars
           \/ \E t \in Tasks : Begin(t) \/ Step(t)
           \/ PageDropped
           \/ Tick
  BY PagerAssumption DEF PagedNext, NextPageLocally, NextPageFetches, PagerGoesOn,
     PageArrives, PageFails, OtherFetches, TimePasses, Step

\* Every step of the composition keeps the client's invariant.
LEMMA PagedClientIInv == ClientIInv /\ [PagedNext]_pagedVars => ClientIInv'
<1> SUFFICES ASSUME ClientIInv, [PagedNext]_pagedVars PROVE ClientIInv'
  OBVIOUS
<1>1. CASE UNCHANGED clientVars
  BY <1>1 DEF clientVars, ClientIInv, ClientTypeOK, BreakerRespected, At, Remaining,
     CoolingDown
<1>2. CASE PagedNext
  BY <1>1, <1>2, ClientMoves, BeginKeeps, StepKeeps, DropKeeps, TickKeeps
<1> QED
  BY <1>1, <1>2 DEF pagedVars

\* A fetch moves its own task only, and while it goes on it is neither idle nor done.
LEMMA FetchMoves ==
    ASSUME ClientTypeOK, NEW t \in Tasks, Begin(t) \/ Step(t)
    PROVE  /\ \A s \in Tasks \ {t} : fetch'[s] = fetch[s]
           /\ Begin(t) => fetch'[t].at \in {"checking", "fetching"}
           /\ fetch'[t].at # "idle"
  BY DEF ClientTypeOK, Begin, Step, CheckCooldown, Succeed, FailTransiently, FailFinally,
     StampFailure, Wake, Go

\* Every step of the composition keeps the iterator's part.
LEMMA NextIteratorOK ==
    ClientTypeOK /\ IteratorOK /\ [PagedNext]_pagedVars => IteratorOK'
<1> SUFFICES ASSUME ClientTypeOK, IteratorOK, [PagedNext]_pagedVars PROVE IteratorOK'
  OBVIOUS
<1> DEFINE waiting == fetch[Pager].at \notin {"idle", "done"}
<1>1. /\ service \in Services /\ yielded \in Seq(Urls) /\ ended \in BOOLEAN
      /\ first_doc \in Page /\ next_url \in Page /\ fetching \in Page
      /\ fetching # Absent <=> waiting
  BY DEF IteratorOK
<1>2. /\ fetching # Absent => fetching \in Urls /\ NextUrl(service[fetching]) \in Page
      /\ Absent \in Page
  <2>1. service \in [Urls -> Seq(Page)]
    BY <1>1, ServicesAssumption
  <2>2. ASSUME fetching # Absent
        PROVE  fetching \in Urls /\ NextUrl(service[fetching]) \in Page
    <3>1. fetching \in Urls
      BY <1>1, <2>2 DEF Page
    <3>2. service[fetching] \in Seq(Page)
      BY <2>1, <3>1
    <3> QED
      BY <3>1, <3>2, NextUrlType
  <2> QED
    BY <2>2 DEF Page
<1>3. CASE NextPageLocally
  <2>1. UNCHANGED <<service, next_url, fetching, fetch>>
    BY <1>3 DEF NextPageLocally, YieldFirst, Exhausted, clientVars
  <2>2. CASE YieldFirst
    <3>1. first_doc \in Urls
      BY <1>1, <2>2 DEF YieldFirst, Page
    <3> QED
      BY <1>1, <1>2, <2>1, <2>2, <3>1 DEF YieldFirst, IteratorOK
  <2>3. CASE Exhausted
    BY <1>1, <2>1, <2>3 DEF Exhausted, IteratorOK
  <2> QED
    BY <1>3, <2>2, <2>3 DEF NextPageLocally
<1>4. CASE NextPageFetches
  <2>1. fetch'[Pager].at \in {"checking", "fetching"}
    BY <1>4, FetchMoves, PagerAssumption DEF NextPageFetches
  <2> QED
    BY <1>1, <1>2, <1>4, <2>1 DEF NextPageFetches, TakeUrl, IteratorOK
<1>5. CASE PagerGoesOn
  <2>1. waiting /\ fetch'[Pager].at # "done"
    BY <1>5 DEF PagerGoesOn, CheckCooldown, FailTransiently, Wake, At
  <2>2. fetch'[Pager].at # "idle"
    BY <1>5, FetchMoves, PagerAssumption DEF PagerGoesOn, Step
  <2> QED
    BY <1>1, <1>5, <2>1, <2>2 DEF PagerGoesOn, vars, IteratorOK
<1>6. CASE PageArrives
  <2>1. fetch'[Pager].at = "done"
    BY <1>6, PagerAssumption DEF PageArrives, Succeed, Go, ClientTypeOK
  <2> QED
    BY <1>1, <1>2, <1>6, <2>1 DEF PageArrives, FetchSucceeds, IteratorOK
<1>7. CASE PageFails
  BY <1>1, <1>2, <1>7 DEF PageFails, FetchFails, IteratorOK
<1>8. CASE PageDropped
  <2>1. fetch'[Pager].at = "idle"
    BY <1>8, PagerAssumption DEF PageDropped, NoFetch, ClientTypeOK
  <2> QED
    BY <1>1, <1>2, <1>8, <2>1 DEF PageDropped, Cancel, IteratorOK
<1>9. ASSUME NEW t \in Tasks, OtherFetches(t) PROVE IteratorOK'
  <2>1. fetch'[Pager] = fetch[Pager]
    BY <1>9, FetchMoves, PagerAssumption DEF OtherFetches
  <2> QED
    BY <1>1, <1>9, <2>1 DEF OtherFetches, vars, IteratorOK
<1>10. CASE TimePasses
  <2>1. fetch'[Pager].at = fetch[Pager].at
    <3>1. fetch'[Pager] = [fetch[Pager] EXCEPT !.wait = Down(@), !.barred = Down(@)]
      BY <1>10, PagerAssumption DEF TimePasses, Tick
    <3>2. fetch[Pager] \in FetchState
      BY PagerAssumption DEF ClientTypeOK, FetchState
    <3> QED
      BY <3>1, <3>2 DEF FetchState
  <2> QED
    BY <1>1, <1>10, <2>1 DEF TimePasses, vars, IteratorOK
<1>11. CASE UNCHANGED pagedVars
  BY <1>11 DEF pagedVars, vars, clientVars, IteratorOK
<1> QED
  BY <1>3, <1>4, <1>5, <1>6, <1>7, <1>8, <1>9, <1>10, <1>11 DEF PagedNext

\* Nothing is under way at first.
LEMMA InitPagedIInv == PagedInit => PagedIInv
<1> SUFFICES ASSUME PagedInit PROVE PagedIInv
  OBVIOUS
<1>1. ClientIInv
  BY PolicyAssumption, NeverAssumption
     DEF PagedInit, ClientInit, ClientIInv, ClientTypeOK, BreakerRespected, NoFetch, At
<1>2. fetch[Pager].at = "idle"
  BY PagerAssumption DEF PagedInit, ClientInit, NoFetch
<1>3. PagesTyped /\ service \in Services
  BY InitPagesIInv DEF PagedInit, PagesIInv, Init
<1> QED
  BY <1>1, <1>2, <1>3 DEF PagedInit, Init, PagedIInv, IteratorOK, PagesTyped

LEMMA PagedInductive == PagedSpec => []PagedIInv
<1>1. PagedIInv /\ [PagedNext]_pagedVars => PagedIInv'
  BY PagedClientIInv, NextIteratorOK DEF PagedIInv, ClientIInv
<1> QED
  BY <1>1, InitPagedIInv, PTL DEF PagedSpec

\* For any number of tasks, any policy and any service, the cells hold what they can
\* hold: no fetch makes more attempts than the policy allows or waits longer than its
\* cap, and the iterator waits exactly while its fetch is under way.
THEOREM PagedTypes == PagedSpec => []TypeOK
<1>1. PagedIInv => TypeOK
  BY DEF PagedIInv, ClientIInv, IteratorOK, TypeOK
<1> QED
  BY <1>1, PagedInductive, PTL

\* However many fetches share the breaker and whatever they record between the two
\* looks of is_open, a fetch that found it open sends nothing before the cooldown it
\* saw is over.
THEOREM BreakerHolds == PagedSpec => []OpenBreakerHolds
<1>1. PagedIInv => OpenBreakerHolds
  BY DEF PagedIInv, ClientIInv, BreakerRespected, OpenBreakerHolds, At
<1> QED
  BY <1>1, PagedInductive, PTL

\* Over the client, next_page changes the iterator's own cells only as Pagination does.
LEMMA PagerSteps == PagedSpec => Spec
<1>1. PagedInit => Init
  BY DEF PagedInit
<1>2. [PagedNext]_pagedVars => [Next]_vars
  <2>1. PagedNext => Next \/ UNCHANGED vars
    BY DEF PagedNext, NextPageLocally, NextPageFetches, PagerGoesOn, PageArrives,
       PageFails, PageDropped, OtherFetches, TimePasses, Next
  <2>2. UNCHANGED pagedVars => UNCHANGED vars
    BY DEF pagedVars
  <2> QED
    BY <2>1, <2>2
<1> QED
  BY <1>1, <1>2, PTL DEF PagedSpec, Spec

\* So the pages come in the order of the links, though fetches are retried, blocked
\* by the breaker, dropped, or fail.
THEOREM FetchedPagesInOrder == PagedSpec => []PagesFollowLinks
  BY PagerSteps, PagesInOrder, PTL
=============================================================================
