----------------------------- MODULE PagedFetch -----------------------------
(***************************************************************************)
(* The page iterator on top of the client it fetches with: `Pager` is the  *)
(* task that runs PageIterator::next_page, whose one await is fetch_url;   *)
(* the other tasks fetch from the same origin, through the same circuit    *)
(* breaker.  Pagination's choice between an answer and an error is made    *)
(* here by the retries and the breaker.                                    *)
(***************************************************************************)
EXTENDS Pagination, FetchClient

CONSTANT Pager

ASSUME PagerAssumption == Pager \in Tasks

pagedVars == <<vars, clientVars>>

PagedInit == Init /\ ClientInit

-----------------------------------------------------------------------------
\* next_page without a request: the initial document, or None.
NextPageLocally == (YieldFirst \/ Exhausted) /\ UNCHANGED clientVars

NextPageFetches == TakeUrl /\ Begin(Pager)

\* The pager's fetch_url goes on, yields a document, or returns an error: it was
\* blocked by the breaker, failed finally, or failed on its last attempt.
PagerGoesOn ==
    /\ CheckCooldown(Pager) \/ FailTransiently(Pager) \/ Wake(Pager)
    /\ fetch'[Pager].at # "done"
    /\ UNCHANGED vars

PageArrives == Succeed(Pager) /\ FetchSucceeds

PageFails ==
    /\ CheckCooldown(Pager) \/ FailFinally(Pager) \/ StampFailure(Pager)
    /\ fetch'[Pager].at = "done"
    /\ FetchFails

\* The future of next_page is dropped at an await of fetch_url, within an attempt or
\* a backoff sleep: the breaker hears nothing of it.
PageDropped ==
    /\ fetch[Pager].at \in {"fetching", "sleeping"}
    /\ Cancel
    /\ fetch' = [fetch EXCEPT ![Pager] = NoFetch]
    /\ UNCHANGED <<failures, age>>

OtherFetches(t) == t # Pager /\ (Begin(t) \/ Step(t)) /\ UNCHANGED vars

TimePasses == Tick /\ UNCHANGED vars

PagedNext ==
    \/ NextPageLocally \/ NextPageFetches \/ PagerGoesOn \/ PageArrives \/ PageFails
    \/ PageDropped
    \/ \E t \in Tasks : OtherFetches(t)
    \/ TimePasses

\* Time passes, tasks are scheduled, and reqwest's timeout ends every attempt; the
\* application loops `while let Some(page) = pages.next_page().await`.
PagedSpec ==
    /\ PagedInit /\ [][PagedNext]_pagedVars
    /\ WF_pagedVars(TimePasses)
    /\ WF_pagedVars(NextPageLocally \/ NextPageFetches)
    /\ WF_pagedVars(PagerGoesOn \/ PageArrives \/ PageFails)
    /\ \A t \in Tasks \ {Pager} : WF_pagedVars(Step(t) /\ UNCHANGED vars)

-----------------------------------------------------------------------------
(* Properties.                                                              *)

\* The cells hold what they can hold, and the iterator waits for a URL exactly while
\* its fetch_url is under way.
TypeOK ==
    /\ ClientTypeOK
    /\ service \in Services /\ yielded \in Seq(Urls)
    /\ {first_doc, next_url, fetching} \subseteq Page /\ ended \in BOOLEAN
    /\ fetching = Absent <=> fetch[Pager].at \in {"idle", "done"}

\* The application's loop ends if the links do, even if the service fails every
\* attempt, the breaker opens and other tasks keep failing: each fetch is answered,
\* and one that is dropped or fails does not bring its URL back.
PaginationEnds == <>ended
=============================================================================
