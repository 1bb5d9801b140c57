----------------------------- MODULE Pagination -----------------------------
(***************************************************************************)
(* PageIterator of src/src/pagination.rs: an application follows the       *)
(* <nav> `next` links of a service's documents.  next_page takes &mut      *)
(* self, so at most one call is in flight; the application may drop its    *)
(* future at the fetch it awaits.  How that fetch comes to its end is      *)
(* module FetchClient's; here it yields the URL's document or an error.    *)
(* A document is the sequence of the links (`next`) of the <nav> children  *)
(* of its body, empty without a body.  The data_id argument is left out:   *)
(* find_nav compares nothing with it.                                      *)
(***************************************************************************)
EXTENDS Integers, Sequences

CONSTANTS
    Urls,
    Services,     \* what a service may have at each URL
    Absent,       \* no URL
    MaxPages      \* bound on the pages yielded

Page == Urls \cup {Absent}

ASSUME ServicesAssumption == Services \subseteq [Urls -> Seq(Page)]
ASSUME AbsentAssumption == Absent \notin Urls
ASSUME MaxPagesAssumption == MaxPages \in Nat

VARIABLES
    service,     \* the documents, by URL
    first_doc,   \* the URL of the initial document, until it is yielded
    next_url,
    fetching,    \* the URL the call in flight has asked for
    ended,       \* whether next_page has returned None
    yielded      \* history: the URLs of the pages yielded

vars == <<service, first_doc, next_url, fetching, ended, yielded>>

-----------------------------------------------------------------------------
\* find_nav takes the first <nav>, and next_url its `next`.
NextUrl(doc) == IF doc = << >> THEN Absent ELSE doc[1]

\* new: the application has fetched some document of the service.
Init ==
    /\ service \in Services
    /\ first_doc \in Urls
    /\ next_url = NextUrl(service[first_doc])
    /\ fetching = Absent
    /\ ended = FALSE
    /\ yielded = << >>

Idle == fetching = Absent /\ Len(yielded) < MaxPages

\* next_page yields the initial document first ...
FaultyYieldFirst ==
    /\ Idle /\ first_doc # Absent
    /\ yielded' = Append(yielded, first_doc)
    /\ UNCHANGED <<service, first_doc, next_url, fetching, ended>>

YieldFirst ==
    /\ Idle /\ first_doc # Absent
    /\ yielded' = Append(yielded, first_doc)
    /\ first_doc' = Absent
    /\ UNCHANGED <<service, next_url, fetching, ended>>

\* ... then takes the URL out and fetches it ...
TakeUrl ==
    /\ Idle /\ first_doc = Absent /\ next_url # Absent
    /\ fetching' = next_url
    /\ next_url' = Absent
    /\ UNCHANGED <<service, first_doc, ended, yielded>>

\* ... or has nothing left.
Exhausted ==
    /\ Idle /\ first_doc = Absent /\ next_url = Absent
    /\ ended' = TRUE
    /\ UNCHANGED <<service, first_doc, next_url, fetching, yielded>>

FetchSucceeds ==
    /\ fetching # Absent
    /\ next_url' = NextUrl(service[fetching])
    /\ yielded' = Append(yielded, fetching)
    /\ fetching' = Absent
    /\ UNCHANGED <<service, first_doc, ended>>

FaultyFetchFails ==
    /\ fetching # Absent
    /\ next_url' = NextUrl(service[fetching])
    /\ fetching' = Absent
    /\ UNCHANGED <<service, first_doc, ended, yielded>>

FetchFails ==
    /\ fetching # Absent
    /\ next_url' = Absent
    /\ fetching' = Absent
    /\ UNCHANGED <<service, first_doc, ended, yielded>>

\* The application drops the call, as a select! or a timeout of its own does.
Cancel ==
    /\ fetching # Absent
    /\ fetching' = Absent
    /\ UNCHANGED <<service, first_doc, next_url, ended, yielded>>

Next ==
    \/ YieldFirst \/ TakeUrl \/ Exhausted
    \/ FetchSucceeds \/ FetchFails \/ Cancel

Spec == Init /\ [][Next]_vars

-----------------------------------------------------------------------------
(* Properties.                                                              *)

\* The pages come in the order of the links, none twice and none left out, whatever
\* calls failed or were dropped in between.
PagesFollowLinks ==
    \A k \in 1..(Len(yielded) - 1) : yielded[k + 1] = NextUrl(service[yielded[k]])
=============================================================================
