----------------------------- MODULE MediaBudget -----------------------------
(***************************************************************************)
(* fetch_verified_resource and MediaBudgetTracker of src/src/integrity.rs: *)
(* tasks fetch the media of one document against one tracker.  A resource  *)
(* is its size; whether its bytes match the integrity attribute is up to   *)
(* the server.  The counters' widths (u32, u64) are out of reach.          *)
(***************************************************************************)
EXTENDS Integers, FiniteSets

CONSTANTS
    Tasks,
    Sizes,                     \* sizes of the resources
    MaxFetches, MaxBandwidth,  \* the ActionBudget's media limits
    MaxDownloads               \* bound on the downloads

ASSUME TasksAssumption == IsFiniteSet(Tasks)
ASSUME SizesAssumption == Sizes \subseteq Nat
ASSUME BudgetAssumption == MaxFetches \in Nat /\ MaxBandwidth \in Nat /\ MaxDownloads \in Nat

VARIABLES
    fetch_count, bandwidth_bytes,   \* the tracker
    task,          \* per task, where its fetch is and the size it holds
    downloads,     \* history: resources downloaded
    accepted,      \* history: fetches record_fetch let through
    bytes          \* history: their sizes, summed

vars == <<fetch_count, bandwidth_bytes, task, downloads, accepted, bytes>>

Init ==
    /\ fetch_count = 0 /\ bandwidth_bytes = 0
    /\ task = [t \in Tasks |-> [at |-> "idle", size |-> 0]]
    /\ downloads = 0 /\ accepted = 0 /\ bytes = 0

Go(t, at) == task' = [task EXCEPT ![t].at = at]
At(t, at) == task[t].at = at

\* The GET and its body, each under the timeout; the budget is not asked yet.
Download(t) ==
    /\ task[t].at \in {"idle", "done", "failed"}
    /\ downloads < MaxDownloads
    /\ \/ Go(t, "failed") /\ UNCHANGED downloads
       \/ \E size \in Sizes :
            /\ task' = [task EXCEPT ![t] = [at |-> "counting", size |-> size]]
            /\ downloads' = downloads + 1
    /\ UNCHANGED <<fetch_count, bandwidth_bytes, accepted, bytes>>

\* record_fetch: add one to the count, then compare ...
CountFetch(t) ==
    /\ At(t, "counting")
    /\ fetch_count' = fetch_count + 1
    /\ Go(t, IF fetch_count' > MaxFetches THEN "failed" ELSE "adding")
    /\ UNCHANGED <<bandwidth_bytes, downloads, accepted, bytes>>

\* ... add the size to the bandwidth, then compare.
FaultyAddBandwidth(t) ==
    LET total == bandwidth_bytes + task[t].size
    IN  /\ At(t, "adding")
        /\ bandwidth_bytes' = IF total > MaxBandwidth THEN 0 ELSE total
        /\ IF total > MaxBandwidth
           THEN Go(t, "failed") /\ UNCHANGED <<accepted, bytes>>
           ELSE Go(t, "verifying") /\ accepted' = accepted + 1 /\ bytes' = bytes + task[t].size
        /\ UNCHANGED <<fetch_count, downloads>>

AddBandwidth(t) ==
    LET total == bandwidth_bytes + task[t].size
    IN  /\ At(t, "adding")
        /\ bandwidth_bytes' = total
        /\ \/ /\ total > MaxBandwidth
              /\ Go(t, "failed")
              /\ UNCHANGED <<accepted, bytes>>
           \/ /\ total <= MaxBandwidth
              /\ Go(t, "verifying")
              /\ accepted' = accepted + 1
              /\ bytes' = bytes + task[t].size
        /\ UNCHANGED <<fetch_count, downloads>>

\* verify_integrity, with the strongest token's algorithm.
Verify(t) ==
    /\ At(t, "verifying")
    /\ Go(t, "done") \/ Go(t, "failed")
    /\ UNCHANGED <<fetch_count, bandwidth_bytes, downloads, accepted, bytes>>

Next == \E t \in Tasks : Download(t) \/ CountFetch(t) \/ AddBandwidth(t) \/ Verify(t)

Spec == Init /\ [][Next]_vars

-----------------------------------------------------------------------------
(* Properties.                                                              *)

\* A task holds a request from the download to the second comparison, and a resource
\* from there to the end of the verification.
Holding ==
    [t \in Tasks |->
        IF At(t, "counting") \/ At(t, "adding") THEN "request"
        ELSE IF At(t, "verifying") THEN "resource" ELSE "nothing"]

Atomic == INSTANCE Allowance WITH holds <- Holding, taken <- accepted, volume <- bytes

\* Two counters that are added to in separate steps, and keep what was refused, give
\* the caller an allowance that is taken from in one step: no interleaving lets a task
\* verify and return a resource without its share of both limits.
ImplementsAllowance == Atomic!Spec
=============================================================================
