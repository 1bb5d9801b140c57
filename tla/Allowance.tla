----------------------------- MODULE Allowance -----------------------------
(***************************************************************************)
(* What the media limits of an ActionBudget promise a document              *)
(* (src/src/config.rs), without any counters: an allowance of so many       *)
(* resources and so many bytes.  Each task asks for one resource at a time  *)
(* and holds it only by a Grant, which is one step and takes its share of   *)
(* both limits; a task may also be refused.  Nothing is given back.         *)
(* Module MediaBudget shows that the tracker, which adds to two counters    *)
(* one after the other, implements this.                                    *)
(***************************************************************************)
EXTENDS Integers

CONSTANTS
    Tasks, Sizes,
    MaxFetches, MaxBandwidth     \* ActionBudget's media limits

VARIABLES
    holds,     \* per task: nothing, a request, or a resource
    taken,     \* resources granted
    volume     \* bytes granted

vars == <<holds, taken, volume>>

Init ==
    /\ holds = [t \in Tasks |-> "nothing"]
    /\ taken = 0 /\ volume = 0

Becomes(t, from, to) == holds[t] = from /\ holds' = [holds EXCEPT ![t] = to]

Ask(t) == Becomes(t, "nothing", "request") /\ UNCHANGED <<taken, volume>>

Grant(t) ==
    /\ Becomes(t, "request", "resource")
    /\ taken < MaxFetches
    /\ taken' = taken + 1
    /\ \E size \in Sizes :
        /\ volume + size <= MaxBandwidth
        /\ volume' = volume + size

Refuse(t) == Becomes(t, "request", "nothing") /\ UNCHANGED <<taken, volume>>

\* The resource is handed to the caller, or found not to be the one that was meant.
Leave(t) == Becomes(t, "resource", "nothing") /\ UNCHANGED <<taken, volume>>

Next == \E t \in Tasks : Ask(t) \/ Grant(t) \/ Refuse(t) \/ Leave(t)

Spec == Init /\ [][Next]_vars
=============================================================================
