------------------------- MODULE MediaBudgetProofs -------------------------
(***************************************************************************)
(* The media budget holds for any number of tasks and any limits.  The     *)
(* resources let through are compared with the limits, but the tracker     *)
(* compares its own counters: the inductive invariant adds that the        *)
(* counters are never behind what was let through.  With it, every step of *)
(* the tracker is a step of module Allowance or changes nothing of it.     *)
(***************************************************************************)
EXTENDS MediaBudget, FiniteSetTheorems, TLAPS

\* Fetches counted, and not yet past the bandwidth.
Adding == {t \in Tasks : At(t, "adding")}

\* However the tasks interleave between the two counters, the resources handed on
\* stay within both limits of the document.
AcceptedWithinBudget ==
    accepted + Cardinality(Adding) <= MaxFetches /\ bytes <= MaxBandwidth

Phase == {"idle", "counting", "adding", "verifying", "done", "failed"}

Typed ==
    /\ fetch_count \in Nat /\ bandwidth_bytes \in Nat
    /\ accepted \in Nat /\ bytes \in Nat
    /\ task \in [Tasks -> [at : Phase, size : Nat]]

\* What is on its way through the counters is the size of a resource.
Sized == \A t \in Tasks : At(t, "counting") \/ At(t, "adding") => task[t].size \in Sizes

\* Every fetch past the count was counted, every byte let through was added.
CountersKeepUp ==
    /\ accepted + Cardinality(Adding) <= fetch_count
    /\ bytes <= bandwidth_bytes

IInv == Typed /\ Sized /\ CountersKeepUp /\ AcceptedWithinBudget

\* The tasks between the two counters are finitely many.
LEMMA AddingFinite == IsFiniteSet(Adding) /\ Cardinality(Adding) \in Nat
<1>1. IsFiniteSet(Adding)
  BY TasksAssumption, FS_Subset DEF Adding
<1> QED
  BY <1>1, FS_CardinalityType

\* The invariant holds at first.
LEMMA InitIInv == Init => IInv
<1> SUFFICES ASSUME Init PROVE IInv
  OBVIOUS
<1>1. Adding = {}
  BY DEF Init, Adding, At
<1>2. Cardinality(Adding) = 0
  BY <1>1, FS_EmptySet
<1> QED
  BY <1>2, BudgetAssumption DEF Init, IInv, Typed, Sized, At, CountersKeepUp, AcceptedWithinBudget,
                              Phase

\* Every step keeps the invariant.
LEMMA NextIInv == IInv /\ [Next]_vars => IInv'
<1> SUFFICES ASSUME IInv, [Next]_vars PROVE IInv'
  OBVIOUS
<1> USE AddingFinite, BudgetAssumption DEF IInv
<1>1. ASSUME NEW t \in Tasks, Download(t) PROVE IInv'
  <2>0. Sized'
    BY <1>1 DEF Download, Typed, Sized, Go, At
  <2>1. Typed'
    BY <1>1, SizesAssumption DEF Download, Typed, Go, Phase
  <2>2. Adding' = Adding
    BY <1>1 DEF Download, Typed, Go, Adding, At
  <2> QED
    BY <1>1, <2>0, <2>1, <2>2 DEF Download, CountersKeepUp, AcceptedWithinBudget
<1>2. ASSUME NEW t \in Tasks, CountFetch(t) PROVE IInv'
  <2>0. Sized'
    BY <1>2 DEF CountFetch, Typed, Sized, Go, At
  <2>1. Typed'
    BY <1>2 DEF CountFetch, Typed, Go, Phase
  <2>2. CASE fetch_count + 1 > MaxFetches
    <3>1. Adding' = Adding
      BY <1>2, <2>2 DEF CountFetch, Typed, Go, Adding, At
    <3> QED
      BY <1>2, <2>0, <2>1, <3>1 DEF CountFetch, CountersKeepUp, AcceptedWithinBudget, Typed
  <2>3. CASE ~(fetch_count + 1 > MaxFetches)
    <3>1. Adding' = Adding \cup {t} /\ t \notin Adding
      BY <1>2, <2>3 DEF CountFetch, Typed, Go, Adding, At
    <3>2. Cardinality(Adding') = Cardinality(Adding) + 1
      BY <3>1, FS_AddElement
    <3> QED
      BY <1>2, <2>0, <2>1, <2>3, <3>2
         DEF CountFetch, CountersKeepUp, AcceptedWithinBudget, Typed
  <2> QED
    BY <2>2, <2>3
<1>3. ASSUME NEW t \in Tasks, AddBandwidth(t) PROVE IInv'
  <2>0. Sized'
    BY <1>3 DEF AddBandwidth, Typed, Sized, Go, At
  <2>1. task[t].size \in Nat
    BY DEF Typed
  <2>2. Typed'
    BY <1>3, <2>1 DEF AddBandwidth, Typed, Go, Phase
  <2>3. Adding' = Adding \ {t} /\ t \in Adding
    BY <1>3 DEF AddBandwidth, Typed, Go, Adding, At
  <2>4. Cardinality(Adding') = Cardinality(Adding) - 1
    BY <2>3, FS_RemoveElement
  <2> QED
    BY <1>3, <2>0, <2>1, <2>2, <2>4 DEF AddBandwidth, CountersKeepUp, AcceptedWithinBudget, Typed
<1>4. ASSUME NEW t \in Tasks, Verify(t) PROVE IInv'
  <2>0. Sized'
    BY <1>4 DEF Verify, Typed, Sized, Go, At
  <2>1. Typed'
    BY <1>4 DEF Verify, Typed, Go, Phase
  <2>2. Adding' = Adding
    BY <1>4 DEF Verify, Typed, Go, Adding, At
  <2> QED
    BY <1>4, <2>0, <2>1, <2>2 DEF Verify, CountersKeepUp, AcceptedWithinBudget
<1>5. CASE UNCHANGED vars
  <2>1. Adding' = Adding
    BY <1>5 DEF vars, Adding, At
  <2> QED
    BY <1>5, <2>1 DEF vars, Typed, Sized, At, CountersKeepUp, AcceptedWithinBudget
<1> QED
  BY <1>1, <1>2, <1>3, <1>4, <1>5 DEF Next

\* For any number of tasks and any limits, the resources fetch_verified_resource
\* hands on stay within the document's media budget.
THEOREM MediaWithinBudget == Spec => []AcceptedWithinBudget
<1>1. Init => IInv
  BY InitIInv
<1>2. IInv /\ [Next]_vars => IInv'
  BY NextIInv
<1>3. IInv => AcceptedWithinBudget
  BY DEF IInv
<1> QED
  BY <1>1, <1>2, <1>3, PTL DEF Spec

\* For any number of tasks, any sizes and any limits, the tracker implements an
\* allowance from which each resource takes its share in one step.
THEOREM TrackerIsAllowance == Spec => ImplementsAllowance
<1>1. Init => Atomic!Init
  BY DEF Init, Atomic!Init, Holding, At
<1>2. IInv /\ [Next]_vars => [Atomic!Next]_(Atomic!vars)
  <2> SUFFICES ASSUME IInv, [Next]_vars PROVE [Atomic!Next]_(Atomic!vars)
    OBVIOUS
  <2> USE DEF IInv
  <2>1. ASSUME NEW t \in Tasks, Download(t) PROVE [Atomic!Next]_(Atomic!vars)
    <3>1. CASE task'[t].at = "counting" /\ task' = [task EXCEPT ![t] = task'[t]]
      <4>1. Holding[t] = "nothing" /\ Holding' = [Holding EXCEPT ![t] = "request"]
        BY <2>1, <3>1 DEF Download, Typed, Holding, At
      <4> QED
        BY <2>1, <4>1 DEF Download, Atomic!Next, Atomic!Ask, Atomic!Becomes
    <3>2. CASE Go(t, "failed")
      <4>1. Holding' = Holding
        BY <2>1, <3>2 DEF Download, Go, Typed, Holding, At
      <4> QED
        BY <2>1, <4>1 DEF Download, Atomic!vars
    <3> QED
      BY <2>1, <3>1, <3>2 DEF Download, Typed
  <2>2. ASSUME NEW t \in Tasks, CountFetch(t) PROVE [Atomic!Next]_(Atomic!vars)
    <3>1. CASE fetch_count' > MaxFetches
      <4>1. Holding[t] = "request" /\ Holding' = [Holding EXCEPT ![t] = "nothing"]
        BY <2>2, <3>1 DEF CountFetch, Go, Typed, Holding, At
      <4> QED
        BY <2>2, <4>1 DEF CountFetch, Atomic!Next, Atomic!Refuse, Atomic!Becomes
    <3>2. CASE ~(fetch_count' > MaxFetches)
      <4>1. Holding' = Holding
        BY <2>2, <3>2 DEF CountFetch, Go, Typed, Holding, At
      <4> QED
        BY <2>2, <4>1 DEF CountFetch, Atomic!vars
    <3> QED
      BY <3>1, <3>2
  <2>3. ASSUME NEW t \in Tasks, AddBandwidth(t) PROVE [Atomic!Next]_(Atomic!vars)
    <3>0. bandwidth_bytes' \in Nat /\ bandwidth_bytes' = bandwidth_bytes + task[t].size
      BY <2>3 DEF AddBandwidth, Typed
    <3>1. CASE bandwidth_bytes' > MaxBandwidth
      <4>0. Go(t, "failed") /\ UNCHANGED <<accepted, bytes>>
        BY <2>3, <3>0, <3>1, BudgetAssumption DEF AddBandwidth
      <4>1. /\ Holding[t] = "request" /\ Holding' = [Holding EXCEPT ![t] = "nothing"]
            /\ UNCHANGED <<accepted, bytes>>
        BY <2>3, <4>0, ZenonT(60) DEF AddBandwidth, Go, Typed, Holding, At
      <4> QED
        BY <4>1 DEF Atomic!Next, Atomic!Refuse, Atomic!Becomes
    <3>2. CASE ~(bandwidth_bytes' > MaxBandwidth)
      <4>0. /\ Go(t, "verifying")
            /\ accepted' = accepted + 1 /\ bytes' = bytes + task[t].size
        BY <2>3, <3>0, <3>2, BudgetAssumption DEF AddBandwidth
      <4>1. Holding[t] = "request" /\ Holding' = [Holding EXCEPT ![t] = "resource"]
        BY <2>3, <4>0 DEF AddBandwidth, Go, Typed, Holding, At
      <4>2. task[t].size \in Sizes /\ t \in Adding
        BY <2>3 DEF AddBandwidth, Sized, Adding
      <4>3. accepted < MaxFetches
        <5>1. Cardinality(Adding) # 0
          BY <4>2, AddingFinite, FS_EmptySet
        <5> QED
          BY <5>1, AddingFinite, BudgetAssumption DEF Typed, AcceptedWithinBudget
      <4>4. bytes + task[t].size <= MaxBandwidth
        BY <3>0, <3>2, <4>2, SizesAssumption, BudgetAssumption DEF Typed, CountersKeepUp
      <4>5. Atomic!Grant(t)
        BY <4>0, <4>1, <4>2, <4>3, <4>4 DEF Atomic!Grant, Atomic!Becomes
      <4> QED
        BY <4>5 DEF Atomic!Next
    <3> QED
      BY <3>1, <3>2
  <2>4. ASSUME NEW t \in Tasks, Verify(t) PROVE [Atomic!Next]_(Atomic!vars)
    <3>1. Holding[t] = "resource" /\ Holding' = [Holding EXCEPT ![t] = "nothing"]
      BY <2>4 DEF Verify, Go, Typed, Holding, At
    <3> QED
      BY <2>4, <3>1 DEF Verify, Atomic!Next, Atomic!Leave, Atomic!Becomes
  <2>5. CASE UNCHANGED vars
    <3>1. Holding' = Holding
      BY <2>5 DEF vars, Holding, At
    <3> QED
      BY <2>5, <3>1 DEF vars, Atomic!vars
  <2> QED
    BY <2>1, <2>2, <2>3, <2>4, <2>5 DEF Next
<1> QED
  BY InitIInv, NextIInv, <1>1, <1>2, PTL DEF Spec, ImplementsAllowance, Atomic!Spec
=============================================================================
