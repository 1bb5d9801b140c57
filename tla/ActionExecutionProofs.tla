----------------------- MODULE ActionExecutionProofs -----------------------
(***************************************************************************)
(* What holds of action execution for any number of tasks, any budget, any *)
(* number of repeated calls and resets, over a network that loses and      *)
(* delays what it likes.                                                   *)
(*                                                                         *)
(* The budget: a call past the check found the count below the limit, so   *)
(* the overshoot is at most the other tasks.  The exchange: how often a    *)
(* call has sent follows from where it is; and no two requests of one call *)
(* are ever on the way or applied together, since a second one is sent     *)
(* only when a 401 has come back for the first, and a request answered by  *)
(* 401 is neither on the way nor applied.                                  *)
(***************************************************************************)
EXTENDS ActionExecution, FiniteSetTheorems, TLAPS

Unsent == {"idle", "disclosing", "confirming", "checking", "recording", "counting"}
Confirmed == {"checking", "recording", "counting", "credentials", "waiting", "refreshing"}

\* Where a call is says what it has sent and whether it was confirmed.
CallConsistent(t) ==
    /\ call[t].at \in Unsent => call[t].sends = 0 /\ ~call[t].refreshed
    /\ call[t].at = "credentials" => call[t].sends = IF call[t].refreshed THEN 1 ELSE 0
    /\ call[t].at = "waiting" => call[t].sends = IF call[t].refreshed THEN 2 ELSE 1
    /\ call[t].at = "refreshing" => call[t].sends = 1 /\ ~call[t].refreshed
    /\ action[t].confirm /\ (call[t].at \in Confirmed \/ call[t].sends > 0)
          => call[t].confirmed

CallsConsistent == \A t \in Tasks : CallConsistent(t)

\* The requests the server has, or may yet get.
Live == requests \cup applied

\* A request that its task has sent: of an earlier call, or of this one.
Sent(r) ==
    \/ r.key < call[r.task].retries
    \/ r.key = call[r.task].retries /\ r.send <= call[r.task].sends

\* A call that is about to send its second request.
Armed(t) ==
    call[t].at = "refreshing" \/ (call[t].at = "credentials" /\ call[t].refreshed)

FirstRequest(t) == [task |-> t, key |-> call[t].retries, send |-> 1]

NetworkConsistent ==
    /\ \A r \in Live : Sent(r)
    /\ \A p \in replies : Sent(p.request)
    /\ requests \cap applied = {}
    /\ \A p \in replies : p.status = 401 => p.request \notin Live
    /\ \A t \in Tasks : Armed(t) => FirstRequest(t) \notin Live
    /\ \A p, q \in Live : p.task = q.task /\ p.key = q.key => p.send = q.send

IInv == TypeOK /\ CallsConsistent /\ NetworkConsistent

-----------------------------------------------------------------------------
(* The exchange.                                                            *)

\* A step that sends and serves nothing keeps the network consistent, if what was
\* sent stays sent and no call is armed whose first request is left.
LEMMA QuietStep ==
    ASSUME NetworkConsistent,
           requests' \subseteq requests, replies' \subseteq replies, applied' = applied,
           requests \subseteq Request, applied \subseteq Request,
           replies \subseteq [request : Request, status : {200, 401}],
           \A r \in Request : Sent(r) => Sent(r)',
           \A t \in Tasks : Armed(t)' => FirstRequest(t)' \notin Live
    PROVE  NetworkConsistent'
<1>1. Live' \subseteq Live /\ Live \subseteq Request
  BY DEF Live
<1>2. \A p \in replies : p.request \in Request
  OBVIOUS
<1> QED
  BY <1>1, <1>2 DEF NetworkConsistent

\* A call as it starts, whatever its number, is a call.
LEMMA FreshCall ==
    ASSUME NEW n \in 0..MaxRetries
    PROVE  Fresh(n) \in Call
BY DEF Fresh, Call, Places

\* The invariant holds before any call has started.
LEMMA InitIInv == Init => IInv
<1> SUFFICES ASSUME Init PROVE IInv
  OBVIOUS
<1>1. TypeOK
  <2>1. Fresh(0) \in Call
    BY FreshCall, BoundsAssumption
  <2>2. call \in [Tasks -> Call]
    BY <2>1 DEF Init
  <2>3. setup \in Setup /\ action \in [Tasks -> Action] /\ resets \in 0..MaxResets
    BY SetupsAssumption, ActionsAssumption, BoundsAssumption DEF Init
  <2> QED
    BY <2>2, <2>3 DEF Init, TypeOK
<1>2. CallsConsistent
  BY DEF Init, CallsConsistent, CallConsistent, Fresh, Unsent, Confirmed
<1>3. NetworkConsistent
  BY DEF Init, NetworkConsistent, Live, Armed, Fresh
<1> QED
  BY <1>1, <1>2, <1>3 DEF IInv

\* What Go does to the calls: it moves one and changes nothing else of it.
LEMMA Moved ==
    ASSUME call \in [Tasks -> Call], NEW t \in Tasks, NEW place \in Places, Go(t, place)
    PROVE  /\ call' \in [Tasks -> Call]
           /\ \A u \in Tasks : u # t => call'[u] = call[u]
           /\ call'[t].at = place /\ call'[t].confirmed = call[t].confirmed
           /\ call'[t].sends = call[t].sends /\ call'[t].refreshed = call[t].refreshed
           /\ call'[t].retries = call[t].retries
<1>1. call[t] \in Call
  OBVIOUS
<1>2. call' = [call EXCEPT ![t] = [call[t] EXCEPT !.at = place]]
  BY DEF Go
<1>3. [call[t] EXCEPT !.at = place] \in Call
  BY <1>1 DEF Call
<1>4. call' \in [Tasks -> Call] /\ \A u \in Tasks : u # t => call'[u] = call[u]
  BY <1>2, <1>3
<1>5. call'[t] = [call[t] EXCEPT !.at = place]
  BY <1>2
<1> QED
  BY <1>1, <1>4, <1>5 DEF Call

\* A step that changes one call, and neither sends nor serves, keeps the invariant if
\* it keeps that call consistent, unless it forgets what was sent or arms the call
\* too early.
LEMMA OneCallStep ==
    ASSUME IInv, NEW t \in Tasks,
           call' \in [Tasks -> Call],
           \A u \in Tasks : u # t => call'[u] = call[u],
           \/ call'[t].retries = call[t].retries /\ call'[t].sends = call[t].sends
           \/ call'[t].retries > call[t].retries,
           CallConsistent(t)', Armed(t)' => FirstRequest(t)' \notin Live,
           count' \in Nat, origins' \subseteq Origins, replies' \subseteq replies,
           UNCHANGED <<setup, action, resets, resetting, requests, applied>>
    PROVE  IInv'
<1>1. TypeOK'
  BY DEF IInv, TypeOK
<1>2. CallsConsistent'
  BY DEF IInv, CallsConsistent, CallConsistent
<1>3. \A u \in Tasks : Armed(u)' => FirstRequest(u)' \notin Live
  BY DEF Armed, FirstRequest, IInv, NetworkConsistent
<1>4. \A r \in Request : Sent(r) => Sent(r)'
  <2> SUFFICES ASSUME NEW r \in Request, Sent(r) PROVE Sent(r)'
    OBVIOUS
  <2>1. /\ r.task \in Tasks /\ r.key \in Int /\ r.send \in Int
        /\ call[r.task].retries \in Int /\ call'[r.task].retries \in Int
    BY DEF Request, IInv, TypeOK, Call
  <2> QED
    BY <2>1 DEF Sent
<1>5. NetworkConsistent'
  BY <1>3, <1>4, QuietStep DEF IInv, TypeOK
<1> QED
  BY <1>1, <1>2, <1>5 DEF IInv

\* The steps before the first request, and the failing ones after it.
LocalStep(t) ==
    \/ Prepare(t) \/ Disclose(t) \/ Confirm(t) \/ CheckCount(t) \/ RecordOrigin(t)
    \/ CountRequest(t) \/ Timeout(t)

\* Preparing, disclosing, confirming, checking the budget and timing out keep it.
LEMMA LocalIInv ==
    ASSUME IInv, NEW t \in Tasks, LocalStep(t)
    PROVE  IInv'
<1> USE DEF At
<1>1. /\ call \in [Tasks -> Call] /\ call[t] \in Call /\ CallConsistent(t)
      /\ action[t].origin \in Origins /\ action[t].confirm \in BOOLEAN
      /\ count \in Nat /\ origins \subseteq Origins
  BY DEF IInv, CallsConsistent, TypeOK, Action
<1>2. CASE Prepare(t)
  <2>1. PICK place \in {"disclosing", "failed"} : Go(t, place)
    BY <1>2 DEF Prepare
  <2>2. place \in Places
    BY DEF Places
  <2>3. CallConsistent(t)' /\ ~Armed(t)'
    BY <1>1, <1>2, <2>1, <2>2, Moved
       DEF Prepare, CallConsistent, Unsent, Confirmed, Armed
  <2> QED
    BY <1>1, <1>2, <2>1, <2>2, <2>3, Moved, OneCallStep DEF Prepare
<1>3. CASE Disclose(t)
  <2>1. PICK denied \in BOOLEAN :
          call' = [call EXCEPT ![t] = [call[t] EXCEPT !.at = "confirming",
                                                      !.denied = denied]]
    BY <1>3 DEF Disclose
  <2> DEFINE c == [call[t] EXCEPT !.at = "confirming", !.denied = denied]
  <2>2. /\ c \in Call /\ c.at = "confirming" /\ c.confirmed = call[t].confirmed
        /\ c.sends = call[t].sends /\ c.refreshed = call[t].refreshed
        /\ c.retries = call[t].retries
    BY <1>1 DEF Call, Places
  <2>3. /\ call'[t] = c /\ call' \in [Tasks -> Call]
        /\ \A u \in Tasks : u # t => call'[u] = call[u]
    BY <1>1, <2>1, <2>2
  <2> HIDE DEF c
  <2>4. CallConsistent(t)' /\ ~Armed(t)'
    BY <1>1, <1>3, <2>2, <2>3
       DEF Disclose, CallConsistent, Unsent, Confirmed, Armed
  <2> QED
    BY <1>1, <1>3, <2>2, <2>3, <2>4, OneCallStep DEF Disclose
<1>4. CASE Confirm(t)
  <2>1. CASE /\ action[t].confirm /\ setup.confirm
             /\ call' = [call EXCEPT ![t] = [call[t] EXCEPT !.at = "checking",
                                                            !.confirmed = TRUE]]
    <3> DEFINE c == [call[t] EXCEPT !.at = "checking", !.confirmed = TRUE]
    <3>2. /\ c \in Call /\ c.at = "checking" /\ c.confirmed
          /\ c.sends = call[t].sends /\ c.refreshed = call[t].refreshed
          /\ c.retries = call[t].retries
      BY <1>1 DEF Call, Places
    <3>3. /\ call'[t] = c /\ call' \in [Tasks -> Call]
          /\ \A u \in Tasks : u # t => call'[u] = call[u]
      BY <1>1, <2>1, <3>2
    <3> HIDE DEF c
    <3>4. CallConsistent(t)' /\ ~Armed(t)'
      BY <1>1, <1>4, <3>2, <3>3
         DEF Confirm, CallConsistent, Unsent, Confirmed, Armed
    <3> QED
      BY <1>1, <1>4, <3>2, <3>3, <3>4, OneCallStep DEF Confirm
  <2>2. CASE \/ Go(t, "failed")
             \/ ~action[t].confirm /\ Go(t, "checking")
    <3>1. PICK place \in {"failed", "checking"} :
            Go(t, place) /\ (place = "checking" => ~action[t].confirm)
      BY <2>2
    <3>2. place \in Places
      BY DEF Places
    <3>3. CallConsistent(t)' /\ ~Armed(t)'
      BY <1>1, <1>4, <3>1, <3>2, Moved
         DEF Confirm, CallConsistent, Unsent, Confirmed, Armed
    <3> QED
      BY <1>1, <1>4, <3>1, <3>2, <3>3, Moved, OneCallStep DEF Confirm
  <2> QED
    BY <1>4, <2>1, <2>2 DEF Confirm
<1>5. CASE CheckCount(t)
  <2>1. PICK place \in {"recording", "failed"} : Go(t, place)
    BY <1>5 DEF CheckCount
  <2>2. place \in Places
    BY DEF Places
  <2>3. CallConsistent(t)' /\ ~Armed(t)'
    BY <1>1, <1>5, <2>1, <2>2, Moved
       DEF CheckCount, CallConsistent, Unsent, Confirmed, Armed
  <2> QED
    BY <1>1, <1>5, <2>1, <2>2, <2>3, Moved, OneCallStep DEF CheckCount
<1>6. CASE RecordOrigin(t)
  <2>1. PICK place \in {"counting", "failed"} : Go(t, place)
    BY <1>6 DEF RecordOrigin
  <2>2. place \in Places
    BY DEF Places
  <2>3. CallConsistent(t)' /\ ~Armed(t)'
    BY <1>1, <1>6, <2>1, <2>2, Moved
       DEF RecordOrigin, CallConsistent, Unsent, Confirmed, Armed
  <2>4. count' \in Nat /\ origins' \subseteq Origins
    BY <1>1, <1>6 DEF RecordOrigin
  <2> QED
    BY <1>1, <1>6, <2>1, <2>2, <2>3, <2>4, Moved, OneCallStep DEF RecordOrigin
<1>7. CASE CountRequest(t)
  <2>1. "credentials" \in Places /\ Go(t, "credentials")
    BY <1>7 DEF CountRequest, Places
  <2>2. CallConsistent(t)' /\ ~Armed(t)'
    BY <1>1, <1>7, <2>1, Moved
       DEF CountRequest, CallConsistent, Unsent, Confirmed, Armed
  <2>3. count' \in Nat /\ origins' \subseteq Origins
    BY <1>1, <1>7 DEF CountRequest
  <2> QED
    BY <1>1, <1>7, <2>1, <2>2, <2>3, Moved, OneCallStep DEF CountRequest
<1>8. CASE Timeout(t)
  <2>1. "lost" \in Places /\ Go(t, "lost")
    BY <1>8 DEF Timeout, Places
  <2>2. CallConsistent(t)' /\ ~Armed(t)'
    BY <1>1, <1>8, <2>1, Moved
       DEF Timeout, CallConsistent, Unsent, Confirmed, Armed
  <2> QED
    BY <1>1, <1>8, <2>1, <2>2, Moved, OneCallStep DEF Timeout
<1> QED
  BY <1>2, <1>3, <1>4, <1>5, <1>6, <1>7, <1>8 DEF LocalStep

\* The answer: a 401 to the first request shows that the first request is gone.
LEMMA ReceiveIInv ==
    ASSUME IInv, NEW t \in Tasks, Receive(t)
    PROVE  IInv'
<1> USE DEF At
<1>1. call \in [Tasks -> Call] /\ call[t] \in Call /\ CallConsistent(t)
  BY DEF IInv, CallsConsistent, TypeOK
<1>2. PICK r \in replies :
        /\ r.request = [task |-> t, key |-> call[t].retries, send |-> call[t].sends]
        /\ replies' = replies \ {r}
        /\ Go(t, IF r.status = 401 /\ NeedsAuth(t) /\ setup.auth /\ ~call[t].refreshed
                 THEN "refreshing" ELSE "done")
  BY DEF Receive
<1>3. PICK place \in {"refreshing", "done"} :
        /\ Go(t, place)
        /\ place = "refreshing" => r.status = 401 /\ ~call[t].refreshed
  BY <1>2
<1>4. place \in Places
  BY DEF Places
<1>5. CallConsistent(t)'
  BY <1>1, <1>3, <1>4, Moved DEF Receive, CallConsistent, Unsent, Confirmed
<1>6. Armed(t)' => FirstRequest(t)' \notin Live
  <2> SUFFICES ASSUME Armed(t)' PROVE FirstRequest(t)' \notin Live
    OBVIOUS
  <2>1. place = "refreshing"
    BY <1>1, <1>3, <1>4, Moved DEF Armed
  <2>2. r.request = FirstRequest(t)
    BY <1>1, <1>2, <1>3, <2>1 DEF Receive, CallConsistent, FirstRequest
  <2>3. r.request \notin Live
    BY <1>3, <2>1 DEF IInv, NetworkConsistent
  <2>4. FirstRequest(t)' = FirstRequest(t)
    BY <1>1, <1>3, <1>4, Moved DEF FirstRequest
  <2> QED
    BY <2>2, <2>3, <2>4
<1> QED
  BY <1>1, <1>2, <1>3, <1>4, <1>5, <1>6, Moved, OneCallStep DEF Receive, IInv, TypeOK

\* The credentials are refreshed: the call is armed, as it was while refreshing.
LEMMA RefreshIInv ==
    ASSUME IInv, NEW t \in Tasks, Refresh(t)
    PROVE  IInv'
<1> USE DEF At
<1>1. call \in [Tasks -> Call] /\ call[t] \in Call /\ CallConsistent(t)
  BY DEF IInv, CallsConsistent, TypeOK
<1>2. count' \in Nat /\ origins' \subseteq Origins /\ replies' = replies
  BY DEF Refresh, IInv, TypeOK
<1>3. CASE Go(t, "done")
  <2>1. "done" \in Places
    BY DEF Places
  <2>2. CallConsistent(t)' /\ ~Armed(t)'
    BY <1>1, <1>3, <2>1, Moved DEF Refresh, CallConsistent, Unsent, Confirmed, Armed
  <2> QED
    BY <1>1, <1>2, <1>3, <2>1, <2>2, Moved, OneCallStep DEF Refresh
<1>4. CASE call' = [call EXCEPT ![t] = [call[t] EXCEPT !.at = "credentials",
                                                       !.refreshed = TRUE]]
  <2> DEFINE c == [call[t] EXCEPT !.at = "credentials", !.refreshed = TRUE]
  <2>1. /\ c \in Call /\ c.at = "credentials" /\ c.confirmed = call[t].confirmed
        /\ c.sends = call[t].sends /\ c.refreshed
        /\ c.retries = call[t].retries
    BY <1>1 DEF Call, Places
  <2>2. /\ call'[t] = c /\ call' \in [Tasks -> Call]
        /\ \A u \in Tasks : u # t => call'[u] = call[u]
    BY <1>1, <1>4, <2>1
  <2> HIDE DEF c
  <2>3. CallConsistent(t)'
    BY <1>1, <2>1, <2>2 DEF Refresh, CallConsistent, Unsent, Confirmed
  <2>4. FirstRequest(t)' = FirstRequest(t) /\ FirstRequest(t) \notin Live
    BY <2>1, <2>2 DEF FirstRequest, Refresh, Armed, IInv, NetworkConsistent
  <2> QED
    BY <1>1, <1>2, <2>1, <2>2, <2>3, <2>4, OneCallStep DEF Refresh
<1> QED
  BY <1>3, <1>4 DEF Refresh

\* A new call has a key of its own.
LEMMA RetryIInv ==
    ASSUME IInv, NEW t \in Tasks, Retry(t)
    PROVE  IInv'
<1>1. call \in [Tasks -> Call] /\ call[t] \in Call /\ MaxRetries \in Nat
  BY BoundsAssumption DEF IInv, TypeOK
<1>2. call[t].retries + 1 \in 0..MaxRetries /\ call[t].retries \in Int
  BY <1>1 DEF Retry, Call
<1> DEFINE c == Fresh(call[t].retries + 1)
<1>3. /\ c \in Call /\ c.at = "idle" /\ c.sends = 0 /\ ~c.refreshed
      /\ c.retries > call[t].retries
  <2>1. c \in Call
    BY <1>2, FreshCall
  <2> QED
    BY <1>2, <2>1 DEF Fresh
<1>4. /\ call'[t] = c /\ call' \in [Tasks -> Call]
      /\ \A u \in Tasks : u # t => call'[u] = call[u]
  BY <1>1, <1>3 DEF Retry
<1> HIDE DEF c
<1>5. CallConsistent(t)' /\ ~Armed(t)'
  BY <1>3, <1>4 DEF CallConsistent, Unsent, Confirmed, Armed
<1> QED
  BY <1>3, <1>4, <1>5, OneCallStep DEF Retry, IInv, TypeOK

\* The request: of a call's two requests the second is only sent once the first is
\* neither on its way nor applied.
LEMMA SendIInv ==
    ASSUME IInv, NEW t \in Tasks, Send(t)
    PROVE  IInv'
<1> USE DEF At
<1>1. /\ call \in [Tasks -> Call] /\ call[t] \in Call /\ CallConsistent(t)
      /\ requests \subseteq Request /\ applied \subseteq Request
      /\ replies \subseteq [request : Request, status : {200, 401}]
      /\ NetworkConsistent
  BY DEF IInv, CallsConsistent, TypeOK
<1>2. CASE Go(t, "failed") /\ UNCHANGED requests
  <2>1. "failed" \in Places
    BY DEF Places
  <2>2. CallConsistent(t)' /\ ~Armed(t)'
    BY <1>1, <1>2, <2>1, Moved DEF Send, CallConsistent, Unsent, Confirmed, Armed
  <2> QED
    BY <1>1, <1>2, <2>1, <2>2, Moved, OneCallStep DEF Send, IInv, TypeOK
<1>3. CASE /\ call' = [call EXCEPT ![t] = [call[t] EXCEPT !.at = "waiting",
                                                          !.sends = @ + 1]]
           /\ requests' = requests \cup {[task |-> t, key |-> call[t].retries,
                                          send |-> call[t].sends + 1]}
  <2> DEFINE c == [call[t] EXCEPT !.at = "waiting", !.sends = @ + 1]
  <2>1. /\ call[t].sends \in {0, 1} /\ call[t].retries \in Nat
        /\ call[t].sends = IF call[t].refreshed THEN 1 ELSE 0
    BY <1>1 DEF Send, CallConsistent, Call
  <2>2. /\ c \in Call /\ c.at = "waiting" /\ c.confirmed = call[t].confirmed
        /\ c.sends = call[t].sends + 1 /\ c.refreshed = call[t].refreshed
        /\ c.retries = call[t].retries
    <3>1. call[t].sends + 1 \in 0..2 /\ "waiting" \in Places
      BY <2>1 DEF Places
    <3> QED
      BY <1>1, <3>1, ZenonT(60) DEF Call
  <2>3. /\ call'[t] = c /\ call' \in [Tasks -> Call]
        /\ \A u \in Tasks : u # t => call'[u] = call[u]
    BY <1>1, <1>3, <2>2
  <2>4. PICK new \in Request :
          /\ new.task = t /\ new.key = call[t].retries /\ new.send = call[t].sends + 1
          /\ requests' = requests \cup {new}
    <3>1. [task |-> t, key |-> call[t].retries, send |-> call[t].sends + 1] \in Request
      BY <1>1, <2>1 DEF Request, Call
    <3> QED
      BY <1>3, <3>1
  <2>5. UNCHANGED <<replies, applied, action>>
    BY DEF Send
  <2> HIDE DEF c
  <2>6. TypeOK'
    BY <1>1, <2>3, <2>4, <2>5 DEF Send, IInv, TypeOK
  <2>7. CallsConsistent'
    <3>1. CallConsistent(t)'
      BY <1>1, <2>1, <2>2, <2>3, <2>5 DEF Send, CallConsistent, Unsent, Confirmed
    <3> QED
      BY <2>3, <2>5, <3>1 DEF IInv, CallsConsistent, CallConsistent
  <2>8. ~Sent(new) /\ Sent(new)'
    <3>1. ~Sent(new)
      BY <2>1, <2>4 DEF Sent
    <3>2. call'[new.task] = c /\ new.key = c.retries /\ new.send = c.sends
      BY <2>2, <2>3, <2>4
    <3>3. c.sends <= c.sends
      BY <2>1, <2>2
    <3> QED
      BY <3>1, <3>2, <3>3 DEF Sent
  <2>9. \A r \in Request : Sent(r) => Sent(r)'
    <3> SUFFICES ASSUME NEW r \in Request, Sent(r) PROVE Sent(r)'
      OBVIOUS
    <3>1. r.task \in Tasks /\ r.send \in Int
      BY DEF Request
    <3>2. CASE r.task = t
      BY <2>1, <2>2, <2>3, <3>1, <3>2 DEF Sent
    <3>3. CASE r.task # t
      BY <2>3, <3>1, <3>3 DEF Sent
    <3> QED
      BY <3>2, <3>3
  <2>10. Live' = Live \cup {new} /\ Live \subseteq Request
    BY <1>1, <2>4, <2>5 DEF Live
  <2>11. \A p \in replies : p.request \in Request
    BY <1>1
  <2>12. \A q \in Live : ~(q.task = t /\ q.key = new.key)
    <3> SUFFICES ASSUME NEW q \in Live, q.task = t, q.key = new.key PROVE FALSE
      OBVIOUS
    <3>1. q \in Request /\ q.send \in {1, 2} /\ Sent(q)
      BY <1>1, <2>10 DEF NetworkConsistent, Request
    <3>2. q.send <= call[t].sends
      BY <2>1, <2>4, <3>1 DEF Sent
    <3>3. call[t].refreshed /\ q.send = 1
      BY <2>1, <3>1, <3>2
    <3>4. q = FirstRequest(t)
      BY <2>4, <3>1, <3>3 DEF FirstRequest, Request
    <3>5. Armed(t)
      BY <3>3 DEF Send, Armed
    <3> QED
      BY <1>1, <3>4, <3>5 DEF NetworkConsistent
  <2>13. NetworkConsistent'
    <3>1. \A r \in Live' : Sent(r)'
      <4>1. \A r \in Live : Sent(r)'
        BY <1>1, <2>9, <2>10 DEF NetworkConsistent
      <4> QED
        BY <2>8, <2>10, <4>1
    <3>2. \A p \in replies' : Sent(p.request)'
      BY <1>1, <2>9, <2>11, <2>5 DEF NetworkConsistent
    <3>3. new \notin Live /\ \A p \in replies : p.request # new
      BY <1>1, <2>8 DEF NetworkConsistent
    <3>4. requests' \cap applied' = {}
      BY <1>1, <2>4, <2>5, <3>3 DEF NetworkConsistent, Live
    <3>5. \A p \in replies' : p.status = 401 => p.request \notin Live'
      BY <1>1, <2>10, <2>5, <3>3 DEF NetworkConsistent
    <3>6. \A u \in Tasks : Armed(u)' => FirstRequest(u)' \notin Live'
      <4> SUFFICES ASSUME NEW u \in Tasks, Armed(u)' PROVE FirstRequest(u)' \notin Live'
        OBVIOUS
      <4>1. u # t
        BY <2>2, <2>3 DEF Armed
      <4>2. Armed(u) /\ FirstRequest(u)' = FirstRequest(u)
        BY <2>3, <4>1 DEF Armed, FirstRequest
      <4>3. FirstRequest(u) # new
        BY <2>4, <4>1 DEF FirstRequest
      <4> QED
        BY <1>1, <2>10, <4>2, <4>3 DEF NetworkConsistent
    <3>7. \A p, q \in Live' : p.task = q.task /\ p.key = q.key => p.send = q.send
      BY <1>1, <2>4, <2>10, <2>12 DEF NetworkConsistent
    <3> QED
      BY <3>1, <3>2, <3>4, <3>5, <3>6, <3>7 DEF NetworkConsistent
  <2> QED
    BY <2>6, <2>7, <2>13 DEF IInv
<1> QED
  BY <1>2, <1>3 DEF Send

\* The server: what it refuses is gone, what it applies was on the way.
LEMMA ServeIInv ==
    ASSUME IInv, Serve
    PROVE  IInv'
<1>1. PICK r \in requests, status \in {200, 401} :
        /\ requests' = requests \ {r}
        /\ replies' = replies \cup {[request |-> r, status |-> status]}
        /\ applied' = IF status = 200 THEN applied \cup {r} ELSE applied
  BY DEF Serve
<1>2. /\ UNCHANGED <<setup, action, call, count, origins, resets, resetting>>
      /\ TypeOK /\ CallsConsistent /\ NetworkConsistent
  BY DEF Serve, IInv
<1>3. r \in Request /\ r \in Live /\ Sent(r)
  BY <1>2 DEF TypeOK, Live, NetworkConsistent
<1> DEFINE reply == [request |-> r, status |-> status]
<1>4. /\ reply \in [request : Request, status : {200, 401}]
      /\ reply.request = r /\ reply.status = status /\ replies' = replies \cup {reply}
  BY <1>1, <1>3
<1> HIDE DEF reply
<1>5. TypeOK'
  BY <1>1, <1>2, <1>3, <1>4 DEF TypeOK
<1>6. CallsConsistent'
  BY <1>2 DEF CallsConsistent, CallConsistent
<1>7. Live' \subseteq Live /\ (status = 401 => r \notin Live')
  BY <1>1, <1>2 DEF Live, NetworkConsistent
<1>8. \A q : Sent(q)' <=> Sent(q)
  BY <1>2 DEF Sent
<1>9. \A t \in Tasks : (Armed(t)' <=> Armed(t)) /\ FirstRequest(t)' = FirstRequest(t)
  BY <1>2 DEF Armed, FirstRequest
<1>10. requests' \cap applied' = {}
  BY <1>1, <1>2 DEF NetworkConsistent
<1>11. NetworkConsistent'
  BY <1>2, <1>3, <1>4, <1>7, <1>8, <1>9, <1>10 DEF NetworkConsistent
<1> QED
  BY <1>5, <1>6, <1>11 DEF IInv

\* Losing a message and resetting the budget touch no call.
LEMMA OtherIInv ==
    ASSUME IInv, Lose \/ ResetCount \/ ResetOrigins \/ UNCHANGED vars
    PROVE  IInv'
<1>1. /\ UNCHANGED <<setup, action, call, applied>>
      /\ requests' \subseteq requests /\ replies' \subseteq replies
  BY DEF Lose, ResetCount, ResetOrigins, vars
<1>2. TypeOK'
  <2>1. /\ count' \in Nat /\ origins' \subseteq Origins
        /\ resets' \in 0..MaxResets /\ resetting' \in BOOLEAN
    <3>1. CASE ResetCount
      BY <3>1, BoundsAssumption DEF ResetCount, IInv, TypeOK
    <3>2. CASE ResetOrigins
      BY <3>2 DEF ResetOrigins, IInv, TypeOK
    <3>3. CASE Lose
      BY <3>3 DEF Lose, IInv, TypeOK
    <3>4. CASE UNCHANGED vars
      BY <3>4 DEF vars, IInv, TypeOK
    <3> QED
      BY <3>1, <3>2, <3>3, <3>4
  <2> QED
    BY <1>1, <2>1 DEF IInv, TypeOK
<1>3. CallsConsistent'
  BY <1>1 DEF IInv, CallsConsistent, CallConsistent
<1>4. \A r \in Request : Sent(r) => Sent(r)'
  BY <1>1 DEF Sent
<1>5. \A t \in Tasks : Armed(t)' => FirstRequest(t)' \notin Live
  BY <1>1 DEF Armed, FirstRequest, IInv, NetworkConsistent
<1>6. NetworkConsistent'
  BY <1>1, <1>4, <1>5, QuietStep DEF IInv, TypeOK
<1> QED
  BY <1>2, <1>3, <1>6 DEF IInv

\* Every step keeps the invariant.
LEMMA NextIInv == IInv /\ [Next]_vars => IInv'
<1> SUFFICES ASSUME IInv, [Next]_vars PROVE IInv'
  OBVIOUS
<1>1. CASE \E t \in Tasks : Execute(t) \/ Retry(t)
  <2>1. PICK t \in Tasks : Execute(t) \/ Retry(t)
    BY <1>1
  <2> QED
    BY <2>1, LocalIInv, SendIInv, ReceiveIInv, RefreshIInv, RetryIInv
       DEF Execute, LocalStep
<1>2. CASE ResetCount \/ ResetOrigins \/ Serve \/ Lose \/ UNCHANGED vars
  BY <1>2, ServeIInv, OtherIInv
<1> QED
  BY <1>1, <1>2 DEF Next

\* So it holds of every reachable state.
LEMMA Inductive == Spec => []IInv
BY InitIInv, NextIInv, PTL DEF Spec

\* The variables of every reachable state have their types; in particular
\* execute_http_request sends at most twice per call.
THEOREM TypeCorrect == Spec => []TypeOK
<1>1. IInv => TypeOK
  BY DEF IInv
<1> QED
  BY Inductive, <1>1, PTL

\* However requests and replies are delayed, reordered or lost, and however often
\* the caller tries again, the server applies one call of execute_action at most
\* once: its second request is only sent after a 401.
THEOREM OncePerCall == Spec => []AppliedOncePerCall
<1>1. IInv => AppliedOncePerCall
  <2> SUFFICES ASSUME IInv, NEW p \in applied, NEW q \in applied,
                      p.task = q.task, p.key = q.key
               PROVE  p = q
    BY DEF AppliedOncePerCall
  <2>1. p \in Request /\ q \in Request /\ p \in Live /\ q \in Live
    BY DEF IInv, TypeOK, Live
  <2>2. p.send = q.send
    BY <2>1 DEF IInv, NetworkConsistent
  <2> QED
    BY <2>1, <2>2 DEF Request
<1> QED
  BY Inductive, <1>1, PTL

\* No request of a confirm="true" action is sent by a call that the principal has
\* not confirmed.
THEOREM ConfirmationFirst == Spec => []ConfirmedBeforeSent
<1>1. IInv => ConfirmedBeforeSent
  BY DEF IInv, CallsConsistent, CallConsistent, ConfirmedBeforeSent
<1> QED
  BY Inductive, <1>1, PTL

-----------------------------------------------------------------------------
(* The budget.                                                              *)

\* Sets of tasks are finite, and no larger than all of them.
LEMMA CountingFinite ==
    ASSUME NEW S, S \subseteq Tasks
    PROVE  IsFiniteSet(S) /\ Cardinality(S) \in Nat /\ Cardinality(S) <= Cardinality(Tasks)
BY TasksAssumption, FS_Subset, FS_CardinalityType

\* A step that brings no call past the check and counts nothing keeps the bound.
LEMMA NoneCounted ==
    ASSUME TypeOK, OvershootBounded, Counting' \subseteq Counting,
           count' \in Nat, count' <= count
    PROVE  OvershootBounded'
<1>1. /\ Counting \subseteq Tasks /\ IsFiniteSet(Counting)
      /\ Cardinality(Counting) \in Nat /\ Cardinality(Counting') \in Nat
      /\ count \in Nat /\ MaxRequests \in Nat /\ Cardinality(Tasks) \in Nat
  BY CountingFinite, BoundsAssumption DEF Counting, TypeOK
<1>2. Cardinality(Counting') <= Cardinality(Counting)
  BY <1>1, FS_Subset
<1> QED
  BY <1>1, <1>2 DEF OvershootBounded

\* The steps of a task that bring no call past the check.
OtherStep(t) ==
    \/ Prepare(t) \/ Disclose(t) \/ Confirm(t) \/ RecordOrigin(t) \/ Send(t)
    \/ Receive(t) \/ Refresh(t) \/ Timeout(t) \/ Retry(t)

\* They do not: a call enters the places between check and increment by CheckCount only.
LEMMA NotCounting ==
    ASSUME TypeOK, NEW t \in Tasks, OtherStep(t)
    PROVE  Counting' \subseteq Counting
<1> USE DEF At, Go
<1>1. call \in [Tasks -> Call] /\ call[t] \in Call
  BY DEF TypeOK
<1>2. SUFFICES /\ \A u \in Tasks : u # t => call'[u] = call[u]
               /\ call'[t].at \in {"recording", "counting"} => call[t].at = "recording"
  BY DEF Counting
<1>3. CASE Prepare(t)
  BY <1>1, <1>3 DEF Prepare, Call
<1>4. CASE Disclose(t)
  BY <1>1, <1>4 DEF Disclose, Call
<1>5. CASE Confirm(t)
  BY <1>1, <1>5 DEF Confirm, Call
<1>6. CASE RecordOrigin(t)
  BY <1>1, <1>6 DEF RecordOrigin, Call
<1>7. CASE Send(t)
  BY <1>1, <1>7 DEF Send, Call
<1>8. CASE Receive(t)
  <2>1. PICK place \in {"refreshing", "done"} : Go(t, place)
    BY <1>8 DEF Receive
  <2> QED
    BY <1>1, <2>1 DEF Call
<1>9. CASE Refresh(t)
  BY <1>1, <1>9 DEF Refresh, Call
<1>10. CASE Timeout(t)
  BY <1>1, <1>10 DEF Timeout, Call
<1>11. CASE Retry(t)
  BY <1>1, <1>11 DEF Retry, Fresh
<1> QED
  BY <1>3, <1>4, <1>5, <1>6, <1>7, <1>8, <1>9, <1>10, <1>11 DEF OtherStep

\* The bound holds at first, with at least one task.
LEMMA OvershootInit == Init => OvershootBounded
<1> SUFFICES ASSUME Init PROVE OvershootBounded
  OBVIOUS
<1>1. Counting = {}
  BY DEF Init, Counting, Fresh
<1>2. Cardinality(Tasks) \in Nat /\ Cardinality(Tasks) # 0
  BY TasksAssumption, FS_CardinalityType, FS_EmptySet
<1> QED
  BY <1>1, <1>2, FS_EmptySet, BoundsAssumption DEF Init, OvershootBounded

\* Every step keeps the bound.
LEMMA OvershootStep == TypeOK /\ OvershootBounded /\ [Next]_vars => OvershootBounded'
<1> SUFFICES ASSUME TypeOK, OvershootBounded, [Next]_vars PROVE OvershootBounded'
  OBVIOUS
<1> USE DEF At
<1>1. call \in [Tasks -> Call] /\ count \in Nat
  BY DEF TypeOK
<1>2. ASSUME NEW t \in Tasks, CheckCount(t) PROVE OvershootBounded'
  <2>1. CASE count < MaxRequests /\ Go(t, "recording")
    <3>1. Counting' \subseteq Tasks
      BY DEF Counting
    <3>2. Cardinality(Counting') \in Nat /\ Cardinality(Counting') <= Cardinality(Tasks)
      BY <3>1, CountingFinite
    <3>3. Cardinality(Tasks) \in Nat /\ MaxRequests \in Nat /\ count' = count
      BY <1>2, TasksAssumption, FS_CardinalityType, BoundsAssumption DEF CheckCount
    <3> QED
      BY <1>1, <2>1, <3>2, <3>3 DEF OvershootBounded
  <2>2. CASE Go(t, "failed")
    <3>1. Counting' \subseteq Counting
      BY <1>1, <2>2, Moved DEF Places, Counting
    <3> QED
      BY <1>1, <1>2, <3>1, NoneCounted DEF CheckCount
  <2> QED
    BY <1>2, <2>1, <2>2 DEF CheckCount
<1>3. ASSUME NEW t \in Tasks, CountRequest(t) PROVE OvershootBounded'
  <2>1. Counting' = Counting \ {t} /\ t \in Counting
    <3>1. "credentials" \in Places
      BY DEF Places
    <3> QED
      BY <1>1, <1>3, <3>1, Moved DEF CountRequest, Counting
  <2>2. /\ IsFiniteSet(Counting) /\ Cardinality(Counting) \in Nat
        /\ MaxRequests \in Nat /\ Cardinality(Tasks) \in Nat
    BY CountingFinite, BoundsAssumption DEF Counting
  <2>3. Cardinality(Counting') = Cardinality(Counting) - 1
    BY <2>1, <2>2, FS_RemoveElement
  <2> QED
    BY <1>1, <1>3, <2>2, <2>3 DEF CountRequest, OvershootBounded
<1>4. ASSUME NEW t \in Tasks, OtherStep(t) PROVE OvershootBounded'
  <2>1. count' = count
    BY <1>4 DEF OtherStep, Prepare, Disclose, Confirm, RecordOrigin, Send, Receive,
                Refresh, Timeout, Retry
  <2> QED
    BY <1>1, <1>4, <2>1, NotCounting, NoneCounted
<1>5. CASE ResetCount \/ ResetOrigins \/ Serve \/ Lose \/ UNCHANGED vars
  <2>1. call' = call /\ (count' = count \/ count' = 0)
    BY <1>5 DEF ResetCount, ResetOrigins, Serve, Lose, vars
  <2>2. Counting' = Counting
    BY <2>1 DEF Counting
  <2> QED
    BY <1>1, <2>1, <2>2, NoneCounted
<1>6. CASE \E t \in Tasks : Execute(t) \/ Retry(t)
  BY <1>2, <1>3, <1>4, <1>6 DEF Execute, OtherStep
<1> QED
  BY <1>5, <1>6 DEF Next

\* However many tasks share a tracker, and whatever they retry, cancel or reset
\* meanwhile, the requests counted are never more than the limit and one for each
\* other task.
THEOREM RequestsBounded == Spec => []OvershootBounded
<1>1. IInv => TypeOK
  BY DEF IInv
<1> QED
  BY Inductive, <1>1, OvershootInit, OvershootStep, PTL DEF Spec

-----------------------------------------------------------------------------
(* The origins.                                                             *)

\* Calls that have recorded their origin.
Recorded ==
    {t \in Tasks : \/ call[t].at \in {"counting", "credentials", "waiting", "refreshing"}
                   \/ call[t].sends > 0}

\* The strengthening: the origin is there from the moment it is recorded.
OriginsRecorded ==
    /\ Cardinality(origins) <= MaxOrigins
    /\ resets = 0 => ~resetting /\ \A t \in Recorded : action[t].origin \in origins

\* A call counts as having recorded its origin only once it has.
LEMMA RecordedOnlyBy ==
    ASSUME TypeOK, NEW t \in Tasks, Execute(t) \/ Retry(t), ~RecordOrigin(t)
    PROVE  Recorded' \subseteq Recorded
<1> USE DEF At, Go
<1>1. call \in [Tasks -> Call] /\ call[t] \in Call
  BY DEF TypeOK
<1>2. SUFFICES /\ \A u \in Tasks : u # t => call'[u] = call[u]
               /\ t \in Recorded' => t \in Recorded
  BY DEF Recorded
<1>3. CASE Prepare(t)
  BY <1>1, <1>3 DEF Prepare, Call, Recorded
<1>4. CASE Disclose(t)
  BY <1>1, <1>4 DEF Disclose, Call, Recorded
<1>5. CASE Confirm(t)
  BY <1>1, <1>5 DEF Confirm, Call, Recorded
<1>6. CASE CheckCount(t)
  BY <1>1, <1>6 DEF CheckCount, Call, Recorded
<1>7. CASE CountRequest(t)
  BY <1>1, <1>7 DEF CountRequest, Call, Recorded
<1>8. CASE Send(t)
  BY <1>1, <1>8 DEF Send, Call, Recorded
<1>9. CASE Receive(t)
  <2>1. PICK place \in {"refreshing", "done"} : Go(t, place)
    BY <1>9 DEF Receive
  <2> QED
    BY <1>1, <1>9, <2>1 DEF Receive, Call, Recorded
<1>10. CASE Refresh(t)
  BY <1>1, <1>10 DEF Refresh, Call, Recorded
<1>11. CASE Timeout(t)
  BY <1>1, <1>11 DEF Timeout, Call, Recorded
<1>12. CASE Retry(t)
  BY <1>1, <1>12 DEF Retry, Fresh, Recorded
<1> QED
  BY <1>3, <1>4, <1>5, <1>6, <1>7, <1>8, <1>9, <1>10, <1>11, <1>12 DEF Execute

\* Every step keeps the strengthening.
LEMMA OriginsStep == TypeOK /\ OriginsRecorded /\ [Next]_vars => OriginsRecorded'
<1> SUFFICES ASSUME TypeOK, OriginsRecorded, [Next]_vars PROVE OriginsRecorded'
  OBVIOUS
<1>1. ASSUME NEW t \in Tasks, RecordOrigin(t) PROVE OriginsRecorded'
  <2>1. /\ UNCHANGED <<action, resets, resetting>> /\ origins \subseteq origins'
        /\ Recorded' \subseteq Recorded \cup {t}
        /\ t \in Recorded' => t \in Recorded \/ action[t].origin \in origins'
    BY <1>1 DEF RecordOrigin, Go, Recorded, TypeOK, Call
  <2>2. Cardinality(origins') <= MaxOrigins
    <3>1. IsFiniteSet(origins) /\ Cardinality(origins) \in Nat /\ MaxOrigins \in Nat
      BY OriginsAssumption, FS_Subset, FS_CardinalityType, BoundsAssumption DEF TypeOK
    <3>2. CASE origins' = origins
      BY <3>2 DEF OriginsRecorded
    <3>3. CASE /\ origins' = origins \cup {action[t].origin}
               /\ action[t].origin \in origins \/ Cardinality(origins) < MaxOrigins
      BY <3>1, <3>3, FS_AddElement, SMTT(60) DEF OriginsRecorded
    <3> QED
      BY <1>1, <3>2, <3>3 DEF RecordOrigin
  <2> QED
    BY <2>1, <2>2 DEF OriginsRecorded
<1>2. ASSUME NEW t \in Tasks, Execute(t) \/ Retry(t), ~RecordOrigin(t)
      PROVE  OriginsRecorded'
  <2>1. UNCHANGED <<action, origins, resets, resetting>>
    BY <1>2 DEF Execute, Prepare, Disclose, Confirm, CheckCount, CountRequest, Send,
                Receive, Refresh, Timeout, Retry
  <2> QED
    BY <1>2, <2>1, RecordedOnlyBy DEF OriginsRecorded
<1>3. CASE ResetCount
  <2>1. resets' # 0 /\ origins' = origins
    BY <1>3 DEF ResetCount, TypeOK
  <2> QED
    BY <2>1 DEF OriginsRecorded
<1>4. CASE ResetOrigins
  <2>1. resets' # 0 /\ origins' = {}
    BY <1>4 DEF ResetOrigins, OriginsRecorded
  <2> QED
    BY <2>1, FS_EmptySet, BoundsAssumption DEF OriginsRecorded
<1>5. CASE Serve \/ Lose \/ UNCHANGED vars
  <2>1. UNCHANGED <<action, call, origins, resets, resetting>>
    BY <1>5 DEF Serve, Lose, vars
  <2> QED
    BY <2>1 DEF OriginsRecorded, Recorded
<1> QED
  BY <1>1, <1>2, <1>3, <1>4, <1>5 DEF Next

\* A document's actions never reach more origins than its budget allows, and until
\* the tracker is first reset every origin a request went to is recorded.
THEOREM OriginsBounded == Spec => []OriginsWithinBudget
<1>1. Init => OriginsRecorded
  <2> SUFFICES ASSUME Init PROVE OriginsRecorded
    OBVIOUS
  <2>1. Recorded = {}
    BY DEF Init, Recorded, Fresh
  <2> QED
    BY <2>1, FS_EmptySet, BoundsAssumption DEF Init, OriginsRecorded
<1>2. OriginsRecorded => OriginsWithinBudget
  BY DEF OriginsRecorded, OriginsWithinBudget, Recorded
<1>3. IInv => TypeOK
  BY DEF IInv
<1> QED
  BY Inductive, <1>1, <1>2, <1>3, OriginsStep, PTL DEF Spec
=============================================================================
