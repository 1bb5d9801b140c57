# A formal model of the ANML client

This directory holds TLA+ specifications of the Rust client library under
`src/` (crate `anml-client`), the TLC configurations that model-check them on
small instances, and proofs of some of their properties that hold for every
value of the constants. Paths below are relative to the repository root; a
`path:line` names the code a statement is about.

## The system

An application holds an `AnmlClient`, fetches documents from services, lets a
flow navigator lead a principal through the steps a document describes,
discloses the principal's fields where the document's rules, the principal and
the trust policy allow it, and executes actions (HTTP requests) on the way.
Everything runs in the application's process, on tokio: operations are `async`
functions and concurrency comes from several tasks sharing one client.

| Component | Source | State | Operations | Talks to |
|---|---|---|---|---|
| FlowNavigator | `flow/mod.rs` | steps, current index, history, document, retry counters, creation time | `advance`, setters, `to_snapshot`, `from_snapshot` | awaits an `ActionExecutor`, calls a `ConditionEvaluator` |
| Disclosure evaluation | `disclosure/mod.rs` | none of its own | `evaluate` (seven steps), `evaluate_batch` | rule matching, rate limiter, consent store, consent handler, trust policy, tokenizer |
| Rule matching | `disclosure/matching.rs` | none | `resolve_rule`, prefix and glob matching | called by the evaluation |
| ConsentStore | `disclosure/consent.rs` | map (field, origin, scope) to grant, under a lock | `grant`, `check`, `revoke`, `clear`, export and restore | evaluation, application, `ClientState` |
| RateLimitTracker | `disclosure/rate_limit.rs` | vector of timestamps per (field, origin), under a lock | `check_and_record`, `clear` | the monotonic clock |
| Action execution | `action/mod.rs`, `action/idempotency.rs` | none of its own | `execute_action` (twelve steps) | SSRF check, disclosure, confirmation handler, budget tracker, auth provider, HTTP |
| Action requests | `action/builder.rs`, `action/params.rs`, `action/validation.rs` | the builder's parameters | setters, `execute`, collection, validation, encoding | calls `execute_action` |
| ActionBudgetTracker | `action/mod.rs` | an atomic count, a set of origins under a lock | `check_and_record`, `reset` | concurrent actions of one document |
| Fetch pipeline | `client.rs`, `retry.rs` | none of its own | `fetch_url`: breaker, retry loop, one attempt | circuit breaker, HTTP, parser |
| CircuitBreaker | `client.rs` | per origin a count and the time of the last failure, in two cells | `is_open`, `record_success`, `record_failure` | concurrent fetches |
| PageIterator | `pagination.rs` | first document, next URL | `next_page` | awaits `fetch_url` |
| DocumentCache | `cache.rs` | entries with ttl and insertion time, under a lock | `get`, `insert`, `invalidate`, `clear`, `evict_expired` | used by the application only |
| Media budget, integrity | `integrity.rs` | two atomic counters | `fetch_verified_resource`, `record_fetch`, `verify_integrity` | HTTP, concurrent fetches |
| Knowledge responses | `knowledge/response.rs` | answers and refusals gathered so far | `answer_checked`, `refuse`, `build`, batches | evaluation |
| Audit log | `audit.rs` | entries, under a lock | `record`, `entries`, `clear` | written by the application and by a restore |
| ClientState | `client.rs` | the exported grants and audit entries | `export_state`, restore at `build` | consent store, audit log |
| Service discovery | `discovery/*.rs` | none | four mechanisms tried in order | HTTP, DNS |
| Configuration | `config.rs`, `client.rs` | the builder's settings | setters, `build`, trust policies | every component |
| Others | see the last section | | | |

What is hard here is not one task's control flow but:

* locks and atomics taken one after the other, with callbacks, sleeps or
  requests between them (rate limiter, consent, action budget, breaker, media
  budget);
* `async` calls dropped at an await: every operation may stop half way;
* retries on three levels (the fetch's, the step's, the action's 401 retry),
  each with a timeout of its own, over a network that loses requests and
  answers;
* state that outlives the process (flow snapshots, exported client state) and
  state that should and does not;
* a clock read at one moment and used at another;
* sequential functions with many cases: precedence of rules, encodings, a header
  parser, address masks, the order of an attempt's checks. Each is small, and each
  has inputs nobody wrote a test for.

What makes each component correct is stated as the properties below. The list
of hazards, each at its line and with the properties that watch it, is in
`PROJECT.json`.

## Modules

Every module names in its header the code it models; `PROJECT.json` ("map") gives
the lines for every definition. A definition called `Faulty...` or `Swapped...`
is a deliberately wrong variant of the definition after it. It belongs to no
behaviour; putting it in place of the right one must break a property, which
shows that the property depends on that piece of code.

### FlowNavigator

One navigator and the task that owns it (`advance` takes `&mut self`, so one call
is in flight at most). `pc` is where that call is: not running, awaiting the
executor, in a backoff sleep; or gone, with a panic or an endless recursion.
`AdvanceTimedOut`, `AdvanceSkips`, `AdvanceWithoutAction` and `AdvanceExecutes`
are the ways through `advance` up to its first await, `ExecutorSucceeds` and the
four `Failure...` actions what follows it, `WakeUp` the end of a sleep, `Cancel` a
dropped future. `AdvanceToNextStep` makes all the skips of blocked steps in one
step of the model, as the code does between two awaits: `SkippedFrom` is the set
the recursion walks through, `ExitsFrom` where it ends, empty if it does not. A
step is its index, an attribute naming a step holds an index, none or an unknown
one; a response is the list of the steps in its flow with their statuses, in its own
order, where a step may come more than once or be none of the flow's. Entry by entry
the code's loop finds a step as the entries before have left it (`StatusBefore`), and
the first regression ends it with those taken over (`Taken`). `granted`, `calls`,
`execs`, `served` and `response` are history variables.

### RateLimit

One (field, origin) key. `Sample` is `Instant::now()` before the lock, `Accept` and
`Refuse` are `check_and_record_at` under it, so several tasks interleave between
the two and the clock ticks meanwhile. `log` keeps all disclosures recorded, the
vector is the set of its positions still retained. Instants are whole ticks,
several to the second that retry times are reported in. The platform's `Instant`
may or may not go below its epoch (`UnsignedInstants`).

### Disclosure, KnowledgeResponse

`Disclosure` has several tasks in `evaluate`, over one consent store and one rate
limiter, with the application granting, revoking and clearing meanwhile. The steps
are what the code does under one lock: `Begin` (rule and limiter), `CheckConsent`
(read lock), `AnswerYes`/`AnswerNo` (the handler, no lock held), `StoreGrant` (write
lock), `Refuse`/`Allow`. Where the code takes whichever grant the hash map yields
first, the model takes any. The limiter appears within one window, as a counter.
`unspent` is history: of each key, the yeses given less those that a revocation, a
clear or a later grant has ended.

`KnowledgeResponse` extends it with what evaluations are for. A task answers one
field after the other: `AddElement` is the tail of `answer_checked` and the loop of
`build_response`, `Element` the `<answer>` or `<refuse>` that `build_answer` makes of
a decision, `RefuseReasonToAnml` the smaller vocabulary of the wire. `Record` is the
caller's call on the audit log, which `evaluate` leaves to it. `ExportGrants` and
`ExportEntries` are the two locks of `export_state`, and `Restart` a client built with
or without the state restored. Every evaluation carries, as history, what the
principal said to it.

### Algorithms and the functions it calls

`Algorithms` is one call of one function: `call` is chosen at the start from the set
`Calls`, `result` is what it returns, and each property compares result and argument
with a declarative statement of what the function promises. What a proof must know of the
arguments is assumed by name (`RuleAssumption`, `RequestAssumption`, `MediaAssumption`,
`FetchAssumption`, `ClientAssumption`, `EndpointAssumption`, `ValueAssumption`: their
types, that texts are of the characters `Parameters` knows, that the rules of a list are
numbered in its order, that an ask has at most one type) and evaluated by TLC for the run's. The functions are in modules of their own, free of state; those with a
theorem recur by functions and folds, whose equations a proof can use:

| Module | Code | Compared with |
|---|---|---|
| `Matching` | `resolve_rule` and what it calls: the tokenizer, the backtracking glob matcher, the running best of the loops as a fold | the documented precedence as an ordering; a pattern matches if the field can be cut into segments its tokens stand for (`ResolvesByPrecedence`) |
| `ActionRequest`, `Parameters` | `ActionRequestBuilder`; `collect_params`, `validate_param`, the canonical values and the three encodings, over sequences of characters | the value each definition was last given, and what its constraints admit (`SentAsMeant`); a decoder that is no part of the code (`BodiesDecode`) |
| `Endpoint` | `resolve_endpoint`, `origin_from_url_str`, `check_ssrf`, `is_private_ip` | networks by their leading bits; the reference's own parts (`DirectedAsWritten`) |
| `FetchAttempt` | `execute_fetch` and the checks before and after it, as stages of which the first that fails decides | what must be right for a document to be trusted, layers of middleware, faults that pass (`AttemptsAreSound`) |
| `Discovery` | the four mechanisms and their order, the `Link` header parser over characters | the first offer in the RFC's order (`FindsFirstOffer`) |
| `Integrity` | `parse_integrity_attr`, `select_strongest`, `verify_integrity`, `enforce_inference_integrity` | what the tokens of the strongest algorithm say (`StrongestDecides`) |
| `Configuration` | both builders, `clamp`, the trust policies | the last call of each setter (`BuiltAsToldLast`) |
| `DisclosedValue` | `find_ask`, `validate_value` | the action parameters' validator, which checks the same types with other code (`ValidationsAgree`) |

### ActionExecution

Tasks that share one `ActionBudgetTracker` execute actions. `check_and_record` is
three steps (load the count, check and extend the origins under the lock, add to
the count), `reset` two. The HTTP exchange is `Send`, `Receive`, `Refresh` (the
single retry after a 401) and `Timeout`; the network, external, may lose a request
or a reply or deliver a request after its sender has given up, and the server
refuses or applies what arrives. `Retry` is the caller executing the action again,
which draws a new Idempotency-Key: `key` is the number of that call.

### FetchClient, Pagination, PagedFetch

`FetchClient` is `fetch_url`: per task its attempt, sleep and place, and the
breaker's two cells (count, age of the last failure) read and written apart. How
an attempt ends is a choice among a document, a retryable error and another error.
`Pagination` is the page iterator over a service whose documents link to each
other, with an abstract fetch that succeeds, fails or is dropped. `PagedFetch`
composes them: the iterator's fetch *is* one task's `fetch_url`, sharing the
breaker with others. Each of its actions conjoins an action of the iterator with the
client's, so it is a behaviour of `Pagination` by construction.

### MediaBudget, Allowance, DocumentCache

`MediaBudget` is `fetch_verified_resource` by several tasks: the download, the two
counters (each an addition followed by a comparison) and the verification.
`Allowance` is what a document's media limits promise, without counters: a resource
is granted in one step that takes its share of both limits. `ImplementsAllowance`
checks that the tracker implements it: a fetch is granted when it gets past the
second counter, `accepted` and `bytes` are what has been taken.

`DocumentCache` is the cache with callers that look up, fetch and insert, entries
ageing by ticks.

## Runs

| Run | Instance | What it shows |
|---|---|---|
| `FlowNavigator` | 2 steps; 3 flows (order, jump back, unknown id, self-reference, conditions), budget 1, fallback, snapshots; 3 history entries, 1 executing call per step, timeout 3, so that a retry runs in time and a second one does not | `BoundedExecutions`: over cancellations, re-entries and restores, a step's action runs no more often than calls plus its largest budget. `HistoryTracksCurrent`, `OkLeavesNavigable`: history, current step and statuses agree. `CompletedStepsAreLeft`: the navigator does not stay on a step whose action was done, except where a response was dropped for a regression and the other cases it names. `ReopenedOnlyThroughSkipped`: however a response lists the steps, it reopens a completed one only by way of skipped |
| `FlowNavigatorLive` | 3 steps, flows without a circle, budget 2, timeout 3, 1 call | `AdvanceReturns`; `NoLateExecution`, also after a backoff |
| `RateLimit` | 2 tasks, limits 1 and 2, window 3, 2 ticks a second, 6 ticks, 3 disclosures | `BoundAtDecision`, however long calls wait for the lock; `RetryNotTooLate` |
| `KnowledgeResponse` | 2 tasks, 1 field, 2 origins, 9 setups (rules of each requirement and scope, with and without handlers, one with an audit log), 1 element, 1 entry, 1 restart | `AnswersCiteConsent`: whatever was granted, revoked, exported and restored meanwhile, an answer and an audit entry name a consent that was given. `RefusalsAreTruthful`: the reason on the wire is what stopped the disclosure. `UnaskedRestsOnConsent`: what is disclosed unasked rests on a yes that has reached the store and that nothing has ended since; a yes that arrives after a revocation undoes it, once. `AllowsWithinQuota` |
| `Algorithms` | about a million calls: patterns up to 4 of 5 characters, lists of up to 3 of the selectors, fields up to 3 of 3 characters; requests of up to 2 setters; endpoints of every kind against bases of every kind, addresses at both edges of each network; exchanges with up to 2 things wrong; sites with any mix of offers and up to 2 links; attributes of up to 3 tokens; builders of up to 3 calls; values of each type and none | the properties in the table above |
| `ActionExecution` | 2 tasks, 2 origins, limits 1 and 1, 1 repeated call each, 1 reset | `ConfirmedBeforeSent`, `AppliedOncePerCall`, `OvershootBounded`, `OriginsWithinBudget` |
| `PagedFetch` | 3 tasks, threshold 2, cooldown 2, 1 retry, 3 URLs | `OpenBreakerHolds`, `PagesFollowLinks`, `BreakerReleases`, `FetchReturns`, `PaginationEnds` |
| `MediaBudget` | 3 tasks, sizes 1 and 3, limits 3 and 5, 6 downloads | `ImplementsAllowance` |
| `DocumentCache` | 2 callers, 3 URLs, 2 entries, ttl 0, 1, 2, 3 fetches | `WithinCapacity`, `ServedFresh`, `LiveEntriesSurvive` |
| `FlowNavigatorRestored` | as `FlowNavigator`, 3 steps | a divergence, below |
| `MatchingPrefix` | one prefix rule | a divergence, below |
| `ActionExecutionDenied` | 1 task | a divergence, below |

The bounds are chosen as the least at which every interleaving of interest occurs:
two tasks between any two accesses to a shared cell, a third where a cell must
already have been used up; a limit that is reached and one more try; a window that
passes twice; one restart; a failure, its retry, and the failure of that. In
`KnowledgeResponse` a response has one element, because a task starts the next
response with the same store, limiter and log as it would go on with; a state is
not restored twice. TLC reports every action fired. Larger values repeat these situations, and for the
properties under "Proofs" the instance does not matter at all.

In `Algorithms` every argument is made of the values its function tells apart, and
of one it does not expect. A `Link` parameter that is a lone quotation mark, on which
the parser panics, is not among the inputs.

`CHECK_DEADLOCK FALSE` stands where the system may stop: a navigator that has
panicked or used up the bounds, a tracker with nothing more to record, actions all
done, a function that has returned. Symmetry over tasks is used in runs without liveness.

### Fairness

`FlowNavigatorLive` assumes that an executor awaited resolves (the request it
makes has a timeout), that sleeps end and the clock moves; not that the
application calls anything. `PagedFetch` assumes that time passes, that tasks are
scheduled, that every attempt ends (reqwest's per-request timeout,
`src/src/client.rs`) and that the application runs the documented loop `while let
Some(page) = pages.next_page().await`; nothing is assumed of the outcome of an
attempt. All of it is weak fairness: each step, once possible, stays so.

## Where code and documents disagree

Three runs end in a counterexample on purpose.

* `FlowNavigatorRestored`: a restored navigator panics on the first failing step.
  `from_snapshot` leaves `retry_states` with length zero
  (`src/src/flow/mod.rs:712`, "will be resized below", which nothing does) and
  `handle_step_error` indexes it.
* `MatchingPrefix`: `matches_prefix` (`src/src/disclosure/matching.rs:207`) never
  compares the prefix, so the rule for `a` governs `b.x`; the comment at 198-199
  says "exactly `S` or start with `S` followed by `.`".
* `ActionExecutionDenied`: `execute_action` logs a denied disclosure
  (`src/src/action/mod.rs:325`) and sends the value; `requirements.md:21` (under
  `src/.kiro/specs/anml-client/`) says "There is no code path that bypasses
  disclosure evaluation".

The models have the following behaviours too; no run is spent on them.

* A response that regresses a step is discarded although its action was executed, with
  the statuses before the regression taken over; the step is completed and current, and
  the next `advance` executes it again (the case `document # served` of
  `CompletedStepsAreLeft`). `src/src/flow/mod.rs:589` says "Surface as a warning but
  don't block".
* A completed step is reopened without an error by way of skipped: by one response that
  lists it as skipped and then as current, or by two. `detect_regression` calls skipped
  "a terminal state" (`src/src/flow/mod.rs:330`), and lets it be left.
* A step that ends after the flow's timeout is accepted, since `advance` looks at
  the timeout before it awaits and not after; `design.md:345` says a `FlowAborted`
  error is returned "regardless of individual step success".
* Once the timeout has passed `remaining_ttl` is `None`, and a backoff begun then
  is capped by 60 s alone; `src/src/flow/mod.rs:113` says "whichever is smaller".
* The next-on-error step is entered without asking the condition evaluator
  (`src/src/flow/mod.rs:508`); `requirements.md:135` says the navigator "MUST call
  the evaluator before transitioning to a step with a condition".
* Where `Instant` cannot precede boot, the limiter's cutoff is `now` for the first
  24 hours of uptime (`src/src/disclosure/rate_limit.rs:71`), so no earlier
  disclosure counts. A call overtaken between its clock reading and the lock, or a
  longer reading that prunes, lets the window that ends at a recorded timestamp
  exceed the limit; the window that ends at the decision does not
  (`BoundAtDecision`). And `retry_after`, truncated to seconds, can be too short by
  a fraction (`src/src/disclosure/mod.rs:74`: "Seconds until retry is allowed").
* Session grants are exported and restored with the others, against
  `design.md:230`; a rule with `tokenize` discloses the plaintext if no tokenizer is
  set (`src/src/disclosure/mod.rs:257`, `requirements.md:69`); the limiter counts
  evaluations that are refused later, and a restart within the window forgets it.
* A yes that the principal gives while the application revokes or clears is stored
  afterwards and undoes it; a snapshot exported before a revocation brings the grant
  back; and the revocation of one origin's grant leaves a global one in force.
* The check of a disclosed date cuts the text at bytes: a date-typed value of ten bytes
  whose characters are wider than one panics where a cut falls inside one
  (`src/src/disclosure/mod.rs:473`); the action parameters' check refuses it
  (`ValidationsAgree` allows the panic and nothing else).
* Two calls can pass the action budget's last place together, and the request
  after a 401 is not counted (`src/src/action/mod.rs:70` and `:557`, against
  `src/src/config.rs:183`). A repeated call draws a new Idempotency-Key, so the
  server may apply the action twice, though
  `src/src/action/idempotency.rs:4` says "the same key is reused".
* After a cooldown the breaker lets all callers through, not "a probe request"
  (`src/src/client.rs:165`), and retries of earlier fetches go out while it is open.
* Media are downloaded before the budget is asked (`src/src/integrity.rs:255`), and a
  refused resource stays on the count.
* `find_nav` ignores `data_id` (`src/src/pagination.rs:48`); a `next_page` call that is
  dropped loses its page and the next call returns `None`.
* The parse timeout wraps a synchronous closure (`src/src/client.rs:572`) and cannot
  fire. The cache is not used by `AnmlClient`, against its own comment
  (`src/src/cache.rs:14`).
* Action requests: `execute` never uses the consent basis, against
  `src/src/action/builder.rs:172`; undeclared parameters are dropped without a word
  and of a repeated one the last counts; of several definitions with one name each is
  validated with the first's value; `NaN` passes `min` and `max`; a pattern with any
  metacharacter is refused by every value; 31 February is a date, and for a disclosed
  value, which other code validates, so is month 99 (`src/src/disclosure/mod.rs:467`).
* Bodies: a multipart part's name is written unescaped (`src/src/action/params.rs:144`),
  so that one with a quote or a line end ends its own header. The JSON encoder emits a
  boolean's text bare whatever it is (`src/src/action/params.rs:274`): of two
  definitions of one name, the second a boolean, the second's value is validated as the
  first's, and a body with the token `a` is no JSON. `BodiesDecode` leaves out these two
  cases and no other.
* Endpoints: where `xml:base` is set but relative or bad, a relative endpoint is an
  error although the document's origin would do; a host whose lookup fails passes the
  address check; unspecified addresses are rejected too, though the list at
  `src/src/action/mod.rs:110` does not have them.
* Fetching: `on_response` runs, last interceptor first, before the body is read;
  `check_http_restrictions` does not look at asks; redirects are not looked at again;
  a timeout set before `timeouts` is lost.
* Discovery: a `Link` header counts whatever the status; a comma in a quoted
  parameter cuts a link in two, and an entry without `<` ends the header; a relative
  `href` is appended to the origin as text.
* Knowledge: on the wire a full rate limit is a `policy-violation`
  (`src/src/knowledge/response.rs:34`); rules extracted from a document have session
  scope, no limit and no tokenization; top-level asks do not count if the document has
  a `<knowledge>` with asks.
* The audit log: nothing in the crate records a disclosure; an export reads grants and
  entries under two locks, so an entry may cite a grant that the exported grants do
  not hold; without a log in memory restored entries are dropped.
* Integrity: of equally strong tokens one alone decides; the HTTP status of a media
  download is not looked at; `enforce_inference_integrity` is called by nothing.
* Trusting a URL with its scheme's standard port trusts every port of the host
  (`src/src/config.rs:289`).

## Proofs

`tlapm <module>` checks them all; nothing is assumed but the named ASSUMEs on the
constants.

* **FlowNavigator** (`FlowNavigatorProofs`). `TypeCorrect`: the navigator is well
  formed, in particular `current_index` always names a step, so the indexing
  `self.steps[self.current_index]` never panics, whatever ids `next` and
  `next_on_error` hold. `ExecutionsBounded` states `BoundedExecutions`, which is not
  inductive: it says nothing of the retry counters. The invariant `Accounting` adds
  that every execution is paid for by a call or by an attempt on the step's retry
  counter, that no counter exceeds the largest budget the step has had, and what a
  restore (which drops the counters) leaves of this. The other properties of the
  two runs rest on one lemma, `StepEffect`: every step but a restore keeps the steps'
  links, puts a move at the end of the history whenever the current step changes,
  answers Ok only from a step marked current or at the flow's end, and reopens a
  completed step only by a move to it or after the response has listed it as skipped
  (`UpdateEffect`: the loop's entries for a step, followed from the last back to the one
  that took it out of completed). `HistoryTracked` needs in addition that what
  a restore brings back was in order when the snapshot was taken (`SnapshotTracks`, which
  TLC has checked too, makes `HistoryTracksCurrent` inductive). `CompletedLeft`
  needs that the document is the last one served or an older one (`DocumentServed`).
  `OkNavigable`,
  `ReopeningThroughSkipped` and `ExecutionsInTime` follow from the steps, the last from the two
  guards that look at the time before the executor is called, in `advance` and after
  a backoff.
* **RateLimit** (`RateLimitProofs`). `DecisionsBounded` states `BoundAtDecision` for
  any number of tasks, under the named hypothesis `PastReachable`, that the window
  never reaches back before the earliest `Instant`; without it the property is
  false (see above). The invariant says that the vector still holds every
  disclosure of the last window, whichever call, with whatever older reading of the
  clock, pruned it last; so what the tracker counts includes them all. `TypeCorrect`
  and `RetryInTime`, which states `RetryNotTooLate`, need no such hypothesis: while the
  calls took the lock in the order of their readings, the entries that a refusal
  counted stay in the vector, and in the window, until the time it reported.
* **ActionExecution** (`ActionExecutionProofs`). `TypeCorrect`: a call sends at most
  two requests. `OncePerCall` and `ConfirmationFirst` state `AppliedOncePerCall` and
  `ConfirmedBeforeSent` for any number of tasks and repeated calls. What the server
  has applied depends on what is still on its way, so the invariant speaks of
  *live* requests, on their way or applied: none is live that was not sent; a
  request whose reply is a 401 is not live; a call that is about to send again has
  no live first request; so of one call at most one is ever live.
  `RequestsBounded` states `OvershootBounded`: a call between the count's check and
  its increment found the count below the limit. `OriginsBounded` states
  `OriginsWithinBudget`, from where in the pipeline an origin is recorded.
* **Pagination, FetchClient, PagedFetch** (`PagedFetchProofs`). `PagesInOrder` states
  `PagesFollowLinks` for any service, one whose links run in a circle included. The
  pages alone do not determine the next one: the invariant ties the iterator's URL, and
  the one being fetched, to the link of the last page. `FetchedPagesInOrder` states it
  of the iterator on top of the client's fetch, each step of which is one of the
  iterator or leaves its variables alone. `PagedTypes`, with `IteratorOK` (the iterator
  waits exactly while its task's fetch is under way), bounds attempts and
  delays. `BreakerHolds` states `OpenBreakerHolds`, which is not inductive: a failure
  recorded between the two looks of `is_open` moves the end of the cooldown. The
  invariant `BreakerRespected` says that a fetch between the looks is barred for no
  longer than the breaker still holds (`Remaining`).
* **MediaBudget** (`MediaBudgetProofs`). `TrackerIsAllowance` states
  `ImplementsAllowance` for any number of tasks and any sizes: the tracker's initial
  states are the allowance's, and each of its steps is one of the allowance or leaves
  it alone. The invariant says that the counters are never behind what has been
  accepted and what is between the two counters, so what passes them is within the
  allowance. `MediaWithinBudget` says so of the totals directly.
* **KnowledgeResponse** (`KnowledgeResponseProofs`). The five invariants of the run,
  for any tasks, fields, origins, rules, handlers, grants and bounds. `TypesHold`
  and its invariant `WellFormed` come first; the others rest on it.
  `WithinQuota`: every evaluation that passed the limiter *holds* a place until it
  allows or is refused, and the places held and the fields allowed together stay
  within the limiter's count (`PlacesTaken`). `UnaskedOnConsent` states
  `UnaskedRestsOnConsent` by accounting (`YesesAccounted`): of each key, the unspent
  yeses are those on their way from the handler to the store, and one more for a grant
  in force; so what `check` finds is always a yes that nothing has ended.
  `AnswersConsented`: every grant in the store, in an export under way and in an
  exported state was given, every evaluation past `check_consent` goes on with a
  consent, and every exported entry cites one (`ConsentsGiven`); since what was
  given stays given, no revocation, restart or restore undoes it.
  `RefusalsHold`: an evaluation's reason agrees with the principal's answer
  (`ReasonsHold`), and a limit that is full stays so while the client lives. An
  assumption of its own: `Absent` is none of the values it stands beside.
* **DocumentCache** (`DocumentCacheProofs`). `CapacityHolds`, `FreshlyServed` and
  `LiveEntriesStay` state the run's three properties for any callers, URLs,
  lifetimes and capacity. What a caller carries from its fetch to the insertion is
  typed; the first follows from what `Insert` evicts, the last from the step alone.

* **The functions of Algorithms** (`AlgorithmsProofs`, the invariants and relations it
  speaks of in `AlgorithmsInvariants`), for every input of the types that
  the named assumptions of `Algorithms` give. Each theorem rests on `AnsweredAlways`
  (what was returned is what the call's own function computes) and on lemmas about the
  function, free of state. `StrongestTokenDecides` states `StrongestDecides` for attributes
  of any length: `max_by_key` takes one of the strongest. `PrivateIsReserved`: for each of
  the 2^32 IPv4 and 2^128 IPv6 addresses, the masks and comparisons of `is_private_ip`
  select what the documented prefixes select, bit by bit. `RequestsDirected` states
  `DirectedAsWritten` with it. `AttemptsSound` states `AttemptsAreSound` for any number of
  layers of middleware: `StagesAt` says at which place each stage of an attempt stands,
  `CheckResults` and `HookResults` what each comes to, `AttemptEnds` that the first
  that fails decides, and `CallsMade` that the calls made by then are the first layers
  of the onion.
  `ClientAsTold` states `BuiltAsToldLast` for any number of setters in any order. The fold
  over the calls is a `CHOOSE`, of which nothing is known until a function that satisfies
  its equations is shown to exist (`FoldExists`); then it is the last of the builders the
  calls make one after the other (`FoldEffect`), and what a builder holds after k calls is
  an invariant of k (`AsTold`): of each setter what the latest call said, of the request
  timeout the latest of two setters, of the lists an increasing enumeration of the calls
  that added to them. `TrustIsListed` says which origins the policy trusts; it speaks of
  URLs with http or https, whose standard port the model knows.
  `RuleByPrecedence` states `ResolvesByPrecedence` for any rules and field. The matcher's
  equations determine a function, shown to exist from the last token backwards; that it
  finds a match exactly if the field can be cut into segments the tokens stand for goes
  by the same induction, and that the tokenizer's scan ends and yields the tokens the
  pattern spells by one over its positions. Each of the three loops keeps, after k rules,
  the foremost of those among the first k that apply (an invariant of the fold), and the
  precedence is a transitive and total order on the rules of a list, so that the foremost
  of the kinds is the foremost of all.
  `ValidatedAlike` states `ValidationsAgree` for any document, field and text: a text of
  ten bytes and three parts of four, two and two characters has one byte for each
  character, so that cutting it at bytes, as one validator does, and at its dashes, as the
  other does, gives the same parts; only a wider character makes the first panic.
  `RequestsAsMeant` states `SentAsMeant` for any document's actions and any calls of the
  builder. What a builder holds after k calls is an invariant of k (`Carries`): its last
  entry of a name is what the latest call for that name said, and a name without an entry
  had no call. The loop of `collect_params` puts each value at the place counted by the
  definitions before it that have one (`Valued`, `CollectedBy`); the two loops of the
  validation keep the first check that failed. `Acceptable`, which the values are
  compared with, is stated without the code's parsing: a pattern stands for what is
  between its anchors (`LiteralIs`), a bound for the number it spells (`SpelledIs`), and
  it holds for every pattern and bound a document can declare, those the code ignores
  because they do not parse included.
  `BodiesReadBack` states `BodiesDecode` for the same requests, of texts over the
  characters of `Parameters` (unreserved ones, each separator and the escape sign, the
  blank, the quote, the backslash, the line end, and one character of two bytes). Of an urlencoded body: each byte is read back
  from what it is written as, and none is written as a separator (`EncodedIs`), so that a
  pair is cut at its only sign of equality (`PairIs`) and `Split` of a body with one more
  pair joined is what it was before and that pair (`SplitAppended`, by induction from the
  last position backwards); hence the pairs of the body are those of the values
  (`Carried`). Of a multipart body: a delimiter is in no part, so
  `Split` cuts the body into its parts (`PartedBy`), and within a part the first quote
  after the name and the line ends after it are where the encoder put them (`PartIs`).
  Of a JSON body: a string is read back as what was escaped and a number as a number;
  after k values each member has the values of its name among
  them, each at the place its number among those of the name gives (`ValuesBy`), and the
  members stand in the order of the first of their names (`MembersBy`). Numerals recur on
  the quotient by ten; that such a function exists is shown on the initial parts of the
  naturals (`DecimalOnParts`).

Induction over sets of naturals is derived from their well-ordering where it is needed,
because the provers installed cannot instantiate the library's schema. Each
invariant is proved in three parts: it holds initially, every action keeps it,
and it implies the property.

Every invariant and action property of the passing runs is proved, except the
following, which are only model-checked:

* liveness (`AdvanceReturns`, `BreakerReleases`, `FetchReturns`, `PaginationEnds`): the
  provers do not reason about `ENABLED`;
* `FindsFirstOffer`: it prints a site's Link header and a parser reads it back, an
  induction over the symbols in both directions, of texts computed by `SelectSeq` and
  `SetToSortSeq`, which tlapm does not expand.

The types of `FetchAttempt`'s exchanges are the ones the code tells apart: of the
statuses those it treats alike are represented by one or two.

## Plan

The order was: the flow navigator, the disclosure path (limiter, consent, matching),
action execution with its budget, the fetch client with its iterator, the smaller
trackers; then the functions of `Algorithms`, the knowledge response with the audit
log and the client's state, the allowance, and the proofs: the disclosure path and the
cache, then the navigator's history, the fetches and the iterator over them, and
those of the functions. Next, in this order:

1. A proof of the function that is only model-checked: the mechanisms in `Discovery`,
   whose order decides, with the parser of Link headers.
2. `FlowNavigator` composed with `ActionExecution`: the executor it awaits is a
   task of the other, so that a step's retries and an action's requests add up.
3. `Disclosure` over the sliding window of `RateLimit`: an abstract quota that both
   implement.

## Not modelled

Authentication providers (constant headers; their part in the 401 retry is in
`ActionExecution`), usage rights (accessors and one comparison), errors, re-exports
and test support keep no state. The tokenizer and the digests are cryptography; only
whether they are applied or agree matters to the models. Of the knowledge response,
elements that are added without an evaluation are left out; of configuration and
middleware, the traits themselves, whose answers are choices. HTML and ANML parsing
appear as their result. The widths of the counters (`u32`, `u64`) are not modelled:
they are out of reach of any execution in practice.

Five hazards have no property, because neither code nor documents say what should
happen: a fallback step whose condition is not asked, `advance` after the end of a
flow, the limiter on a machine that has just started, retries while the breaker is
open, and an older document that replaces a newer one in the cache. The models have
all five behaviours. `PROJECT.json` lists every component and every hazard.

Two things of the environment are assumed. HTTP redirects, which `reqwest` follows by
default, are not modelled: the origin that a redirect of an action's request leads to is
neither counted against the origin budget nor checked for a reserved address
(`src/src/action/mod.rs` looks at the endpoint only), so `OriginsWithinBudget` and
`DirectedAsWritten` speak of the addressed origin. And a multipart boundary, with its 96
random bits, is assumed not to occur in a value.
