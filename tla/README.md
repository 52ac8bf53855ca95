# Formal models of the linkerd2-proxy retry path, route selection and authority override

This directory holds TLA+ models of parts of linkerd2-proxy, TLC configurations that
model-check them on small instances, and TLAPS proofs for the trailer-peek body
adapter and the retry budget. `PROJECT.json` lists the components, the runs, the mutants that show each
property can fail, the source lines each definition models, the findings and the
hazards.

## The system

The sources in `src/` form three interacting pieces and a few leaf utilities:

| Part | Source | What it does |
|---|---|---|
| Trailer-peek adapter | `linkerd/http/retry/src/peek_trailers.rs` | `PeekTrailersBody<B>` wraps a response body. `map_response` reads the first frame and, without waiting, a second one if it is ready, so that the trailers of a short body can be seen before the response is passed on. It then yields the frames it holds, followed by the rest of the inner body. |
| Retry policy | `linkerd/app/outbound/src/http/retry.rs` | `RetryPolicy` wraps request bodies in a bounded `ReplayBody` (`prepare_request`) and wraps responses in `PeekTrailersBody` (`prepare_response`). `retry` decides from the classified result, the body's capped status and the route's shared budget whether to clone the request and try again. |
| Route selection | `linkerd/http-routes/src/{lib.rs,match.rs,match/path.rs,filter.rs}` | `find_route` picks the route and rule for a request: the most specific `RouteMatch`, with the first among equals winning. It is built from `MatchPath::match_length`, `MatchRequest::summarize_match` and the `Ord` of `RequestMatch` and `RouteMatch`. |
| Authority override | `linkerd/http/override-authority/src/lib.rs` | A layer built with a list of headers to strip. `new_service` gives each target's service the target's `AuthorityOverride`, if it has one. `call` then strips those headers, sets the URI's authority through `set_authority` and forwards the request. |
| Profile client | `linkerd/service-profiles/src/client.rs` | A wrapper around a gRPC `GetProfile` watch. |
| Transport | `linkerd/proxy/transport/src/lib.rs` | Socket option setters. |

The retry policy is the only consumer of the adapter: the decision in `retry` reads
`peek_trailers()` on the response that `prepare_response` wrapped. Route selection
decides which route's policy and budget apply. The retry driver, `ReplayBody`, the
budget (`TpsBudget`) and the response classifier are not in this repository. They are
modelled from `spec.md` and marked `spec_modelled` in the map.

## Modules

- **`PeekTrailers`**: the data and pure operators of `peek_trailers.rs`.
  - A frame is a record `[kind, val]`: DATA carries its length, TRAILERS a grpc-status
    code standing for its header map, and errors and unknown frames carry 0.
  - An inner body is a *script*, the sequence of frames it will yield, in which nothing
    follows a TRAILERS frame or an error.
  - `enum Inner` is the set `BodyState`.
  - `MapResponseResult` is `map_response`'s early returns (trailerless version, body
    already at end of stream).
  - `ReadBodyResult` is the whole of `read_body`, one branch per arm of its two
    `match`es. Its `ready` argument is the outcome of `now_or_never`.
  - `PeekTrailers`, `IsEndStream` and `SizeHint` are the three accessors. `SizeHint`
    includes `add_to_hint`.
- **`FrameStream`**: the abstract contract of a body, from spec section 5. The
  variables are the source's frames, what the consumer received, and whether it
  stopped. `Deliver` hands over the next frame, and an error frame ends the stream.
  `Finish` ends the stream once every frame is out.
- **`PeekTrailersBody`**: one response through the adapter.
  - Variables: the HTTP version, the script, what the inner body has left, the
    adapter's state, what the consumer received, and whether it stopped.
  - Actions: `MapResponse`; `ReadBody(ready)`, the future resolving; `PollFrame`, one
    `poll_frame` returning `Ready`. An inner `Pending` changes nothing and is a
    stutter.
  - `FS == INSTANCE FrameStream` maps the contract's variables to the same-named
    variables. The adapter's state is hidden.
  - `FairSpec` adds weak fairness of the three actions.
- **`RetryExchange`**: several requests on one route, sharing one budget.
  - Per request the phases are `new`, then `bypass` or `sending`, then `reading`,
    `responded` and `done`.
  - `PrepareRequest` wraps the body, or bypasses the request when `try_new` fails.
  - `StreamBody` moves bytes into the replay buffer.
  - `Respond` is a result arriving, possibly before the body has finished streaming.
  - `ReadFirstFrame` is the adapter's `read_body`, through `INSTANCE PeekTrailers`.
  - `Decide` is `retry` together with `clone_request`: classify, then the capped check,
    withdraw or deposit, and then either end the request or dispatch the next attempt.
  - `Cancel` is the caller dropping the exchange.
  - `Contract == INSTANCE RetryContract` maps the contract's stage through `StageOf`:
    `new` becomes idle, `sending` in flight, and `reading` and `responded` answered.
    `attempts` maps to the tries and `result` to the outcome, and `ActualFailure` is
    the classifier. The body's streaming state, the peeked trailers and the
    withdrawal counts are hidden.
- **`RetryContract`**: the abstract retry contract, from spec sections 4.2, 5 and 7.
  - Per request: `Dispatch` (wrapped, or passed through when the body is known to
    exceed the ceiling), `Answer`, and `Abandon` before the decision.
  - The decision is one of three: `Retry` (a classified failure, a body within the
    ceiling, a token withdrawn), `Settle` (one deposit), or `Exhausted` (a failure
    that finds the budget short, with no deposit).
  - The classifier is the operator parameter `Failure(_)`, as spec section 9 asks.
- **`RouteMatching`**: route selection as pure operators, plus a `Route(req)` action
  that looks up a fixed table for one request after another.
  - Paths are sequences of characters, so the prefix and segment-boundary tests compute
    what the code does.
  - A regex is an alternation of literals searched leftmost-first, as the regex crate's
    `find` does.
  - Header, query and host matchers are in files not in this repository, so they are
    opaque. A request satisfies a header or query matcher or it does not, and each
    host's `summarize_match` outcome is part of the route: 0 for no match, or a level.
  - Inbound and outbound `find_route`/`find_rule` are the same code and are modelled
    once.
- **`OverrideAuthority`**: the layer and its services.
  - A URI is its `http::uri::Parts`: a scheme, an authority, and whether it has a
    path-and-query. `Uris` holds the request targets the http crate parses:
    origin-form (and `*`), absolute-form, and authority-form (CONNECT).
  - A header map counts the values of each header name.
  - `Init` is `layer`, with any set of headers to strip.
  - `NewService(t)` records the target's override.
  - `Call(t, req)` is the whole of `call`: `StripHeaders`, then `SetAuthority`,
    including `Uri::from_parts` and its `expect`, then the forward.
  - `FromPartsOk` is what `from_parts` checks: a scheme needs an authority and a
    path, and an authority with a path needs a scheme.
- **`PeekTrailersLemmas`**, **`PeekTrailersBodyProofs`**, **`RetryExchangeProofs`**
  and **`OverrideAuthorityProofs`**: the TLAPS lemmas and proofs, described below.
- **`MC_*`**: the TLC instances.

## Runs

| Run | Checks | Result |
|---|---|---|
| `peek_adapter` (`PeekTrailersBody.cfg`, 2440 states) | `TypeOK`, `PeekExact`, `IsEndStreamSound`, `SizeHintSound`, `SizeHintNoPanic` | pass |
| `peek_frames` (`PeekFramesPreserved.cfg`, 1116 states) | `FramesPreserved` | pass |
| `peek_unknown_frame` (`PeekUnknownFrameDropped.cfg`) | `FramesPreserved` | violated (a finding) |
| `retry_exchange` (`RetryExchange.cfg`, 887781 states, symmetry over the two requests) | `TypeOK`, `RetriedOnlyReplayable`, `RetryAmplificationBounded`, `BudgetLedger`, `RetryOnlyAfterFailure` | pass |
| `peek_refinement` (`PeekRefinement.cfg`, 1116 states, `FairSpec`) | `FrameStreamFairSpec` | pass |
| `retry_contract` (`RetryContract.cfg`, 439698 states, HTTP/2 only, symmetry) | `RetryContractSpec` | pass |
| `route_selection` (`RouteMatching.cfg`, 13328 states) | `TypeOK`, `FirstBestWins` | pass |
| `override_authority` (`OverrideAuthority.cfg`, 1024 states) | `NeverPanics`, `ForwardedAsConfigured` | pass |
| `override_scheme_kept` (`OverrideSchemeKept.cfg`) | `SchemeKept` | violated (a finding) |
| `route_root_prefix` (`RouteRootPrefixIsDefault.cfg`) | `RootPrefixIsDefault` | violated (a finding) |
| `route_regex_anchor` (`RouteRegexMatchesWholePath.cfg`) | `RegexMatchesWholePath` | violated (a finding) |

What the properties say:

- **`PeekExact`**: `peek_trailers()` returns trailers exactly when they are the first
  frame, or when they follow one DATA frame that was already ready. It never returns
  trailers the body lacks, and it never misses this fast path.
- **`FramesPreserved`**: the consumer of the wrapped body receives the inner body's
  frames in order, with none lost, duplicated or invented, and all of them by the time
  it stops.
- **`IsEndStreamSound`** and **`SizeHintSound`**: `is_end_stream()` never says *done*
  while held frames remain. `size_hint()` bounds the bytes still to come, held frames
  included.
- **`SizeHintNoPanic`**: `add_to_hint` raises the upper bound before the lower one,
  so neither of http_body's setter assertions (`set_upper`: value >= lower;
  `set_lower`: value <= upper) fires, even on an exact inner hint.
- **`FrameStreamFairSpec`**: the adapter implements the contract with its
  fairness. Under the polling the code relies on, the consumer gets every frame and
  then the end. Its safety half (`FrameStreamSpec`: every step is a stutter or
  delivers the next frame or ends the stream) says the same as `FramesPreserved`,
  so no run checks it on its own; it is proved as `Refinement` below. In
  particular, `Buffered` goes back to the inner body once its held frames are out.
- **`RetriedOnlyReplayable`**: no request whose body exceeded the replay ceiling is
  retried, even when the response arrived while the body was still streaming and
  `is_capped()` was still unknown.
- **`RetryOnlyAfterFailure`**: a new attempt follows only a real failure. Transport
  errors are never retried.
- **`BudgetLedger`**: each request withdraws exactly one token per retry, and deposits
  at most once, after its final decision. A cancelled or bypassed request leaves the
  budget alone.
- **`RetryAmplificationBounded`**: retries across all requests never exceed what the
  initial tokens and the deposits paid for.
- **`RetryContractSpec`**: the retry layer implements the retry contract. Every
  step is a step of `RetryContract` or leaves its view unchanged, so all of the
  following hold together:
  - a retry follows a real failure of a replayable body and is paid for;
  - there is one deposit when the request is not retried, and none when the budget
    refuses;
  - nothing touches the budget before the decision.
- **`NeverPanics`**: `set_authority`'s `expect("absolute uri")` never fires on a
  target the http crate parses.
- **`ForwardedAsConfigured`**: without an override, a request is forwarded
  untouched. With one, it carries the override authority and no value of a stripped
  header, its other headers are untouched, and its form is kept: authority-form
  stays authority-form, and the rest become absolute-form.
- **`FirstBestWins`**: `find_route` equals a declarative reference, the greatest
  applicable (route, rule) pair with the earliest among equals. A route whose hosts all
  fail to match is never chosen.

Every property of a passing run has a mutant in `PROJECT.json`: an operator defined
just before the one it replaces, with a plausible bug. TLC finds each mutant violating
its property. Examples:

- the fast path of `read_body` dropped;
- held frames yielded second-first;
- `<=` instead of `<` in the `reduce`;
- a deposit on the retry path;
- a 1-based `enumerate` index;
- the lower bound raised first in `add_to_hint`;
- `Buffered` returning `Pending` after its held frames;
- a refused withdraw waiting for tokens;
- the scheme set for every target;
- only the first value of a stripped header removed.

### Findings

1. **An unknown frame is dropped** (`peek_trailers.rs:147`, `:184`). `read_body`
   discards a frame that `split_frame` does not recognise. This contradicts the warning
   at `:228` ("has been buffered") and spec section 8, which says collecting yields the
   same as the unwrapped body. `http_body` 1.x has no other frame kind, so this cannot
   happen today.
2. **`Prefix("/")` is not the default match** (`match/path.rs:38`). A prefix that ends
   in `/` matches only the identical path. `Prefix("/")` on `/a` gives `None`, although
   `RequestMatch::default` says it is equivalent to a prefix match on `/` that matches
   every request.
3. **A regex does not match its whole path** (`match/path.rs:23`). `re.find` is
   leftmost-first, so `/a|/a/b` on `/a/b` finds `/a` and the matcher reports no match.
4. **An https target is downgraded to http** (`override-authority/src/lib.rs:41`).
   `set_authority` sets the `http` scheme whenever the target has a path, so
   `https://a1/x` is forwarded as `http://a1/x`. The comment at `:35`-`:40` gives
   origin-form as the reason for setting a scheme, and warns that setting a scheme
   changes a target's meaning.

### Bounds

- **`PeekTrailersBody`**: bodies of up to 3 frames, one more than `read_body` ever
  inspects, so the `Buffered` state with an inner remainder is reached. The two DATA
  lengths make a reordering or a lost byte visible. The two trailer codes make wrong
  trailers visible.
- **`RetryExchange`**: two requests, so that the budget is contended.
  - The ceiling is 2 with bodies of 1 and 3 bytes, so one fits and one is capped.
  - An unknown size hint lets the capped body still be wrapped.
  - The budget starts at one retry, and a deposit pays for half of one, so exhaustion
    and refill both happen.
  - `MaxFrames = 2` covers trailers in both peekable positions.
- **`RetryContract.cfg`**: the `retry_exchange` instance with HTTP/2 responses only.
  Refinement checking evaluates the contract's next-state relation on every step.
  With HTTP/1.1 as well, the run takes over five minutes. HTTP/1.1 only changes what
  the peek sees: it never sees trailers. 5xx statuses and HTTP/2 trailers still
  reach every branch of the decision.
- **`OverrideAuthority`**: two authorities, so an override differs from the
  target's own. `http` and `https` absolute-form targets. Two header names, any of
  which may be stripped, with up to two values each, because `remove` must drop
  them all. One target with an override and one without.
- **`RouteMatching`**: 784 tables of two routes.
  - Each route has one or two rules, built from a prefix matcher, a method+header
    matcher, an exact+query matcher and a regex matcher, or from no matcher (the
    default).
  - Host lists give no hosts, a non-matching host, and two different host levels.
  - Requests vary over two methods, two paths (`/a`, `/a/b`), a header and a query
    parameter.
  - Between them these produce ties within a route and between routes, host precedence
    overriding request specificity, and every `match_length` branch.

### Fairness and deadlock

One specification adds weak fairness, and only the `peek_refinement` run uses it:

- **`PeekTrailersBody!FairSpec`**: weak fairness of `MapResponse`, `ReadBody` and
  `PollFrame`. The retry layer polls the future of `map_response` until it
  resolves, and hyper or `collect()` polls the body until end of stream. An inner
  body that is `Pending` is taken to be woken when its next frame arrives.

No liveness is claimed of the retry layer. retry.rs caps no attempts, and the
real `TpsBudget` (retry.rs:36; a token bucket with a replenishment rate, spec
section 9) refills over time. So an always-failing request is limited in rate,
not made to end. The model's budget refills only through deposits. That is enough
for the safety properties, whose withdrawals it counts, but it would make
termination hold for the wrong reason.

`CHECK_DEADLOCK FALSE` is set only where the system really stops:

- a consumed body after end of stream or an error;
- every request done, bypassed or cancelled.

`RouteMatching` and `OverrideAuthority` never stop.

## Proofs

`PeekTrailersBodyProofs` proves the following for every value of the constants
(under `ConstantsAssumption`):

- **`TypeCorrect`**: `Spec => []TypeOK`. It rests on type lemmas for each constructor
  and for `ReadBodyResult`, `MapResponseResult` and `PollResult`.
- **`FramesCorrect`**: `"unknown" \notin FrameKinds => (Spec => []FramesPreserved)`.

`FramesPreserved` is not inductive as it stands. It says nothing about the frames the
adapter still holds, so a step of `PollFrame` from a state that satisfies it could
break it. The strengthening is `FramesInv`:

- the type invariant;
- the script is well formed (`TerminalLast`);
- `delivered \o Pending = script`, where `Pending` is the frames the adapter holds
  followed by the inner remainder whenever it still owns the inner body;
- nothing is pending once the consumer has stopped.

`FramesInv` implies `FramesPreserved`. The lemmas `ReadBodyPending`, `PollPending`,
`MapPending` and `DeliverOne` show that each action moves frames from `Pending` to
`delivered` without reordering them. The hypothesis on unknown frames is needed,
because the `peek_unknown_frame` run violates the property without it.

- **`Refinement`**: `"unknown" \notin FrameKinds => (Spec => FrameStreamSpec)`, the
  safety part of the refinement that the `peek_refinement` run checks with fairness
  as `FrameStreamFairSpec`. It follows the usual pattern: `Spec => []FramesInv`,
  `RefineInit` (`Init => FS!Init`) and `RefineStep`
  (`FramesInv /\ [Next]_vars => [FS!Next]_FS!vars`).
  - `MapResponse` and `ReadBody` leave the shared variables unchanged.
  - When `PollFrame` returns the end, `Pending` is empty, so everything is delivered:
    that is `Finish`.
  - Otherwise `PollPending` gives `Pending = <<f>> \o Pending'`, and `NextOfBody`
    locates `f` at `Len(delivered) + 1` in the script: that is `Deliver`.

- **`PeekCorrect`**: `Spec => []PeekExact`. `peek_trailers()` on a mapped response
  that nothing has polled yet returns the inner body's trailers exactly when
  `read_body` consumed them. That happens after a lone TRAILERS frame, or after DATA
  then TRAILERS when the second frame was ready. It never happens for HTTP/1.0 or 1.1.
  - `PeekExact` alone is not inductive. It speaks of `ExpectedPeek`, which is
    computed from `script` and `version`, while `ReadBody` reads `inner`.
  - The strengthening `PeekInv` adds three facts: `inner = script` until the body is
    read, the script is well formed, and a `Reading` body never has a trailerless
    version.
  - The lemma `PeekOfRead` (in `PeekTrailersLemmas`) computes
    `PeekTrailers(ReadBodyResult(s, ready).body)` for every well-formed script; this
    is `ReadPeek`.
  - `PollKeepsState` shows that a poll returning no frame leaves the body alone.
    Any other poll makes `delivered` non-empty, after which the property is vacuous.
  - TLC checked `PeekInv` as an invariant of the `peek_adapter` instance first.
- **`EndStreamCorrect`**: `Spec => []IsEndStreamSound`. `is_end_stream()` reports
  the end only when no frame is left to poll. It follows from the type invariant:
  `IsEndStreamValues` evaluates `IsEndStream` on each variant of `enum Inner`, and
  `EndStreamPending` shows that `Pending` is empty in every variant where it is
  TRUE.

`PeekTrailersLemmas` holds the lemmas about `PeekTrailers` and `ReadBodyResult`
alone, so that `RetryExchangeProofs` can use them through `INSTANCE`.

`RetryExchangeProofs` proves the following for any set of requests, budget and
ceiling. It works under `ExchangeAssumption` and `PeekAssumption`. The latter says
the response frames are those `PeekTrailers` reads, and the driver's body is read
with the same operators.

- **`TypeCorrect`**: `Spec => []TypeOK`.
- **`RetryAfterFailureCorrect`**: `Spec => RetryOnlyAfterFailure`, an action
  property. A request is sent again only after a response that really failed: a
  5xx status, or trailers in its body whose `grpc-status` is not OK. A transport
  error is never retried.
  - The proof rests on `ResultInv`: for each request, nothing is peeked before a
    response exists, and what is peeked is `NoFrame` or a TRAILERS frame of that
    response's body.
  - `PeekedOfResult` derives this from `PL!PeekedFromBody`, the lemma of the
    instanced `PeekTrailersLemmas`. `PeekInstances` identifies the operators of the
    two instances.
  - `RetryStep` shows that the only step that raises `attempts` for a request in
    flight is the retry branch of `Decide`, and that branch is guarded by
    `ActualFailure`.
- **`LedgerCorrect`**: `Spec => []BudgetLedger`.
- **`ReplayableCorrect`**: `Spec => []RetriedOnlyReplayable`.

The last two rest on `ExchangeInv`: the counters are typed, and per request
(`ReqInv`):

- no attempt and no withdrawal before `prepare_request`;
- `withdrawals = attempts - 1` afterwards;
- at most one deposit, and only once done;
- a second attempt only for a body within the ceiling.

`BudgetLedger` alone is not inductive. It does not say that a request in flight has
not yet deposited, so a `Decide` from a state that satisfies it could deposit a
second time. TLC checked `ExchangeInv` on the `retry_exchange` instance before it
was proved. The retry branch of `Decide` needs `RetryableFits`: a known-uncapped
body has `size <= MaxBufferedBytes`.

- **`ContractRefinement`**: `Spec => RetryContractSpec`, the retry contract under
  the mapping `StageOf`. It follows the pattern of `Refinement` above:
  `Spec => []ResultInv`, `RefineInit`, and `RefineStep`
  (`ResultInv /\ [Next]_vars => [Contract!Next]_Contract!vars`).
  - `StageUpdate` says that a step moving one request to phase `p` moves its stage to
    `StageOf(p)`.
  - `StreamBody` and `ReadFirstFrame` are stutters: `reading` and `responded` are
    both answered.
  - `Decide` maps to one of three contract actions. Its retry branch is `Retry`: it
    needs `RetryableIsFailure` (which needs `ResultInv`) for the failure, and
    `RetryableFits` for the ceiling. Its refused branch is `Exhausted`, and its
    no-retry branch is `Settle`.

`OverrideAuthorityProofs` proves the following for every set of schemes,
authorities, header names and overrides (under `OverrideAssumption`):

- **`NoPanicCorrect`**: `Spec => []NeverPanics`.
- **`ForwardedCorrect`**: `Spec => []ForwardedAsConfigured`.

Both properties describe only the last call. The strengthening `OverrideInv` adds
that every built service holds an override authority or none. With that, `Call`
re-establishes both properties from scratch.

- `SetAuthorityForms` evaluates `set_authority` on the three request-target forms
  of `Uris`: `from_parts` accepts the parts, and the scheme is set exactly when the
  target has a path.
- `StripHeadersValues` says what `StripHeaders` leaves.

TLC checked `OverrideInv` on the `override_authority` instance first.

Only model-checked, not proved:

- **`SizeHintSound` and `SizeHintNoPanic`.** `Bytes` is a recursive sum over the
  frames. Even that its value is a natural needs induction over the sequence, and
  the installed provers cannot instantiate the library's induction theorems.
- **`RetryAmplificationBounded`.** A sum over the set of requests, with the same
  limit.
- **The `RouteMatching` invariants.** The module uses `RECURSIVE` operators, which
  a module with theorems may not reach.
- **`FramesPreserved` with unknown frames.** It is false, as the `peek_unknown_frame`
  run shows. `FramesCorrect` and `Refinement` are proved under
  `"unknown" \notin FrameKinds`.
- **The liveness property `FrameStreamFairSpec`.** TLAPS
  does not handle `ENABLED` and fairness here.

## Not modelled

- **`new_policy`, and the `NewRetryPolicy` layer.** A route without retry configuration
  never enters the model.
- **Metrics.**
- **The profile client.** `call` only turns a watch error into `None`, and
  `Inner::call` only builds the request. What decides its behaviour is in crates
  outside this repository: `StreamWatch`, the recovery backoff,
  `LimitReceiveFuture`'s first-update timeout and `convert_profile`. spec.md names
  the profile watch out of scope, so a model would restate assumed contracts, not
  this code.
- **The authority override's structs.** The type definitions at `lib.rs:13`-`:27`
  are data. `poll_ready` only delegates and changes nothing.
- **`size_hint` overflow.** The byte counts are small naturals. Overflow needs an
  inner hint near `u64::MAX`, which no consistent body reports.
- **The budget's refill over time.** `TpsBudget` is outside this repository. The
  model's budget is an atomic counter that refills only through deposits.
- **The transport socket options.** They are pure I/O.
- **`filter.rs`.** It holds data types only.

## Plan for later sittings

- A composition of `RetryExchange` with `PeekTrailersBody`, so the driver reads the
  same body the consumer later receives.
