--------------------------- MODULE RetryExchange ---------------------------
(***************************************************************************)
(* Requests on one route sent through the outbound retry layer             *)
(* (linkerd/app/outbound/src/http/retry.rs), all sharing the route's retry *)
(* budget.  Per request: RetryPolicy::prepare_request wraps the body in a  *)
(* ReplayBody (or leaves the request unwrapped and never retried); the    *)
(* attempt is dispatched and its body streams while the response may      *)
(* already arrive; prepare_response wraps the response in                  *)
(* PeekTrailersBody, whose read of the first frame is the one suspension; *)
(* then RetryPolicy::retry classifies the result with the peeked trailers, *)
(* consults the body's capped status and the budget, and either ends the   *)
(* exchange or, through clone_request, dispatches the next attempt.        *)
(*                                                                         *)
(* Not in this repository, and modelled from spec.md: the retry driver     *)
(* (linkerd_retry), the ReplayBody contract, the budget (TpsBudget) and    *)
(* the response classifier.                                                *)
(***************************************************************************)
EXTENDS Naturals, Sequences

CONSTANTS
  Requests,          \* the requests in flight on the route
  MaxBufferedBytes,  \* MAX_BUFFERED_BYTES: the ReplayBody ceiling
  BodySizes,         \* lengths of request bodies
  Statuses,          \* HTTP status codes of responses
  InitialBalance,    \* tokens in the route's budget at start
  DepositAmount,     \* tokens one deposit() adds
  WithdrawAmount,    \* tokens one successful withdraw() takes
  DataSizes, TrailerValues, FrameKinds, Versions, MaxFrames

ASSUME ExchangeAssumption ==
  /\ MaxBufferedBytes \in Nat
  /\ BodySizes \subseteq Nat
  /\ Statuses \subseteq Nat
  /\ InitialBalance \in Nat
  /\ DepositAmount \in Nat
  /\ WithdrawAmount \in Nat \ {0}

Peek == INSTANCE PeekTrailers

\* The frames of the responses are those PeekTrailersBody reads.
ASSUME PeekAssumption ==
  /\ DataSizes \subseteq Nat
  /\ TrailerValues \subseteq Nat
  /\ FrameKinds \subseteq {"data", "trailers", "error", "unknown"}
  /\ Versions \subseteq Peek!TrailerlessVersions \cup {"HTTP/2.0"}
  /\ MaxFrames \in Nat

VARIABLES
  phase,        \* where each request is in the retry layer
  size,         \* the length of each request body
  sizeKnown,    \* whether the body's size_hint reports its length
  sent,         \* bytes of the current attempt's body streamed so far
  attempts,     \* attempts dispatched for each request
  result,       \* the current attempt's result, once it has arrived
  peeked,       \* what peek_trailers() returns on the current response
  balance,      \* tokens in the route's budget
  deposits,     \* deposit() calls made for each request
  withdrawals   \* successful withdraw() calls made for each request

vars == <<phase, size, sizeKnown, sent, attempts, result, peeked, balance,
          deposits, withdrawals>>

-----------------------------------------------------------------------------
(* Results of an attempt: an Err from the inner service, or a response.    *)

TransportError == [err |-> TRUE, status |-> 0, version |-> "none", script |-> <<>>]
NoResult == [err |-> FALSE, status |-> 0, version |-> "none", script |-> <<>>]
Responses ==
  [err : {FALSE}, status : Statuses, version : Versions, script : Peek!BodyScripts]
Results == {TransportError} \cup Responses

Phases == {"new", "bypass", "sending", "reading", "responded", "done", "cancelled"}

-----------------------------------------------------------------------------
(* Collaborators modelled from the spec.                                   *)

\* ReplayBody::try_new(body, MAX_BUFFERED_BYTES) fails when the body's
\* size_hint lower bound already exceeds the ceiling.
TryNewFails(r) == sizeKnown[r] /\ size[r] > MaxBufferedBytes

\* ReplayBody::is_capped(): None while the attempt in flight still owns the
\* body's state (its body has not been sent to the end), then whether the
\* buffered bytes exceeded the ceiling.
IsCapped(r) ==
  IF sent[r] < size[r] THEN "unknown"
  ELSE IF size[r] > MaxBufferedBytes THEN "capped"
  ELSE "uncapped"

\* The route's response classes applied to (request, response, peeked
\* trailers): a 5xx status, or a non-zero grpc-status in the trailers.
IsFailure(res, trls) ==
  \/ res.status >= 500
  \/ trls.kind = "trailers" /\ trls.val # 0

\* Sum of a natural-valued function over the requests.
SumOver(f) ==
  LET s[T \in SUBSET Requests] ==
        IF T = {} THEN 0
        ELSE LET x == CHOOSE x \in T : TRUE IN f[x] + s[T \ {x}]
  IN s[Requests]

-----------------------------------------------------------------------------
(* The retry layer.                                                        *)

Init ==
  /\ phase = [r \in Requests |-> "new"]
  /\ size \in [Requests -> BodySizes]
  /\ sizeKnown \in [Requests -> BOOLEAN]
  /\ sent = [r \in Requests |-> 0]
  /\ attempts = [r \in Requests |-> 0]
  /\ result = [r \in Requests |-> NoResult]
  /\ peeked = [r \in Requests |-> Peek!NoFrame]
  /\ balance = InitialBalance
  /\ deposits = [r \in Requests |-> 0]
  /\ withdrawals = [r \in Requests |-> 0]

\* prepare_request: wrap the body in a ReplayBody and dispatch the first
\* attempt, or, when the body is too large to buffer, dispatch the request
\* unwrapped and outside the retry layer for good.
PrepareRequest(r) ==
  /\ phase[r] = "new"
  /\ phase' = [phase EXCEPT ![r] = IF TryNewFails(r) THEN "bypass" ELSE "sending"]
  /\ attempts' = [attempts EXCEPT ![r] = 1]
  /\ UNCHANGED <<size, sizeKnown, sent, result, peeked, balance, deposits, withdrawals>>

\* The connection task streams one more byte of the attempt's body.  This
\* goes on after the response has arrived.
StreamBody(r) ==
  /\ phase[r] \in {"sending", "reading", "responded"}
  /\ sent[r] < size[r]
  /\ sent' = [sent EXCEPT ![r] = @ + 1]
  /\ UNCHANGED <<phase, size, sizeKnown, attempts, result, peeked, balance,
                 deposits, withdrawals>>

\* The attempt's result arrives.  A response goes through prepare_response,
\* i.e. PeekTrailersBody::map_response: Passthru and Empty are ready at
\* once, otherwise the first frame has to be read.
Respond(r, res) ==
  /\ phase[r] = "sending"
  /\ result' = [result EXCEPT ![r] = res]
  /\ \E endStream \in IF res.script = <<>> THEN BOOLEAN ELSE {FALSE} :
       phase' = [phase EXCEPT ![r] =
                   IF ~res.err /\ Peek!MapResponseResult(res.version, endStream) = Peek!Reading
                     THEN "reading" ELSE "responded"]
  /\ UNCHANGED <<size, sizeKnown, sent, attempts, peeked, balance, deposits, withdrawals>>

\* The future of map_response resolves: read_body has read the first frame
\* and, if it is DATA, looked at the second without waiting.
ReadFirstFrame(r, ready) ==
  /\ phase[r] = "reading"
  /\ peeked' = [peeked EXCEPT ![r] =
                  Peek!PeekTrailers(Peek!ReadBodyResult(result[r].script, ready).body)]
  /\ phase' = [phase EXCEPT ![r] = "responded"]
  /\ UNCHANGED <<size, sizeKnown, sent, attempts, result, balance, deposits, withdrawals>>

\* The caller drops the exchange while it waits for the response or for
\* its first frame.
Cancel(r) ==
  /\ phase[r] \in {"sending", "reading"}
  /\ phase' = [phase EXCEPT ![r] = "cancelled"]
  /\ UNCHANGED <<size, sizeKnown, sent, attempts, result, peeked, balance,
                 deposits, withdrawals>>

\* Mutant of Retryable: only a body known to be capped is refused, so an
\* unknown capped status (body still streaming) counts as replayable.
RetryableUnlessCapped(r) ==
  /\ ~result[r].err
  /\ IsFailure(result[r], peeked[r])
  /\ IsCapped(r) # "capped"

\* Mutant of Retryable: a transport error is retried like a failure.
RetryableOnError(r) ==
  /\ result[r].err \/ IsFailure(result[r], peeked[r])
  /\ IsCapped(r) = "uncapped"

\* RetryPolicy::retry: an Err is never retried; a response is retried when
\* it is a failure and the body is known not to be capped.  Not retryable:
\* deposit and stop.  Retryable: withdraw, and stop if the budget refuses.
Retryable(r) ==
  /\ ~result[r].err
  /\ IsFailure(result[r], peeked[r])
  /\ IsCapped(r) = "uncapped"

\* Mutant of Decide: the token is deposited before the decision, on every
\* path, instead of only when the result is not retried.
DecideDepositFirst(r) ==
  /\ phase[r] = "responded"
  /\ deposits' = [deposits EXCEPT ![r] = @ + 1]
  /\ IF ~Retryable(r)
       THEN /\ balance' = balance + DepositAmount
            /\ phase' = [phase EXCEPT ![r] = "done"]
            /\ UNCHANGED <<sent, attempts, result, peeked, withdrawals>>
       ELSE IF balance + DepositAmount >= WithdrawAmount
         THEN /\ balance' = balance + DepositAmount - WithdrawAmount
              /\ withdrawals' = [withdrawals EXCEPT ![r] = @ + 1]
              /\ phase' = [phase EXCEPT ![r] = "sending"]
              /\ attempts' = [attempts EXCEPT ![r] = @ + 1]
              /\ sent' = [sent EXCEPT ![r] = 0]
              /\ result' = [result EXCEPT ![r] = NoResult]
              /\ peeked' = [peeked EXCEPT ![r] = Peek!NoFrame]
         ELSE /\ balance' = balance + DepositAmount
              /\ phase' = [phase EXCEPT ![r] = "done"]
              /\ UNCHANGED <<sent, attempts, result, peeked, withdrawals>>
  /\ UNCHANGED <<size, sizeKnown>>

\* Mutant of Decide: the result of withdraw() is ignored (the early return
\* on !withdrew is missing), so the retry goes ahead on an empty budget.
DecideIgnoresWithdraw(r) ==
  /\ phase[r] = "responded"
  /\ IF ~Retryable(r)
       THEN /\ balance' = balance + DepositAmount
            /\ deposits' = [deposits EXCEPT ![r] = @ + 1]
            /\ phase' = [phase EXCEPT ![r] = "done"]
            /\ UNCHANGED <<sent, attempts, result, peeked, withdrawals>>
       ELSE /\ balance' = IF balance >= WithdrawAmount THEN balance - WithdrawAmount ELSE balance
            /\ withdrawals' = [withdrawals EXCEPT ![r] = IF balance >= WithdrawAmount THEN @ + 1 ELSE @]
            /\ phase' = [phase EXCEPT ![r] = "sending"]
            /\ attempts' = [attempts EXCEPT ![r] = @ + 1]
            /\ sent' = [sent EXCEPT ![r] = 0]
            /\ result' = [result EXCEPT ![r] = NoResult]
            /\ peeked' = [peeked EXCEPT ![r] = Peek!NoFrame]
            /\ UNCHANGED deposits
  /\ UNCHANGED <<size, sizeKnown>>

\* Mutant of Decide: withdraw() is not checked against the balance.
DecideOverdraws(r) ==
  /\ phase[r] = "responded"
  /\ IF ~Retryable(r)
       THEN /\ balance' = balance + DepositAmount
            /\ deposits' = [deposits EXCEPT ![r] = @ + 1]
            /\ phase' = [phase EXCEPT ![r] = "done"]
            /\ UNCHANGED <<sent, attempts, result, peeked, withdrawals>>
       ELSE /\ balance' = balance - WithdrawAmount
            /\ withdrawals' = [withdrawals EXCEPT ![r] = @ + 1]
            /\ phase' = [phase EXCEPT ![r] = "sending"]
            /\ attempts' = [attempts EXCEPT ![r] = @ + 1]
            /\ sent' = [sent EXCEPT ![r] = 0]
            /\ result' = [result EXCEPT ![r] = NoResult]
            /\ peeked' = [peeked EXCEPT ![r] = Peek!NoFrame]
            /\ UNCHANGED deposits
  /\ UNCHANGED <<size, sizeKnown>>

\* The driver calls retry() once the result is ready; on Some it awaits the
\* ready future, calls clone_request and dispatches the clone, whose body
\* replays from the start.
Decide(r) ==
  /\ phase[r] = "responded"
  /\ IF ~Retryable(r)
       THEN /\ balance' = balance + DepositAmount
            /\ deposits' = [deposits EXCEPT ![r] = @ + 1]
            /\ phase' = [phase EXCEPT ![r] = "done"]
            /\ UNCHANGED <<sent, attempts, result, peeked, withdrawals>>
       ELSE IF balance >= WithdrawAmount
         THEN /\ balance' = balance - WithdrawAmount
              /\ withdrawals' = [withdrawals EXCEPT ![r] = @ + 1]
              /\ phase' = [phase EXCEPT ![r] = "sending"]
              /\ attempts' = [attempts EXCEPT ![r] = @ + 1]
              /\ sent' = [sent EXCEPT ![r] = 0]
              /\ result' = [result EXCEPT ![r] = NoResult]
              /\ peeked' = [peeked EXCEPT ![r] = Peek!NoFrame]
              /\ UNCHANGED deposits
         ELSE /\ phase' = [phase EXCEPT ![r] = "done"]
              /\ UNCHANGED <<sent, attempts, result, peeked, balance, deposits, withdrawals>>
  /\ UNCHANGED <<size, sizeKnown>>

Next ==
  \E r \in Requests :
    \/ PrepareRequest(r)
    \/ StreamBody(r)
    \/ \E res \in Results : Respond(r, res)
    \/ \E ready \in BOOLEAN : ReadFirstFrame(r, ready)
    \/ Cancel(r)
    \/ Decide(r)

Spec == Init /\ [][Next]_vars

-----------------------------------------------------------------------------
(* Properties.                                                             *)

\* Type invariant: every exchange is in a phase of the retry driver, and the
\* shared budget (TpsBudget) is never overdrawn below zero by withdraw().
TypeOK ==
  /\ phase \in [Requests -> Phases]
  /\ size \in [Requests -> BodySizes]
  /\ sizeKnown \in [Requests -> BOOLEAN]
  /\ sent \in [Requests -> Nat]
  /\ attempts \in [Requests -> Nat]
  /\ result \in [Requests -> Results \cup {NoResult}]
  /\ peeked \in [Requests -> Peek!OptFrame]
  /\ balance \in Nat
  /\ deposits \in [Requests -> Nat]
  /\ withdrawals \in [Requests -> Nat]

\* A request is retried only if its whole body fits in the ReplayBody
\* buffer: a response that arrives while the body is still streaming, when
\* it may yet turn out to be capped, never leads to a retry (retry.rs, the
\* is_capped() branch; spec section 4.2 step 3).
RetriedOnlyReplayable ==
  \A r \in Requests : attempts[r] > 1 => size[r] <= MaxBufferedBytes

\* What the response really said: a 5xx status or a non-zero grpc-status
\* in its trailers, whether or not they could be peeked.
ActualFailure(res) ==
  /\ ~res.err
  /\ \/ res.status >= 500
     \/ \E i \in 1..Len(res.script) :
          res.script[i].kind = "trailers" /\ res.script[i].val # 0

\* A new attempt is dispatched only after a response that really was a
\* failure: never after a transport error, never on trailers the peek
\* invented (retry.rs Err(_) => false; spec section 7).
RetryOnlyAfterFailure ==
  [][\A r \in Requests :
       attempts'[r] > attempts[r] /\ attempts[r] > 0 => ActualFailure(result[r])]_vars

\* The retries each request has made.
Retries == [r \in Requests |-> IF attempts[r] = 0 THEN 0 ELSE attempts[r] - 1]

\* Each request has withdrawn exactly one budget token per retry it made,
\* and deposited at most once, after its final decision: an attempt in
\* flight, a cancelled exchange and a bypassed request leave the shared
\* budget alone (spec section 5, "Cancellation").
BudgetLedger ==
  \A r \in Requests :
    /\ withdrawals[r] = Retries[r]
    /\ deposits[r] <= 1
    /\ deposits[r] = 1 => phase[r] = "done"

\* Retries across all requests of the route never exceed what the budget
\* paid for: the initial tokens and the deposits of finished requests.
RetryAmplificationBounded ==
  WithdrawAmount * SumOver(Retries) <= InitialBalance + DepositAmount * SumOver(deposits)

\* The contract's view of a phase: a request not yet prepared is idle, an
\* attempt dispatched and not answered is in flight, and one whose result
\* has arrived, its first frame read or not, is answered.
StageOf(p) ==
  IF p = "new" THEN "idle"
  ELSE IF p = "sending" THEN "inflight"
  ELSE IF p \in {"reading", "responded"} THEN "answered"
  ELSE p

Contract == INSTANCE RetryContract
              WITH stage <- [r \in Requests |-> StageOf(phase[r])],
                   tries <- attempts,
                   outcome <- result,
                   Failure <- ActualFailure

\* The retry layer keeps the contract of spec sections 4.2 and 5: retry()
\* retries only a real failure of a replayable body with a token it
\* withdrew, deposits once when it does not retry, deposits nothing when
\* the budget refuses, and a dropped exchange leaves the budget alone.
RetryContractSpec == Contract!Spec
=============================================================================
