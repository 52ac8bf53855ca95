---------------------------- MODULE RetryContract ----------------------------
(***************************************************************************)
(* What the retry layer promises for the requests on one route (spec      *)
(* sections 4.2, 5 and 7), seen from outside: the body sizes, the attempts *)
(* of each request, the result of the attempt in flight, and the route's  *)
(* shared budget.  A request is dispatched once, wrapped for replay or,   *)
(* when its body is known to exceed the ceiling, passed through; an       *)
(* attempt is answered; the single decision on the answer either retries *)
(* (a classified failure, a replayable body and a withdrawn token),       *)
(* settles with a deposit, or gives up on an exhausted budget.  The       *)
(* caller may abandon an exchange before its decision, which touches no   *)
(* shared state.  The classifier is injected: Failure is its verdict on a *)
(* result.  Module RetryExchange is shown to implement this contract.     *)
(***************************************************************************)
EXTENDS Naturals

CONSTANTS
  Requests,          \* the requests on the route
  Results,           \* what an attempt may end with
  NoResult,          \* no result yet
  Failure(_),        \* the classifier's verdict on a result
  MaxBufferedBytes,  \* the replay ceiling
  BodySizes,         \* lengths of request bodies
  InitialBalance,    \* tokens in the budget at start
  DepositAmount,     \* tokens one deposit adds
  WithdrawAmount     \* tokens one retry takes

VARIABLES
  stage,     \* where each exchange is
  size,      \* the length of each request body
  tries,     \* attempts dispatched for each request
  outcome,   \* the result of the attempt in flight, once answered
  balance,   \* tokens in the route's budget
  deposits   \* deposits made for each request

vars == <<stage, size, tries, outcome, balance, deposits>>

Stages == {"idle", "bypass", "inflight", "answered", "done", "cancelled"}

Init ==
  /\ stage = [r \in Requests |-> "idle"]
  /\ size \in [Requests -> BodySizes]
  /\ tries = [r \in Requests |-> 0]
  /\ outcome = [r \in Requests |-> NoResult]
  /\ balance = InitialBalance
  /\ deposits = [r \in Requests |-> 0]

\* The first attempt goes out; a body known to exceed the ceiling may be
\* passed through instead, and is then never retried (section 4.2).
Dispatch(r) ==
  /\ stage[r] = "idle"
  /\ \E s \in {"inflight"} \cup (IF size[r] > MaxBufferedBytes THEN {"bypass"} ELSE {}) :
       stage' = [stage EXCEPT ![r] = s]
  /\ tries' = [tries EXCEPT ![r] = 1]
  /\ UNCHANGED <<size, outcome, balance, deposits>>

\* The attempt in flight ends with a response or an error.
Answer(r, res) ==
  /\ stage[r] = "inflight"
  /\ outcome' = [outcome EXCEPT ![r] = res]
  /\ stage' = [stage EXCEPT ![r] = "answered"]
  /\ UNCHANGED <<size, tries, balance, deposits>>

\* The caller drops the exchange before the decision: the budget is not
\* touched (section 5, "Cancellation").
Abandon(r) ==
  /\ stage[r] \in {"inflight", "answered"}
  /\ stage' = [stage EXCEPT ![r] = "cancelled"]
  /\ UNCHANGED <<size, tries, outcome, balance, deposits>>

\* A classified failure of a body that fits the replay buffer is retried
\* when a token can be withdrawn; the next attempt starts afresh.
Retry(r) ==
  /\ stage[r] = "answered"
  /\ Failure(outcome[r])
  /\ size[r] <= MaxBufferedBytes
  /\ balance >= WithdrawAmount
  /\ balance' = balance - WithdrawAmount
  /\ tries' = [tries EXCEPT ![r] = @ + 1]
  /\ outcome' = [outcome EXCEPT ![r] = NoResult]
  /\ stage' = [stage EXCEPT ![r] = "inflight"]
  /\ UNCHANGED <<size, deposits>>

\* No retry: the token is returned to the budget, once.
Settle(r) ==
  /\ stage[r] = "answered"
  /\ balance' = balance + DepositAmount
  /\ deposits' = [deposits EXCEPT ![r] = @ + 1]
  /\ stage' = [stage EXCEPT ![r] = "done"]
  /\ UNCHANGED <<size, tries, outcome>>

\* A retryable failure finds the budget exhausted: no retry, no deposit.
Exhausted(r) ==
  /\ stage[r] = "answered"
  /\ Failure(outcome[r])
  /\ balance < WithdrawAmount
  /\ stage' = [stage EXCEPT ![r] = "done"]
  /\ UNCHANGED <<size, tries, outcome, balance, deposits>>

Next ==
  \E r \in Requests :
    \/ Dispatch(r)
    \/ \E res \in Results : Answer(r, res)
    \/ Abandon(r)
    \/ Retry(r)
    \/ Settle(r)
    \/ Exhausted(r)

Spec == Init /\ [][Next]_vars
=============================================================================
