------------------------- MODULE RetryExchangeProofs -------------------------
(***************************************************************************)
(* Proofs about RetryExchange, for every number of requests, every budget *)
(* and every buffer ceiling: the budget ledger of each request and the     *)
(* refusal to retry a body that does not fit the replay buffer, the types *)
(* of the layer's state, that a retry follows only a real failure, and    *)
(* that the layer implements the retry contract of module RetryContract.  *)
(***************************************************************************)
EXTENDS RetryExchange, TLAPS

\* The lemmas about PeekTrailersBody's operators, for the frame constants
\* of this module.
PL == INSTANCE PeekTrailersLemmas

-----------------------------------------------------------------------------
(* What prepare_response lets retry() see.                                 *)

\* The operators of PeekTrailers are the same whether reached through the
\* model (Peek) or through its lemmas (PL).
LEMMA PeekInstances ==
  /\ Peek!Frame = PL!Frame
  /\ Peek!OptFrame = PL!OptFrame
  /\ Peek!NoFrame = PL!NoFrame
  /\ Peek!BodyScripts = PL!BodyScripts
  /\ \A s : Peek!TerminalLast(s) = PL!TerminalLast(s)
  /\ \A s, ready : Peek!ReadBodyResult(s, ready) = PL!ReadBodyResult(s, ready)
  /\ \A b : Peek!PeekTrailers(b) = PL!PeekTrailers(b)
<1>1. /\ Peek!Frame = PL!Frame
      /\ Peek!NoFrame = PL!NoFrame
      /\ Peek!Empty = PL!Empty
      /\ \A x : Peek!TerminalLast(x) = PL!TerminalLast(x)
      /\ \A x : Peek!NextFrame(x) = PL!NextFrame(x)
      /\ \A x : Peek!Rest(x) = PL!Rest(x)
      /\ \A x, y : Peek!Unary(x, y) = PL!Unary(x, y)
      /\ \A x, y : Peek!Buffered(x, y) = PL!Buffered(x, y)
  BY DEF Peek!Frame, PL!Frame, Peek!NoFrame, PL!NoFrame, Peek!Empty, PL!Empty,
         Peek!TerminalLast, PL!TerminalLast, Peek!Terminal, PL!Terminal,
         Peek!NextFrame, PL!NextFrame, Peek!Rest, PL!Rest,
         Peek!Unary, PL!Unary, Peek!Buffered, PL!Buffered
<1>2. /\ Peek!OptFrame = PL!OptFrame
      /\ Peek!BodyScripts = PL!BodyScripts
  BY <1>1 DEF Peek!OptFrame, PL!OptFrame, Peek!BodyScripts, PL!BodyScripts
<1>3. ASSUME NEW s, NEW ready
      PROVE  Peek!ReadBodyResult(s, ready) = PL!ReadBodyResult(s, ready)
  BY <1>1, Zenon DEF Peek!ReadBodyResult, PL!ReadBodyResult
<1>4. \A b : Peek!PeekTrailers(b) = PL!PeekTrailers(b)
  BY <1>1 DEF Peek!PeekTrailers, PL!PeekTrailers
<1>5. QED
  BY <1>1, <1>2, <1>3, <1>4

\* The constants of PeekTrailers satisfy its assumption here.
LEMMA PeekConstants == PL!ConstantsAssumption
BY PeekAssumption DEF PL!ConstantsAssumption, PL!TrailerlessVersions, Peek!TrailerlessVersions

\* The body of every result is a well-formed sequence of frames.
LEMMA ResultScripts ==
  ASSUME NEW res \in Results \cup {NoResult}
  PROVE  /\ res.script \in Seq(Peek!Frame)
         /\ Peek!TerminalLast(res.script)
<1>1. CASE res \in Responses
  <2>1. res.script \in Peek!BodyScripts
    BY <1>1 DEF Responses
  <2>2. res.script \in Seq(Peek!Frame)
    BY <2>1, PeekInstances, PeekConstants, PL!ScriptsAreSequences
  <2>3. QED
    BY <2>1, <2>2 DEF Peek!BodyScripts
<1>2. CASE res \in {TransportError, NoResult}
  <2>1. res.script = <<>>
    BY <1>2 DEF TransportError, NoResult
  <2>2. QED
    BY <2>1 DEF Peek!TerminalLast
<1>3. QED
  BY <1>1, <1>2 DEF Results

\* What peek_trailers() returns on the response of a result, once read_body
\* has run: a frame or nothing, and a frame only if it is a TRAILERS frame
\* of that response's body.
LEMMA PeekedOfResult ==
  ASSUME NEW res \in Results \cup {NoResult}, NEW ready \in BOOLEAN
  PROVE  LET p == Peek!PeekTrailers(Peek!ReadBodyResult(res.script, ready).body)
         IN  /\ p \in Peek!OptFrame
             /\ \/ p = Peek!NoFrame
                \/ /\ p.kind = "trailers"
                   /\ \E i \in 1..Len(res.script) : res.script[i] = p
<1> DEFINE s == res.script
           p == Peek!PeekTrailers(Peek!ReadBodyResult(s, ready).body)
<1>1. /\ s \in Seq(Peek!Frame)
      /\ Peek!TerminalLast(s)
  BY ResultScripts
<1>2. \/ p = Peek!NoFrame
      \/ /\ p.kind = "trailers"
         /\ \E i \in 1..Len(s) : s[i] = p
  <2>1. \/ PL!PeekTrailers(PL!ReadBodyResult(s, ready).body) = PL!NoFrame
        \/ /\ PL!PeekTrailers(PL!ReadBodyResult(s, ready).body).kind = "trailers"
           /\ \E i \in 1..Len(s) : s[i] = PL!PeekTrailers(PL!ReadBodyResult(s, ready).body)
    BY <1>1, PeekInstances, PeekConstants, PL!PeekedFromBody
  <2>2. QED
    BY <2>1, PeekInstances
<1>3. p \in Peek!OptFrame
  BY <1>1, <1>2 DEF Peek!OptFrame
<1>4. QED
  BY <1>2, <1>3

-----------------------------------------------------------------------------
(* Types.                                                                  *)

LEMMA TypeInit == Init => TypeOK
BY ExchangeAssumption DEF Init, TypeOK, Phases, Peek!OptFrame

\* Every action keeps each variable in its type; withdraw() is only taken
\* from a balance that covers it.
LEMMA TypeStep == TypeOK /\ [Next]_vars => TypeOK'
<1> SUFFICES ASSUME TypeOK, [Next]_vars PROVE TypeOK'
  OBVIOUS
<1>1. ASSUME NEW r \in Requests, PrepareRequest(r) PROVE TypeOK'
  BY <1>1 DEF PrepareRequest, TypeOK, Phases
<1>2. ASSUME NEW r \in Requests, StreamBody(r) PROVE TypeOK'
  BY <1>2 DEF StreamBody, TypeOK
<1>3. ASSUME NEW r \in Requests, NEW res \in Results, Respond(r, res) PROVE TypeOK'
  <2>1. PICK e \in BOOLEAN :
          phase' = [phase EXCEPT ![r] =
                      IF ~res.err /\ Peek!MapResponseResult(res.version, e) = Peek!Reading
                        THEN "reading" ELSE "responded"]
    BY <1>3 DEF Respond
  <2>2. QED
    BY <1>3, <2>1 DEF Respond, TypeOK, Phases
<1>4. ASSUME NEW r \in Requests, NEW ready \in BOOLEAN, ReadFirstFrame(r, ready)
      PROVE TypeOK'
  <2>1. Peek!PeekTrailers(Peek!ReadBodyResult(result[r].script, ready).body) \in Peek!OptFrame
    BY PeekedOfResult DEF TypeOK
  <2>2. QED
    BY <1>4, <2>1 DEF ReadFirstFrame, TypeOK, Phases
<1>5. ASSUME NEW r \in Requests, Cancel(r) PROVE TypeOK'
  BY <1>5 DEF Cancel, TypeOK, Phases
<1>6. ASSUME NEW r \in Requests, Decide(r) PROVE TypeOK'
  <2>1. Peek!NoFrame \in Peek!OptFrame
    BY DEF Peek!OptFrame
  <2>2. QED
    BY <1>6, <2>1, ExchangeAssumption DEF Decide, TypeOK, Phases
<1>7. CASE UNCHANGED vars
  BY <1>7 DEF vars, TypeOK
<1>8. QED
  BY <1>1, <1>2, <1>3, <1>4, <1>5, <1>6, <1>7 DEF Next

\* Whatever the number of requests, the budget and the bodies, every
\* exchange is in a phase of the retry driver, each result is an error or
\* a response, peek_trailers() yields a frame or nothing, and the shared
\* budget is never drawn below zero: retry() withdraws only when
\* TpsBudget::withdraw() finds the tokens.
THEOREM TypeCorrect == Spec => []TypeOK
BY TypeInit, TypeStep, PTL DEF Spec

-----------------------------------------------------------------------------
(* A retry follows only a real failure.                                    *)

\* The trailers retry() classifies come from the response being
\* classified: nothing is peeked before the response is read, and what is
\* peeked is a TRAILERS frame of that response's body.
PeekedInv(r) ==
  /\ phase[r] \in {"new", "bypass", "sending"} => peeked[r] = Peek!NoFrame
  /\ \/ peeked[r] = Peek!NoFrame
     \/ /\ peeked[r].kind = "trailers"
        /\ \E i \in 1..Len(result[r].script) : result[r].script[i] = peeked[r]

\* The inductive invariant.  The implication alone is not inductive:
\* Respond replaces the result without touching peeked, so it needs to
\* know that nothing was peeked while the attempt was in flight.
ResultInv == TypeOK /\ \A r \in Requests : PeekedInv(r)

LEMMA ResultInit == Init => ResultInv
BY TypeInit DEF Init, ResultInv, PeekedInv

\* Each action keeps PeekedInv of every request: only the request it acts
\* on changes, and its peeked trailers are reset whenever its result is.
LEMMA ResultStep == ResultInv /\ [Next]_vars => ResultInv'
<1> SUFFICES ASSUME ResultInv, [Next]_vars PROVE ResultInv'
  OBVIOUS
<1>1. /\ TypeOK
      /\ TypeOK'
      /\ \A q \in Requests : PeekedInv(q)
  BY TypeStep DEF ResultInv
<1>2. ASSUME NEW r \in Requests, PrepareRequest(r) PROVE ResultInv'
  BY <1>1, <1>2 DEF PrepareRequest, ResultInv, PeekedInv, TypeOK
<1>3. ASSUME NEW r \in Requests, StreamBody(r) PROVE ResultInv'
  BY <1>1, <1>3 DEF StreamBody, ResultInv, PeekedInv, TypeOK
<1>4. ASSUME NEW r \in Requests, NEW res \in Results, Respond(r, res) PROVE ResultInv'
  <2>1. /\ peeked[r] = Peek!NoFrame
        /\ peeked' = peeked
        /\ \A q \in Requests \ {r} : phase'[q] = phase[q] /\ result'[q] = result[q]
    BY <1>1, <1>4 DEF Respond, PeekedInv, TypeOK
  <2>2. QED
    BY <1>1, <2>1 DEF ResultInv, PeekedInv
<1>5. ASSUME NEW r \in Requests, NEW ready \in BOOLEAN, ReadFirstFrame(r, ready)
      PROVE ResultInv'
  <2>1. LET p == Peek!PeekTrailers(Peek!ReadBodyResult(result[r].script, ready).body)
        IN  \/ p = Peek!NoFrame
            \/ /\ p.kind = "trailers"
               /\ \E i \in 1..Len(result[r].script) : result[r].script[i] = p
    BY <1>1, PeekedOfResult DEF TypeOK
  <2>2. QED
    BY <1>1, <1>5, <2>1 DEF ReadFirstFrame, ResultInv, PeekedInv, TypeOK
<1>6. ASSUME NEW r \in Requests, Cancel(r) PROVE ResultInv'
  BY <1>1, <1>6 DEF Cancel, ResultInv, PeekedInv, TypeOK
<1>7. ASSUME NEW r \in Requests, Decide(r) PROVE ResultInv'
  <2>1. CASE Retryable(r) /\ balance >= WithdrawAmount
    <3>1. /\ phase' = [phase EXCEPT ![r] = "sending"]
          /\ result' = [result EXCEPT ![r] = NoResult]
          /\ peeked' = [peeked EXCEPT ![r] = Peek!NoFrame]
      BY <1>7, <2>1 DEF Decide
    <3>2. QED
      BY <1>1, <3>1 DEF ResultInv, PeekedInv, TypeOK
  <2>2. CASE ~(Retryable(r) /\ balance >= WithdrawAmount)
    <3>1. /\ phase' = [phase EXCEPT ![r] = "done"]
          /\ UNCHANGED <<result, peeked>>
      BY <1>7, <2>2 DEF Decide
    <3>2. QED
      BY <1>1, <3>1 DEF ResultInv, PeekedInv, TypeOK
  <2>3. QED
    BY <2>1, <2>2
<1>8. CASE UNCHANGED vars
  BY <1>1, <1>8 DEF vars, ResultInv, PeekedInv
<1>9. QED
  BY <1>2, <1>3, <1>4, <1>5, <1>6, <1>7, <1>8 DEF Next

\* A retry granted by retry() is backed by the response: a 5xx status, or
\* trailers peeked from its body with a non-zero grpc-status.
LEMMA RetryableIsFailure ==
  ASSUME ResultInv, NEW r \in Requests, Retryable(r)
  PROVE  ActualFailure(result[r])
<1>1. /\ ~result[r].err
      /\ \/ result[r].status >= 500
         \/ peeked[r].kind = "trailers" /\ peeked[r].val # 0
  BY DEF Retryable, IsFailure
<1>2. CASE result[r].status >= 500
  BY <1>1, <1>2 DEF ActualFailure
<1>3. CASE peeked[r].kind = "trailers" /\ peeked[r].val # 0
  <2>1. peeked[r] # Peek!NoFrame
    BY <1>3 DEF Peek!NoFrame
  <2>2. \E i \in 1..Len(result[r].script) : result[r].script[i] = peeked[r]
    BY <2>1 DEF ResultInv, PeekedInv
  <2>3. QED
    BY <1>1, <1>3, <2>2 DEF ActualFailure
<1>4. QED
  BY <1>1, <1>2, <1>3

\* Only Decide dispatches a further attempt, and only for a retryable
\* result; prepare_request dispatches the first one.
LEMMA RetryStep ==
  ResultInv /\ [Next]_vars =>
    [\A r \in Requests :
       attempts'[r] > attempts[r] /\ attempts[r] > 0 => ActualFailure(result[r])]_vars
<1> SUFFICES ASSUME ResultInv, [Next]_vars, NEW r \in Requests,
                    attempts'[r] > attempts[r], attempts[r] > 0
             PROVE  ActualFailure(result[r])
  OBVIOUS
<1>1. attempts \in [Requests -> Nat]
  BY DEF ResultInv, TypeOK
<1>2. ASSUME NEW q \in Requests, Decide(q) PROVE ActualFailure(result[r])
  <2>1. CASE Retryable(q) /\ balance >= WithdrawAmount
    <3>1. attempts' = [attempts EXCEPT ![q] = @ + 1]
      BY <1>2, <2>1 DEF Decide
    <3>2. q = r
      BY <1>1, <3>1
    <3>3. QED
      BY <2>1, <3>2, RetryableIsFailure
  <2>2. CASE ~(Retryable(q) /\ balance >= WithdrawAmount)
    <3>1. attempts' = attempts
      BY <1>2, <2>2 DEF Decide
    <3>2. QED
      BY <1>1, <3>1
  <2>3. QED
    BY <2>1, <2>2
<1>3. ASSUME NEW q \in Requests, PrepareRequest(q) PROVE FALSE
  <2>1. attempts' = [attempts EXCEPT ![q] = 1]
    BY <1>3 DEF PrepareRequest
  <2>2. QED
    BY <1>1, <2>1
<1>4. ASSUME NEW q \in Requests,
             \/ StreamBody(q)
             \/ \E res \in Results : Respond(q, res)
             \/ \E ready \in BOOLEAN : ReadFirstFrame(q, ready)
             \/ Cancel(q)
      PROVE  FALSE
  <2>1. attempts' = attempts
    <3>1. CASE StreamBody(q)
      BY <3>1 DEF StreamBody
    <3>2. CASE \E res \in Results : Respond(q, res)
      BY <3>2 DEF Respond
    <3>3. CASE \E ready \in BOOLEAN : ReadFirstFrame(q, ready)
      BY <3>3 DEF ReadFirstFrame
    <3>4. CASE Cancel(q)
      BY <3>4 DEF Cancel
    <3>5. QED
      BY <1>4, <3>1, <3>2, <3>3, <3>4
  <2>2. QED
    BY <1>1, <2>1
<1>5. CASE UNCHANGED vars
  BY <1>1, <1>5 DEF vars
<1>6. QED
  BY <1>2, <1>3, <1>4, <1>5 DEF Next

\* For every number of requests, every budget and every response, a new
\* attempt of a request is dispatched only after a response that really
\* was a failure: never after a transport error (retry.rs retry(): Err(_)
\* is not retried), and never on a grpc-status that peek_trailers()
\* invented rather than read from the body.
THEOREM RetryAfterFailureCorrect == Spec => RetryOnlyAfterFailure
<1>1. Spec => []ResultInv
  BY ResultInit, ResultStep, PTL DEF Spec
<1>2. QED
  BY <1>1, RetryStep, PTL DEF Spec, RetryOnlyAfterFailure

-----------------------------------------------------------------------------
(* The budget ledger.                                                      *)

\* The per-request part of the inductive invariant: no attempt before
\* prepare_request, one withdrawal per attempt after the first, at most
\* one deposit and only once done, and a second attempt only for a body
\* within the ceiling, which is fixed for the life of the request.
ReqInv(r) ==
  /\ phase[r] = "new" => attempts[r] = 0 /\ withdrawals[r] = 0
  /\ phase[r] # "new" => attempts[r] >= 1 /\ withdrawals[r] = attempts[r] - 1
  /\ deposits[r] \in {0, 1}
  /\ deposits[r] = 1 => phase[r] = "done"
  /\ attempts[r] > 1 => size[r] <= MaxBufferedBytes

\* The types the counters need.
Typed ==
  /\ phase \in [Requests -> Phases]
  /\ size \in [Requests -> BodySizes]
  /\ attempts \in [Requests -> Nat]
  /\ withdrawals \in [Requests -> Nat]
  /\ deposits \in [Requests -> Nat]

\* The inductive invariant.  BudgetLedger alone is not inductive: it says
\* nothing of a request not yet prepared, whose first attempt must not
\* count as a retry, nor that a request in flight has not deposited, so a
\* Decide from a state that satisfies it could deposit twice.
ExchangeInv == Typed /\ \A r \in Requests : ReqInv(r)

-----------------------------------------------------------------------------

\* No request has been prepared, attempted or charged at start.
LEMMA ExchangeInit == Init => ExchangeInv
BY ExchangeAssumption DEF Init, ExchangeInv, Typed, ReqInv, Phases

\* A retry is only ever granted for a body that is known not to be capped,
\* which needs it to fit within the ceiling.
LEMMA RetryableFits ==
  ASSUME NEW r \in Requests, Retryable(r),
         size[r] \in Nat
  PROVE  size[r] <= MaxBufferedBytes
BY ExchangeAssumption DEF Retryable, IsCapped

\* Every action keeps ExchangeInv: only the request it acts on changes, and
\* each moves its counters together with its phase.
LEMMA ExchangeStep == ExchangeInv /\ [Next]_vars => ExchangeInv'
<1> SUFFICES ASSUME ExchangeInv, [Next]_vars PROVE ExchangeInv'
  OBVIOUS
<1>1. /\ Typed
      /\ \A q \in Requests : ReqInv(q)
  BY DEF ExchangeInv
<1>2. ASSUME NEW r \in Requests, PrepareRequest(r) PROVE ExchangeInv'
  BY <1>1, <1>2 DEF PrepareRequest, ExchangeInv, Typed, ReqInv, Phases
<1>3. ASSUME NEW r \in Requests, StreamBody(r) PROVE ExchangeInv'
  BY <1>1, <1>3 DEF StreamBody, ExchangeInv, Typed, ReqInv
<1>4. ASSUME NEW r \in Requests, NEW res \in Results, Respond(r, res)
      PROVE ExchangeInv'
  <2>1. PICK e \in BOOLEAN :
          phase' = [phase EXCEPT ![r] =
                      IF ~res.err /\ Peek!MapResponseResult(res.version, e) = Peek!Reading
                        THEN "reading" ELSE "responded"]
    BY <1>4 DEF Respond
  <2>2. QED
    BY <1>1, <1>4, <2>1 DEF Respond, ExchangeInv, Typed, ReqInv, Phases
<1>5. ASSUME NEW r \in Requests, NEW ready \in BOOLEAN, ReadFirstFrame(r, ready)
      PROVE ExchangeInv'
  BY <1>1, <1>5 DEF ReadFirstFrame, ExchangeInv, Typed, ReqInv, Phases
<1>6. ASSUME NEW r \in Requests, Cancel(r) PROVE ExchangeInv'
  BY <1>1, <1>6 DEF Cancel, ExchangeInv, Typed, ReqInv, Phases
<1>7. ASSUME NEW r \in Requests, Decide(r) PROVE ExchangeInv'
  <2>1. /\ phase[r] = "responded"
        /\ size' = size
    BY <1>7 DEF Decide
  <2>2. ReqInv(r)
    BY <1>1
  <2>3. CASE ~Retryable(r)
    BY <1>1, <1>7, <2>1, <2>2, <2>3, ExchangeAssumption
    DEF Decide, ExchangeInv, Typed, ReqInv, Phases
  <2>4. CASE Retryable(r) /\ balance >= WithdrawAmount
    <3>1. size[r] <= MaxBufferedBytes
      BY <1>1, <2>4, RetryableFits, ExchangeAssumption DEF Typed
    <3>2. QED
      BY <1>1, <1>7, <2>1, <2>2, <2>4, <3>1 DEF Decide, ExchangeInv, Typed, ReqInv, Phases
  <2>5. CASE Retryable(r) /\ ~(balance >= WithdrawAmount)
    BY <1>1, <1>7, <2>1, <2>2, <2>5 DEF Decide, ExchangeInv, Typed, ReqInv, Phases
  <2>6. QED
    BY <2>3, <2>4, <2>5
<1>8. CASE UNCHANGED vars
  BY <1>1, <1>8 DEF vars, ExchangeInv, Typed, ReqInv
<1>9. QED
  BY <1>2, <1>3, <1>4, <1>5, <1>6, <1>7, <1>8 DEF Next

\* ExchangeInv gives the budget ledger of every request.
LEMMA InvLedger == ExchangeInv => BudgetLedger
<1> SUFFICES ASSUME ExchangeInv, NEW r \in Requests
             PROVE  /\ withdrawals[r] = Retries[r]
                    /\ deposits[r] <= 1
                    /\ deposits[r] = 1 => phase[r] = "done"
  BY DEF BudgetLedger
<1>1. /\ attempts[r] \in Nat
      /\ ReqInv(r)
  BY DEF ExchangeInv, Typed
<1>2. Retries[r] = IF attempts[r] = 0 THEN 0 ELSE attempts[r] - 1
  BY DEF Retries
<1>3. QED
  BY <1>1, <1>2 DEF ReqInv

-----------------------------------------------------------------------------

\* However many requests share the route's budget, each has withdrawn one
\* token per retry it made, and deposited at most once and only after its
\* final decision (retry.rs retry(): deposit on the no-retry path, withdraw
\* before a retry; a cancelled or bypassed exchange touches neither).
THEOREM LedgerCorrect == Spec => []BudgetLedger
<1>1. Spec => []ExchangeInv
  BY ExchangeInit, ExchangeStep, PTL DEF Spec
<1>2. QED
  BY <1>1, InvLedger, PTL

\* For every ceiling MAX_BUFFERED_BYTES and every body, a request is
\* retried only if its body fits the replay buffer, even when the response
\* came while the body was still streaming (retry.rs, is_capped()).
THEOREM ReplayableCorrect == Spec => []RetriedOnlyReplayable
<1>1. Spec => []ExchangeInv
  BY ExchangeInit, ExchangeStep, PTL DEF Spec
<1>2. ExchangeInv => RetriedOnlyReplayable
  BY DEF ExchangeInv, ReqInv, RetriedOnlyReplayable
<1>3. QED
  BY <1>1, <1>2, PTL

-----------------------------------------------------------------------------
(* The retry contract.                                                     *)

\* The contract's stage of each request, under the refinement mapping.
StageBar == [q \in Requests |-> StageOf(phase[q])]

\* A step that moves one request to phase p moves its stage to StageOf(p)
\* and leaves every other stage alone.
LEMMA StageUpdate ==
  ASSUME NEW f \in [Requests -> Phases], NEW r \in Requests, NEW p
  PROVE  [q \in Requests |-> StageOf([f EXCEPT ![r] = p][q])]
           = [[q \in Requests |-> StageOf(f[q])] EXCEPT ![r] = StageOf(p)]
OBVIOUS

\* The contract starts with every request idle and the budget full.
LEMMA RefineInit == Init => Contract!Init
BY DEF Init, Contract!Init, StageOf

\* Each step of the retry layer is a step of the contract or leaves the
\* contract's view unchanged.
LEMMA RefineStep == ResultInv /\ [Next]_vars => [Contract!Next]_Contract!vars
<1> SUFFICES ASSUME ResultInv, [Next]_vars PROVE [Contract!Next]_Contract!vars
  OBVIOUS
<1> USE DEF Contract!vars
<1>1. /\ phase \in [Requests -> Phases]
      /\ size \in [Requests -> BodySizes]
      /\ balance \in Nat
  BY DEF ResultInv, TypeOK
<1>2. ASSUME NEW r \in Requests, PrepareRequest(r) PROVE Contract!Dispatch(r)
  <2> DEFINE p == IF TryNewFails(r) THEN "bypass" ELSE "sending"
  <2>1. StageBar' = [StageBar EXCEPT ![r] = StageOf(p)]
    BY <1>1, <1>2, StageUpdate DEF PrepareRequest, StageBar
  <2>2. StageOf(p) \in {"inflight"} \cup
          (IF size[r] > MaxBufferedBytes THEN {"bypass"} ELSE {})
    BY DEF TryNewFails, StageOf
  <2>3. StageBar[r] = "idle"
    BY <1>1, <1>2 DEF PrepareRequest, StageBar, StageOf
  <2>4. QED
    BY <1>2, <2>1, <2>2, <2>3 DEF PrepareRequest, Contract!Dispatch, StageBar
<1>3. ASSUME NEW r \in Requests, StreamBody(r) PROVE UNCHANGED Contract!vars
  BY <1>3 DEF StreamBody
<1>4. ASSUME NEW r \in Requests, NEW res \in Results, Respond(r, res)
      PROVE  Contract!Answer(r, res)
  <2>1. PICK e \in BOOLEAN :
          phase' = [phase EXCEPT ![r] =
                      IF ~res.err /\ Peek!MapResponseResult(res.version, e) = Peek!Reading
                        THEN "reading" ELSE "responded"]
    BY <1>4 DEF Respond
  <2>2. StageBar' = [StageBar EXCEPT ![r] = "answered"]
    BY <1>1, <2>1, StageUpdate DEF StageBar, StageOf
  <2>3. StageBar[r] = "inflight"
    BY <1>1, <1>4 DEF Respond, StageBar, StageOf
  <2>4. QED
    BY <1>4, <2>2, <2>3 DEF Respond, Contract!Answer, StageBar
<1>5. ASSUME NEW r \in Requests, NEW ready \in BOOLEAN, ReadFirstFrame(r, ready)
      PROVE  UNCHANGED Contract!vars
  <2>1. StageBar' = [StageBar EXCEPT ![r] = "answered"]
    BY <1>1, <1>5, StageUpdate DEF ReadFirstFrame, StageBar, StageOf
  <2>2. StageBar[r] = "answered"
    BY <1>1, <1>5 DEF ReadFirstFrame, StageBar, StageOf
  <2>3. StageBar' = StageBar
    BY <2>1, <2>2 DEF StageBar
  <2>4. QED
    BY <1>5, <2>3 DEF ReadFirstFrame, StageBar
<1>6. ASSUME NEW r \in Requests, Cancel(r) PROVE Contract!Abandon(r)
  <2>1. StageBar' = [StageBar EXCEPT ![r] = "cancelled"]
    BY <1>1, <1>6, StageUpdate DEF Cancel, StageBar, StageOf
  <2>2. StageBar[r] \in {"inflight", "answered"}
    BY <1>1, <1>6 DEF Cancel, StageBar, StageOf
  <2>3. QED
    BY <1>6, <2>1, <2>2 DEF Cancel, Contract!Abandon, StageBar
<1>7. ASSUME NEW r \in Requests, Decide(r)
      PROVE  Contract!Retry(r) \/ Contract!Settle(r) \/ Contract!Exhausted(r)
  <2>1. /\ phase[r] = "responded"
        /\ UNCHANGED <<size, sizeKnown>>
    BY <1>7 DEF Decide
  <2>2. StageBar[r] = "answered"
    BY <1>1, <2>1 DEF StageBar, StageOf
  <2>3. CASE ~Retryable(r)
    <3>1. /\ balance' = balance + DepositAmount
          /\ deposits' = [deposits EXCEPT ![r] = @ + 1]
          /\ phase' = [phase EXCEPT ![r] = "done"]
          /\ UNCHANGED <<attempts, result>>
      BY <1>7, <2>3 DEF Decide
    <3>2. StageBar' = [StageBar EXCEPT ![r] = "done"]
      BY <1>1, <3>1, StageUpdate DEF StageBar, StageOf
    <3>3. Contract!Settle(r)
      BY <2>1, <2>2, <3>1, <3>2 DEF Contract!Settle, StageBar
    <3>4. QED
      BY <3>3
  <2>4. CASE Retryable(r) /\ balance >= WithdrawAmount
    <3>1. /\ balance' = balance - WithdrawAmount
          /\ attempts' = [attempts EXCEPT ![r] = @ + 1]
          /\ result' = [result EXCEPT ![r] = NoResult]
          /\ phase' = [phase EXCEPT ![r] = "sending"]
          /\ UNCHANGED deposits
      BY <1>7, <2>4 DEF Decide
    <3>2. StageBar' = [StageBar EXCEPT ![r] = "inflight"]
      BY <1>1, <3>1, StageUpdate DEF StageBar, StageOf
    <3>3. ActualFailure(result[r])
      BY <2>4, RetryableIsFailure
    <3>4. size[r] <= MaxBufferedBytes
      BY <1>1, <2>4, RetryableFits, ExchangeAssumption
    <3>5. Contract!Retry(r)
      BY <2>1, <2>2, <2>4, <3>1, <3>2, <3>3, <3>4 DEF Contract!Retry, StageBar
    <3>6. QED
      BY <3>5
  <2>5. CASE Retryable(r) /\ ~(balance >= WithdrawAmount)
    <3>1. /\ phase' = [phase EXCEPT ![r] = "done"]
          /\ UNCHANGED <<attempts, result, balance, deposits>>
      BY <1>7, <2>5 DEF Decide
    <3>2. StageBar' = [StageBar EXCEPT ![r] = "done"]
      BY <1>1, <3>1, StageUpdate DEF StageBar, StageOf
    <3>3. ActualFailure(result[r])
      BY <2>5, RetryableIsFailure
    <3>4. balance < WithdrawAmount
      BY <1>1, <2>5, ExchangeAssumption
    <3>5. Contract!Exhausted(r)
      BY <2>1, <2>2, <3>1, <3>2, <3>3, <3>4 DEF Contract!Exhausted, StageBar
    <3>6. QED
      BY <3>5
  <2>6. QED
    BY <2>3, <2>4, <2>5
<1>8. CASE UNCHANGED vars
  BY <1>8 DEF vars
<1>9. QED
  BY <1>2, <1>3, <1>4, <1>5, <1>6, <1>7, <1>8 DEF Next, Contract!Next

\* For any number of requests, budget, ceiling and classifier verdicts, the
\* retry layer implements the retry contract of spec sections 4.2 and 5: a
\* retry only for a real failure of a body that fits the replay buffer,
\* paid for by a withdrawn token; one deposit when there is no retry; none
\* when the budget refuses; and no budget effect before the decision, so
\* a dropped exchange leaves the shared budget alone.
THEOREM ContractRefinement == Spec => RetryContractSpec
<1>1. Spec => []ResultInv
  BY ResultInit, ResultStep, PTL DEF Spec
<1>2. QED
  BY <1>1, RefineInit, RefineStep, PTL DEF Spec, RetryContractSpec, Contract!Spec
=============================================================================
