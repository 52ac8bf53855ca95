----------------------------- MODULE FrameStream -----------------------------
(***************************************************************************)
(* What a response body promises its consumer, whatever wraps it: the     *)
(* frames of the source body come out one at a time and in order, and the  *)
(* stream ends (end of stream, or right after an error frame) only once    *)
(* every frame has come out.  This is the contract of http_body::Body that *)
(* spec section 5 asks PeekTrailersBody to keep; module PeekTrailersBody   *)
(* is shown to implement it.                                               *)
(***************************************************************************)
EXTENDS Naturals, Sequences

CONSTANT Scripts   \* the frame sequences a source body may yield

VARIABLES
  script,     \* the source body's frames
  delivered,  \* the frames the consumer has received
  done        \* the consumer has seen end of stream or an error

vars == <<script, delivered, done>>

Init ==
  /\ script \in Scripts
  /\ delivered = <<>>
  /\ done = FALSE

\* The next frame of the source reaches the consumer; an error frame ends
\* the stream.
Deliver ==
  /\ ~done
  /\ Len(delivered) < Len(script)
  /\ delivered' = Append(delivered, script[Len(delivered) + 1])
  /\ done' = (script[Len(delivered) + 1].kind = "error")
  /\ UNCHANGED script

\* Every frame is out: the consumer sees end of stream.
Finish ==
  /\ ~done
  /\ delivered = script
  /\ done' = TRUE
  /\ UNCHANGED <<script, delivered>>

Next == Deliver \/ Finish

Spec == Init /\ [][Next]_vars

\* A consumer that keeps polling gets every frame and then the end.
FairSpec == Spec /\ WF_vars(Deliver) /\ WF_vars(Finish)
=============================================================================
