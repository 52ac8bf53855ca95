-------------------------- MODULE PeekTrailersBody --------------------------
(***************************************************************************)
(* One response wrapped by PeekTrailersBody (peek_trailers.rs) and read to *)
(* the end by a consumer: map_response, the read_body future resolving,   *)
(* then poll_frame until end of stream or an error.  The operators of the  *)
(* adapter are those of module PeekTrailers.                               *)
(***************************************************************************)
EXTENDS PeekTrailers

VARIABLES
  version,      \* the response's HTTP version
  script,       \* every frame the inner body yields, in order (history)
  inner,        \* the frames the inner body has not yielded yet
  innerHint,    \* "exact": the inner size_hint is exact; "unknown": (0, None)
  body,         \* the adapter: Inner<B> once map_response has resolved
  secondReady,  \* whether now_or_never found the second frame ready
  delivered,    \* the frames poll_frame has yielded to the consumer
  done          \* the consumer has seen end of stream or an error

vars == <<version, script, inner, innerHint, body, secondReady, delivered, done>>

-----------------------------------------------------------------------------
(* The specification.                                                      *)

Init ==
  /\ version \in Versions
  /\ script \in BodyScripts
  /\ inner = script
  /\ innerHint \in {"exact", "unknown"}
  /\ body = Unmapped
  /\ secondReady = FALSE
  /\ delivered = <<>>
  /\ done = FALSE

\* map_response(rsp).  A body with no frames left may still answer
\* is_end_stream() with false.
MapResponse ==
  /\ body = Unmapped
  /\ \E endStream \in IF inner = <<>> THEN BOOLEAN ELSE {FALSE} :
       body' = MapResponseResult(version, endStream)
  /\ UNCHANGED <<version, script, inner, innerHint, secondReady, delivered, done>>

\* The future of map_response resolves: read_body(body).await.
ReadBody(ready) ==
  /\ body = Reading
  /\ body' = ReadBodyResult(inner, ready).body
  /\ inner' = ReadBodyResult(inner, ready).inner
  /\ secondReady' = ready
  /\ UNCHANGED <<version, script, innerHint, delivered, done>>

\* Mutant of PollResult: Buffered yields its second frame before its first.
PollResultSecondFirst(b, in) ==
  IF b.tag = "Empty" THEN [frame |-> NoFrame, body |-> b, inner |-> in]
  ELSE IF b.tag = "Passthru" THEN [frame |-> NextFrame(in), body |-> b, inner |-> Rest(in)]
  ELSE IF b.tag = "Unary" /\ b.data # NoFrame
       THEN [frame |-> b.data, body |-> Unary(NoFrame, b.trailers), inner |-> in]
  ELSE IF b.tag = "Unary"
       THEN [frame |-> b.trailers, body |-> Unary(NoFrame, NoFrame), inner |-> in]
  ELSE IF b.second # NoFrame
       THEN [frame |-> b.second, body |-> Buffered(b.first, NoFrame), inner |-> in]
  ELSE IF b.first # NoFrame
       THEN [frame |-> b.first, body |-> Buffered(NoFrame, NoFrame), inner |-> in]
  ELSE [frame |-> NextFrame(in), body |-> b, inner |-> Rest(in)]

\* poll_frame() returning Ready: the frame the adapter yields next, and the
\* adapter and inner body after it.  An inner poll that is Pending changes
\* nothing and is a stuttering step.
PollResult(b, in) ==
  IF b.tag = "Empty" THEN [frame |-> NoFrame, body |-> b, inner |-> in]
  ELSE IF b.tag = "Passthru" THEN [frame |-> NextFrame(in), body |-> b, inner |-> Rest(in)]
  ELSE IF b.tag = "Unary" /\ b.data # NoFrame
       THEN [frame |-> b.data, body |-> Unary(NoFrame, b.trailers), inner |-> in]
  ELSE IF b.tag = "Unary"
       THEN [frame |-> b.trailers, body |-> Unary(NoFrame, NoFrame), inner |-> in]
  ELSE IF b.first # NoFrame
       THEN [frame |-> b.first, body |-> Buffered(NoFrame, b.second), inner |-> in]
  ELSE IF b.second # NoFrame
       THEN [frame |-> b.second, body |-> Buffered(NoFrame, NoFrame), inner |-> in]
  ELSE [frame |-> NextFrame(in), body |-> b, inner |-> Rest(in)]

\* Mutant of PollFrame: the end of the stream is appended as if a frame.
PollFrameKeepsEnd ==
  /\ body.tag \in {"Empty", "Passthru", "Unary", "Buffered"}
  /\ ~done
  /\ LET r == PollResult(body, inner) IN
       /\ body' = r.body
       /\ inner' = r.inner
       /\ delivered' = Append(delivered, r.frame)
       /\ done' = (r.frame.kind \in {"none", "error"})
  /\ UNCHANGED <<version, script, innerHint, secondReady>>

\* Mutant of PollFrame: once the held frames are out, the Buffered state
\* returns Pending instead of polling the inner body again.
PollFrameStallsBuffered ==
  /\ body.tag \in {"Empty", "Passthru", "Unary", "Buffered"}
  /\ ~(body.tag = "Buffered" /\ body.first = NoFrame /\ body.second = NoFrame)
  /\ ~done
  /\ LET r == PollResult(body, inner) IN
       /\ body' = r.body
       /\ inner' = r.inner
       /\ IF r.frame = NoFrame
            THEN delivered' = delivered /\ done' = TRUE
            ELSE delivered' = Append(delivered, r.frame) /\ done' = (r.frame.kind = "error")
  /\ UNCHANGED <<version, script, innerHint, secondReady>>

\* The consumer polls the wrapped body once; it stops at end of stream
\* and at an error.
PollFrame ==
  /\ body.tag \in {"Empty", "Passthru", "Unary", "Buffered"}
  /\ ~done
  /\ LET r == PollResult(body, inner) IN
       /\ body' = r.body
       /\ inner' = r.inner
       /\ IF r.frame = NoFrame
            THEN delivered' = delivered /\ done' = TRUE
            ELSE delivered' = Append(delivered, r.frame) /\ done' = (r.frame.kind = "error")
  /\ UNCHANGED <<version, script, innerHint, secondReady>>

Next ==
  \/ MapResponse
  \/ \E ready \in BOOLEAN : ReadBody(ready)
  \/ PollFrame

Spec == Init /\ [][Next]_vars

\* The scheduling the code relies on: the retry layer polls the future of
\* map_response until it resolves, and the consumer (hyper, or collect())
\* polls the body until end of stream.  An inner body that is Pending is
\* woken when its next frame arrives, which the model takes as given.
Fairness ==
  /\ WF_vars(MapResponse)
  /\ WF_vars(\E ready \in BOOLEAN : ReadBody(ready))
  /\ WF_vars(PollFrame)

FairSpec == Spec /\ Fairness

\* The contract of a body: the frames of the inner body, in order, then
\* the end.  The adapter's state is hidden; the history of the inner body,
\* what the consumer received and whether it stopped are shared.
FS == INSTANCE FrameStream WITH Scripts <- BodyScripts

-----------------------------------------------------------------------------
(* Properties.                                                             *)

\* Type invariant: the adapter is always a state of enum Inner and every
\* body a sequence of frames, whatever map_response, read_body and
\* poll_frame do.
TypeOK ==
  /\ version \in Versions
  /\ script \in Seq(Frame)
  /\ inner \in Seq(Frame)
  /\ innerHint \in {"exact", "unknown"}
  /\ body \in BodyState
  /\ secondReady \in BOOLEAN
  /\ delivered \in Seq(Frame)
  /\ done \in BOOLEAN

\* The frames the wrapper will still yield: what it holds, then the inner
\* body's remaining frames when it still owns the inner body.
Opt(f) == IF f = NoFrame THEN <<>> ELSE <<f>>

Held(b) ==
  IF b.tag = "Unary" THEN Opt(b.data) \o Opt(b.trailers)
  ELSE IF b.tag = "Buffered" THEN Opt(b.first) \o Opt(b.second)
  ELSE <<>>

PendingOf(b, in) == Held(b) \o (IF HoldsInner(b) THEN in ELSE <<>>)

Pending == PendingOf(body, inner)

Mapped == body.tag \in {"Empty", "Passthru", "Unary", "Buffered"}

\* What the retry classifier may see: the trailers are peeked exactly when
\* the response has a version with trailers and its TRAILERS frame is the
\* body's first frame, or follows a single DATA frame that was already
\* available when read_body looked for it (spec section 3, the tests of
\* peek_trailers.rs).  Peeking never reports trailers the body lacks.
ExpectedPeek ==
  IF /\ version \notin TrailerlessVersions
     /\ \/ Len(script) = 1 /\ script[1].kind = "trailers"
        \/ /\ Len(script) = 2 /\ secondReady
           /\ script[1].kind = "data" /\ script[2].kind = "trailers"
  THEN script[Len(script)]
  ELSE NoFrame

\* peek_trailers() on a mapped, not yet read response returns exactly the
\* expected trailers: no false positive, and the fast path of read_body
\* (DATA then an immediately ready TRAILERS frame) is never missed.
PeekExact == Mapped /\ delivered = <<>> => PeekTrailers(body) = ExpectedPeek

\* The consumer of a wrapped body receives exactly the inner body's frames,
\* in order: never a frame out of order, none lost, none invented, and at
\* end of stream all of them (spec section 5, "Ordering guarantees").
FramesPreserved ==
  /\ Len(delivered) <= Len(script)
  /\ \A i \in 1..Len(delivered) : delivered[i] = script[i]
  /\ done => delivered = script

\* When is_end_stream() of the wrapper says true, no frame is left to be
\* yielded: a consumer that stops on it loses nothing.
IsEndStreamSound == Mapped /\ IsEndStream(body, inner) => Pending = <<>>

\* size_hint() of the wrapper bounds the DATA bytes it will still yield:
\* held frames are added to the inner body's hint in the Buffered state.
SizeHintSound ==
  Mapped =>
    LET h == SizeHint(body, inner, innerHint) IN
      /\ h.lower <= Bytes(Pending)
      /\ h.bounded => Bytes(Pending) <= h.upper

\* PeekTrailersBody implements a plain body: every step of map_response
\* and read_body is invisible to the consumer, and every poll_frame yields
\* the inner body's next frame or, once all are out, the end of stream.
FrameStreamSpec == FS!Spec

\* Under the polling the code relies on, the wrapped body is drained: the
\* adapter never leaves the consumer waiting while a held frame or an
\* inner frame is left, and it reports the end once all are out.
FrameStreamFairSpec == FS!FairSpec

\* size_hint() of the Buffered state never trips an assertion of the
\* SizeHint setters: adding the held frames keeps lower <= upper at every
\* step, so an exact inner hint stays exact and no panic reaches the
\* connection task.
SizeHintNoPanic == Mapped => ~SizeHint(body, inner, innerHint).panicked

\* The strengthening of FramesPreserved that a step preserves: what was
\* delivered followed by what is pending is always the whole inner body,
\* and nothing is pending once the consumer has stopped.
FramesInv ==
  /\ TypeOK
  /\ TerminalLast(script)
  /\ delivered \o Pending = script
  /\ done => Pending = <<>>
=============================================================================
