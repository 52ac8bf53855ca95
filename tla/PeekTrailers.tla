-------------------------- MODULE PeekTrailers ------------------------------
(***************************************************************************)
(* The data and the pure operators of PeekTrailersBody<B>                  *)
(* (linkerd/http/retry/src/peek_trailers.rs): frames, the states of enum   *)
(* Inner, and what map_response, read_body, peek_trailers, is_end_stream   *)
(* and size_hint compute from them.  read_body reads the inner body's      *)
(* first frame (the one await of map_response's future), then checks       *)
(* WITHOUT suspending whether a second frame is ready (now_or_never), so   *)
(* that a TRAILERS frame that follows at most one DATA frame can be peeked *)
(* by the retry policy.                                                    *)
(*                                                                         *)
(* An inner body is a script: the sequence of frames it will yield.        *)
(* Frames are records [kind, val]: a DATA frame carries its byte length, a *)
(* TRAILERS frame a grpc-status code standing for its header map, an error *)
(* (the Err of a Result<Frame, B::Error>) and an unknown frame carry 0.    *)
(***************************************************************************)
EXTENDS Naturals, Sequences

CONSTANTS
  DataSizes,      \* byte lengths a DATA frame may carry
  TrailerValues,  \* distinguishable TRAILERS header maps (grpc-status codes)
  FrameKinds,     \* the frame kinds inner bodies may yield
  Versions,       \* HTTP versions a response may have
  MaxFrames       \* length of the longest inner body considered

\* HTTP versions that have no trailers (map_response's first early return).
TrailerlessVersions == {"HTTP/0.9", "HTTP/1.0", "HTTP/1.1"}

ASSUME ConstantsAssumption ==
  /\ DataSizes \subseteq Nat
  /\ TrailerValues \subseteq Nat
  /\ FrameKinds \subseteq {"data", "trailers", "error", "unknown"}
  /\ Versions \subseteq TrailerlessVersions \cup {"HTTP/2.0"}
  /\ MaxFrames \in Nat

-----------------------------------------------------------------------------
(* Frames and inner bodies.                                                *)

Frame ==
  {f \in [kind : {"data"}, val : DataSizes]
           \cup [kind : {"trailers"}, val : TrailerValues]
           \cup [kind : {"error", "unknown"}, val : {0}] : f.kind \in FrameKinds}

\* The absent Option<Result<..>>, and the end of the inner stream.
NoFrame == [kind |-> "none", val |-> 0]

OptFrame == Frame \cup {NoFrame}

\* A TRAILERS frame or an error ends a body: nothing follows it.
Terminal(f) == f.kind \in {"trailers", "error"}

\* A terminal frame can only be the last one of a body.
TerminalLast(s) == \A i \in 1..Len(s) : Terminal(s[i]) => i = Len(s)

BodyScripts ==
  {s \in UNION {[1..n -> Frame] : n \in 0..MaxFrames} : TerminalLast(s)}

\* Polling a body: the frame it yields, or NoFrame at end of stream.
NextFrame(s) == IF s = <<>> THEN NoFrame ELSE Head(s)
Rest(s) == IF s = <<>> THEN <<>> ELSE Tail(s)

\* The states of enum Inner, plus the two phases before map_response's
\* future has produced one.
Unmapped == [tag |-> "Unmapped"]
Reading  == [tag |-> "Reading"]
Empty    == [tag |-> "Empty"]
Passthru == [tag |-> "Passthru"]
Unary(d, t) == [tag |-> "Unary", data |-> d, trailers |-> t]
Buffered(f, s) == [tag |-> "Buffered", first |-> f, second |-> s]

BodyState ==
  [tag : {"Unmapped", "Reading", "Empty", "Passthru"}]
    \cup [tag : {"Unary"}, data : OptFrame, trailers : OptFrame]
    \cup [tag : {"Buffered"}, first : OptFrame, second : OptFrame]

\* map_response(rsp): a trailerless version is wrapped as Passthru and a
\* body that reports end of stream as Empty, both at once; otherwise the
\* future that reads the body is returned.
MapResponseResult(v, endStream) ==
  IF v \in TrailerlessVersions THEN Passthru
  ELSE IF endStream THEN Empty
  ELSE Reading

\* The states in which the inner body is still owned by the wrapper.
HoldsInner(b) == b.tag \in {"Unmapped", "Reading", "Buffered", "Passthru"}

-----------------------------------------------------------------------------
(* The operations of the adapter, as operators on its state.               *)

\* peek_trailers(): the trailers of a Unary body whose trailers slot holds
\* a successfully read TRAILERS frame, and nothing otherwise.
PeekTrailers(b) ==
  IF b.tag = "Unary" /\ b.trailers.kind = "trailers" THEN b.trailers ELSE NoFrame

\* Mutant of ReadBodyResult: the fast path is missing, a ready TRAILERS
\* frame after DATA is left unread as if it were not ready.
ReadBodyResultNoFastPath(in, ready) ==
  LET first == NextFrame(in)
      second == NextFrame(Rest(in))
  IN IF first.kind = "none" THEN [body |-> Empty, inner |-> in]
     ELSE IF first.kind = "error" THEN [body |-> Unary(first, NoFrame), inner |-> Rest(in)]
     ELSE IF first.kind = "trailers" THEN [body |-> Unary(NoFrame, first), inner |-> Rest(in)]
     ELSE IF first.kind = "unknown" THEN [body |-> Buffered(NoFrame, NoFrame), inner |-> Rest(in)]
     ELSE IF ~ready \/ second.kind = "trailers"
          THEN [body |-> Buffered(first, NoFrame), inner |-> Rest(in)]
     ELSE IF second.kind = "none" THEN [body |-> Unary(first, NoFrame), inner |-> Rest(in)]
     ELSE IF second.kind = "data" THEN [body |-> Buffered(first, second), inner |-> Rest(Rest(in))]
     ELSE [body |-> Buffered(first, NoFrame), inner |-> Rest(Rest(in))]

\* read_body(inner): the Inner state chosen from the first frame and, when
\* that is DATA, from the second frame if it is ready now; with the frames
\* the inner body still has to yield.  An unknown frame is split_frame's None.
ReadBodyResult(in, ready) ==
  LET first  == NextFrame(in)
      second == NextFrame(Rest(in))
      after1 == Rest(in)
      after2 == Rest(Rest(in))
  IN IF first.kind = "none" THEN [body |-> Empty, inner |-> in]
     ELSE IF first.kind = "error" THEN [body |-> Unary(first, NoFrame), inner |-> after1]
     ELSE IF first.kind = "trailers" THEN [body |-> Unary(NoFrame, first), inner |-> after1]
     ELSE IF first.kind = "unknown" THEN [body |-> Buffered(NoFrame, NoFrame), inner |-> after1]
     ELSE IF ~ready THEN [body |-> Buffered(first, NoFrame), inner |-> after1]
     ELSE IF second.kind = "none" THEN [body |-> Unary(first, NoFrame), inner |-> after1]
     ELSE IF second.kind = "data" THEN [body |-> Buffered(first, second), inner |-> after2]
     ELSE IF second.kind = "unknown" THEN [body |-> Buffered(first, NoFrame), inner |-> after2]
     ELSE [body |-> Unary(first, second), inner |-> after2]

\* Mutant of IsEndStream: Buffered asks the inner body only, forgetting
\* the frames it holds.
IsEndStreamInnerOnly(b, in) ==
  CASE b.tag = "Empty"    -> TRUE
    [] b.tag \in {"Passthru", "Buffered"} -> in = <<>>
    [] b.tag = "Unary"    -> b.data = NoFrame /\ b.trailers = NoFrame
    [] OTHER              -> FALSE

\* is_end_stream(); the inner body's own answer is exact here.
IsEndStream(b, in) ==
  CASE b.tag = "Empty"    -> TRUE
    [] b.tag = "Passthru" -> in = <<>>
    [] b.tag = "Unary"    -> b.data = NoFrame /\ b.trailers = NoFrame
    [] b.tag = "Buffered" -> b.first = NoFrame /\ b.second = NoFrame /\ in = <<>>
    [] OTHER              -> FALSE

\* The DATA bytes in a sequence of frames.
Bytes(s) ==
  LET acc[i \in 0..Len(s)] ==
        IF i = 0 THEN 0
        ELSE acc[i - 1] + (IF s[i].kind = "data" THEN s[i].val ELSE 0)
  IN acc[Len(s)]

\* A SizeHint: lower bound, and upper bound when bounded.  A hint whose
\* setter tripped one of http_body's assertions is "panicked": size_hint()
\* never returns.
Hint(lo, hi, bounded) ==
  [lower |-> lo, upper |-> hi, bounded |-> bounded, panicked |-> FALSE]
Panicked == [Hint(0, 0, FALSE) EXCEPT !.panicked = TRUE]
NewHint == Hint(0, 0, FALSE)
ExactHint(n) == Hint(n, n, TRUE)

InnerSizeHint(in, kind) == IF kind = "exact" THEN ExactHint(Bytes(in)) ELSE NewHint

\* http_body's setters: set_upper asserts value >= lower, set_lower asserts
\* value <= upper (when there is an upper bound).
SetUpper(h, v) ==
  IF h.panicked \/ v < h.lower THEN Panicked ELSE [h EXCEPT !.upper = v, !.bounded = TRUE]
SetLower(h, v) ==
  IF h.panicked \/ (h.bounded /\ v > h.upper) THEN Panicked ELSE [h EXCEPT !.lower = v]

\* Mutant of AddToHint: the lower bound is raised before the upper one.
AddToHintLowerFirst(h, f) ==
  LET lo == SetLower(h, h.lower + f.val) IN
  IF f.kind # "data" THEN h
  ELSE IF h.bounded THEN SetUpper(lo, h.upper + f.val) ELSE lo

\* add_to_hint: a held DATA frame adds its length to the upper bound, if
\* any, and then to the lower bound.
AddToHint(h, f) ==
  LET up == IF h.bounded THEN SetUpper(h, h.upper + f.val) ELSE h IN
  IF f.kind = "data" THEN SetLower(up, up.lower + f.val) ELSE h

\* Mutant of SizeHint: the second held frame is not added to the hint.
SizeHintFirstOnly(b, in, kind) ==
  CASE b.tag = "Passthru" -> InnerSizeHint(in, kind)
    [] b.tag = "Unary" /\ b.data.kind = "data" -> ExactHint(b.data.val)
    [] b.tag = "Buffered" -> AddToHint(InnerSizeHint(in, kind), b.first)
    [] OTHER -> NewHint

\* size_hint().
SizeHint(b, in, kind) ==
  CASE b.tag = "Passthru" -> InnerSizeHint(in, kind)
    [] b.tag = "Unary" /\ b.data.kind = "data" -> ExactHint(b.data.val)
    [] b.tag = "Buffered" ->
         AddToHint(AddToHint(InnerSizeHint(in, kind), b.first), b.second)
    [] OTHER -> NewHint

=============================================================================
