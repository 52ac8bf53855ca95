----------------------- MODULE PeekTrailersBodyProofs -----------------------
(***************************************************************************)
(* Proofs about PeekTrailersBody, for every value of the constants.        *)
(***************************************************************************)
EXTENDS PeekTrailersBody, PeekTrailersLemmas

-----------------------------------------------------------------------------
(* Lemmas about the operators of the adapter.                              *)

\* Polling a sequence of frames yields a frame or the end, and leaves a
\* sequence of frames.
LEMMA NextRestType ==
  ASSUME NEW s \in Seq(Frame)
  PROVE  /\ NextFrame(s) \in OptFrame
         /\ Rest(s) \in Seq(Frame)
BY HeadTailProperties DEF NextFrame, Rest, OptFrame

\* The states without data of enum Inner, and the end of the stream.
LEMMA ConstantStatesType ==
  /\ Unmapped \in BodyState
  /\ Reading \in BodyState
  /\ Empty \in BodyState
  /\ Passthru \in BodyState
  /\ NoFrame \in OptFrame
BY DEF Unmapped, Reading, Empty, Passthru, BodyState, OptFrame

\* The states read_body and poll_frame build are states of enum Inner.
LEMMA ConstructorsType ==
  ASSUME NEW x \in OptFrame, NEW y \in OptFrame
  PROVE  /\ Unary(x, y) \in BodyState
         /\ Buffered(x, y) \in BodyState
BY DEF Unary, Buffered, BodyState

\* read_body produces an Inner state and leaves a sequence of frames.
LEMMA ReadBodyType ==
  ASSUME NEW s \in Seq(Frame), NEW ready \in BOOLEAN
  PROVE  /\ ReadBodyResult(s, ready).body \in BodyState
         /\ ReadBodyResult(s, ready).inner \in Seq(Frame)
<1> DEFINE first == NextFrame(s)
           second == NextFrame(Rest(s))
<1>1. /\ first \in OptFrame
      /\ second \in OptFrame
      /\ Rest(s) \in Seq(Frame)
      /\ Rest(Rest(s)) \in Seq(Frame)
  BY NextRestType
<1>2. QED
  BY <1>1, ConstantStatesType, ConstructorsType DEF ReadBodyResult

\* map_response produces one of its three immediate states.
LEMMA MapResponseType ==
  ASSUME NEW v, NEW e \in BOOLEAN
  PROVE  MapResponseResult(v, e) \in BodyState
BY ConstantStatesType DEF MapResponseResult

\* poll_frame on a mapped body yields a frame or the end, an Inner state
\* and a sequence of frames.
LEMMA PollType ==
  ASSUME NEW b \in BodyState, NEW s \in Seq(Frame),
         b.tag \in {"Empty", "Passthru", "Unary", "Buffered"}
  PROVE  /\ PollResult(b, s).frame \in OptFrame
         /\ PollResult(b, s).body \in BodyState
         /\ PollResult(b, s).inner \in Seq(Frame)
<1>1. /\ NextFrame(s) \in OptFrame
      /\ Rest(s) \in Seq(Frame)
  BY NextRestType
<1>2. CASE b.tag = "Unary"
  <2>1. b \in [tag : {"Unary"}, data : OptFrame, trailers : OptFrame]
    BY <1>2 DEF BodyState
  <2>2. QED
    BY <1>2, <2>1, ConstantStatesType, ConstructorsType DEF PollResult
<1>3. CASE b.tag = "Buffered"
  <2>1. b \in [tag : {"Buffered"}, first : OptFrame, second : OptFrame]
    BY <1>3 DEF BodyState
  <2>2. QED
    BY <1>3, <2>1, <1>1, ConstantStatesType, ConstructorsType DEF PollResult
<1>4. CASE b.tag \in {"Empty", "Passthru"}
  BY <1>4, <1>1, ConstantStatesType DEF PollResult
<1>5. QED
  BY <1>2, <1>3, <1>4

-----------------------------------------------------------------------------
(* Type correctness.                                                       *)

\* The initial states are typed.
LEMMA TypeInit == Init => TypeOK
BY ScriptsAreSequences, ConstantStatesType, EmptySeq DEF Init, TypeOK

\* map_response, read_body and poll_frame keep every variable in its type.
LEMMA TypeStep == TypeOK /\ [Next]_vars => TypeOK'
<1> SUFFICES ASSUME TypeOK, [Next]_vars PROVE TypeOK'
  OBVIOUS
<1>1. CASE MapResponse
  BY <1>1, MapResponseType DEF MapResponse, TypeOK
<1>2. ASSUME NEW ready \in BOOLEAN, ReadBody(ready) PROVE TypeOK'
  BY <1>2, ReadBodyType DEF ReadBody, TypeOK
<1>3. CASE PollFrame
  <2> DEFINE r == PollResult(body, inner)
  <2>1. /\ r.frame \in OptFrame
        /\ r.body \in BodyState
        /\ r.inner \in Seq(Frame)
    BY <1>3, PollType DEF PollFrame, TypeOK
  <2>2. r.frame # NoFrame => Append(delivered, r.frame) \in Seq(Frame)
    BY <2>1, AppendProperties DEF OptFrame, TypeOK
  <2>3. QED
    BY <1>3, <2>1, <2>2 DEF PollFrame, TypeOK
<1>4. CASE UNCHANGED vars
  BY <1>4 DEF vars, TypeOK
<1>5. QED
  BY <1>1, <1>2, <1>3, <1>4 DEF Next

\* The adapter's state, the inner body and the frames delivered always have
\* their types: every step of map_response, read_body and poll_frame keeps
\* the body in one of the states of enum Inner.
THEOREM TypeCorrect == Spec => []TypeOK
BY TypeInit, TypeStep, PTL DEF Spec

-----------------------------------------------------------------------------
(* Frames are preserved: lemmas about the sequences of frames.             *)

\* Dropping a prefix of a body keeps its terminal frame last.
LEMMA TerminalLastSuffix ==
  ASSUME NEW a \in Seq(Frame), NEW b \in Seq(Frame), TerminalLast(a \o b)
  PROVE  TerminalLast(b)
<1> SUFFICES ASSUME NEW i \in 1..Len(b), Terminal(b[i]) PROVE i = Len(b)
  BY DEF TerminalLast
<1>1. /\ (a \o b)[Len(a) + i] = b[i]
      /\ Len(a \o b) = Len(a) + Len(b)
      /\ Len(a) + i \in 1..Len(a \o b)
  BY ConcatProperties
<1>2. QED
  BY <1>1 DEF TerminalLast

\* The tail of a well-formed body is well formed.
LEMMA TerminalLastTail ==
  ASSUME NEW s \in Seq(Frame), s # <<>>, TerminalLast(s)
  PROVE  TerminalLast(Tail(s))
BY HeadTailProperties DEF TerminalLast

\* What the wrapper will still yield is a sequence of frames.
LEMMA PendingType ==
  ASSUME NEW b \in BodyState, NEW in \in Seq(Frame)
  PROVE  PendingOf(b, in) \in Seq(Frame)
<1>1. \A f \in OptFrame : Opt(f) \in Seq(Frame)
  BY EmptySeq DEF Opt, OptFrame
<1>2. Held(b) \in Seq(Frame)
  BY <1>1, ConcatProperties, EmptySeq DEF Held, BodyState
<1>3. QED
  BY <1>2, ConcatProperties, EmptySeq DEF PendingOf

\* A frame is never the end of the stream.
LEMMA FrameNotEnd == NoFrame \notin Frame
BY DEF Frame, NoFrame

\* The frames each state of enum Inner holds, in the order it yields them.
LEMMA HeldValues ==
  ASSUME NEW x \in Frame, NEW y \in Frame
  PROVE  /\ Held(Unary(x, NoFrame)) = <<x>>
         /\ Held(Unary(NoFrame, x)) = <<x>>
         /\ Held(Unary(x, y)) = <<x, y>>
         /\ Held(Unary(NoFrame, NoFrame)) = <<>>
         /\ Held(Buffered(x, NoFrame)) = <<x>>
         /\ Held(Buffered(NoFrame, x)) = <<x>>
         /\ Held(Buffered(x, y)) = <<x, y>>
         /\ Held(Buffered(NoFrame, NoFrame)) = <<>>
         /\ <<x>> \o <<y>> = <<x, y>>
<1>1. x # NoFrame /\ y # NoFrame
  BY FrameNotEnd
<1>2. /\ Opt(x) = <<x>> /\ Opt(y) = <<y>> /\ Opt(NoFrame) = <<>>
      /\ <<x>> \in Seq(Frame) /\ <<y>> \in Seq(Frame)
  BY <1>1 DEF Opt
<1>3. /\ <<x>> \o <<>> = <<x>>
      /\ <<>> \o <<x>> = <<x>>
      /\ <<>> \o <<>> = <<>>
  BY <1>2, ConcatEmptySeq, EmptySeq
<1>5. <<x>> \o <<y>> = <<x, y>>
  <2>1. /\ <<x, y>> \in Seq(Frame)
        /\ <<x>> \o <<y>> \in Seq(Frame)
        /\ Len(<<x>> \o <<y>>) = 2
        /\ \A i \in 1..2 : (<<x>> \o <<y>>)[i] = <<x, y>>[i]
    BY <1>2, ConcatProperties
  <2>2. QED
    BY <2>1, SeqEqual
<1>4. QED
  BY <1>2, <1>3, <1>5 DEF Held, Unary, Buffered

\* What each state built by read_body has still to yield.
LEMMA PendingValues ==
  ASSUME NEW x \in Frame, NEW y \in Frame, NEW in \in Seq(Frame)
  PROVE  /\ PendingOf(Unary(x, NoFrame), in) = <<x>>
         /\ PendingOf(Unary(NoFrame, x), in) = <<x>>
         /\ PendingOf(Unary(x, y), in) = <<x, y>>
         /\ PendingOf(Buffered(x, NoFrame), in) = <<x>> \o in
         /\ PendingOf(Buffered(x, y), in) = <<x, y>> \o in
<1>1. /\ <<x>> \in Seq(Frame)
      /\ <<x, y>> \in Seq(Frame)
  OBVIOUS
<1>2. /\ ~HoldsInner(Unary(x, NoFrame))
      /\ ~HoldsInner(Unary(NoFrame, x))
      /\ ~HoldsInner(Unary(x, y))
      /\ HoldsInner(Buffered(x, NoFrame))
      /\ HoldsInner(Buffered(x, y))
  BY DEF HoldsInner, Unary, Buffered
<1>3. QED
  BY <1>1, <1>2, HeldValues, ConcatEmptySeq DEF PendingOf

\* A nonempty body is its first frame followed by the rest.
LEMMA HeadThenTail ==
  ASSUME NEW s \in Seq(Frame), s # <<>>
  PROVE  s = <<Head(s)>> \o Tail(s)
<1>1. /\ Head(s) \in Frame
      /\ Tail(s) \in Seq(Frame)
      /\ Len(Tail(s)) = Len(s) - 1
      /\ \A i \in 1..Len(Tail(s)) : Tail(s)[i] = s[i + 1]
      /\ Len(s) \in Nat \ {0}
      /\ Head(s) = s[1]
  BY HeadTailProperties, EmptySeq, LenProperties
<1>2. /\ <<Head(s)>> \o Tail(s) \in Seq(Frame)
      /\ Len(<<Head(s)>> \o Tail(s)) = Len(s)
      /\ \A i \in 1..Len(s) : (<<Head(s)>> \o Tail(s))[i] = s[i]
  <2>1. <<Head(s)>> \in Seq(Frame)
    BY <1>1
  <2>2. QED
    BY <1>1, <2>1, ConcatProperties
<1>3. QED
  BY <1>2, SeqEqual

\* read_body's state holds, in order, exactly the frames it took from the
\* inner body: Pending is unchanged by the future of map_response resolving.
LEMMA ReadBodyPending ==
  ASSUME NEW in \in Seq(Frame), NEW ready \in BOOLEAN, TerminalLast(in),
         "unknown" \notin FrameKinds
  PROVE  PendingOf(ReadBodyResult(in, ready).body, ReadBodyResult(in, ready).inner) = in
<1> DEFINE r == ReadBodyResult(in, ready)
<1> USE DEF r
<1>1. CASE in = <<>>
  BY <1>1, ConcatEmptySeq, EmptySeq
  DEF ReadBodyResult, NextFrame, NoFrame, PendingOf, Held, HoldsInner, Empty
<1>2. CASE in # <<>>
  <2> DEFINE first == Head(in)
             tl == Tail(in)
  <2>1. /\ NextFrame(in) = first
        /\ Rest(in) = tl
        /\ first \in Frame
        /\ tl \in Seq(Frame)
        /\ in = <<first>> \o tl
        /\ TerminalLast(tl)
        /\ <<first>> \in Seq(Frame)
    BY <1>2, HeadThenTail, HeadTailProperties, TerminalLastTail DEF NextFrame, Rest
  <2>2. /\ first.kind \in {"data", "trailers", "error"}
        /\ first # NoFrame
    BY <2>1, ConstantsAssumption DEF Frame, NoFrame
  <2>3. CASE first.kind \in {"trailers", "error"}
    <3>1. tl = <<>>
      BY <1>2, <2>3, TerminalHead DEF Terminal
    <3>2. r = IF first.kind = "error" THEN [body |-> Unary(first, NoFrame), inner |-> tl]
              ELSE [body |-> Unary(NoFrame, first), inner |-> tl]
      BY <2>1, <2>3 DEF ReadBodyResult
    <3>3. in = <<first>>
      BY <2>1, <3>1, ConcatEmptySeq
    <3>4. /\ PendingOf(Unary(first, NoFrame), tl) = <<first>>
          /\ PendingOf(Unary(NoFrame, first), tl) = <<first>>
      BY <2>1, PendingValues
    <3>5. QED
      BY <3>2, <3>3, <3>4
  <2>4. CASE first.kind = "data" /\ ~ready
    <3>1. r = [body |-> Buffered(first, NoFrame), inner |-> tl]
      BY <2>1, <2>4 DEF ReadBodyResult
    <3>2. PendingOf(Buffered(first, NoFrame), tl) = <<first>> \o tl
      BY <2>1, PendingValues
    <3>3. QED
      BY <2>1, <3>1, <3>2
  <2>5. CASE first.kind = "data" /\ ready /\ tl = <<>>
    <3>1. r = [body |-> Unary(first, NoFrame), inner |-> tl]
      BY <2>1, <2>5 DEF ReadBodyResult, NextFrame, NoFrame
    <3>2. PendingOf(Unary(first, NoFrame), tl) = <<first>>
      BY <2>1, PendingValues
    <3>3. in = <<first>>
      BY <2>1, <2>5, ConcatEmptySeq
    <3>4. r.body = Unary(first, NoFrame) /\ r.inner = tl
      BY <3>1
    <3>5. QED
      BY <2>5, <3>2, <3>3, <3>4
  <2>6. CASE first.kind = "data" /\ ready /\ tl # <<>>
    <3> DEFINE second == Head(tl)
               tl2 == Tail(tl)
    <3>1. /\ NextFrame(tl) = second
          /\ Rest(tl) = tl2
          /\ second \in Frame
          /\ tl2 \in Seq(Frame)
          /\ tl = <<second>> \o tl2
          /\ second.kind \in {"data", "trailers", "error"}
          /\ second # NoFrame
      BY <2>1, <2>6, HeadThenTail, HeadTailProperties, ConstantsAssumption
      DEF NextFrame, Rest, Frame, NoFrame
    <3>2. in = <<first, second>> \o tl2
      <4>1. /\ <<second>> \in Seq(Frame)
            /\ <<first>> \o <<second>> = <<first, second>>
        BY <2>1, <3>1, HeldValues
      <4>2. in = (<<first>> \o <<second>>) \o tl2
        BY <2>1, <3>1, <4>1, ConcatAssociative
      <4>3. QED
        BY <4>1, <4>2
    <3>3. CASE second.kind = "data"
      <4>1. r = [body |-> Buffered(first, second), inner |-> tl2]
        BY <2>1, <2>6, <3>1, <3>3 DEF ReadBodyResult
      <4>2. PendingOf(Buffered(first, second), tl2) = <<first, second>> \o tl2
        BY <2>1, <3>1, PendingValues
      <4>3. r.body = Buffered(first, second) /\ r.inner = tl2
        BY <4>1
      <4>4. QED
        BY <3>2, <4>2, <4>3
    <3>4. CASE second.kind \in {"trailers", "error"}
      <4>1. tl2 = <<>>
        BY <2>1, <2>6, <3>4, TerminalHead DEF Terminal
      <4>2. r = [body |-> Unary(first, second), inner |-> tl2]
        BY <2>1, <2>6, <3>1, <3>4 DEF ReadBodyResult
      <4>3. PendingOf(Unary(first, second), tl2) = <<first, second>>
        BY <2>1, <3>1, PendingValues
      <4>4. /\ <<first, second>> \in Seq(Frame)
            /\ <<first, second>> \o tl2 = <<first, second>>
        <5>1. <<first, second>> \in Seq(Frame)
          BY <2>1, <3>1
        <5>2. QED
          BY <4>1, <5>1, ConcatEmptySeq
      <4>5. r.body = Unary(first, second) /\ r.inner = tl2
        BY <4>2
      <4>6. QED
        BY <3>2, <4>3, <4>4, <4>5
    <3>5. QED
      BY <3>1, <3>3, <3>4
  <2>7. QED
    BY <2>2, <2>3, <2>4, <2>5, <2>6
<1>3. QED
  BY <1>1, <1>2

\* A slot of Unary or Buffered holds no frame or one frame.
LEMMA OptValues ==
  ASSUME NEW x \in OptFrame
  PROVE  /\ Opt(x) \in Seq(Frame)
         /\ x = NoFrame => Opt(x) = <<>>
         /\ x # NoFrame => Opt(x) = <<x>>
BY EmptySeq DEF Opt, OptFrame

\* Empty has nothing to yield; before read_body has resolved, and in
\* Passthru, the wrapper yields the inner body.
LEMMA PendingPlain ==
  ASSUME NEW in \in Seq(Frame)
  PROVE  /\ PendingOf(Empty, in) = <<>>
         /\ PendingOf(Passthru, in) = in
         /\ PendingOf(Unmapped, in) = in
         /\ PendingOf(Reading, in) = in
BY ConcatEmptySeq, EmptySeq
DEF PendingOf, Held, HoldsInner, Empty, Passthru, Unmapped, Reading

\* What Unary and Buffered have still to yield, in terms of their slots.
LEMMA PendingSlots ==
  ASSUME NEW x \in OptFrame, NEW y \in OptFrame, NEW in \in Seq(Frame)
  PROVE  /\ PendingOf(Unary(x, y), in) = Opt(x) \o Opt(y)
         /\ PendingOf(Buffered(x, y), in) = (Opt(x) \o Opt(y)) \o in
<1>1. /\ Opt(x) \in Seq(Frame)
      /\ Opt(y) \in Seq(Frame)
  BY OptValues
<1>2. Opt(x) \o Opt(y) \in Seq(Frame)
  BY <1>1, ConcatProperties
<1>3. QED
  BY <1>2, ConcatEmptySeq DEF PendingOf, Held, HoldsInner, Unary, Buffered

\* What Unary and Buffered have still to yield once a slot is drained.
LEMMA PendingDrained ==
  ASSUME NEW y \in OptFrame, NEW in \in Seq(Frame)
  PROVE  /\ PendingOf(Unary(NoFrame, y), in) = Opt(y)
         /\ PendingOf(Unary(NoFrame, NoFrame), in) = <<>>
         /\ PendingOf(Buffered(NoFrame, y), in) = Opt(y) \o in
         /\ PendingOf(Buffered(NoFrame, NoFrame), in) = in
<1>1. /\ Opt(y) \in Seq(Frame)
      /\ Opt(NoFrame) = <<>>
      /\ Opt(y) \o in \in Seq(Frame)
  BY OptValues, ConstantStatesType, ConcatProperties
<1>2. QED
  BY <1>1, ConcatEmptySeq, EmptySeq DEF PendingOf, Held, HoldsInner, Unary, Buffered

\* One poll_frame of a mapped body yields the first frame of what it has
\* still to yield, or the end of the stream exactly when nothing is left.
LEMMA PollPending ==
  ASSUME NEW b \in BodyState, NEW in \in Seq(Frame),
         b.tag \in {"Empty", "Passthru", "Unary", "Buffered"}
  PROVE  /\ PollResult(b, in).frame = NoFrame =>
               /\ PendingOf(b, in) = <<>>
               /\ PendingOf(PollResult(b, in).body, PollResult(b, in).inner) = <<>>
         /\ PollResult(b, in).frame # NoFrame =>
               PendingOf(b, in) =
                 <<PollResult(b, in).frame>>
                   \o PendingOf(PollResult(b, in).body, PollResult(b, in).inner)
<1> DEFINE r == PollResult(b, in)
<1> USE DEF r
\* Reading the inner body directly, as Passthru and a drained Buffered do.
<1>1. /\ Rest(in) \in Seq(Frame)
      /\ in = <<>> => NextFrame(in) = NoFrame /\ Rest(in) = <<>>
      /\ in # <<>> => /\ NextFrame(in) # NoFrame
                      /\ in = <<NextFrame(in)>> \o Rest(in)
  BY HeadThenTail, HeadTailProperties, FrameNotEnd, NextRestType DEF NextFrame, Rest
<1>2. CASE b.tag = "Empty"
  <2>1. b = Empty /\ r = [frame |-> NoFrame, body |-> b, inner |-> in]
    BY <1>2 DEF PollResult, Empty, BodyState
  <2>2. QED
    BY <2>1, PendingPlain
<1>3. CASE b.tag = "Passthru"
  <2>1. b = Passthru /\ r = [frame |-> NextFrame(in), body |-> b, inner |-> Rest(in)]
    BY <1>3 DEF PollResult, Passthru, BodyState
  <2>2. PendingOf(b, in) = in /\ PendingOf(b, Rest(in)) = Rest(in)
    BY <1>1, <2>1, PendingPlain
  <2>3. QED
    BY <1>1, <2>1, <2>2
<1>4. CASE b.tag = "Unary"
  <2>1. PICK x \in OptFrame, y \in OptFrame : b = Unary(x, y)
    BY <1>4 DEF BodyState, Unary
  <2>2. /\ PendingOf(b, in) = Opt(x) \o Opt(y)
        /\ Opt(y) \in Seq(Frame)
        /\ Opt(NoFrame) = <<>>
    BY <2>1, OptValues, PendingSlots, ConstantStatesType
  <2>3. CASE x # NoFrame
    <3>1. r = [frame |-> x, body |-> Unary(NoFrame, y), inner |-> in]
      BY <2>1, <2>3 DEF PollResult, Unary
    <3>2. /\ PendingOf(Unary(NoFrame, y), in) = Opt(y)
          /\ PendingOf(b, in) = <<x>> \o Opt(y)
      BY <2>1, <2>2, <2>3, OptValues, PendingDrained
    <3>3. QED
      BY <2>3, <3>1, <3>2
  <2>4. CASE x = NoFrame
    <3>1. r = [frame |-> y, body |-> Unary(NoFrame, NoFrame), inner |-> in]
      BY <2>1, <2>4 DEF PollResult, Unary
    <3>2. /\ PendingOf(Unary(NoFrame, NoFrame), in) = <<>>
          /\ PendingOf(b, in) = Opt(y)
      BY <2>1, <2>2, <2>4, PendingDrained
    <3>3. /\ y = NoFrame => Opt(y) = <<>>
          /\ y # NoFrame => Opt(y) = <<y>> /\ <<y>> \o <<>> = <<y>>
      BY OptValues, ConcatEmptySeq DEF OptFrame
    <3>4. QED
      BY <3>1, <3>2, <3>3
  <2>5. QED
    BY <2>3, <2>4
<1>5. CASE b.tag = "Buffered"
  <2>1. PICK x \in OptFrame, y \in OptFrame : b = Buffered(x, y)
    BY <1>5 DEF BodyState, Buffered
  <2>2. /\ PendingOf(b, in) = (Opt(x) \o Opt(y)) \o in
        /\ Opt(y) \in Seq(Frame)
        /\ Opt(NoFrame) = <<>>
    BY <2>1, OptValues, PendingSlots, ConstantStatesType
  <2>3. CASE x # NoFrame
    <3>1. r = [frame |-> x, body |-> Buffered(NoFrame, y), inner |-> in]
      BY <2>1, <2>3 DEF PollResult, Buffered
    <3>2. /\ Opt(x) = <<x>>
          /\ <<x>> \in Seq(Frame)
      BY <2>3, OptValues DEF OptFrame
    <3>3. PendingOf(Buffered(NoFrame, y), in) = Opt(y) \o in
      BY PendingDrained
    <3>4. (<<x>> \o Opt(y)) \o in = <<x>> \o (Opt(y) \o in)
      BY <2>2, <3>2, ConcatAssociative
    <3>5. r.frame = x /\ r.body = Buffered(NoFrame, y) /\ r.inner = in
      BY <3>1
    <3>6. PendingOf(b, in) = (<<x>> \o Opt(y)) \o in
      BY <2>2, <3>2
    <3>7. QED
      BY <2>3, <3>3, <3>4, <3>5, <3>6
  <2>4. CASE x = NoFrame /\ y # NoFrame
    <3>1. r = [frame |-> y, body |-> Buffered(NoFrame, NoFrame), inner |-> in]
      BY <2>1, <2>4 DEF PollResult, Buffered
    <3>2. /\ Opt(y) = <<y>>
          /\ <<y>> \in Seq(Frame)
      BY <2>4, OptValues DEF OptFrame
    <3>3. PendingOf(Buffered(NoFrame, NoFrame), in) = in
      BY PendingDrained, ConstantStatesType
    <3>4. PendingOf(b, in) = <<y>> \o in
      BY <2>2, <2>4, <3>2, ConcatEmptySeq
    <3>5. QED
      BY <2>4, <3>1, <3>3, <3>4
  <2>5. CASE x = NoFrame /\ y = NoFrame
    <3>1. r = [frame |-> NextFrame(in), body |-> b, inner |-> Rest(in)]
      BY <2>1, <2>5 DEF PollResult, Buffered
    <3>2. \A s \in Seq(Frame) : PendingOf(b, s) = s
      BY <2>1, <2>5, PendingDrained, ConstantStatesType
    <3>3. QED
      BY <1>1, <3>1, <3>2
  <2>6. QED
    BY <2>3, <2>4, <2>5
<1>6. QED
  BY <1>2, <1>3, <1>4, <1>5

\* map_response leaves every frame of the inner body to be yielded: the
\* body is mapped to Empty only when no frame is left.
LEMMA MapPending ==
  ASSUME NEW v, NEW e \in BOOLEAN, NEW in \in Seq(Frame), e => in = <<>>
  PROVE  PendingOf(MapResponseResult(v, e), in) = in
BY PendingPlain, ConcatEmptySeq, EmptySeq
DEF MapResponseResult, PendingOf, Held, HoldsInner, Reading

-----------------------------------------------------------------------------
(* Frames are preserved: the inductive invariant FramesInv.                *)

\* A terminal frame yielded next is the last frame to be yielded.
LEMMA TerminalFirst ==
  ASSUME NEW f \in Frame, NEW t \in Seq(Frame), TerminalLast(<<f>> \o t), Terminal(f)
  PROVE  t = <<>>
<1>1. /\ <<f>> \in Seq(Frame)
      /\ Len(<<f>>) = 1
  OBVIOUS
<1>2. /\ Len(<<f>> \o t) = 1 + Len(t)
      /\ (<<f>> \o t)[1] = f
      /\ Len(t) \in Nat
  BY <1>1, ConcatProperties, LenProperties
<1>3. Len(t) = 0
  <2>1. 1 \in 1..Len(<<f>> \o t)
    BY <1>2
  <2>2. QED
    BY <1>2, <2>1 DEF TerminalLast
<1>4. QED
  BY <1>3, EmptySeq

\* Delivering one more frame moves it from the pending frames to the
\* delivered ones.
LEMMA DeliverOne ==
  ASSUME NEW d \in Seq(Frame), NEW f \in Frame, NEW p \in Seq(Frame)
  PROVE  (d \o <<f>>) \o p = d \o (<<f>> \o p)
<1>1. <<f>> \in Seq(Frame)
  OBVIOUS
<1>2. QED
  BY <1>1, ConcatAssociative

\* Nothing is delivered initially, and the wrapper will yield the body.
LEMMA FramesInit == Init => FramesInv
<1> SUFFICES ASSUME Init PROVE FramesInv
  OBVIOUS
<1>1. TypeOK
  BY TypeInit
<1>2. TerminalLast(script)
  BY DEF Init, BodyScripts
<1>3. Pending = script
  BY <1>1, PendingPlain DEF Init, TypeOK, Pending
<1>4. QED
  BY <1>1, <1>2, <1>3, ConcatEmptySeq DEF Init, TypeOK, FramesInv

\* Every step keeps the frames delivered followed by the frames pending
\* equal to the inner body, and nothing pending once the consumer stopped.
LEMMA FramesStep ==
  ASSUME "unknown" \notin FrameKinds
  PROVE  FramesInv /\ [Next]_vars => FramesInv'
<1> SUFFICES ASSUME FramesInv, [Next]_vars PROVE FramesInv'
  OBVIOUS
<1>1. /\ TypeOK
      /\ TerminalLast(script)
      /\ delivered \o Pending = script
      /\ done => Pending = <<>>
  BY DEF FramesInv
<1>2. /\ TypeOK'
      /\ TerminalLast(script)'
  BY <1>1, TypeStep DEF Next, MapResponse, ReadBody, PollFrame, vars, TerminalLast
<1>3. Pending \in Seq(Frame)
  BY <1>1, PendingType DEF TypeOK, Pending
<1>4. TerminalLast(Pending)
  BY <1>1, <1>3, TerminalLastSuffix DEF TypeOK
<1>5. SUFFICES /\ delivered' \o Pending' = script'
               /\ done' => Pending' = <<>>
  BY <1>2 DEF FramesInv
<1>6. CASE MapResponse
  <2>1. PICK e \in BOOLEAN : /\ e => inner = <<>>
                             /\ body' = MapResponseResult(version, e)
    BY <1>6 DEF MapResponse
  <2>2. Pending' = inner
    BY <1>1, <1>6, <2>1, MapPending DEF MapResponse, Pending, TypeOK
  <2>3. Pending = inner
    BY <1>1, <1>6, PendingPlain DEF MapResponse, Pending, TypeOK
  <2>4. QED
    BY <1>1, <1>6, <2>2, <2>3 DEF MapResponse
<1>7. ASSUME NEW ready \in BOOLEAN, ReadBody(ready) PROVE <1>5!1
  <2>1. Pending = inner
    BY <1>1, <1>7, PendingPlain DEF ReadBody, Pending, TypeOK
  <2>2. TerminalLast(inner)
    BY <1>4, <2>1
  <2>3. Pending' = inner
    BY <1>1, <1>7, <2>2, ReadBodyPending DEF ReadBody, Pending, TypeOK
  <2>4. QED
    BY <1>1, <1>7, <2>1, <2>3 DEF ReadBody
<1>8. CASE PollFrame
  <2> DEFINE r == PollResult(body, inner)
  <2>1. /\ body.tag \in {"Empty", "Passthru", "Unary", "Buffered"}
        /\ ~done
        /\ body' = r.body
        /\ inner' = r.inner
        /\ Pending' = PendingOf(r.body, r.inner)
        /\ script' = script
    BY <1>8 DEF PollFrame, Pending
  <2>2. /\ r.frame = NoFrame => Pending = <<>> /\ Pending' = <<>>
        /\ r.frame # NoFrame => Pending = <<r.frame>> \o Pending'
    BY <1>1, <2>1, PollPending DEF TypeOK, Pending
  <2>3. /\ r.frame \in OptFrame
        /\ Pending' \in Seq(Frame)
    BY <1>1, <1>2, <2>1, PollType, PendingType DEF TypeOK, Pending
  <2>4. CASE r.frame = NoFrame
    <3>1. delivered' = delivered /\ done' = TRUE
      BY <1>8, <2>4 DEF PollFrame
    <3>2. QED
      BY <1>1, <2>1, <2>2, <2>4, <3>1
  <2>5. CASE r.frame # NoFrame
    <3>1. /\ r.frame \in Frame
          /\ <<r.frame>> \in Seq(Frame)
      BY <2>3, <2>5 DEF OptFrame
    <3>2. /\ delivered' = Append(delivered, r.frame)
          /\ done' = (r.frame.kind = "error")
      BY <1>8, <2>5 DEF PollFrame
    <3>3. delivered' = delivered \o <<r.frame>>
      BY <1>1, <3>1, <3>2, AppendIsConcat DEF TypeOK
    <3>4. delivered' \o Pending' = delivered \o Pending
      <4>1. (delivered \o <<r.frame>>) \o Pending' = delivered \o (<<r.frame>> \o Pending')
        BY <1>1, <2>3, <3>1, DeliverOne DEF TypeOK
      <4>2. <<r.frame>> \o Pending' = Pending
        BY <2>2, <2>5
      <4>3. QED
        BY <3>3, <4>1, <4>2
    <3>5. done' => Pending' = <<>>
      BY <1>4, <2>2, <2>3, <2>5, <3>1, <3>2, TerminalFirst DEF Terminal
    <3>6. QED
      BY <1>1, <2>1, <3>4, <3>5
  <2>6. QED
    BY <2>4, <2>5
<1>9. CASE UNCHANGED vars
  BY <1>1, <1>9 DEF vars, Pending
<1>10. QED
  BY <1>6, <1>7, <1>8, <1>9 DEF Next

\* The invariant gives FramesPreserved: what was delivered is a prefix of
\* the inner body, and all of it once the consumer has stopped.
LEMMA FramesInvPreserved == FramesInv => FramesPreserved
<1> SUFFICES ASSUME FramesInv PROVE FramesPreserved
  OBVIOUS
<1>1. /\ delivered \in Seq(Frame)
      /\ Pending \in Seq(Frame)
      /\ delivered \o Pending = script
      /\ done => Pending = <<>>
  BY PendingType DEF FramesInv, TypeOK, Pending
<1>2. /\ Len(script) = Len(delivered) + Len(Pending)
      /\ \A i \in 1..Len(delivered) : script[i] = delivered[i]
      /\ Len(Pending) \in Nat
  BY <1>1, ConcatProperties, LenProperties
<1>3. done => delivered = script
  BY <1>1, ConcatEmptySeq
<1>4. QED
  BY <1>2, <1>3 DEF FramesPreserved

\* A consumer of a wrapped body receives exactly the inner body's frames in
\* order, and all of them by the time it stops (map_response, read_body's
\* now_or_never fast path and poll_frame lose, reorder and invent no
\* frame), for inner bodies that yield only DATA, TRAILERS and errors.
THEOREM FramesCorrect ==
  ASSUME "unknown" \notin FrameKinds
  PROVE  Spec => []FramesPreserved
BY FramesInit, FramesStep, FramesInvPreserved, PTL DEF Spec

-----------------------------------------------------------------------------
(* Refinement: PeekTrailersBody implements FrameStream.                    *)

\* When the delivered frames, a frame f and the rest make up the body, f
\* is the body's frame right after the delivered ones.
LEMMA NextOfBody ==
  ASSUME NEW d \in Seq(Frame), NEW f \in Frame, NEW p \in Seq(Frame),
         NEW s, d \o (<<f>> \o p) = s
  PROVE  /\ Len(d) < Len(s)
         /\ s[Len(d) + 1] = f
<1>1. /\ <<f>> \o p \in Seq(Frame)
      /\ Len(<<f>> \o p) = 1 + Len(p)
      /\ (<<f>> \o p)[1] = f
  BY ConcatProperties
<1>2. /\ Len(s) = Len(d) + Len(<<f>> \o p)
      /\ s[Len(d) + 1] = (<<f>> \o p)[1]
  BY <1>1, ConcatProperties, LenProperties
<1>3. QED
  BY <1>1, <1>2, LenProperties

\* The initial states are those of the contract.
LEMMA RefineInit == Init => FS!Init
BY DEF Init, FS!Init

\* Every step of the adapter is a step of the contract, or leaves the
\* shared state alone: map_response and read_body are invisible, and
\* poll_frame yields the next frame of the body, or the end once all
\* frames are out.
LEMMA RefineStep == FramesInv /\ [Next]_vars => [FS!Next]_FS!vars
<1> SUFFICES ASSUME FramesInv, [Next]_vars PROVE [FS!Next]_FS!vars
  OBVIOUS
<1>1. /\ TypeOK
      /\ delivered \o Pending = script
  BY DEF FramesInv
<1>2. CASE MapResponse
  BY <1>2 DEF MapResponse, FS!vars
<1>3. ASSUME NEW ready \in BOOLEAN, ReadBody(ready) PROVE [FS!Next]_FS!vars
  BY <1>3 DEF ReadBody, FS!vars
<1>4. CASE PollFrame
  <2> DEFINE r == PollResult(body, inner)
  <2>1. /\ body.tag \in {"Empty", "Passthru", "Unary", "Buffered"}
        /\ ~done
        /\ Pending' = PendingOf(r.body, r.inner)
        /\ script' = script
    BY <1>4 DEF PollFrame, Pending
  <2>2. /\ r.frame = NoFrame => Pending = <<>>
        /\ r.frame # NoFrame => Pending = <<r.frame>> \o Pending'
    BY <1>1, <2>1, PollPending DEF TypeOK, Pending
  <2>3. /\ r.frame \in OptFrame
        /\ Pending' \in Seq(Frame)
    BY <1>1, <2>1, TypeStep, PollType, PendingType DEF TypeOK, Pending
  <2>4. CASE r.frame = NoFrame
    <3>1. delivered' = delivered /\ done' = TRUE
      BY <1>4, <2>4 DEF PollFrame
    <3>2. delivered = script
      BY <1>1, <2>2, <2>4, ConcatEmptySeq DEF TypeOK
    <3>3. FS!Finish
      BY <2>1, <3>1, <3>2 DEF FS!Finish
    <3>4. QED
      BY <3>3 DEF FS!Next
  <2>5. CASE r.frame # NoFrame
    <3>1. r.frame \in Frame
      BY <2>3, <2>5 DEF OptFrame
    <3>2. /\ delivered' = Append(delivered, r.frame)
          /\ done' = (r.frame.kind = "error")
      BY <1>4, <2>5 DEF PollFrame
    <3>3. /\ Len(delivered) < Len(script)
          /\ script[Len(delivered) + 1] = r.frame
      BY <1>1, <2>2, <2>3, <2>5, <3>1, NextOfBody DEF TypeOK
    <3>4. FS!Deliver
      BY <2>1, <3>2, <3>3 DEF FS!Deliver
    <3>5. QED
      BY <3>4 DEF FS!Next
  <2>6. QED
    BY <2>4, <2>5
<1>5. CASE UNCHANGED vars
  BY <1>5 DEF vars, FS!vars
<1>6. QED
  BY <1>2, <1>3, <1>4, <1>5 DEF Next

\* The wrapped body keeps the contract of a body (spec section 5): its
\* consumer sees the inner body's frames one at a time, in order, then the
\* end, whatever map_response, read_body's fast path and poll_frame do in
\* between, for inner bodies that yield only DATA, TRAILERS and errors.
THEOREM Refinement ==
  ASSUME "unknown" \notin FrameKinds
  PROVE  Spec => FrameStreamSpec
<1>1. Spec => []FramesInv
  BY FramesInit, FramesStep, PTL DEF Spec
<1>2. QED
  BY <1>1, RefineInit, RefineStep, PTL DEF Spec, FrameStreamSpec, FS!Spec


-----------------------------------------------------------------------------
(* Peeking is exact: the trailers the retry policy sees.                   *)

\* The future of read_body always resolves to a state of enum Inner.
LEMMA ReadBodyMapped ==
  ASSUME NEW s \in Seq(Frame), NEW ready \in BOOLEAN
  PROVE  ReadBodyResult(s, ready).body.tag \in {"Empty", "Unary", "Buffered"}
BY DEF ReadBodyResult, Empty, Unary, Buffered

\* poll_frame keeps the variant of enum Inner, and the end of the stream
\* leaves the adapter as it was.
LEMMA PollKeepsState ==
  ASSUME NEW b \in BodyState, NEW in \in Seq(Frame),
         b.tag \in {"Empty", "Passthru", "Unary", "Buffered"}
  PROVE  /\ PollResult(b, in).body.tag = b.tag
         /\ PollResult(b, in).frame = NoFrame => PollResult(b, in).body = b
<1>1. CASE b.tag \in {"Empty", "Passthru"}
  BY <1>1 DEF PollResult
<1>2. CASE b.tag = "Unary"
  <2>1. PICK x \in OptFrame, y \in OptFrame : b = Unary(x, y)
    BY <1>2 DEF BodyState, Unary
  <2>2. QED
    BY <2>1 DEF PollResult, Unary
<1>3. CASE b.tag = "Buffered"
  <2>1. PICK x \in OptFrame, y \in OptFrame : b = Buffered(x, y)
    BY <1>3 DEF BodyState, Buffered
  <2>2. QED
    BY <2>1 DEF PollResult, Buffered
<1>4. QED
  BY <1>1, <1>2, <1>3

\* The strengthening of PeekExact that a step preserves: before
\* map_response's future resolves the inner body is untouched, and the
\* future is only created for a version with trailers.
PeekInv ==
  /\ TypeOK
  /\ TerminalLast(script)
  /\ body \in {Unmapped, Reading} => inner = script
  /\ body = Reading => version \notin TrailerlessVersions
  /\ PeekExact

LEMMA PeekInit == Init => PeekInv
<1> SUFFICES ASSUME Init PROVE PeekInv
  OBVIOUS
<1>1. TypeOK
  BY TypeInit
<1>2. TerminalLast(script)
  BY DEF Init, BodyScripts
<1>3. ~Mapped
  BY DEF Init, Mapped, Unmapped
<1>4. QED
  BY <1>1, <1>2, <1>3 DEF Init, PeekInv, PeekExact, Unmapped, Reading

\* map_response, read_body and poll_frame keep PeekInv.
LEMMA PeekStep == PeekInv /\ [Next]_vars => PeekInv'
<1> SUFFICES ASSUME PeekInv, [Next]_vars PROVE PeekInv'
  OBVIOUS
<1>1. /\ TypeOK
      /\ TerminalLast(script)
      /\ body \in {Unmapped, Reading} => inner = script
      /\ body = Reading => version \notin TrailerlessVersions
      /\ PeekExact
  BY DEF PeekInv
<1>2. /\ TypeOK'
      /\ TerminalLast(script)'
  <2>1. TypeOK'
    BY <1>1, TypeStep
  <2>2. script' = script
    <3>1. CASE MapResponse
      BY <3>1 DEF MapResponse
    <3>2. CASE \E ready \in BOOLEAN : ReadBody(ready)
      BY <3>2 DEF ReadBody
    <3>3. CASE PollFrame
      BY <3>3 DEF PollFrame
    <3>4. CASE UNCHANGED vars
      BY <3>4 DEF vars
    <3>5. QED
      BY <3>1, <3>2, <3>3, <3>4 DEF Next
  <2>3. QED
    BY <1>1, <2>1, <2>2 DEF TerminalLast
<1>3. CASE MapResponse
  <2>0. \E e \in BOOLEAN : /\ body' = MapResponseResult(version, e)
                           /\ e => inner = <<>>
    <3>1. CASE inner = <<>>
      BY <1>3, <3>1 DEF MapResponse
    <3>2. CASE inner # <<>>
      BY <1>3, <3>2 DEF MapResponse
    <3>3. QED
      BY <3>1, <3>2
  <2>1. PICK e \in BOOLEAN : /\ body' = MapResponseResult(version, e)
                             /\ e => inner = <<>>
    BY <2>0
  <2>2. inner = script /\ inner' = inner /\ script' = script
    BY <1>1, <1>3 DEF MapResponse, Unmapped
  <2>3. CASE version \in TrailerlessVersions
    <3>1. body' = Passthru
      BY <2>1, <2>3 DEF MapResponseResult
    <3>2. PeekExact'
      BY <1>3, <2>3, <3>1 DEF MapResponse, PeekExact, PeekTrailers, ExpectedPeek, Passthru
    <3>3. QED
      BY <1>2, <3>1, <3>2 DEF PeekInv, Passthru, Unmapped, Reading
  <2>4. CASE version \notin TrailerlessVersions /\ e
    <3>1. body' = Empty /\ script = <<>>
      BY <2>1, <2>2, <2>4 DEF MapResponseResult
    <3>2. PeekExact'
      BY <1>3, <3>1 DEF MapResponse, PeekExact, PeekTrailers, ExpectedPeek, Empty
    <3>3. QED
      BY <1>2, <3>1, <3>2 DEF PeekInv, Empty, Unmapped, Reading
  <2>5. CASE version \notin TrailerlessVersions /\ ~e
    <3>1. body' = Reading
      BY <2>1, <2>5 DEF MapResponseResult
    <3>2. QED
      BY <1>2, <1>3, <2>2, <2>5, <3>1 DEF MapResponse, PeekInv, PeekExact, Mapped, Reading
  <2>6. QED
    BY <2>3, <2>4, <2>5
<1>4. ASSUME NEW ready \in BOOLEAN, ReadBody(ready) PROVE PeekInv'
  <2>1. /\ inner = script
        /\ version \notin TrailerlessVersions
        /\ script \in Seq(Frame)
    BY <1>1, <1>4 DEF ReadBody, TypeOK
  <2>2. body'.tag \in {"Empty", "Unary", "Buffered"}
    BY <1>4, <2>1, ReadBodyMapped DEF ReadBody
  <2>3. PeekTrailers(body') = ReadPeek(script, ready)
    BY <1>1, <1>4, <2>1, PeekOfRead DEF ReadBody
  <2>4. ExpectedPeek' = ReadPeek(script, ready)
    BY <1>4, <2>1 DEF ReadBody, ExpectedPeek, ReadPeek
  <2>5. QED
    BY <1>2, <2>2, <2>3, <2>4 DEF PeekInv, PeekExact, Unmapped, Reading
<1>5. CASE PollFrame
  <2> DEFINE r == PollResult(body, inner)
  <2>1. /\ body \in BodyState
        /\ inner \in Seq(Frame)
        /\ body.tag \in {"Empty", "Passthru", "Unary", "Buffered"}
        /\ body' = r.body
    BY <1>1, <1>5 DEF PollFrame, TypeOK
  <2>2. /\ body'.tag = body.tag
        /\ r.frame = NoFrame => body' = body
    BY <2>1, PollKeepsState
  <2>3. CASE r.frame = NoFrame
    <3>1. UNCHANGED <<version, script, body, secondReady, delivered>>
      BY <1>5, <2>2, <2>3 DEF PollFrame
    <3>2. PeekExact'
      BY <1>1, <3>1 DEF PeekExact, Mapped, ExpectedPeek
    <3>3. QED
      BY <1>2, <2>1, <2>2, <3>2 DEF PeekInv, Unmapped, Reading
  <2>4. CASE r.frame # NoFrame
    <3>1. delivered' = Append(delivered, r.frame) /\ delivered \in Seq(Frame)
      BY <1>1, <1>5, <2>4 DEF PollFrame, TypeOK
    <3>2. delivered' # <<>>
      BY <3>1, AppendProperties, EmptySeq
    <3>3. QED
      BY <1>2, <2>1, <2>2, <3>2 DEF PeekInv, PeekExact, Unmapped, Reading
  <2>5. QED
    BY <2>3, <2>4
<1>6. CASE UNCHANGED vars
  BY <1>1, <1>6 DEF vars, PeekInv, PeekExact, Mapped, ExpectedPeek, TerminalLast, TypeOK
<1>7. QED
  BY <1>3, <1>4, <1>5, <1>6 DEF Next

\* For every response, whatever frames its body yields and whether the
\* second one is ready, peek_trailers() on the mapped and unread response
\* returns the trailers exactly when read_body found them: its TRAILERS
\* frame first, or right after one DATA frame ready at once (peek_trailers.rs
\* map_response and read_body).  The retry policy is never shown trailers
\* the body lacks, nor denied the ones the fast path read.
THEOREM PeekCorrect == Spec => []PeekExact
<1>1. Spec => []PeekInv
  BY PeekInit, PeekStep, PTL DEF Spec
<1>2. PeekInv => PeekExact
  BY DEF PeekInv
<1>3. QED
  BY <1>1, <1>2, PTL


-----------------------------------------------------------------------------
(* is_end_stream() is sound.                                               *)

\* What is_end_stream() answers for each mapped state of enum Inner.
LEMMA IsEndStreamValues ==
  ASSUME NEW b \in BodyState, NEW in
  PROVE  /\ b.tag = "Empty" => IsEndStream(b, in)
         /\ b.tag = "Passthru" => (IsEndStream(b, in) <=> in = <<>>)
         /\ b.tag = "Unary" =>
              (IsEndStream(b, in) <=> b.data = NoFrame /\ b.trailers = NoFrame)
         /\ b.tag = "Buffered" =>
              (IsEndStream(b, in) <=>
                 b.first = NoFrame /\ b.second = NoFrame /\ in = <<>>)
BY Zenon DEF IsEndStream

\* A state of enum Inner for which is_end_stream() says true holds no frame
\* and has none left to read.
LEMMA EndStreamPending ==
  ASSUME NEW b \in BodyState, NEW in \in Seq(Frame),
         b.tag \in {"Empty", "Passthru", "Unary", "Buffered"},
         IsEndStream(b, in)
  PROVE  PendingOf(b, in) = <<>>
<1>1. CASE b.tag = "Empty"
  BY <1>1, PendingPlain DEF BodyState, Empty
<1>2. CASE b.tag = "Passthru"
  <2>1. b = Passthru /\ in = <<>>
    BY <1>2, IsEndStreamValues DEF BodyState, Passthru
  <2>2. QED
    BY <2>1, PendingPlain
<1>3. CASE b.tag = "Unary"
  <2>1. b = Unary(NoFrame, NoFrame)
    BY <1>3, IsEndStreamValues DEF BodyState, Unary
  <2>2. QED
    BY <2>1, PendingDrained, ConstantStatesType
<1>4. CASE b.tag = "Buffered"
  <2>1. b = Buffered(NoFrame, NoFrame) /\ in = <<>>
    BY <1>4, IsEndStreamValues DEF BodyState, Buffered
  <2>2. QED
    BY <2>1, PendingDrained, ConstantStatesType
<1>5. QED
  BY <1>1, <1>2, <1>3, <1>4

\* Whatever frames the inner body yields and however far the consumer has
\* read, when is_end_stream() of the wrapper says true no frame is left to
\* be yielded (peek_trailers.rs is_end_stream(): a Buffered state also asks
\* its held frames, not only the inner body), so a consumer such as hyper
\* that stops polling on it never drops a frame.
THEOREM EndStreamCorrect == Spec => []IsEndStreamSound
<1>1. TypeOK => IsEndStreamSound
  BY EndStreamPending DEF TypeOK, IsEndStreamSound, Pending, Mapped
<1>2. QED
  BY <1>1, TypeCorrect, PTL

=============================================================================
