-------------------------- MODULE PeekTrailersLemmas --------------------------
(***************************************************************************)
(* Lemmas about the operators of PeekTrailers (peek_trailers.rs), for      *)
(* every value of the constants: the shape of a well-formed body and what *)
(* peek_trailers() returns on the state read_body builds.  They serve the  *)
(* proofs about one wrapped response (PeekTrailersBodyProofs) and about    *)
(* the retry layer that classifies it (RetryExchangeProofs).               *)
(***************************************************************************)
EXTENDS PeekTrailers, SequenceTheorems, TLAPS

\* Every inner body the specification starts from is a sequence of frames.
LEMMA ScriptsAreSequences == BodyScripts \subseteq Seq(Frame)
<1> SUFFICES ASSUME NEW s \in BodyScripts PROVE s \in Seq(Frame)
  OBVIOUS
<1>1. PICK n \in 0..MaxFrames : s \in [1..n -> Frame]
  BY DEF BodyScripts
<1>2. QED
  BY <1>1, SeqDef

\* A terminal frame at the head of a well-formed body is its only frame.
LEMMA TerminalHead ==
  ASSUME NEW s \in Seq(Frame), s # <<>>, TerminalLast(s), Terminal(Head(s))
  PROVE  Tail(s) = <<>>
<1>1. /\ Len(s) \in Nat \ {0}
      /\ Head(s) = s[1]
  BY EmptySeq, LenProperties
<1>2. Len(s) = 1
  <2>1. Terminal(s[1]) /\ 1 \in 1..Len(s)
    BY <1>1
  <2>2. QED
    BY <2>1 DEF TerminalLast
<1>3. /\ Tail(s) \in Seq(Frame)
      /\ Len(Tail(s)) = 0
  BY <1>2, HeadTailProperties
<1>4. QED
  BY <1>3, EmptySeq

-----------------------------------------------------------------------------
(* Peeking: what peek_trailers() returns on the state read_body built.     *)

\* The trailers read_body leaves peekable in a body s: its TRAILERS frame
\* when that is the first frame, or the second after one DATA frame that
\* was ready; the end of the stream otherwise.
ReadPeek(s, ready) ==
  IF \/ Len(s) = 1 /\ s[1].kind = "trailers"
     \/ /\ Len(s) = 2 /\ ready
        /\ s[1].kind = "data" /\ s[2].kind = "trailers"
  THEN s[Len(s)]
  ELSE NoFrame

\* peek_trailers() after read_body returns exactly ReadPeek, whatever kinds
\* of frame the inner body yields, unknown ones included.
LEMMA PeekOfRead ==
  ASSUME NEW s \in Seq(Frame), NEW ready \in BOOLEAN, TerminalLast(s)
  PROVE  PeekTrailers(ReadBodyResult(s, ready).body) = ReadPeek(s, ready)
<1> DEFINE b == ReadBodyResult(s, ready).body
<1>1. CASE s = <<>>
  BY <1>1 DEF ReadBodyResult, NextFrame, NoFrame, PeekTrailers, Empty, ReadPeek
<1>2. CASE s # <<>>
  <2> DEFINE first == Head(s)
             tl == Tail(s)
  <2>1. /\ NextFrame(s) = first
        /\ Rest(s) = tl
        /\ first = s[1]
        /\ first \in Frame
        /\ tl \in Seq(Frame)
        /\ Len(s) = Len(tl) + 1
        /\ Len(tl) \in Nat
    BY <1>2, HeadTailProperties, EmptySeq, LenProperties DEF NextFrame, Rest
  <2>2. first.kind \in {"data", "trailers", "error", "unknown"}
    BY <2>1 DEF Frame
  <2>3. CASE first.kind = "trailers"
    <3>1. Len(s) = 1
      <4>1. tl = <<>>
        BY <1>2, <2>3, TerminalHead DEF Terminal
      <4>2. Len(tl) = 0
        BY <2>1, <4>1, EmptySeq
      <4>3. QED
        BY <2>1, <4>2
    <3>2. b = Unary(NoFrame, first)
      BY <2>1, <2>3 DEF ReadBodyResult, NoFrame
    <3>3. QED
      BY <2>1, <2>3, <3>1, <3>2 DEF PeekTrailers, Unary, ReadPeek
  <2>4. CASE first.kind \in {"error", "unknown"}
    <3>1. b \in {Unary(first, NoFrame), Buffered(NoFrame, NoFrame)}
      BY <2>1, <2>4 DEF ReadBodyResult, NoFrame
    <3>2. QED
      BY <2>1, <2>4, <3>1 DEF PeekTrailers, Unary, Buffered, NoFrame, ReadPeek
  <2>5. CASE first.kind = "data" /\ ~ready
    <3>1. b = Buffered(first, NoFrame)
      BY <2>1, <2>5 DEF ReadBodyResult, NoFrame
    <3>2. QED
      BY <2>1, <2>5, <3>1 DEF PeekTrailers, Buffered, ReadPeek
  <2>6. CASE first.kind = "data" /\ ready /\ tl = <<>>
    <3>1. b = Unary(first, NoFrame)
      BY <2>1, <2>6 DEF ReadBodyResult, NextFrame, NoFrame
    <3>2. Len(s) = 1
      <4>1. Len(tl) = 0
        BY <2>1, <2>6, EmptySeq
      <4>2. QED
        BY <2>1, <4>1
    <3>3. PeekTrailers(b) = NoFrame
      BY <3>1 DEF PeekTrailers, Unary, NoFrame
    <3>4. ReadPeek(s, ready) = NoFrame
      BY <2>1, <2>6, <3>2 DEF ReadPeek
    <3>5. QED
      BY <3>3, <3>4
  <2>7. CASE first.kind = "data" /\ ready /\ tl # <<>>
    <3> DEFINE second == Head(tl)
    <3>1. /\ NextFrame(tl) = second
          /\ second = s[2]
          /\ second \in Frame
          /\ Len(s) >= 2
      BY <2>1, <2>7, HeadTailProperties, EmptySeq, LenProperties DEF NextFrame
    <3>2. second.kind \in {"data", "trailers", "error", "unknown"}
      BY <3>1 DEF Frame
    <3>3. CASE second.kind \in {"data", "unknown"}
      <4>1. b \in {Buffered(first, second), Buffered(first, NoFrame)}
        BY <2>1, <2>7, <3>1, <3>3 DEF ReadBodyResult, NoFrame
      <4>2. QED
        BY <3>1, <3>3, <4>1 DEF PeekTrailers, Buffered, ReadPeek
    <3>4. CASE second.kind \in {"trailers", "error"}
      <4>1. b = Unary(first, second)
        BY <2>1, <2>7, <3>1, <3>4 DEF ReadBodyResult, NoFrame
      <4>2. Len(s) = 2
        <5>1. Terminal(s[2]) /\ 2 \in 1..Len(s)
          BY <3>1, <3>4 DEF Terminal
        <5>2. \A i \in 1..Len(s) : Terminal(s[i]) => i = Len(s)
          BY DEF TerminalLast
        <5>3. QED
          BY <5>1, <5>2
      <4>3. PeekTrailers(b) = IF second.kind = "trailers" THEN second ELSE NoFrame
        <5>1. PeekTrailers(Unary(first, second))
                = IF second.kind = "trailers" THEN second ELSE NoFrame
          BY DEF PeekTrailers, Unary
        <5>2. QED
          BY <4>1, <5>1
      <4>4. ReadPeek(s, ready) = IF second.kind = "trailers" THEN second ELSE NoFrame
        BY <2>1, <2>7, <3>1, <4>2 DEF ReadPeek
      <4>5. QED
        BY <4>3, <4>4
    <3>5. QED
      BY <3>2, <3>3, <3>4
  <2>8. QED
    BY <2>2, <2>3, <2>4, <2>5, <2>6, <2>7
<1>3. QED
  BY <1>1, <1>2

\* What peek_trailers() returns after read_body is either nothing or a
\* TRAILERS frame the body really yields: peeking never invents trailers.
LEMMA PeekedFromBody ==
  ASSUME NEW s \in Seq(Frame), NEW ready \in BOOLEAN, TerminalLast(s)
  PROVE  LET p == PeekTrailers(ReadBodyResult(s, ready).body)
         IN  \/ p = NoFrame
             \/ /\ p.kind = "trailers"
                /\ \E i \in 1..Len(s) : s[i] = p
<1>1. PeekTrailers(ReadBodyResult(s, ready).body) = ReadPeek(s, ready)
  BY PeekOfRead
<1>2. CASE ReadPeek(s, ready) = NoFrame
  BY <1>1, <1>2
<1>3. CASE ReadPeek(s, ready) # NoFrame
  <2>1. /\ Len(s) \in {1, 2}
        /\ s[Len(s)].kind = "trailers"
        /\ ReadPeek(s, ready) = s[Len(s)]
    BY <1>3 DEF ReadPeek
  <2>2. Len(s) \in 1..Len(s)
    BY <2>1
  <2>3. QED
    BY <1>1, <2>1, <2>2
<1>4. QED
  BY <1>2, <1>3

=============================================================================
