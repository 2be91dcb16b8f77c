------------------------ MODULE StreamScannerProofs ------------------------
(***************************************************************************)
(* Theorems about StreamScanner, for every stream length, every accepted   *)
(* pair of options, every sequence of reads and every detector.            *)
(***************************************************************************)
EXTENDS StreamScanner, SequenceTheorems, TLAPS

-----------------------------------------------------------------------------
(* Windows *)

\* NewStreamScanner only accepts options with 0 < Overlap < ChunkSize.
LEMMA OptionsFacts ==
  /\ Overlap \in Nat \ {0}
  /\ ChunkSize \in Nat \ {0}
  /\ Overlap < ChunkSize
BY OptionsAssumption
   DEF Overlap, ChunkSize, OverlapOf, ChunkSizeOf, NewStreamScanner

\* A window is a sequence of bytes of the stream.
LEMMA WindowIsSeq ==
  ASSUME NEW a \in Nat, NEW b \in Nat, a <= b, b <= StreamLen
  PROVE  /\ Window(a, b) \in Seq(1..StreamLen)
         /\ Len(Window(a, b)) = b - a
         /\ DOMAIN Window(a, b) = 1..(b - a)
         /\ \A k \in 1..(b - a) : Window(a, b)[k] = a + k
<1>1. Window(a, b) \in [1..(b - a) -> 1..StreamLen]
  BY OptionsAssumption DEF Window
<1>2. b - a \in Nat
  OBVIOUS
<1>3. Window(a, b) \in Seq(1..StreamLen)
  BY <1>1, <1>2, SeqDef
<1>4. DOMAIN Window(a, b) = 1..(b - a)
  BY DEF Window
<1>5. Len(Window(a, b)) = b - a
  BY <1>2, <1>3, <1>4, LenProperties
<1> QED
  BY <1>3, <1>4, <1>5 DEF Window

\* Reading on from where a window ends lengthens it.
LEMMA WindowExtends ==
  ASSUME NEW a \in Nat, NEW b \in Nat, NEW c \in Nat,
         a <= b, b <= c, c <= StreamLen
  PROVE  Window(a, b) \o Window(b, c) = Window(a, c)
<1> DEFINE V == Window(a, b)
           W == Window(b, c)
           VW == Window(a, c)
<1>1. /\ V \in Seq(1..StreamLen) /\ Len(V) = b - a
      /\ \A i \in 1..(b - a) : V[i] = a + i
  <2>1. b <= StreamLen
    BY OptionsAssumption
  <2> QED
    BY <2>1, WindowIsSeq
<1>2. /\ W \in Seq(1..StreamLen) /\ Len(W) = c - b
      /\ \A i \in 1..(c - b) : W[i] = b + i
  BY WindowIsSeq, OptionsAssumption
<1>3. /\ VW \in Seq(1..StreamLen) /\ Len(VW) = c - a
      /\ \A i \in 1..(c - a) : VW[i] = a + i
  BY WindowIsSeq, OptionsAssumption
<1> HIDE DEF V, W, VW
<1>4. /\ V \o W \in Seq(1..StreamLen)
      /\ Len(V \o W) = Len(V) + Len(W)
      /\ \A i \in 1..(Len(V) + Len(W)) :
           (V \o W)[i] = IF i <= Len(V) THEN V[i] ELSE W[i - Len(V)]
  BY <1>1, <1>2, ConcatProperties
<1>5. \A i \in 1..(c - a) : (V \o W)[i] = a + i
  <2> TAKE i \in 1..(c - a)
  <2>1. CASE i <= b - a
    BY <1>1, <1>2, <1>4, <2>1
  <2>2. CASE ~ (i <= b - a)
    <3>1. (V \o W)[i] = W[i - (b - a)]
      BY <1>1, <1>2, <1>4, <2>2
    <3>2. i - (b - a) \in 1..(c - b)
      BY <2>2
    <3> QED
      BY <1>2, <3>1, <3>2
  <2> QED
    BY <2>1, <2>2
<1>6. Len(V \o W) = c - a
  BY <1>1, <1>2, <1>4
<1>7. V \o W = VW
  BY <1>3, <1>4, <1>5, <1>6, SeqEqual
<1> QED
  BY <1>7 DEF V, W, VW

\* A name the provers do not expand.
Piece(text, m, e) == SubSeq(text, m, e)

\* A piece of a window is a window.
LEMMA WindowPiece ==
  ASSUME NEW a \in Nat, NEW b \in Nat, a <= b, b <= StreamLen,
         NEW m \in Nat, NEW e \in Nat, 1 <= m, m <= e + 1, e <= b - a,
         NEW u \in Nat, NEW v \in Nat, u = a + m - 1, v = a + e
  PROVE  Piece(Window(a, b), m, e) = Window(u, v)
<1> DEFINE W == Window(a, b)
           P == Window(u, v)
<1>1. /\ W \in Seq(1..StreamLen) /\ Len(W) = b - a
      /\ \A i \in 1..(b - a) : W[i] = a + i
  BY WindowIsSeq, OptionsAssumption
<1>2. /\ P \in Seq(1..StreamLen) /\ Len(P) = e - m + 1
      /\ \A i \in 1..(e - m + 1) : P[i] = u + i
  <2>1. u <= v /\ v <= StreamLen /\ v - u = e - m + 1
    BY OptionsAssumption
  <2>2. /\ P \in Seq(1..StreamLen) /\ Len(P) = v - u
        /\ \A i \in 1..(v - u) : P[i] = u + i
    BY <2>1, WindowIsSeq
  <2> QED
    BY <2>1, <2>2
<1> HIDE DEF W, P
<1>3. \A i \in m..e : W[i] \in 1..StreamLen
  <2> TAKE i \in m..e
  <2>1. i \in 1..Len(W)
    BY <1>1
  <2> QED
    BY <1>1, <2>1, ElementOfSeq
<1> DEFINE Q == SubSeq(W, m, e)
<1>4. /\ Q \in Seq(1..StreamLen)
      /\ Len(Q) = IF m <= e THEN e - m + 1 ELSE 0
      /\ \A i \in 1..(e - m + 1) : Q[i] = W[m + i - 1]
  BY <1>3, SubSeqProperties
<1> HIDE DEF Q
<1>5. Len(Q) = Len(P)
  BY <1>2, <1>4
<1>6. \A i \in 1..Len(Q) : Q[i] = P[i]
  BY <1>1, <1>2, <1>4
<1>7. Q = P
  BY <1>2, <1>4, <1>5, <1>6, SeqEqual
<1>8. Piece(W, m, e) = Q
  BY DEF Piece, Q
<1> QED
  BY <1>7, <1>8 DEF W, P

\* TailOf keeps the last Overlap bytes.
LEMMA TailOfWindow ==
  ASSUME NEW a \in Nat, NEW b \in Nat, a <= b, b <= StreamLen,
         NEW c \in Nat, c = IF b - a > Overlap THEN b - Overlap ELSE a
  PROVE  TailOf(Window(a, b)) = Window(c, b)
<1>1. Len(Window(a, b)) = b - a
  BY WindowIsSeq
<1>2. CASE b - a > Overlap
  <2>1. PICK m \in Nat : m = b - a - Overlap + 1
    BY <1>2, OptionsFacts
  <2>2. PICK e \in Nat : e = b - a
    OBVIOUS
  <2>3. 1 <= m /\ m <= e + 1 /\ e <= b - a /\ c = a + m - 1 /\ b = a + e
    BY <1>2, <2>1, <2>2, OptionsFacts
  <2>4. Piece(Window(a, b), m, e) = Window(c, b)
    BY <2>3, WindowPiece
  <2> DEFINE W == Window(a, b)
  <2>5. Len(W) = e /\ Len(W) > Overlap /\ Len(W) - Overlap + 1 = m
    BY <1>1, <1>2, <2>1, <2>2, OptionsFacts
  <2> HIDE DEF W
  <2>6. TailOf(W) = Piece(W, m, e)
    BY <2>5 DEF TailOf, Piece
  <2> QED
    BY <2>4, <2>6 DEF W
<1>3. CASE ~ (b - a > Overlap)
  BY <1>1, <1>3 DEF TailOf
<1> QED
  BY <1>2, <1>3

-----------------------------------------------------------------------------
(* Keys *)

\* The key of a span of the stream.
SpanKey(o) ==
  [offset |-> o.start, type |-> o.type, text |-> Window(o.start, o.end)]

StreamSpan == { o \in Span : o.start < o.end /\ o.end <= StreamLen }

\* What the detector finds in a window is a span of the stream, and the key the
\* code computes for it is the key of that span.
LEMMA KeyIsSpanKey ==
  ASSUME NEW a \in Nat, NEW b \in Nat, a <= b, b <= StreamLen,
         NEW d \in Detect(Window(a, b))
  PROVE  /\ d \in Span
         /\ At(a, d) \in StreamSpan
         /\ chunkSeenKey(Window(a, b), a, d) = SpanKey(At(a, d))
<1>1. a \in 0..StreamLen /\ b \in a..StreamLen
  BY OptionsAssumption
<1>2. d \in Span /\ d.start < d.end /\ d.end <= b - a
  BY <1>1, DetectAssumption
<1>3. d.start \in Nat /\ d.end \in Nat /\ d.type \in Nat
  BY <1>2 DEF Span
<1>4. Piece(Window(a, b), d.start + 1, d.end) = Window(a + d.start, a + d.end)
  <2>1. PICK m \in Nat, u \in Nat, v \in Nat :
          m = d.start + 1 /\ u = a + d.start /\ v = a + d.end
    BY <1>3
  <2>2. 1 <= m /\ m <= d.end + 1 /\ u = a + m - 1
    BY <1>2, <1>3, <2>1
  <2>3. Piece(Window(a, b), m, d.end) = Window(u, v)
    BY <1>2, <1>3, <2>1, <2>2, WindowPiece
  <2> QED
    BY <2>1, <2>3
<1>5. At(a, d) \in StreamSpan
  BY <1>2, <1>3, OptionsAssumption DEF At, StreamSpan, Span
<1>6. chunkSeenKey(Window(a, b), a, d) = SpanKey(At(a, d))
  <2>1. /\ At(a, d).start = a + d.start
        /\ At(a, d).end = a + d.end
        /\ At(a, d).type = d.type
    BY DEF At
  <2>2. SpanKey(At(a, d)) =
          [ offset |-> a + d.start, type |-> d.type,
            text |-> Window(a + d.start, a + d.end) ]
    BY <2>1 DEF SpanKey
  <2>3. chunkSeenKey(Window(a, b), a, d) =
          [ offset |-> a + d.start, type |-> d.type,
            text |-> Piece(Window(a, b), d.start + 1, d.end) ]
    BY DEF chunkSeenKey, Piece
  <2> QED
    BY <1>4, <2>2, <2>3
<1> QED
  BY <1>2, <1>5, <1>6

\* Two spans of the stream have the same key only if they are the same.
LEMMA SpanKeyInjective ==
  ASSUME NEW o \in StreamSpan, NEW p \in StreamSpan, SpanKey(o) = SpanKey(p)
  PROVE  o = p
<1>1. /\ o = [type |-> o.type, start |-> o.start, end |-> o.end]
      /\ p = [type |-> p.type, start |-> p.start, end |-> p.end]
      /\ o.start \in Nat /\ o.end \in Nat /\ o.start < o.end /\ o.end <= StreamLen
      /\ p.start \in Nat /\ p.end \in Nat /\ p.start < p.end /\ p.end <= StreamLen
  BY DEF StreamSpan, Span
<1>2. /\ o.start = p.start /\ o.type = p.type
      /\ Window(o.start, o.end) = Window(p.start, p.end)
  BY DEF SpanKey
<1>3. /\ Len(Window(o.start, o.end)) = o.end - o.start
      /\ Len(Window(p.start, p.end)) = p.end - p.start
  BY <1>1, WindowIsSeq
<1>4. o.end = p.end
  BY <1>1, <1>2, <1>3
<1> QED
  BY <1>1, <1>2, <1>4

-----------------------------------------------------------------------------
(* The position of the goroutine in the stream *)

TailStart == IF absoluteOffset > Overlap THEN absoluteOffset - Overlap ELSE 0

\* The carry is the tail of what was read, and the window under way is the
\* carry and the bytes of the last read.
Positioned ==
  /\ carry = Window(TailStart, absoluteOffset)
  /\ IF pc \in {"scan", "send"}
     THEN /\ n > 0 /\ position = absoluteOffset + n
          /\ combined = Window(TailStart, position)
     ELSE position = absoluteOffset /\ n = 0 /\ combined = <<>>

\* A chunk holds a window of the stream that ends by z, and detections of it.
IsChunk(c, z) ==
  \E b \in c.offset..z :
    c.text = Window(c.offset, b) /\ c.dets \subseteq Detect(Window(c.offset, b))

Chunks ==
  /\ \A i \in DOMAIN sent : IsChunk(sent[i], absoluteOffset)
  /\ pc = "send" => /\ chunk.offset = TailStart
                    /\ chunk.text = combined
                    /\ chunk.dets \subseteq Detect(combined)

Inv == TypeOK /\ Positioned /\ Chunks

LEMMA TailStartFacts ==
  ASSUME TypeOK
  PROVE  TailStart \in Nat /\ TailStart <= absoluteOffset
BY OptionsFacts, OptionsAssumption DEF TypeOK, TailStart

LEMMA InitInv == Init => Inv
<1> SUFFICES ASSUME Init PROVE Inv
  OBVIOUS
<1>1. TypeOK
  <2>1. <<>> \in Seq(1..StreamLen) /\ <<>> \in Seq(Chunk)
    OBVIOUS
  <2>2. NoChunk \in Chunk
    BY <2>1 DEF NoChunk, Chunk
  <2>3. 0 \in 0..StreamLen /\ 0 \in 0..ChunkSize /\ 0 <= OutCap
    BY OptionsFacts, OptionsAssumption
  <2>4. sent = <<>> /\ received = 0 /\ Len(sent) = 0
    BY DEF Init
  <2>5. received \in 0..Len(sent) /\ Buffered <= OutCap
    BY <2>3, <2>4 DEF Buffered
  <2> QED
    BY <2>1, <2>2, <2>3, <2>4, <2>5 DEF Init, TypeOK, Failures
<1>2. Positioned
  <2>1. Window(0, 0) \in Seq(1..StreamLen) /\ Len(Window(0, 0)) = 0
    BY WindowIsSeq, OptionsAssumption
  <2>2. Window(0, 0) = <<>>
    BY <2>1, EmptySeq
  <2>3. TailStart = 0
    BY OptionsFacts DEF Init, TailStart
  <2> QED
    BY <2>2, <2>3 DEF Init, Positioned
<1>3. Chunks
  BY DEF Init, Chunks
<1> QED
  BY <1>1, <1>2, <1>3 DEF Inv

LEMMA ReadInv ==
  ASSUME Inv, NEW k \in 0..ChunkSize, NEW e \in {"none", "eof", "failed"}, Read(k, e)
  PROVE  Inv'
<1> USE DEF Inv
<1>1. /\ pc = "read" /\ k <= StreamLen - position
      /\ n' = k /\ err' = e /\ position' = position + k
      /\ combined' = IF k > 0 THEN carry \o Window(position, position + k) ELSE <<>>
      /\ pc' = IF k > 0 THEN "scan" ELSE "decide"
      /\ UNCHANGED <<ctx, goVars, chunk, channels, peer>>
  BY DEF Read
<1>2. /\ position = absoluteOffset /\ position \in Nat
      /\ carry = Window(TailStart, absoluteOffset)
      /\ TailStart \in Nat /\ TailStart <= absoluteOffset
  BY <1>1, TailStartFacts, OptionsAssumption DEF Positioned, TypeOK
<1>3. PICK z \in Nat : z = position + k
  BY <1>2, OptionsFacts
<1>4. k \in Nat /\ position <= z /\ z <= StreamLen /\ position' = z
  BY <1>1, <1>2, <1>3, OptionsFacts, OptionsAssumption
<1>5. /\ TailStart' = TailStart
      /\ absoluteOffset' = absoluteOffset /\ carry' = carry /\ seen' = seen
      /\ sent' = sent /\ received' = received /\ Buffered' = Buffered
  BY <1>1 DEF TailStart, goVars, channels, Buffered
<1>6. CASE k > 0
  <2>1. combined' = Window(TailStart, z)
    <3>1. carry \o Window(position, z) = Window(TailStart, z)
      BY <1>2, <1>4, WindowExtends
    <3> QED
      BY <1>1, <1>3, <1>6, <3>1
  <2>2. Window(TailStart, z) \in Seq(1..StreamLen)
    BY <1>2, <1>4, WindowIsSeq
  <2>3. Positioned'
    BY <1>1, <1>2, <1>3, <1>4, <1>5, <1>6, <2>1 DEF Positioned
  <2>4. TypeOK'
    <3>1. position' \in 0..StreamLen /\ combined' \in Seq(1..StreamLen)
      BY <1>4, <2>1, <2>2, OptionsAssumption
    <3>2. pc' = "scan" /\ n' \in 0..ChunkSize /\ err' \in Failures
      BY <1>1, <1>6 DEF Failures
    <3> QED
      BY <1>1, <1>5, <3>1, <3>2 DEF TypeOK, channels, peer, goVars
  <2>5. Chunks'
    BY <1>1, <1>5, <1>6 DEF Chunks
  <2> QED
    BY <2>3, <2>4, <2>5
<1>7. CASE ~ (k > 0)
  <2>1. k = 0
    BY <1>4, <1>7
  <2>2. Positioned'
    BY <1>1, <1>2, <1>4, <1>5, <2>1 DEF Positioned
  <2>3. TypeOK'
    BY <1>1, <1>4, <1>5, <2>1, OptionsFacts
       DEF TypeOK, Failures, channels, peer, env, goVars
  <2>4. Chunks'
    BY <1>1, <1>5, <2>1 DEF Chunks
  <2> QED
    BY <2>2, <2>3, <2>4
<1> QED
  BY <1>6, <1>7

\* What Scan computes: the window starts where TailStart says.
LEMMA ScanFacts ==
  ASSUME Inv, Scan
  PROVE  /\ absoluteOffset - Len(carry) = TailStart
         /\ TailStart \in Nat /\ position \in Nat
         /\ TailStart <= position /\ position <= StreamLen
         /\ combined = Window(TailStart, position)
         /\ combined \in Seq(1..StreamLen)
<1>1. /\ pc = "scan" /\ carry = Window(TailStart, absoluteOffset)
      /\ n > 0 /\ position = absoluteOffset + n /\ combined = Window(TailStart, position)
  BY DEF Inv, Positioned, Scan
<1>2. /\ TailStart \in Nat /\ TailStart <= absoluteOffset
      /\ absoluteOffset \in Nat /\ absoluteOffset <= StreamLen
      /\ position \in Nat /\ position <= StreamLen /\ n \in Nat
  BY TailStartFacts, OptionsFacts, OptionsAssumption DEF Inv, TypeOK
<1>3. Len(carry) = absoluteOffset - TailStart
  BY <1>1, <1>2, WindowIsSeq
<1>4. combined \in Seq(1..StreamLen)
  BY DEF Inv, TypeOK
<1> QED
  BY <1>1, <1>2, <1>3, <1>4

LEMMA ScanInv == ASSUME Inv, Scan PROVE Inv'
<1> DEFINE dets == IF ctx = "live" THEN Detect(combined) ELSE {}
<1>1. /\ chunk' = [ text |-> combined, offset |-> TailStart,
                    dets |-> Fresh(dets, TailStart), scanned |-> ctx = "live" ]
      /\ seen' = seen \cup { chunkSeenKey(combined, TailStart, d) : d \in dets }
      /\ pc = "scan" /\ pc' = "send"
      /\ UNCHANGED <<env, carry, absoluteOffset, n, err, combined, channels, peer>>
  BY ScanFacts DEF Scan
<1>2. /\ TailStart \in Nat /\ combined = Window(TailStart, position)
      /\ combined \in Seq(1..StreamLen) /\ position \in Nat
      /\ TailStart <= position /\ position <= StreamLen
  BY ScanFacts
<1>3. \A d \in Detect(combined) :
        d \in Span /\ chunkSeenKey(combined, TailStart, d) = SpanKey(At(TailStart, d))
                   /\ At(TailStart, d) \in StreamSpan
  BY <1>2, KeyIsSpanKey
<1>4. Fresh(dets, TailStart) \subseteq Detect(combined)
  BY DEF Fresh
<1>5. \A o \in StreamSpan :
        SpanKey(o) \in [offset : Nat, type : Nat, text : Seq(1..StreamLen)]
  <2> TAKE o \in StreamSpan
  <2>1. /\ o.start \in Nat /\ o.end \in Nat /\ o.type \in Nat
        /\ o.start <= o.end /\ o.end <= StreamLen
    BY DEF StreamSpan, Span
  <2>2. Window(o.start, o.end) \in Seq(1..StreamLen)
    BY <2>1, WindowIsSeq
  <2> QED
    BY <2>1, <2>2 DEF SpanKey
<1> HIDE DEF dets
<1>6. dets \subseteq Detect(combined)
  BY DEF dets
<1>7. seen' \in SUBSET [offset : Nat, type : Nat, text : Seq(1..StreamLen)]
  <2>1. seen \in SUBSET [offset : Nat, type : Nat, text : Seq(1..StreamLen)]
    BY DEF Inv, TypeOK
  <2>2. \A d \in dets : chunkSeenKey(combined, TailStart, d)
                           \in [offset : Nat, type : Nat, text : Seq(1..StreamLen)]
    BY <1>3, <1>5, <1>6
  <2> QED
    BY <1>1, <2>1, <2>2
<1>8. chunk' \in Chunk
  <2>1. Fresh(dets, TailStart) \in SUBSET Span
    BY <1>3, <1>4
  <2>2. (ctx = "live") \in BOOLEAN
    OBVIOUS
  <2> QED
    BY <1>1, <1>2, <2>1, <2>2 DEF Chunk
<1>9. TypeOK'
  BY <1>1, <1>7, <1>8 DEF Inv, TypeOK, env, channels, peer, Buffered
<1>10. TailStart' = TailStart
  BY <1>1 DEF TailStart
<1>11. Positioned'
  BY <1>1, <1>10 DEF Inv, Positioned, env
<1>12. Chunks'
  BY <1>1, <1>4, <1>10 DEF Inv, Chunks, channels
<1> QED
  BY <1>9, <1>11, <1>12 DEF Inv

\* What Send leaves behind: the offset reaches the end of the window.
LEMMA SendFacts ==
  ASSUME Inv, Send
  PROVE  /\ absoluteOffset \in Nat /\ position \in Nat /\ absoluteOffset < position
         /\ absoluteOffset' = position /\ position <= StreamLen
         /\ TailStart \in Nat /\ TailStart <= absoluteOffset
         /\ chunk.offset = TailStart /\ chunk.text = Window(TailStart, position)
         /\ chunk.dets \subseteq Detect(Window(TailStart, position))
         /\ sent \in Seq(Chunk) /\ chunk \in Chunk
         /\ sent' = Append(sent, chunk) /\ sent' \in Seq(Chunk)
         /\ Len(sent') = Len(sent) + 1 /\ sent'[Len(sent) + 1] = chunk
         /\ \A i \in DOMAIN sent : sent'[i] = sent[i]
         /\ DOMAIN sent' = DOMAIN sent \cup {Len(sent) + 1}
<1>1. /\ pc = "send" /\ sent' = Append(sent, chunk) /\ absoluteOffset' = absoluteOffset + n
  BY DEF Send, Advance
<1>2. /\ n > 0 /\ position = absoluteOffset + n /\ combined = Window(TailStart, position)
      /\ chunk.offset = TailStart /\ chunk.text = combined
      /\ chunk.dets \subseteq Detect(combined)
  BY <1>1 DEF Inv, Positioned, Chunks
<1>3. /\ absoluteOffset \in Nat /\ position \in Nat /\ n \in Nat /\ position <= StreamLen
      /\ TailStart \in Nat /\ TailStart <= absoluteOffset
  BY TailStartFacts, OptionsFacts, OptionsAssumption DEF Inv, TypeOK
<1>4. sent \in Seq(Chunk) /\ chunk \in Chunk
  BY DEF Inv, TypeOK
<1>5. /\ sent' \in Seq(Chunk) /\ Len(sent') = Len(sent) + 1
      /\ sent'[Len(sent) + 1] = chunk
      /\ \A i \in 1..Len(sent) : sent'[i] = sent[i]
  BY <1>1, <1>4, AppendProperties
<1>6. DOMAIN sent = 1..Len(sent) /\ DOMAIN sent' = 1..(Len(sent) + 1) /\ Len(sent) \in Nat
  BY <1>4, <1>5, LenProperties
<1>7. DOMAIN sent' = DOMAIN sent \cup {Len(sent) + 1}
  BY <1>6
<1> QED
  BY <1>1, <1>2, <1>3, <1>4, <1>5, <1>6, <1>7

LEMMA SendInv == ASSUME Inv, Send PROVE Inv'
<1>1. /\ n' = 0 /\ combined' = <<>> /\ chunk' = NoChunk /\ pc' = "decide"
      /\ carry' = TailOf(combined) /\ Room
      /\ UNCHANGED <<env, seen, err, received, errs, errClosed, outClosed, peer>>
      /\ pc = "send"
  BY DEF Send
<1>2. PICK c \in Nat :
        c = IF position - TailStart > Overlap THEN position - Overlap ELSE TailStart
  BY SendFacts, OptionsFacts
<1>3. /\ combined = Window(TailStart, position) /\ position = absoluteOffset + n
      /\ n > 0 /\ n \in Nat
  BY <1>1, OptionsFacts DEF Inv, Positioned, TypeOK
<1>4. TailStart' = c
  <2>1. TailStart' = IF position > Overlap THEN position - Overlap ELSE 0
    BY SendFacts DEF TailStart
  <2>2. TailStart = IF absoluteOffset > Overlap THEN absoluteOffset - Overlap ELSE 0
    BY DEF TailStart
  <2>3. c = IF position > Overlap THEN position - Overlap ELSE 0
    BY <1>2, <1>3, <2>2, SendFacts, OptionsFacts
  <2> QED
    BY <2>1, <2>3
<1>5. carry' = Window(c, position)
  BY <1>1, <1>2, <1>3, SendFacts, TailOfWindow
<1>6. Positioned'
  BY <1>1, <1>4, <1>5, SendFacts DEF Positioned, env
<1>7. TypeOK'
  <2>1. Window(c, position) \in Seq(1..StreamLen)
    <3>1. c <= position
      BY <1>2, SendFacts, OptionsFacts
    <3> QED
      BY <3>1, SendFacts, WindowIsSeq
  <2>2. combined' \in Seq(1..StreamLen) /\ NoChunk \in Chunk
    <3>1. <<>> \in Seq(1..StreamLen)
      OBVIOUS
    <3> QED
      BY <1>1, <3>1 DEF NoChunk, Chunk
  <2>3. absoluteOffset' \in 0..StreamLen
    BY SendFacts, OptionsAssumption
  <2>4. 0 \in 0..ChunkSize
    BY OptionsFacts
  <2>5. received' \in 0..Len(sent') /\ Buffered' <= OutCap
    <3>1. received \in 0..Len(sent) /\ Len(sent) \in Nat /\ Len(sent) - received < OutCap
      BY <1>1, SendFacts, LenProperties DEF Inv, TypeOK, Room, Buffered
    <3>2. received' = received /\ Len(sent') = Len(sent) + 1
      BY <1>1, SendFacts
    <3> QED
      BY <3>1, <3>2, OptionsAssumption DEF Buffered
  <2> QED
    BY <1>1, <1>5, <2>1, <2>2, <2>3, <2>4, <2>5, SendFacts
       DEF Inv, TypeOK, env, peer
<1>8. Chunks'
  <2>1. \A i \in DOMAIN sent' : IsChunk(sent'[i], position)
    <3> TAKE i \in DOMAIN sent'
    <3>1. CASE i \in DOMAIN sent
      <4>1. IsChunk(sent[i], absoluteOffset) /\ sent'[i] = sent[i]
        BY <3>1, SendFacts DEF Inv, Chunks
      <4>2. sent[i].offset \in Nat
        <5>1. sent[i] \in Chunk
          BY <3>1, SendFacts, ElementOfSeq, LenProperties
        <5> QED
          BY <5>1 DEF Chunk
      <4> QED
        BY <4>1, <4>2, SendFacts DEF IsChunk
    <3>2. CASE i = Len(sent) + 1
      <4>1. sent'[i] = chunk /\ position \in chunk.offset..position
        BY <3>2, SendFacts
      <4> QED
        BY <4>1, SendFacts DEF IsChunk
    <3> QED
      BY <3>1, <3>2, SendFacts
  <2> QED
    BY <1>1, <2>1, SendFacts DEF Chunks
<1> QED
  BY <1>6, <1>7, <1>8 DEF Inv

\* Every other step leaves the goroutine where it is in the stream.
LEMMA OtherInv ==
  ASSUME Inv,
         CheckContext \/ Decide \/ Report \/ CloseErrs \/ CloseOut
           \/ Consumer \/ Abandon \/ Cancel \/ UNCHANGED vars
  PROVE  Inv'
<1>1. /\ UNCHANGED <<carry, absoluteOffset, n, combined, position, sent, chunk, seen>>
      /\ pc \in {"scan", "send"} \/ pc' \in {"scan", "send"} => pc' = pc
  <2> USE DEF env, goVars, iterVars, channels
  <2>1. CASE CheckContext
    BY <2>1 DEF CheckContext
  <2>2. CASE Decide
    BY <2>2 DEF Decide, AfterRead
  <2>3. CASE Report \/ CloseErrs \/ CloseOut
    BY <2>3 DEF Report, CloseErrs, CloseOut
  <2>4. CASE Consumer \/ Abandon
    BY <2>4 DEF Consumer, Receive, EndOfChunks, ReceiveError, Abandon
  <2>5. CASE Cancel \/ UNCHANGED vars
    BY <2>5 DEF Cancel, vars
  <2> QED
    BY <2>1, <2>2, <2>3, <2>4, <2>5
<1>2. TailStart' = TailStart
  BY <1>1 DEF TailStart
<1>3. Positioned' /\ Chunks'
  BY <1>1, <1>2 DEF Inv, Positioned, Chunks
<1>4. TypeOK'
  <2> USE DEF Inv, TypeOK, Failures, Buffered, env, goVars, iterVars, channels, peer
  <2>1. CASE CheckContext
    BY <2>1 DEF CheckContext
  <2>2. CASE Decide
    BY <2>2 DEF Decide, AfterRead
  <2>3. CASE Report
    BY <2>3 DEF Report
  <2>4. CASE CloseErrs
    BY <2>4 DEF CloseErrs
  <2>5. CASE CloseOut
    BY <2>5 DEF CloseOut
  <2>6. CASE Receive
    <3>1. /\ Len(sent) \in Nat /\ received \in 0..Len(sent)
          /\ Len(sent) - received > 0 /\ Len(sent) - received <= OutCap
      BY <2>6, LenProperties DEF Receive
    <3>2. received' = received + 1 /\ sent' = sent
      BY <2>6 DEF Receive
    <3>3. received' \in 0..Len(sent') /\ Buffered' <= OutCap
      BY <3>1, <3>2, OptionsAssumption
    <3> QED
      BY <2>6, <3>3 DEF Receive
  <2>7. CASE EndOfChunks
    BY <2>7 DEF EndOfChunks
  <2>8. CASE ReceiveError
    BY <2>8 DEF ReceiveError
  <2>9. CASE Abandon
    BY <2>9 DEF Abandon
  <2>10. CASE Cancel
    BY <2>10 DEF Cancel
  <2>11. CASE UNCHANGED vars
    BY <2>11 DEF vars
  <2> QED
    BY <2>1, <2>2, <2>3, <2>4, <2>5, <2>6, <2>7, <2>8, <2>9, <2>10, <2>11 DEF Consumer
<1> QED
  BY <1>3, <1>4 DEF Inv

LEMMA NextInv == Inv /\ [Next]_vars => Inv'
<1> SUFFICES ASSUME Inv, [Next]_vars PROVE Inv'
  OBVIOUS
<1>1. CASE \E k \in 0..ChunkSize, e \in {"none", "eof", "failed"} : Read(k, e)
  BY <1>1, ReadInv
<1>2. CASE Scan
  BY <1>2, ScanInv
<1>3. CASE Send
  BY <1>3, SendInv
<1> QED
  BY <1>1, <1>2, <1>3, OtherInv DEF Next, Goroutine, Finished

LEMMA Invariance == Spec => []Inv
BY InitInv, NextInv, PTL DEF Spec

\* Every reachable state has the types the code declares: no window, offset or
\* queue ever leaves its bounds, for any options NewStreamScanner accepts.
THEOREM Typing == Spec => []TypeOK
<1>1. Inv => TypeOK
  BY DEF Inv
<1> QED
  BY <1>1, Invariance, PTL

\* Every chunk stands in the stream where its Offset says, whatever the sizes
\* of the reads.
THEOREM Offsets == Spec => []OffsetIsAbsolute
<1>1. Inv => OffsetIsAbsolute
  <2> SUFFICES ASSUME Inv, NEW i \in DOMAIN sent, NEW k \in DOMAIN sent[i].text
               PROVE  sent[i].text[k] = sent[i].offset + k
    BY DEF OffsetIsAbsolute
  <2>1. sent[i] \in Chunk
    BY ElementOfSeq, LenProperties DEF Inv, TypeOK
  <2>2. sent[i].offset \in Nat
    BY <2>1 DEF Chunk
  <2>3. absoluteOffset \in Nat /\ absoluteOffset <= StreamLen
    BY OptionsAssumption DEF Inv, TypeOK
  <2>4. PICK b \in sent[i].offset..absoluteOffset :
          sent[i].text = Window(sent[i].offset, b)
    BY DEF Inv, Chunks, IsChunk
  <2>5. PICK off \in Nat : off = sent[i].offset
    BY <2>2
  <2>6. b \in Nat /\ off <= b /\ b <= StreamLen
    BY <2>3, <2>5, OptionsAssumption
  <2>7. /\ DOMAIN Window(off, b) = 1..(b - off)
        /\ \A j \in 1..(b - off) : Window(off, b)[j] = off + j
    BY <2>6, WindowIsSeq
  <2> QED
    BY <2>4, <2>5, <2>7
<1> QED
  BY <1>1, Invariance, PTL

\* The bytes kept between two reads and the bytes of one window are bounded by
\* the options, not by the stream.
THEOREM BoundedWindows == Spec => []WindowIsBounded
<1>1. Inv => WindowIsBounded
  <2> SUFFICES ASSUME Inv PROVE WindowIsBounded
    OBVIOUS
  <2>1. /\ absoluteOffset \in Nat /\ absoluteOffset <= StreamLen
        /\ position \in Nat /\ position <= StreamLen /\ n \in Nat /\ n <= ChunkSize
    BY OptionsAssumption, OptionsFacts DEF Inv, TypeOK
  <2>2. TailStart \in Nat /\ TailStart <= absoluteOffset
    BY TailStartFacts DEF Inv
  <2>3. absoluteOffset - TailStart <= Overlap
    BY <2>1, OptionsFacts DEF TailStart
  <2>4. Len(carry) = absoluteOffset - TailStart
    <3>1. Len(Window(TailStart, absoluteOffset)) = absoluteOffset - TailStart
      BY <2>1, <2>2, WindowIsSeq
    <3> QED
      BY <3>1 DEF Inv, Positioned
  <2>5. CASE pc \in {"scan", "send"}
    <3>1. position = absoluteOffset + n /\ combined = Window(TailStart, position)
      BY <2>5 DEF Inv, Positioned
    <3>2. TailStart <= position
      BY <2>1, <2>2, <3>1
    <3>3. Len(combined) = position - TailStart
      BY <2>1, <2>2, <3>1, <3>2, WindowIsSeq
    <3> QED
      BY <2>1, <2>2, <2>3, <2>4, <3>1, <3>3, OptionsFacts DEF WindowIsBounded
  <2>6. CASE pc \notin {"scan", "send"}
    <3>1. Len(combined) = 0
      BY <2>6 DEF Inv, Positioned
    <3> QED
      BY <2>1, <2>2, <2>3, <2>4, <3>1, OptionsFacts DEF WindowIsBounded
  <2> QED
    BY <2>5, <2>6
<1> QED
  BY <1>1, Invariance, PTL

-----------------------------------------------------------------------------
(* The windows cover the stream *)

LEMMA CoverSent ==
  ASSUME Inv, WindowsCover, Send
  PROVE  WindowsCover'
<1>1. Len(chunk.text) = position - TailStart
  <2>1. Len(Window(TailStart, position)) = position - TailStart
    <3>1. TailStart <= position
      BY SendFacts
    <3> QED
      BY <3>1, SendFacts, WindowIsSeq
  <2> QED
    BY <2>1, SendFacts
<1>2. SUFFICES ASSUME NEW a \in 0..position, NEW b \in (a + 1)..position,
                      b - a <= Overlap + 1
               PROVE  \E i \in DOMAIN sent' :
                        /\ sent'[i].offset <= a
                        /\ b <= sent'[i].offset + Len(sent'[i].text)
  BY SendFacts DEF WindowsCover
<1>3. CASE b <= absoluteOffset
  <2>1. a \in 0..absoluteOffset /\ b \in (a + 1)..absoluteOffset
    BY <1>3, SendFacts
  <2>2. PICK i \in DOMAIN sent :
          sent[i].offset <= a /\ b <= sent[i].offset + Len(sent[i].text)
    BY <1>2, <2>1 DEF WindowsCover
  <2>3. i \in DOMAIN sent' /\ sent'[i] = sent[i]
    BY SendFacts
  <2> QED
    BY <2>2, <2>3
<1>4. CASE ~ (b <= absoluteOffset)
  <2>1. TailStart <= a
    BY <1>2, <1>4, SendFacts, OptionsFacts DEF TailStart
  <2>2. /\ Len(sent) + 1 \in DOMAIN sent' /\ sent'[Len(sent) + 1] = chunk
        /\ chunk.offset <= a /\ b <= chunk.offset + Len(chunk.text)
    BY <1>1, <2>1, SendFacts
  <2> QED
    BY <2>2
<1> QED
  BY <1>3, <1>4

\* A step other than Send puts nothing into the channel.
LEMMA NotSend ==
  ASSUME [Next]_vars, ~ Send
  PROVE  UNCHANGED <<sent, absoluteOffset>>
BY DEF Next, Goroutine, CheckContext, Read, Scan, Decide, Report, CloseErrs, CloseOut,
       Consumer, Receive, EndOfChunks, ReceiveError, Abandon, Cancel, Finished,
       vars, goVars, channels

\* Every span of at most Overlap + 1 bytes lies whole in one window: a pattern
\* that long can straddle any number of reads and still be scanned in one piece.
THEOREM Coverage == Spec => []WindowsCover
<1>1. Init => WindowsCover
  BY DEF Init, WindowsCover
<1>2. Inv /\ WindowsCover /\ [Next]_vars => WindowsCover'
  <2> SUFFICES ASSUME Inv, WindowsCover, [Next]_vars PROVE WindowsCover'
    OBVIOUS
  <2>1. CASE Send
    BY <2>1, CoverSent
  <2>2. CASE ~ Send
    BY <2>2, NotSend DEF WindowsCover
  <2> QED
    BY <2>1, <2>2
<1> QED
  BY <1>1, <1>2, Invariance, PTL DEF Spec

-----------------------------------------------------------------------------
(* Detections: none twice, none missed *)

\* Chunk c carries a detection of the span o.
Carries(c, o) == \E d \in c.dets : At(c.offset, d) = o

EmittedSpan(o) == \E i \in DOMAIN sent : Carries(sent[i], o)
PendingSpan(o) == pc = "send" /\ Carries(chunk, o)

\* Everything the detector found in the chunk's window has been emitted before
\* or is in the chunk.
Answered(c) == \A d \in Detect(c.text) : EmittedSpan(At(c.offset, d))

\* The keys in seen are those of the spans emitted or about to be.
SeenIsEmitted ==
  \A o \in StreamSpan : SpanKey(o) \in seen <=> EmittedSpan(o) \/ PendingSpan(o)

PendingIsNew == \A o \in StreamSpan : PendingSpan(o) => ~ EmittedSpan(o)

AllAnswered ==
  /\ \A i \in DOMAIN sent : sent[i].scanned => Answered(sent[i])
  /\ pc = "send" /\ chunk.scanned =>
       \A d \in Detect(chunk.text) : SpanKey(At(chunk.offset, d)) \in seen

OneChunk ==
  \A o \in StreamSpan : \A i, j \in DOMAIN sent :
    Carries(sent[i], o) /\ Carries(sent[j], o) => i = j

Emission == SeenIsEmitted /\ PendingIsNew /\ AllAnswered /\ OneChunk

\* A step other than Scan and Send emits nothing and prepares nothing.
LEMMA NotEmitting ==
  ASSUME [Next]_vars, ~ Send, ~ Scan
  PROVE  /\ UNCHANGED <<sent, seen>>
         /\ pc' = "send" <=> pc = "send"
         /\ pc = "send" => chunk' = chunk
<1> USE DEF goVars, iterVars, channels, vars
<1>1. CASE CheckContext \/ Decide
  BY <1>1 DEF CheckContext, Decide, AfterRead
<1>2. CASE \E k \in 0..ChunkSize, e \in {"none", "eof", "failed"} : Read(k, e)
  BY <1>2 DEF Read
<1>3. CASE Report \/ CloseErrs \/ CloseOut
  BY <1>3 DEF Report, CloseErrs, CloseOut
<1>4. CASE Consumer \/ Abandon \/ Cancel
  BY <1>4 DEF Consumer, Receive, EndOfChunks, ReceiveError, Abandon, Cancel
<1>5. CASE Finished \/ UNCHANGED vars
  BY <1>5 DEF Finished
<1> QED
  BY <1>1, <1>2, <1>3, <1>4, <1>5 DEF Next, Goroutine

LEMMA OtherEmission ==
  ASSUME Emission, [Next]_vars, ~ Send, ~ Scan
  PROVE  Emission'
<1>1. /\ sent' = sent /\ seen' = seen /\ (pc' = "send" <=> pc = "send")
      /\ pc = "send" => chunk' = chunk
  BY NotEmitting
<1>2. \A o : /\ EmittedSpan(o)' <=> EmittedSpan(o)
             /\ PendingSpan(o)' <=> PendingSpan(o)
  BY <1>1 DEF EmittedSpan, PendingSpan, Carries
<1>3. SeenIsEmitted' /\ PendingIsNew'
  BY <1>1, <1>2 DEF Emission, SeenIsEmitted, PendingIsNew
<1>4. AllAnswered'
  BY <1>1, <1>2 DEF Emission, AllAnswered, Answered
<1>5. OneChunk'
  BY <1>1 DEF Emission, OneChunk, Carries
<1> QED
  BY <1>3, <1>4, <1>5 DEF Emission

LEMMA ScanEmission ==
  ASSUME Inv, Emission, Scan
  PROVE  Emission'
<1> DEFINE dets == IF ctx = "live" THEN Detect(combined) ELSE {}
           key(d) == SpanKey(At(TailStart, d))
<1>1. \A d \in Detect(combined) :
        chunkSeenKey(combined, TailStart, d) = key(d) /\ At(TailStart, d) \in StreamSpan
  BY ScanFacts, KeyIsSpanKey
<1>2. /\ chunk' = [ text |-> combined, offset |-> TailStart,
                    dets |-> Fresh(dets, TailStart), scanned |-> ctx = "live" ]
      /\ seen' = seen \cup { chunkSeenKey(combined, TailStart, d) : d \in dets }
      /\ sent' = sent /\ pc = "scan" /\ pc' = "send"
  BY ScanFacts DEF Scan, channels
<1>3. ctx = "live" => dets = Detect(combined)
  OBVIOUS
<1>4. ctx # "live" => dets = {}
  OBVIOUS
<1> HIDE DEF dets
<1>5. dets \subseteq Detect(combined)
  BY <1>3, <1>4
<1>6. Fresh(dets, TailStart) = { d \in dets : key(d) \notin seen }
  BY <1>1, <1>5 DEF Fresh
<1>7. seen' = seen \cup { key(d) : d \in dets }
  BY <1>1, <1>2, <1>5
<1> HIDE DEF key
<1>8. \A o : EmittedSpan(o)' <=> EmittedSpan(o)
  BY <1>2 DEF EmittedSpan, Carries
<1>9. \A o \in StreamSpan :
        PendingSpan(o)' <=> \E d \in dets : At(TailStart, d) = o /\ key(d) \notin seen
  BY <1>2, <1>6 DEF PendingSpan, Carries
<1>10. \A o \in StreamSpan : \A d \in dets : key(d) = SpanKey(o) <=> At(TailStart, d) = o
  BY <1>1, <1>5, SpanKeyInjective DEF key
<1>11. \A o \in StreamSpan : SpanKey(o) \in seen <=> EmittedSpan(o)
  BY <1>2 DEF Emission, SeenIsEmitted, PendingSpan
<1>12. SeenIsEmitted'
  <2> SUFFICES ASSUME NEW o \in StreamSpan
               PROVE  SpanKey(o) \in seen' <=> EmittedSpan(o)' \/ PendingSpan(o)'
    BY DEF SeenIsEmitted, SpanKey, StreamSpan
  <2>1. SpanKey(o) \in seen' <=>
          SpanKey(o) \in seen \/ \E d \in dets : key(d) = SpanKey(o)
    BY <1>7
  <2>2. CASE SpanKey(o) \in seen
    BY <1>8, <1>11, <2>1, <2>2
  <2>3. CASE SpanKey(o) \notin seen
    <3>1. ~ EmittedSpan(o)'
      BY <1>8, <1>11, <2>3
    <3>2. PendingSpan(o)' <=> \E d \in dets : key(d) = SpanKey(o)
      BY <1>9, <1>10, <2>3
    <3> QED
      BY <2>1, <2>3, <3>1, <3>2
  <2> QED
    BY <2>2, <2>3
<1>13. PendingIsNew'
  <2> SUFFICES ASSUME NEW o \in StreamSpan, PendingSpan(o)'
               PROVE  ~ EmittedSpan(o)'
    BY DEF PendingIsNew, StreamSpan
  <2>1. SpanKey(o) \notin seen
    BY <1>9, <1>10
  <2> QED
    BY <1>8, <1>11, <2>1
<1>14. AllAnswered'
  <2>1. \A i \in DOMAIN sent : sent[i].scanned => Answered(sent[i])'
    BY <1>2, <1>8 DEF Emission, AllAnswered, Answered
  <2>2. chunk'.scanned => \A d \in Detect(chunk'.text) : SpanKey(At(chunk'.offset, d)) \in seen'
    <3>1. chunk'.text = combined /\ chunk'.offset = TailStart /\ chunk'.scanned = (ctx = "live")
      BY <1>2
    <3>2. ctx = "live" => \A d \in Detect(combined) : SpanKey(At(TailStart, d)) \in seen'
      BY <1>3, <1>7 DEF key
    <3> QED
      BY <3>1, <3>2
  <2> QED
    BY <1>2, <2>1, <2>2 DEF AllAnswered
<1>15. OneChunk'
  BY <1>2 DEF Emission, OneChunk, Carries
<1> QED
  BY <1>12, <1>13, <1>14, <1>15 DEF Emission

LEMMA SendEmission ==
  ASSUME Inv, Emission, Send
  PROVE  Emission'
<1>1. /\ pc = "send" /\ pc' = "decide" /\ seen' = seen
  BY DEF Send
<1>2. /\ DOMAIN sent' = DOMAIN sent \cup {Len(sent) + 1}
      /\ sent'[Len(sent) + 1] = chunk /\ Len(sent) + 1 \notin DOMAIN sent
      /\ \A i \in DOMAIN sent : sent'[i] = sent[i]
  BY SendFacts, LenProperties
<1>3. \A o : EmittedSpan(o)' <=> EmittedSpan(o) \/ PendingSpan(o)
  BY <1>1, <1>2 DEF EmittedSpan, PendingSpan, Carries
<1>4. \A o : ~ PendingSpan(o)'
  BY <1>1 DEF PendingSpan
<1>5. SeenIsEmitted' /\ PendingIsNew'
  BY <1>1, <1>3, <1>4 DEF Emission, SeenIsEmitted, PendingIsNew
<1>6. AllAnswered'
  <2> SUFFICES ASSUME NEW i \in DOMAIN sent', sent'[i].scanned
               PROVE  Answered(sent[i])' 
    BY <1>1 DEF AllAnswered
  <2>1. CASE i \in DOMAIN sent
    BY <1>2, <1>3, <2>1 DEF Emission, AllAnswered, Answered
  <2>2. CASE i = Len(sent) + 1
    <3>1. \A d \in Detect(chunk.text) : SpanKey(At(chunk.offset, d)) \in seen
      BY <1>1, <1>2, <2>2 DEF Emission, AllAnswered
    <3>2. \A d \in Detect(chunk.text) : At(chunk.offset, d) \in StreamSpan
      <4>1. \A d \in Detect(Window(TailStart, position)) : At(TailStart, d) \in StreamSpan
        <5>1. TailStart <= position
          BY SendFacts
        <5> QED
          BY <5>1, SendFacts, KeyIsSpanKey
      <4> QED
        BY <4>1, SendFacts
    <3>3. \A d \in Detect(chunk.text) :
            EmittedSpan(At(chunk.offset, d)) \/ PendingSpan(At(chunk.offset, d))
      BY <3>1, <3>2 DEF Emission, SeenIsEmitted
    <3>4. \A o : EmittedSpan(o) \/ PendingSpan(o) =>
                   \E j \in DOMAIN sent' : Carries(sent'[j], o)
      BY <1>2 DEF EmittedSpan, PendingSpan
    <3>5. \A d \in Detect(chunk.text) :
            \E j \in DOMAIN sent' : Carries(sent'[j], At(chunk.offset, d))
      BY <3>3, <3>4
    <3>6. \A d \in Detect(sent'[i].text) :
            \E j \in DOMAIN sent' : Carries(sent'[j], At(sent'[i].offset, d))
      BY <1>2, <2>2, <3>5
    <3> QED
      BY <3>6 DEF Answered, EmittedSpan, Carries
  <2> QED
    BY <1>2, <2>1, <2>2
<1>7. OneChunk'
  <2> SUFFICES ASSUME NEW o \in StreamSpan, NEW i \in DOMAIN sent', NEW j \in DOMAIN sent',
                      Carries(sent'[i], o), Carries(sent'[j], o)
               PROVE  i = j
    BY DEF OneChunk, StreamSpan, Carries
  <2>1. CASE i \in DOMAIN sent /\ j \in DOMAIN sent
    BY <1>2, <2>1 DEF Emission, OneChunk
  <2>2. CASE i = Len(sent) + 1 /\ j \in DOMAIN sent
    BY <1>1, <1>2, <2>2 DEF Emission, PendingIsNew, PendingSpan, EmittedSpan
  <2>3. CASE i \in DOMAIN sent /\ j = Len(sent) + 1
    BY <1>1, <1>2, <2>3 DEF Emission, PendingIsNew, PendingSpan, EmittedSpan
  <2> QED
    BY <1>2, <2>1, <2>2, <2>3
<1> QED
  BY <1>5, <1>6, <1>7 DEF Emission

LEMMA EmissionInvariance == Spec => [](Inv /\ Emission)
<1>1. Init => Emission
  BY DEF Init, Emission, SeenIsEmitted, PendingIsNew, AllAnswered, OneChunk,
         EmittedSpan, PendingSpan
<1>2. Inv /\ Emission /\ [Next]_vars => Emission'
  <2> SUFFICES ASSUME Inv, Emission, [Next]_vars PROVE Emission'
    OBVIOUS
  <2> QED
    BY ScanEmission, SendEmission, OtherEmission
<1> QED
  BY <1>1, <1>2, Invariance, PTL DEF Spec

\* No detection is emitted by two chunks, although consecutive windows share
\* the bytes of the carry.
THEOREM NoDuplicates == Spec => []EmittedOnce
<1>1. Inv /\ Emission => EmittedOnce
  <2> SUFFICES ASSUME Inv, Emission,
                      NEW i \in DOMAIN sent, NEW j \in DOMAIN sent,
                      NEW d \in sent[i].dets, NEW e \in sent[j].dets,
                      At(sent[i].offset, d) = At(sent[j].offset, e)
               PROVE  i = j
    BY DEF EmittedOnce
  <2>1. /\ sent[i].offset \in Nat
        /\ absoluteOffset \in Nat /\ absoluteOffset <= StreamLen
    <3>1. sent[i] \in Chunk
      BY ElementOfSeq, LenProperties DEF Inv, TypeOK
    <3> QED
      BY <3>1, OptionsAssumption DEF Inv, TypeOK, Chunk
  <2>2. PICK b \in sent[i].offset..absoluteOffset :
          sent[i].dets \subseteq Detect(Window(sent[i].offset, b))
    BY DEF Inv, Chunks, IsChunk
  <2>3. PICK off \in Nat : off = sent[i].offset
    BY <2>1
  <2>4. b \in Nat /\ off <= b /\ b <= StreamLen /\ d \in Detect(Window(off, b))
    BY <2>1, <2>2, <2>3, OptionsAssumption
  <2>5. At(off, d) \in StreamSpan
    BY <2>4, KeyIsSpanKey
  <2>6. Carries(sent[i], At(off, d)) /\ Carries(sent[j], At(off, d))
    BY <2>3 DEF Carries
  <2> QED
    BY <2>5, <2>6 DEF Emission, OneChunk
<1> QED
  BY <1>1, EmissionInvariance, PTL

\* What the detector finds in every window that holds it, and that is no longer
\* than the overlap covers, is emitted by the time the stream has been read
\* past it, if every chunk was scanned.
THEOREM NoneMissed == Spec => []NothingMissed
<1>1. Inv /\ Emission /\ WindowsCover => NothingMissed
  <2> SUFFICES ASSUME Inv, Emission, WindowsCover,
                      \A i \in DOMAIN sent : sent[i].scanned,
                      NEW o \in Expected,
                      o.end <= absoluteOffset, o.end - o.start <= Overlap + 1
               PROVE  \E i \in DOMAIN sent : \E d \in sent[i].dets :
                        At(sent[i].offset, d) = o
    BY DEF NothingMissed
  <2>1. /\ o.start \in Nat /\ o.end \in Nat /\ o.start < o.end /\ o.end <= StreamLen
        /\ \A a \in 0..o.start : \A b \in o.end..StreamLen :
             \E d \in Detect(Window(a, b)) : At(a, d) = o
    BY ExpectedAssumption DEF Span
  <2>2. absoluteOffset \in Nat /\ absoluteOffset <= StreamLen
    BY OptionsAssumption DEF Inv, TypeOK
  <2>3. o.start \in 0..absoluteOffset /\ o.end \in (o.start + 1)..absoluteOffset
    BY <2>1, <2>2
  <2>4. PICK i \in DOMAIN sent :
          sent[i].offset <= o.start /\ o.end <= sent[i].offset + Len(sent[i].text)
    BY <2>3 DEF WindowsCover
  <2>5. sent[i].offset \in Nat
    <3>1. sent[i] \in Chunk
      BY ElementOfSeq, LenProperties DEF Inv, TypeOK
    <3> QED
      BY <3>1 DEF Chunk
  <2>6. PICK b \in sent[i].offset..absoluteOffset :
          sent[i].text = Window(sent[i].offset, b)
    BY DEF Inv, Chunks, IsChunk
  <2>7. PICK off \in Nat : off = sent[i].offset
    BY <2>5
  <2>8. b \in Nat /\ off <= b /\ b <= StreamLen
    BY <2>2, <2>6, <2>7, OptionsAssumption
  <2>9. Len(Window(off, b)) = b - off
    BY <2>8, WindowIsSeq
  <2>10. off \in 0..o.start /\ b \in o.end..StreamLen
    BY <2>1, <2>4, <2>6, <2>7, <2>8, <2>9
  <2>11. PICK d \in Detect(Window(off, b)) : At(off, d) = o
    BY <2>1, <2>10
  <2>12. EmittedSpan(o)
    BY <2>6, <2>7, <2>11 DEF Emission, AllAnswered, Answered
  <2> QED
    BY <2>12 DEF EmittedSpan, Carries
<1> QED
  BY <1>1, EmissionInvariance, Coverage, PTL

-----------------------------------------------------------------------------
(* How the stream ends *)

\* An unscanned chunk is followed by nothing but the end.
LastWords ==
  /\ (\E i \in DOMAIN sent : ~ sent[i].scanned) =>
       ctx = "cancelled" /\ pc \notin {"read", "scan", "send"}
  /\ pc = "send" /\ ~ chunk.scanned => ctx = "cancelled"
  /\ UnscannedIsLast

Ending == {"closeErrs", "closeOut", "returned"}

\* The error is reported before the channels are closed, and the consumer gets
\* to the error channel only after both are.
Closing ==
  /\ errClosed <=> pc \in {"closeOut", "returned"}
  /\ outClosed <=> pc = "returned"
  /\ consumer \in {"errs", "done"} => outClosed /\ received = Len(sent)
  /\ pc = "report" => err \in {"failed", "cancelled"}
  /\ pc \notin Ending => errs = <<>> /\ failure = "none"
  /\ pc \in Ending =>
       \/ err = "eof" /\ errs = <<>> /\ failure = "none"
       \/ /\ err \in {"failed", "cancelled"}
          /\ \/ errs = <<err>> /\ consumer # "done"
             \/ consumer = "done" /\ failure = err

\* io.EOF means the whole stream was read, and, if it never comes with data,
\* that every chunk before it was scanned.
AtEof ==
  err = "eof" =>
    /\ position = StreamLen
    /\ ~ EofWithData => /\ pc \notin {"scan", "send", "read", "check"}
                        /\ \A i \in DOMAIN sent : sent[i].scanned

EndInv == LastWords /\ Closing /\ AtEof

LEMMA InitEnd == Init => EndInv
BY DEF Init, EndInv, LastWords, Closing, AtEof, UnscannedIsLast, Ending

LEMMA NextLastWords ==
  ASSUME Inv, EndInv, [Next]_vars
  PROVE  LastWords'
<1> USE DEF env, goVars, iterVars, channels, peer
<1>1. CASE Send
  <2>1. \A i \in DOMAIN sent : sent[i].scanned
    BY <1>1 DEF EndInv, LastWords, Send
  <2>2. /\ DOMAIN sent' = DOMAIN sent \cup {Len(sent) + 1}
        /\ sent'[Len(sent) + 1] = chunk /\ Len(sent') = Len(sent) + 1
        /\ \A i \in DOMAIN sent : sent'[i] = sent[i]
    BY <1>1, SendFacts
  <2>3. pc = "send" /\ pc' = "decide" /\ ctx' = ctx
    BY <1>1 DEF Send
  <2> QED
    BY <2>1, <2>2, <2>3 DEF EndInv, LastWords, UnscannedIsLast
<1>2. CASE ~ Send
  <2>1. sent' = sent
    BY <1>2, NotSend
  <2>2. ctx = "cancelled" => ctx' = "cancelled"
    BY <1>2 DEF Next, Goroutine, CheckContext, Read, Scan, Decide, Report, CloseErrs,
                CloseOut, Consumer, Receive, EndOfChunks, ReceiveError, Abandon, Cancel,
                Finished, vars
  <2>3. ctx = "cancelled" /\ pc \notin {"read", "scan", "send"} =>
          pc' \notin {"read", "scan", "send"}
    BY <1>2 DEF Next, Goroutine, CheckContext, Read, Scan, Decide, Report, CloseErrs,
                CloseOut, Consumer, Receive, EndOfChunks, ReceiveError, Abandon, Cancel,
                Finished, vars, CancelSeen, AfterRead
  <2>4. pc' = "send" /\ ~ chunk'.scanned => ctx' = "cancelled"
    <3>1. CASE Scan
      BY <3>1 DEF Scan, Inv, TypeOK
    <3>2. CASE ~ Scan
      BY <1>2, <2>2, <3>2, NotEmitting DEF EndInv, LastWords
    <3> QED
      BY <3>1, <3>2
  <2> QED
    BY <2>1, <2>2, <2>3, <2>4 DEF EndInv, LastWords, UnscannedIsLast
<1> QED
  BY <1>1, <1>2

LEMMA NextAtEof ==
  ASSUME Inv, EndInv, [Next]_vars
  PROVE  AtEof'
<1> USE DEF env, goVars, iterVars, channels, peer
<1>1. CASE CheckContext
  BY <1>1 DEF CheckContext, AtEof
<1>2. ASSUME NEW k \in 0..ChunkSize, NEW e \in {"none", "eof", "failed"}, Read(k, e)
      PROVE  AtEof'
  <2>1. k \in Nat /\ position \in Nat /\ StreamLen \in Nat
    BY OptionsFacts, OptionsAssumption DEF Inv, TypeOK
  <2>2. err' = e /\ position' = position + k /\ sent' = sent
    BY <1>2 DEF Read
  <2>3. ASSUME e = "eof" PROVE position' = StreamLen
    BY <1>2, <2>1, <2>2, <2>3 DEF Read
  <2>4. ASSUME e = "eof", ~ EofWithData
        PROVE  pc' = "decide" /\ \A i \in DOMAIN sent : sent[i].scanned
    <3>1. k = 0 /\ pc = "read"
      BY <1>2, <2>1, <2>4 DEF Read
    <3> QED
      BY <1>2, <3>1 DEF Read, EndInv, LastWords
  <2> QED
    BY <2>2, <2>3, <2>4 DEF AtEof
<1>3. CASE Send
  <2>1. CASE EofWithData \/ err # "eof"
    BY <1>3, <2>1 DEF Send, EndInv, AtEof
  <2>2. CASE ~ EofWithData /\ err = "eof"
    BY <1>3, <2>2 DEF Send, EndInv, AtEof
  <2> QED
    BY <2>1, <2>2
<1>4. CASE Scan \/ Decide \/ Report \/ CloseErrs \/ CloseOut
  BY <1>4 DEF Scan, Decide, Report, CloseErrs, CloseOut, EndInv, AtEof, AfterRead
<1>5. CASE Consumer \/ Abandon \/ Cancel \/ Finished \/ UNCHANGED vars
  BY <1>5 DEF Consumer, Receive, EndOfChunks, ReceiveError, Abandon, Cancel, Finished,
              vars, EndInv, AtEof
<1> QED
  BY <1>1, <1>2, <1>3, <1>4, <1>5 DEF Next, Goroutine

LEMMA NextClosing ==
  ASSUME Inv, EndInv, [Next]_vars
  PROVE  Closing'
<1> USE DEF env, goVars, iterVars, channels, peer, EndInv, Closing, Ending
<1>1. CASE CheckContext
  BY <1>1 DEF CheckContext
<1>2. CASE \E k \in 0..ChunkSize, e \in {"none", "eof", "failed"} : Read(k, e)
  BY <1>2 DEF Read
<1>3. CASE Scan
  BY <1>3 DEF Scan
<1>4. CASE Send
  BY <1>4 DEF Send
<1>5. CASE Decide
  BY <1>5 DEF Decide, AfterRead, Inv, TypeOK, Failures
<1>6. CASE Report
  BY <1>6 DEF Report
<1>7. CASE CloseErrs
  BY <1>7 DEF CloseErrs
<1>8. CASE CloseOut
  BY <1>8 DEF CloseOut
<1>9. CASE Receive
  BY <1>9 DEF Receive
<1>10. CASE EndOfChunks
  <2>1. Len(sent) \in Nat /\ received \in 0..Len(sent) /\ Len(sent) - received = 0
    BY <1>10, LenProperties DEF EndOfChunks, Drained, Buffered, Inv, TypeOK
  <2>2. received = Len(sent)
    BY <2>1
  <2> QED
    BY <1>10, <2>2 DEF EndOfChunks, Drained
<1>11. CASE ReceiveError
  BY <1>11 DEF ReceiveError
<1>12. CASE Abandon
  BY <1>12 DEF Abandon
<1>13. CASE Cancel
  BY <1>13 DEF Cancel
<1>14. CASE Finished \/ UNCHANGED vars
  BY <1>14 DEF Finished, vars
<1> QED
  BY <1>1, <1>2, <1>3, <1>4, <1>5, <1>6, <1>7, <1>8, <1>9, <1>10, <1>11, <1>12, <1>13,
     <1>14 DEF Next, Goroutine, Consumer

LEMMA EndInvariance == Spec => [](Inv /\ EndInv)
<1>1. Inv /\ EndInv /\ [Next]_vars => EndInv'
  BY NextLastWords, NextAtEof, NextClosing DEF EndInv
<1> QED
  BY <1>1, InitEnd, Invariance, PTL DEF Spec

\* A cancellation costs at most one unscanned chunk, the last of the stream.
THEOREM OneUnscanned == Spec => []UnscannedIsLast
<1>1. Inv /\ EndInv => UnscannedIsLast
  BY DEF EndInv, LastWords
<1> QED
  BY <1>1, EndInvariance, PTL

\* The receive from the error channel never blocks a consumer that has drained
\* the chunks.
THEOREM ErrorReady == Spec => []ErrorIsReady
<1>1. Inv /\ EndInv => ErrorIsReady
  BY DEF EndInv, Closing, ErrorIsReady
<1> QED
  BY <1>1, EndInvariance, PTL

\* If io.EOF never comes with data, a stream that ends without an error was
\* read to its end, delivered whole, and scanned whole.
THEOREM CleanEnd == ASSUME EofWithData = FALSE PROVE Spec => []CleanEndIsScanned
<1>1. Inv /\ EndInv => CleanEndIsScanned
  <2> SUFFICES ASSUME Inv, EndInv, consumer = "done", failure = "none"
               PROVE  /\ absoluteOffset = StreamLen
                      /\ received = Len(sent)
                      /\ \A i \in DOMAIN sent : sent[i].scanned
    BY DEF CleanEndIsScanned
  <2>1. pc = "returned" /\ received = Len(sent)
    BY DEF EndInv, Closing
  <2>2. err = "eof"
    BY <2>1 DEF EndInv, Closing, Ending
  <2>3. position = StreamLen /\ \A i \in DOMAIN sent : sent[i].scanned
    BY <2>2 DEF EndInv, AtEof
  <2>4. absoluteOffset = position
    BY <2>1 DEF Inv, Positioned
  <2> QED
    BY <2>1, <2>3, <2>4
<1> QED
  BY <1>1, EndInvariance, PTL

-----------------------------------------------------------------------------
(***************************************************************************)
(* The stream scanner implements the abstract stream: whatever the reads   *)
(* return, whoever cancels or gives up, and for every stream, accepted     *)
(* pair of options, channel and detector whose finds do not depend on the  *)
(* window.                                                                 *)
(***************************************************************************)
\* What is known of every state.
Known == Inv /\ EmittedOnce /\ NothingMissed /\ CleanEndIsScanned

LEMMA KnownHolds == ASSUME EofWithData = FALSE PROVE Spec => []Known
BY Invariance, NoDuplicates, NoneMissed, CleanEnd, PTL DEF Known

\* The spans of the chunk.
SpansOf(c) == { At(c.offset, d) : d \in c.dets }

\* A chunk carries detections of the whole text only.
LEMMA SpansAreOfWhole ==
  ASSUME Inv, FindsAreStable, NEW i \in 1..Len(sent)
  PROVE  SpansOf(sent[i]) \subseteq Whole
<1>1. sent[i].offset \in Nat /\ absoluteOffset \in Nat /\ absoluteOffset <= StreamLen
  <2>1. sent \in Seq(Chunk) /\ absoluteOffset \in 0..StreamLen
    BY DEF Inv, TypeOK
  <2>2. sent[i] \in Chunk
    BY <2>1
  <2> QED BY <2>1, <2>2, OptionsAssumption DEF Chunk
<1>2. DOMAIN sent = 1..Len(sent)
  BY DEF Inv, TypeOK
<1>3. PICK b \in sent[i].offset..absoluteOffset :
        sent[i].dets \subseteq Detect(Window(sent[i].offset, b))
  BY <1>2 DEF Inv, Chunks, IsChunk
<1>4. sent[i].offset \in 0..StreamLen /\ b \in sent[i].offset..StreamLen
  BY <1>1, <1>3, OptionsAssumption
<1> QED BY <1>3, <1>4 DEF SpansOf, FindsAreStable

\* The consumer has been given the spans of the chunks it received.
LEMMA FoundIsSpans == Found = UNION { SpansOf(sent[i]) : i \in 1..received }
BY DEF Found, SpansOf

LEMMA FoundIsOfWhole ==
  ASSUME Inv, FindsAreStable
  PROVE  Found \subseteq Whole
<1>1. 1..received \subseteq 1..Len(sent)
  BY DEF Inv, TypeOK
<1> QED BY <1>1, SpansAreOfWhole, FoundIsSpans

\* One more chunk brings what the consumer has not got yet.
LEMMA ReceiveDelivers ==
  ASSUME Known, FindsAreStable, Receive
  PROVE  Abstract!Deliver
<1> DEFINE i == received + 1
<1>1. /\ received' = i /\ UNCHANGED <<sent, consumer, failure>>
      /\ consumer = "chunks" /\ Buffered > 0
  BY DEF Receive, peer
<1>2. sent \in Seq(Chunk) /\ received \in 0..Len(sent) /\ Len(sent) \in Nat
  BY DEF Known, Inv, TypeOK
<1>3. i \in 1..Len(sent) /\ 1..i = (1..received) \cup {i} /\ i \notin 1..received
  BY <1>1, <1>2 DEF Buffered
<1> HIDE DEF i
<1>4. Found' = Found \cup SpansOf(sent[i])
  <2>1. Found' = UNION { SpansOf(sent[j]) : j \in 1..i }
    BY <1>1 DEF Found, SpansOf
  <2> QED BY <2>1, <1>3, FoundIsSpans
<1>5. SpansOf(sent[i]) \subseteq Whole
  BY <1>3, SpansAreOfWhole DEF Known
<1>6. ASSUME NEW o \in SpansOf(sent[i]), o \in Found PROVE FALSE
  <2>1. PICK j \in 1..received : o \in SpansOf(sent[j])
    BY <1>6, FoundIsSpans
  <2>2. PICK d \in sent[i].dets : At(sent[i].offset, d) = o
    BY <1>6 DEF SpansOf
  <2>3. PICK e \in sent[j].dets : At(sent[j].offset, e) = o
    BY <2>1 DEF SpansOf
  <2>4. j \in DOMAIN sent /\ i \in DOMAIN sent
    BY <1>2, <1>3
  <2>5. i = j
    BY <2>2, <2>3, <2>4 DEF Known, EmittedOnce
  <2> QED BY <2>5, <1>3
<1>7. SpansOf(sent[i]) \in SUBSET (Whole \ Found)
  BY <1>5, <1>6
<1>8. Status = "open" /\ Status' = "open"
  BY <1>1 DEF Status
<1> QED BY <1>4, <1>7, <1>8 DEF Abstract!Deliver

\* A clean end comes only when everything has been given.
LEMMA EndCompletes ==
  ASSUME Known, Known', FindsAreStable, ReceiveError
  PROVE  Abstract!Complete \/ Abstract!Fail
<1>1. /\ consumer = "errs" /\ consumer' = "done"
      /\ UNCHANGED <<sent, received, absoluteOffset>>
  BY DEF ReceiveError, channels, goVars
<1>2. Status = "open" /\ Found' = Found
  BY <1>1 DEF Status, Found
<1>3. CASE failure' # "none"
  <2>1. Status' = "failed"
    BY <1>1, <1>3 DEF Status
  <2> QED BY <2>1, <1>2 DEF Abstract!Fail
<1>4. CASE failure' = "none"
  <2>1. Status' = "complete"
    BY <1>1, <1>4 DEF Status
  <2>2. /\ absoluteOffset = StreamLen /\ received = Len(sent)
        /\ \A i \in DOMAIN sent : sent[i].scanned
    BY <1>1, <1>4 DEF Known, CleanEndIsScanned
  <2>3. sent \in Seq(Chunk) /\ DOMAIN sent = 1..Len(sent)
    BY DEF Known, Inv, TypeOK
  <2>4. ASSUME NEW o \in Whole PROVE o \in Found
    <3>1. o \in Expected /\ o.end <= StreamLen /\ o.end - o.start <= Overlap + 1
      BY ExpectedAssumption DEF FindsAreStable
    <3>2. PICK i \in DOMAIN sent : \E d \in sent[i].dets : At(sent[i].offset, d) = o
      BY <2>2, <3>1 DEF Known, NothingMissed
    <3>3. i \in 1..received /\ o \in SpansOf(sent[i])
      BY <2>2, <2>3, <3>2 DEF SpansOf
    <3> QED BY <3>3, FoundIsSpans
  <2>5. Found = Whole
    BY <2>4, FoundIsOfWhole DEF Known
  <2> QED BY <2>1, <2>5, <1>2 DEF Abstract!Complete
<1> QED BY <1>3, <1>4

\* Nothing else shows.
LEMMA OthersStutter ==
  ASSUME Known, [Next]_vars, ~ Receive, ~ ReceiveError
  PROVE  UNCHANGED <<Found, Status>>
<1> USE DEF channels, peer
<1>1. sent \in Seq(Chunk) /\ received \in 0..Len(sent) /\ Len(sent) \in Nat
  BY DEF Known, Inv, TypeOK
<1>2. CASE Send
  <2>1. UNCHANGED <<received, consumer, failure>> /\ sent' = Append(sent, chunk)
    BY <1>2 DEF Send
  <2>2. \A i \in 1..received : sent'[i] = sent[i]
    BY <1>1, <2>1
  <2>3. Found' = UNION { SpansOf(sent'[i]) : i \in 1..received }
    BY <2>1 DEF Found, SpansOf
  <2>4. { SpansOf(sent'[i]) : i \in 1..received } = { SpansOf(sent[i]) : i \in 1..received }
    BY <2>2
  <2>5. Found' = Found
    BY <2>3, <2>4, FoundIsSpans
  <2> QED BY <2>1, <2>5 DEF Status
<1>3. CASE EndOfChunks \/ Abandon
  <2>1. /\ UNCHANGED <<sent, received>> /\ consumer = "chunks"
        /\ consumer' \in {"errs", "gone"}
    BY <1>3 DEF EndOfChunks, Abandon
  <2> QED BY <2>1 DEF Found, Status
<1>4. CASE UNCHANGED <<sent, received, consumer, failure>>
  BY <1>4 DEF Found, Status
<1>5. CheckContext => UNCHANGED <<sent, received, consumer, failure>>
  BY DEF CheckContext
<1>6. ASSUME NEW k \in 0..ChunkSize, NEW e \in {"none", "eof", "failed"}, Read(k, e)
      PROVE  UNCHANGED <<sent, received, consumer, failure>>
  BY <1>6 DEF Read
<1>7. Scan \/ Decide \/ Report \/ CloseErrs \/ CloseOut
        => UNCHANGED <<sent, received, consumer, failure>>
  BY DEF Scan, Decide, Report, CloseErrs, CloseOut
<1>8. Cancel \/ Finished \/ UNCHANGED vars
        => UNCHANGED <<sent, received, consumer, failure>>
  BY DEF Cancel, Finished, vars
<1> QED
  BY <1>2, <1>3, <1>4, <1>5, <1>6, <1>7, <1>8 DEF Next, Goroutine, Consumer

\* The consumer is given the detections of the whole text, each once, and told
\* that the stream is complete only when it has all of them: for every detector
\* whose finds do not depend on the window and are no longer than the overlap
\* covers, and every reader that reports io.EOF without bytes (stream.go:55-125,
\* main.go:227-236).
THEOREM StreamRefinement ==
  ASSUME EofWithData = FALSE, FindsAreStable
  PROVE  Spec => Delivers
<1>1. Init => Abstract!Init
  BY DEF Init, Abstract!Init, Found, Status
<1>2. ASSUME Known, Known', [Next]_vars
      PROVE  [Abstract!Next]_(Abstract!vars)
  <2>1. CASE Receive
    BY <1>2, <2>1, ReceiveDelivers DEF Abstract!Next
  <2>2. CASE ReceiveError
    BY <1>2, <2>2, EndCompletes DEF Abstract!Next
  <2>3. CASE ~ Receive /\ ~ ReceiveError
    BY <1>2, <2>3, OthersStutter DEF Abstract!vars
  <2> QED BY <2>1, <2>2, <2>3
<1> QED
  BY <1>1, <1>2, KnownHolds, PTL DEF Spec, Delivers, Abstract!Spec
=============================================================================
