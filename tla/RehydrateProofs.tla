-------------------------- MODULE RehydrateProofs --------------------------
(***************************************************************************)
(* What reversible anonymization promises, for texts and replies of any    *)
(* length and any set of them.                                             *)
(***************************************************************************)
EXTENDS Rehydrate, ScanProofs

\* What AnonymizeWithMap replaces in t, and the tokens it can leave in it.
Bindings(t) == buildPlaceholders(resolveOverlaps(Scanned(t)))

Left(t) == ToSet(t) \union { Bindings(t)[k].placeholder : k \in DOMAIN Bindings(t) }

\* f[k] is the text t when the first k bindings are still to be replaced.
RoundsOf(f, t) ==
  /\ f \in [0..Len(Bindings(t)) -> Seq(Left(t))]
  /\ f[Len(Bindings(t))] = t
  /\ \A k \in 1..Len(Bindings(t)) : f[k - 1] = Replaced(f[k], Bindings(t)[k])
  /\ f[0] = Anonymize(t, Scanned(t))

\* What is left of t and what comes behind it when a round begins and ends.
Opens(r, t, b, W)  == r = SubSeq(t, 1, b.detection.end) \o W
Closes(r, t, b, W) ==
  r = SubSeq(t, 1, b.detection.start) \o (<<b.placeholder>> \o W)

\* The detections of a text of the model are in reading order.
LEMMA BindingsInOrder ==
  ASSUME NEW t \in Texts
  PROVE  /\ t \in Seq(ToSet(t)) /\ t \in Seq(Left(t))
         /\ InReadingOrder(Bindings(t), Len(t))
         /\ Numbers(Bindings(t), ToSet(Scanned(t)))
         /\ Anonymize(t, Scanned(t)) = AllReplaced(Bindings(t), t)
         /\ \A k \in DOMAIN Bindings(t) : Bindings(t)[k].placeholder \in Left(t)
         /\ Len(Bindings(t)) \in Nat
<1> DEFINE F == runBuiltins(t, Builtins) \union runNamePass(t)
           r == Scanned(t)
           bs == Bindings(t)
           S == ToSet(t)
           L == Left(t)
<1>1. IsText(t)
  BY RehydrateAssumption DEF IsText
<1>2. t \in Seq(S) /\ S \subseteq L
  BY <1>1 DEF IsText, Left
<1>3. SoundIn(F, Len(t))
  BY <1>1, BuiltinsAreSound, NamesAreSound, SoundUnion
<1>4. r = resolveOverlaps(SetToSeq(F)) /\ bs = buildPlaceholders(resolveOverlaps(r))
  BY DEF Scanned, Bindings
<1>5. \A k \in DOMAIN bs : bs[k].placeholder \in L
  BY DEF Left
<1> HIDE DEF F, r, bs, S, L
<1>6. /\ InReadingOrder(bs, Len(t)) /\ Numbers(bs, ToSet(r))
      /\ Anonymize(t, r) = AllReplaced(bs, t)
  BY <1>1, <1>3, <1>4, AnonymizedText
<1>7. t \in Seq(L)
  BY <1>2
<1>8. Len(bs) \in Nat
  BY <1>6 DEF InReadingOrder
<1> QED BY <1>2, <1>5, <1>6, <1>7, <1>8 DEF r, bs, S, L

\* The rounds exist.
LEMMA Rounds ==
  ASSUME NEW t \in Texts
  PROVE  \E f : RoundsOf(f, t)
<1> DEFINE bs == Bindings(t)
           L == Left(t)
<1>1. /\ t \in Seq(L) /\ InReadingOrder(bs, Len(t))
      /\ \A k \in DOMAIN bs : bs[k].placeholder \in L
      /\ Anonymize(t, Scanned(t)) = AllReplaced(bs, t)
  BY BindingsInOrder
<1> HIDE DEF bs, L
<1>2. PICK f \in [0..Len(bs) -> Seq(L)] :
        /\ f[Len(bs)] = t
        /\ \A k \in 1..Len(bs) : f[k - 1] = Replaced(f[k], bs[k])
        /\ AllReplaced(bs, t) = f[0]
  BY <1>1, ReplacedSteps
<1>3. f[0] = Anonymize(t, Scanned(t))
  BY <1>1, <1>2
<1>4. RoundsOf(f, t)
  BY <1>2, <1>3 DEF RoundsOf, bs, L
<1> QED BY <1>4

\* Every round finds its span where it was in the text.
LEMMA RoundsSplice ==
  ASSUME NEW t \in Texts, NEW f, RoundsOf(f, t)
  PROVE  \A k \in 1..Len(Bindings(t)) : \E W \in Seq(Left(t)) :
           /\ Opens(f[k], t, Bindings(t)[k], W)
           /\ Closes(f[k - 1], t, Bindings(t)[k], W)
<1> DEFINE bs == Bindings(t)
           L == Left(t)
           n == Len(t)
           m == Len(bs)
           s(k) == bs[k].detection.start
           e(k) == bs[k].detection.end
           High(k) == IF k = m THEN n ELSE s(k + 1)
           Holds(k) == \E W \in Seq(L) : f[k] = SubSeq(t, 1, High(k)) \o W
           I == { j \in 0..m : Holds(m - j) }
<1>1. /\ t \in Seq(L) /\ InReadingOrder(bs, Len(t)) /\ m \in Nat
      /\ \A k \in DOMAIN bs : bs[k].placeholder \in L
  BY BindingsInOrder
<1>2. n \in Nat
  BY <1>1
<1>3. /\ f[m] = t
      /\ \A k \in 1..m : f[k - 1] = Replaced(f[k], bs[k])
  BY DEF RoundsOf
<1> HIDE DEF L, bs
<1>4. SplicesIn(L, t, bs)
  BY <1>1, ReplacedBinding
<1>5. DOMAIN bs = 1..m
  BY <1>1 DEF InReadingOrder
<1>6. /\ \A k \in 1..m : /\ s(k) \in Int /\ e(k) \in Int
                         /\ 0 <= s(k) /\ s(k) < e(k) /\ e(k) <= n
      /\ \A j, k \in 1..m : j < k => e(j) <= s(k)
  BY <1>1, <1>5 DEF InReadingOrder
<1> HIDE DEF m, n
<1>7. ASSUME NEW k \in 1..m, Holds(k)
      PROVE  /\ Holds(k - 1)
             /\ \E W \in Seq(L) : Opens(f[k], t, bs[k], W) /\ Closes(f[k - 1], t, bs[k], W)
  <2> DEFINE h == High(k)
             x == s(k)
             y == e(k)
  <2>1. /\ x \in Int /\ y \in Int /\ 0 <= x /\ x < y /\ y <= n
    BY <1>6
  <2>2. h \in Int /\ y <= h /\ h <= n
    <3>1. CASE k = m
      BY <1>2, <2>1, <3>1
    <3>2. CASE k # m
      <4>1. k + 1 \in 1..m /\ k < k + 1
        BY <1>1, <3>2
      <4>2. e(k) <= s(k + 1) /\ s(k + 1) \in Int /\ s(k + 1) < e(k + 1) /\ e(k + 1) <= n /\ e(k + 1) \in Int
        BY <1>6, <4>1
      <4>3. h = s(k + 1)
        BY <3>2
      <4> QED BY <1>2, <4>2, <4>3
    <3> QED BY <3>1, <3>2
  <2>3. PICK V \in Seq(L) : f[k] = SubSeq(t, 1, h) \o V
    BY <1>7
  <2> HIDE DEF h
  <2> DEFINE B == SubSeq(t, y + 1, h)
             W == B \o V
  <2>4. SubSeq(t, 1, h) = SubSeq(t, 1, y) \o B /\ B \in Seq(L) /\ SubSeq(t, 1, y) \in Seq(L)
    <3> HIDE DEF x, y
    <3> QED BY <1>1, <1>2, <2>1, <2>2 DEF n
  <2> HIDE DEF B
  <2>5. W \in Seq(L)
    BY <2>4
  <2>6. f[k] = SubSeq(t, 1, y) \o W
    <3> DEFINE A == SubSeq(t, 1, y)
    <3>1. \A a, b, c \in Seq(L) : (a \o b) \o c = a \o (b \o c)
      OBVIOUS
    <3>2. A \in Seq(L) /\ f[k] = (A \o B) \o V
      BY <2>3, <2>4
    <3> HIDE DEF A
    <3>3. (A \o B) \o V = A \o (B \o V)
      BY <2>4, <3>1, <3>2
    <3> QED BY <3>2, <3>3 DEF A
  <2> HIDE DEF W
  <2>7. Opens(f[k], t, bs[k], W)
    BY <2>6 DEF Opens
  <2>8. f[k - 1] = SubSeq(t, 1, x) \o (<<bs[k].placeholder>> \o W)
    <3>1. f[k - 1] = Replaced(SubSeq(t, 1, y) \o W, bs[k])
      BY <1>3, <2>6
    <3>2. Replaced(SubSeq(t, 1, y) \o W, bs[k]) = SubSeq(t, 1, x) \o (<<bs[k].placeholder>> \o W)
      BY <1>4, <1>5, <2>5, Zenon DEF SplicesIn
    <3> QED BY <3>1, <3>2
  <2>9. Closes(f[k - 1], t, bs[k], W)
    BY <2>8 DEF Closes
  <2>10. Holds(k - 1)
    <3>1. High(k - 1) = x
      <4>1. k - 1 # m /\ (k - 1) + 1 = k
        BY <1>1
      <4> QED BY <4>1
    <3> DEFINE q == bs[k].placeholder
    <3>2. q \in L
      BY <1>1, <1>5
    <3> HIDE DEF q
    <3>3. <<q>> \o W \in Seq(L)
      BY <2>5, <3>2
    <3> QED BY <2>8, <3>1, <3>3 DEF q
  <2> QED BY <2>5, <2>7, <2>9, <2>10
<1>8. Holds(m)
  <2>1. t = SubSeq(t, 1, n) \o <<>> /\ <<>> \in Seq(L)
    BY <1>1 DEF n
  <2>2. High(m) = n
    OBVIOUS
  <2> QED BY <1>3, <2>1, <2>2
<1> HIDE DEF Holds
<1>9. 0 \in I
  BY <1>1, <1>8
<1>10. ASSUME NEW j \in 0..(m - 1), j \in I PROVE j + 1 \in I
  <2>1. m - j \in 1..m /\ (m - j) - 1 = m - (j + 1) /\ j + 1 \in 0..m
    BY <1>1
  <2>2. Holds(m - j)
    BY <1>10
  <2>3. Holds((m - j) - 1)
    BY <1>7, <2>1, <2>2
  <2> QED BY <2>1, <2>3
<1>11. \A j \in 0..m : j \in I
  <2> HIDE DEF I
  <2> QED BY <1>1, <1>9, <1>10, InductionUpTo
<1>12. ASSUME NEW k \in 1..m PROVE Holds(k)
  <2>1. m - k \in 0..m /\ m - (m - k) = k
    BY <1>1
  <2>2. Holds(m - (m - k))
    BY <1>11, <2>1
  <2> QED BY <2>1, <2>2
<1> QED BY <1>7, <1>12 DEF bs, L, m

-----------------------------------------------------------------------------
(***************************************************************************)
(* AnonymizeWithMap                                                        *)
(***************************************************************************)
Count == Len(bindings)

\* The text under way and the mappings so far are those of round i.
Known ==
  pc # "scan" => /\ text \in Texts /\ bindings = Bindings(text)
                 /\ i \in 0..Count
                 /\ pc # "anonymize" => i = 0

AtRound ==
  pc = "anonymize" => \E f : RoundsOf(f, text) /\ result = f[i]

Mapped ==
  /\ DOMAIN mappings = IF pc = "scan" THEN {}
                       ELSE { bindings[k].placeholder : k \in (i + 1)..Count }
  /\ \A p \in DOMAIN mappings :
       \E k \in (i + 1)..Count :
         /\ bindings[k].placeholder = p
         /\ mappings[p] = Original(bindings[k].detection)

\* Only Reidentify has a key under way.
Busy == current # {} => pc = "reidentify"

RoundInv == Known /\ AtRound /\ Mapped /\ SameTextAsAnonymize /\ Busy

LEMMA RoundInit == Init => RoundInv
BY DEF Init, RoundInv, Known, AtRound, Mapped, SameTextAsAnonymize, Busy

LEMMA BeginKeepsInv ==
  ASSUME RoundInv, NEW t \in Texts, Begin(t)
  PROVE  RoundInv'
<1>1. /\ pc = "scan" /\ pc' = "anonymize" /\ text' = t /\ result' = t
      /\ bindings' = Bindings(t) /\ i' = Len(bindings') /\ mappings' = mappings
  BY DEF Begin, Bindings
<1>2. Len(bindings') \in Nat
  BY <1>1, BindingsInOrder
<1>3. Known'
  BY <1>1, <1>2 DEF Known, Count
<1>4. AtRound'
  <2>1. PICK f : RoundsOf(f, t)
    BY Rounds
  <2>2. f[Len(bindings')] = t
    BY <1>1, <2>1 DEF RoundsOf
  <2> QED BY <1>1, <2>1, <2>2 DEF AtRound
<1>5. Mapped'
  <2>1. DOMAIN mappings = {}
    BY <1>1 DEF RoundInv, Mapped
  <2>2. (i' + 1)..Count' = {}
    BY <1>1, <1>2 DEF Count
  <2> QED BY <1>1, <2>1, <2>2 DEF Mapped
<1>6. SameTextAsAnonymize' /\ Busy'
  BY <1>1 DEF SameTextAsAnonymize, Begin, RoundInv, Busy
<1> QED BY <1>3, <1>4, <1>5, <1>6 DEF RoundInv

\* The span of the round is in the text, so that the mapping is made.
LEMMA RoundInText ==
  ASSUME RoundInv, pc = "anonymize", i > 0
  PROVE  /\ i \in 1..Count /\ i - 1 \in 0..Count
         /\ LET d == bindings[i].detection IN
            ~ (d.start < 0 \/ d.end > Len(result) \/ d.start >= d.end)
<1> DEFINE b == bindings[i]
           s == b.detection.start
           e == b.detection.end
           L == Left(text)
<1>1. text \in Texts /\ bindings = Bindings(text) /\ i \in 0..Count
  BY DEF RoundInv, Known
<1>2. /\ text \in Seq(L) /\ InReadingOrder(bindings, Len(text)) /\ Count \in Nat
  BY <1>1, BindingsInOrder DEF Count
<1>3. i \in 1..Count /\ i - 1 \in 0..Count
  BY <1>1, <1>2
<1>4. PICK f : RoundsOf(f, text) /\ result = f[i]
  BY DEF RoundInv, AtRound
<1>5. PICK W \in Seq(L) : Opens(result, text, b, W)
  BY <1>1, <1>3, <1>4, RoundsSplice DEF Count
<1>6. /\ s \in Int /\ e \in Int /\ 0 <= s /\ s < e /\ e <= Len(text)
  BY <1>2, <1>3 DEF InReadingOrder, Count
<1>7. result = SubSeq(text, 1, e) \o W
  BY <1>5 DEF Opens
<1> HIDE DEF L, s, e
<1>8. Len(result) >= e
  <2>1. SubSeq(text, 1, e) \in Seq(L) /\ Len(SubSeq(text, 1, e)) = e
    BY <1>2, <1>6
  <2>2. Len(result) = e + Len(W) /\ Len(W) \in Nat
    BY <1>7, <2>1
  <2> QED BY <1>6, <2>2
<1>9. Len(result) \in Nat
  <2>1. SubSeq(text, 1, e) \in Seq(L)
    BY <1>2, <1>6
  <2> QED BY <1>7, <2>1
<1> QED BY <1>3, <1>6, <1>8, <1>9 DEF s, e

LEMMA ReplaceKeepsInv ==
  ASSUME RoundInv, Replace
  PROVE  RoundInv'
<1> DEFINE b == bindings[i]
<1>1. /\ pc = "anonymize" /\ pc' = pc /\ i > 0 /\ i' = i - 1
      /\ text' = text /\ bindings' = bindings /\ result' = Replaced(result, b)
  BY DEF Replace
<1>2. /\ i \in 1..Count /\ i - 1 \in 0..Count
      /\ ~ (b.detection.start < 0 \/ b.detection.end > Len(result)
              \/ b.detection.start >= b.detection.end)
  BY <1>1, RoundInText
<1>3. mappings' = Assigned(mappings, b.placeholder, Original(b.detection))
  BY <1>2 DEF Replace
<1>4. /\ DOMAIN mappings' = {b.placeholder} \union DOMAIN mappings
      /\ mappings'[b.placeholder] = Original(b.detection)
      /\ \A p \in DOMAIN mappings \ {b.placeholder} : mappings'[p] = mappings[p]
  BY <1>3 DEF Assigned
<1>5. Known'
  BY <1>1, <1>2 DEF RoundInv, Known, Count
<1>6. AtRound'
  <2>1. PICK f : RoundsOf(f, text) /\ result = f[i]
    BY <1>1 DEF RoundInv, AtRound
  <2>2. f[i - 1] = Replaced(f[i], b)
    BY <1>1, <1>2, <2>1 DEF RoundsOf, RoundInv, Known, Count
  <2> QED BY <1>1, <2>1, <2>2 DEF AtRound
<1>7. Mapped'
  <2>1. \A p \in DOMAIN mappings :
          \E k \in (i + 1)..Count :
            /\ bindings[k].placeholder = p
            /\ mappings[p] = Original(bindings[k].detection)
    BY DEF RoundInv, Mapped
  <2>2. /\ Count' = Count
        /\ \A d : Original(d)' = SubSeq(text, d.start + 1, d.end)
    BY <1>1 DEF Count, Original
  <2>3. i..Count = {i} \union ((i + 1)..Count) /\ (i - 1) + 1 = i
    BY <1>2
  <2>4. DOMAIN mappings = { bindings[k].placeholder : k \in (i + 1)..Count }
    BY <1>1 DEF RoundInv, Mapped
  <2>5. DOMAIN mappings' = { bindings[k].placeholder : k \in i..Count }
    BY <1>4, <2>3, <2>4
  <2>6. \A p \in DOMAIN mappings' :
          \E k \in i..Count :
            /\ bindings[k].placeholder = p
            /\ mappings'[p] = Original(bindings[k].detection)
    <3> SUFFICES ASSUME NEW p \in DOMAIN mappings'
                 PROVE  \E k \in i..Count :
                          /\ bindings[k].placeholder = p
                          /\ mappings'[p] = Original(bindings[k].detection)
      OBVIOUS
    <3>1. CASE p = b.placeholder
      BY <1>4, <2>3, <3>1
    <3>2. CASE p # b.placeholder
      <4>1. p \in DOMAIN mappings /\ mappings'[p] = mappings[p]
        BY <1>4, <3>2
      <4>2. PICK k \in (i + 1)..Count :
              /\ bindings[k].placeholder = p
              /\ mappings[p] = Original(bindings[k].detection)
        BY <2>1, <4>1
      <4> QED BY <2>3, <4>1, <4>2
    <3> QED BY <3>1, <3>2
  <2>7. (i' + 1)..Count' = i..Count
    BY <1>1, <2>2, <2>3
  <2> QED BY <1>1, <2>5, <2>6, <2>7 DEF Mapped, Original
<1>8. SameTextAsAnonymize' /\ Busy'
  BY <1>1 DEF SameTextAsAnonymize, Replace, RoundInv, Busy
<1> QED BY <1>5, <1>6, <1>7, <1>8 DEF RoundInv

LEMMA AnonymizedKeepsInv ==
  ASSUME RoundInv, Anonymized
  PROVE  RoundInv'
<1>1. /\ pc = "anonymize" /\ pc' = "model" /\ i = 0
      /\ UNCHANGED <<text, bindings, i, result, mappings, current>>
  BY DEF Anonymized
<1>2. Known' /\ AtRound' /\ Busy'
  BY <1>1 DEF RoundInv, Known, AtRound, Count, Busy
<1>3. Mapped'
  BY <1>1 DEF RoundInv, Mapped, Count, Original
<1>4. SameTextAsAnonymize'
  <2>1. PICK f : RoundsOf(f, text) /\ result = f[i]
    BY <1>1 DEF RoundInv, AtRound
  <2>2. f[0] = Anonymize(text, Scanned(text))
    BY <2>1 DEF RoundsOf
  <2> QED BY <1>1, <2>1, <2>2 DEF SameTextAsAnonymize
<1> QED BY <1>2, <1>3, <1>4 DEF RoundInv

\* What comes later leaves the mappings alone.
LEMMA LaterKeepsInv ==
  ASSUME RoundInv, pc \notin {"scan", "anonymize"},
         pc' \notin {"scan", "anonymize", "model"},
         UNCHANGED <<text, bindings, i, mappings>>, Busy'
  PROVE  RoundInv'
<1>1. Known' /\ AtRound' /\ SameTextAsAnonymize'
  BY DEF RoundInv, Known, AtRound, SameTextAsAnonymize, Count
<1>2. Mapped'
  BY DEF RoundInv, Mapped, Count, Original
<1> QED BY <1>1, <1>2 DEF RoundInv

LEMMA RoundNext == RoundInv /\ [Next]_vars => RoundInv'
<1> SUFFICES ASSUME RoundInv, [Next]_vars PROVE RoundInv'
  OBVIOUS
<1>1. ASSUME NEW t \in Texts, Begin(t) PROVE RoundInv'
  BY <1>1, BeginKeepsInv
<1>2. CASE Replace
  BY <1>2, ReplaceKeepsInv
<1>3. CASE Anonymized
  BY <1>3, AnonymizedKeepsInv
<1>4. ASSUME NEW r \in Replies(result), Answer(r) PROVE RoundInv'
  <2>1. /\ pc = "model" /\ pc' = "reidentify"
        /\ UNCHANGED <<text, bindings, i, mappings>> /\ Busy'
    BY <1>4 DEF Answer, RoundInv, Busy
  <2> QED BY <2>1, LaterKeepsInv
<1>5. CASE Reidentify
  <2>1. ASSUME NEW p \in DOMAIN mappings, NextPlaceholder(p) PROVE RoundInv'
    <3>1. /\ pc = "reidentify" /\ UNCHANGED <<text, bindings, i, mappings, pc>>
          /\ Busy'
      BY <2>1 DEF NextPlaceholder, Busy
    <3> QED BY <3>1, LaterKeepsInv
  <2>2. ASSUME NEW p \in DOMAIN mappings, ReplaceFirst(p) \/ Gone(p)
        PROVE  RoundInv'
    <3>1. /\ pc = "reidentify" /\ UNCHANGED <<text, bindings, i, mappings, pc>>
          /\ Busy'
      BY <2>2 DEF ReplaceFirst, Gone, RoundInv, Busy
    <3> QED BY <3>1, LaterKeepsInv
  <2>3. CASE Return
    <3>1. /\ pc = "reidentify" /\ pc' = "done"
          /\ UNCHANGED <<text, bindings, i, mappings>> /\ Busy'
      BY <2>3 DEF Return, Busy
    <3> QED BY <3>1, LaterKeepsInv
  <2> QED BY <1>5, <2>1, <2>2, <2>3 DEF Reidentify
<1>6. CASE UNCHANGED vars
  BY <1>6 DEF vars, RoundInv, Known, AtRound, Mapped, SameTextAsAnonymize,
              Count, Original, Busy
<1> QED BY <1>1, <1>2, <1>3, <1>4, <1>5, <1>6 DEF Next

LEMMA RoundInvariant == Spec => []RoundInv
BY RoundInit, RoundNext, PTL DEF Spec

\* While spans are replaced from the right, those still to be replaced are
\* where they were in the text, for a text of any length (rehydrate.go:16-23).
THEOREM SpansKeepTheirPlace == Spec => []SpansStayInPlace
<1>1. ASSUME RoundInv PROVE SpansStayInPlace
  <2> SUFFICES ASSUME pc = "anonymize", NEW k \in 1..i
               PROVE  SubSeq(result, 1, bindings[k].detection.end)
                        = SubSeq(text, 1, bindings[k].detection.end)
    BY DEF SpansStayInPlace
  <2> DEFINE L == Left(text)
             e == bindings[i].detection.end
             x == bindings[k].detection.end
  <2>1. text \in Texts /\ bindings = Bindings(text) /\ i \in 0..Count
    BY <1>1 DEF RoundInv, Known
  <2>2. text \in Seq(L) /\ InReadingOrder(bindings, Len(text)) /\ Count \in Nat
    BY <2>1, BindingsInOrder DEF Count
  <2>3. i \in 1..Count /\ k \in 1..Count
    BY <2>1, <2>2
  <2>4. PICK f : RoundsOf(f, text) /\ result = f[i]
    BY <1>1 DEF RoundInv, AtRound
  <2>5. PICK W \in Seq(L) : Opens(result, text, bindings[i], W)
    BY <2>1, <2>3, <2>4, RoundsSplice DEF Count
  <2>6. result = SubSeq(text, 1, e) \o W
    BY <2>5 DEF Opens
  <2>7. /\ e \in Int /\ x \in Int /\ 0 <= x /\ x <= e /\ e <= Len(text)
    <3>1. /\ bindings[i].detection.start \in Int
          /\ e \in Int /\ e <= Len(text) /\ bindings[i].detection.start < e
          /\ x \in Int /\ 0 <= bindings[k].detection.start
          /\ bindings[k].detection.start < x /\ bindings[k].detection.start \in Int
      BY <2>2, <2>3 DEF InReadingOrder, Count
    <3>2. k < i => x <= bindings[i].detection.start
      BY <2>2, <2>3 DEF InReadingOrder, Count
    <3>3. k = i \/ k < i
      BY <2>3
    <3> QED BY <3>1, <3>2, <3>3
  <2> HIDE DEF L, e, x
  <2>8. SubSeq(SubSeq(text, 1, e) \o W, 1, x) = SubSeq(text, 1, x)
    <3> DEFINE A == SubSeq(text, 1, e)
    <3>1. A \in Seq(L) /\ Len(A) = e
      BY <2>2, <2>7
    <3>2. \A y \in 1..x : A[y] = text[y]
      BY <2>2, <2>7
    <3> HIDE DEF A
    <3>3. \A y \in 1..x : (A \o W)[y] = A[y]
      BY <2>7, <3>1
    <3>4. SubSeq(A \o W, 1, x) = [y \in 1..x |-> (A \o W)[y]]
      BY <2>7, <3>1
    <3>5. SubSeq(text, 1, x) = [y \in 1..x |-> text[y]]
      BY <2>2, <2>7
    <3> QED BY <3>2, <3>3, <3>4, <3>5 DEF A
  <2> QED BY <2>6, <2>8 DEF x
<1> QED BY <1>1, RoundInvariant, PTL

\* AnonymizeWithMap returns the text Anonymize returns (rehydrate.go:16-23).
THEOREM AnonymizedAlike == Spec => []SameTextAsAnonymize
<1>1. RoundInv => SameTextAsAnonymize
  BY DEF RoundInv
<1> QED BY <1>1, RoundInvariant, PTL

-----------------------------------------------------------------------------
(***************************************************************************)
(* Replacing every placeholder at once                                     *)
(***************************************************************************)
\* What a token stands for under the mappings M.
PieceOf(M, x) == IF x \in DOMAIN M THEN M[x] ELSE <<x>>

Pieces(M, s) == [k \in DOMAIN s |-> PieceOf(M, s[k])]

Expanded(M, s) == FlattenSeq(Pieces(M, s))

\* The mappings lead from some tokens to sequences of tokens.
MapsInto(M, T) == \A p \in DOMAIN M : M[p] \in Seq(T)

LEMMA PiecesType ==
  ASSUME NEW T, NEW M, MapsInto(M, T), NEW s \in Seq(T)
  PROVE  Pieces(M, s) \in Seq(Seq(T)) /\ Len(Pieces(M, s)) = Len(s)
<1>1. \A y \in T : <<y>> \in Seq(T)
  BY ShortSequences
<1>2. \A k \in DOMAIN s : PieceOf(M, s[k]) \in Seq(T)
  <2> SUFFICES ASSUME NEW k \in DOMAIN s PROVE PieceOf(M, s[k]) \in Seq(T)
    OBVIOUS
  <2> DEFINE y == s[k]
  <2>1. y \in T
    OBVIOUS
  <2> HIDE DEF y
  <2>2. PieceOf(M, y) \in Seq(T)
    BY <1>1, <2>1, Zenon DEF PieceOf, MapsInto
  <2> QED BY <2>2 DEF y
<1>3. DOMAIN s = 1..Len(s) /\ Len(s) \in Nat
  OBVIOUS
<1> DEFINE A == Seq(T)
           n == Len(s)
<1>4. Pieces(M, s) \in [1..n -> A]
  <2> HIDE DEF A
  <2>1. \A k \in DOMAIN s : PieceOf(M, s[k]) \in A
    BY <1>2 DEF A
  <2> QED BY <1>3, <2>1, Zenon DEF Pieces
<1> HIDE DEF n
<1>5. Pieces(M, s) \in Seq(A) /\ Len(Pieces(M, s)) = n
  <2> HIDE DEF A
  <2> DEFINE P == Pieces(M, s)
  <2>1. P \in [1..n -> A]
    BY <1>4
  <2>2. n \in Nat
    BY <1>3 DEF n
  <2> HIDE DEF P
  <2> QED BY <2>1, <2>2 DEF P
<1> QED BY <1>5 DEF n

\* Sequences expand part by part.
LEMMA ExpandedConcat ==
  ASSUME NEW T, NEW M, MapsInto(M, T), NEW s \in Seq(T), NEW t \in Seq(T)
  PROVE  Expanded(M, s \o t) = Expanded(M, s) \o Expanded(M, t)
<1> DEFINE A == Seq(T)
           P == Pieces(M, s)
           Q == Pieces(M, t)
           R == Pieces(M, s \o t)
           m == Len(s)
           n == Len(t)
<1>1. s \o t \in Seq(T) /\ m \in Nat /\ n \in Nat /\ Len(s \o t) = m + n
  OBVIOUS
<1>2. /\ P \in Seq(A) /\ Len(P) = m /\ Q \in Seq(A) /\ Len(Q) = n
      /\ R \in Seq(A) /\ Len(R) = m + n
  BY <1>1, PiecesType
<1>3. \A k \in 1..m : P[k] = PieceOf(M, s[k])
  BY DEF Pieces
<1>4. \A k \in 1..n : Q[k] = PieceOf(M, t[k])
  BY DEF Pieces
<1>5. \A k \in 1..(m + n) : R[k] = PieceOf(M, (s \o t)[k])
  <2>1. DOMAIN (s \o t) = 1..(m + n)
    BY <1>1
  <2> QED BY <2>1, Zenon DEF Pieces
<1>6. /\ \A k \in 1..m : (s \o t)[k] = s[k]
      /\ \A k \in 1..n : (s \o t)[m + k] = t[k]
  OBVIOUS
<1> HIDE DEF A, P, Q, R, m, n
<1>7. R = P \o Q
  <2>1. P \o Q \in Seq(A) /\ Len(P \o Q) = m + n
    BY <1>1, <1>2
  <2>2. ASSUME NEW k \in 1..(m + n) PROVE R[k] = (P \o Q)[k]
    <3>1. CASE k <= m
      <4>1. k \in 1..m
        BY <1>1, <3>1
      <4>2. (P \o Q)[k] = P[k]
        BY <1>2, <4>1
      <4>3. R[k] = PieceOf(M, s[k])
        BY <1>5, <1>6, <4>1
      <4> QED BY <1>3, <4>1, <4>2, <4>3
    <3>2. CASE ~ (k <= m)
      <4>1. k - m \in 1..n /\ m + (k - m) = k
        BY <1>1, <3>2
      <4>2. (P \o Q)[k] = Q[k - m]
        <5>1. \A B, C \in Seq(A) : \A j \in 1..Len(C) : (B \o C)[Len(B) + j] = C[j]
          OBVIOUS
        <5>2. (P \o Q)[m + (k - m)] = Q[k - m]
          BY <1>2, <4>1, <5>1
        <5> QED BY <4>1, <5>2
      <4>3. (s \o t)[k] = t[k - m]
        BY <1>6, <4>1
      <4>4. R[k] = PieceOf(M, t[k - m])
        BY <1>5, <4>3
      <4> QED BY <1>4, <4>1, <4>2, <4>4
    <3> QED BY <3>1, <3>2
  <2>3. \A B, C \in Seq(A) : Len(B) = Len(C) /\ (\A k \in 1..Len(B) : B[k] = C[k]) => B = C
    OBVIOUS
  <2> QED BY <1>2, <2>1, <2>2, <2>3
<1>8. FlattenSeq(P \o Q) = FlattenSeq(P) \o FlattenSeq(Q)
  BY <1>2, FlattenConcat DEF A
<1> QED BY <1>7, <1>8 DEF Expanded, P, Q, R

\* A sequence without keys expands to itself.
LEMMA ExpandedPlain ==
  ASSUME NEW T, NEW M, NEW s \in Seq(T),
         \A k \in DOMAIN s : s[k] \notin DOMAIN M
  PROVE  Expanded(M, s) = s
<1> DEFINE P == Pieces(M, s)
<1>1. P = [k \in DOMAIN s |-> <<s[k]>>]
  BY DEF Pieces, PieceOf
<1> HIDE DEF P
<1>2. FlattenSeq(P) = s
  BY <1>1, FlattenSingletons
<1> QED BY <1>2 DEF Expanded, P

\* A key expands to what it stands for.
LEMMA ExpandedKey ==
  ASSUME NEW T, NEW M, MapsInto(M, T), NEW p \in DOMAIN M
  PROVE  Expanded(M, <<p>>) = M[p]
<1> DEFINE q == M[p]
<1>1. Pieces(M, <<p>>) = <<q>>
  BY DEF Pieces, PieceOf
<1>2. q \in Seq(T)
  BY DEF MapsInto
<1> HIDE DEF q
<1>3. FlattenSeq(<<q>>) = q
  BY <1>2, FlattenOne
<1> QED BY <1>1, <1>3 DEF Expanded, q

\* Expanding gives tokens.
LEMMA ExpandedType ==
  ASSUME NEW T, NEW M, MapsInto(M, T), NEW s \in Seq(T)
  PROVE  Expanded(M, s) \in Seq(T)
BY PiecesType, FlattenType DEF Expanded

-----------------------------------------------------------------------------
(***************************************************************************)
(* Reidentify                                                              *)
(***************************************************************************)
\* The originals are pieces of the text.
LEMMA OriginalsAreText ==
  ASSUME RoundInv, pc # "scan"
  PROVE  MapsInto(mappings, ToSet(text))
<1> DEFINE S == ToSet(text)
<1>1. text \in Texts /\ bindings = Bindings(text) /\ i \in 0..Count
  BY DEF RoundInv, Known
<1>2. text \in Seq(S) /\ InReadingOrder(bindings, Len(text)) /\ Count \in Nat
  BY <1>1, BindingsInOrder DEF Count
<1>3. DOMAIN bindings = 1..Count
  BY <1>2 DEF InReadingOrder, Count
<1>4. /\ DOMAIN mappings = { bindings[k].placeholder : k \in (i + 1)..Count }
      /\ \A p \in DOMAIN mappings :
           \E k \in (i + 1)..Count :
             /\ bindings[k].placeholder = p
             /\ mappings[p] = Original(bindings[k].detection)
  BY DEF RoundInv, Mapped
<1>5. (i + 1)..Count \subseteq 1..Count
  BY <1>1, <1>2
<1>6. ASSUME NEW p \in DOMAIN mappings PROVE mappings[p] \in Seq(S)
  <2>1. PICK k \in (i + 1)..Count : mappings[p] = Original(bindings[k].detection)
    BY <1>4
  <2> DEFINE s == bindings[k].detection.start
             e == bindings[k].detection.end
  <2>2. s \in Int /\ e \in Int /\ 0 <= s /\ s < e /\ e <= Len(text)
    BY <1>2, <1>3, <1>5 DEF InReadingOrder
  <2>3. mappings[p] = SubSeq(text, s + 1, e)
    BY <2>1 DEF Original
  <2> HIDE DEF S, s, e
  <2> QED BY <1>2, <2>2, <2>3
<1> QED BY <1>6 DEF MapsInto

\* The originals of a text without placeholders hold none.
LEMMA FreshOriginals ==
  ASSUME RoundInv, pc # "scan", Fresh
  PROVE  OriginalsArePlain
<1> DEFINE S == ToSet(text)
           M == mappings
<1>1. \A y \in S : y \notin DOMAIN M
  BY DEF Fresh, ToSet
<1>2. MapsInto(M, S)
  BY OriginalsAreText
<1> HIDE DEF S, M
<1>3. \A p \in DOMAIN M : \A k \in DOMAIN M[p] : M[p][k] \notin DOMAIN M
  <2> SUFFICES ASSUME NEW p \in DOMAIN M, NEW k \in DOMAIN M[p]
               PROVE  M[p][k] \notin DOMAIN M
    OBVIOUS
  <2>1. M[p] \in Seq(S)
    BY <1>2 DEF MapsInto
  <2>2. M[p][k] \in S
    BY <2>1
  <2> QED BY <1>1, <2>2
<1> QED BY <1>3 DEF M, OriginalsArePlain

\* What Reidentify has still to replace in the reply, when replacing one
\* placeholder never brings back another.
Restoring ==
  pc \in {"reidentify", "done"} /\ OriginalsArePlain =>
    /\ reply \in Replies(Anonymize(text, Scanned(text)))
    /\ result \in Seq(ToSet(text) \union ToSet(reply))
    /\ Expanded(mappings, result) = Expanded(mappings, reply)
    /\ \A k \in DOMAIN result :
         result[k] \in DOMAIN mappings => result[k] \in todo \union current
    /\ \A p, q \in current : p = q
    /\ pc = "done" => todo = {} /\ current = {}

RestoreInv == RoundInv /\ Restoring

LEMMA AnswerKeepsRestoring ==
  ASSUME RestoreInv, NEW r \in Replies(result), Answer(r)
  PROVE  Restoring'
<1>1. /\ pc = "model" /\ pc' = "reidentify" /\ reply' = r /\ result' = r
      /\ todo' = DOMAIN mappings
      /\ UNCHANGED <<text, bindings, i, mappings, current>>
  BY DEF Answer
<1>2. text \in Texts /\ result = Anonymize(text, Scanned(text)) /\ current = {}
  BY <1>1 DEF RestoreInv, RoundInv, Known, SameTextAsAnonymize, Busy
<1>3. r \in Replies(Anonymize(text, Scanned(text)))
  BY <1>2
<1>4. r \in Seq(ToSet(r))
  BY <1>2, <1>3, RehydrateAssumption
<1>5. r \in Seq(ToSet(text) \union ToSet(r))
  <2> DEFINE A == ToSet(r)
             B == ToSet(text) \union A
  <2>1. A \subseteq B /\ r \in Seq(A)
    BY <1>4
  <2> HIDE DEF A, B
  <2>2. r \in Seq(B)
    BY <2>1
  <2> QED BY <2>2 DEF A, B
<1> QED BY <1>1, <1>2, <1>3, <1>5 DEF Restoring

\* A sequence is cut in two at one of its places.
Cut(T, s, at, A, B) ==
  /\ A \in Seq(T) /\ B \in Seq(T) /\ s[at] \in T
  /\ s = A \o (<<s[at]>> \o B)
  /\ \A x \in ToSet(A) \union ToSet(B) : \E k \in DOMAIN s : x = s[k]

LEMMA CutAt ==
  ASSUME NEW T, NEW s \in Seq(T), NEW at \in 1..Len(s)
  PROVE  Cut(T, s, at, SubSeq(s, 1, at - 1), SubSeq(s, at + 1, Len(s)))
<1> DEFINE A == SubSeq(s, 1, at - 1)
           B == SubSeq(s, at + 1, Len(s))
<1> DEFINE n == Len(s)
           p == s[at]
<1>1. n \in Nat /\ at \in Int /\ 1 <= at /\ at <= n /\ DOMAIN s = 1..n /\ p \in T
  OBVIOUS
<1>2. /\ A \in Seq(T) /\ Len(A) = at - 1
      /\ B \in Seq(T) /\ Len(B) = n - at
  OBVIOUS
<1>3. \A k \in 1..(at - 1) : A[k] = s[k]
  OBVIOUS
<1>4. \A k \in 1..(n - at) : B[k] = s[at + k]
  OBVIOUS
<1> DEFINE C == <<p>> \o B
<1> HIDE DEF n, p, A, B
<1>5. /\ C \in Seq(T) /\ Len(C) = n - at + 1 /\ C[1] = p
  BY <1>1, <1>2
<1>6. \A k \in 1..(n - at) : C[1 + k] = B[k]
  BY <1>1, <1>2
<1> HIDE DEF C
<1>7. A \o C \in Seq(T) /\ Len(A \o C) = n
  <2>1. \A D, E \in Seq(T) : D \o E \in Seq(T) /\ Len(D \o E) = Len(D) + Len(E)
    OBVIOUS
  <2>2. A \o C \in Seq(T) /\ Len(A \o C) = Len(A) + Len(C)
    BY <1>2, <1>5, <2>1
  <2>3. Len(A) + Len(C) = n
    BY <1>1, <1>2, <1>5
  <2> QED BY <2>2, <2>3
<1>8. \A D, E \in Seq(T) :
        /\ \A j \in 1..Len(D) : (D \o E)[j] = D[j]
        /\ \A j \in 1..Len(E) : (D \o E)[Len(D) + j] = E[j]
  OBVIOUS
<1>9. ASSUME NEW k \in 1..n PROVE s[k] = (A \o C)[k]
  <2>1. CASE k < at
    <3>1. k \in 1..(at - 1)
      BY <1>1, <2>1
    <3> QED BY <1>2, <1>3, <1>5, <1>8, <3>1
  <2>2. CASE k = at
    <3>1. 1 \in 1..Len(C) /\ (at - 1) + 1 = k
      BY <1>1, <1>5, <2>2
    <3>4. (A \o C)[Len(A) + 1] = C[1]
      BY <1>2, <1>5, <1>8, <3>1
    <3>2. (A \o C)[(at - 1) + 1] = C[1]
      BY <1>2, <3>4
    <3>3. (A \o C)[k] = p
      BY <1>5, <3>1, <3>2
    <3> QED BY <2>2, <3>3 DEF p
  <2>3. CASE at < k
    <3>1. /\ k - at \in 1..(n - at) /\ at + (k - at) = k
          /\ (at - 1) + (1 + (k - at)) = k /\ 1 + (k - at) \in 1..Len(C)
      BY <1>1, <1>5, <2>3
    <3>2. (A \o C)[(at - 1) + (1 + (k - at))] = C[1 + (k - at)]
      BY <1>2, <1>5, <1>8, <3>1
    <3>3. C[1 + (k - at)] = s[at + (k - at)]
      BY <1>4, <1>6, <3>1
    <3> QED BY <3>1, <3>2, <3>3
  <2>4. k < at \/ k = at \/ at < k
    BY <1>1
  <2> QED BY <2>1, <2>2, <2>3, <2>4
<1>10. s = A \o C
  <2>1. \A D, E \in Seq(T) :
          Len(D) = Len(E) /\ (\A k \in 1..Len(D) : D[k] = E[k]) => D = E
    OBVIOUS
  <2> QED BY <1>7, <1>9, <2>1 DEF n
<1>11. \A x \in ToSet(A) \union ToSet(B) : \E k \in DOMAIN s : x = s[k]
  <2>1. DOMAIN A = 1..(at - 1) /\ DOMAIN B = 1..(n - at)
    BY <1>2
  <2>2. \A k \in 1..(at - 1) : k \in 1..n
    BY <1>1
  <2>3. \A k \in 1..(n - at) : at + k \in 1..n
    BY <1>1
  <2> QED BY <1>1, <1>3, <1>4, <2>1, <2>2, <2>3 DEF ToSet
<1> QED BY <1>1, <1>2, <1>10, <1>11 DEF C, p, A, B, Cut

\* What a token of three sequences in a row is a token of.
LEMMA ThreeInARow ==
  ASSUME NEW T, NEW A \in Seq(T), NEW v \in Seq(T), NEW B \in Seq(T),
         NEW k \in DOMAIN ((A \o v) \o B)
  PROVE  ((A \o v) \o B)[k] \in ToSet(A) \union ToSet(v) \union ToSet(B)
<1> DEFINE l == Len(A)
           m == Len(v)
           n == Len(B)
<1>1. l \in Nat /\ m \in Nat /\ n \in Nat
  OBVIOUS
<1>2. A \o v \in Seq(T) /\ Len(A \o v) = l + m
  OBVIOUS
<1>3. k \in 1..((l + m) + n)
  BY <1>1, <1>2
<1>4. \A D, E \in Seq(T) :
        /\ \A j \in 1..Len(D) : (D \o E)[j] = D[j]
        /\ \A j \in 1..Len(E) : (D \o E)[Len(D) + j] = E[j]
  OBVIOUS
<1>5. /\ \A j \in 1..l : A[j] \in ToSet(A)
      /\ \A j \in 1..m : v[j] \in ToSet(v)
      /\ \A j \in 1..n : B[j] \in ToSet(B)
  BY DEF ToSet
<1>6. CASE k <= l
  <2>1. k \in 1..l /\ k \in 1..(l + m)
    BY <1>1, <1>3, <1>6
  <2>2. ((A \o v) \o B)[k] = (A \o v)[k] /\ (A \o v)[k] = A[k]
    BY <1>2, <1>4, <2>1
  <2> QED BY <1>5, <2>1, <2>2
<1>7. CASE l < k /\ k <= l + m
  <2>1. k - l \in 1..m /\ l + (k - l) = k /\ k \in 1..(l + m)
    BY <1>1, <1>3, <1>7
  <2>2. ((A \o v) \o B)[k] = (A \o v)[k]
    BY <1>2, <1>4, <2>1
  <2>3. (A \o v)[l + (k - l)] = v[k - l]
    BY <1>4, <2>1
  <2> QED BY <1>5, <2>1, <2>2, <2>3
<1>8. CASE l + m < k
  <2>1. k - (l + m) \in 1..n /\ (l + m) + (k - (l + m)) = k
    BY <1>1, <1>3, <1>8
  <2>2. ((A \o v) \o B)[(l + m) + (k - (l + m))] = B[k - (l + m)]
    BY <1>2, <1>4, <2>1
  <2> QED BY <1>5, <2>1, <2>2
<1> QED BY <1>1, <1>3, <1>6, <1>7, <1>8

\* Where replaceAll finds the placeholder p.
LEMMA FirstPlace ==
  ASSUME NEW T, result \in Seq(T), NEW p, Places(p) # {}
  PROVE  LET at == CHOOSE k \in Places(p) : \A j \in Places(p) : k <= j IN
         at \in 1..Len(result) /\ result[at] = p
<1> DEFINE at == CHOOSE k \in Places(p) : \A j \in Places(p) : k <= j
<1>1. Places(p) \subseteq Nat
  BY DEF Places
<1>2. \E k \in Places(p) : \A j \in Places(p) : k <= j
  BY <1>1, LeastNumber
<1>3. at \in Places(p)
  BY <1>2
<1> HIDE DEF at
<1>4. at \in 1..Len(result) /\ result[at] = p
  BY <1>3 DEF Places
<1> QED BY <1>4 DEF at

LEMMA ReplaceFirstKeepsRestoring ==
  ASSUME OriginalsArePlain, RestoreInv, pc = "reidentify",
         NEW p \in DOMAIN mappings, ReplaceFirst(p)
  PROVE  Restoring'
<1> DEFINE S == ToSet(text)
           T == ToSet(text) \union ToSet(reply)
           M == mappings
           at == CHOOSE k \in Places(p) : \A j \in Places(p) : k <= j
           A == SubSeq(result, 1, at - 1)
           B == SubSeq(result, at + 1, Len(result))
           v == M[p]
<1>1. /\ p \in current /\ Places(p) # {}
      /\ result' = A \o v \o B
      /\ UNCHANGED <<text, bindings, i, mappings, reply, todo, current, pc>>
  BY DEF ReplaceFirst
<1>2. /\ reply \in Replies(Anonymize(text, Scanned(text)))
      /\ result \in Seq(T)
      /\ Expanded(M, result) = Expanded(M, reply)
      /\ \A k \in DOMAIN result :
           result[k] \in DOMAIN M => result[k] \in todo \union current
      /\ \A x, y \in current : x = y
  BY DEF RestoreInv, Restoring
<1>3. MapsInto(M, S)
  BY OriginalsAreText DEF RestoreInv
<1>4. S \subseteq T
  OBVIOUS
<1>17. \A k \in DOMAIN v : v[k] \notin DOMAIN M
  BY DEF OriginalsArePlain
<1> HIDE DEF S, T, M
<1>5. MapsInto(M, T)
  BY <1>3, <1>4 DEF MapsInto
<1>6. v \in Seq(S) /\ v \in Seq(T)
  BY <1>3, <1>5 DEF MapsInto, M
<1> HIDE DEF v, at
<1>13. at \in 1..Len(result) /\ result[at] = p
  BY <1>1, <1>2, FirstPlace DEF at
<1>14. result \in Seq(T) /\ at \in 1..Len(result)
  BY <1>2, <1>13
<1>15. Cut(T, result, at, A, B)
  BY <1>14, CutAt
<1> HIDE DEF A, B
<1>16. /\ A \in Seq(T) /\ B \in Seq(T) /\ result[at] \in T
       /\ result = A \o (<<result[at]>> \o B)
       /\ \A x \in ToSet(A) \union ToSet(B) : \E k \in DOMAIN result : x = result[k]
  BY <1>15 DEF Cut
<1>7. p \in T /\ A \in Seq(T) /\ B \in Seq(T) /\ result = A \o (<<p>> \o B)
  BY <1>13, <1>16
<1>8. \A x \in ToSet(A) \union ToSet(B) : \E k \in DOMAIN result : x = result[k]
  BY <1>16
<1>9. \A x \in ToSet(v) : x \notin DOMAIN M
  BY <1>17 DEF ToSet
<1>10. result' \in Seq(T)
  BY <1>1, <1>6, <1>7
<1>11. Expanded(M, result') = Expanded(M, result)
  <2> DEFINE EA == Expanded(M, A)
             EB == Expanded(M, B)
  <2>1. EA \in Seq(T) /\ EB \in Seq(T)
    BY <1>5, <1>7, ExpandedType
  <2>2. <<p>> \in Seq(T) /\ <<p>> \o B \in Seq(T) /\ A \o v \in Seq(T)
    BY <1>6, <1>7
  <2>3. Expanded(M, <<p>>) = v
    BY <1>5, ExpandedKey DEF v, M
  <2>4. Expanded(M, v) = v
    <3>1. \A k \in DOMAIN v : v[k] \notin DOMAIN M
      BY <1>9 DEF ToSet
    <3> QED BY <1>6, <3>1, ExpandedPlain
  <2>10. \A x, y \in Seq(T) : Expanded(M, x \o y) = Expanded(M, x) \o Expanded(M, y)
    BY <1>5, ExpandedConcat
  <2>5. Expanded(M, <<p>> \o B) = v \o EB
    BY <1>7, <2>2, <2>3, <2>10, Zenon
  <2>6. Expanded(M, A \o v) = EA \o v
    BY <1>6, <1>7, <2>4, <2>10, Zenon
  <2>7. Expanded(M, A \o (<<p>> \o B)) = EA \o (v \o EB)
    BY <1>7, <2>2, <2>5, <2>10, Zenon
  <2>8. Expanded(M, (A \o v) \o B) = (EA \o v) \o EB
    BY <1>7, <2>2, <2>6, <2>10, Zenon
  <2> HIDE DEF EA, EB
  <2>9. (EA \o v) \o EB = EA \o (v \o EB)
    <3>1. \A a, b, c \in Seq(T) : (a \o b) \o c = a \o (b \o c)
      OBVIOUS
    <3> QED BY <1>6, <2>1, <3>1
  <2> QED BY <1>1, <1>7, <2>7, <2>8, <2>9
<1>12. ASSUME NEW k \in DOMAIN result', result'[k] \in DOMAIN M
       PROVE  result'[k] \in todo \union current
  <2>1. result'[k] \in ToSet(A) \union ToSet(v) \union ToSet(B)
    BY <1>1, <1>6, <1>7, <1>12, ThreeInARow
  <2>2. result'[k] \in ToSet(A) \union ToSet(B)
    BY <1>9, <1>12, <2>1
  <2>3. PICK j \in DOMAIN result : result'[k] = result[j]
    BY <1>8, <2>2
  <2> QED BY <1>2, <1>12, <2>3
<1> QED BY <1>1, <1>2, <1>10, <1>11, <1>12 DEF Restoring, M, T

LEMMA ReidentifyKeepsRestoring ==
  ASSUME OriginalsArePlain, RestoreInv, Reidentify
  PROVE  Restoring'
<1>1. ASSUME NEW p \in DOMAIN mappings, NextPlaceholder(p) PROVE Restoring'
  <2>1. /\ pc = "reidentify" /\ current = {} /\ p \in todo
        /\ current' = {p} /\ todo' = todo \ {p}
        /\ UNCHANGED <<text, result, mappings, reply, pc>>
    BY <1>1 DEF NextPlaceholder
  <2>2. todo' \union current' = todo \union current
    BY <2>1
  <2> QED BY <2>1, <2>2 DEF RestoreInv, Restoring
<1>2. ASSUME NEW p \in DOMAIN mappings, ReplaceFirst(p) PROVE Restoring'
  <2>1. pc = "reidentify"
    BY <1>2 DEF ReplaceFirst, RestoreInv, RoundInv, Busy
  <2> QED BY <1>2, <2>1, ReplaceFirstKeepsRestoring
<1>3. ASSUME NEW p \in DOMAIN mappings, Gone(p) PROVE Restoring'
  <2>1. /\ p \in current /\ current' = {} /\ Places(p) = {}
        /\ UNCHANGED <<text, result, mappings, reply, todo, pc>>
    BY <1>3 DEF Gone
  <2>2. pc = "reidentify"
    BY <2>1 DEF RestoreInv, RoundInv, Busy
  <2>3. \A k \in DOMAIN result : result[k] # p
    BY <2>1 DEF Places
  <2>4. \A q \in current : q = p
    BY <2>1, <2>2 DEF RestoreInv, Restoring
  <2>5. \A k \in DOMAIN result : result[k] \in DOMAIN mappings => result[k] \in todo
    BY <2>2, <2>3, <2>4 DEF RestoreInv, Restoring
  <2> QED BY <2>1, <2>2, <2>5 DEF RestoreInv, Restoring
<1>4. CASE Return
  <2>1. /\ pc = "reidentify" /\ current = {} /\ todo = {}
        /\ UNCHANGED <<text, result, mappings, reply, todo, current>>
    BY <1>4 DEF Return
  <2> QED BY <2>1 DEF RestoreInv, Restoring
<1> QED BY <1>1, <1>2, <1>3, <1>4 DEF Reidentify

LEMMA RestoreNext == RestoreInv /\ [Next]_vars => RestoreInv'
<1> SUFFICES ASSUME RestoreInv, [Next]_vars PROVE RestoreInv'
  OBVIOUS
<1>1. RoundInv'
  BY RoundNext DEF RestoreInv
<1>2. CASE (\E t \in Texts : Begin(t)) \/ Replace \/ Anonymized
  <2>1. pc' \notin {"reidentify", "done"}
    BY <1>2 DEF Begin, Replace, Anonymized
  <2> QED BY <1>1, <2>1 DEF RestoreInv, Restoring
<1>3. ASSUME NEW r \in Replies(result), Answer(r) PROVE RestoreInv'
  BY <1>1, <1>3, AnswerKeepsRestoring DEF RestoreInv
<1>4. CASE Reidentify
  <2>1. CASE OriginalsArePlain
    BY <1>1, <1>4, <2>1, ReidentifyKeepsRestoring DEF RestoreInv
  <2>2. CASE ~ OriginalsArePlain
    <3>1. mappings' = mappings
      BY <1>4 DEF Reidentify, NextPlaceholder, ReplaceFirst, Gone, Return
    <3>2. ~ OriginalsArePlain'
      BY <2>2, <3>1 DEF OriginalsArePlain
    <3> QED BY <1>1, <3>2 DEF RestoreInv, Restoring
  <2> QED BY <2>1, <2>2
<1>5. CASE UNCHANGED vars
  <2>1. Restoring'
    BY <1>5 DEF RestoreInv, Restoring, OriginalsArePlain, vars
  <2> QED BY <1>1, <2>1 DEF RestoreInv
<1> QED BY <1>2, <1>3, <1>4, <1>5 DEF Next

LEMMA RestoreInvariant == Spec => []RestoreInv
<1>1. Init => RestoreInv
  BY RoundInit DEF RestoreInv, Restoring, Init
<1>2. RestoreInv /\ [Next]_vars => RestoreInv'
  BY RestoreNext
<1> QED BY <1>1, <1>2, PTL DEF Spec

\* What Reidentify returns has no key left, and is the reply expanded.
LEMMA DoneIsExpanded ==
  ASSUME OriginalsArePlain, RestoreInv, pc = "done"
  PROVE  result = Expanded(mappings, reply)
<1> DEFINE T == ToSet(text) \union ToSet(reply)
<1>1. /\ result \in Seq(T)
      /\ Expanded(mappings, result) = Expanded(mappings, reply)
      /\ \A k \in DOMAIN result : result[k] \notin DOMAIN mappings
  BY DEF RestoreInv, Restoring
<1> HIDE DEF T
<1>2. Expanded(mappings, result) = result
  BY <1>1, ExpandedPlain
<1> QED BY <1>1, <1>2

\* Whatever the model makes of the placeholders, and in whatever order the map
\* is ranged over, Reidentify returns the reply with every placeholder replaced
\* at once by its original, unless an original holds a placeholder of the map
\* (rehydrate.go:30-36).
THEOREM RepliesRestored == Spec => []RepliesAreRestored
<1>1. RestoreInv => RepliesAreRestored
  <2> SUFFICES ASSUME RestoreInv, pc = "done", OriginalsArePlain
               PROVE  result = RestoredAtOnce
    BY DEF RepliesAreRestored
  <2>1. result = Expanded(mappings, reply)
    BY DoneIsExpanded
  <2> QED BY <2>1, Zenon DEF RestoredAtOnce, Expanded, Pieces, PieceOf
<1> QED BY <1>1, RestoreInvariant, PTL

\* A placeholder tells its type, and its number where the type has one.
LEMMA PlaceholderTells ==
  ASSUME NEW t, NEW x, NEW u, NEW y,
         semanticPlaceholder(t, x) = semanticPlaceholder(u, y)
  PROVE  t = u /\ (t \notin {TypeContractRef, TypeClientID} => x = y)
<1> DEFINE p == semanticPlaceholder(t, x)
           q == semanticPlaceholder(u, y)
           N(c, z) == IF c \in {TypeContractRef, TypeClientID} THEN 0 ELSE z
<1>1. p.label = <<"placeholder", t, N(t, x)>>
  BY DEF semanticPlaceholder, Word
<1>2. q.label = <<"placeholder", u, N(u, y)>>
  BY DEF semanticPlaceholder, Word
<1> HIDE DEF N
<1>3. p.label = q.label
  OBVIOUS
<1> HIDE DEF p, q
<1>4. t = u /\ N(t, x) = N(u, y)
  BY <1>1, <1>2, <1>3
<1> QED BY <1>4 DEF N

\* Numbered detections get different placeholders.
LEMMA PlaceholdersDiffer ==
  ASSUME NEW n, NEW bs, InReadingOrder(bs, n), NEW D, Numbers(bs, D),
         \A j, k \in DOMAIN bs :
           j # k /\ bs[j].detection.type = bs[k].detection.type =>
             bs[j].detection.type \notin {TypeContractRef, TypeClientID}
  PROVE  \A j, k \in DOMAIN bs : j # k => bs[j].placeholder # bs[k].placeholder
<1> DEFINE m == Len(bs)
           t(k) == bs[k].detection.type
           Upto(k) == { j \in 1..k : t(j) = t(k) }
           c(k) == Cardinality(Upto(k))
<1>1. /\ DOMAIN bs = 1..m /\ m \in Nat
  BY DEF InReadingOrder
<1>2. \A k \in 1..m : bs[k].placeholder = semanticPlaceholder(t(k), c(k))
  BY <1>1 DEF Numbers
<1>3. \A j, k \in 1..m : j # k /\ t(j) = t(k) =>
           t(j) \notin {TypeContractRef, TypeClientID}
  BY <1>1
<1> HIDE DEF m, c, t
<1>4. ASSUME NEW j \in 1..m, NEW k \in 1..m, j < k
      PROVE  bs[j].placeholder # bs[k].placeholder
  <2> SUFFICES ASSUME semanticPlaceholder(t(j), c(j)) = semanticPlaceholder(t(k), c(k))
               PROVE FALSE
    BY <1>2
  <2>1. t(j) = t(k) /\ (t(j) \notin {TypeContractRef, TypeClientID} => c(j) = c(k))
    BY PlaceholderTells
  <2>2. j \in Nat /\ k \in Nat /\ j # k
    BY <1>4
  <2>3. c(j) = c(k)
    BY <1>3, <2>1, <2>2
  <2> DEFINE I == 1..k
  <2>4. IsFiniteSet(I)
    BY <2>2, FS_Interval
  <2>5. Upto(k) \in SUBSET I
    OBVIOUS
  <2>6. Upto(j) \subseteq Upto(k) /\ k \in Upto(k) /\ k \notin Upto(j)
    BY <1>4, <2>1, <2>2
  <2> DEFINE A == Upto(j)
             B == Upto(k)
  <2> HIDE DEF I
  <2>7. IsFiniteSet(B)
    <3> HIDE DEF B
    <3>1. B \in SUBSET I
      BY <2>5 DEF B
    <3> QED BY <2>4, <3>1, FS_Subset
  <2>8. Cardinality(A) = Cardinality(B)
    BY <2>3 DEF c
  <2>9. A \in SUBSET B /\ A # B
    BY <2>6
  <2> HIDE DEF A, B
  <2> QED BY <2>7, <2>8, <2>9, FS_Subset
<1>5. \A j, k \in 1..m : j # k => j < k \/ k < j
  BY <1>1
<1> QED BY <1>1, <1>4, <1>5

\* When the detections are numbered, each placeholder maps to its own original.
LEMMA NumberedMappings ==
  ASSUME RoundInv, pc = "done", Numbered
  PROVE  \A k \in DOMAIN bindings :
           /\ bindings[k].placeholder \in DOMAIN mappings
           /\ mappings[bindings[k].placeholder] = Original(bindings[k].detection)
<1>1. text \in Texts /\ bindings = Bindings(text) /\ i = 0
  BY DEF RoundInv, Known
<1>2. /\ InReadingOrder(bindings, Len(text))
      /\ Numbers(bindings, ToSet(Scanned(text)))
  BY <1>1, BindingsInOrder
<1>3. DOMAIN bindings = 1..Count
  BY <1>2 DEF InReadingOrder, Count
<1>4. \A j, k \in DOMAIN bindings :
        j # k => bindings[j].placeholder # bindings[k].placeholder
  BY <1>2, PlaceholdersDiffer DEF Numbered
<1>5. /\ DOMAIN mappings = { bindings[k].placeholder : k \in 1..Count }
      /\ \A p \in DOMAIN mappings :
           \E k \in 1..Count :
             /\ bindings[k].placeholder = p
             /\ mappings[p] = Original(bindings[k].detection)
  BY <1>1 DEF RoundInv, Mapped
<1> SUFFICES ASSUME NEW k \in DOMAIN bindings
             PROVE  /\ bindings[k].placeholder \in DOMAIN mappings
                    /\ mappings[bindings[k].placeholder]
                         = Original(bindings[k].detection)
  OBVIOUS
<1>6. bindings[k].placeholder \in DOMAIN mappings
  BY <1>3, <1>5
<1>7. PICK j \in 1..Count :
        /\ bindings[j].placeholder = bindings[k].placeholder
        /\ mappings[bindings[k].placeholder] = Original(bindings[j].detection)
  BY <1>5, <1>6
<1>8. j = k
  BY <1>3, <1>4, <1>7
<1> QED BY <1>6, <1>7, <1>8

\* Every round of AnonymizeWithMap expands to the text.
LEMMA RoundsExpand ==
  ASSUME Fresh, RoundInv, pc = "done", Numbered,
         NEW f, RoundsOf(f, text)
  PROVE  Expanded(mappings, f[0]) = text
<1> DEFINE S == ToSet(text)
           L == Left(text)
           M == mappings
           bs == Bindings(text)
           m == Len(bs)
           s(k) == bs[k].detection.start
           e(k) == bs[k].detection.end
           Whole(k) == Expanded(M, f[k]) = text
           I == { j \in 0..m : Whole(m - j) }
<1>1. text \in Texts /\ bindings = bs
  BY DEF RoundInv, Known
<1>2. /\ text \in Seq(S) /\ text \in Seq(L) /\ InReadingOrder(bs, Len(text))
      /\ m \in Nat /\ \A k \in DOMAIN bs : bs[k].placeholder \in L
  BY <1>1, BindingsInOrder
<1>3. MapsInto(M, S) /\ \A y \in S : y \notin DOMAIN M
  BY OriginalsAreText DEF Fresh, ToSet
<1>4. S \subseteq L
  BY DEF Left
<1>5. \A k \in 1..m : \E W \in Seq(L) :
        /\ Opens(f[k], text, bs[k], W) /\ Closes(f[k - 1], text, bs[k], W)
  BY <1>1, RoundsSplice
<1>6. DOMAIN bs = 1..m
  BY <1>2 DEF InReadingOrder
<1>7. \A k \in 1..m :
        /\ bs[k].placeholder \in DOMAIN M
        /\ M[bs[k].placeholder] = Original(bs[k].detection)
  BY <1>1, <1>6, NumberedMappings
<1>8. \A k \in 1..m : /\ s(k) \in Int /\ e(k) \in Int
                      /\ 0 <= s(k) /\ s(k) < e(k) /\ e(k) <= Len(text)
  BY <1>2, <1>6 DEF InReadingOrder
<1>9. f[m] = text
  BY DEF RoundsOf
<1> HIDE DEF S, L, M, bs, m
<1>10. MapsInto(M, L)
  BY <1>3, <1>4 DEF MapsInto
<1>11. \A x, y \in Seq(L) : Expanded(M, x \o y) = Expanded(M, x) \o Expanded(M, y)
  BY <1>10, ExpandedConcat
<1>12. \A x \in Seq(S) : Expanded(M, x) = x
  <2> SUFFICES ASSUME NEW x \in Seq(S) PROVE Expanded(M, x) = x
    OBVIOUS
  <2>1. \A k \in DOMAIN x : x[k] \notin DOMAIN M
    BY <1>3
  <2> QED BY <2>1, ExpandedPlain
<1>13. ASSUME NEW k \in 1..m, Whole(k) PROVE Whole(k - 1)
  <2> DEFINE x == s(k)
             y == e(k)
             q == bs[k].placeholder
             A == SubSeq(text, 1, x)
             O == SubSeq(text, x + 1, y)
             C == SubSeq(text, 1, y)
  <2>1. x \in Int /\ y \in Int /\ 0 <= x /\ x < y /\ y <= Len(text)
    BY <1>8
  <2>2. q \in DOMAIN M /\ M[q] = O /\ q \in L
    BY <1>2, <1>6, <1>7 DEF Original
  <2>3. PICK W \in Seq(L) :
          Opens(f[k], text, bs[k], W) /\ Closes(f[k - 1], text, bs[k], W)
    BY <1>5
  <2>4. f[k] = C \o W /\ f[k - 1] = A \o (<<q>> \o W)
    BY <2>3 DEF Opens, Closes
  <2> HIDE DEF x, y, q
  <2>5. A \in Seq(S) /\ O \in Seq(S) /\ C \in Seq(S)
    BY <1>2, <2>1
  <2>6. C = A \o O
    BY <1>2, <2>1
  <2> DEFINE EW == Expanded(M, W)
  <2> HIDE DEF A, O, C
  <2>7. \A z \in Seq(S) : z \in Seq(L)
    BY <1>4
  <2>8. A \in Seq(L) /\ O \in Seq(L) /\ C \in Seq(L)
    BY <2>5, <2>7
  <2>9. <<q>> \in Seq(L) /\ <<q>> \o W \in Seq(L)
    BY <2>2
  <2>10. EW \in Seq(L)
    BY <1>10, ExpandedType
  <2>11. Expanded(M, C \o W) = C \o EW
    <3>1. Expanded(M, C \o W) = Expanded(M, C) \o Expanded(M, W)
      BY <1>11, <2>8, Zenon
    <3> QED BY <1>12, <2>5, <3>1
  <2>12. Expanded(M, <<q>>) = O
    BY <1>10, <2>2, ExpandedKey
  <2>13. Expanded(M, <<q>> \o W) = O \o EW
    <3>1. Expanded(M, <<q>> \o W) = Expanded(M, <<q>>) \o Expanded(M, W)
      BY <1>11, <2>9, Zenon
    <3> QED BY <2>12, <3>1
  <2>14. Expanded(M, A \o (<<q>> \o W)) = A \o (O \o EW)
    <3>1. Expanded(M, A \o (<<q>> \o W)) = Expanded(M, A) \o Expanded(M, <<q>> \o W)
      BY <1>11, <2>8, <2>9, Zenon
    <3>2. Expanded(M, A) = A
      BY <1>12, <2>5
    <3> QED BY <2>13, <3>1, <3>2
  <2> HIDE DEF EW
  <2>15. (A \o O) \o EW = A \o (O \o EW)
    <3>1. \A a, b, c \in Seq(L) : (a \o b) \o c = a \o (b \o c)
      OBVIOUS
    <3> QED BY <2>8, <2>10, <3>1
  <2>16. C \o EW = text
    BY <1>13, <2>4, <2>11
  <2>17. Expanded(M, f[k - 1]) = text
    BY <2>4, <2>6, <2>14, <2>15, <2>16
  <2> QED BY <2>17
<1>14. Whole(m)
  BY <1>2, <1>9, <1>12
<1> HIDE DEF Whole
<1>15. 0 \in I
  <2>1. m - 0 = m /\ 0 \in 0..m
    BY <1>2 DEF m
  <2> QED BY <1>14, <2>1
<1>16. m \in Nat
  BY <1>2 DEF m
<1>17. ASSUME NEW j \in 0..(m - 1), j \in I PROVE j + 1 \in I
  <2>1. m - j \in 1..m /\ (m - j) - 1 = m - (j + 1) /\ j + 1 \in 0..m
    BY <1>16
  <2>2. Whole(m - j)
    BY <1>17
  <2>3. Whole((m - j) - 1)
    BY <1>13, <2>1, <2>2
  <2> QED BY <2>1, <2>3
<1>18. m \in I
  <2> HIDE DEF I
  <2>1. \A j \in 0..m : j \in I
    BY <1>15, <1>16, <1>17, InductionUpTo
  <2> QED BY <1>16, <2>1
<1>19. Whole(0)
  <2>1. m - m = 0
    BY <1>16
  <2> QED BY <1>18, <2>1
<1> QED BY <1>19 DEF Whole, M

\* Reidentify(AnonymizeWithMap(t)) is t, for every text that holds none of its
\* own placeholders and whose detections are numbered (CHANGELOG.md:31).
THEOREM RoundTripRestores == Spec => []RoundTrip
<1>1. RestoreInv => RoundTrip
  <2> SUFFICES ASSUME RestoreInv, pc = "done", Fresh, Numbered,
                      reply = Anonymize(text, Scanned(text))
               PROVE  result = text
    BY DEF RoundTrip
  <2>1. result = Expanded(mappings, reply)
    BY FreshOriginals, DoneIsExpanded DEF RestoreInv
  <2>2. RoundInv /\ text \in Texts
    BY DEF RestoreInv, RoundInv, Known
  <2>3. PICK f : RoundsOf(f, text)
    BY <2>2, Rounds
  <2>4. f[0] = reply
    BY <2>3 DEF RoundsOf
  <2>5. Expanded(mappings, f[0]) = text
    BY <2>2, <2>3, RoundsExpand
  <2> QED BY <2>1, <2>4, <2>5
<1> QED BY <1>1, RestoreInvariant, PTL

-----------------------------------------------------------------------------
(***************************************************************************)
(* How often replaceAll replaces                                           *)
(***************************************************************************)
KeysIn(M, s) == { k \in DOMAIN s : s[k] \in DOMAIN M }

Keys(M, s) == Cardinality(KeysIn(M, s))

LEMMA KeysType ==
  ASSUME NEW T, NEW M, NEW s \in Seq(T)
  PROVE  IsFiniteSet(KeysIn(M, s)) /\ Keys(M, s) \in Nat
<1> DEFINE K == KeysIn(M, s)
           I == 1..Len(s)
<1>1. K \in SUBSET I
  BY DEF KeysIn
<1>2. IsFiniteSet(I)
  <2>1. 1 \in Int /\ Len(s) \in Int
    OBVIOUS
  <2> QED BY <2>1, FS_Interval
<1> HIDE DEF K, I
<1>3. IsFiniteSet(K)
  BY <1>1, <1>2, FS_Subset
<1>4. Cardinality(K) \in Nat
  BY <1>3, FS_CardinalityType
<1> QED BY <1>3, <1>4 DEF K, Keys

\* The keys of two sequences in a row are counted one by one.
LEMMA KeysConcat ==
  ASSUME NEW T, NEW M, NEW s \in Seq(T), NEW t \in Seq(T)
  PROVE  Keys(M, s \o t) = Keys(M, s) + Keys(M, t)
<1> DEFINE l == Len(s)
           n == Len(t)
           A == KeysIn(M, s)
           B == KeysIn(M, t)
           C == KeysIn(M, s \o t)
           g == [k \in B |-> l + k]
           D == { l + k : k \in B }
<1>1. /\ l \in Nat /\ n \in Nat /\ Len(s \o t) = l + n /\ s \o t \in Seq(T)
  OBVIOUS
<1>2. /\ \A k \in 1..l : (s \o t)[k] = s[k]
      /\ \A k \in 1..n : (s \o t)[l + k] = t[k]
  OBVIOUS
<1>3. /\ IsFiniteSet(A) /\ Cardinality(A) \in Nat
      /\ IsFiniteSet(B) /\ Cardinality(B) \in Nat
  BY KeysType DEF Keys
<1>4. /\ A = { k \in 1..l : s[k] \in DOMAIN M }
      /\ B = { k \in 1..n : t[k] \in DOMAIN M }
      /\ C = { k \in 1..(l + n) : (s \o t)[k] \in DOMAIN M }
  BY <1>1 DEF KeysIn
<1> HIDE DEF l, n, A, B, C
<1>5. IsFiniteSet(D) /\ Cardinality(D) = Cardinality(B)
  <2>1. g \in Bijection(B, D)
    <3>1. \A j, k \in B : l + j = l + k => j = k
      BY <1>1, <1>4
    <3> QED BY <3>1 DEF Bijection, Injection, Surjection, IsInjective
  <2>2. ExistsBijection(B, D)
    BY <2>1 DEF ExistsBijection
  <2> HIDE DEF D
  <2> QED BY <1>3, <2>2, FS_Bijection
<1>6. C = A \union D
  <2>1. ASSUME NEW k \in C PROVE k \in A \union D
    <3>1. CASE k <= l
      <4>1. k \in 1..l
        BY <1>1, <1>4, <3>1
      <4> QED BY <1>2, <1>4, <4>1
    <3>2. CASE l < k
      <4>1. k - l \in 1..n /\ l + (k - l) = k
        BY <1>1, <1>4, <3>2
      <4>2. (s \o t)[k] = t[k - l] /\ (s \o t)[k] \in DOMAIN M
        BY <1>2, <1>4, <4>1
      <4>3. k - l \in B
        BY <1>4, <4>1, <4>2
      <4> QED BY <4>1, <4>3
    <3>3. k \in Int
      BY <1>1, <1>4
    <3> QED BY <1>1, <3>1, <3>2, <3>3
  <2>2. ASSUME NEW k \in A PROVE k \in C
    <3>1. k \in 1..l /\ k \in 1..(l + n)
      BY <1>1, <1>4
    <3> QED BY <1>2, <1>4, <3>1
  <2>3. ASSUME NEW k \in B PROVE l + k \in C
    <3>1. k \in 1..n /\ l + k \in 1..(l + n) /\ t[k] \in DOMAIN M
      BY <1>1, <1>4
    <3>2. (s \o t)[l + k] \in DOMAIN M
      BY <1>2, <3>1
    <3> QED BY <1>4, <3>1, <3>2
  <2> QED BY <2>1, <2>2, <2>3
<1>7. A \cap D = {}
  <2>1. \A k \in B : l + k > l
    BY <1>1, <1>4
  <2>2. \A k \in A : k <= l /\ k \in Int
    BY <1>1, <1>4
  <2> QED BY <1>1, <2>1, <2>2
<1> HIDE DEF D
<1>8. Cardinality(C) = Cardinality(A) + Cardinality(B)
  <2>1. Cardinality(A \union D)
          = Cardinality(A) + Cardinality(D) - Cardinality(A \cap D)
    BY <1>3, <1>5, FS_Union
  <2>2. Cardinality(A \cap D) = 0
    BY <1>7, FS_EmptySet
  <2> QED BY <1>3, <1>5, <1>6, <2>1, <2>2
<1> QED BY <1>8 DEF Keys, A, B, C

\* A replacement leaves one key less.
LEMMA OneKeyLess ==
  ASSUME OriginalsArePlain, RestoreInv, pc = "reidentify",
         NEW p \in DOMAIN mappings, ReplaceFirst(p)
  PROVE  Keys(mappings, result) = Keys(mappings, result') + 1
<1> DEFINE S == ToSet(text)
           T == ToSet(text) \union ToSet(reply)
           M == mappings
           at == CHOOSE k \in Places(p) : \A j \in Places(p) : k <= j
           A == SubSeq(result, 1, at - 1)
           B == SubSeq(result, at + 1, Len(result))
           v == M[p]
<1>1. Places(p) # {} /\ result' = A \o v \o B
  BY DEF ReplaceFirst
<1>2. result \in Seq(T)
  BY DEF RestoreInv, Restoring
<1>3. MapsInto(M, S)
  BY OriginalsAreText DEF RestoreInv
<1>4. S \subseteq T /\ p \in DOMAIN M
  OBVIOUS
<1>7. \A k \in DOMAIN v : v[k] \notin DOMAIN M
  BY DEF OriginalsArePlain
<1> HIDE DEF S, T, M
<1>5. v \in Seq(S)
  BY <1>3, <1>4 DEF MapsInto
<1>6. v \in Seq(T)
  BY <1>4, <1>5
<1> HIDE DEF v, at
<1>8. at \in 1..Len(result) /\ result[at] = p
  BY <1>1, <1>2, FirstPlace DEF at
<1>9. Cut(T, result, at, A, B)
  BY <1>2, <1>8, CutAt
<1> HIDE DEF A, B
<1>10. /\ A \in Seq(T) /\ B \in Seq(T) /\ p \in T
       /\ result = A \o (<<p>> \o B)
  BY <1>8, <1>9 DEF Cut
<1>11. <<p>> \in Seq(T) /\ <<p>> \o B \in Seq(T) /\ A \o v \in Seq(T)
  BY <1>6, <1>10
<1>12. Keys(M, v) = 0
  <2>1. KeysIn(M, v) = {}
    BY <1>7 DEF KeysIn
  <2> QED BY <2>1, FS_EmptySet DEF Keys
<1>13. Keys(M, <<p>>) = 1
  <2>1. KeysIn(M, <<p>>) = {1}
    BY <1>4 DEF KeysIn
  <2> QED BY <2>1, FS_Singleton DEF Keys
<1>14. \A x, y \in Seq(T) : Keys(M, x \o y) = Keys(M, x) + Keys(M, y)
  BY KeysConcat
<1>15. \A x \in Seq(T) : Keys(M, x) \in Nat
  BY KeysType
<1>16. Keys(M, A \o (<<p>> \o B)) = Keys(M, A) + (1 + Keys(M, B))
  <2>1. Keys(M, A \o (<<p>> \o B)) = Keys(M, A) + Keys(M, <<p>> \o B)
    BY <1>10, <1>11, <1>14, Zenon
  <2>2. Keys(M, <<p>> \o B) = Keys(M, <<p>>) + Keys(M, B)
    BY <1>10, <1>11, <1>14, Zenon
  <2> QED BY <1>13, <2>1, <2>2
<1>17. Keys(M, (A \o v) \o B) = (Keys(M, A) + 0) + Keys(M, B)
  <2>1. Keys(M, (A \o v) \o B) = Keys(M, A \o v) + Keys(M, B)
    BY <1>10, <1>11, <1>14, Zenon
  <2>2. Keys(M, A \o v) = Keys(M, A) + Keys(M, v)
    BY <1>6, <1>10, <1>14, Zenon
  <2> QED BY <1>12, <2>1, <2>2
<1>18. Keys(M, A) \in Nat /\ Keys(M, B) \in Nat
  BY <1>10, <1>15
<1>19. Keys(M, result) = Keys(M, result') + 1
  <2> DEFINE a == Keys(M, A)
             b == Keys(M, B)
  <2>1. Keys(M, result) = a + (1 + b) /\ Keys(M, result') = (a + 0) + b
    BY <1>1, <1>10, <1>16, <1>17
  <2> HIDE DEF a, b
  <2>2. a \in Nat /\ b \in Nat
    BY <1>18 DEF a, b
  <2> QED BY <2>1, <2>2
<1> QED BY <1>19 DEF M

\* The replacements made and the keys still to be replaced are the keys of the
\* reply, when no original brings another.
CountInv ==
  /\ restored \in Nat
  /\ IF pc \in {"reidentify", "done"}
     THEN OriginalsArePlain =>
            restored + Keys(mappings, result) = Keys(mappings, reply)
     ELSE restored = 0 /\ reply = <<>>

LEMMA CountNext == RestoreInv /\ CountInv /\ [Next]_vars => CountInv'
<1> SUFFICES ASSUME RestoreInv, CountInv, [Next]_vars PROVE CountInv'
  OBVIOUS
<1>1. CASE (\E t \in Texts : Begin(t)) \/ Replace \/ Anonymized
  <2>1. /\ pc \notin {"reidentify", "done"} /\ pc' \notin {"reidentify", "done"}
        /\ UNCHANGED <<reply, restored>>
    BY <1>1 DEF Begin, Replace, Anonymized
  <2> QED BY <2>1 DEF CountInv
<1>2. ASSUME NEW r \in Replies(result), Answer(r) PROVE CountInv'
  <2>1. /\ pc = "model" /\ pc' = "reidentify" /\ reply' = r /\ result' = r
        /\ UNCHANGED <<mappings, restored>>
    BY <1>2 DEF Answer
  <2>2. restored = 0
    BY <2>1 DEF CountInv
  <2>3. Keys(mappings, r) \in Nat
    <3>1. text \in Texts /\ r \in Replies(Anonymize(text, Scanned(text)))
      BY <1>2, <2>1 DEF RestoreInv, RoundInv, Known, SameTextAsAnonymize
    <3>2. r \in Seq(ToSet(r))
      BY <3>1, RehydrateAssumption
    <3> QED BY <3>2, KeysType
  <2> QED BY <2>1, <2>2, <2>3 DEF CountInv
<1>3. CASE Reidentify
  <2>1. ASSUME NEW p \in DOMAIN mappings, ReplaceFirst(p) PROVE CountInv'
    <3>1. /\ p \in current /\ restored' = restored + 1
          /\ UNCHANGED <<mappings, reply, pc>>
      BY <2>1 DEF ReplaceFirst
    <3>2. pc = "reidentify"
      BY <3>1 DEF RestoreInv, RoundInv, Busy
    <3>3. OriginalsArePlain' <=> OriginalsArePlain
      BY <3>1 DEF OriginalsArePlain
    <3>4. CASE OriginalsArePlain
      <4>1. Keys(mappings, result) = Keys(mappings, result') + 1
        BY <2>1, <3>2, <3>4, OneKeyLess
      <4>2. result' \in Seq(ToSet(text') \union ToSet(reply'))
        BY <2>1, <3>1, <3>2, <3>3, <3>4, ReplaceFirstKeepsRestoring DEF Restoring
      <4>3. Keys(mappings, result') \in Nat
        BY <4>2, KeysType
      <4> QED BY <3>1, <3>2, <3>4, <4>1, <4>3 DEF CountInv
    <3>5. CASE ~ OriginalsArePlain
      BY <3>1, <3>2, <3>3, <3>5 DEF CountInv
    <3> QED BY <3>4, <3>5
  <2>2. ASSUME NEW p \in DOMAIN mappings, NextPlaceholder(p) \/ Gone(p) PROVE CountInv'
    <3>1. UNCHANGED <<mappings, result, reply, restored, pc>>
      BY <2>2 DEF NextPlaceholder, Gone
    <3> QED BY <3>1 DEF CountInv, OriginalsArePlain
  <2>3. CASE Return
    <3>1. /\ pc = "reidentify" /\ pc' = "done"
          /\ UNCHANGED <<mappings, result, reply, restored>>
      BY <2>3 DEF Return
    <3> QED BY <3>1 DEF CountInv, OriginalsArePlain
  <2> QED BY <1>3, <2>1, <2>2, <2>3 DEF Reidentify
<1>4. CASE UNCHANGED vars
  BY <1>4 DEF vars, CountInv, OriginalsArePlain
<1> QED BY <1>1, <1>2, <1>3, <1>4 DEF Next

\* Reidentify replaces no more than the placeholders the reply holds, so that
\* the search of replaceAll that starts again each time comes to an end: it can
\* go on for ever only when an original holds a placeholder of the map
\* (rehydrate.go:71-77).
THEOREM ReplacementsAreBounded ==
  Spec => [](OriginalsArePlain => ReplacedOncePerPlace)
<1>1. Init => CountInv
  BY DEF Init, CountInv
<1>2. RestoreInv /\ CountInv /\ [Next]_vars => CountInv'
  BY CountNext
<1>3. ASSUME RestoreInv, CountInv, OriginalsArePlain PROVE ReplacedOncePerPlace
  <2>1. CASE pc \in {"reidentify", "done"}
    <3>1. restored + Keys(mappings, result) = Keys(mappings, reply) /\ restored \in Nat
      BY <1>3, <2>1 DEF CountInv
    <3>2. result \in Seq(ToSet(text) \union ToSet(reply))
      BY <1>3, <2>1 DEF RestoreInv, Restoring
    <3>3. Keys(mappings, result) \in Nat
      BY <3>2, KeysType
    <3>4. restored <= Keys(mappings, reply)
      BY <3>1, <3>3
    <3> QED BY <3>4 DEF ReplacedOncePerPlace, Keys, KeysIn
  <2>2. CASE pc \notin {"reidentify", "done"}
    <3>1. restored = 0 /\ reply = <<>>
      BY <1>3, <2>2 DEF CountInv
    <3>2. { k \in DOMAIN reply : reply[k] \in DOMAIN mappings } = {}
      BY <3>1
    <3> QED BY <3>1, <3>2, FS_EmptySet DEF ReplacedOncePerPlace
  <2> QED BY <2>1, <2>2
<1> QED BY <1>1, <1>2, <1>3, RestoreInvariant, PTL DEF Spec
=============================================================================
