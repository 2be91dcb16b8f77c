------------------------ MODULE LanguageServerProofs ------------------------
(***************************************************************************)
(* The framing of pii-guard-lsp for any number of messages: what is parsed *)
(* is always the next message, all of it, and the server ends for cause.   *)
(* From that, what the editor sees: the diagnostics of the text it shows.  *)
(***************************************************************************)
EXTENDS LanguageServer, FiniteSetTheorems, SequenceTheorems, TLAPS

Messages ==
  [method : Methods \union {"didOpen", "didChange", "didClose"},
   id : Nat, uri : Documents \union {"none"}, changes : Seq(Texts),
   size : 1..2, frame : Seq({"length", "other", "blank", "byte"})]

Places == [of : Nat, at : Nat]

\* Where the blank line of message i is.
Blank(i) == Len(sent[i].frame) - sent[i].size

\* A frame has one blank line, and its length, if it tells it, before that.
Shaped(m) ==
  LET blank == Len(m.frame) - m.size IN
  /\ blank \in 2..3
  /\ \A k \in 1..Len(m.frame) : m.frame[k] = "blank" <=> k = blank
  /\ \A k \in 1..Len(m.frame) : m.frame[k] = "length" => k < blank

\* y comes next after x in the pipe.
Follows(x, y) ==
  IF x.at < Len(sent[x.of].frame) THEN y.of = x.of /\ y.at = x.at + 1
  ELSE y.of = x.of + 1 /\ y.at = 1

\* What the server has to read next.
Due ==
  [of |-> IF pc = "handle" THEN handled + 2 ELSE handled + 1,
   at |-> IF pc = "body" THEN Blank(handled + 1) + 1 ELSE 1]

\* The pipe holds what follows in the frames, up to their end while the editor
\* lives.
Piped ==
  /\ \A k \in 1..Len(stdin) :
       stdin[k].of \in 1..Len(sent) /\ stdin[k].at \in 1..Len(sent[stdin[k].of].frame)
  /\ \A k \in 1..Len(stdin) : k > 1 => Follows(stdin[k - 1], stdin[k])
  /\ Len(stdin) > 0 => stdin[1].of = Due.of /\ stdin[1].at = Due.at
  /\ ~ closed /\ Len(stdin) > 0 =>
       /\ stdin[Len(stdin)].of = Len(sent)
       /\ stdin[Len(stdin)].at = Len(sent[Len(sent)].frame)
  /\ ~ closed /\ Len(stdin) = 0 =>
       Due.of = Len(sent) + 1 /\ Due.at = 1

\* What the server has read of the message it is at.
AtMessage ==
  /\ pc = "header" => contentLength = 0
  /\ pc \in {"body", "handle"} => handled + 1 <= Len(sent)
  /\ pc = "body" => contentLength = sent[handled + 1].size
  /\ pc = "handle" => body = BodyOf(handled + 1)

FramingInv ==
  /\ TypeOK
  /\ \A i \in 1..Len(sent) : Shaped(sent[i])
  /\ ~ Ended => Piped /\ AtMessage
  /\ EndsForCause

-----------------------------------------------------------------------------
(***************************************************************************)
(* Frames                                                                  *)
(***************************************************************************)
LEMMA FrameShape ==
  ASSUME NEW header \in Headers, NEW size \in 1..2
  PROVE  /\ Frame(header, size) \in Seq({"length", "other", "blank", "byte"})
         /\ Len(Frame(header, size)) = Len(header) + 1 + size
         /\ Len(header) \in 1..2
         /\ \A k \in 1..Len(Frame(header, size)) :
              /\ Frame(header, size)[k] = "blank" <=> k = Len(header) + 1
              /\ Frame(header, size)[k] = "length" => k <= Len(header)
<1> DEFINE kinds == {"length", "other", "blank", "byte"}
           bytes == [k \in 1..size |-> "byte"]
           start == header \o <<"blank">>
<1>1. header \in Seq(kinds) /\ Len(header) \in 1..2
  <2>1. CASE header = <<"length">>
    BY <2>1
  <2>2. CASE header = <<"other", "length">>
    BY <2>2
  <2>3. CASE header = <<"other">>
    BY <2>3
  <2> QED BY <2>1, <2>2, <2>3 DEF Headers
<1>2. \A k \in 1..Len(header) : header[k] \in {"length", "other"}
  <2>1. CASE header = <<"length">>
    BY <2>1
  <2>2. CASE header = <<"other", "length">>
    BY <2>2
  <2>3. CASE header = <<"other">>
    BY <2>3
  <2> QED BY <2>1, <2>2, <2>3 DEF Headers
<1>3. bytes \in Seq(kinds) /\ Len(bytes) = size
  OBVIOUS
<1>4. /\ start \in Seq(kinds) /\ Len(start) = Len(header) + 1
      /\ \A k \in 1..Len(header) : start[k] = header[k]
      /\ start[Len(header) + 1] = "blank"
  BY <1>1
<1>5. Frame(header, size) = start \o bytes
  BY DEF Frame
<1> HIDE DEF start, bytes
<1>6. /\ start \o bytes \in Seq(kinds)
      /\ Len(start \o bytes) = Len(header) + 1 + size
      /\ \A k \in 1..Len(start) : (start \o bytes)[k] = start[k]
      /\ \A k \in 1..Len(bytes) : (start \o bytes)[Len(start) + k] = bytes[k]
  BY <1>1, <1>3, <1>4
<1>7. \A k \in 1..size : bytes[k] = "byte"
  BY DEF bytes
<1>8. ASSUME NEW k \in 1..(Len(header) + 1 + size)
      PROVE  /\ (start \o bytes)[k] = "blank" <=> k = Len(header) + 1
             /\ (start \o bytes)[k] = "length" => k <= Len(header)
  <2>1. CASE k <= Len(header)
    BY <2>1, <1>1, <1>2, <1>4, <1>6
  <2>2. CASE k = Len(header) + 1
    BY <2>2, <1>1, <1>4, <1>6
  <2>3. CASE k > Len(header) + 1
    <3>1. k - Len(start) \in 1..size
      BY <2>3, <1>1, <1>4
    <3>2. (start \o bytes)[k] = "byte"
      BY <3>1, <1>3, <1>4, <1>6, <1>7
    <3> QED BY <3>2, <2>3, <1>1
  <2>4. k <= Len(header) \/ k = Len(header) + 1 \/ k > Len(header) + 1
    BY <1>1
  <2> QED BY <2>1, <2>2, <2>3, <2>4
<1> QED BY <1>1, <1>5, <1>6, <1>8

LEMMA ConcatShape ==
  ASSUME NEW S, NEW s \in Seq(S), NEW t \in Seq(S)
  PROVE  /\ s \o t \in Seq(S) /\ Len(s \o t) = Len(s) + Len(t)
         /\ \A k \in 1..Len(s) : (s \o t)[k] = s[k]
         /\ \A k \in 1..Len(t) : (s \o t)[Len(s) + k] = t[k]
OBVIOUS

LEMMA ElementsShape ==
  ASSUME NEW i \in Nat, NEW from \in Nat, NEW to \in Nat, from <= to
  PROVE  /\ Elements(i, from, to) \in Seq(Places)
         /\ Len(Elements(i, from, to)) = to - from + 1
         /\ \A k \in 1..(to - from + 1) :
              /\ Elements(i, from, to)[k].of = i
              /\ Elements(i, from, to)[k].at = from + k - 1
BY DEF Elements, Places

-----------------------------------------------------------------------------
(***************************************************************************)
(* The editor                                                              *)
(***************************************************************************)
\* What is written is a message.
LEMMA MessageTyped ==
  ASSUME TypeOK,
         NEW method \in Methods \union {"didOpen", "didChange", "didClose"},
         NEW uri \in Documents \union {"none"}, NEW changes \in Seq(Texts)
  PROVE  Message(method, uri, changes) \in Messages
<1>1. Len(sent) + 1 \in Nat
  BY DEF TypeOK
<1>2. <<>> \in Seq({"length", "other", "blank", "byte"})
  OBVIOUS
<1>3. (IF changes = <<>> THEN 1 ELSE 2) \in 1..2
  OBVIOUS
<1> QED BY <1>1, <1>2, <1>3 DEF Message, Messages

\* One more message, with its frame at the end of the pipe.
LEMMA WriteKeepsInv ==
  ASSUME FramingInv, NEW m \in Messages, Write(m),
         shown' \in [Documents -> Texts \union {Unseen}]
  PROVE  FramingInv'
<1>1. PICK header \in Headers :
        /\ sent' = Append(sent, [m EXCEPT !.frame = Frame(header, m.size)])
        /\ stdin' = stdin \o Elements(Len(sent) + 1, 1, Len(Frame(header, m.size)))
  BY DEF Write
<1> DEFINE frame == Frame(header, m.size)
           new == [m EXCEPT !.frame = frame]
           tail == Elements(Len(sent) + 1, 1, Len(frame))
<1>2. UNCHANGED <<closed, pc, contentLength, body, handled>> /\ ~ closed
  BY DEF Write
<1>3. m.size \in 1..2
  BY DEF Messages
<1>4. /\ frame \in Seq({"length", "other", "blank", "byte"})
      /\ Len(frame) \in Nat /\ Len(header) \in 1..2
      /\ Len(frame) = Len(header) + 1 + m.size
      /\ \A k \in 1..Len(frame) : /\ frame[k] = "blank" <=> k = Len(header) + 1
                                  /\ frame[k] = "length" => k <= Len(header)
  BY <1>3, FrameShape
<1> HIDE DEF frame
<1>5. new \in Messages /\ new.frame = frame /\ new.size = m.size
  BY <1>4 DEF Messages
<1> HIDE DEF new
<1>6. Shaped(new)
  <2>1. Len(new.frame) - new.size = Len(header) + 1
    BY <1>3, <1>4, <1>5
  <2>2. \A k \in 1..Len(frame) : frame[k] = "blank" <=> k = Len(header) + 1
    BY <1>4
  <2>3. ASSUME NEW k \in 1..Len(frame), frame[k] = "length" PROVE k < Len(header) + 1
    <3>1. k <= Len(header)
      BY <2>3, <1>4
    <3> QED BY <3>1, <1>4
  <2>4. Len(header) + 1 \in 2..3
    <3>1. Len(header) = 1 \/ Len(header) = 2
      BY <1>4
    <3>2. CASE Len(header) = 1
      BY <3>2
    <3>3. CASE Len(header) = 2
      BY <3>3
    <3> QED BY <3>1, <3>2, <3>3
  <2> QED BY <2>1, <2>2, <2>3, <2>4, <1>5 DEF Shaped
<1>7. sent \in Seq(Messages) /\ stdin \in Seq(Places) /\ Len(sent) \in Nat
  BY DEF FramingInv, TypeOK, Messages, Places
<1>8. /\ tail \in Seq(Places) /\ Len(tail) = Len(frame)
      /\ \A k \in 1..Len(frame) : tail[k].of = Len(sent) + 1 /\ tail[k].at = k
  <2>1. Len(sent) + 1 \in Nat /\ 1 \in Nat /\ 1 <= Len(frame) /\ Len(frame) \in Nat
    BY <1>3, <1>4, <1>7
  <2>2. /\ tail \in Seq(Places) /\ Len(tail) = Len(frame) - 1 + 1
        /\ \A k \in 1..(Len(frame) - 1 + 1) :
             tail[k].of = Len(sent) + 1 /\ tail[k].at = 1 + k - 1
    BY <2>1, ElementsShape
  <2> HIDE DEF tail
  <2> QED BY <2>1, <2>2
<1> HIDE DEF tail
<1>9. /\ sent' \in Seq(Messages) /\ Len(sent') = Len(sent) + 1
      /\ \A i \in 1..Len(sent) : sent'[i] = sent[i]
      /\ sent'[Len(sent) + 1] = new
  BY <1>1, <1>5, <1>7 DEF new, frame
<1>10. /\ stdin' \in Seq(Places) /\ Len(stdin') = Len(stdin) + Len(frame)
       /\ \A k \in 1..Len(stdin) : stdin'[k] = stdin[k]
       /\ \A k \in 1..Len(frame) : stdin'[Len(stdin) + k] = tail[k]
  <2>1. stdin' = stdin \o tail
    BY <1>1 DEF tail, frame
  <2>2. /\ stdin \o tail \in Seq(Places) /\ Len(stdin \o tail) = Len(stdin) + Len(tail)
        /\ \A k \in 1..Len(stdin) : (stdin \o tail)[k] = stdin[k]
        /\ \A k \in 1..Len(tail) : (stdin \o tail)[Len(stdin) + k] = tail[k]
    <3>1. stdin \in Seq(Places) /\ tail \in Seq(Places)
      BY <1>7, <1>8
    <3> QED BY <3>1, ConcatShape
  <2> QED BY <2>1, <2>2, <1>8
<1>11. TypeOK'
  BY <1>2, <1>9, <1>10 DEF FramingInv, TypeOK, Messages, Places
<1>12. \A i \in 1..Len(sent') : Shaped(sent'[i])
  BY <1>6, <1>7, <1>9 DEF FramingInv
<1>13. ASSUME ~ Ended' PROVE Piped' /\ AtMessage'
  <2>1. Piped /\ AtMessage
    BY <1>2, <1>13 DEF FramingInv, Ended
  <2>2. /\ handled \in 0..Len(sent) /\ Len(stdin) \in Nat
        /\ pc \in {"header", "body", "handle"}
    BY <1>2, <1>7, <1>13 DEF FramingInv, TypeOK, Ended
  <2>3. AtMessage'
    BY <1>2, <1>7, <1>9, <2>1, <2>2 DEF AtMessage, BodyOf
  <2>4. Due'.of = Due.of /\ Due'.at = Due.at
    BY <1>2, <1>7, <1>9, <2>1, <2>2 DEF AtMessage, Due, Blank
  <2>5. \A k \in 1..Len(stdin') :
          stdin'[k].of \in 1..Len(sent') /\ stdin'[k].at \in 1..Len(sent'[stdin'[k].of].frame)
    <3> SUFFICES ASSUME NEW k \in 1..Len(stdin')
                 PROVE  /\ stdin'[k].of \in 1..Len(sent')
                        /\ stdin'[k].at \in 1..Len(sent'[stdin'[k].of].frame)
      OBVIOUS
    <3>1. CASE k <= Len(stdin)
      <4>1. /\ stdin[k].of \in 1..Len(sent)
            /\ stdin[k].at \in 1..Len(sent[stdin[k].of].frame)
            /\ stdin'[k] = stdin[k]
        BY <3>1, <1>10, <2>1, <2>2 DEF Piped
      <4> QED BY <4>1, <1>7, <1>9
    <3>2. CASE k > Len(stdin)
      <4>1. k - Len(stdin) \in 1..Len(frame) /\ k = Len(stdin) + (k - Len(stdin))
        BY <3>2, <1>4, <1>10, <2>2
      <4>2. /\ stdin'[k].of = Len(sent) + 1
            /\ stdin'[k].at = k - Len(stdin)
        BY <4>1, <1>8, <1>10
      <4>3. sent'[Len(sent) + 1].frame = frame
        BY <1>5, <1>9
      <4> QED BY <4>1, <4>2, <4>3, <1>7, <1>9
    <3> QED BY <3>1, <3>2, <2>2
  <2>6. \A k \in 1..Len(stdin') : k > 1 => Follows(stdin[k - 1], stdin[k])'
    <3> SUFFICES ASSUME NEW k \in 1..Len(stdin'), k > 1
                 PROVE  Follows(stdin[k - 1], stdin[k])'
      OBVIOUS
    <3>1. CASE k <= Len(stdin)
      <4>1. Follows(stdin[k - 1], stdin[k]) /\ stdin[k - 1].of \in 1..Len(sent)
        BY <3>1, <2>1, <2>2 DEF Piped
      <4>2. stdin'[k] = stdin[k] /\ stdin'[k - 1] = stdin[k - 1]
        BY <3>1, <1>10, <2>2
      <4>3. sent'[stdin[k - 1].of] = sent[stdin[k - 1].of]
        BY <4>1, <1>9
      <4> QED BY <4>1, <4>2, <4>3 DEF Follows
    <3>2. CASE k = Len(stdin) + 1
      <4>1. /\ stdin[k - 1].of = Len(sent)
            /\ stdin[k - 1].at = Len(sent[Len(sent)].frame)
            /\ stdin[k - 1].of \in 1..Len(sent)
            /\ stdin'[k - 1] = stdin[k - 1]
        BY <3>2, <1>2, <1>10, <2>1, <2>2 DEF Piped
      <4>2. stdin'[k].of = Len(sent) + 1 /\ stdin'[k].at = 1
        BY <3>2, <1>3, <1>4, <1>8, <1>10, <2>2
      <4>3. sent'[Len(sent)] = sent[Len(sent)]
        BY <4>1, <1>9
      <4>4. ~ (Len(sent[Len(sent)].frame) < Len(sent[Len(sent)].frame))
        BY <4>1, <1>7 DEF Messages
      <4> QED BY <4>1, <4>2, <4>3, <4>4 DEF Follows
    <3>3. CASE k > Len(stdin) + 1
      <4> DEFINE j == k - Len(stdin)
      <4>1. j \in 2..Len(frame) /\ j - 1 \in 1..Len(frame)
        BY <3>3, <1>4, <1>10, <2>2
      <4>2. k = Len(stdin) + j /\ k - 1 = Len(stdin) + (j - 1)
        BY <2>2
      <4>3. /\ stdin'[k].of = Len(sent) + 1 /\ stdin'[k].at = j
            /\ stdin'[k - 1].of = Len(sent) + 1 /\ stdin'[k - 1].at = j - 1
        <5> HIDE DEF j
        <5>1. stdin'[Len(stdin) + j] = tail[j] /\ stdin'[Len(stdin) + (j - 1)] = tail[j - 1]
          BY <4>1, <1>4, <1>10
        <5>2. j \in 1..Len(frame)
          BY <4>1
        <5> QED BY <4>1, <4>2, <5>1, <5>2, <1>8
      <4> HIDE DEF j
      <4>4. sent'[Len(sent) + 1].frame = frame
        BY <1>5, <1>9
      <4> QED BY <4>1, <4>3, <4>4, <1>4 DEF Follows
    <3> QED BY <3>1, <3>2, <3>3, <2>2
  <2>7. Len(stdin') > 0 => stdin'[1].of = Due'.of /\ stdin'[1].at = Due'.at
    <3>1. CASE Len(stdin) > 0
      BY <3>1, <2>1, <2>2, <2>4, <1>10 DEF Piped
    <3>2. CASE Len(stdin) = 0
      <4>1. stdin'[1].of = Len(sent) + 1 /\ stdin'[1].at = 1
        <5>1. 1 \in 1..Len(frame) /\ Len(stdin) + 1 = 1
          BY <3>2, <1>3, <1>4
        <5> QED BY <5>1, <1>8, <1>10
      <4> QED BY <4>1, <3>2, <2>1, <2>4, <1>2 DEF Piped
    <3> QED BY <3>1, <3>2, <2>2
  <2>8. /\ Len(stdin') > 0
        /\ stdin'[Len(stdin')].of = Len(sent')
        /\ stdin'[Len(stdin')].at = Len(sent'[Len(sent')].frame)
    <3>1. Len(frame) \in 1..Len(frame)
      BY <1>3, <1>4
    <3> QED BY <3>1, <1>5, <1>8, <1>9, <1>10, <2>2
  <2> QED BY <2>3, <2>5, <2>6, <2>7, <2>8 DEF Piped
<1>14. EndsForCause'
  <2>1. DOMAIN sent = 1..Len(sent) /\ DOMAIN sent' = 1..Len(sent')
    BY <1>7, <1>9
  <2> QED BY <2>1, <1>2, <1>7, <1>9 DEF FramingInv, EndsForCause, Ended
<1> QED BY <1>11, <1>12, <1>13, <1>14 DEF FramingInv

LEMMA EditorKeepsInv ==
  ASSUME FramingInv, Editor, ~ HangUp
  PROVE  FramingInv'
<1> USE DEF FramingInv
<1>1. ASSUME NEW u \in Documents, NEW t \in Texts, Open(u, t) PROVE FramingInv'
  <2>1. <<t>> \in Seq(Texts)
    OBVIOUS
  <2>2. Message("didOpen", u, <<t>>) \in Messages
    BY <2>1, MessageTyped
  <2>3. shown' \in [Documents -> Texts \union {Unseen}]
    BY <1>1 DEF Open, TypeOK
  <2> QED BY <1>1, <2>2, <2>3, WriteKeepsInv DEF Open
<1>2. ASSUME NEW u \in Documents, NEW changes \in BoundedSeq(Texts, 2), Change(u, changes)
      PROVE  FramingInv'
  <2>1. changes \in Seq(Texts)
    <3>1. PICK n \in 0..2 : changes \in [1..n -> Texts]
      BY DEF BoundedSeq, SeqOf
    <3> QED BY <3>1, SeqDef
  <2>2. Message("didChange", u, changes) \in Messages
    BY <2>1, MessageTyped
  <2>3. changes # <<>> => Last(changes) \in Texts
    BY <2>1 DEF Last
  <2>4. shown' \in [Documents -> Texts \union {Unseen}]
    BY <1>2, <2>3 DEF Change, TypeOK
  <2> QED BY <1>2, <2>2, <2>4, WriteKeepsInv DEF Change
<1>3. ASSUME NEW u \in Documents, Close(u) PROVE FramingInv'
  <2>0. <<>> \in Seq(Texts)
    OBVIOUS
  <2>1. Message("didClose", u, <<>>) \in Messages
    BY <2>0, MessageTyped
  <2>2. shown' \in [Documents -> Texts \union {Unseen}]
    BY <1>3 DEF Close, TypeOK
  <2> QED BY <1>3, <2>1, <2>2, WriteKeepsInv DEF Close
<1>4. ASSUME NEW method \in Methods, Tell(method) PROVE FramingInv'
  <2>0. <<>> \in Seq(Texts)
    OBVIOUS
  <2>1. Message(method, "none", <<>>) \in Messages
    BY <2>0, MessageTyped
  <2>2. shown' \in [Documents -> Texts \union {Unseen}]
    BY <1>4 DEF Tell, TypeOK
  <2> QED BY <1>4, <2>1, <2>2, WriteKeepsInv DEF Tell
<1> QED BY <1>1, <1>2, <1>3, <1>4 DEF Editor

\* A part of the pipe, from a place in it to another.
LEMMA PartShape ==
  ASSUME NEW S, NEW s \in Seq(S), NEW n \in 0..Len(s), NEW m \in n..Len(s)
  PROVE  /\ SubSeq(s, n + 1, m) \in Seq(S) /\ Len(SubSeq(s, n + 1, m)) = m - n
         /\ \A k \in 1..(m - n) : SubSeq(s, n + 1, m)[k] = s[n + k]
OBVIOUS

\* The editor dies: what is left in the pipe still follows.
LEMMA HangUpKeepsInv ==
  ASSUME FramingInv, HangUp
  PROVE  FramingInv'
<1>1. PICK m \in 0..Len(stdin) : stdin' = SubSeq(stdin, 1, m)
  BY DEF HangUp
<1>2. UNCHANGED <<shown, sent, stdout, pc, contentLength, body, handled>> /\ closed'
  BY DEF HangUp, editor
<1>3. sent \in Seq(Messages) /\ stdin \in Seq(Places)
  BY DEF FramingInv, TypeOK, Messages, Places
<1>4. /\ stdin' \in Seq(Places) /\ Len(stdin') = m
      /\ \A k \in 1..m : stdin'[k] = stdin[k]
  <2>1. 0 \in 0..Len(stdin) /\ m \in 0..Len(stdin) /\ 0 + 1 = 1 /\ m - 0 = m
    BY <1>3
  <2>2. \A k \in 1..m : 0 + k = k
    BY <2>1
  <2> QED BY <1>1, <1>3, <2>1, <2>2, PartShape
<1>5. TypeOK'
  BY <1>2, <1>4 DEF FramingInv, TypeOK, Places, HangUp
<1>6. \A i \in 1..Len(sent') : Shaped(sent'[i])
  BY <1>2 DEF FramingInv
<1>7. ASSUME ~ Ended' PROVE Piped' /\ AtMessage'
  <2>1. Piped /\ AtMessage
    BY <1>2, <1>7 DEF FramingInv, Ended
  <2>2. AtMessage'
    BY <2>1, <1>2 DEF AtMessage, BodyOf
  <2>3. \A k \in 1..m : /\ stdin[k].of \in 1..Len(sent)
                         /\ stdin[k].at \in 1..Len(sent[stdin[k].of].frame)
    BY <2>1, <1>3 DEF Piped
  <2>4. \A k \in 1..m : k > 1 => Follows(stdin[k - 1], stdin[k]) /\ k - 1 \in 1..m
    BY <2>1, <1>3 DEF Piped
  <2>5. \A k \in 1..m : k > 1 => Follows(stdin[k - 1], stdin[k])'
    BY <2>4, <1>2, <1>4 DEF Follows
  <2>6. m > 0 => stdin'[1].of = Due'.of /\ stdin'[1].at = Due'.at
    BY <2>1, <1>2, <1>3, <1>4 DEF Piped, Due, Blank
  <2> QED BY <2>2, <2>3, <2>5, <2>6, <1>2, <1>4 DEF Piped
<1>8. EndsForCause'
  BY <1>2 DEF EndsForCause
<1> QED BY <1>5, <1>6, <1>7, <1>8 DEF FramingInv

-----------------------------------------------------------------------------
(***************************************************************************)
(* The server                                                              *)
(***************************************************************************)
\* What is left of the pipe once its first n elements are read.
LEMMA RestIsPiped ==
  ASSUME FramingInv, Piped, UNCHANGED <<sent, closed>>,
         NEW n \in 1..Len(stdin), stdin' = SubSeq(stdin, n + 1, Len(stdin))
  PROVE  /\ stdin' \in Seq(Places) /\ Len(stdin') = Len(stdin) - n
         /\ \A k \in 1..Len(stdin') :
              /\ stdin'[k].of \in 1..Len(sent')
              /\ stdin'[k].at \in 1..Len(sent'[stdin'[k].of].frame)
         /\ \A k \in 1..Len(stdin') : k > 1 => Follows(stdin[k - 1], stdin[k])'
         /\ Len(stdin') > 0 => Follows(stdin[n], stdin'[1])
         /\ ~ closed' /\ Len(stdin') > 0 =>
              /\ stdin'[Len(stdin')].of = Len(sent')
              /\ stdin'[Len(stdin')].at = Len(sent'[Len(sent')].frame)
<1>1. stdin \in Seq(Places) /\ Len(stdin) \in Nat
  BY DEF FramingInv, TypeOK, Places
<1>2. /\ stdin' \in Seq(Places) /\ Len(stdin') = Len(stdin) - n
      /\ \A k \in 1..Len(stdin') : stdin'[k] = stdin[n + k]
  <2>1. n \in 0..Len(stdin) /\ Len(stdin) \in n..Len(stdin)
    BY <1>1
  <2> QED BY <1>1, <2>1, PartShape
<1>3. \A k \in 1..Len(stdin') :
        /\ stdin'[k].of \in 1..Len(sent')
        /\ stdin'[k].at \in 1..Len(sent'[stdin'[k].of].frame)
  BY <1>1, <1>2 DEF Piped
<1>4. ASSUME NEW k \in 1..Len(stdin'), k > 1
      PROVE  Follows(stdin[k - 1], stdin[k])'
  <2>1. n + k \in 1..Len(stdin) /\ n + k > 1 /\ (n + k) - 1 = n + (k - 1)
    BY <1>1, <1>2, <1>4
  <2>2. Follows(stdin[n + (k - 1)], stdin[n + k])
    BY <2>1 DEF Piped
  <2>3. stdin'[k] = stdin[n + k] /\ stdin'[k - 1] = stdin[n + (k - 1)]
    BY <1>1, <1>2, <1>4
  <2> QED BY <2>2, <2>3 DEF Follows
<1>5. ASSUME Len(stdin') > 0 PROVE Follows(stdin[n], stdin'[1])
  <2>1. n + 1 \in 1..Len(stdin) /\ n + 1 > 1 /\ (n + 1) - 1 = n
    BY <1>1, <1>2, <1>5
  <2>2. Follows(stdin[n], stdin[n + 1])
    BY <2>1 DEF Piped
  <2> QED BY <2>2, <1>1, <1>2, <1>5
<1>6. ASSUME ~ closed', Len(stdin') > 0
      PROVE  /\ stdin'[Len(stdin')].of = Len(sent')
             /\ stdin'[Len(stdin')].at = Len(sent'[Len(sent')].frame)
  <2>1. stdin'[Len(stdin')] = stdin[Len(stdin)] /\ Len(stdin) > 0
    <3>1. Len(stdin') \in 1..Len(stdin') /\ n + Len(stdin') = Len(stdin) /\ Len(stdin) > 0
      BY <1>1, <1>2, <1>6
    <3>2. stdin'[Len(stdin')] = stdin[n + Len(stdin')]
      BY <3>1, <1>2
    <3> QED BY <3>1, <3>2
  <2> QED BY <2>1, <1>6 DEF Piped
<1> QED BY <1>2, <1>3, <1>4, <1>5, <1>6

\* The front of the pipe between messages: the header and the blank line of
\* the next message.
LEMMA HeaderIsNext ==
  ASSUME FramingInv, pc = "header", Len(stdin) > 0
  PROVE  /\ handled + 1 \in 1..Len(sent) /\ Blank(handled + 1) \in 2..3
         /\ \A k \in 1..Blank(handled + 1) : k <= Len(stdin) =>
              stdin[k].of = handled + 1 /\ stdin[k].at = k
<1> DEFINE i == handled + 1
<1>1. Piped /\ sent \in Seq(Messages) /\ stdin \in Seq(Places) /\ handled \in Nat
  BY DEF FramingInv, TypeOK, Messages, Places, Ended
<1>2. stdin[1].of = i /\ stdin[1].at = 1
  BY <1>1 DEF Piped, Due
<1>3. i \in 1..Len(sent)
  BY <1>1, <1>2 DEF Piped
<1>4. Shaped(sent[i])
  BY <1>3 DEF FramingInv
<1>5. Blank(i) \in 2..3
  BY <1>4 DEF Shaped, Blank
<1>6. Blank(i) < Len(sent[i].frame)
  <2>1. sent[i] \in Messages
    BY <1>1, <1>3
  <2>2. sent[i].size \in 1..2 /\ Len(sent[i].frame) \in Nat
    BY <2>1 DEF Messages
  <2> QED BY <2>2 DEF Blank
<1> HIDE DEF i
<1>7. ASSUME 2 <= Len(stdin) PROVE stdin[2].of = i /\ stdin[2].at = 2
  <2>1. Follows(stdin[1], stdin[2])
    <3>1. 2 \in 1..Len(stdin) /\ 2 > 1 /\ 2 - 1 = 1
      BY <1>1, <1>7
    <3> QED BY <3>1, <1>1 DEF Piped
  <2>2. 1 < Len(sent[i].frame)
    BY <1>1, <1>3, <1>5, <1>6 DEF Messages
  <2> QED BY <2>1, <2>2, <1>2 DEF Follows
<1>8. ASSUME 3 <= Len(stdin), Blank(i) = 3 PROVE stdin[3].of = i /\ stdin[3].at = 3
  <2>1. Follows(stdin[2], stdin[3])
    <3>1. 3 \in 1..Len(stdin) /\ 3 > 1 /\ 3 - 1 = 2
      BY <1>1, <1>8
    <3> QED BY <3>1, <1>1 DEF Piped
  <2>2. 2 < Len(sent[i].frame)
    BY <1>1, <1>3, <1>6, <1>8 DEF Messages
  <2>3. stdin[2].of = i /\ stdin[2].at = 2
    BY <1>1, <1>7, <1>8
  <2> QED BY <2>1, <2>2, <2>3 DEF Follows
<1>9. ASSUME NEW k \in 1..Blank(i), k <= Len(stdin)
      PROVE  stdin[k].of = i /\ stdin[k].at = k
  <2>1. k = 1 \/ k = 2 \/ (k = 3 /\ Blank(i) = 3)
    BY <1>5
  <2> QED BY <2>1, <1>1, <1>2, <1>7, <1>8, <1>9
<1> QED BY <1>3, <1>5, <1>9 DEF i

\* What a header tells: where it ends, and the length of its own message, if
\* it has one.
LEMMA HeaderIsRead ==
  ASSUME FramingInv, ReadHeader
  PROVE  /\ Blank(handled + 1) \in 1..Len(stdin)
         /\ stdin' = SubSeq(stdin, Blank(handled + 1) + 1, Len(stdin))
         /\ \/ /\ contentLength' = sent[handled + 1].size /\ pc' = "body"
            \/ /\ contentLength' = 0 /\ pc' = "fatal"
               /\ "length" \notin ToSet(sent[handled + 1].frame)
<1> DEFINE i == handled + 1
           b == Blank(i)
           first == CHOOSE k \in Blanks : \A j \in Blanks : k <= j
           announced == { k \in 1..first : Holds(k, "length") }
           last == CHOOSE k \in announced : \A j \in announced : j <= k
           length == IF announced = {} THEN contentLength
                     ELSE sent[stdin[last].of].size
<1>1. /\ pc = "header" /\ Blanks # {}
      /\ contentLength' = length
      /\ pc' = IF length <= 0 THEN "fatal" ELSE "body"
      /\ stdin' = SubSeq(stdin, first + 1, Len(stdin))
  BY DEF ReadHeader
<1> HIDE DEF length
<1>2. /\ Piped /\ contentLength = 0 /\ sent \in Seq(Messages)
      /\ stdin \in Seq(Places) /\ Len(stdin) \in Nat
  BY <1>1 DEF FramingInv, AtMessage, TypeOK, Messages, Places, Ended
<1>3. Blanks \subseteq 1..Len(stdin) /\ Len(stdin) > 0
  <2>1. DOMAIN stdin = 1..Len(stdin)
    BY <1>2
  <2>2. Blanks \subseteq 1..Len(stdin)
    BY <2>1 DEF Blanks
  <2>3. PICK k \in 1..Len(stdin) : TRUE
    BY <2>2, <1>1
  <2> QED BY <2>2, <2>3, <1>2
<1>4. /\ i \in 1..Len(sent) /\ b \in 2..3
      /\ \A k \in 1..b : k <= Len(stdin) => stdin[k].of = i /\ stdin[k].at = k
  BY <1>1, <1>3, HeaderIsNext
<1>5. /\ \A k \in 1..Len(sent[i].frame) : sent[i].frame[k] = "blank" <=> k = b
      /\ \A k \in 1..Len(sent[i].frame) : sent[i].frame[k] = "length" => k < b
      /\ b \in 1..Len(sent[i].frame)
  <2>1. Shaped(sent[i])
    BY <1>4 DEF FramingInv
  <2>2. sent[i] \in Messages
    BY <1>2, <1>4
  <2>3. sent[i].size \in 1..2 /\ Len(sent[i].frame) \in Nat
    BY <2>2 DEF Messages
  <2>4. b \in 1..Len(sent[i].frame)
    BY <2>3, <1>4 DEF Blank
  <2> QED BY <2>1, <2>4 DEF Shaped, Blank
<1>6. sent[i].size \in 1..2 /\ sent[i].frame \in Seq({"length", "other", "blank", "byte"})
  <2>1. sent[i] \in Messages
    BY <1>2, <1>4
  <2> QED BY <2>1 DEF Messages
<1> HIDE DEF i, b
<1>7. \A k \in 1..b : k <= Len(stdin) => (Holds(k, "blank") <=> k = b)
  BY <1>4, <1>5 DEF Holds
<1>8. b <= Len(stdin)
  <2> SUFFICES ASSUME Len(stdin) < b PROVE FALSE
    BY <1>2, <1>4
  <2>1. PICK k \in Blanks : TRUE
    BY <1>1
  <2>2. k \in 1..b /\ k < b /\ k <= Len(stdin) /\ Holds(k, "blank")
    BY <1>2, <1>3, <1>4, <2>1 DEF Blanks
  <2> QED BY <2>2, <1>7
<1>9. b \in Blanks /\ \A k \in Blanks : b <= k
  <2>1. b \in Blanks
    BY <1>2, <1>4, <1>7, <1>8 DEF Blanks
  <2>2. ASSUME NEW k \in Blanks, k < b PROVE FALSE
    <3>1. k \in 1..b /\ k <= Len(stdin) /\ Holds(k, "blank")
      BY <2>2, <1>2, <1>3, <1>4 DEF Blanks
    <3> QED BY <3>1, <2>2, <1>4, <1>7
  <2> QED BY <2>1, <2>2, <1>2, <1>3, <1>4
<1>10. first = b
  <2>1. first \in Blanks /\ \A j \in Blanks : first <= j
    BY <1>9
  <2> HIDE DEF first
  <2>2. first <= b /\ b <= first
    BY <2>1, <1>9
  <2> QED BY <2>1, <2>2, <1>3, <1>4
<1> HIDE DEF first
<1>11. /\ announced \subseteq 1..b
       /\ \A k \in 1..b : k \in announced <=> sent[i].frame[k] = "length"
  BY <1>4, <1>8, <1>10 DEF Holds
<1> HIDE DEF announced
<1>12. CASE announced = {}
  <2>1. length = 0
    BY <1>2, <1>12 DEF length
  <2>2. "length" \notin ToSet(sent[i].frame)
    <3> SUFFICES ASSUME "length" \in ToSet(sent[i].frame) PROVE FALSE
      OBVIOUS
    <3>2. PICK k \in 1..Len(sent[i].frame) : sent[i].frame[k] = "length"
      BY <1>6 DEF ToSet
    <3>3. k \in 1..b
      BY <3>2, <1>4, <1>5
    <3> QED BY <3>2, <3>3, <1>11, <1>12
  <2> QED BY <2>1, <2>2, <1>1, <1>2, <1>4, <1>8, <1>10 DEF i, b
<1>13. CASE announced # {}
  <2>1. last \in announced
    <3>1. \E k \in announced : \A j \in announced : j <= k
      <4>1. announced \subseteq {1, 2, 3}
        BY <1>4, <1>11
      <4>2. CASE 3 \in announced
        BY <4>1, <4>2
      <4>3. CASE 3 \notin announced /\ 2 \in announced
        BY <4>1, <4>3
      <4>4. CASE 3 \notin announced /\ 2 \notin announced
        <5>1. announced = {1}
          BY <4>1, <4>4, <1>13
        <5> QED BY <5>1
      <4> QED BY <4>2, <4>3, <4>4
    <3> QED BY <3>1
  <2> HIDE DEF last
  <2>2. stdin[last].of = i
    BY <2>1, <1>4, <1>8, <1>11
  <2>3. length = sent[i].size
    BY <2>2, <1>13 DEF length
  <2> QED BY <2>3, <1>1, <1>2, <1>4, <1>6, <1>8, <1>10 DEF i, b
<1> QED BY <1>12, <1>13

LEMMA ReadHeaderKeepsInv ==
  ASSUME FramingInv, ReadHeader
  PROVE  FramingInv'
<1> DEFINE i == handled + 1
           b == Blank(i)
<1>1. /\ pc = "header" /\ Blanks # {}
      /\ UNCHANGED <<shown, sent, closed, stdout, body, handled>>
  BY DEF ReadHeader, editor
<1>2. /\ Piped /\ sent \in Seq(Messages) /\ handled \in Nat
      /\ stdin \in Seq(Places) /\ Len(stdin) \in Nat
  BY <1>1 DEF FramingInv, TypeOK, Messages, Places, Ended
<1>3. Len(stdin) > 0
  BY <1>1, <1>2 DEF Blanks
<1>4. /\ i \in 1..Len(sent) /\ b \in 2..3
      /\ \A k \in 1..b : k <= Len(stdin) => stdin[k].of = i /\ stdin[k].at = k
  BY <1>1, <1>3, HeaderIsNext
<1>5. /\ b \in 1..Len(stdin)
      /\ stdin' = SubSeq(stdin, b + 1, Len(stdin))
      /\ \/ contentLength' = sent[i].size /\ pc' = "body"
         \/ /\ contentLength' = 0 /\ pc' = "fatal"
            /\ "length" \notin ToSet(sent[i].frame)
  BY HeaderIsRead
<1>6. sent[i].size \in 1..2 /\ b < Len(sent[i].frame) /\ b = Len(sent[i].frame) - sent[i].size
  <2>1. sent[i] \in Messages
    BY <1>2, <1>4
  <2>2. sent[i].size \in 1..2 /\ Len(sent[i].frame) \in Nat
    BY <2>1 DEF Messages
  <2> QED BY <2>2 DEF Blank
<1> HIDE DEF i, b
<1>7. /\ stdin' \in Seq(Places) /\ Len(stdin') = Len(stdin) - b
      /\ \A k \in 1..Len(stdin') :
           /\ stdin'[k].of \in 1..Len(sent')
           /\ stdin'[k].at \in 1..Len(sent'[stdin'[k].of].frame)
      /\ \A k \in 1..Len(stdin') : k > 1 => Follows(stdin[k - 1], stdin[k])'
      /\ Len(stdin') > 0 => Follows(stdin[b], stdin'[1])
      /\ ~ closed' /\ Len(stdin') > 0 =>
           /\ stdin'[Len(stdin')].of = Len(sent')
           /\ stdin'[Len(stdin')].at = Len(sent'[Len(sent')].frame)
  BY <1>1, <1>2, <1>5, RestIsPiped
<1>8. TypeOK'
  <2>1. contentLength' \in 0..2 /\ pc' \in {"body", "fatal"}
    BY <1>5, <1>6
  <2> QED BY <2>1, <1>1, <1>7 DEF FramingInv, TypeOK, Places
<1>9. \A j \in 1..Len(sent') : Shaped(sent'[j])
  BY <1>1 DEF FramingInv
<1>10. ASSUME ~ Ended' PROVE Piped' /\ AtMessage'
  <2>1. pc' = "body" /\ contentLength' = sent[i].size
    BY <1>5, <1>10 DEF Ended
  <2>2. AtMessage'
    BY <2>1, <1>1, <1>2, <1>4 DEF AtMessage, i
  <2>3. Due'.of = i /\ Due'.at = b + 1
    BY <2>1, <1>1 DEF Due, Blank, i, b
  <2>4. stdin[b].of = i /\ stdin[b].at = b
    BY <1>4, <1>5
  <2>5. Len(stdin') > 0 => stdin'[1].of = Due'.of /\ stdin'[1].at = Due'.at
    BY <2>3, <2>4, <1>6, <1>7 DEF Follows
  <2>6. ASSUME ~ closed', Len(stdin') = 0 PROVE FALSE
    <3>1. Len(stdin) = b /\ ~ closed
      BY <2>6, <1>1, <1>2, <1>5, <1>7
    <3>2. stdin[b].of = Len(sent) /\ stdin[b].at = Len(sent[Len(sent)].frame)
      BY <3>1, <1>2, <1>3 DEF Piped
    <3> QED BY <3>2, <2>4, <1>4, <1>6
  <2> QED BY <2>2, <2>5, <2>6, <1>7 DEF Piped
<1>11. EndsForCause'
  <2>1. DOMAIN sent = 1..Len(sent)
    BY <1>2
  <2> QED BY <2>1, <1>1, <1>4, <1>5 DEF EndsForCause, Ended
<1> QED BY <1>8, <1>9, <1>10, <1>11 DEF FramingInv

LEMMA ReadBodyKeepsInv ==
  ASSUME FramingInv, ReadBody
  PROVE  FramingInv'
<1> DEFINE i == handled + 1
           b == Blank(i)
           z == sent[i].size
           n == Len(sent[i].frame)
<1>1. /\ pc = "body" /\ pc' = "handle" /\ Len(stdin) >= contentLength
      /\ UNCHANGED <<shown, sent, closed, stdout, contentLength, handled>>
      /\ body' = SubSeq(stdin, 1, contentLength)
      /\ stdin' = SubSeq(stdin, contentLength + 1, Len(stdin))
  BY DEF ReadBody, BodyIsThere, editor
<1>2. /\ Piped /\ AtMessage /\ sent \in Seq(Messages) /\ handled \in Nat
      /\ stdin \in Seq(Places) /\ Len(stdin) \in Nat
  BY <1>1 DEF FramingInv, TypeOK, Messages, Places, Ended
<1>3. i \in 1..Len(sent) /\ contentLength = z
  BY <1>1, <1>2 DEF AtMessage
<1>4. z \in 1..2 /\ n \in Nat /\ b \in 2..3 /\ n = b + z
  <2>1. sent[i] \in Messages
    BY <1>2, <1>3
  <2>2. z \in 1..2 /\ n \in Nat
    BY <2>1 DEF Messages
  <2>3. Shaped(sent[i])
    BY <1>3 DEF FramingInv
  <2>4. b \in 2..3
    BY <2>3 DEF Shaped, Blank
  <2> QED BY <2>2, <2>4 DEF Blank
<1>5. stdin[1].of = i /\ stdin[1].at = b + 1
  BY <1>1, <1>2, <1>3, <1>4 DEF Piped, Due
<1>6. Due'.of = i + 1 /\ Due'.at = 1
  BY <1>1, <1>2 DEF Due
<1>7. BodyOf(i) = Elements(i, b + 1, n)
  BY DEF BodyOf, Blank
<1>8. (body = BodyOf(handled + 1))' <=> body' = BodyOf(i)
  BY <1>1 DEF BodyOf
<1>9. Len(sent'[i].frame) = n /\ Len(sent[i].frame) = n
  BY <1>1
<1> HIDE DEF b, z, n
<1>10. \A k \in 1..z : stdin[k].of = i /\ stdin[k].at = b + k
  <2>1. CASE z = 1
    BY <2>1, <1>5
  <2>2. CASE z = 2
    <3>1. Follows(stdin[1], stdin[2])
      <4>1. 2 \in 1..Len(stdin) /\ 2 > 1 /\ 2 - 1 = 1
        BY <2>2, <1>1, <1>2, <1>3
      <4> QED BY <4>1, <1>2 DEF Piped
    <3>2. stdin[2].of = i /\ stdin[2].at = b + 1 + 1
      BY <3>1, <2>2, <1>4, <1>5, <1>9 DEF Follows
    <3> QED BY <3>2, <2>2, <1>4, <1>5
  <2> QED BY <2>1, <2>2, <1>4
<1> HIDE DEF i
<1>11. body' \in Seq(Places) /\ Len(body') = z /\ \A k \in 1..z : body'[k] = stdin[k]
  <2>1. 0 \in 0..Len(stdin) /\ z \in 0..Len(stdin) /\ 0 + 1 = 1 /\ z - 0 = z
    BY <1>1, <1>2, <1>3, <1>4
  <2>2. \A k \in 1..z : 0 + k = k
    BY <1>4
  <2> QED BY <1>1, <1>2, <1>3, <2>1, <2>2, PartShape
<1>12. body' = BodyOf(i)
  <2>1. /\ Elements(i, b + 1, n) \in Seq(Places) /\ Len(Elements(i, b + 1, n)) = z
        /\ \A k \in 1..z : /\ Elements(i, b + 1, n)[k].of = i
                           /\ Elements(i, b + 1, n)[k].at = b + k
    <3>1. i \in Nat /\ b + 1 \in Nat /\ n \in Nat /\ b + 1 <= n /\ n - (b + 1) + 1 = z
      BY <1>2, <1>3, <1>4 DEF i
    <3>2. \A k \in 1..z : b + 1 + k - 1 = b + k
      BY <1>4
    <3>3. /\ Elements(i, b + 1, n) \in Seq(Places)
          /\ Len(Elements(i, b + 1, n)) = n - (b + 1) + 1
          /\ \A k \in 1..(n - (b + 1) + 1) :
               /\ Elements(i, b + 1, n)[k].of = i
               /\ Elements(i, b + 1, n)[k].at = b + 1 + k - 1
      BY <3>1, ElementsShape
    <3> HIDE DEF z
    <3> QED BY <3>1, <3>2, <3>3
  <2> DEFINE s == Elements(i, b + 1, n)
  <2> HIDE DEF s
  <2>2. s \in Seq(Places) /\ Len(s) = z /\ \A k \in 1..z : s[k].of = i /\ s[k].at = b + k
    BY <2>1 DEF s
  <2>3. ASSUME NEW k \in 1..z PROVE body'[k] = s[k]
    <3>1. body'[k] \in Places /\ s[k] \in Places
      BY <2>2, <1>11
    <3>2. body'[k].of = s[k].of /\ body'[k].at = s[k].at
      BY <2>2, <1>10, <1>11
    <3> QED BY <3>1, <3>2 DEF Places
  <2>4. body' = s
    BY <2>2, <2>3, <1>11
  <2> QED BY <2>4, <1>7 DEF s
<1>13. /\ stdin' \in Seq(Places) /\ Len(stdin') = Len(stdin) - z
       /\ \A k \in 1..Len(stdin') :
            /\ stdin'[k].of \in 1..Len(sent')
            /\ stdin'[k].at \in 1..Len(sent'[stdin'[k].of].frame)
       /\ \A k \in 1..Len(stdin') : k > 1 => Follows(stdin[k - 1], stdin[k])'
       /\ Len(stdin') > 0 => Follows(stdin[z], stdin'[1])
       /\ ~ closed' /\ Len(stdin') > 0 =>
            /\ stdin'[Len(stdin')].of = Len(sent')
            /\ stdin'[Len(stdin')].at = Len(sent'[Len(sent')].frame)
  <2>1. z \in 1..Len(stdin)
    BY <1>1, <1>2, <1>3, <1>4
  <2> QED BY <2>1, <1>1, <1>2, <1>3, RestIsPiped
<1>14. stdin[z].of = i /\ stdin[z].at = n
  BY <1>4, <1>10
<1>15. TypeOK'
  BY <1>1, <1>11, <1>13 DEF FramingInv, TypeOK, Places
<1>16. \A j \in 1..Len(sent') : Shaped(sent'[j])
  BY <1>1 DEF FramingInv
<1>17. AtMessage'
  BY <1>1, <1>2, <1>3, <1>8, <1>12 DEF AtMessage, i
<1>18. Piped'
  <2>1. ASSUME Len(stdin') > 0 PROVE stdin'[1].of = Due'.of /\ stdin'[1].at = Due'.at
    <3>1. Follows(stdin[z], stdin'[1])
      BY <2>1, <1>13
    <3>2. ~ (n < n)
      BY <1>4
    <3> QED BY <3>1, <3>2, <1>6, <1>9, <1>14 DEF Follows
  <2>2. ASSUME ~ closed', Len(stdin') = 0
        PROVE  Due'.of = Len(sent') + 1 /\ Due'.at = 1
    <3>1. Len(stdin) = z /\ ~ closed /\ Len(stdin) > 0
      BY <2>2, <1>1, <1>2, <1>4, <1>13
    <3>2. stdin[z].of = Len(sent)
      BY <3>1, <1>2 DEF Piped
    <3> QED BY <3>2, <1>1, <1>6, <1>14
  <2> QED BY <2>1, <2>2, <1>13 DEF Piped
<1>19. EndsForCause'
  BY <1>1 DEF EndsForCause, Ended
<1> QED BY <1>15, <1>16, <1>17, <1>18, <1>19 DEF FramingInv

\* The pipe ends between messages or in one: the editor is gone.
LEMMA EndKeepsInv ==
  ASSUME FramingInv, EndOfInput \/ BodyIsCut
  PROVE  FramingInv'
<1>1. /\ closed /\ pc' \in {"clean", "fatal"} /\ stdin' = <<>>
      /\ UNCHANGED <<shown, sent, closed, stdout, contentLength, body, handled>>
  BY DEF EndOfInput, BodyIsCut, editor
<1>2. <<>> \in Seq([of : Nat, at : Nat])
  OBVIOUS
<1>3. TypeOK'
  BY <1>1, <1>2 DEF FramingInv, TypeOK
<1>4. \A j \in 1..Len(sent') : Shaped(sent'[j])
  BY <1>1 DEF FramingInv
<1>5. Ended' /\ EndsForCause'
  BY <1>1 DEF Ended, EndsForCause
<1> QED BY <1>3, <1>4, <1>5 DEF FramingInv

\* What is parsed is the message that is due.
LEMMA ParsedIsDue ==
  ASSUME FramingInv, pc = "handle"
  PROVE  /\ handled + 1 \in 1..Len(sent) /\ DOMAIN sent = 1..Len(sent)
         /\ Parsed = sent[handled + 1]
<1> DEFINE i == handled + 1
<1>1. /\ AtMessage /\ sent \in Seq(Messages) /\ handled \in Nat
  BY DEF FramingInv, TypeOK, Messages, Ended
<1>2. i \in 1..Len(sent) /\ body = BodyOf(i) /\ i \in Nat
  BY <1>1 DEF AtMessage
<1>3. DOMAIN sent = 1..Len(sent)
  BY <1>1
<1> DEFINE z == sent[i].size
           n == Len(sent[i].frame)
<1>4. z \in 1..2 /\ n \in Nat /\ n - z \in 2..3
  <2>1. sent[i] \in Messages
    BY <1>1, <1>2
  <2>2. Shaped(sent[i])
    BY <1>2 DEF FramingInv
  <2> QED BY <2>1, <2>2 DEF Messages, Shaped
<1>5. BodyOf(i) = Elements(i, n - z + 1, n)
  BY DEF BodyOf
<1> HIDE DEF i, z, n
<1>6. BodyOf(i)[1].of = i
  <2>1. n - z + 1 \in Nat /\ n - z + 1 <= n /\ 1 \in 1..(n - (n - z + 1) + 1)
    BY <1>4
  <2>2. \A k \in 1..(n - (n - z + 1) + 1) : Elements(i, n - z + 1, n)[k].of = i
    BY <2>1, <1>2, <1>4, ElementsShape
  <2> QED BY <2>1, <2>2, <1>5
<1>7. Parsed = sent[i]
  BY <1>2, <1>3, <1>6 DEF Parsed
<1> QED BY <1>2, <1>3, <1>7 DEF i

LEMMA DispatchKeepsInv ==
  ASSUME FramingInv, Dispatch
  PROVE  FramingInv'
<1>1. /\ pc = "handle" /\ handled' = handled + 1
      /\ contentLength' = 0 /\ body' = <<>>
      /\ UNCHANGED <<shown, sent, stdin, closed>>
      /\ pc' = AfterParsed(Parsed)
  BY DEF Dispatch, NewLength, editor
<1>2. /\ handled + 1 \in 1..Len(sent) /\ DOMAIN sent = 1..Len(sent)
      /\ Parsed = sent[handled + 1]
  BY <1>1, ParsedIsDue
<1>3. Piped /\ handled \in Nat /\ Len(sent) \in Nat
  BY <1>1 DEF FramingInv, TypeOK, Ended
<1>4. pc' \in {"header", "exited"}
  BY <1>1 DEF AfterParsed
<1>5. TypeOK'
  <2>1. <<>> \in Seq([of : Nat, at : Nat])
    OBVIOUS
  <2>2. handled' \in 0..Len(sent')
    BY <1>1, <1>2, <1>3
  <2>3. contentLength' \in 0..2
    BY <1>1
  <2> QED BY <2>1, <2>2, <2>3, <1>1, <1>4 DEF FramingInv, TypeOK
<1>6. \A j \in 1..Len(sent') : Shaped(sent'[j])
  BY <1>1 DEF FramingInv
<1>7. ASSUME ~ Ended' PROVE Piped' /\ AtMessage'
  <2>1. pc' = "header"
    BY <1>4, <1>7 DEF Ended
  <2>2. AtMessage'
    BY <2>1, <1>1 DEF AtMessage
  <2>3. Due'.of = Due.of /\ Due'.at = Due.at
    BY <2>1, <1>1, <1>3 DEF Due
  <2>4. \A k \in 1..Len(stdin) : k > 1 => Follows(stdin[k - 1], stdin[k])'
    BY <1>1, <1>3 DEF Piped, Follows
  <2> QED BY <2>2, <2>3, <2>4, <1>1, <1>3 DEF Piped
<1>8. EndsForCause'
  BY <1>1, <1>2 DEF EndsForCause, Ended, AfterParsed
<1> QED BY <1>5, <1>6, <1>7, <1>8 DEF FramingInv

-----------------------------------------------------------------------------
(***************************************************************************)
(* The theorems                                                            *)
(***************************************************************************)
LEMMA InitFramingInv ==
  ASSUME Init
  PROVE  FramingInv
<1>1. /\ sent = <<>> /\ stdin = <<>> /\ body = <<>> /\ contentLength = 0
      /\ pc = "header" /\ handled = 0 /\ closed = FALSE
      /\ shown = [u \in Documents |-> Unseen]
  BY DEF Init
<1>2. /\ <<>> \in Seq([of : Nat, at : Nat]) /\ <<>> \in Seq(Messages)
      /\ Len(sent) = 0 /\ Len(stdin) = 0
  BY <1>1
<1>3. TypeOK
  <2>1. shown \in [Documents -> Texts \union {Unseen}]
    BY <1>1
  <2>2. handled \in 0..Len(sent) /\ contentLength \in 0..2
    BY <1>1, <1>2
  <2> QED BY <1>1, <1>2, <2>1, <2>2 DEF TypeOK, Messages
<1>4. Piped
  BY <1>1, <1>2 DEF Piped, Due
<1>5. AtMessage /\ EndsForCause
  BY <1>1 DEF AtMessage, EndsForCause, Ended
<1> QED BY <1>2, <1>3, <1>4, <1>5 DEF FramingInv

LEMMA StepKeepsInv ==
  ASSUME FramingInv, [Next]_vars
  PROVE  FramingInv'
<1>1. CASE Editor
  BY <1>1, EditorKeepsInv, HangUpKeepsInv
<1>2. CASE Serve
  BY <1>2, ReadHeaderKeepsInv, ReadBodyKeepsInv, EndKeepsInv, DispatchKeepsInv DEF Serve
<1>3. CASE UNCHANGED vars
  <2>1. UNCHANGED <<shown, sent, stdin, closed, stdout, pc, contentLength, body, handled>>
    BY <1>3 DEF vars, editor
  <2>2. TypeOK' /\ EndsForCause' /\ (Ended' <=> Ended)
    BY <2>1 DEF FramingInv, TypeOK, EndsForCause, Ended
  <2>3. \A j \in 1..Len(sent') : Shaped(sent'[j])
    BY <2>1 DEF FramingInv
  <2>4. AtMessage => AtMessage'
    BY <2>1 DEF AtMessage, BodyOf
  <2>5. Due' = Due
    BY <2>1 DEF Due, Blank
  <2>6. Piped => Piped'
    BY <2>1, <2>5 DEF Piped, Follows
  <2> QED BY <2>2, <2>3, <2>4, <2>6 DEF FramingInv
<1> QED BY <1>1, <1>2, <1>3 DEF Next, Finished

LEMMA FramingHolds == Spec => []FramingInv
<1> QED BY InitFramingInv, StepKeepsInv, PTL DEF Spec

\* The variables keep their types, for any documents, texts, detections and
\* number of messages: the length read is always that of a message, and the
\* server never gets ahead of the editor.
THEOREM ServerTyping == Spec => []TypeOK
<1>1. FramingInv => TypeOK
  BY DEF FramingInv
<1> QED BY <1>1, FramingHolds, PTL

\* However many messages are sent, with whatever headers, however the pipe cuts
\* them into pieces and wherever the editor dies, the body that is handled is
\* the one of the next message, all of it (main.go:204-232).
THEOREM AlignedFrames == Spec => []FramesStayAligned
<1>1. FramingInv => FramesStayAligned
  BY DEF FramingInv, AtMessage, FramesStayAligned, Ended
<1> QED BY <1>1, FramingHolds, PTL

\* The server ends only because it was told to, because the editor is gone, or
\* because a frame had no length (main.go:109-121, 224-226).
THEOREM CausedEnd == Spec => []EndsForCause
<1>1. FramingInv => EndsForCause
  BY DEF FramingInv
<1> QED BY <1>1, FramingHolds, PTL

-----------------------------------------------------------------------------
(***************************************************************************)
(* Positions                                                               *)
(***************************************************************************)
\* Where the line of an offset begins.
LineStart(text, offset) == Max(Breaks(text, offset) \union {0})

\* A set of natural numbers that are not greater than n has a greatest one.
LEMMA GreatestUpTo ==
  ASSUME NEW n \in Nat, NEW S, S \subseteq 0..n, S # {}
  PROVE  Max(S) \in S /\ \A x \in S : x <= Max(S)
<1> DEFINE R == { p \in Nat \X Nat : p[1] < p[2] }
           T == { n - x : x \in S }
<1>1. IsWellFoundedOn(R, Nat)
  BY NatLessThanWellFounded DEF OpToRel
<1>2. \A x, y \in Nat : <<y, x>> \in R <=> y < x
  OBVIOUS
<1>3. T \subseteq Nat /\ T # {}
  OBVIOUS
<1> HIDE DEF R, T
<1>4. PICK z \in T : \A y \in T : ~ (<<y, z>> \in R)
  BY <1>1, <1>3, WFMin
<1>5. PICK m \in S : z = n - m
  BY DEF T
<1>6. ASSUME NEW x \in S PROVE m >= x
  <2>1. n - x \in T
    BY DEF T
  <2>2. ~ (n - x < z)
    BY <1>2, <1>3, <1>4, <2>1
  <2> QED BY <1>5, <2>2
<1>7. Max(S) \in S /\ \A x \in S : Max(S) >= x
  BY <1>6 DEF Max
<1>8. Max(S) \in 0..n /\ \A x \in S : x \in 0..n
  BY <1>7
<1> QED BY <1>7, <1>8

\* A line begins behind a newline or at the start of the text, and no newline
\* lies between its start and its offset.
LEMMA LineStartShape ==
  ASSUME NEW text, NEW o \in Nat
  PROVE  /\ LineStart(text, o) \in 0..o
         /\ \A k \in Breaks(text, o) : k <= LineStart(text, o)
         /\ IsFiniteSet(Breaks(text, o)) /\ Cardinality(Breaks(text, o)) \in Nat
<1> DEFINE S == Breaks(text, o) \union {0}
<1>1. S \subseteq 0..o /\ S # {}
  BY DEF Breaks
<1>2. Breaks(text, o) \subseteq S
  OBVIOUS
<1>3. IsFiniteSet(1..o) /\ Breaks(text, o) \subseteq 1..o
  BY FS_Interval DEF Breaks
<1> HIDE DEF S
<1>4. Max(S) \in S /\ \A x \in S : x <= Max(S)
  BY <1>1, GreatestUpTo
<1>5. IsFiniteSet(Breaks(text, o)) /\ Cardinality(Breaks(text, o)) \in Nat
  BY <1>3, FS_Subset, FS_CardinalityType
<1>6. LineStart(text, o) = Max(S)
  BY DEF LineStart, S
<1> QED BY <1>1, <1>2, <1>4, <1>5, <1>6

\* Two offsets on lines of the same number are on the same line.
LEMMA SameLine ==
  ASSUME NEW text, NEW x \in Nat, NEW y \in Nat,
         Cardinality(Breaks(text, x)) = Cardinality(Breaks(text, y))
  PROVE  Breaks(text, x) = Breaks(text, y)
<1>1. IsFiniteSet(Breaks(text, x)) /\ IsFiniteSet(Breaks(text, y))
  BY LineStartShape
<1>2. CASE x <= y
  <2>1. Breaks(text, x) \subseteq Breaks(text, y)
    BY <1>2 DEF Breaks
  <2> QED BY <1>1, <2>1, FS_Subset
<1>3. CASE y <= x
  <2>1. Breaks(text, y) \subseteq Breaks(text, x)
    BY <1>3 DEF Breaks
  <2> QED BY <1>1, <2>1, FS_Subset
<1> QED BY <1>2, <1>3

\* The characters of a plain line up to an offset, as the editor counts them,
\* are its bytes.
LEMMA PlainColumns ==
  ASSUME NEW t \in Texts, NEW o \in 0..Len(t), NEW x \in 0..Len(t),
         Plain(t, Cardinality(Breaks(t, o))),
         Cardinality(Breaks(t, x)) = Cardinality(Breaks(t, o))
  PROVE  /\ LineStart(t, o) \in 0..x
         /\ Cardinality({ k \in 1..x : /\ t[k] # Continuation
                                       /\ k > Max(Breaks(t, x) \union {0}) })
              = x - LineStart(t, o)
<1> DEFINE M == LineStart(t, o)
           On == { k \in 1..x : /\ t[k] # Continuation
                                /\ k > Max(Breaks(t, x) \union {0}) }
<1>1. Len(t) \in Nat /\ DOMAIN t = 1..Len(t)
  BY ServerAssumption DEF ServerAssumption
<1>2. x \in Nat /\ o \in Nat
  BY <1>1
<1>3. Breaks(t, x) = Breaks(t, o)
  BY <1>2, SameLine
<1>4. /\ M \in 0..x /\ \A k \in Breaks(t, x) : k <= M
      /\ Max(Breaks(t, x) \union {0}) = M
  BY <1>2, <1>3, LineStartShape DEF LineStart
<1> HIDE DEF M
<1>5. ASSUME NEW k \in (M + 1)..x PROVE t[k] # Continuation
  <2>1. k \in 1..x /\ k \in DOMAIN t /\ k \in Nat /\ M < k
    BY <1>1, <1>2, <1>4
  <2>2. Breaks(t, k) = Breaks(t, x)
    <3>1. Breaks(t, k) \subseteq Breaks(t, x)
      BY <1>2, <2>1 DEF Breaks
    <3>2. ASSUME NEW j \in Breaks(t, x) PROVE j \in Breaks(t, k)
      <4>1. j \in 1..x /\ t[j] = Newline
        BY DEF Breaks
      <4>2. j <= M
        BY <1>4
      <4>3. j \in 1..k
        BY <2>1, <4>1, <4>2, <1>4
      <4> QED BY <4>1, <4>3 DEF Breaks
    <3> QED BY <3>1, <3>2
  <2>3. Cardinality(Breaks(t, k)) = Cardinality(Breaks(t, o))
    BY <1>3, <2>2
  <2> QED BY <2>1, <2>3 DEF Plain
<1>6. On = (M + 1)..x
  <2>1. ASSUME NEW k \in On PROVE k \in (M + 1)..x
    BY <1>2, <1>4
  <2>2. ASSUME NEW k \in (M + 1)..x PROVE k \in On
    BY <1>2, <1>4, <1>5
  <2> HIDE DEF On
  <2> QED BY <2>1, <2>2
<1>7. Cardinality((M + 1)..x) = x - M
  <2>1. M + 1 \in Int /\ x \in Int /\ M \in Int /\ M <= x
    BY <1>2, <1>4
  <2>2. Cardinality((M + 1)..x) = IF M + 1 > x THEN 0 ELSE x - (M + 1) + 1
    BY <2>1, FS_Interval
  <2> QED BY <2>1, <2>2
<1> QED BY <1>4, <1>6, <1>7 DEF M

\* On a plain line the editor finds the offset the server meant.
LEMMA PlaceFound ==
  ASSUME NEW t \in Texts, NEW o \in 0..Len(t), Plain(t, lineCol(t, o).line)
  PROVE  OffsetAt(t, lineCol(t, o)) = o
<1> DEFINE p == lineCol(t, o)
           M == LineStart(t, o)
           Columns(x) == Cardinality({ k \in 1..x :
                            /\ t[k] # Continuation
                            /\ k > Max(Breaks(t, x) \union {0}) })
           Fits(x) == Cardinality(Breaks(t, x)) = p.line /\ p.character = Columns(x)
<1>1. p.line = Cardinality(Breaks(t, o)) /\ p.character = o - M
  BY DEF lineCol, LineStart
<1>2. Len(t) \in Nat
  BY ServerAssumption DEF ServerAssumption
<1>3. ASSUME NEW x \in 0..Len(t), Cardinality(Breaks(t, x)) = p.line
      PROVE  M \in 0..x /\ Columns(x) = x - M
  BY <1>1, <1>3, PlainColumns
<1> HIDE DEF M, Columns
<1>4. Fits(o)
  BY <1>1, <1>3
<1>5. ASSUME NEW x \in 0..Len(t), Fits(x) PROVE x = o
  <2>1. M \in 0..x /\ o - M = x - M
    BY <1>1, <1>3, <1>5
  <2> QED BY <1>2, <2>1
<1>6. OffsetAt(t, p) = CHOOSE x \in 0..Len(t) : Fits(x)
  BY DEF OffsetAt, Columns
<1> HIDE DEF p, Fits
<1> QED BY <1>4, <1>5, <1>6 DEF p

\* What the editor reads off diagnostics, against the detections of a text.
ReadAs(t, diagnostics) ==
  LET InPlace(g) == Plain(t, g.start.line) /\ Plain(t, g.end.line)
      RowOf(o) == lineCol(t, o).line
  IN  /\ { <<g.start.line, g.end.line, g.severity = 1>> : g \in diagnostics }
          = { <<RowOf(d.start), RowOf(d.end), d.secret>> : d \in Detect(t) }
      /\ { [start |-> OffsetAt(t, g.start), end |-> OffsetAt(t, g.end),
            secret |-> g.severity = 1] : g \in { h \in diagnostics : InPlace(h) } }
          = { d \in Detect(t) : Plain(t, RowOf(d.start)) /\ Plain(t, RowOf(d.end)) }

\* The diagnostics of a text read as its detections.
LEMMA DiagnosticsRead ==
  ASSUME NEW t \in Texts
  PROVE  ReadAs(t, Diagnostics(t))
<1> DEFINE RowOf(o) == lineCol(t, o).line
           Told(d) == [start |-> lineCol(t, d.start), end |-> lineCol(t, d.end),
                       severity |-> IF d.secret THEN 1 ELSE 2]
           InPlace(g) == Plain(t, g.start.line) /\ Plain(t, g.end.line)
           Back(g) == [start |-> OffsetAt(t, g.start), end |-> OffsetAt(t, g.end),
                       secret |-> g.severity = 1]
           Row(g) == <<g.start.line, g.end.line, g.severity = 1>>
           D == Detect(t)
           G == Diagnostics(t)
<1>1. ASSUME NEW d \in D
      PROVE  /\ d \in [start : Nat, end : Nat, secret : BOOLEAN]
             /\ d.start \in 0..Len(t) /\ d.end \in 0..Len(t)
  BY ServerAssumption DEF ServerAssumption
<1>2. G = { Told(d) : d \in D }
  BY DEF Diagnostics
<1>3. ASSUME NEW d \in D
      PROVE  Row(Told(d)) = <<RowOf(d.start), RowOf(d.end), d.secret>>
  <2>1. (IF d.secret THEN 1 ELSE 2) = 1 <=> d.secret
    OBVIOUS
  <2>2. ((IF d.secret THEN 1 ELSE 2) = 1) = d.secret
    BY <1>1, <2>1
  <2> QED BY <2>2
<1>4. ASSUME NEW d \in D
      PROVE  /\ InPlace(Told(d)) <=> Plain(t, RowOf(d.start)) /\ Plain(t, RowOf(d.end))
             /\ InPlace(Told(d)) => Back(Told(d)) = d
  <2>1. InPlace(Told(d)) <=> Plain(t, RowOf(d.start)) /\ Plain(t, RowOf(d.end))
    OBVIOUS
  <2>2. ASSUME InPlace(Told(d)) PROVE Back(Told(d)) = d
    <3>1. /\ OffsetAt(t, lineCol(t, d.start)) = d.start
          /\ OffsetAt(t, lineCol(t, d.end)) = d.end
      BY <1>1, <2>2, PlaceFound
    <3>2. ((IF d.secret THEN 1 ELSE 2) = 1) = d.secret
      BY <1>1
    <3>3. Back(Told(d)) = [start |-> d.start, end |-> d.end, secret |-> d.secret]
      BY <3>1, <3>2
    <3> QED BY <1>1, <3>3
  <2> QED BY <2>1, <2>2
<1> HIDE DEF Told, InPlace, Back, Row, D, G, RowOf
<1>5. { Row(g) : g \in G } = { <<RowOf(d.start), RowOf(d.end), d.secret>> : d \in D }
  BY <1>2, <1>3
<1>6. { Back(g) : g \in { h \in G : InPlace(h) } }
        = { d \in D : Plain(t, RowOf(d.start)) /\ Plain(t, RowOf(d.end)) }
  BY <1>2, <1>4
<1> QED BY <1>5, <1>6 DEF ReadAs, InPlace, Back, Row, D, G, RowOf

-----------------------------------------------------------------------------
(***************************************************************************)
(* What the editor shows and what it was told                              *)
(***************************************************************************)
\* Message m carries a text of document u; the text is the last of its list.
Tells(m, u) ==
  /\ m.method \in {"didOpen", "didChange"} /\ m.uri = u /\ m.changes # <<>>

\* An opened document comes with one text.
OpensWithOne(m) == m.method = "didOpen" => Len(m.changes) = 1

\* The text of an open document is the one last sent.
Shows ==
  /\ \A i \in 1..Len(sent) : OpensWithOne(sent[i])
  /\ \A u \in Documents : shown[u] # Unseen =>
       \E i \in 1..Len(sent) :
         /\ Tells(sent[i], u) /\ Last(sent[i].changes) = shown[u]
         /\ \A j \in 1..Len(sent) : j > i => ~ Tells(sent[j], u)

Outputs ==
  [kind : {"answer", "diagnostics"}, of : Nat \union Documents \union {"none"},
   diagnostics : {{}} \union { Diagnostics(t) : t \in Texts }]

IsAbout(w, u) == w.kind = "diagnostics" /\ w.of = u

\* The last diagnostics of a document in a list of outputs.
LatestAre(list, u, diagnostics) ==
  \E k \in 1..Len(list) :
    /\ IsAbout(list[k], u) /\ list[k].diagnostics = diagnostics
    /\ \A j \in 1..Len(list) : IsAbout(list[j], u) => j <= k

\* Of the messages handled, the last with a text of a document has its
\* diagnostics written, and none of that document were written after.
Published ==
  /\ stdout \in Seq(Outputs)
  /\ \A u \in Documents, i \in 1..handled :
       Tells(sent[i], u) /\ (\A j \in 1..handled : j > i => ~ Tells(sent[j], u)) =>
         LatestAre(stdout, u, Diagnostics(Last(sent[i].changes)))

SightInv == FramingInv /\ Shows /\ Published

\* One more message.
LEMMA WriteKeepsSight ==
  ASSUME SightInv, NEW m \in Messages, OpensWithOne(m), Write(m),
         \A u \in Documents :
           \/ shown'[u] = Unseen
           \/ Tells(m, u) /\ shown'[u] = Last(m.changes)
           \/ ~ Tells(m, u) /\ shown'[u] = shown[u]
  PROVE  Shows' /\ Published'
<1>1. PICK frame :
        /\ sent' = Append(sent, [m EXCEPT !.frame = frame])
        /\ stdout' = stdout /\ handled' = handled
  BY DEF Write
<1> DEFINE new == [m EXCEPT !.frame = frame]
           n == Len(sent)
<1>2. /\ new.method = m.method /\ new.uri = m.uri /\ new.changes = m.changes
  BY DEF Messages
<1>3. sent \in Seq(Messages) /\ n \in Nat /\ handled \in 0..n
  BY DEF SightInv, FramingInv, TypeOK, Messages
<1> HIDE DEF new, n
<1>4. /\ Len(sent') = n + 1 /\ sent'[n + 1] = new
      /\ \A i \in 1..n : sent'[i] = sent[i]
  BY <1>1, <1>3 DEF new, n
<1>5. \A u : Tells(new, u) <=> Tells(m, u)
  BY <1>2 DEF Tells
<1>6. \A i \in 1..(n + 1) : i \in 1..n \/ i = n + 1
  BY <1>3
<1>7. ASSUME NEW i \in 1..Len(sent') PROVE OpensWithOne(sent'[i])
  BY <1>2, <1>4, <1>6 DEF SightInv, Shows, OpensWithOne, n
<1>8. ASSUME NEW u \in Documents, shown'[u] # Unseen
      PROVE  \E i \in 1..Len(sent') :
               /\ Tells(sent'[i], u) /\ Last(sent'[i].changes) = shown'[u]
               /\ \A j \in 1..Len(sent') : j > i => ~ Tells(sent'[j], u)
  <2>1. CASE Tells(m, u) /\ shown'[u] = Last(m.changes)
    <3>1. n + 1 \in 1..Len(sent') /\ \A j \in 1..Len(sent') : ~ (j > n + 1)
      BY <1>3, <1>4
    <3>2. Tells(sent'[n + 1], u) /\ Last(sent'[n + 1].changes) = shown'[u]
      BY <1>2, <1>4, <1>5, <2>1
    <3> QED BY <3>1, <3>2
  <2>2. CASE ~ Tells(m, u) /\ shown'[u] = shown[u]
    <3>1. PICK i \in 1..n : /\ Tells(sent[i], u) /\ Last(sent[i].changes) = shown[u]
                            /\ \A j \in 1..n : j > i => ~ Tells(sent[j], u)
      BY <1>8, <2>2 DEF SightInv, Shows, n
    <3>2. i \in 1..Len(sent') /\ sent'[i] = sent[i]
      BY <1>3, <1>4
    <3>3. ASSUME NEW j \in 1..Len(sent'), j > i PROVE ~ Tells(sent'[j], u)
      BY <1>4, <1>5, <1>6, <2>2, <3>1, <3>3
    <3> QED BY <2>2, <3>1, <3>2, <3>3
  <2> QED BY <1>8, <2>1, <2>2
<1>9. Shows'
  BY <1>7, <1>8 DEF Shows
<1>10. \A i \in 1..handled : sent'[i] = sent[i]
  BY <1>3, <1>4
<1>11. Outputs' = Outputs
  BY DEF Outputs
<1>12. Published'
  BY <1>1, <1>10, <1>11 DEF SightInv, Published
<1> QED BY <1>9, <1>12

LEMMA EditorKeepsSight ==
  ASSUME SightInv, Editor
  PROVE  Shows' /\ Published'
<1>0. /\ shown \in [Documents -> Texts \union {Unseen}] /\ TypeOK
      /\ Methods \intersect {"didOpen", "didChange"} = {}
  BY ServerAssumption DEF SightInv, FramingInv, TypeOK, ServerAssumption
<1>1. ASSUME NEW u \in Documents, NEW t \in Texts, Open(u, t)
      PROVE  Shows' /\ Published'
  <2> DEFINE m == Message("didOpen", u, <<t>>)
  <2>1. <<t>> \in Seq(Texts) /\ Len(<<t>>) = 1 /\ Last(<<t>>) = t /\ <<t>> # <<>>
    BY DEF Last
  <2>2. m \in Messages
    BY <1>0, <2>1, MessageTyped
  <2>3. m.method = "didOpen" /\ m.uri = u /\ m.changes = <<t>>
    BY DEF Message
  <2>4. shown' = [shown EXCEPT ![u] = t] /\ Write(m)
    BY <1>1 DEF Open
  <2> HIDE DEF m
  <2>5. OpensWithOne(m)
    BY <2>1, <2>3 DEF OpensWithOne
  <2>6. \A v \in Documents :
          \/ Tells(m, v) /\ shown'[v] = Last(m.changes)
          \/ ~ Tells(m, v) /\ shown'[v] = shown[v]
    BY <1>0, <2>1, <2>3, <2>4 DEF Tells
  <2> QED BY <2>2, <2>4, <2>5, <2>6, WriteKeepsSight
<1>2. ASSUME NEW u \in Documents, NEW changes \in BoundedSeq(Texts, 2), Change(u, changes)
      PROVE  Shows' /\ Published'
  <2> DEFINE m == Message("didChange", u, changes)
  <2>1. changes \in Seq(Texts)
    <3>1. PICK n \in 0..2 : changes \in [1..n -> Texts]
      BY DEF BoundedSeq, SeqOf
    <3> QED BY <3>1, SeqDef
  <2>2. m \in Messages
    BY <1>0, <2>1, MessageTyped
  <2>3. m.method = "didChange" /\ m.uri = u /\ m.changes = changes
    BY DEF Message
  <2>4. /\ shown' = [shown EXCEPT ![u] = IF changes = <<>> THEN @ ELSE Last(changes)]
        /\ Write(m)
    BY <1>2 DEF Change
  <2> HIDE DEF m
  <2>5. OpensWithOne(m)
    BY <2>3 DEF OpensWithOne
  <2>6. \A v \in Documents :
          \/ Tells(m, v) /\ shown'[v] = Last(m.changes)
          \/ ~ Tells(m, v) /\ shown'[v] = shown[v]
    BY <1>0, <2>3, <2>4 DEF Tells
  <2> QED BY <2>2, <2>4, <2>5, <2>6, WriteKeepsSight
<1>3. ASSUME NEW u \in Documents, Close(u) PROVE Shows' /\ Published'
  <2> DEFINE m == Message("didClose", u, <<>>)
  <2>1. <<>> \in Seq(Texts)
    OBVIOUS
  <2>2. m \in Messages
    BY <1>0, <2>1, MessageTyped
  <2>3. m.method = "didClose"
    BY DEF Message
  <2>4. shown' = [shown EXCEPT ![u] = Unseen] /\ Write(m)
    BY <1>3 DEF Close
  <2> HIDE DEF m
  <2>5. OpensWithOne(m)
    BY <2>3 DEF OpensWithOne
  <2>6. \A v \in Documents :
          shown'[v] = Unseen \/ (~ Tells(m, v) /\ shown'[v] = shown[v])
    BY <1>0, <2>3, <2>4 DEF Tells
  <2> QED BY <2>2, <2>4, <2>5, <2>6, WriteKeepsSight
<1>4. ASSUME NEW method \in Methods, Tell(method) PROVE Shows' /\ Published'
  <2> DEFINE m == Message(method, "none", <<>>)
  <2>1. <<>> \in Seq(Texts)
    OBVIOUS
  <2>2. m \in Messages
    BY <1>0, <2>1, MessageTyped
  <2>3. m.method = method
    BY DEF Message
  <2>4. shown' = shown /\ Write(m)
    BY <1>4 DEF Tell
  <2> HIDE DEF m
  <2>5. method \notin {"didOpen", "didChange"}
    BY <1>0
  <2>6. OpensWithOne(m)
    BY <2>3, <2>5 DEF OpensWithOne
  <2>7. \A v \in Documents : ~ Tells(m, v) /\ shown'[v] = shown[v]
    BY <2>3, <2>4, <2>5 DEF Tells
  <2> QED BY <2>2, <2>4, <2>6, <2>7, WriteKeepsSight
<1>5. CASE HangUp
  <2>1. UNCHANGED <<shown, sent, stdout, handled>>
    BY <1>5 DEF HangUp, editor
  <2>2. Outputs' = Outputs
    BY DEF Outputs
  <2> QED BY <2>1, <2>2 DEF SightInv, Shows, Published
<1> QED BY <1>1, <1>2, <1>3, <1>4, <1>5 DEF Editor

\* What dispatch writes is nothing, an answer, or the diagnostics of the text
\* the message carries.
LEMMA WrittenShape ==
  ASSUME NEW m \in Messages, OpensWithOne(m)
  PROVE  \/ Written(m) = <<>> /\ \A u : ~ Tells(m, u)
         \/ \E w \in Outputs :
              /\ Written(m) = <<w>>
              /\ \A u : IsAbout(w, u) <=> Tells(m, u)
              /\ \A u : Tells(m, u) => w.diagnostics = Diagnostics(Last(m.changes))
<1>1. /\ m.id \in Nat /\ m.uri \in Documents \union {"none"} /\ m.changes \in Seq(Texts)
  BY DEF Messages
<1>2. CASE m.method \in {"initialize", "shutdown"}
  <2> DEFINE w == Answer(m.id)
  <2>1. Written(m) = <<w>>
    BY <1>2 DEF Written
  <2>2. w \in Outputs /\ w.kind = "answer"
    BY <1>1 DEF Answer, Outputs
  <2>3. \A u : ~ Tells(m, u)
    BY <1>2 DEF Tells
  <2> HIDE DEF w
  <2>4. \A u : ~ IsAbout(w, u)
    BY <2>2 DEF IsAbout
  <2> QED BY <2>1, <2>2, <2>3, <2>4
<1>3. ASSUME m.method \in {"didOpen", "didChange"}, m.changes # <<>>
      PROVE  \E w \in Outputs :
              /\ Written(m) = <<w>>
              /\ \A u : IsAbout(w, u) <=> Tells(m, u)
              /\ \A u : Tells(m, u) => w.diagnostics = Diagnostics(Last(m.changes))
  <2> DEFINE text == Last(m.changes)
             w == [kind |-> "diagnostics", of |-> m.uri, diagnostics |-> Diagnostics(text)]
  <2>1. Len(m.changes) \in Nat /\ Len(m.changes) # 0
    BY <1>1, <1>3
  <2>2. text \in Texts
    BY <1>1, <2>1 DEF Last
  <2>3. Written(m) = publish(m.uri, text)
    <3>1. CASE m.method = "didOpen"
      <4>1. text = m.changes[1]
        BY <3>1 DEF Last, OpensWithOne
      <4>2. Written(m) = publish(m.uri, m.changes[1])
        BY <3>1 DEF Written
      <4> QED BY <4>1, <4>2
    <3>2. CASE m.method = "didChange"
      BY <1>3, <3>2 DEF Written, ShownBy
    <3> QED BY <1>3, <3>1, <3>2
  <2>4. publish(m.uri, text) = <<w>>
    BY DEF publish
  <2>5. w \in Outputs
    BY <1>1, <2>2 DEF Outputs
  <2>6. w.kind = "diagnostics" /\ w.of = m.uri /\ w.diagnostics = Diagnostics(text)
    OBVIOUS
  <2> HIDE DEF w, text
  <2>7. \A u : IsAbout(w, u) <=> Tells(m, u)
    BY <1>3, <2>6 DEF IsAbout, Tells
  <2> QED BY <2>3, <2>4, <2>5, <2>6, <2>7 DEF text
<1>4. CASE /\ m.method \notin {"initialize", "shutdown"}
           /\ ~ (m.method \in {"didOpen", "didChange"} /\ m.changes # <<>>)
  <2>1. m.method # "didOpen"
    <3>1. Len(<<>>) # 1
      OBVIOUS
    <3> QED BY <1>4, <3>1 DEF OpensWithOne
  <2>2. Written(m) = <<>>
    BY <1>4, <2>1 DEF Written
  <2> QED BY <1>4, <2>2 DEF Tells
<1> QED BY <1>2, <1>3, <1>4

\* One more output: the latest diagnostics of its own document are its own,
\* those of any other document stay what they were.
LEMMA OneMoreOutput ==
  ASSUME NEW list \in Seq(Outputs), NEW w \in Outputs, NEW u
  PROVE  /\ list \o <<w>> \in Seq(Outputs)
         /\ IsAbout(w, u) => LatestAre(list \o <<w>>, u, w.diagnostics)
         /\ \A g : ~ IsAbout(w, u) /\ LatestAre(list, u, g) => LatestAre(list \o <<w>>, u, g)
<1> DEFINE n == Len(list)
           more == list \o <<w>>
<1>1. /\ n \in Nat /\ more \in Seq(Outputs) /\ Len(more) = n + 1
      /\ \A k \in 1..n : more[k] = list[k]
      /\ more[n + 1] = w
  OBVIOUS
<1> HIDE DEF n, more
<1>2. \A k \in 1..(n + 1) : k \in 1..n \/ k = n + 1
  BY <1>1
<1>3. ASSUME IsAbout(w, u) PROVE LatestAre(more, u, w.diagnostics)
  <2>1. n + 1 \in 1..(n + 1) /\ \A j \in 1..(n + 1) : j <= n + 1
    BY <1>1
  <2> QED BY <1>1, <1>3, <2>1 DEF LatestAre
<1>4. ASSUME NEW g, ~ IsAbout(w, u), LatestAre(list, u, g) PROVE LatestAre(more, u, g)
  <2>1. PICK k \in 1..n : /\ IsAbout(list[k], u) /\ list[k].diagnostics = g
                          /\ \A j \in 1..n : IsAbout(list[j], u) => j <= k
    BY <1>4 DEF LatestAre, n
  <2>2. k \in 1..(n + 1) /\ more[k] = list[k]
    BY <1>1
  <2>3. \A j \in 1..(n + 1) : IsAbout(more[j], u) => j <= k
    BY <1>1, <1>2, <1>4, <2>1
  <2> QED BY <1>1, <2>1, <2>2, <2>3 DEF LatestAre
<1> QED BY <1>1, <1>3, <1>4 DEF more

LEMMA DispatchKeepsSight ==
  ASSUME SightInv, Dispatch
  PROVE  Shows' /\ Published'
<1> DEFINE n == handled + 1
           m == sent[n]
<1>1. /\ UNCHANGED <<shown, sent>> /\ handled' = n /\ pc = "handle"
      /\ stdout' = stdout \o Written(Parsed)
  BY DEF Dispatch, editor
<1>2. n \in 1..Len(sent) /\ Parsed = m
  BY <1>1, ParsedIsDue DEF SightInv
<1>3. /\ m \in Messages /\ handled \in Nat /\ stdout \in Seq(Outputs)
      /\ OpensWithOne(m)
  <2>1. sent \in Seq(Messages) /\ handled \in 0..Len(sent)
    BY DEF SightInv, FramingInv, TypeOK, Messages
  <2>2. stdout \in Seq(Outputs) /\ OpensWithOne(m)
    BY <1>2 DEF SightInv, Published, Shows
  <2>3. m \in Messages
    BY <1>2, <2>1
  <2> QED BY <2>1, <2>2, <2>3
<1>4. Shows'
  BY <1>1 DEF SightInv, Shows
<1>5. Outputs' = Outputs
  BY DEF Outputs
<1> HIDE DEF m
<1>6. CASE Written(m) = <<>> /\ \A u : ~ Tells(m, u)
  <2>1. stdout' = stdout
    BY <1>1, <1>2, <1>3, <1>6
  <2>2. ASSUME NEW u \in Documents, NEW i \in 1..n, Tells(sent[i], u),
               \A j \in 1..n : j > i => ~ Tells(sent[j], u)
        PROVE  LatestAre(stdout, u, Diagnostics(Last(sent[i].changes)))
    <3>1. i # n
      BY <1>6, <2>2 DEF m
    <3>2. i \in 1..handled /\ \A j \in 1..handled : j \in 1..n
      BY <1>3, <3>1
    <3> QED BY <2>2, <3>2 DEF SightInv, Published
  <2> QED BY <1>1, <1>3, <1>4, <1>5, <2>1, <2>2 DEF Published
<1>7. ASSUME NEW w \in Outputs, Written(m) = <<w>>,
             \A u : IsAbout(w, u) <=> Tells(m, u),
             \A u : Tells(m, u) => w.diagnostics = Diagnostics(Last(m.changes))
      PROVE  Published'
  <2>1. stdout' = stdout \o <<w>>
    BY <1>1, <1>2, <1>7
  <2>2. stdout' \in Seq(Outputs)
    BY <1>3, <2>1, OneMoreOutput
  <2>3. ASSUME NEW u \in Documents, NEW i \in 1..n, Tells(sent[i], u),
               \A j \in 1..n : j > i => ~ Tells(sent[j], u)
        PROVE  LatestAre(stdout', u, Diagnostics(Last(sent[i].changes)))
    <3>1. CASE i = n
      <4>1. Tells(m, u) /\ sent[i] = m
        BY <2>3, <3>1 DEF m
      <4>2. IsAbout(w, u) /\ w.diagnostics = Diagnostics(Last(m.changes))
        BY <1>7, <4>1
      <4>3. LatestAre(stdout \o <<w>>, u, w.diagnostics)
        BY <1>3, <4>2, OneMoreOutput
      <4> QED BY <2>1, <4>1, <4>2, <4>3
    <3>2. CASE i # n
      <4>1. i \in 1..handled /\ n > i /\ n \in 1..n /\ \A j \in 1..handled : j \in 1..n
        BY <1>3, <3>2
      <4>2. ~ Tells(m, u)
        BY <2>3, <4>1 DEF m
      <4>3. LatestAre(stdout, u, Diagnostics(Last(sent[i].changes)))
        BY <2>3, <4>1 DEF SightInv, Published
      <4>4. ~ IsAbout(w, u)
        BY <1>7, <4>2
      <4> QED BY <1>3, <2>1, <4>3, <4>4, OneMoreOutput
    <3> QED BY <3>1, <3>2
  <2> QED BY <1>1, <1>5, <2>2, <2>3 DEF Published
<1> QED BY <1>3, <1>4, <1>6, <1>7, WrittenShape

LEMMA SightHolds == Spec => []SightInv
<1>1. Init => Shows /\ Published
  <2> SUFFICES ASSUME Init PROVE Shows /\ Published
    OBVIOUS
  <2>1. /\ Len(sent) = 0 /\ handled = 0 /\ stdout \in Seq(Outputs)
        /\ \A u \in Documents : shown[u] = Unseen
    BY DEF Init
  <2> QED BY <2>1 DEF Shows, Published
<1>2. ASSUME SightInv, [Next]_vars PROVE SightInv'
  <2>1. FramingInv'
    BY <1>2, StepKeepsInv DEF SightInv
  <2>2. CASE Editor
    BY <1>2, <2>1, <2>2, EditorKeepsSight DEF SightInv
  <2>3. CASE Dispatch
    BY <1>2, <2>1, <2>3, DispatchKeepsSight DEF SightInv
  <2>4. CASE ReadHeader \/ EndOfInput \/ ReadBody \/ BodyIsCut \/ UNCHANGED vars
    <3>1. UNCHANGED <<shown, sent, stdout, handled>>
      BY <2>4 DEF ReadHeader, EndOfInput, ReadBody, BodyIsCut, vars, editor
    <3>2. Outputs' = Outputs
      BY DEF Outputs
    <3> QED BY <1>2, <2>1, <3>1, <3>2 DEF SightInv, Shows, Published
  <2> QED BY <1>2, <2>2, <2>3, <2>4 DEF Next, Serve, Finished
<1> QED BY <1>1, <1>2, InitFramingInv, PTL DEF Spec, SightInv

\* Once everything sent is handled, the editor has the detections of the text
\* it shows, for any documents, texts, detections and number of messages,
\* bunched and empty changes included (main.go:143-152, 158-176, 234-248).
THEOREM EditorUpToDate == Spec => []EditorSeesItsText
<1>1. ASSUME SightInv PROVE EditorSeesItsText
  <2> SUFFICES ASSUME pc = "header", handled = Len(sent),
                      NEW u \in Documents, shown[u] # Unseen
               PROVE  ReadAs(shown[u], Latest(u))
    BY DEF EditorSeesItsText, ReadAs
  <2>1. shown[u] \in Texts
    BY <1>1 DEF SightInv, FramingInv, TypeOK
  <2>2. PICK i \in 1..Len(sent) :
          /\ Tells(sent[i], u) /\ Last(sent[i].changes) = shown[u]
          /\ \A j \in 1..Len(sent) : j > i => ~ Tells(sent[j], u)
    BY <1>1 DEF SightInv, Shows
  <2>3. LatestAre(stdout, u, Diagnostics(shown[u]))
    BY <1>1, <2>2 DEF SightInv, Published
  <2>4. Latest(u) = Diagnostics(shown[u])
    <3>1. stdout \in Seq(Outputs)
      BY <1>1 DEF SightInv, Published
    <3>2. DOMAIN stdout = 1..Len(stdout) /\ Len(stdout) \in Nat
      BY <3>1
    <3>3. PICK k \in 1..Len(stdout) :
            /\ IsAbout(stdout[k], u) /\ stdout[k].diagnostics = Diagnostics(shown[u])
            /\ \A j \in 1..Len(stdout) : IsAbout(stdout[j], u) => j <= k
      BY <2>3 DEF LatestAre
    <3> DEFINE about == { j \in DOMAIN stdout :
                            stdout[j].kind = "diagnostics" /\ stdout[j].of = u }
    <3>4. k \in about /\ \A j \in about : j <= k /\ j \in 1..Len(stdout)
      BY <3>2, <3>3 DEF IsAbout
    <3>5. Latest(u) = stdout[Max(about)].diagnostics
      BY DEF Latest
    <3> HIDE DEF about
    <3>6. Max(about) \in about /\ \A j \in about : j <= Max(about)
      <4>1. about \subseteq 0..Len(stdout) /\ about # {}
        BY <3>2, <3>4
      <4> QED BY <3>2, <4>1, GreatestUpTo
    <3>7. Max(about) = k
      <4>1. Max(about) <= k /\ k <= Max(about) /\ Max(about) \in 1..Len(stdout)
        BY <3>4, <3>6
      <4> QED BY <4>1, <3>2
    <3> QED BY <3>3, <3>5, <3>7
  <2>5. ReadAs(shown[u], Diagnostics(shown[u]))
    BY <2>1, DiagnosticsRead
  <2> QED BY <2>4, <2>5
<1> QED BY <1>1, SightHolds, PTL
=============================================================================
