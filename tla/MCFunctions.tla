---------------------------- MODULE MCFunctions ----------------------------
(***************************************************************************)
(* The functions that keep no state, each over all inputs of a small       *)
(* family: a behaviour enters one input, and the properties are about what *)
(* the functions make of it.                                               *)
(***************************************************************************)
EXTENDS Tokenizer, SiretSiren, Benchmark, RustBinding

CONSTANTS MaxBytes    \* bound: length of the texts given to the tokenizer

VARIABLES
  kind,       \* the family of the input
  entered,    \* whether there is one
  input

vars == <<kind, entered, input>>

Enter(x) == input' = x

-----------------------------------------------------------------------------
\* Texts in bytes: a given name of one letter, a capital letter of two bytes,
\* a blank and a hyphen; and the bytes of the letter alone, which are invalid.
MCWidth   == [r \in {"M", "m", "E acute", "e acute", " ", "-"} |->
                IF r \in {"E acute", "e acute"} THEN 2 ELSE 1]
MCLetters == {"M", "m", "E acute", "e acute"}
MCLower   == [r \in {"M", "E acute"} |-> IF r = "M" THEN "m" ELSE "e acute"]
MCJoiners == {"-"}
MCNames   == {<<"m">>}
Bytes == {<<"M", 1>>, <<"E acute", 1>>, <<"E acute", 2>>, <<" ", 1>>, <<"-", 1>>}

ASSUME BytesAssumption ==
  /\ MaxBytes \in Nat
  /\ \A b \in Bytes : b[1] \in DOMAIN Width /\ b[2] \in 1..Width[b[1]]

EnterText ==
  /\ kind = "text"
  /\ \E t \in BoundedSeq(Bytes, MaxBytes) : Enter(t)

\* Card numbers of 13 and 16 digits: zeros, two neighbours, and the digit
\* that makes them valid; in one piece and in groups.
Card(n, p, a, b) ==
  LET zeros == [k \in 1..n |-> IF k = p THEN a ELSE IF k = p + 1 THEN b ELSE 0]
      d == CHOOSE c \in Digit : ValidateLuhn([zeros EXCEPT ![n] = c])
  IN  [zeros EXCEPT ![n] = d]
Grouped(card) == SubSeq(card, 1, 4) \o <<Blank>> \o SubSeq(card, 5, 12) \o <<Dash>>
                   \o SubSeq(card, 13, Len(card))

EnterCard ==
  /\ kind = "card"
  /\ \E n \in {13, 16}, a \in {0, 3, 5, 9}, b \in {0, 1, 4, 9} : \E p \in 1..(n - 2) :
       \/ Enter(Card(n, p, a, b))
       \/ Enter(Grouped(Card(n, p, a, b)))

\* Values to mask: runs of letters, of digits, and addresses.
EnterValue ==
  /\ kind = "value"
  /\ \/ \E n \in 0..10, as \in {"number", "other"} :
          Enter([is |-> [k \in 1..n |-> IF as = "number" THEN 1 ELSE Letter],
                 as |-> as])
     \/ \E v \in BoundedSeq({Letter, At}, 7) : Enter([is |-> v, as |-> "email"])

\* Groups of digits with a blank, another character or nothing in between.
\* 732 829 320 is a SIREN, and with 00074 behind it a SIRET.
Groups == {<<7, 3, 2>>, <<8, 2, 9>>, <<3, 2, 0>>, <<1, 1, 1>>, <<0, 0, 0, 7, 4>>}
Joined(groups, between) ==
  FlattenSeq([k \in DOMAIN groups |-> IF k = 1 THEN groups[k] ELSE between[k - 1] \o groups[k]])

EnterNumbers ==
  /\ kind = "numbers"
  /\ \/ \E g \in SeqOf(Groups, 3) :
          \E b \in TupleOf({<<>>, <<Blank>>, <<Other>>}, 2) : Enter(Joined(g, b))
     \/ \E g \in TupleOf(Groups, 4) :
          \E b \in TupleOf({<<>>, <<Blank>>}, 3) : Enter(Joined(g, b))
     \/ \E g \in TupleOf(Groups, 5) :
          Enter(Joined(g, [k \in 1..4 |-> <<Blank>>]))

\* Ten samples with values of one character and of two.
Values == [EMAIL |-> {<<"a">>, <<"b", "c">>}, IP |-> {<<"d">>, <<"e", "f">>},
           API_KEY |-> {<<"g">>, <<"h", "i">>}, PHONE |-> {<<"j">>, <<"k", "l">>}]

EnterSample ==
  /\ kind = "sample"
  /\ \E i \in 0..9 : \E s \in Generate(i, Values) : Enter(s)

\* Up to two true spans, and up to two detections of any kind or an error;
\* once, or twice with or without an error the second time.
Spans == { [start |-> a, end |-> b, type |-> t] :
             a \in 0..2, b \in 1..3, t \in {"EMAIL", "IP"} }
RealSpans == { s \in Spans : s.start < s.end }
Truths == { t \in BoundedSeq(RealSpans, 2) :
              Len(t) = 2 => t[1].end <= t[2].start }
Answers == { [dets |-> g, err |-> FALSE] : g \in BoundedSeq(RealSpans, 2) }
Failed  == [dets |-> <<>>, err |-> TRUE]

EnterScores ==
  /\ kind = "scores"
  /\ \E t \in Truths : \E g \in Answers \union {Failed} :
       LET s == Sample("doc", Wording(3), t) IN
       \E h \in {g, Failed} : Enter([samples |-> <<s, s>>, answers |-> <<g, h>>])

\* Calls of the Rust library, with answers up to twice as long as a C int
\* counts.
EnterCall ==
  /\ kind = "call"
  /\ \E utf8 \in BOOLEAN, n \in 0..(IntRange + 4) :
       (n = 0 => utf8) /\ Enter([utf8 |-> utf8, json |-> n])

Init ==
  /\ kind \in {"text", "card", "value", "numbers", "sample", "scores", "call"}
  /\ entered = FALSE
  /\ input = <<>>

Next ==
  /\ ~ entered
  /\ entered' = TRUE
  /\ UNCHANGED kind
  /\ \/ EnterText \/ EnterCard \/ EnterValue \/ EnterNumbers
     \/ EnterSample \/ EnterScores \/ EnterCall

Spec == Init /\ [][Next]_vars

-----------------------------------------------------------------------------
Of(k) == entered /\ kind = k

\* Tokens are the words of a text, in order and whole; of a text that is not
\* UTF-8, some of them, and none with a byte of anything else
\* (context/names.go:41-75).
WordsAreTokens == Of("text") => TokensAreWords(input)

\* No two names of the name pass share a byte, although each may reach over
\* the token behind it (pii/names.go:24-32).
NamesAreDisjoint == Of("text") => NamesDoNotMeet(input)

\* One wrong digit, or two neighbours exchanged, never make another valid
\* card number, but for 09 and 90 (validate.go:43-57).
OneSlipIsCaught == Of("card") => TyposAreCaught(input)

\* A masked value shows what the value has in its place or a star, and never
\* all of it, nor all of a part of an address; a number of eight characters is
\* the exception (mask.go:6-35).
MaskedIsHidden == Of("value") => MaskHides(input.is, input.as)

\* A company number that passes the checksum is kept after arbitration, unless
\* another candidate of its kind meets it or a SIRET holds it, and no other
\* number is ever reported (siretsiren.go:30-66).
CompaniesAreFound == Of("numbers") => NumbersAreFound(input)

\* The annotations of a generated sample are the places where its text holds
\* a value, all of them, whatever the lengths of the values
\* (dataset.go:62-129).
AnnotationsAreTrue == Of("sample") => TruthIsInPlace(input, Values)

\* Scoring counts every true span and every detection once, not those of
\* samples the engine failed on; and its greedy pairing is a best one, when
\* the detections come in the order of the text or none meets two true spans
\* (bench/cmd/run/main.go:116-201).
ScoresAreRight ==
  Of("scores") => ScoreIsBest(input.samples, input.answers, {"EMAIL", "IP"})

\* Every buffer of the Rust heap is given back once and after its last use,
\* also when its length does not fit a C int; detections are those of a whole
\* buffer (engine_rust.go:62-67).
NothingLeaks == Of("call") => BuffersAreFreed(input)
=============================================================================
