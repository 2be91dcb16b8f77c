----------------------------- MODULE Tokenizer -----------------------------
(***************************************************************************)
(* The tokenizer of pii/context/names.go and the name pass of pii/names.go *)
(* on bytes, where module Matchers takes tokens as given.                  *)
(*                                                                         *)
(* A text is a sequence of bytes.  A byte is a pair: a rune, and which of  *)
(* the bytes of its encoding it is; the bytes of one rune in order are an  *)
(* encoded rune, and a byte that stands alone is invalid.                  *)
(***************************************************************************)
EXTENDS Integers, Sequences, FiniteSets, SequencesExt

CONSTANTS
  Width,        \* rune -> the bytes of its encoding
  Letters,      \* the runes unicode.IsLetter accepts
  Lower,        \* upper-case letter -> its lower-case letter
  Joiners,      \* the hyphen and the apostrophe
  FirstNameSet, \* the dictionary: sequences of lower-case runes
  RuneError     \* U+FFFD, what an invalid byte decodes to

ASSUME TokenizerAssumption ==
  /\ Width \in [DOMAIN Width -> 1..4]
  /\ Letters \union Joiners \union DOMAIN Lower \subseteq DOMAIN Width
  /\ RuneError \notin Letters \union Joiners

Encoded(r) == [k \in 1..Width[r] |-> <<r, k>>]

\* The bytes from offset i on begin with an encoded rune.
Whole(bytes, i) ==
  LET r == bytes[i + 1][1] IN
  /\ i + Width[r] <= Len(bytes)
  /\ SubSeq(bytes, i + 1, i + Width[r]) = Encoded(r)

\* Mutant: the size of what was read, not of the rune it stands for.
decodeRuneBySource(bytes, i) ==
  IF Whole(bytes, i) THEN [rune |-> bytes[i + 1][1], size |-> 1]
  ELSE [rune |-> RuneError, size |-> 1]

\* The rune at the offset and its length.  An invalid byte decodes to U+FFFD,
\* and it is the length of U+FFFD that is returned, three bytes.
decodeRune(bytes, i) ==
  IF Whole(bytes, i) THEN [rune |-> bytes[i + 1][1], size |-> Width[bytes[i + 1][1]]]
  ELSE [rune |-> RuneError, size |-> 3]

isWordRune(r) == r \in Letters \union Joiners

Token(start, end) == [start |-> start, end |-> end]

\* The loop body at offset i, when the loop gets there: at is the offset it
\* goes to, start where the open token begins, or -1.
Advance(bytes, s, i) ==
  LET d == decodeRune(bytes, i) IN
  IF s.at # i THEN s
  ELSE IF isWordRune(d.rune)
  THEN [s EXCEPT !.at = i + d.size, !.start = IF @ < 0 THEN i ELSE @]
  ELSE [at |-> i + d.size, start |-> -1,
        tokens |-> IF s.start < 0 THEN s.tokens
                   ELSE Append(s.tokens, Token(s.start, i))]

Tokenize(bytes) ==
  LET s == FoldLeft(LAMBDA t, i : Advance(bytes, t, i),
                    [at |-> 0, start |-> -1, tokens |-> <<>>],
                    [i \in 1..Len(bytes) |-> i - 1])
  IN  IF s.start < 0 THEN s.tokens
      ELSE Append(s.tokens, Token(s.start, Len(bytes)))

-----------------------------------------------------------------------------
\* The runes of a token, which holds whole ones only.
RunesOf(bytes, t) ==
  LET firsts == SelectSeq(SubSeq(bytes, t.start + 1, t.end), LAMBDA b : b[2] = 1)
  IN  [k \in DOMAIN firsts |-> firsts[k][1]]

ToLower(runes) ==
  [k \in DOMAIN runes |-> IF runes[k] \in DOMAIN Lower THEN Lower[runes[k]]
                          ELSE runes[k]]

IsCapitalizedRunes(runes) == runes # <<>> /\ runes[1] \in DOMAIN Lower

IsLikelyFirstNameRunes(runes) == ToLower(runes) \in FirstNameSet

\* Mutant: any capitalised token is taken for a surname.
IsSurnameAny(runes) == IsCapitalizedRunes(runes)

IsSurname(runes) == IsCapitalizedRunes(runes) /\ ~ IsLikelyFirstNameRunes(runes)

\* The names: each capitalised given name, with the next token if that is
\* taken for a surname.
runNamePassOnBytes(bytes) ==
  LET tokens == Tokenize(bytes)
      Runes(i) == RunesOf(bytes, tokens[i])
      Given == { i \in DOMAIN tokens : /\ IsCapitalizedRunes(Runes(i))
                                       /\ IsLikelyFirstNameRunes(Runes(i)) }
      Pair(i) == i + 1 \in DOMAIN tokens /\ IsSurname(Runes(i + 1))
  IN  { [start |-> tokens[i].start,
         end |-> tokens[IF Pair(i) THEN i + 1 ELSE i].end,
         conf |-> IF Pair(i) THEN 85 ELSE 65] : i \in Given }

-----------------------------------------------------------------------------
(***************************************************************************)
(* What the functions promise                                              *)
(***************************************************************************)
\* The byte belongs to an encoded rune.
InRune(bytes, i) ==
  LET first == i - bytes[i][2] IN
  first >= 0 /\ bytes[first + 1] = <<bytes[i][1], 1>> /\ Whole(bytes, first)

\* The text is a sequence of encoded runes.
Valid(bytes) == \A i \in DOMAIN bytes : InRune(bytes, i)

InWord(bytes, i) == InRune(bytes, i) /\ isWordRune(bytes[i][1])

\* The maximal runs of bytes of word runes.
Words(bytes) ==
  { Token(w[1], w[2]) : w \in
      { s \in (0..Len(bytes)) \X (0..Len(bytes)) :
          /\ s[1] < s[2]
          /\ \A i \in (s[1] + 1)..s[2] : InWord(bytes, i)
          /\ s[1] > 0 => ~ InWord(bytes, s[1])
          /\ s[2] < Len(bytes) => ~ InWord(bytes, s[2] + 1) } }

\* The tokens of a text are its words, in order, with their places in bytes;
\* of a text that is not UTF-8 some may be missing or cut at the front, but no
\* token ever splits a rune or takes in a byte that is no letter's
\* (context/names.go:41-75).
TokensAreWords(bytes) ==
  LET tokens == Tokenize(bytes) IN
  /\ \A i, j \in DOMAIN tokens : i < j => tokens[i].end < tokens[j].start
  /\ IF Valid(bytes) THEN ToSet(tokens) = Words(bytes)
     ELSE \A t \in ToSet(tokens) :
            /\ 0 <= t.start /\ t.start < t.end /\ t.end <= Len(bytes)
            /\ bytes[t.start + 1][2] = 1
            /\ \A i \in (t.start + 1)..t.end : InWord(bytes, i)

\* No two names share a byte, although each may reach over the token behind
\* it: a run of given names is never read as given name and surname
\* (pii/names.go:24-32).
NamesDoNotMeet(bytes) ==
  \A a, b \in runNamePassOnBytes(bytes) :
    a # b => a.end <= b.start \/ b.end <= a.start
=============================================================================
