----------------------------- MODULE SiretSiren ---------------------------------
(***************************************************************************)
(* The plugin siretsiren, which finds the numbers of French companies: a   *)
(* SIREN has nine digits, a SIRET is a SIREN and five digits more.         *)
(*                                                                         *)
(* Texts are those of module Validators.  A regular expression is a        *)
(* sequence of steps [of, optional]: a character of a set, or perhaps one. *)
(* No character fits an optional step and the step behind it, so a match   *)
(* is determined by where it begins.                                       *)
(***************************************************************************)
EXTENDS Overlaps, Validators, FiniteSetsExt

Separator == {Blank, Dot, Dash}              \* [\s.-]
WordChar  == Digit \union {Letter}           \* \w

One(set)   == [of |-> set, optional |-> FALSE]
Maybe(set) == [of |-> set, optional |-> TRUE]
Times(n, set) == [k \in 1..n |-> One(set)]

sirenRE == Times(3, Digit) \o <<Maybe(Separator)>> \o Times(3, Digit)
             \o <<Maybe(Separator)>> \o Times(3, Digit)
siretRE == sirenRE \o <<Maybe(Separator)>> \o Times(5, Digit)

\* \b at an offset of the text.
Boundary(text, i) ==
  (i > 0 /\ text[i] \in WordChar) # (i < Len(text) /\ text[i + 1] \in WordChar)

\* Where the match that begins at the offset ends, or -1 if there is none.
MatchEnd(text, i, re) ==
  LET Fits(p, step) == p >= 0 /\ p < Len(text) /\ text[p + 1] \in step.of
      Take(p, step) == IF Fits(p, step) THEN p + 1
                       ELSE IF step.optional THEN p ELSE -1
      end == FoldLeft(Take, i, re)
  IN  IF Boundary(text, i) /\ end >= 0 /\ Boundary(text, end) THEN end ELSE -1

\* The matches from left to right, each behind the one before.
FindAllIn(text, re) ==
  LET Scan(spans, i) ==
        IF (spans # <<>> => Last(spans)[2] <= i) /\ MatchEnd(text, i, re) >= 0
        THEN Append(spans, <<i, MatchEnd(text, i, re)>>) ELSE spans
  IN  FoldLeft(Scan, <<>>, [k \in 1..Len(text) |-> k - 1])

stripSep(text, span) ==
  Only(SubSeq(text, span[1] + 1, span[2]), Digit)

\* Mutant: alternates from the first digit on.
luhnMod10FromLeft(digits) == LuhnSum(Reverse(digits)) % 10 = 0

\* A copy of the loop of ValidateLuhn, without its bounds.
luhnMod10(digits) == LuhnSum(digits) % 10 = 0

-----------------------------------------------------------------------------
(***************************************************************************)
(* siretsiren                                                              *)
(***************************************************************************)
TypeSIRET == 2
TypeSIREN == 1

Match(type, span) ==
  [type |-> type, start |-> span[1], end |-> span[2], conf |-> 85]

\* taken: a SIRET that was reported covers the first byte.
Covered(sirets, span) ==
  \E k \in DOMAIN sirets : sirets[k][1] <= span[1] /\ span[1] < sirets[k][2]

DetectCompanies(text) ==
  LET Checked(found) == { s \in ToSet(found) : luhnMod10(stripSep(text, s)) }
      allSirets == FindAllIn(text, siretRE)
      allSirens == FindAllIn(text, sirenRE)
      sirets == Only(allSirets, Checked(allSirets))
      sirens == Only(allSirens, { s \in Checked(allSirens) : ~ Covered(sirets, s) })
  IN  [k \in DOMAIN sirets |-> Match(TypeSIRET, sirets[k])]
        \o [k \in DOMAIN sirens |-> Match(TypeSIREN, sirens[k])]

-----------------------------------------------------------------------------
(***************************************************************************)
(* What the plugin promises                                                *)
(***************************************************************************)
\* The checksum by places: those that are even from the right are doubled.
Checks(digits) ==
  LET n == Len(digits) IN
  MapThenSumSet(LAMBDA k : IF (n - k) % 2 = 0 THEN digits[k] ELSE Doubled(digits[k]),
                1..n) % 10 = 0

\* Everywhere the expression could match, wherever the matches before it end.
Candidates(text, re) ==
  { <<i, MatchEnd(text, i, re)>> : i \in { j \in 0..Len(text) : MatchEnd(text, j, re) >= 0 } }

Meet(s, t) == s[1] < t[2] /\ t[1] < s[2]

\* Every number reported passes the checksum; a valid number is kept after
\* arbitration unless another candidate of the same kind meets it, which may
\* hide it even when that one fails the checksum; and a SIRET always wins over
\* the SIREN it holds (siretsiren.go:30-66).
NumbersAreFound(text) ==
  LET out == DetectCompanies(text)
      kept == ToSet(resolveOverlaps(out))
      Valid(s) == Checks(stripSep(text, s))
      Alone(s, all) == Valid(s) /\ \A t \in all : t # s => ~ Meet(s, t)
      sirets == Candidates(text, siretRE)
      sirens == Candidates(text, sirenRE)
  IN
  /\ \A d \in ToSet(out) :
       LET s == <<d.start, d.end>> IN
       Valid(s) /\ Len(stripSep(text, s)) = IF d.type = TypeSIRET THEN 14 ELSE 9
  /\ \A s \in sirets : Alone(s, sirets) => Match(TypeSIRET, s) \in kept
  /\ \A s \in sirens : Alone(s, sirens) =>
       \/ Match(TypeSIREN, s) \in kept
       \/ \E d \in kept : d.type = TypeSIRET /\ Meet(s, <<d.start, d.end>>)
=============================================================================
