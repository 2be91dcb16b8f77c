----------------------------- MODULE Validators -----------------------------
(***************************************************************************)
(* The checksum of pii/validate.go and the masking of pii/mask.go.         *)
(*                                                                         *)
(* A value is a sequence of characters.  A digit is its number; the other  *)
(* characters are numbers from ten on.                                     *)
(***************************************************************************)
EXTENDS Integers, Sequences, FiniteSets, SequencesExt

Digit == 0..9
Blank == 10
Dash  == 11
Dot   == 12
At    == 13      \* @
Letter == 14
Other == 15      \* a character of no word
Star  == 16

\* The elements of s that are in a set, in order.
Only(s, set) ==
  FoldLeft(LAMBDA t, c : IF c \in set THEN Append(t, c) ELSE t, <<>>, s)

-----------------------------------------------------------------------------
(***************************************************************************)
(* ValidateLuhn                                                            *)
(***************************************************************************)
\* Mutant: the nine is not taken off.
DoubledOnly(d) == 2 * d

Doubled(d) == IF 2 * d > 9 THEN 2 * d - 9 ELSE 2 * d

\* The loop over the digits, from the last to the first.
LuhnSum(digits) ==
  LET Add(d, s) == [sum |-> s.sum + (IF s.alternate THEN Doubled(d) ELSE d),
                    alternate |-> ~ s.alternate]
  IN  FoldRight(Add, digits, [sum |-> 0, alternate |-> FALSE]).sum

ValidateLuhn(value) ==
  LET cleaned == Only(value, ToSet(value) \ {Blank, Dash}) IN
  /\ ToSet(cleaned) \subseteq Digit
  /\ Len(cleaned) \in 13..19
  /\ LuhnSum(cleaned) % 10 = 0

\* No slip of one digit and no exchange of neighbours, but for 09 and 90,
\* turns a valid card number into another valid one; and exactly one last
\* digit makes a number valid (validate.go:43-57).
TyposAreCaught(value) ==
  LET Digits == { k \in DOMAIN value : value[k] \in Digit }
      last == CHOOSE k \in Digits : \A j \in Digits : j <= k
  IN
  Cardinality(Digits) \in 13..19 /\ ToSet(value) \subseteq 0..Dash =>
    /\ Cardinality({ d \in Digit : ValidateLuhn([value EXCEPT ![last] = d]) }) = 1
    /\ ValidateLuhn(value) =>
         /\ \A k \in Digits : \A d \in Digit \ {value[k]} :
              ~ ValidateLuhn([value EXCEPT ![k] = d])
         /\ \A k \in Digits : k + 1 \in Digits =>
              LET a == value[k]
                  b == value[k + 1]
              IN  ValidateLuhn([value EXCEPT ![k] = b, ![k + 1] = a])
                    => a = b \/ {a, b} = {0, 9}

-----------------------------------------------------------------------------
(***************************************************************************)
(* Mask                                                                    *)
(***************************************************************************)
Stars(n) == [k \in 1..n |-> Star]

\* Mutant: a value that would be kept whole is kept.
maskStringLoose(s, keepStart, keepEnd) ==
  IF Len(s) < keepStart + keepEnd THEN Stars(Len(s))
  ELSE SubSeq(s, 1, keepStart) \o Stars(Len(s) - keepStart - keepEnd)
         \o SubSeq(s, Len(s) - keepEnd + 1, Len(s))

\* The callers keep zero characters or more.
maskString(s, keepStart, keepEnd) ==
  IF Len(s) <= keepStart + keepEnd THEN Stars(Len(s))
  ELSE SubSeq(s, 1, keepStart) \o Stars(Len(s) - keepStart - keepEnd)
         \o SubSeq(s, Len(s) - keepEnd + 1, Len(s))

\* kind: how the type is masked, "email", "number" (phones, IBANs, cards) or
\* "other".
Mask(value, kind) ==
  LET ats == { k \in DOMAIN value : value[k] = At }
      at == CHOOSE k \in ats : TRUE
  IN
  CASE kind = "email" ->
         IF Cardinality(ats) # 1 THEN Stars(3)
         ELSE maskString(SubSeq(value, 1, at - 1), 1, 0) \o <<At>>
                \o maskString(SubSeq(value, at + 1, Len(value)), 1, 4)
    [] kind = "number" ->
         IF Len(value) < 8 THEN Stars(3)
         ELSE SubSeq(value, 1, 4) \o Stars(Len(value) - 8)
                \o SubSeq(value, Len(value) - 3, Len(value))
    [] OTHER -> maskString(value, 2, 2)

\* The form of a masked value: each place holds a star or what the value has
\* there; an address never shows all of either of its parts, and nothing else
\* is shown whole (mask.go:5-35).  A number of exactly eight characters is:
\* that one length is left out.
MaskHides(value, kind) ==
  LET masked == Mask(value, kind)
      Hidden(k) == masked[k] = Star
  IN
  \/ masked = Stars(3)
  \/ kind = "number" /\ Len(value) = 8
  \/ /\ Len(masked) = Len(value)
     /\ \A k \in DOMAIN value : Hidden(k) \/ masked[k] = value[k]
     /\ IF kind # "email" THEN value # <<>> => \E k \in DOMAIN value : Hidden(k)
        ELSE LET at == CHOOSE k \in DOMAIN value : value[k] = At IN
             /\ at > 1 => \E k \in 1..(at - 1) : Hidden(k)
             /\ at < Len(value) => \E k \in (at + 1)..Len(value) : Hidden(k)
=============================================================================
