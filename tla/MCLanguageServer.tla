-------------------------- MODULE MCLanguageServer --------------------------
(***************************************************************************)
(* Two texts: an address on the second line, behind a secret that spans    *)
(* the end of the first, and another on the third, behind a character of   *)
(* two bytes; and an address alone.                                        *)
(***************************************************************************)
EXTENDS LanguageServer

MCTexts ==
  { <<"key", "newline", "key", "mail", "newline", "e", "acute", "mail">>, <<"mail", "word">> }

\* An address is one byte; a key goes on over the newline after it.
MCDetect(t) ==
  { [start |-> k - 1, end |-> k, secret |-> FALSE] :
      k \in { j \in DOMAIN t : t[j] = "mail" } }
  \union
  { [start |-> 0, end |-> 3, secret |-> TRUE] :
      k \in { j \in DOMAIN t : j = 1 /\ t[j] = "key" } }
=============================================================================
