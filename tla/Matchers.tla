------------------------------ MODULE Matchers ------------------------------
(***************************************************************************)
(* The detection passes of Detector.Scan that look at the text: the        *)
(* built-in matchers with their pre-filter (engine.go:123-169, 228-278,    *)
(* patterns/*.go) and the contextual name pass (names.go).                 *)
(*                                                                         *)
(* A text is a sequence of tokens, words with a blank between them, and    *)
(* spans count tokens.  A token carries what the passes ask of its bytes:  *)
(*   label    its identity                                                 *)
(*   matches  the matchers whose expression finds exactly this token       *)
(*   opens    it is "token=", "pwd=" or the like: with the token after it, *)
(*            if that one is glued, it makes a generic secret              *)
(*   glued    eight bytes or more without blank or quote                   *)
(*   shows    what the pre-filter's substring tests see in it              *)
(*   luhn     its digits pass ValidateLuhn                                 *)
(*   name     "no", "capital" (capitalised), "given" (and in the           *)
(*            dictionary of given names), or "none": without letters,      *)
(*            hyphens and apostrophes, so that the tokenizer passes it by  *)
(***************************************************************************)
EXTENDS Overlaps

\* The types, as ranks in the order of their strings.
TypeAPIKey == 1
TypeBearerToken == 2
TypeCaseRef == 3
TypeClientID == 4
TypeContractRef == 5
TypeCreditCard == 6
TypeEmail == 7
TypeFrenchSSN == 8
TypeIBAN == 9
TypeIPAddress == 10
TypePersonName == 11
TypePhone == 12
TypePhoneE164 == 13
TypeSecret == 14

Secrets  == {TypeAPIKey, TypeBearerToken, TypeSecret}
Builtins == (1..14) \ {TypePersonName}

\* The Confidence of the compiled patterns, in hundredths.
Confidence ==
  [t \in Builtins |->
     CASE t \in {TypeAPIKey, TypeBearerToken} -> 99
       [] t \in {TypeIBAN, TypeFrenchSSN} -> 98
       [] t \in {TypePhoneE164, TypeSecret} -> 90
       [] OTHER -> 95]

\* A word no pass reacts to.
Word == [label |-> <<"word">>, matches |-> {}, opens |-> FALSE,
         glued |-> FALSE, shows |-> {}, luhn |-> FALSE, name |-> "no"]

-----------------------------------------------------------------------------
Shown(text) == UNION { text[i].shows : i \in DOMAIN text }

\* What the pre-filter wants to see in the text before a matcher runs.
Wanted ==
  [t \in Builtins |->
     CASE t = TypeEmail -> {"@"}
       [] t \in {TypePhone, TypePhoneE164, TypeCreditCard, TypeFrenchSSN} ->
            {"digit"}
       [] t = TypeIBAN -> {"digit", "upper"}
       [] t = TypeIPAddress -> {".", "digit"}
       [] t = TypeAPIKey -> {"api or key"}
       [] t = TypeBearerToken -> {"bearer"}
       [] t = TypeSecret -> {"secret, password or token"}
       [] t = TypeContractRef -> {"contract"}
       [] t = TypeCaseRef -> {"case"}
       [] t = TypeClientID -> {"client"}]

shouldScanType(text, type) == Wanted[type] \subseteq Shown(text)

\* The spans FindAllStringIndex gives one matcher.
FindAllStringIndex(text, type) ==
  { <<i - 1, i>> : i \in { j \in DOMAIN text : type \in text[j].matches } }
  \union
  { <<i - 1, i + 1>> : i \in { j \in 1..(Len(text) - 1) :
                                 /\ type = TypeSecret
                                 /\ text[j].opens /\ text[j + 1].glued } }

\* Credit cards are validated, nothing else is.
Validates(text, type, span) == type = TypeCreditCard => text[span[2]].luhn

Found(text, type) ==
  { [type |-> type, start |-> s[1], end |-> s[2], conf |-> Confidence[type]] :
      s \in { r \in FindAllStringIndex(text, type) :
                Validates(text, type, r) } }

\* enabled: the types whose Detect flag is set in the configuration.
runBuiltins(text, enabled) ==
  UNION { Found(text, t) : t \in { u \in enabled : shouldScanType(text, u) } }

IsCapitalized(token) == token.name \in {"capital", "given"}

\* In the dictionary of given names.
IsLikelyFirstName(token) == token.name = "given"

\* The token Tokenize gives after the one at i, as a set.
Following(text, i) ==
  { j \in (i + 1)..Len(text) :
      /\ text[j].name # "none"
      /\ \A k \in (i + 1)..(j - 1) : text[k].name = "none" }

\* A given name, up to the end of the next token when that one is capitalised
\* and not itself a given name, whatever lies between the two.
runNamePass(text) ==
  LET Surname(i) == { j \in Following(text, i) : /\ IsCapitalized(text[j])
                                                /\ ~ IsLikelyFirstName(text[j]) }
  IN
  { [type |-> TypePersonName,
     start |-> i - 1,
     end |-> IF Surname(i) = {} THEN i ELSE CHOOSE j \in Surname(i) : TRUE,
     conf |-> IF Surname(i) = {} THEN 65 ELSE 85] :
      i \in { j \in DOMAIN text : /\ IsCapitalized(text[j])
                                  /\ IsLikelyFirstName(text[j]) } }
=============================================================================
