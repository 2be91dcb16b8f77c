----------------------------- MODULE MCDetector -----------------------------
(***************************************************************************)
(* Plugins, texts and configurations for the runs of Detector.             *)
(***************************************************************************)
EXTENDS Detector

Name(word) == [pad |-> FALSE, word |-> word]
Match(type, from, to) == [type |-> type, start |-> from, end |-> to]
TypeSIRET == 15

Plugin(name, conf, hits) ==
  [isNil |-> FALSE, name |-> name, conf |-> conf, hits |-> hits,
   reenters |-> FALSE]

\* A sound plugin; one with spans that are empty, reversed or outside the
\* text, and one span across a built-in detection; one whose name has blanks
\* around it; one that calls back; one whose confidence is not a number.
Siret   == Plugin(Name("siret"), 90, {Match(TypeSIRET, 1, 2)})
Sloppy  == Plugin(Name("sloppy"), 99,
                  {Match(TypeSIRET, 0, 2), Match(TypeSIRET, 1, 9),
                   Match(TypeSIRET, 1, 1), Match(TypeSIRET, -1, 1)})
Padded  == Plugin([pad |-> TRUE, word |-> "siret"], 90, {})
Calling == [Plugin(Name("calling"), 50, {Match(TypePhone, 2, 3)})
              EXCEPT !.reenters = TRUE]
NotANum == Plugin(Name("nan"), 200, {})

Email == [Word EXCEPT !.label = <<"email">>, !.matches = {TypeEmail},
                      !.glued = TRUE, !.shows = {"@", "."}]
Card  == [Word EXCEPT !.label = <<"card">>, !.glued = TRUE, !.luhn = TRUE,
                      !.matches = {TypeCreditCard, TypePhone},
                      !.name = "none",
                      !.shows = {"digit"}]
Given == [Word EXCEPT !.label = <<"given">>, !.name = "given",
                      !.shows = {"upper"}]
Surname == [Word EXCEPT !.label = <<"surname">>, !.name = "capital",
                        !.shows = {"upper"}]
TokenIs == [Word EXCEPT !.label = <<"token=">>, !.opens = TRUE,
                        !.shows = {"secret, password or token"}]
\* Eight bytes or more in one piece.
Value == [Word EXCEPT !.label = <<"value">>, !.glued = TRUE]

\* Every pass on, and a threshold two detections reach.
MCConfig == [DefaultConfig EXCEPT !.DetectNames = TRUE, !.BlockThreshold = 2]

NoPlugins   == {}
MCPlugins   == {Siret, Sloppy, Padded, Calling, NilPlugin, NotANum}
MCTexts     == { <<Given, Card, Surname>>, <<Given, Surname, Email, Email>>, <<>> }
TokenText   == { <<TokenIs, Email>>, <<TokenIs, Value>> }
=============================================================================
