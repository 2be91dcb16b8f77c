---------------------------- MODULE MCRehydrate ----------------------------
(***************************************************************************)
(* Texts and replies for the runs of Rehydrate.                            *)
(***************************************************************************)
EXTENDS Rehydrate

Mail(n) == [Word EXCEPT !.label = <<"email", n>>, !.matches = {TypeEmail},
                        !.glued = TRUE, !.shows = {"@", "."}]
Contract(n) == [Word EXCEPT !.label = <<"contract", n>>,
                            !.matches = {TypeContractRef},
                            !.shows = {"contract", "digit"}]
Given   == [Word EXCEPT !.label = <<"given">>, !.name = "given",
                        !.shows = {"upper"}]
Surname == [Word EXCEPT !.label = <<"surname">>, !.name = "capital",
                        !.shows = {"upper"}]
TokenIs == [Word EXCEPT !.label = <<"token=">>, !.opens = TRUE,
                        !.shows = {"secret, password or token"}]
Value   == [Word EXCEPT !.label = <<"value">>, !.glued = TRUE]

\* Text that looks like a placeholder for an e-mail address.
EmailHole(n) == semanticPlaceholder(TypeEmail, n)

\* Every text of one to four of these: repeated and different addresses, a
\* full name, a first name alone; and one contract reference or two, which are
\* not numbered; and a secret that takes two tokens.
Alphabet == {Word, Mail(1), Mail(2), Given, Surname}
\* Texts that hold text like a placeholder, of one of their own detections or
\* not; and secrets whose value is one.
Holed    == BoundedSeq({Word, Mail(1), EmailHole(1), EmailHole(2)}, 3)
Nested   == { <<TokenIs, EmailHole(1), Mail(1)>>, <<TokenIs, EmailHole(2), Mail(1)>>,
              <<Mail(1), TokenIs, EmailHole(2), Mail(2)>> }
MCTexts  == ((BoundedSeq(Alphabet, 4) \union Holed \union Nested) \ {<<>>})
              \union { <<Mail(1), Mail(1), Contract(1)>>,
                       <<Contract(1), Mail(1), Contract(2)>>,
                       <<Contract(1), TokenIs, Value, Mail(2)>> }
\* The reply as sent, backwards, twice, and without its first token.
MCReplies(a) == {a, Reverse(a), a \o a, SubSeq(a, 2, Len(a))}
Echo(a)      == {a}

\* A secret whose value is the placeholder of the first secret.
SelfSecret   == { <<TokenIs, semanticPlaceholder(TypeSecret, 1)>> }
\* A secret whose value is the placeholder of an e-mail address behind it.
HoleInSecret == { <<TokenIs, EmailHole(1), Mail(1)>> }
=============================================================================
