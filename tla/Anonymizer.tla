----------------------------- MODULE Anonymizer -----------------------------
(***************************************************************************)
(* Placeholders: anonymizer.go and the first half of rehydrate.go.         *)
(* Anonymize and AnonymizeWithMap build the same text; the second one also *)
(* returns what each placeholder stands for.                               *)
(***************************************************************************)
EXTENDS Matchers

\* What the pre-filter's substring tests see in a placeholder.
ShownBy(type) ==
  {"upper"}
    \union (CASE type = TypeContractRef -> {"contract"}
              [] type = TypeClientID -> {"client"}
              [] type = TypeCaseRef -> {"case", "digit"}
              [] type = TypeAPIKey -> {"api or key", "digit"}
              [] type = TypeBearerToken ->
                   {"bearer", "secret, password or token", "digit"}
              [] type = TypeSecret -> {"secret, password or token", "digit"}
              [] OTHER -> {"digit"})

\* Mutant: every placeholder of a type is the same.
semanticPlaceholderUnnumbered(type, index) ==
  [Word EXCEPT !.label = <<"placeholder", type, 0>>, !.glued = TRUE,
               !.name = "capital", !.shows = ShownBy(type)]

\* Contract references and client identifiers are not numbered.
semanticPlaceholder(type, index) ==
  [Word EXCEPT
     !.label = <<"placeholder", type,
                 IF type \in {TypeContractRef, TypeClientID} THEN 0 ELSE index>>,
     !.glued = TRUE,
     !.name = "capital",
     !.shows = ShownBy(type)]

ByStart(ds) == StableSort(ds, LAMBDA a, b : a.start < b.start)

\* The detections in reading order, each with its placeholder: the index
\* counts the detections of one type.
buildPlaceholders(ds) ==
  LET ordered == ByStart(ds) IN
  [k \in DOMAIN ordered |->
     [detection |-> ordered[k],
      placeholder |->
        semanticPlaceholder(ordered[k].type,
          Cardinality({ j \in 1..k : ordered[j].type = ordered[k].type }))]]

\* One replacement; a span outside the text as it is now is skipped.
Replaced(text, binding) ==
  LET d == binding.detection IN
  IF d.start < 0 \/ d.end > Len(text) \/ d.start >= d.end THEN text
  ELSE SubSeq(text, 1, d.start) \o <<binding.placeholder>>
         \o SubSeq(text, d.end + 1, Len(text))

\* Mutant: replaces from the first span to the last.
AnonymizeForwards(text, ds) ==
  FoldLeft(Replaced, text, buildPlaceholders(resolveOverlaps(ds)))

\* From the last span to the first, so that the spans still to be replaced
\* keep their place.
Anonymize(text, ds) ==
  FoldRight(LAMBDA b, t : Replaced(t, b),
            buildPlaceholders(resolveOverlaps(ds)), text)
=============================================================================
