----------------------------- MODULE Rehydrate -----------------------------
(***************************************************************************)
(* Reversible anonymization (rehydrate.go): a text is scanned and          *)
(* AnonymizeWithMap replaces its detections one by one; the anonymized     *)
(* text goes to a language model; Reidentify puts the originals back into  *)
(* the reply, placeholder by placeholder in the order of a Go map, that is *)
(* in any order, and each one for as long as it still occurs.              *)
(***************************************************************************)
EXTENDS Anonymizer

CONSTANTS
  Texts,        \* the texts that may be anonymized
  Replies(_),   \* what the model may make of an anonymized text
  MaxLength     \* bound: length of the text Reidentify works on

\* The detections of Scan without plugins and with every pass on.
Scanned(t) ==
  resolveOverlaps(SetToSeq(runBuiltins(t, Builtins) \union runNamePass(t)))

ASSUME RehydrateAssumption ==
  /\ MaxLength \in Nat
  /\ \A t \in Texts :
       /\ t \in Seq(ToSet(t))
       /\ \A r \in Replies(Anonymize(t, Scanned(t))) : r \in Seq(ToSet(r))

VARIABLES
  text,         \* the argument of AnonymizeWithMap
  bindings,     \* placeholders: the detections and their placeholders
  i,            \* bindings[1..i] are still to be replaced
  result,       \* the text as replaced so far
  mappings,     \* placeholder -> original
  reply,        \* the argument of Reidentify
  todo,         \* keys of mappings the range loop has not reached
  current,      \* the key replaceAll is working on, as a set
  restored,     \* history: replacements made by replaceAll
  pc            \* "scan", "anonymize", "model", "reidentify" or "done"

vars == <<text, bindings, i, result, mappings, reply, todo, current, restored,
          pc>>

Init ==
  /\ text = <<>> /\ bindings = <<>> /\ i = 0 /\ result = <<>>
  /\ mappings = <<>> /\ reply = <<>> /\ todo = {} /\ current = {}
  /\ restored = 0
  /\ pc = "scan"

Original(d) == SubSeq(text, d.start + 1, d.end)

\* mappings[key] = value
Assigned(map, key, value) ==
  [k \in DOMAIN map \union {key} |-> IF k = key THEN value ELSE map[k]]

-----------------------------------------------------------------------------
(***************************************************************************)
(* AnonymizeWithMap                                                        *)
(***************************************************************************)
Begin(t) ==
  /\ pc = "scan"
  /\ text' = t
  /\ result' = t
  /\ bindings' = buildPlaceholders(resolveOverlaps(Scanned(t)))
  /\ i' = Len(bindings')
  /\ pc' = "anonymize"
  /\ UNCHANGED <<mappings, reply, todo, current, restored>>

\* Mutant: replaces from the first span to the last.
ReplaceForwards ==
  /\ pc = "anonymize" /\ i > 0
  /\ LET b == bindings[Len(bindings) + 1 - i] IN
       /\ result' = Replaced(result, b)
       /\ mappings' = Assigned(mappings, b.placeholder, Original(b.detection))
  /\ i' = i - 1
  /\ UNCHANGED <<text, bindings, reply, todo, current, restored, pc>>

\* One round of the loop, from the last binding to the first: a later round
\* overwrites the original of a placeholder that occurs twice.
Replace ==
  /\ pc = "anonymize" /\ i > 0
  /\ LET b == bindings[i]
         d == b.detection
         inText == ~ (d.start < 0 \/ d.end > Len(result) \/ d.start >= d.end)
     IN  /\ result' = Replaced(result, b)
         /\ mappings' = IF inText
                        THEN Assigned(mappings, b.placeholder, Original(d))
                        ELSE mappings
  /\ i' = i - 1
  /\ UNCHANGED <<text, bindings, reply, todo, current, restored, pc>>

\* AnonymizeWithMap returns.
Anonymized ==
  /\ pc = "anonymize" /\ i = 0
  /\ pc' = "model"
  /\ UNCHANGED <<text, bindings, i, result, mappings, reply, todo, current,
                 restored>>

-----------------------------------------------------------------------------
(***************************************************************************)
(* The model answers, and Reidentify                                       *)
(***************************************************************************)
Answer(r) ==
  /\ pc = "model"
  /\ reply' = r
  /\ result' = r
  /\ todo' = DOMAIN mappings
  /\ pc' = "reidentify"
  /\ UNCHANGED <<text, bindings, i, mappings, current, restored>>

\* The range loop over the map takes some key it has not taken.
NextPlaceholder(p) ==
  /\ pc = "reidentify" /\ current = {}
  /\ p \in todo
  /\ current' = {p}
  /\ todo' = todo \ {p}
  /\ UNCHANGED <<text, bindings, i, result, mappings, reply, restored, pc>>

Places(p) == { k \in DOMAIN result : result[k] = p }

\* Mutant: searches on without taking the placeholder out.
ReplaceFirstKeeps(p) ==
  /\ p \in current
  /\ Places(p) # {}
  /\ Len(result) < MaxLength
  /\ LET at == CHOOSE k \in Places(p) : \A j \in Places(p) : k <= j IN
       result' = SubSeq(result, 1, at) \o mappings[p]
                   \o SubSeq(result, at + 1, Len(result))
  /\ restored' = restored + 1
  /\ UNCHANGED <<text, bindings, i, mappings, reply, todo, current, pc>>

\* replaceAll: the first occurrence, searched from the start each time.
ReplaceFirst(p) ==
  /\ p \in current
  /\ Places(p) # {}
  /\ Len(result) < MaxLength
  /\ LET at == CHOOSE k \in Places(p) : \A j \in Places(p) : k <= j IN
       result' = SubSeq(result, 1, at - 1) \o mappings[p]
                   \o SubSeq(result, at + 1, Len(result))
  /\ restored' = restored + 1
  /\ UNCHANGED <<text, bindings, i, mappings, reply, todo, current, pc>>

\* Mutant: replaces one occurrence only.
GoneAfterOne(p) ==
  /\ p \in current
  /\ restored > 0 \/ Places(p) = {}
  /\ current' = {}
  /\ UNCHANGED <<text, bindings, i, result, mappings, reply, todo, restored, pc>>

\* replaceAll finds none and returns.
Gone(p) ==
  /\ p \in current
  /\ Places(p) = {}
  /\ current' = {}
  /\ UNCHANGED <<text, bindings, i, result, mappings, reply, todo, restored, pc>>

Return ==
  /\ pc = "reidentify" /\ current = {} /\ todo = {}
  /\ pc' = "done"
  /\ UNCHANGED <<text, bindings, i, result, mappings, reply, todo, current,
                 restored>>

Reidentify ==
  \/ \E p \in DOMAIN mappings :
       NextPlaceholder(p) \/ ReplaceFirst(p) \/ Gone(p)
  \/ Return

Next ==
  \/ \E t \in Texts : Begin(t)
  \/ Replace
  \/ Anonymized
  \/ \E r \in Replies(result) : Answer(r)
  \/ Reidentify

Spec == Init /\ [][Next]_vars

\* Sequential code: a call of Reidentify that has begun goes on.
FairSpec == Spec /\ WF_vars(Reidentify)

-----------------------------------------------------------------------------
(***************************************************************************)
(* Properties                                                              *)
(***************************************************************************)
\* AnonymizeWithMap has its own copy of the loop of Anonymize and gives the
\* same text (rehydrate.go:16-23, anonymizer.go:13-22).
SameTextAsAnonymize == pc = "model" => result = Anonymize(text, Scanned(text))

\* While spans are replaced from the right, everything up to the end of the
\* last span still to be replaced is as it was (rehydrate.go:16-23).
SpansStayInPlace ==
  pc = "anonymize" =>
    \A k \in 1..i :
      LET end == bindings[k].detection.end IN
      SubSeq(result, 1, end) = SubSeq(text, 1, end)

\* The reply with every placeholder replaced at once by its original.
RestoredAtOnce ==
  FlattenSeq([k \in DOMAIN reply |->
                IF reply[k] \in DOMAIN mappings
                THEN mappings[reply[k]] ELSE <<reply[k]>>])

\* No original holds a placeholder that will be replaced.
OriginalsArePlain ==
  \A p \in DOMAIN mappings : \A k \in DOMAIN mappings[p] :
    mappings[p][k] \notin DOMAIN mappings

\* Provided no original holds a placeholder of the map, Reidentify restores a
\* reply whatever the order of the map, also when the reply repeats, drops or
\* moves placeholders or the text held some of its own: each is replaced once
\* (rehydrate.go:30-36, README.md:118-122).  Without the proviso the order
\* decides: RoundTripAlways.
RepliesAreRestored ==
  pc = "done" /\ OriginalsArePlain => result = RestoredAtOnce

\* No two detections of one of the types whose placeholders carry no number.
Numbered ==
  \A j, k \in DOMAIN bindings :
    j # k /\ bindings[j].detection.type = bindings[k].detection.type =>
      bindings[j].detection.type \notin {TypeContractRef, TypeClientID}

\* The text holds none of the placeholders that stand for its own detections.
Fresh == \A k \in DOMAIN text : text[k] \notin DOMAIN mappings

\* Reidentify gives back the text that AnonymizeWithMap took apart
\* (CHANGELOG.md:31), provided that the text held none of the placeholders it
\* was given and its detections are numbered.  RoundTripAlways is without these
\* provisos.
RoundTrip ==
  /\ pc = "done" /\ Fresh /\ Numbered
  /\ reply = Anonymize(text, Scanned(text))
  => result = text

\* Reidentify returns (rehydrate.go:71-77).
Terminates == pc = "reidentify" ~> pc = "done"

(***************************************************************************)
(* What the documentation says and the code does not do                    *)
(***************************************************************************)
\* Reidentify "replaces placeholders using placeholder->original mappings"
\* (rehydrate.go:29): each placeholder of the reply once, so that it ends.
ReplacedOncePerPlace ==
  restored <= Cardinality({ k \in DOMAIN reply : reply[k] \in DOMAIN mappings })

\* "Reidentify(AnonymizeWithMap(t)) == t is now a publicly verifiable
\* invariant" (CHANGELOG.md:31), for every text and in every order of the map.
RoundTripAlways ==
  pc = "done" /\ reply = Anonymize(text, Scanned(text)) => result = text
=============================================================================
