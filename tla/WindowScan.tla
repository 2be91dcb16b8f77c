----------------------------- MODULE WindowScan -----------------------------
(***************************************************************************)
(* Detector.Scan as the stream scanner uses it: what the built-in matchers *)
(* report in one window of a stream, after arbitration.                    *)
(*                                                                         *)
(* The regular expressions are external.  What the stream depends on is    *)
(* what happens to a match at the edge of a window: a match of the stream  *)
(* that is cut still matches, shortened, as long as its core is inside.    *)
(* The core of alice@example.com is e@example.co; a card number is its own *)
(* core.                                                                   *)
(***************************************************************************)
EXTENDS Overlaps

CONSTANT Occurrences  \* the matches of the whole stream

ASSUME OccurrencesAssumption ==
  \A o \in Occurrences :
    /\ {o.type, o.start, o.end, o.coreStart, o.coreEnd, o.conf} \subseteq Nat
    /\ o.start <= o.coreStart /\ o.coreStart < o.coreEnd /\ o.coreEnd <= o.end

\* The bytes of text among the first b of the stream.
UpTo(text, b) == Cardinality({ k \in DOMAIN text : text[k] <= b })

\* runBuiltins: one detection for each match that the text still holds.
runBuiltins(text) ==
  { [ type  |-> o.type,
      start |-> UpTo(text, o.start),
      end   |-> UpTo(text, o.end),
      conf  |-> o.conf ] :
    o \in { p \in Occurrences : (p.coreStart + 1)..p.coreEnd \subseteq Range(text) } }

\* Scan without plugins: matching, then arbitration.
ScanWindow(text) ==
  { [type |-> d.type, start |-> d.start, end |-> d.end] :
    d \in Range(resolveOverlaps(SetToSeq(runBuiltins(text)))) }

\* Occurrences that share a byte with no other one.
Isolated(o) == \A p \in Occurrences : p = o \/ ~ Intersect(o, p)

Spans(S) == { [type |-> o.type, start |-> o.start, end |-> o.end] : o \in S }

IsolatedSpans == Spans({ o \in Occurrences : Isolated(o) })
=============================================================================
