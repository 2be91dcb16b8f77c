----------------------------- MODULE Benchmark -----------------------------
(***************************************************************************)
(* The benchmark: the generated corpus (bench/dataset/dataset.go) and the  *)
(* scoring of an engine against it (bench/cmd/run/main.go).                *)
(*                                                                         *)
(* A text is a sequence of characters: "." for each one of the fixed       *)
(* wording, and those of the random values.  Times, ratios and the writing *)
(* of the report are left out.                                             *)
(***************************************************************************)
EXTENDS Integers, Sequences, FiniteSets, SequencesExt, FiniteSetsExt

Span(start, value, type) ==
  [start |-> start, end |-> start + Len(value), type |-> type]

Sample(category, text, truth) ==
  [category |-> category, text |-> text, truth |-> truth]

\* n characters of fixed wording.
Wording(n) == [k \in 1..n |-> "."]

-----------------------------------------------------------------------------
(***************************************************************************)
(* The generators, each with the values it draws                           *)
(***************************************************************************)
genChat(email) ==
  LET prefix == Wording(25) IN
  Sample("chat", prefix \o email \o Wording(9),
         <<Span(Len(prefix), email, "EMAIL")>>)

\* Mutant: the place of the second address without the length of the first.
genEmailShifted(from, to) ==
  LET header == Wording(6) \o from \o Wording(5) \o to \o Wording(14)
      please == Wording(30)
  IN  Sample("email", header \o please \o from \o Wording(7),
             << Span(6, from, "EMAIL"),
                Span(6 + Len(to) + 5, to, "EMAIL"),
                Span(Len(header) + Len(please), from, "EMAIL") >>)

\* From and To in the header, and the sender again in the body.
genEmail(from, to) ==
  LET header == Wording(6) \o from \o Wording(5) \o to \o Wording(14)
      please == Wording(30)
  IN  Sample("email", header \o please \o from \o Wording(7),
             << Span(6, from, "EMAIL"),
                Span(6 + Len(from) + 5, to, "EMAIL"),
                Span(Len(header) + Len(please), from, "EMAIL") >>)

\* %q adds a quote on each side: addresses and keys have nothing to escape.
genLog(ip, key) ==
  LET srcOff == 36
      authOff == srcOff + Len(ip) + 10
  IN  Sample("log",
             Wording(35) \o <<".">> \o ip \o <<".">> \o Wording(8) \o <<".">> \o key
               \o <<".">> \o Wording(12),
             <<Span(srcOff, ip, "IP"), Span(authOff, key, "API_KEY")>>)

genTicket(phone) ==
  LET prefix == Wording(38) IN
  Sample("ticket", prefix \o phone \o Wording(15),
         <<Span(Len(prefix), phone, "PHONE")>>)

genDoc(email, ip) ==
  LET emailOff == 34
      ipOff == emailOff + Len(email) + 13
  IN  Sample("doc", Wording(34) \o email \o Wording(13) \o ip \o Wording(6),
             <<Span(emailOff, email, "EMAIL"), Span(ipOff, ip, "IP")>>)

\* What the i-th sample may be, i from zero; Of has the values of each type.
Generate(i, Of) ==
  CASE i % 10 < 3 -> { genChat(e) : e \in Of["EMAIL"] }
    [] i % 10 \in 3..4 -> { genEmail(f, t) : f \in Of["EMAIL"], t \in Of["EMAIL"] }
    [] i % 10 \in 5..6 -> { genLog(a, k) : a \in Of["IP"], k \in Of["API_KEY"] }
    [] i % 10 = 7 -> { genTicket(p) : p \in Of["PHONE"] }
    [] OTHER -> { genDoc(e, a) : e \in Of["EMAIL"], a \in Of["IP"] }

\* The spans of a sample are the places where its text holds a value, all of
\* them and nothing else, whatever the lengths of the values drawn
\* (dataset.go:25-38).
TruthIsInPlace(sample, Of) ==
  ToSet(sample.truth) =
    { Span(q[1], q[2], q[3]) : q \in
        { p \in UNION { (0..Len(sample.text)) \X Of[t] \X {t} :
                          t \in {"EMAIL", "IP", "API_KEY", "PHONE"} } :
            /\ p[1] + Len(p[2]) <= Len(sample.text)
            /\ SubSeq(sample.text, p[1] + 1, p[1] + Len(p[2])) = p[2] } }

-----------------------------------------------------------------------------
(***************************************************************************)
(* Scoring                                                                 *)
(***************************************************************************)
overlap(a, b) == a.start < b.end /\ b.start < a.end

\* per type: true and false positives, and false negatives.  A type without
\* an entry yet is one with zeros.
NoMetrics == [tp |-> 0, fp |-> 0, fn |-> 0]

\* Mutant: a detection may be matched again.
HitsAgain(got, matched, t) ==
  { i \in DOMAIN got : got[i].type = t.type /\ overlap(got[i], t) }

\* The detections that may still be matched with a true span.
Hits(got, matched, t) ==
  { i \in DOMAIN got \ matched : got[i].type = t.type /\ overlap(got[i], t) }

\* The true spans one by one, each with the first detection it can have; then
\* the detections nobody took.
score(per, truth, got) ==
  LET One(s, t) ==
        LET free == Hits(got, s.matched, t) IN
        IF free = {} THEN [s EXCEPT !.per[t.type].fn = @ + 1]
        ELSE [matched |-> s.matched \union {Min(free)},
              per |-> [s.per EXCEPT ![t.type].tp = @ + 1]]
      hits == FoldLeft(One, [matched |-> {}, per |-> per], truth)
      Rest(p, i) == IF i \in hits.matched THEN p
                    ELSE [p EXCEPT ![got[i].type].fp = @ + 1]
  IN  FoldLeft(Rest, hits.per, [i \in DOMAIN got |-> i])

\* answers: dets and err for each sample.  A sample the engine fails on is
\* passed over, but stays in the number of samples and of characters.
benchmark(samples, answers, Types) ==
  LET One(r, k) ==
        [r EXCEPT
          !.chars = @ + Len(samples[k].text),
          !.latencies = IF answers[k].err THEN @ ELSE @ + 1,
          !.perType = IF answers[k].err THEN @
                      ELSE score(@, samples[k].truth, answers[k].dets)]
  IN  FoldLeft(One, [samples |-> Len(samples), chars |-> 0, latencies |-> 0,
                     perType |-> [t \in Types |-> NoMetrics]],
               [k \in DOMAIN samples |-> k])

\* The greatest number of true spans of a type that can have a detection of
\* their own.
BestMatching(truth, got, type) ==
  LET Pairs == { p \in (DOMAIN truth) \X (DOMAIN got) :
                   /\ truth[p[1]].type = type /\ got[p[2]].type = type
                   /\ overlap(truth[p[1]], got[p[2]]) }
      Matchings == { m \in SUBSET Pairs :
                       \A p, q \in m : p # q => p[1] # q[1] /\ p[2] # q[2] }
  IN  Max({ Cardinality(m) : m \in Matchings })

\* The spans of a type follow each other in the text.  Those of the corpus do;
\* the detections of the Go engine come in the order of the arbitration, the
\* longer ones of a type first.
InOrder(spans) ==
  \A i, j \in DOMAIN spans :
    i < j /\ spans[i].type = spans[j].type => spans[i].end <= spans[j].start

\* No detection meets two true spans of its type.
OneEach(truth, got) ==
  \A g \in DOMAIN got : \A i, j \in DOMAIN truth :
    {truth[i].type, truth[j].type} = {got[g].type} /\ overlap(truth[i], got[g])
      /\ overlap(truth[j], got[g]) => i = j

\* Over all samples the engine answered, every true span and every detection
\* is counted once under its type; and no other pairing would find more true
\* positives, although the pairing is greedy, if the detections of a type are
\* in the order of the text or none meets two true spans (bench/cmd/run/main.go:116-201).
ScoreIsBest(samples, answers, Types) ==
  LET per == benchmark(samples, answers, Types).perType
      scored == { k \in DOMAIN samples : ~ answers[k].err }
      Count(spans, t) == Cardinality({ i \in DOMAIN spans : spans[i].type = t })
      Best(k, t) == BestMatching(samples[k].truth, answers[k].dets, t)
  IN
  \A t \in Types :
    /\ per[t].tp + per[t].fn = MapThenSumSet(LAMBDA k : Count(samples[k].truth, t), scored)
    /\ per[t].tp + per[t].fp = MapThenSumSet(LAMBDA k : Count(answers[k].dets, t), scored)
    /\ (\A k \in scored : InOrder(answers[k].dets) \/ OneEach(samples[k].truth, answers[k].dets))
         => per[t].tp = MapThenSumSet(LAMBDA k : Best(k, t), scored)
=============================================================================
