------------------------- MODULE CommandLineProofs -------------------------
(***************************************************************************)
(* The exit status of pii-guard, for any command line, any files and any   *)
(* number of them.                                                         *)
(***************************************************************************)
EXTENDS CommandLine, FiniteSetTheorems, TLAPS

\* The names of the reports that are not about a file.
Labels == {"text", "stdin", "anonymized", "explained"}
\* A report tells what it is about and whether it says blocked.
Report == [name : Labels \cup STRING \cup {Value("--file")}, blocked : BOOLEAN]

\* The values of the variables.
Typed ==
  /\ argv \in Invocations /\ stdin \in Inputs
  /\ next \in Nat \ {0} /\ exit \in 0..2
  /\ reports \in Seq(Report)

\* A command runs only as itself, and nothing happens to the status and the
\* reports before it does.
Fresh ==
  /\ pc \notin {"files", "exited"} => exit = 0 /\ reports = <<>> /\ next = 1
  /\ pc \in Commands => pc = Command

\* While the status is 0, every file behind the cursor was read and is clean;
\* at the end of a scan of files, there is none ahead of it.
Judged ==
  pc \in {"files", "exited"} /\ exit = 0 /\ Command = "scan" /\ Value("--text") = Empty =>
    /\ \A k \in DOMAIN Files :
         k < next => ReadFile(Files[k]).ok /\ ~ Forbidden(ReadFile(Files[k]))
    /\ pc = "exited" => next > Len(Files)

\* The status and the reports agree at every step.
Agrees ==
  LET told == \E k \in DOMAIN reports : reports[k].blocked IN
  /\ exit = 2 => told
  /\ exit = 0 => ~ told

\* A text of the command line can be read or not, and is well formed.
LEMMA Reads ==
  ASSUME NEW name PROVE ReadFile(name) \in Content
  BY CommandAssumption DEF ReadFile, Unreadable, Content, CommandAssumption

\* What scanOne does not hold against a text is not forbidden.
LEMMA PassedIsAllowed ==
  ASSUME NEW c \in Content, Code(c) = 0 PROVE ~ Forbidden(c)
<1>1. ~ Blocked(c)
  BY DEF Code
<1>2. c.count \in Nat /\ c.names \in Nat
  BY DEF Content
<1>3. ASSUME c.count > 0 PROVE c.count + (IF Policy.DetectNames THEN c.names ELSE 0) > 0
  BY <1>2, <1>3
<1> QED
  BY <1>1, <1>3 DEF Blocked, Forbidden, Policy

\* scanOne returns a status, and it agrees with what it prints.
LEMMA OneAgrees ==
  ASSUME NEW name, NEW c
  PROVE  /\ Code(c) \in 0..2
         /\ Printed(name, c) \in Seq([name : {name}, blocked : BOOLEAN])
         /\ Code(c) = 2 => Len(Printed(name, c)) = 1 /\ Printed(name, c)[1].blocked
         /\ Code(c) = 0 => Len(Printed(name, c)) = 1 /\ ~ Printed(name, c)[1].blocked
         /\ Code(c) = 1 => Printed(name, c) = <<>>
<1> DEFINE b == Blocked(c)
           r == [name |-> name, blocked |-> b]
<1>1. b \in BOOLEAN
  BY DEF Blocked
<1>2. CASE ~ FormatIsKnown
  <2>1. Code(c) = 1 /\ Printed(name, c) = <<>>
    BY <1>2 DEF Code, Printed
  <2> QED
    BY <2>1
<1>3. CASE FormatIsKnown
  <2>1. Code(c) = (IF b THEN 2 ELSE 0) /\ Printed(name, c) = <<r>>
    BY <1>3 DEF Code, Printed
  <2>2. r \in [name : {name}, blocked : BOOLEAN] /\ (r.blocked <=> b)
    BY <1>1
  <2> HIDE DEF b, r
  <2> QED
    BY <2>1, <2>2
<1> QED
  BY <1>2, <1>3

\* A report of a command that never blocks.
LEMMA OneReport ==
  ASSUME NEW r \in Report, ~ r.blocked
  PROVE  <<r>> \in Seq(Report) /\ \A k \in DOMAIN <<r>> : ~ <<r>>[k].blocked
  OBVIOUS

LEMMA FilesAreASequence ==
  ASSUME argv \in Invocations PROVE Files \in Seq(STRING \cup {Value("--file")})
<1> DEFINE Arg == [flag : STRING, value : STRING]
<1>0. \A a \in Arg : Word(a) \in STRING
  BY DEF Word
<1>a. Invocations \subseteq Seq(Arg)
  BY CommandAssumption DEF CommandAssumption
<1> HIDE DEF Arg
<1>1. Args \in Seq(Arg)
  BY <1>a DEF Args
<1>2. FlagCount \in Nat /\ FlagCount <= Len(Args)
  <2>0. Len(Args) \in Nat
    BY <1>1
  <2>1. IsFiniteSet(1..Len(Args)) /\ Cardinality(1..Len(Args)) = Len(Args)
    BY <2>0, FS_Interval
  <2>2. { k \in DOMAIN Args : IsFlag(k) } \subseteq 1..Len(Args)
    BY <1>1
  <2> QED
    BY <2>1, <2>2, FS_Subset, FS_CardinalityType, <1>1 DEF FlagCount
<1> DEFINE n == Len(Args) - FlagCount
           bare == [k \in 1..n |-> Word(Args[FlagCount + k])]
           last == IF Value("--file") = Empty THEN <<>> ELSE <<Value("--file")>>
           S == STRING \cup {Value("--file")}
<1>3. n \in Nat
  BY <1>1, <1>2
<1>4. \A k \in 1..n : Word(Args[FlagCount + k]) \in S
  <2> SUFFICES ASSUME NEW k \in 1..n PROVE Word(Args[FlagCount + k]) \in STRING
    OBVIOUS
  <2>1. FlagCount + k \in 1..Len(Args)
    BY <1>1, <1>2, <1>3
  <2>2. Args[FlagCount + k] \in Arg
    BY <1>1, <2>1
  <2> QED
    BY <1>0, <2>2
<1>5. bare \in Seq(S)
  BY <1>3, <1>4
<1>6. last \in Seq(S)
  <2> DEFINE v == Value("--file")
  <2>1. v \in S
    OBVIOUS
  <2> HIDE DEF v, S
  <2>2. <<v>> \in Seq(S) /\ <<>> \in Seq(S)
    BY <2>1
  <2> QED
    BY <2>2 DEF v
<1> HIDE DEF bare, last, S
<1>7. bare \o last \in Seq(S)
  BY <1>5, <1>6
<1>8. Files = bare \o last
  BY DEF Files, bare, last
<1> QED
  BY <1>7, <1>8 DEF S

LEMMA FilesDomain ==
  ASSUME argv \in Invocations
  PROVE  Len(Files) \in Nat /\ DOMAIN Files = 1..Len(Files)
<1> DEFINE S == STRING \cup {Value("--file")}
<1>1. Files \in Seq(S)
  BY FilesAreASequence
<1> HIDE DEF S
<1> QED
  BY <1>1

\* The command line never changes, nor what it says.
LEMMA Unchanging ==
  ASSUME argv' = argv, stdin' = stdin
  PROVE  /\ Command' = Command
         /\ Files' = Files
         /\ \A flag : Value(flag)' = Value(flag)
         /\ \A c : Forbidden(c)' = Forbidden(c)
<1>1. Args' = Args /\ Command' = Command
  BY DEF Args, Command
<1>2. \A flag : Value(flag)' = Value(flag)
  BY <1>1 DEF Value, IsFlag
<1>3. FlagCount' = FlagCount
  BY <1>1 DEF FlagCount, IsFlag
<1>4. Files' = Files
  BY <1>1, <1>2, <1>3 DEF Files
<1>5. \A c : Forbidden(c)' = Forbidden(c)
  BY <1>2 DEF Forbidden, IsSet
<1> QED
  BY <1>1, <1>2, <1>4, <1>5

\* What one more report does to the status and the reports.
LEMMA MergeAgrees ==
  ASSUME NEW name \in Labels \cup STRING \cup {Value("--file")}, NEW c,
         reports \in Seq(Report), exit \in 0..2, Agrees,
         exit' = WorseCode(Code(c)), reports' = reports \o Printed(name, c)
  PROVE  exit' \in 0..2 /\ reports' \in Seq(Report) /\ Agrees'
<1> DEFINE p == Printed(name, c)
           code == Code(c)
<1>1. /\ code \in 0..2
      /\ code = 2 => Len(p) = 1 /\ p[1].blocked
      /\ code = 0 => Len(p) = 1 /\ ~ p[1].blocked
      /\ code = 1 => p = <<>>
  BY OneAgrees
<1>2. p \in Seq(Report)
  <2> DEFINE Own == [name : {name}, blocked : BOOLEAN]
  <2>1. p \in Seq(Own)
    BY OneAgrees
  <2>2. Own \subseteq Report
    BY DEF Report
  <2> HIDE DEF p, Own
  <2> QED
    BY <2>1, <2>2
<1>3. reports' = reports \o p /\ exit' = IF code > exit THEN code ELSE exit
  BY DEF WorseCode
<1> HIDE DEF p, code
<1>4. reports' \in Seq(Report)
  BY <1>2, <1>3
<1>5. /\ Len(reports') = Len(reports) + Len(p)
      /\ \A k \in 1..Len(reports) : reports'[k] = reports[k]
      /\ \A k \in 1..Len(p) : reports'[Len(reports) + k] = p[k]
      /\ \A k \in 1..Len(reports') :
           k > Len(reports) => k - Len(reports) \in 1..Len(p)
  BY <1>2, <1>3
<1>6. ASSUME exit' = 2 PROVE \E k \in DOMAIN reports' : reports'[k].blocked
  <2>1. CASE exit = 2
    <3>1. PICK k \in DOMAIN reports : reports[k].blocked
      BY <2>1 DEF Agrees
    <3>2. k \in DOMAIN reports' /\ reports'[k].blocked
      BY <1>2, <1>4, <1>5, <3>1
    <3> QED
      BY <3>2
  <2>2. CASE code = 2
    <3>1. Len(p) = 1 /\ p[1].blocked
      BY <1>1, <2>2
    <3>2. Len(reports) \in Nat /\ DOMAIN reports' = 1..Len(reports')
      BY <1>4
    <3>3. 1 \in 1..Len(p)
      BY <3>1
    <3>4. reports'[Len(reports) + 1] = p[1]
      BY <1>5, <3>3
    <3>5. Len(reports) + 1 \in DOMAIN reports'
      <4> DEFINE m == Len(reports)
      <4>1. Len(reports') = m + 1 /\ m \in Nat
        BY <1>5, <3>1, <3>2
      <4> HIDE DEF m
      <4>2. m + 1 \in 1..Len(reports')
        BY <4>1
      <4> QED
        BY <3>2, <4>2 DEF m
    <3>6. reports'[Len(reports) + 1].blocked
      BY <3>1, <3>4
    <3> QED
      BY <3>5, <3>6
  <2> QED
    BY <1>1, <1>3, <1>6, <2>1, <2>2
<1>7. ASSUME exit' = 0 PROVE \A k \in DOMAIN reports' : ~ reports'[k].blocked
  <2>1. exit = 0 /\ code = 0
    BY <1>1, <1>3, <1>7
  <2>2. \A k \in DOMAIN reports : ~ reports[k].blocked
    BY <2>1 DEF Agrees
  <2>3. Len(p) = 1 /\ ~ p[1].blocked
    BY <1>1, <2>1
  <2>4. SUFFICES ASSUME NEW k \in 1..Len(reports') PROVE ~ reports'[k].blocked
    BY <1>4
  <2>5. CASE k <= Len(reports)
    BY <1>5, <2>2, <2>5
  <2>6. CASE k > Len(reports)
    BY <1>5, <2>3, <2>6
  <2> QED
    BY <2>5, <2>6
<1>8. exit' \in 0..2
  BY <1>1, <1>3
<1> QED
  BY <1>4, <1>6, <1>7, <1>8 DEF Agrees

IInv == Typed /\ Fresh /\ Judged /\ Agrees

LEMMA Initially == Init => IInv
<1> SUFFICES ASSUME Init PROVE IInv
  OBVIOUS
<1>1. Typed
  BY DEF Init, Typed
<1>2. Fresh /\ Agrees
  BY DEF Init, Fresh, Agrees, Commands, FlagsOf
<1>3. Judged
  BY DEF Init, Judged, Commands
<1> QED
  BY <1>1, <1>2, <1>3 DEF IInv

LEMMA Steps == IInv /\ [Next]_vars => IInv'
<1> SUFFICES ASSUME IInv, [Next]_vars PROVE IInv'
  OBVIOUS
<1> USE DEF IInv
<1>0. Typed /\ Fresh /\ Judged /\ Agrees
  OBVIOUS
<1>a. argv' = argv /\ stdin' = stdin
  BY DEF Next, vars, Main, Refuse, ScanInput, ScanFiles, NextFile, FilesDone,
         Anonymize, Explain, Stream
<1>b. /\ Command' = Command /\ Files' = Files
      /\ \A flag : Value(flag)' = Value(flag)
      /\ \A c : Forbidden(c)' = Forbidden(c)
  BY <1>a, Unchanging
<1>c. Report' = Report
  BY <1>b DEF Report
<1>d. Files \in Seq(STRING \cup {Value("--file")})
  BY FilesAreASequence DEF Typed
<1>f. Len(Files) \in Nat /\ DOMAIN Files = 1..Len(Files)
  BY FilesDomain DEF Typed
<1>e. "files" \notin Commands /\ "exited" \notin Commands /\ "main" \notin Commands
  BY DEF Commands, FlagsOf
<1>1. CASE Main
  <2>1. /\ exit' = 0 /\ reports' = reports /\ next' = next
        /\ reports = <<>> /\ exit = 0
        /\ \/ Command = "help" /\ pc' = "exited"
           \/ pc' = Command
    BY <1>0, <1>1 DEF Main, Exit, Fresh
  <2>2. Command # "files"
    BY DEF Command, Commands, FlagsOf
  <2>3. Typed'
    BY <1>0, <1>a, <1>c, <2>1 DEF Typed
  <2>4. Fresh'
    BY <1>0, <1>1, <1>b, <1>e, <2>1 DEF Fresh, Main
  <2>5. Judged'
    BY <1>b, <2>1, <2>2 DEF Judged
  <2>6. Agrees'
    BY <2>1 DEF Agrees
  <2> QED
    BY <2>3, <2>4, <2>5, <2>6
<1>2. CASE Refuse
  <2>1. /\ exit' = 1 /\ reports' = reports /\ next' = next /\ pc' = "exited"
    BY <1>2 DEF Refuse, Exit
  <2>2. Typed'
    BY <1>0, <1>a, <1>c, <2>1 DEF Typed
  <2> QED
    BY <1>e, <2>1, <2>2 DEF Fresh, Judged, Agrees
<1>3. CASE ScanInput
  <2>1. /\ pc' = "exited" /\ next' = next /\ next = 1 /\ exit = 0 /\ reports = <<>>
        /\ Value("--text") # Empty \/ Files = <<>>
    BY <1>0, <1>3, <1>e DEF ScanInput, Exit, Fresh, Accepted, Commands, FlagsOf
  <2> DEFINE content == resolveInput(Value("--text"), Empty)
             name == IF Value("--text") # Empty THEN "text" ELSE "stdin"
  <2>2. CASE content.ok
    <3>1. /\ exit' = Code(content) /\ reports' = Printed(name, content)
      BY <1>3, <2>2 DEF ScanInput, Exit
    <3>2. name \in Labels \cup STRING \cup {Value("--file")}
      BY DEF Labels
    <3>3. Code(content) \in 0..2 /\ Printed(name, content) \in Seq([name : {name}, blocked : BOOLEAN])
      BY OneAgrees
    <3>4. exit' = WorseCode(Code(content))
      BY <2>1, <3>1, <3>3 DEF WorseCode
    <3>5. reports' = reports \o Printed(name, content)
      <4> DEFINE p == Printed(name, content)
                 Own == [name : {name}, blocked : BOOLEAN]
      <4>1. p \in Seq(Own) /\ reports' = p /\ reports = <<>>
        BY <2>1, <3>1, <3>3
      <4> HIDE DEF p, Own
      <4>2. reports' = reports \o p
        BY <4>1
      <4> QED
        BY <4>2 DEF p
    <3> HIDE DEF content, name
    <3>6. exit' \in 0..2 /\ reports' \in Seq(Report) /\ Agrees'
      BY <1>0, <3>2, <3>4, <3>5, MergeAgrees DEF Typed
    <3> QED
      BY <1>0, <1>a, <1>b, <1>c, <1>e, <2>1, <3>6 DEF Typed, Fresh, Judged
  <2>3. CASE ~ content.ok
    <3>1. exit' = 1 /\ reports' = reports
      BY <1>3, <2>3 DEF ScanInput, Exit
    <3> QED
      BY <1>0, <1>a, <1>c, <1>e, <2>1, <3>1 DEF Typed, Fresh, Judged, Agrees
  <2> QED
    BY <2>2, <2>3
<1>4. CASE ScanFiles
  <2>1. /\ pc' = "files" /\ next' = next /\ next = 1 /\ exit' = exit
        /\ reports' = reports
    BY <1>0, <1>4, <1>e DEF ScanFiles, Fresh, Accepted, Commands, FlagsOf
  <2>2. Judged'
    BY <1>b, <1>f, <2>1 DEF Judged, ReadFile
  <2>3. Typed'
    BY <1>0, <1>a, <1>c, <2>1 DEF Typed
  <2> QED
    BY <1>0, <1>e, <2>1, <2>2, <2>3 DEF Fresh, Agrees
<1>5. CASE NextFile
  <2> DEFINE content == ReadFile(Files[next])
             code == Code(content)
  <2>1. pc = "files" /\ next \in DOMAIN Files /\ next' = next + 1 /\ next \in Nat \ {0}
    BY <1>0, <1>5, <1>d DEF NextFile, Typed
  <2>2. CASE content.ok
    <3>1. /\ exit' = WorseCode(code)
          /\ reports' = reports \o Printed(Files[next], content)
          /\ pc' = "files"
      BY <1>5, <2>2 DEF NextFile
    <3>2. Files[next] \in Labels \cup STRING \cup {Value("--file")}
      BY <1>d, <2>1
    <3>3. exit' \in 0..2 /\ reports' \in Seq(Report) /\ Agrees'
      BY <1>0, <3>1, <3>2, MergeAgrees DEF Typed
    <3>4. Judged'
      <4> SUFFICES ASSUME exit' = 0, Command = "scan", Value("--text") = Empty,
                          NEW k \in DOMAIN Files, k < next'
                   PROVE  ReadFile(Files[k]).ok /\ ~ Forbidden(ReadFile(Files[k]))
        BY <1>b, <3>1 DEF Judged, ReadFile
      <4>1. code \in 0..2
        BY OneAgrees
      <4>2. exit = 0 /\ code = 0
        <5>1. exit \in 0..2 /\ exit' = IF code > exit THEN code ELSE exit
          BY <1>0, <3>1 DEF WorseCode, Typed
        <5> HIDE DEF code
        <5> QED
          BY <4>1, <5>1
      <4>3. CASE k < next
        BY <1>0, <2>1, <4>2, <4>3 DEF Judged
      <4>4. CASE k = next
        BY <2>2, <4>2, <4>4, Reads, PassedIsAllowed
      <4> QED
        BY <1>f, <2>1, <4>3, <4>4
    <3> QED
      BY <1>0, <1>a, <1>c, <1>e, <2>1, <3>1, <3>3, <3>4 DEF Typed, Fresh
  <2>3. CASE ~ content.ok
    <3>1. exit' = 1 /\ reports' = reports /\ pc' = "files"
      BY <1>5, <2>3 DEF NextFile, MissingFile
    <3>2. Typed'
      BY <1>0, <1>a, <1>c, <2>1, <3>1 DEF Typed
    <3>3. Fresh' /\ Judged' /\ Agrees'
      BY <1>e, <3>1 DEF Fresh, Judged, Agrees
    <3> QED
      BY <3>2, <3>3
  <2> QED
    BY <2>2, <2>3
<1>6. CASE FilesDone
  <2>1. /\ pc = "files" /\ next > Len(Files) /\ pc' = "exited" /\ exit' = exit
        /\ next' = next /\ reports' = reports
    BY <1>6 DEF FilesDone, Exit
  <2>2. Judged'
    BY <1>0, <1>b, <2>1 DEF Judged, ReadFile
  <2>3. Typed'
    BY <1>0, <1>a, <1>c, <2>1 DEF Typed
  <2> QED
    BY <1>0, <1>e, <2>1, <2>2, <2>3 DEF Fresh, Agrees
<1>7. CASE Anonymize \/ Explain \/ Stream
  <2>1. /\ pc' = "exited" /\ exit' \in {0, 1} /\ next' = next /\ Command # "scan"
        /\ reports = <<>>
        /\ \/ reports' = <<>>
           \/ reports' = <<[name |-> "anonymized", blocked |-> FALSE]>>
           \/ reports' = <<[name |-> "explained", blocked |-> FALSE]>>
    BY <1>0, <1>7 DEF Anonymize, Explain, Stream, Exit, Accepted, Fresh, Commands, FlagsOf
  <2>2. reports' \in Seq(Report) /\ \A k \in DOMAIN reports' : ~ reports'[k].blocked
    <3>1. CASE reports' = <<>>
      BY <3>1
    <3>2. ASSUME NEW name \in Labels,
                 reports' = <<[name |-> name, blocked |-> FALSE]>>
          PROVE  reports' \in Seq(Report) /\ \A k \in DOMAIN reports' : ~ reports'[k].blocked
      <4> DEFINE r == [name |-> name, blocked |-> FALSE]
      <4>1. r \in Report /\ ~ r.blocked /\ reports' = <<r>>
        BY <3>2 DEF Report
      <4> HIDE DEF r
      <4> QED
        BY <4>1, OneReport
    <3>3. "anonymized" \in Labels /\ "explained" \in Labels
      BY DEF Labels
    <3> QED
      BY <2>1, <3>1, <3>2, <3>3
  <2>3. Typed'
    BY <1>0, <1>a, <1>c, <2>1, <2>2 DEF Typed
  <2>4. Judged'
    BY <1>b, <2>1 DEF Judged
  <2>5. Agrees'
    BY <2>1, <2>2 DEF Agrees
  <2> QED
    BY <1>e, <2>1, <2>3, <2>4, <2>5 DEF Fresh
<1>8. CASE UNCHANGED vars
  <2>1. pc' = pc /\ exit' = exit /\ next' = next /\ reports' = reports
    BY <1>8 DEF vars
  <2>2. Judged'
    BY <1>0, <1>b, <2>1 DEF Judged, ReadFile
  <2>3. Typed'
    BY <1>0, <1>a, <1>c, <2>1 DEF Typed
  <2> QED
    BY <1>0, <1>b, <2>1, <2>2, <2>3 DEF Fresh, Agrees
<1> QED
  BY <1>1, <1>2, <1>3, <1>4, <1>5, <1>6, <1>7, <1>8 DEF Next

LEMMA Invariance == Spec => []IInv
  BY Initially, Steps, PTL DEF Spec

\* The gate opens only when everything is clean, for any number of files in
\* any order (main.go:100-115).
THEOREM OpenGate == Spec => []GateOpensOnlyWhenClean
<1>1. IInv => GateOpensOnlyWhenClean
  <2> SUFFICES ASSUME IInv, pc = "exited", Command = "scan", Value("--text") = Empty,
                      exit = 0, NEW k \in DOMAIN Files
               PROVE  ReadFile(Files[k]).ok /\ ~ Forbidden(ReadFile(Files[k]))
    BY DEF GateOpensOnlyWhenClean
  <2>1. Len(Files) \in Nat /\ DOMAIN Files = 1..Len(Files)
    BY FilesDomain DEF IInv, Typed
  <2>2. next > Len(Files) /\ next \in Nat
    BY DEF IInv, Judged, Typed
  <2>3. k < next
    BY <2>1, <2>2
  <2> QED
    BY <2>3 DEF IInv, Judged
<1> QED
  BY <1>1, Invariance, PTL

\* The status agrees with what was printed, for any number of files
\* (main.go:110-113, 125-131).
THEOREM HonestStatus == Spec => []StatusAgreesWithReports
<1>1. IInv => StatusAgreesWithReports
  BY DEF IInv, Agrees, StatusAgreesWithReports
<1> QED
  BY <1>1, Invariance, PTL

-----------------------------------------------------------------------------
(***************************************************************************)
(* The reports                                                             *)
(***************************************************************************)
\* The files behind the cursor that can be read have their reports, each one
\* at its rank among them, and a scan of files ends behind the last.
Reported ==
  (pc = "files" \/ (pc = "exited" /\ next > 1)) /\ FormatIsKnown =>
    /\ Len(reports) = Cardinality(Readable(next - 1))
    /\ \A k \in Readable(next - 1) :
         reports[Cardinality(Readable(k))].name = Files[k]
    /\ pc = "exited" => next > Len(Files)

\* The readable files up to the k-th are finitely many; one more file adds
\* itself if it can be read, and nothing otherwise.
LEMMA OneMoreFile ==
  ASSUME argv \in Invocations, NEW k \in Nat
  PROVE  /\ IsFiniteSet(Readable(k)) /\ Cardinality(Readable(k)) \in Nat
         /\ k + 1 \in DOMAIN Files /\ ReadFile(Files[k + 1]).ok =>
              /\ Readable(k + 1) = Readable(k) \cup {k + 1}
              /\ Cardinality(Readable(k + 1)) = Cardinality(Readable(k)) + 1
         /\ k + 1 \in DOMAIN Files /\ ~ ReadFile(Files[k + 1]).ok =>
              Readable(k + 1) = Readable(k)
<1>1. Len(Files) \in Nat /\ DOMAIN Files = 1..Len(Files)
  BY FilesDomain
<1>2. IsFiniteSet(Readable(k)) /\ Cardinality(Readable(k)) \in Nat
  <2> DEFINE All == 1..Len(Files)
  <2>1. IsFiniteSet(All)
    BY <1>1, FS_Interval
  <2>2. Readable(k) \subseteq All
    BY <1>1 DEF Readable
  <2> HIDE DEF All
  <2>3. IsFiniteSet(Readable(k))
    BY <2>1, <2>2, FS_Subset
  <2> QED BY <2>3, FS_CardinalityType
<1>3. \A j \in DOMAIN Files : j <= k + 1 <=> j <= k \/ j = k + 1
  BY <1>1
<1>4. ASSUME k + 1 \in DOMAIN Files, ReadFile(Files[k + 1]).ok
      PROVE  /\ Readable(k + 1) = Readable(k) \cup {k + 1}
             /\ Cardinality(Readable(k + 1)) = Cardinality(Readable(k)) + 1
  <2>1. Readable(k + 1) = Readable(k) \cup {k + 1}
    BY <1>3, <1>4 DEF Readable
  <2>2. ~ (k + 1 <= k)
    OBVIOUS
  <2>3. k + 1 \notin Readable(k)
    BY <2>2 DEF Readable
  <2> QED BY <1>2, <2>1, <2>3, FS_AddElement
<1>5. ASSUME k + 1 \in DOMAIN Files, ~ ReadFile(Files[k + 1]).ok
      PROVE  Readable(k + 1) = Readable(k)
  BY <1>3, <1>5 DEF Readable
<1> QED BY <1>2, <1>4, <1>5

\* The rank of a readable file lies between one and the number of those up to
\* any place behind it.
LEMMA RanksAreBounded ==
  ASSUME argv \in Invocations, NEW n \in Nat, NEW k \in Readable(n)
  PROVE  Cardinality(Readable(k)) \in 1..Cardinality(Readable(n))
<1>1. Len(Files) \in Nat /\ DOMAIN Files = 1..Len(Files)
  BY FilesDomain
<1>2. k \in DOMAIN Files /\ k <= n /\ ReadFile(Files[k]).ok /\ k \in Nat
  BY <1>1 DEF Readable
<1>3. \A j \in DOMAIN Files : j <= k => j <= n
  BY <1>1, <1>2
<1>4. Readable(k) \subseteq Readable(n)
  BY <1>3 DEF Readable
<1>5. k \in Readable(k)
  BY <1>2 DEF Readable
<1>6. /\ IsFiniteSet(Readable(k)) /\ Cardinality(Readable(k)) \in Nat
      /\ IsFiniteSet(Readable(n)) /\ Cardinality(Readable(n)) \in Nat
  BY <1>2, OneMoreFile
<1>7. Cardinality(Readable(k)) # 0
  BY <1>5, <1>6, FS_EmptySet
<1>8. Cardinality(Readable(k)) <= Cardinality(Readable(n))
  BY <1>4, <1>6, FS_Subset
<1> QED BY <1>6, <1>7, <1>8

\* What the cursor passes is reported or cannot be read.
LEMMA FileReported ==
  ASSUME IInv, NextFile, Reported PROVE Reported'
<1>0. /\ argv \in Invocations /\ next \in Nat \ {0} /\ reports \in Seq(Report)
      /\ next \in DOMAIN Files /\ next - 1 \in Nat /\ (next - 1) + 1 = next
      /\ pc = "files" /\ pc' = "files" /\ next' = next + 1
  <2>1. argv \in Invocations /\ next \in Nat \ {0} /\ reports \in Seq(Report)
    BY DEF IInv, Typed
  <2>2. Len(Files) \in Nat /\ DOMAIN Files = 1..Len(Files)
    BY <2>1, FilesDomain
  <2>3. pc = "files" /\ pc' = "files" /\ next' = next + 1 /\ next <= Len(Files)
    BY DEF NextFile, MissingFile
  <2>4. next \in 1..Len(Files)
    BY <2>1, <2>2, <2>3
  <2>5. next - 1 \in Nat /\ (next - 1) + 1 = next
    BY <2>1
  <2> QED BY <2>1, <2>2, <2>3, <2>4, <2>5
<1>1. /\ Files' = Files /\ FormatIsKnown' = FormatIsKnown
      /\ \A k : Readable(k)' = Readable(k)
  <2>1. argv' = argv /\ stdin' = stdin
    BY DEF NextFile
  <2>2. Files' = Files /\ \A flag : Value(flag)' = Value(flag)
    BY <2>1, Unchanging
  <2> QED BY <2>2 DEF FormatIsKnown, Readable, ReadFile
<1>2. next' - 1 = next
  BY <1>0
<1> SUFFICES ASSUME FormatIsKnown
    PROVE  /\ Len(reports') = Cardinality(Readable(next))
           /\ \A k \in Readable(next) :
                reports'[Cardinality(Readable(k))].name = Files[k]
  BY <1>0, <1>1, <1>2 DEF Reported
<1> DEFINE before == Readable(next - 1)
           content == ReadFile(Files[next])
<1>3. /\ Len(reports) = Cardinality(before)
      /\ \A k \in before : reports[Cardinality(Readable(k))].name = Files[k]
  BY <1>0 DEF Reported
<1>4. CASE ~ content.ok
  <2>1. reports' = reports
    BY <1>4 DEF NextFile
  <2>2. Readable(next) = before
    BY <1>0, <1>4, OneMoreFile
  <2> HIDE DEF before
  <2> QED BY <1>3, <2>1, <2>2
<1>5. CASE content.ok
  <2> DEFINE r == [name |-> Files[next], blocked |-> Blocked(content)]
             m == Cardinality(before)
  <2>1. reports' = reports \o <<r>>
    BY <1>5 DEF NextFile, Printed
  <2>2. /\ Readable(next) = before \cup {next}
        /\ Cardinality(Readable(next)) = m + 1 /\ m \in Nat
    BY <1>0, <1>5, OneMoreFile
  <2>3. r.name = Files[next]
    OBVIOUS
  <2>4. \A k \in before : Cardinality(Readable(k)) \in 1..m
    BY <1>0, RanksAreBounded
  <2> HIDE DEF before, r, m
  <2>5. Len(reports) = m
    BY <1>3 DEF m
  <2>6. /\ Len(reports') = m + 1 /\ reports'[m + 1] = r
        /\ \A j \in 1..m : reports'[j] = reports[j]
    BY <1>0, <2>1, <2>2, <2>5
  <2>7. ASSUME NEW k \in Readable(next)
        PROVE  reports'[Cardinality(Readable(k))].name = Files[k]
    <3>1. CASE k \in before
      BY <1>3, <2>4, <2>6, <3>1
    <3>2. CASE k = next
      BY <2>2, <2>3, <2>6, <3>2
    <3> QED BY <2>2, <2>7, <3>1, <3>2
  <2> QED BY <2>2, <2>6, <2>7
<1> QED BY <1>4, <1>5

LEMMA ReportedSteps == IInv /\ Reported /\ [Next]_vars => Reported'
<1> SUFFICES ASSUME IInv, Reported, [Next]_vars PROVE Reported'
  OBVIOUS
<1>1. CASE NextFile
  BY <1>1, FileReported
<1>2. CASE Main \/ Refuse \/ ScanInput \/ Anonymize \/ Explain \/ Stream
  <2>1. next = 1 /\ next' = next /\ pc' # "files"
    BY <1>2 DEF IInv, Fresh, Main, Refuse, ScanInput, Anonymize, Explain, Stream,
                Accepted, Exit, Commands, FlagsOf, Command
  <2> QED BY <2>1 DEF Reported
<1>3. CASE ScanFiles
  <2>1. next = 1 /\ next' = next /\ pc' = "files" /\ reports' = <<>>
    BY <1>3 DEF IInv, Fresh, ScanFiles, Accepted, Commands, FlagsOf
  <2>2. argv' \in Invocations
    BY <1>3 DEF IInv, Typed, ScanFiles
  <2>3. Len(Files') \in Nat /\ DOMAIN Files' = 1..Len(Files')
    <3>1. Files' = Files
      BY <1>3, Unchanging DEF ScanFiles
    <3> QED BY <3>1, FilesDomain DEF IInv, Typed
  <2>4. Readable(0)' = {}
    BY <2>3 DEF Readable
  <2>5. Cardinality({}) = 0 /\ 1 - 1 = 0
    BY FS_EmptySet
  <2> QED BY <2>1, <2>4, <2>5 DEF Reported
<1>4. CASE FilesDone \/ UNCHANGED vars
  <2>1. /\ argv' = argv /\ stdin' = stdin /\ next' = next /\ reports' = reports
        /\ \/ pc' = pc
           \/ pc = "files" /\ pc' = "exited" /\ next > Len(Files)
    BY <1>4 DEF FilesDone, Exit, vars
  <2>2. Files' = Files /\ \A flag : Value(flag)' = Value(flag)
    BY <2>1, Unchanging
  <2>3. FormatIsKnown' = FormatIsKnown /\ \A k : Readable(k)' = Readable(k)
    BY <2>2 DEF FormatIsKnown, Readable, ReadFile
  <2> QED BY <2>1, <2>2, <2>3 DEF Reported
<1> QED BY <1>1, <1>2, <1>3, <1>4 DEF Next

\* Whatever files in between cannot be read, each readable one has its report,
\* in the order of the command line, for any number of files
\* (main.go:103-116).
THEOREM ReportsAreComplete == Spec => []EveryReadableFileIsReported
<1>1. Init => Reported
  BY DEF Init, Reported
<1>2. IInv /\ Reported => EveryReadableFileIsReported
  <2> SUFFICES ASSUME IInv, Reported, pc = "exited", next > 1, FormatIsKnown
      PROVE  /\ Len(reports) = Cardinality(Readable(Len(Files)))
             /\ \A k \in Readable(Len(Files)) :
                  reports[Cardinality(Readable(k))].name = Files[k]
    BY DEF EveryReadableFileIsReported
  <2>1. Len(Files) \in Nat /\ DOMAIN Files = 1..Len(Files) /\ next \in Nat
    BY FilesDomain DEF IInv, Typed
  <2>2. next > Len(Files)
    BY DEF Reported
  <2>3. \A j \in DOMAIN Files : j <= next - 1 <=> j <= Len(Files)
    BY <2>1, <2>2
  <2>4. Readable(next - 1) = Readable(Len(Files))
    BY <2>3 DEF Readable
  <2> QED BY <2>4 DEF Reported
<1> QED BY <1>1, <1>2, Invariance, ReportedSteps, PTL DEF Spec
=============================================================================
