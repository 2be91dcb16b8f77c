---------------------------- MODULE CommandLine ----------------------------
(***************************************************************************)
(* One run of pii-guard (cmd/pii-guard/main.go): a command line is parsed, *)
(* its inputs are scanned one after the other, and what is left of it all  *)
(* is one exit status.  A pre-commit hook and a CI job look at nothing     *)
(* else.                                                                   *)
(*                                                                         *)
(* An argument is [flag, value]: flag is "none" for a bare word.  Where a  *)
(* text comes from is a content:                                           *)
(*   ok      it can be read                                                *)
(*   count   the detections of a scan without the name pass                *)
(*   names   the detections the name pass adds                             *)
(*   secret  one of them is a secret                                       *)
(***************************************************************************)
EXTENDS Integers, Sequences, FiniteSets

CONSTANTS
  Invocations,   \* the command lines, without the name of the program
  Inputs,        \* what standard input may be: a content, and whether a tty
  Disk,          \* the contents of the files by name
  Said,          \* the contents of the texts that --text may give
  Atoi           \* the numerals and what they stand for

Content == [ok : BOOLEAN, count : Nat, names : Nat, secret : BOOLEAN]

ASSUME CommandAssumption ==
  /\ Invocations \subseteq Seq([flag : STRING, value : STRING])
  /\ Inputs \subseteq [tty : BOOLEAN, content : Content]
  /\ Disk \in [DOMAIN Disk -> Content]
  /\ Said \in [DOMAIN Said -> Content]
  /\ Atoi \in [DOMAIN Atoi -> Int]

VARIABLES
  argv, stdin,   \* the command line and standard input, which never change
  pc,            \* "main", a command, "files" or "exited"
  next,          \* the file whose turn it is
  exit,          \* the exit status so far
  reports        \* what was printed about each input: name and blocked

vars == <<argv, stdin, pc, next, exit, reports>>

-----------------------------------------------------------------------------
(***************************************************************************)
(* The flag package                                                        *)
(***************************************************************************)
Booleans == {"--block-on-secrets", "--block-on-pii", "--detect-names", "--block"}
Numbers  == {"--block-threshold", "--chunk-size", "--overlap"}

\* The flags that each command declares.
FlagsOf ==
  [ scan      |-> {"--text", "--file", "--format", "--block-threshold"}
                    \union Booleans,
    anonymize |-> {"--text", "--file", "--format"},
    explain   |-> {"--text", "--file", "--detect-names"},
    stream    |-> {"--chunk-size", "--overlap"} ]

Commands == DOMAIN FlagsOf

\* The empty string.
Empty == "empty"

Default(flag) ==
  CASE flag = "--format"           -> "text"
    [] flag = "--block-on-secrets" -> "true"
    [] flag \in Booleans           -> "false"
    [] flag = "--block-threshold"  -> "100"
    [] flag = "--chunk-size"       -> "2048"
    [] flag = "--overlap"          -> "128"
    [] OTHER                       -> Empty

Word(arg) == IF arg.flag = "none" THEN arg.value ELSE arg.flag

\* main: the first word names the command; without one it is a scan of
\* standard input, or of the whole command line.
Helps == {"-h", "--help", "help", "version", "--version", "-v"}

Command ==
  IF argv = <<>> THEN IF stdin.tty THEN "help" ELSE "scan"
  ELSE LET word == Word(Head(argv)) IN
       IF word \in Helps THEN "help"
       ELSE IF word \in Commands THEN word ELSE "scan"

Args == IF argv # <<>> /\ Word(Head(argv)) \in Commands THEN Tail(argv) ELSE argv

\* The flags end before the first bare word; what follows are positional
\* arguments, even when they look like flags.
IsFlag(k) == k \in DOMAIN Args /\ \A j \in 1..k : Args[j].flag # "none"

FlagCount == Cardinality({ k \in DOMAIN Args : IsFlag(k) })

WellFormed(arg) ==
  /\ arg.flag \in Booleans => arg.value \in {"true", "false"}
  /\ arg.flag \in Numbers  => arg.value \in DOMAIN Atoi

\* fs.Parse returns no error.
Parses ==
  \A k \in DOMAIN Args :
    IsFlag(k) => Args[k].flag \in FlagsOf[Command] /\ WellFormed(Args[k])

\* The last value given counts.
Value(flag) ==
  LET given == { k \in DOMAIN Args : IsFlag(k) /\ Args[k].flag = flag } IN
  IF given = {} THEN Default(flag)
  ELSE Args[CHOOSE k \in given : \A j \in given : j <= k].value

IsSet(flag) == Value(flag) = "true"

-----------------------------------------------------------------------------
(***************************************************************************)
(* Inputs, configuration and one scan                                      *)
(***************************************************************************)
Unreadable == [ok |-> FALSE, count |-> 0, names |-> 0, secret |-> FALSE]
ReadFile(name) == IF name \in DOMAIN Disk THEN Disk[name] ELSE Unreadable
ReadStdin == IF stdin.tty THEN Unreadable ELSE stdin.content

\* The text, the file or standard input, whichever is given first.
resolveInput(text, file) ==
  IF text # Empty THEN Said[text]
  ELSE IF file # Empty THEN ReadFile(file) ELSE ReadStdin

\* The configuration of a scan.
Policy ==
  [BlockOnSecrets |-> IsSet("--block-on-secrets") \/ IsSet("--block"),
   BlockOnPII     |-> IsSet("--block-on-pii") \/ IsSet("--block"),
   BlockThreshold |-> Atoi[Value("--block-threshold")],
   DetectNames    |-> IsSet("--detect-names")]

\* result.Blocked
Blocked(content) ==
  LET found == content.count + (IF Policy.DetectNames THEN content.names ELSE 0)
  IN  \/ Policy.BlockOnSecrets /\ content.secret
      \/ Policy.BlockOnPII /\ found > 0
      \/ Policy.BlockThreshold > 0 /\ found >= Policy.BlockThreshold

FormatIsKnown == Value("--format") \in {"text", "json"}

\* scanOne: what it returns and what it prints.
Code(content) ==
  IF ~ FormatIsKnown THEN 1 ELSE IF Blocked(content) THEN 2 ELSE 0

Printed(name, content) ==
  IF FormatIsKnown THEN <<[name |-> name, blocked |-> Blocked(content)]>> ELSE <<>>

\* The file of --file comes last.
Files ==
  [k \in 1..(Len(Args) - FlagCount) |-> Word(Args[FlagCount + k])]
    \o (IF Value("--file") = Empty THEN <<>> ELSE <<Value("--file")>>)

\* NewStreamScanner refuses the options.
StreamRefused ==
  LET size == Atoi[Value("--chunk-size")]
      overlap == Atoi[Value("--overlap")]
  IN  \/ overlap < 0
      \/ (IF overlap = 0 THEN 128 ELSE overlap) >= (IF size <= 0 THEN 2048 ELSE size)

-----------------------------------------------------------------------------
Init ==
  /\ argv \in Invocations /\ stdin \in Inputs
  /\ pc = "main" /\ next = 1 /\ exit = 0 /\ reports = <<>>

Exit(code) == pc' = "exited" /\ exit' = code

Main ==
  /\ pc = "main"
  /\ IF Command = "help" THEN Exit(0) ELSE pc' = Command /\ UNCHANGED exit
  /\ UNCHANGED <<argv, stdin, next, reports>>

\* fs.Parse fails, or pii.NewDetector or pii.NewStreamScanner does.
Refuse ==
  /\ pc \in Commands
  /\ \/ ~ Parses
     \/ Parses /\ pc = "scan" /\ Policy.BlockThreshold < 0
     \/ Parses /\ pc = "stream" /\ StreamRefused
  /\ Exit(1)
  /\ UNCHANGED <<argv, stdin, next, reports>>

Accepted(command) ==
  /\ pc = command /\ Parses
  /\ pc = "scan" => Policy.BlockThreshold >= 0
  /\ pc = "stream" => ~ StreamRefused

\* scan with --text, which leaves files aside, or with no file at all.
ScanInput ==
  /\ Accepted("scan")
  /\ Value("--text") # Empty \/ Files = <<>>
  /\ LET content == resolveInput(Value("--text"), Empty)
         name == IF Value("--text") # Empty THEN "text" ELSE "stdin"
     IN  IF content.ok THEN Exit(Code(content)) /\ reports' = Printed(name, content)
                       ELSE Exit(1) /\ UNCHANGED reports
  /\ UNCHANGED <<argv, stdin, next>>

ScanFiles ==
  /\ Accepted("scan")
  /\ Value("--text") = Empty /\ Files # <<>>
  /\ pc' = "files"
  /\ UNCHANGED <<argv, stdin, next, exit, reports>>

\* Mutant: the status of the last file counts.
LastCode(code) == code

\* The highest status counts.
WorseCode(code) == IF code > exit THEN code ELSE exit

\* Mutants: a file that cannot be read ends the loop, or counts as blocked.
MissingFileEnds == exit' = 1 /\ pc' = "exited"
MissingFileBlocks == exit' = 2 /\ UNCHANGED pc

\* Whatever the status was.
MissingFile == exit' = 1 /\ UNCHANGED pc

NextFile ==
  /\ pc = "files" /\ next <= Len(Files)
  /\ LET content == ReadFile(Files[next]) IN
     IF content.ok
     THEN /\ exit' = WorseCode(Code(content))
          /\ reports' = reports \o Printed(Files[next], content)
          /\ UNCHANGED pc
     ELSE MissingFile /\ UNCHANGED reports
  /\ next' = next + 1
  /\ UNCHANGED <<argv, stdin>>

FilesDone ==
  /\ pc = "files" /\ next > Len(Files)
  /\ Exit(exit)
  /\ UNCHANGED <<argv, stdin, next, reports>>

\* Neither of them blocks, and both leave positional arguments aside.
Anonymize ==
  /\ Accepted("anonymize")
  /\ LET content == resolveInput(Value("--text"), Value("--file"))
         printed == content.ok /\ FormatIsKnown
     IN  /\ Exit(IF printed THEN 0 ELSE 1)
         /\ reports' = IF printed
                       THEN <<[name |-> "anonymized", blocked |-> FALSE]>> ELSE <<>>
  /\ UNCHANGED <<argv, stdin, next>>

Explain ==
  /\ Accepted("explain")
  /\ LET content == resolveInput(Value("--text"), Value("--file")) IN
     /\ Exit(IF content.ok THEN 0 ELSE 1)
     /\ reports' = IF content.ok
                   THEN <<[name |-> "explained", blocked |-> FALSE]>> ELSE <<>>
  /\ UNCHANGED <<argv, stdin, next>>

\* The chunks are module StreamScanner's; here, whether reading them failed.
Stream ==
  /\ Accepted("stream")
  /\ Exit(IF stdin.content.ok THEN 0 ELSE 1)
  /\ UNCHANGED <<argv, stdin, next, reports>>

Next ==
  \/ Main \/ Refuse \/ ScanInput \/ ScanFiles \/ NextFile \/ FilesDone
  \/ Anonymize \/ Explain \/ Stream

Spec == Init /\ [][Next]_vars

-----------------------------------------------------------------------------
(***************************************************************************)
(* Properties                                                              *)
(***************************************************************************)
\* What the flags forbid in a text.
Forbidden(content) ==
  \/ content.secret /\ (IsSet("--block") \/ IsSet("--block-on-secrets"))
  \/ content.count > 0 /\ (IsSet("--block") \/ IsSet("--block-on-pii"))

\* The gate opens only when everything is clean: a scan of files ends with
\* status 0 only if each of them was read and holds nothing that the flags
\* forbid, whichever came first or last (main.go:103-117).
GateOpensOnlyWhenClean ==
  pc = "exited" /\ Command = "scan" /\ Value("--text") = Empty /\ exit = 0 =>
    \A k \in DOMAIN Files :
      ReadFile(Files[k]).ok /\ ~ Forbidden(ReadFile(Files[k]))

\* The files up to the k-th that can be read, by their places.
Readable(k) == { j \in DOMAIN Files : j <= k /\ ReadFile(Files[j]).ok }

\* A file that cannot be read costs no other file its report: the reports are
\* those of the readable files, each once and in the order of the command line
\* (main.go:104-115).
EveryReadableFileIsReported ==
  pc = "exited" /\ next > 1 /\ FormatIsKnown =>
    /\ Len(reports) = Cardinality(Readable(Len(Files)))
    /\ \A k \in Readable(Len(Files)) :
         reports[Cardinality(Readable(k))].name = Files[k]

\* The status agrees with what was printed: 2 only behind a report that says
\* blocked, 0 never behind one, although statuses are merged over files and
\* an unreadable file resets them (main.go:106-114, 126-132).
StatusAgreesWithReports ==
  pc = "exited" =>
    LET told == \E k \in DOMAIN reports : reports[k].blocked IN
    /\ exit = 2 => told
    /\ exit = 0 => ~ told
=============================================================================
