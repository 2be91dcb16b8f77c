--------------------------- MODULE MCCommandLine ---------------------------
(***************************************************************************)
(* Command lines of every command, with up to two flags and up to three    *)
(* files, one of which does not exist, and flags behind a file name.       *)
(***************************************************************************)
EXTENDS CommandLine, SequencesExt

Text(count, names, secret) ==
  [ok |-> TRUE, count |-> count, names |-> names, secret |-> secret]
Clean  == Text(0, 1, FALSE)
Mail   == Text(1, 0, FALSE)
Key    == Text(2, 0, TRUE)

MCDisk == [clean |-> Clean, mail |-> Mail, key |-> Key]
MCSaid == [hello |-> Clean, token |-> Key]
MCAtoi == [n \in {"-1", "0", "2", "100", "128", "2048"} |->
             CASE n = "-1" -> -1 [] n = "0" -> 0 [] n = "2" -> 2
               [] n = "100" -> 100 [] n = "128" -> 128 [] n = "2048" -> 2048]

MCInputs == { [tty |-> TRUE, content |-> Clean],
              [tty |-> FALSE, content |-> Unreadable] }
            \union { [tty |-> FALSE, content |-> c] : c \in {Clean, Key} }

Bare(word) == [flag |-> "none", value |-> word]
Given(flag, values) == { [flag |-> flag, value |-> v] : v \in values }

Options ==
  UNION { Given(b, {"true", "false"}) : b \in Booleans }
    \union Given("--text", {"hello", "token"}) \union Given("--file", {"key", "gone"})
    \union Given("--format", {"json", "xml"}) \union Given("--verbose", {"true"})
    \union Given("--block-threshold", {"-1", "0", "2", "x"})
    \union Given("--overlap", {"-1", "0", "2048"}) \union Given("--chunk-size", {"128"})

Names == { Bare(word) : word \in {"clean", "mail", "key", "gone"} }
Block == [flag |-> "--block", value |-> "true"]

\* Two flags and a file; one flag and up to three files; a flag behind a file.
Arguments ==
  { flags \o files : flags \in BoundedSeq(Options, 2), files \in BoundedSeq(Names, 1) }
    \union { flags \o files : flags \in BoundedSeq({Block}, 1),
                              files \in BoundedSeq(Names, 3) }
    \union { <<name, Block>> : name \in Names }

Heads == { <<>> } \union { <<Bare(word)>> : word \in Commands }

MCInvocations ==
  { head \o args : head \in Heads, args \in Arguments }
    \union { <<[flag |-> "-h", value |-> Empty]>>, <<Bare("version")>> }
=============================================================================
