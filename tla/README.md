# Verification of pii-guard

TLA+ models of the Go library `pii` and of the programs around it, TLC runs that
check them on small instances, and TLAPS proofs of the properties that matter
most. Paths below are relative to the repository root `src/`.

## 1. Inventory

| Component | Code | State it keeps | Operations | Hard behaviour |
| --- | --- | --- | --- | --- |
| Stream scanner | `pii/stream.go` | carried tail, absolute offset, set of emitted keys, two channels | read, scan a window, filter, send, report, close | short reads, read errors with bytes, cancellation at any moment, a bounded channel, two closes |
| Overlap arbitration | `pii/overlap.go` | none (one call: sorted copy, kept list) | sort, greedy loop | ties, empty and touching spans, order of the input |
| Detector and registry | `pii/engine.go` | list of plugins under a `sync.RWMutex`, configuration | `NewDetector`, `Register`, `Plugins`, `Scan` | concurrent registration and scans, plugins that panic, call back or return unsound spans |
| Matchers, pre-filter | `pii/engine.go`, `pii/patterns/` | none | 13 expressions, each behind a substring test | the pre-filter and the expressions are kept in different places |
| Name pass | `pii/names.go`, `pii/context/names.go` | embedded dictionary | tokenize, look up, extend by a surname | byte offsets of a Unicode tokenizer, bytes that are not UTF-8 |
| Anonymizer | `pii/anonymizer.go` | none | `Anonymize`, `semanticPlaceholder` | spans shift while text is replaced |
| Rehydration | `pii/rehydrate.go` | the mapping, given back to the caller | `AnonymizeWithMap`, `Reidentify` | map order, a model that edits the text, originals that look like placeholders |
| Command line | `cmd/pii-guard/main.go` | exit code | scan, anonymize, explain, stream | one status for several files, some blocked and some unreadable; consumer of the stream |
| Language server | `cmd/pii-guard-lsp/main.go` | output lock | framed messages, diagnostics | framing, order of messages, byte columns |
| Shipped plugins | `pii/plugins/` | none | `siretsiren`, `frenchssn`, `eudriverlicense` | candidates that hide each other, a number inside a longer one |
| Validators, masking | `pii/validate.go`, `pii/mask.go` | none | Luhn, key shape, mask | digits, boundaries |
| Rust engine, binding | `engine-rust/src/lib.rs`, `pii/engine_rust.go` | the returned buffer | scan, free | ownership and lengths across the boundary |
| Benchmark | `bench/dataset/`, `bench/cmd/run/` | none | generate a corpus, score an engine | annotations that must follow the text, greedy pairing |
| WASM | `wasm/main.go` | none | one call | - |

How they interact. `Detector.Scan` calls the matchers, copies the registry and
calls every plugin without the lock, runs the name pass, arbitrates, decides on
blocking and anonymizes. `Anonymize` and `AnonymizeWithMap` arbitrate again what
they are given. The stream scanner calls `Scan` on windows from a goroutine of
its own and hands chunks to its consumer, `runStream` in the CLI, over a channel
of four; an error goes over a channel of one. `Reidentify` runs later, on what a
language model made of the anonymized text. The CLI and the language server call
`Scan` once per input; the benchmark calls an engine once per sample. The Rust
engine is a second implementation behind `RustScan`, which nothing but the
benchmark calls.

What makes each correct:

- stream: offsets are absolute; every span the overlap covers lies whole in a
  window; nothing is emitted twice; an end without an error means the whole
  stream was scanned; a consumer that drains the chunks is never left waiting;
- arbitration: what is kept is disjoint; a detection is dropped only for a
  kept one that goes before it; neither the order of the reports nor a second
  run matters;
- detector: names stay unique under concurrent registration; a scan works on
  the registry of one moment; a plugin that panics or lies about spans costs no
  more than its own matches; calls return although plugins call back;
- name pass: tokens are words, at their bytes; names do not meet;
- anonymization: nothing but the detected spans changes; the reply of the model
  is restored in any order of the map when no original holds a placeholder, and
  the call then returns; a text comes back that holds none of its own placeholders
  and whose detections are numbered;
- command line: the status is zero only when everything was read and is clean,
  and agrees with what was printed;
- language server: frames stay aligned, and the last text of a document wins;
- the rest: a slip in a card number is noticed, a mask hides something, valid
  company numbers are found, annotations are where they say, scores count
  everything once, buffers are given back.

## 2. Modules

| Module | Models | Uses |
| --- | --- | --- |
| `Overlaps` | the less function, the sort and the greedy loop of `overlap.go` as operators; the reference `Arbitrates` | |
| `OverlapLoop` | one call of `resolveOverlaps`, step by step | `Overlaps` |
| `StreamScanner` | `StreamScanner.Scan`: the goroutine, the channels, the consumer of `runStream` | |
| `WindowScan` | `Detector.Scan` on a window: matches cut by its edge, arbitration | `Overlaps` |
| `DetectionStream` | the abstract stream: the detections of the whole text, each once, then complete or failed | |
| `Matchers` | pre-filter, built-in pass and name pass over texts of tokens | `Overlaps` |
| `Anonymizer` | placeholders and replacement | `Matchers` |
| `Detector` | goroutines that register, list and scan on one detector | `Anonymizer` |
| `Rehydrate` | `AnonymizeWithMap`, the model, `Reidentify` | `Anonymizer` |
| `CommandLine` | one run of `pii-guard`: flags, inputs, files, exit status | |
| `LanguageServer` | `pii-guard-lsp`: framing, dispatch, diagnostics, an editor that may die | |
| `Tokenizer` | `Tokenize` and the name pass on bytes | |
| `Validators` | `ValidateLuhn`, `Mask` | |
| `SiretSiren` | the plugin for company numbers, its expressions included | `Overlaps`, `Validators` |
| `Benchmark` | the corpus and the scoring | |
| `RustBinding` | one call over the C boundary | |
| `MCOverlapLoop`, `MCStream`, `MCDetector`, `MCRehydrate`, `MCCommandLine`, `MCLanguageServer` | the values of the constants | |
| `MCFunctions` | enters one input of a small family into the modules without state | the five before |
| `ScanProofs` | lemmas about the operators of one scan: sort, arbitration, matchers, name pass, `Anonymize` | `Anonymizer` |
| `OverlapLoopProofs`, `DetectorProofs`, `RehydrateProofs` | theorems | `ScanProofs` |
| `StreamScannerProofs`, `CommandLineProofs`, `LanguageServerProofs` | theorems | |
| `FunctionProofs` | theorems about the modules without state, for every input and for those of `MCFunctions` | `MCFunctions`, `ScanProofs` |

### Stream scanner

A byte is its position in the stream, so the text of a window says where it
really came from and `OffsetIsAbsolute` compares that with the offset the code
computes. The detector is the constant operator `Detect`; `Expected` is a set of
spans it finds in every window that holds them (an assumption, `ExpectedAssumption`,
that TLC evaluates for the detectors of the runs).

`carry`, `absoluteOffset`, `seen`, `n`, `err` and `combined` are the local
variables of the goroutine; `chunk` is the value about to be sent; `sent` and
`received` are the history of the channel `out`, whose contents are the chunks
between; `errs` is `errCh`. The actions follow the loop: `CheckContext`
(`ctx.Err()`), `Read(k, e)` (any number of bytes, with or without an error),
`Scan` (the call and the filter), `Send` (blocks while the channel is full, then
offset and carry), `Decide` (end, report or next iteration), `Report`,
`CloseErrs`, `CloseOut` (the deferred closes, last in first out). `Receive`,
`EndOfChunks`, `ReceiveError` and `Abandon` are `runStream`; `Cancel` is whoever
owns the context. A step is what the goroutine does between two points where
somebody else's step can matter: the context is read in `CheckContext` and again
in `Scan`, as `Detector.Scan` does.

`WindowScan` instantiates `Detect`: an occurrence of the stream is reported in a
window that holds its core, cut to the window, and the result is arbitrated. A
fixed-length match (a card number) is its own core; an e-mail address still
matches when cut.

### Overlap arbitration

Types are ranks of Go's string order, confidences integers. `StableSort` is what
`sort.SliceStable` promises for any less function: each element goes to the place
that its predecessors leave it, and ties keep their order. `Arbitrates` is the reference: kept exactly if it
has a span and nothing kept that goes before it shares a byte with it.

### Detector

A text is a sequence of tokens and spans count tokens; a token says what the
passes ask of its bytes (which expressions match it, what substring tests see,
whether Luhn holds, whether it is a name). The registry (`plugins`), the lock
(`writer`, `readers`) and per goroutine a program counter and the local variables
of its call are the state. `Register` validates outside the lock, then
`Announce`/`Lock` (a waiting writer keeps new readers out, as Go's `RWMutex`
does), `Lookup`, `AppendPlugin`. `Lookup` asks the registered plugins for their names
while it holds the lock, and may crash the process as every call of `Name()` and
`Confidence()` may (`Crash`); a `Name()` that calls back into the detector there, which
would wait for the lock its own goroutine holds, is not modelled: a name is a
constant of its plugin. `Scan` runs the built-in pass, `RLock`, `Copy`,
then one round per plugin: `Detect` or `DetectPanics`, `Collect` (which calls
`Confidence()` outside the recover and may therefore crash the process),
and `Finish`: name pass, arbitration, blocking, anonymization.

`Register` says it must not be called concurrently with `Scan`. The model allows
it: the code takes the lock on both sides, and the properties show what that buys.

### Anonymizer and Rehydrate

`Replace` is one round of the loop of `AnonymizeWithMap`, from the last binding to
the first. `Answer` lets the model return the text as it is, reversed, twice, or
without its first token. `NextPlaceholder` takes the keys of the map in any
order; `ReplaceFirst` and `Gone` are the loop of `replaceAll`, which searches from
the start each time. `restored` counts its replacements, a history variable. A
text may hold tokens that look like placeholders, of its own detections or not.
`OriginalsArePlain` (no original holds a placeholder of the map), `Fresh` (nor does the
text) and `Numbered` (no two contract references or client identifiers) are state
predicates that the properties name as their conditions. `mappings` gives a
placeholder the text under its span, as the built-in passes set `d.Text`; a plugin
could set another text.

### Command line

An argument is `[flag, value]`, with `flag = "none"` for a bare word. `Command`
and `Args` are `main`'s choice of a command; `IsFlag`, `Parses` and `Value` are the
`flag` package: flags end before the first bare word, the last value counts, and
what follows is positional although it may look like a flag. A content says
whether it can be read, how many detections a scan finds with and without the
name pass, and whether one is a secret; `Policy` and `Blocked` are the
configuration that `runScan` builds and `applyBlocking`. The loop over files is
`NextFile`: `WorseCode` keeps the higher status, `MissingFile` assigns 1 whatever
it was. `anonymize`, `explain` and `stream` are one action each, since they have
one input and no loop of their own; the loop of `stream` is `StreamScanner`'s.

### Language server

A frame is its header lines, a blank line and the bytes of its body; the pipe
holds references `[of, at]` to elements of frames, so a slip in the framing shows
as a body that is not that of the next message. `ReadHeader`, `ReadBody` are
`readMessage`; `EndOfInput` and `BodyIsCut` its errors (`io.EOF` ends the server
cleanly, `io.ErrUnexpectedEOF` does not); `Dispatch` is `json.Unmarshal`,
`dispatch` and `publish`. The header is read in one step, since nothing can be
seen between two of its lines. The editor sends what an editor may send, and
frames without a length; `HangUp` cuts its last frame at any element. Texts are
sequences of bytes: `lineCol` counts bytes, as the code does, and `OffsetAt` is
the editor, which counts characters.

### Functions without state

`Tokenizer`: a byte is a pair of a rune and its place in the encoding of that
rune, so a text may hold bytes that are not UTF-8 and a token may be asked
whether it splits a rune. `Advance` is the loop body at one offset; an invalid
byte has the length of U+FFFD, three, as in `decodeRune`. `Validators`: digits are
numbers, so the checksum is one. `SiretSiren`: an expression is a sequence of steps
that take one character or perhaps one, which is all those two expressions use;
`FindAllIn` goes on behind the match before, as `FindAllStringIndex` does. `Benchmark`: the fixed
wording of a sample is a number of characters, the values drawn are sequences.
`RustBinding`: a call is the sequence of what happens to the heap; `CInt` is Go's
conversion to a C int, of which there are `IntRange`.

## 3. Runs

Passing:

| Run | Question | Bounds |
| --- | --- | --- |
| `overlap` | the loop arbitrates, keeps disjoint spans, and a second run or another order changes nothing | up to 3 detections over 3 bytes, 2 types, 2 confidences, an empty span |
| `stream` | offsets, coverage, exactly once, nothing missed, the closing protocol, the refinement of `DetectionStream`, the end of the stream | 7 bytes, windows of 3 with an overlap of 2, channel of 4, cancellation, failing reads and a consumer that gives up |
| `detector` | the registry under three concurrent calls; isolation of panics; sound spans; blocking and anonymization of the result; every call returns unless the process is ended | 3 goroutines, 1 call each, 6 plugins (one that calls back, a nil one, one with a NaN confidence), 3 texts, panics in `Detect` and `Confidence` |
| `rehydrate` | spans stay in place, the text is that of `Anonymize`, replies are restored in every order when originals are plain, the round trip of fresh and numbered texts, termination | every text of up to 4 of 5 tokens, of up to 3 of a word, an address and two literal placeholders, three with contract references, three with a literal placeholder inside a secret; 4 replies each |
| `command` | zero only when all is read and clean, every readable file reported, status and reports agree | every command with up to two flags and a file, or one flag and three files; 3 files on disk and a missing one; 4 standard inputs |
| `lsp` | the framing never slips, the editor ends up with the diagnostics of the text it shows, the server ends for cause only, requests are answered | one document, 2 texts, 3 messages of 1 or 2 bytes |
| `functions` | tokenizer, name pass, checksum, masking, company numbers, corpus, scoring, buffers: each function against what it promises | every byte sequence of up to 6 of 5 bytes; card numbers of 13 and 16 digits with two neighbours set; values of up to 10 characters; numbers of 3 to 5 groups; 2 true spans and 2 detections, twice; lengths up to `IntRange + 4` |

Why the bounds are enough. Three detections are the least in which a candidate
meets two kept ones, or loses to one that loses itself. Seven bytes with reads of
one to three bytes give windows shorter than, equal to and longer than the
overlap, up to seven chunks (more than the channel holds, so a send blocks), and
two expected spans of `Overlap + 1` bytes, the longest the tail covers, at both
ends. Three callers give a writer that waits, a reader inside and a plugin
that calls back at the same time. Four tokens give two placeholders of one
type around one of another. Three files give a blocked, a missing and a clean
one in every order, which is what the merging of statuses can get wrong. Three
messages are a document opened, changed and followed by anything else, and a
short frame between two longer ones; for the framing, the theorem `AlignedFrames`
needs no bound. Six bytes hold an invalid byte, whose length is taken for three,
in front of a letter of two bytes that it cuts, with a word behind; numbers of five
groups hold a SIRET, a SIREN inside it and a candidate that hides it. What `functions`
checks is proved for longer inputs (section 4).

`IntRange` bounds the C int: sixteen values stand for 2^32, and a unit for 2^28
bytes. `MaxLength` in `Rehydrate` bounds the text `replaceAll` works on; no text of
`rehydrate` gets near it. The run has texts on both sides of each condition: originals
with a placeholder of the map and with another one, texts with a placeholder of their
own and with another one, one and two contract references. `rehydrate_literal` and
`rehydrate_endless` show what fails without the conditions; that two contract references
come back alike is listed below. The one case left out of `rehydrate` is an original that leads back to its own
placeholder, for which `Terminates` does not hold (`rehydrate_endless`).
`NamesStayUnique` names its exception in the same way: an earlier plugin registered
with blanks around its name, which `MCPlugins` has (see below). `MaxBytes`, `MaxSent`,
`MaxDetections`, `StreamLen` and `Calls` bound what their names say.

Deadlock is checked in `stream`, `detector`, `lsp`, `stream_cancel_eof` and
`detector_secrets`, where the end of the program is the explicit `Finished`. It is off
where a call or a process is over when it returns (`overlap`, `rehydrate` and the two
runs named after it, `command`, `functions`), and in `stream_abandon`, where a consumer
that gave up leaves the goroutine blocked and `CancellationCloses` asks whether that
matters.

Fairness. `stream`: weak fairness of the goroutine and of the consumer, which the
Go scheduler gives; the reader is assumed to answer (a model of a reader that
never returns would say nothing about this code); nothing obliges anybody to
cancel, and `Abandon` is not fair: a consumer that never gives up gets to the end
(`Terminates`). `detector`: weak fairness of each goroutine inside a call, with `CanGoOn`
for `ENABLED Step` (inside a call, the process alive, not waiting for the lock); nobody is
obliged to call, to panic or to end the process. `rehydrate`:
weak fairness of `Reidentify`, which is sequential code. `lsp`: weak fairness of the
server, which reads what is there; an editor need not say anything.

Disagreements between the documentation and the code, each a run that TLC
ends with a counterexample:

| Run | The claim | What the code does |
| --- | --- | --- |
| `stream_abandon` | the channel closes on cancellation (`pii/stream.go:62-63`) | the send on a full channel does not watch the context; the goroutine stays |
| `stream_cancel_eof` | errors are reported (`pii/stream.go:63`) | a reader that returns its last bytes with `io.EOF` and a cancellation just before the scan: the last text goes out unscanned and the stream ends without an error |
| `detector_secrets` | blocks when keys or tokens are found (`README.md:216`) | blocking looks at what arbitration left: an address (0.95) inside `token=...` (0.90) wins, nothing blocks |
| `rehydrate_endless` | `Reidentify` replaces placeholders (`pii/rehydrate.go:29`) | an original that contains its own placeholder (`token= [SECRET_1]`) is found again after each replacement: the call does not return |
| `rehydrate_literal` | `Reidentify(AnonymizeWithMap(t)) == t` (`CHANGELOG.md:31`) | a placeholder is made without a look at the text: `token=[EMAIL_1] a@b.fr` becomes `[SECRET_1] [EMAIL_1]`, and comes back as `token=a@b.fr a@b.fr` if the map yields `[SECRET_1]` first, as it was if it yields `[EMAIL_1]` first. `[EMAIL_1] a@b.fr` comes back as `a@b.fr a@b.fr` in every order |

Met while reading, with no run of their own. Stream and arbitration:

- An overlap greater than the longest pattern is said to be enough
  (`pii/stream.go:14-17`). Of three matches A-B-C that overlap in a chain with C
  strongest, the whole text keeps A and C; a window that ends inside C keeps B
  and drops A, and the next window no longer holds A.
- ADR-005 (`docs/ARCHITECTURE_DECISIONS.md:98`) says a stream yields the same set as
  a whole scan; a match cut by the end of a window is emitted as well, shortened.
  `Delivers` is therefore stated for matches that touch no other and cannot be
  cut, and `NothingMissed` for every detector.
- `seen` is never pruned (`stream.go:98`), while ADR-005 says constant memory.
- The documented overlap default is 64 (ADR-005), the code's is 128.

Detector, matchers and names:

- `Register` is said to refuse a duplicate name (`engine.go:47-48`, ADR-003), but it
  compares the trimmed new name with registered names as they are (`engine.go:67`): a
  plugin named with blanks keeps nobody out, not even itself. `NamesStayUnique` leaves
  these names out.
- A misbehaving plugin is said never to crash the host (`engine.go:103-104`, ADR-003),
  but only `Detect` runs under the recover: a panic of `Confidence()` or `Name()`
  (`engine.go:179,191`; in `Register` 55, 59 and 67) ends the process, which is `Crash`.
- `Register` accepts a NaN confidence (`engine.go:60`), which the model has.
- The pre-filter for secrets (`engine.go:247`) does not know `passwd` and `pwd`,
  which the expression does; the one for IBANs wants an upper-case letter, the
  expression ignores case.
- After an invalid byte the tokenizer goes on three bytes later
  (`context/names.go:70-75`), so a name right behind it loses its front.

Anonymization:

- `[EMAIL_1]` behind `secret =` is a generic secret for a second pass, so
  `Anonymize` is not idempotent on such texts (`property_test.go:6`).
- `Scan` does not fill `Mappings` (`README.md:119-121` uses `res.Mappings`).
- `AnonymizeWithMap` is said to make an entry for every detection
  (`property_test.go:8`), but contract references and client identifiers share one
  placeholder (`anonymizer.go:43-46`): the second entry overwrites the first, and both
  come back alike. `RoundTrip` leaves these texts out (`Numbered`).
- A number of exactly eight characters is masked to itself (`mask.go:15-19`), which
  `MaskedIsHidden` leaves out.

Command line and language server:

- A file that cannot be read sets the status to 1 although an earlier one was
  blocked (`cmd/pii-guard/main.go:108`), while `README.md:330` gives 2 to blocked
  input; `GateOpensOnlyWhenClean` shows that it is never 0.
- `--text` leaves files aside, `anonymize` and `explain` leave positional arguments
  aside, a flag behind a file name is taken for a file, and `-h` behind a command
  ends with status 1.
- Standard input is trimmed before it is scanned, so its spans count from the
  first character that is no blank.
- `stream` has no `--format` flag (`README.md:229`).
- The header of the language server lists `didClose` (`main.go:6`), `dispatch` has no
  case for it: the last diagnostics of a closed document stay. A request with an
  unknown method is never answered, and the answer to `shutdown` has no `result`
  member, which `omitempty` drops (`main.go:39`).
- Columns are bytes (`main.go:234-248`), those of the protocol are UTF-16 units:
  `EditorSeesItsText` claims places only on lines of one-byte characters.

Plugins, Rust engine, WASM, benchmark:

- `siretsiren` says a SIREN inside a SIRET is reported too; the code skips it.
  A candidate that fails the checksum hides a valid number that overlaps it, and
  `\s` lets a number reach over a line break. What `taken` prevents, arbitration
  would drop as well.
- `frenchssn` has no mod-97 check (`README.md:256`); the de-duplication of
  `eudriverlicense` never finds anything to drop.
- The comments of the Rust library and of its binding list different sets of types;
  it calls an address `IP`, the Go engine `IP_ADDRESS`.
- A buffer of 2^31 bytes or more has a negative C int, on which `C.GoBytes` panics;
  the deferred free still runs.
- The WASM function keeps the default threshold of 100 detections.
- The corpus calls an IP address `IP` and the Go engine `IP_ADDRESS`, so the published
  results have no true positive for either name. The comment on the distribution
  (`dataset.go:41`) says 30/20/20/15/15, the code draws 30/20/20/10/20.
- The Go engine lists its detections in the order of arbitration, longer ones
  first; where a detection meets two true spans the greedy pairing can then miss
  a true positive, which is why `ScoresAreRight` asks for the order of the text or
  detections that meet one span each.

## 4. What is proved

TLAPS checks the following for every value of the constants under the named
assumptions of each module.

`StreamScannerProofs` (any stream length, options that `NewStreamScanner` accepts,
channel capacity, reader and detector; `OptionsAssumption`, `DetectAssumption`,
`ExpectedAssumption`):

- `Typing`, `Offsets`, `BoundedWindows` from `Inv == TypeOK /\ Positioned /\ Chunks`:
  the carry is the part of the stream that ends at the absolute offset, the window
  is that part followed by what was just read, and every sent chunk is a window.
  `OffsetIsAbsolute` alone is not inductive: it says nothing of the carry the next
  chunk is built from.
- `Coverage`: every span of at most `Overlap + 1` bytes is in a window. The bound is
  tight: the carry holds `Overlap` bytes and a read adds at least one.
- `NoDuplicates` from `Emission`: `seen` holds exactly the keys of what was emitted or
  is about to be.
- `NoneMissed` from both: the window that covers a span finds it, and a find is either
  fresh or has a key an earlier chunk carried at the same place.
- `OneUnscanned`, `ErrorReady`, `CleanEnd` from `EndInv`: what `pc`, `err`, the context
  and the closed channels say about each other. `CleanEnd` assumes that the reader
  reports `io.EOF` without bytes; `stream_cancel_eof` shows that it is needed.

In the same module, with a reader that reports `io.EOF` without bytes and a detector
with `FindsAreStable`: `StreamRefinement`, that `StreamScanner` implements `DetectionStream` under the refinement mapping of `Found` and `Status`. A
`Receive` is a `Deliver`: what the next chunk carries belongs to the whole text and was not
delivered before (`NoDuplicates`). A `ReceiveError` is a `Complete` or a `Fail`: without
an error everything was scanned and taken (`CleanEnd`), so nothing is missing
(`NoneMissed`). Every other step stutters. `FindsAreStable` says that the detector finds the
same spans in every window that holds them, no others, and none longer than the
overlap covers; `MCStream` has TLC evaluate it for the detector of the run. It is what
the cut matches and the chains of section 3 do not have.

`ScanProofs` states nothing of a specification: it holds the lemmas about what one call
computes, for texts and lists of any length. Two operators of the code are folds
(`resolveOverlaps`, `Anonymize`) and one is a sort that the model gives by counting. The
induction theorems of the library cannot be used here, so every induction goes through
`LeastNumber`: a set of natural numbers that is not empty has a least element, and the
least length at which a claim failed would leave it true one element earlier.

- `StableSort` permutes its argument, and nothing is behind what it goes before, for
  every less function that is a strict weak order (`Before` and the order by start of
  `Anonymize` are).
- `resolveOverlaps` returns an arbitration of what it is given; there is only one, so
  it depends neither on the order of its input nor on a second run.
- What the built-in pass and the name pass report lies in the text and is not empty.
- `Anonymize` is the text between the detections, and each detection replaced by its
  placeholder, piece by piece.

`ScanAssumption` of `Detector` gives the constants the shape of their Go types: texts are
sequences, a plugin returns finitely many matches with integer bounds, and what the
configuration can enable is a built-in type.

`OverlapLoopProofs` (any candidates, any number of them): `LoopTyping`, `KeptDisjoint`
and `Arbitration`, from `LoopInv`. `KeptAreDisjoint` is inductive given typing; the
result needs in addition that the copy is in order, that the kept detections are
among those behind the cursor, and that each one dropped has its cause
(`DroppedForCause`). `LoopRefinesOperator`: the loop ends with what the operator
`resolveOverlaps` returns, which the other modules use in its place.
`ResolvingIsIdempotent` and `ResolvingIgnoresOrder` follow from that and from the uniqueness
of the arbitration.

`DetectorProofs` (any goroutines, calls, plugins, texts):

- `DetectorTyping`, `UniqueNames`, `CurrentSnapshots`, from `RegistryInv`. Uniqueness needs
  that the plugin about to be appended was not registered at the moment its goroutine
  held the lock (`LookupHolds`) and that only the holder is there (`WriterLocks`). It has
  the exception of `NamesStayUnique`, without which it is false (section 3).
- `PanicIsolation`, `SpanSoundness`, `OnlyDetectionsAreReplaced`, from `ScanInv`: at every
  point of its call a scan has found what the built-in pass reports and what the plugins in front of `next` contribute, except those that panicked, and
  what it returned is made of exactly that (`Delivers`). The three properties speak of the
  end of a call; the invariant says what each round has added on the way.

`RehydrateProofs` (any text and vocabulary, any list of detections; `RehydrateAssumption`):

- `SpansKeepTheirPlace` and `AnonymizedAlike`, from `RoundInv`: the text in front of the
  binding about to be replaced is the original one, and what is behind is what
  `Anonymize` makes of it. The loop goes from the last binding to the first because of the
  former; that it ends with the text of `Anonymize` is the induction over its rounds.
- `RepliesRestored`, `RoundTripRestores` and `ReplacementsAreBounded`, from `RestoreInv` and
  `CountInv`. They hold for every text and every reply, with the conditions inside the
  properties: `OriginalsArePlain` in the first and the last, `Fresh` and `Numbered` in the
  second (`FreshOriginals`: what is cut from a fresh text is plain). `RestoreInv` says that
  then the text, with every key in it replaced at once, is the reply with every key
  replaced at once, whatever the order of the keys, and that the keys still in the text
  are the one at work and those not yet reached. `CountInv`: the replacements made and the
  keys left are the keys of the reply. An original with a key in it breaks both, as
  `rehydrate_literal` and `rehydrate_endless` show.

`CommandLineProofs` (any command line, standard input, disk and numerals;
`CommandAssumption`):

- `OpenGate`: `GateOpensOnlyWhenClean` needs to be told about the files in turn: a
  status of 0 in the loop means that each file before `next` was read and is not
  blocked. What the flags forbid is then blocked, whatever the threshold.
- `HonestStatus`: the status is 2 only while a report says blocked, and 0 only while
  none does. `MissingFile` keeps both because it assigns 1.
- `ReportsAreComplete`: `EveryReadableFileIsReported`, from `Reported`, which says where the
  report of each file is while the loop runs: at the number of readable files up to
  it. `OneMoreFile` is the step of that count.

`LanguageServerProofs` (any documents, texts, detections and number of messages;
`ServerAssumption`): `ServerTyping`, `AlignedFrames`, `CausedEnd`, from `FramingInv`.
`FramesStayAligned` alone says nothing of the pipe. The invariant adds the shape of
a frame (`Shaped`: one blank line, with the length before it), that the pipe holds
what follows what was read, element by element, and up to the end of the last
frame while the editor lives (`Piped`), and what the server knows of the message it
is at (`AtMessage`: no length between messages, the message's own length in front of
its body). `HeaderIsRead` is the lemma that matters: the first blank line of the
pipe is that of the next message, so the length announced before it is its own.

`EditorUpToDate` is `EditorSeesItsText`, from `SightInv`, which adds that the last
message about a document carries the text its editor shows (`Shows`), and that of the
messages handled the last about a document has the last diagnostics written for
it (`Published`); at the end the two are the same message. `PlaceFound` is the lemma
below it: on a line of one-byte characters the place that `lineCol` computes for an
offset leads the editor back to that offset. `ServerAssumption` says that texts are
sequences of bytes, that detections are spans, and that the other methods are not
those of the two notifications.

`FunctionProofs` proves what `functions` checks, in two steps: a theorem about the
operators, for inputs of any length (`EveryWordIsAToken`, `NamesNeverMeet`,
`EverySlipIsCaught`, `EveryValueIsHidden`, `EveryNumberIsFound`, `EveryAnnotationIsTrue`,
`EveryScoreIsBest`, `EveryBufferIsFreed`), and the invariant of the run, which follows
because what is entered has the form the theorem asks for (`InputType`, inductive).
`TokenizerAssumption`, `RustAssumption` and `BytesAssumption` give the constants their
shape: widths of one to four bytes, at least one value of a C int, characters with the
widths of the table. The arguments:

- A loop of the code is a fold of the community modules, a function on sets of indices.
  `LeftSteps` and `RightSteps` turn one into the sequence of values that the loop passes
  through; what follows are invariants of that sequence, as for a loop of the code.
  `SumOver` does it for sums over sets, which do not depend on the order.
- Tokens are words: in front of an offset, every word that has ended is a token, and the
  open one starts where the code says (`EveryWordIsAToken`). The token a name takes behind
  it is a surname, which no given name is, so names keep apart (`NamesNeverMeet`).
- A slip changes the weighted sum of the digits by the difference of two weights, and
  doubling permutes the digits modulo ten: no difference is a multiple of ten. For
  two neighbours the exchange of 0 and 9 is the one exception.
- Company numbers: the leftmost search finds matches that do not meet, and each
  candidate it leaves out meets one it found. Arbitration
  takes all SIRETs of a text, which are longer, in front of all SIRENs, so a SIREN is
  lost only to a SIRET that is kept.
- Annotations: a sample is laid out as pieces, an annotation names the place of one. That a
  value occurs nowhere else needs values that can be told apart: no character of one in
  another or in the wording (`ToldApart`), which the values of `MCFunctions` are.
- Scores: each sample adds its true spans and detections once to the counters of
  their types (`ScoreAdds`). The greedy pairing takes for each true span the first free
  detection, so it takes at least as many as any other pairing has so far
  (`GreedyOrdered`), provided that both are in order; without order it holds where no
  detection meets two true spans (`GreedySingle`). True spans must be in order, as those
  of the corpus are (`Scorable`).
- Buffers: a call is a short sequence of events; the deferred free is the last
  whatever the C int says.

The types of `OverlapLoop`, `Detector` and `LanguageServer` are only proved: no run lists
them.

Only model-checked: the liveness properties, `Terminates`, `CallsReturn` and the others
(fairness and `ENABLED` are out of the prover's reach). Every invariant of the passing
runs is proved.

## 5. What is not modelled

Of what has modules: Unicode tables, the dictionary, formatting and logging.
Regular expressions are what a token says it matches, except those of `siretsiren`;
whether a pre-filter sees every word its expression knows lies below that, and
reading it shows that it does not (section 3). Confidences are integers; a NaN
confidence exists only at registration. A reader that returns neither bytes nor an
error, and one that never returns, are left out. The text of a detection is that
of its span; a plugin may in fact supply any text, and its `Confidence()` does not
change between calls. A message announces its length as it is or not at all: a
length that is no number ends the server as a missing one does.

Without a module:

- `frenchssn` and `eudriverlicense`: one or a few expressions, every match reported;
- `LooksLikeAPIKey`: a list of expressions that only its test calls;
- the expressions of the Rust library;
- WASM: one call of `Scan` and `AnonymizeWithMap` behind a JavaScript function, no state;
- the benchmark's choice of an engine, its times, ratios and report.

`seen` of the stream scanner grows with the stream: no bound holds, so there is no
property; `BoundedWindows` bounds the rest of what an iteration keeps.

## 6. Plan

Done, in this order: stream scanner over window scans; arbitration as operators
and loop; detector and registry; anonymizer; rehydration; language server; command
line; tokenizer, validators, plugin, benchmark, Rust binding; proofs of every component
with state, of the refinement of the abstract stream, and of the functions without
state.

What could still be added:

1. Plugins that supply a text other than that of the span, and what `Reidentify`
   then puts back.
2. The less function of `Overlaps` with confidences that do not compare.
3. The words of the pre-filter and of the expressions, as sets below the tokens.
