------------------------------ MODULE Detector ------------------------------
(***************************************************************************)
(* pii.Detector (engine.go): goroutines that register plugins, list them   *)
(* and scan texts on one detector.  The registry is guarded by a           *)
(* sync.RWMutex; a scan copies it and then calls the plugins without the   *)
(* lock.                                                                   *)
(*                                                                         *)
(* A plugin is a record                                                    *)
(*   isNil    the interface value is nil                                   *)
(*   name     what Name() returns: [pad, word], pad for white space around *)
(*   conf     what Confidence() returns, in hundredths, or NaN             *)
(*   hits     the matches Detect returns                                   *)
(*   reenters Detect calls Plugins() on the detector that is scanning      *)
(***************************************************************************)
EXTENDS Anonymizer

CONSTANTS
  Callers,        \* the goroutines
  Calls,          \* bound: calls one goroutine makes
  Plugins,        \* the plugins that may be registered
  Texts,          \* the texts that may be scanned
  Config,         \* the Config given to NewDetector
  Panicking,      \* the methods of plugins that may panic: "Detect", or
                  \* "Confidence" for Confidence and Name
  NoOne,          \* no goroutine
  NaN             \* a confidence that is not a number: an integer no other
                  \* plugin has; a plugin that has it returns no match

ASSUME DetectorAssumption ==
  /\ NoOne \notin Callers
  /\ Calls \in Nat /\ NaN \in Int
  /\ Panicking \subseteq {"Detect", "Confidence"}

\* Texts are sequences and Detect returns a slice; what can be enabled is a
\* built-in type.
ASSUME ScanAssumption ==
  /\ \A t \in Texts : t \in Seq(ToSet(t))
  /\ Config.enabled \subseteq Builtins
  /\ \A p \in Plugins :
       /\ p.conf \in Int
       /\ IsFiniteSet(p.hits)
       /\ \A m \in p.hits : m.type \in Int /\ m.start \in Int /\ m.end \in Int

\* enabled: the types whose Detect flag is set.
DefaultConfig ==
  [enabled |-> Builtins, DetectNames |-> FALSE, BlockOnPII |-> FALSE,
   BlockOnSecrets |-> TRUE, BlockThreshold |-> 100, AnonymizeOutput |-> TRUE]

VARIABLES
  plugins,        \* d.plugins
  writer,         \* who holds d.mu for writing, or waits for its readers
  readers,        \* who holds d.mu for reading
  pc,             \* where each goroutine is
  call,           \* the local variables of its call, kept after the return
  left,           \* calls it may still make
  crashed         \* a panic nobody recovered ended the process

vars == <<plugins, writer, readers, pc, call, left, crashed>>

NoResult == [detections |-> {}, text |-> <<>>, reason |-> "none"]

\* The nil interface value.
NilPlugin == [isNil |-> TRUE, name |-> [pad |-> FALSE, word |-> ""], conf |-> 0,
              hits |-> {}, reenters |-> FALSE]

\* op: the kind of call; plugin: the argument of Register; text: the argument
\* of Scan; found: result.Detections; snapshot: the copied plugins; next: the
\* one whose turn it is; matches: what it returned.  quiet (plugins whose
\* Detect panicked) and began (registrations complete when the call was made)
\* are history.
NoCall == [op |-> "none", plugin |-> NilPlugin, text |-> <<>>, found |-> {},
           snapshot |-> <<>>, next |-> 1, matches |-> {}, quiet |-> {},
           began |-> 0, result |-> NoResult]

TypeOK ==
  /\ plugins \in Seq(Plugins)
  /\ writer \in Callers \union {NoOne}
  /\ readers \subseteq Callers
  /\ pc \in [Callers -> {"idle", "validate", "lock", "wait", "lookup",
                         "append", "rlock", "copy", "plugins", "reenter",
                         "inside", "confidence"}]
  /\ \A c \in Callers : call[c].snapshot \in Seq(Plugins)
  /\ left \in [Callers -> 0..Calls]
  /\ crashed \in BOOLEAN

\* NewDetector: the registry is empty.
Init ==
  /\ plugins = <<>>
  /\ writer = NoOne
  /\ readers = {}
  /\ pc = [c \in Callers |-> "idle"]
  /\ call = [c \in Callers |-> NoCall]
  /\ left = [c \in Callers |-> Calls]
  /\ crashed = FALSE

-----------------------------------------------------------------------------
(***************************************************************************)
(* Helpers                                                                 *)
(***************************************************************************)
TrimSpace(name) == [name EXCEPT !.pad = FALSE]

Begin(c, op) ==
  /\ ~ crashed /\ pc[c] = "idle" /\ left[c] > 0
  /\ left' = [left EXCEPT ![c] = @ - 1]
  /\ call' = [call EXCEPT ![c] =
                [op EXCEPT !.began = Len(plugins)]]

Go(c, from, to) == ~ crashed /\ pc[c] = from /\ pc' = [pc EXCEPT ![c] = to]

\* Name() or Confidence() of a plugin panics in the goroutine of c, outside
\* any recover.
Crash(c, from) ==
  /\ ~ crashed /\ pc[c] = from
  /\ "Confidence" \in Panicking
  /\ crashed' = TRUE
  /\ UNCHANGED <<plugins, writer, readers, pc, call, left>>

\* Go's < on float64: false when either side is NaN.
Less(x, y) == x # NaN /\ y # NaN /\ x < y

\* Register refuses the plugin without looking at the registry.
Refused(p) ==
  \/ p.isNil
  \/ TrimSpace(p.name).word = ""
  \/ Less(p.conf, 0) \/ Less(100, p.conf)

\* Register finds the trimmed name of p among the registered names.
Registered(p) ==
  \E i \in DOMAIN plugins : plugins[i].name = TrimSpace(p.name)

\* Mutant: the end of a match is not checked.
AcceptedAnyEnd(m, text) == ~ (m.end <= m.start \/ m.start < 0)

\* A match a scan of text accepts from a plugin.
Accepted(m, text) ==
  ~ (m.end <= m.start \/ m.start < 0 \/ m.end > Len(text))

\* What plugin p adds to a scan of text when Detect returned matches.
Contribution(p, matches, text) ==
  { [type |-> m.type, start |-> m.start, end |-> m.end, conf |-> p.conf] :
      m \in { n \in matches : Accepted(n, text) } }

\* Why the scan is blocked; the first reason that applies is given.
applyBlocking(detections) ==
  IF /\ Config.BlockOnSecrets
     /\ \E d \in detections : d.type \in Secrets
  THEN "Secret detected in payload"
  ELSE IF Config.BlockOnPII /\ detections # {}
  THEN "PII detected in payload"
  ELSE IF /\ Config.BlockThreshold > 0
          /\ Cardinality(detections) >= Config.BlockThreshold
  THEN "PII count exceeds threshold"
  ELSE "none"

Names(text) == IF Config.DetectNames THEN runNamePass(text) ELSE {}

-----------------------------------------------------------------------------
(***************************************************************************)
(* Register                                                                *)
(***************************************************************************)
Register(c, p) ==
  /\ Begin(c, [NoCall EXCEPT !.op = "Register", !.plugin = p])
  /\ Go(c, "idle", "validate")
  /\ UNCHANGED <<plugins, writer, readers, crashed>>

\* p.Name() and p.Confidence() are called before the lock is taken.
Validate(c) ==
  \/ /\ Go(c, "validate", IF Refused(call[c].plugin) THEN "idle" ELSE "lock")
     /\ UNCHANGED <<plugins, writer, readers, call, left, crashed>>
  \/ ~ call[c].plugin.isNil /\ Crash(c, "validate")

\* mu.Lock: one writer at a time; once it has announced itself new readers
\* wait, and it waits for the ones inside.
Announce(c) ==
  /\ writer = NoOne
  /\ writer' = c
  /\ Go(c, "lock", "wait")
  /\ UNCHANGED <<plugins, readers, call, left, crashed>>

Lock(c) ==
  /\ readers = {}
  /\ Go(c, "wait", "lookup")
  /\ UNCHANGED <<plugins, writer, readers, call, left, crashed>>

\* Mutant: the registry is unlocked between the lookup and the append.
LookupUnlocks(c) ==
  \/ /\ Go(c, "lookup", IF Registered(call[c].plugin) THEN "idle" ELSE "append")
     /\ writer' = NoOne
     /\ UNCHANGED <<plugins, readers, call, left, crashed>>
  \/ plugins # <<>> /\ Crash(c, "lookup")

\* The loop over d.plugins calls Name() of the registered plugins under the
\* lock; the return of the error runs the deferred Unlock.
Lookup(c) ==
  \/ /\ IF Registered(call[c].plugin)
        THEN Go(c, "lookup", "idle") /\ writer' = NoOne
        ELSE Go(c, "lookup", "append") /\ UNCHANGED writer
     /\ UNCHANGED <<plugins, readers, call, left, crashed>>
  \/ plugins # <<>> /\ Crash(c, "lookup")

\* The append and the deferred Unlock.
AppendPlugin(c) ==
  /\ plugins' = Append(plugins, call[c].plugin)
  /\ writer' = NoOne
  /\ Go(c, "append", "idle")
  /\ UNCHANGED <<readers, call, left, crashed>>

-----------------------------------------------------------------------------
(***************************************************************************)
(* Plugins and the copy at the start of runPlugins                         *)
(***************************************************************************)
List(c) ==
  /\ Begin(c, [NoCall EXCEPT !.op = "Plugins"])
  /\ Go(c, "idle", "rlock")
  /\ UNCHANGED <<plugins, writer, readers, crashed>>

RLock(c) ==
  /\ writer = NoOne
  /\ readers' = readers \union {c}
  /\ \/ Go(c, "rlock", "copy")
     \/ Go(c, "reenter", "inside")
  /\ UNCHANGED <<plugins, writer, call, left, crashed>>

\* Mutant: the lock for reading is never given back.
NeverRUnlock(c) == UNCHANGED readers

RUnlock(c) == readers' = readers \ {c}

\* Mutant: the last plugin is not copied.
CopiedShort == SubSeq(plugins, 1, Len(plugins) - 1)

Copied == plugins

\* make, copy and RUnlock.
Copy(c) ==
  /\ call' = [call EXCEPT ![c].snapshot = Copied]
  /\ RUnlock(c)
  /\ Go(c, "copy", IF call[c].op = "Scan" THEN "plugins" ELSE "idle")
  /\ UNCHANGED <<plugins, writer, left, crashed>>

-----------------------------------------------------------------------------
(***************************************************************************)
(* Scan                                                                    *)
(***************************************************************************)
\* An empty text or a context already cancelled: nothing is looked at.
ScanNothing(c, text) ==
  /\ Begin(c, [NoCall EXCEPT !.op = "Skipped", !.text = text,
                             !.result.text = text])
  /\ Go(c, "idle", "idle")
  /\ UNCHANGED <<plugins, writer, readers, crashed>>

Scan(c, text) ==
  /\ text # <<>>
  /\ Begin(c, [NoCall EXCEPT !.op = "Scan", !.text = text,
                             !.found = runBuiltins(text, Config.enabled)])
  /\ Go(c, "idle", "rlock")
  /\ UNCHANGED <<plugins, writer, readers, crashed>>

Turn(c) == call[c].snapshot[call[c].next]

\* safePluginCall of a plugin that returns.
Detect(c) ==
  /\ call[c].next <= Len(call[c].snapshot)
  /\ Go(c, "plugins", IF Turn(c).reenters THEN "reenter" ELSE "confidence")
  /\ call' = [call EXCEPT ![c].matches = Turn(c).hits]
  /\ UNCHANGED <<plugins, writer, readers, left, crashed>>

\* Mutant: what was found so far is lost too.
WithoutAnyMatches(k) ==
  [k EXCEPT !.matches = {}, !.found = {}, !.quiet = @ \union {k.next}]

\* The deferred function sets the matches to nil.
WithoutMatches(k) == [k EXCEPT !.matches = {}, !.quiet = @ \union {k.next}]

\* safePluginCall of a plugin that panics.
DetectPanics(c) ==
  /\ "Detect" \in Panicking
  /\ call[c].next <= Len(call[c].snapshot)
  /\ Go(c, "plugins", "confidence")
  /\ call' = [call EXCEPT ![c] = WithoutMatches(@)]
  /\ UNCHANGED <<plugins, writer, readers, left, crashed>>

\* The call of d.Plugins() inside Detect, which drops its snapshot.
Reentered(c) ==
  /\ RUnlock(c)
  /\ Go(c, "inside", "confidence")
  /\ UNCHANGED <<plugins, writer, call, left, crashed>>

\* The accepted matches are appended, and it is the turn of the next plugin.
Collected(k) ==
  [k EXCEPT
     !.found = @ \union Contribution(k.snapshot[k.next], k.matches, k.text),
     !.matches = {},
     !.next = @ + 1]

\* p.Confidence() and p.Name() are called outside the recover.
Collect(c) ==
  \/ /\ Go(c, "confidence", "plugins")
     /\ call' = [call EXCEPT ![c] = Collected(@)]
     /\ UNCHANGED <<plugins, writer, readers, left, crashed>>
  \/ Crash(c, "confidence")

\* The name pass, the arbitration, the blocking and the anonymization.
Finish(c) ==
  /\ call[c].next > Len(call[c].snapshot)
  /\ Go(c, "plugins", "idle")
  /\ LET text == call[c].text
         resolved == resolveOverlaps(SetToSeq(call[c].found \union Names(text)))
     IN  call' = [call EXCEPT ![c].result =
           [detections |-> ToSet(resolved),
            text |-> IF Config.AnonymizeOutput THEN Anonymize(text, resolved)
                     ELSE text,
            reason |-> applyBlocking(ToSet(resolved))]]
  /\ UNCHANGED <<plugins, writer, readers, left, crashed>>

-----------------------------------------------------------------------------
\* A goroutine inside a call.
Step(c) ==
  \/ Validate(c) \/ Announce(c) \/ Lock(c) \/ Lookup(c) \/ AppendPlugin(c)
  \/ RLock(c) \/ Copy(c)
  \/ Detect(c) \/ DetectPanics(c) \/ Reentered(c) \/ Collect(c) \/ Finish(c)

\* The program calls the detector.
Invoke(c) ==
  \/ \E p \in Plugins : Register(c, p)
  \/ List(c)
  \/ \E text \in Texts : ScanNothing(c, text) \/ Scan(c, text)

\* Every call has returned, or the process has ended.
Finished ==
  /\ crashed \/ \A c \in Callers : pc[c] = "idle" /\ left[c] = 0
  /\ UNCHANGED vars

Next == (\E c \in Callers : Step(c) \/ Invoke(c)) \/ Finished

Spec == Init /\ [][Next]_vars

\* Inside a call and not waiting for the lock: what ENABLED Step(c) comes to.
CanGoOn(c) ==
  /\ ~ crashed /\ pc[c] # "idle"
  /\ pc[c] \in {"lock", "rlock", "reenter"} => writer = NoOne
  /\ pc[c] = "wait" => readers = {}

\* The scheduler runs every goroutine that is inside a call and can go on:
\* WF_vars(Step(c)), written out because TLC would compute the result of a
\* scan to see whether Finish is enabled.
FairSpec ==
  Spec /\ \A c \in Callers : []<>(~ CanGoOn(c)) \/ []<><<Step(c)>>_vars

-----------------------------------------------------------------------------
(***************************************************************************)
(* Properties                                                              *)
(***************************************************************************)
Returned(c) == pc[c] = "idle" /\ call[c].op = "Scan"
Detections(c) == call[c].result.detections

\* Goroutines that register at the same time never both get in with one
\* trimmed name, the lookup and the append being one critical section
\* (engine.go:64-71).  Left out are names behind a plugin that was registered
\* with blanks around its name: the lookup compares its name as it is with the
\* trimmed new one (engine.go:67), and lets a second one in.
NamesStayUnique ==
  \A i, j \in DOMAIN plugins :
    i < j /\ TrimSpace(plugins[i].name) = TrimSpace(plugins[j].name) =>
      plugins[i].name # TrimSpace(plugins[i].name)

\* A scan works with the registry as it was at one moment after it was
\* called: every plugin whose registration had returned by then takes part,
\* and a registration during the scan never changes the copy
\* (engine.go:172-175).
SnapshotIsCurrent ==
  \A c \in Callers :
    call[c].op \in {"Scan", "Plugins"} /\ pc[c] \notin {"rlock", "copy"} =>
      /\ IsPrefix(call[c].snapshot, plugins)
      /\ Len(call[c].snapshot) >= call[c].began

\* A plugin whose Detect panics costs a scan its own matches and nothing
\* else: the result arbitrates what the matchers, the name pass and all other
\* plugins of the copy reported (engine.go:103-105, 197-198).
PanicsAreIsolated ==
  \A c \in Callers : Returned(c) =>
    LET all == runBuiltins(call[c].text, Config.enabled)
               \union Names(call[c].text)
               \union UNION { Contribution(call[c].snapshot[i],
                                          call[c].snapshot[i].hits,
                                          call[c].text) :
                               i \in DOMAIN call[c].snapshot \ call[c].quiet }
    IN  Arbitrates(Detections(c), all)

\* Whatever spans the plugins return, the detections lie in the text and
\* share no byte, so text[Start:End] never panics (engine.go:181,
\* property_test.go:10).
SpansAreSound ==
  \A c \in Callers : Returned(c) =>
    /\ \A d \in Detections(c) :
         0 <= d.start /\ d.start < d.end /\ d.end <= Len(call[c].text)
    /\ PairwiseDisjoint(Detections(c))

\* The anonymized text is the text with each detected span, and nothing but
\* the detected spans, behind one placeholder of its own type, numbered in
\* reading order (anonymizer.go:7-11).
NothingElseIsReplaced ==
  \A c \in Callers : Returned(c) /\ Config.AnonymizeOutput =>
    LET text == call[c].text
        Until(d) == { e \in Detections(c) : e.type = d.type /\ e.start <= d.start }
        Piece(i) ==
          IF \E d \in Detections(c) : d.start = i - 1
          THEN LET d == CHOOSE e \in Detections(c) : e.start = i - 1 IN
               <<[Word EXCEPT !.label = <<"placeholder", d.type,
                    IF d.type \in {TypeContractRef, TypeClientID} THEN 0
                    ELSE Cardinality(Until(d))>>,
                              !.glued = TRUE, !.name = "capital",
                              !.shows = ShownBy(d.type)]>>
          ELSE IF \E d \in Detections(c) : d.start < i /\ i <= d.end
          THEN <<>> ELSE <<text[i]>>
    IN  call[c].result.text = FlattenSeq([i \in DOMAIN text |-> Piece(i)])

\* Every call returns, also when Detect calls back into the detector while
\* another goroutine waits to register (engine.go:171-175), unless a panic
\* outside the recover ends the process first.
CallsReturn ==
  \A c \in Callers : pc[c] # "idle" ~> pc[c] = "idle" \/ crashed

(***************************************************************************)
(* What the documentation says and the code does not do                    *)
(***************************************************************************)
\* With BlockOnSecrets a scan is blocked "when API keys or tokens are found"
\* (README.md:216).
FoundSecretsBlock ==
  \A c \in Callers :
    /\ Returned(c) /\ Config.BlockOnSecrets
    /\ \E d \in runBuiltins(call[c].text, Config.enabled) : d.type \in Secrets
    => call[c].result.reason # "none"
=============================================================================
