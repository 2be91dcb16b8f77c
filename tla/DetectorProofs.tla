--------------------------- MODULE DetectorProofs ---------------------------
(***************************************************************************)
(* The registry under any number of goroutines and calls: Register keeps   *)
(* names apart because the lookup and the append happen under one lock,    *)
(* and what a scan copied stays a prefix of the registry.                  *)
(***************************************************************************)
EXTENDS Detector, ScanProofs

Fields == {"op", "plugin", "text", "found", "snapshot", "next", "matches",
           "quiet", "began", "result"}

\* Every call record has its fields.
Shaped ==
  /\ DOMAIN call = Callers
  /\ \A c \in Callers : DOMAIN call[c] = Fields

\* Whoever waits for the lock or holds it is the writer.
WriterLocks ==
  \A c \in Callers : pc[c] \in {"wait", "lookup", "append"} => writer = c

\* A plugin on its way into the registry is one of the plugins.
PluginKnown ==
  \A c \in Callers :
    pc[c] \in {"validate", "lock", "wait", "lookup", "append"} =>
      call[c].plugin \in Plugins

\* The lookup still holds when the append is made.
LookupHolds ==
  \A c \in Callers : pc[c] = "append" =>
    \A i \in DOMAIN plugins : plugins[i].name # TrimSpace(call[c].plugin.name)

\* No call began with more registrations than there are, and what is copied
\* is a prefix, not shorter than the registry was when the call began.
CopyIsCurrent ==
  \A c \in Callers :
    /\ call[c].began \in 0..Len(plugins)
    /\ IsPrefix(call[c].snapshot, plugins)
    /\ call[c].op \in {"Scan", "Plugins"} /\ pc[c] \notin {"rlock", "copy"} =>
         Len(call[c].snapshot) >= call[c].began

RegistryInv ==
  /\ TypeOK
  /\ Shaped
  /\ WriterLocks
  /\ PluginKnown
  /\ LookupHolds
  /\ CopyIsCurrent
  /\ NamesStayUnique

-----------------------------------------------------------------------------
(***************************************************************************)
(* What the actions do to the registry and to the calls                    *)
(***************************************************************************)
\* The part of a call the invariant looks at.
Same(c) ==
  /\ call'[c].plugin = call[c].plugin
  /\ call'[c].snapshot = call[c].snapshot
  /\ call'[c].began = call[c].began
  /\ call'[c].op = call[c].op
  /\ DOMAIN call'[c] = DOMAIN call[c]

\* Only goroutine c moves.
OnlyMoves(c) ==
  /\ DOMAIN call' = Callers
  /\ \A d \in Callers \ {c} : pc'[d] = pc[d] /\ Same(d)

LEMMA GoMoves ==
  ASSUME TypeOK, NEW c \in Callers, NEW from, NEW to, Go(c, from, to),
         to \in {"idle", "validate", "lock", "wait", "lookup", "append",
                 "rlock", "copy", "plugins", "reenter", "inside",
                 "confidence"}
  PROVE  /\ pc[c] = from /\ pc'[c] = to
         /\ \A d \in Callers \ {c} : pc'[d] = pc[d]
         /\ pc' \in [Callers -> {"idle", "validate", "lock", "wait", "lookup",
                                 "append", "rlock", "copy", "plugins",
                                 "reenter", "inside", "confidence"}]
BY DEF TypeOK, Go

\* A prefix of the registry is a prefix of the longer one.
LEMMA PrefixOfAppend ==
  ASSUME NEW S, NEW s \in Seq(S), NEW t \in Seq(S), NEW e \in S, IsPrefix(s, t)
  PROVE  IsPrefix(s, Append(t, e))
<1>1. /\ Len(s) \in Nat /\ Len(t) \in Nat /\ Len(s) <= Len(t)
      /\ SubSeq(s, 1, Len(s)) = SubSeq(t, 1, Len(s))
  BY DEF IsPrefix
<1>2. /\ Append(t, e) \in Seq(S) /\ Len(Append(t, e)) = Len(t) + 1
      /\ \A i \in 1..Len(t) : Append(t, e)[i] = t[i]
  BY AppendProperties
<1>3. SubSeq(Append(t, e), 1, Len(s)) = SubSeq(t, 1, Len(s))
  <2>1. \A i \in 1..Len(s) : Append(t, e)[i] = t[i]
    BY <1>1, <1>2
  <2> QED BY <1>1, <1>2, <2>1
<1> QED BY <1>1, <1>2, <1>3 DEF IsPrefix

LEMMA PrefixOfItself ==
  ASSUME NEW S, NEW s \in Seq(S)
  PROVE  IsPrefix(s, s) /\ IsPrefix(<<>>, s)
BY DEF IsPrefix

-----------------------------------------------------------------------------
(***************************************************************************)
(* Steps that leave the registry alone                                     *)
(***************************************************************************)
Registering == {"validate", "lock", "wait", "lookup", "append"}

\* A step of c that keeps the registry and what the invariant knows of calls.
LEMMA FrameKeepsInv ==
  ASSUME RegistryInv, NEW c \in Callers,
         plugins' = plugins, TypeOK', WriterLocks', OnlyMoves(c), Same(c),
         pc'[c] \in Registering => pc[c] \in Registering,
         pc'[c] = "append" => ~ Registered(call[c].plugin),
         pc'[c] \notin {"rlock", "copy"} => pc[c] \notin {"rlock", "copy"}
  PROVE  RegistryInv'
<1>1. \A d \in Callers : Same(d) /\ (d # c => pc'[d] = pc[d])
  BY DEF OnlyMoves
<1>2. Shaped'
  BY <1>1 DEF RegistryInv, Shaped, Same, OnlyMoves
<1>3. PluginKnown'
  BY <1>1 DEF RegistryInv, PluginKnown, Same, Registering
<1>4. LookupHolds'
  BY <1>1 DEF RegistryInv, LookupHolds, Same, Registered
<1>5. CopyIsCurrent'
  <2> SUFFICES ASSUME NEW d \in Callers
               PROVE  /\ call'[d].began \in 0..Len(plugins')
                      /\ IsPrefix(call'[d].snapshot, plugins')
                      /\ call'[d].op \in {"Scan", "Plugins"}
                           /\ pc'[d] \notin {"rlock", "copy"} =>
                           Len(call'[d].snapshot) >= call'[d].began
    BY DEF CopyIsCurrent
  <2>1. /\ call[d].began \in 0..Len(plugins)
        /\ IsPrefix(call[d].snapshot, plugins)
        /\ call[d].op \in {"Scan", "Plugins"} /\ pc[d] \notin {"rlock", "copy"} =>
             Len(call[d].snapshot) >= call[d].began
    BY DEF RegistryInv, CopyIsCurrent
  <2> QED BY <2>1, <1>1 DEF Same
<1>6. NamesStayUnique'
  BY DEF RegistryInv, NamesStayUnique
<1> QED BY <1>2, <1>3, <1>4, <1>5, <1>6 DEF RegistryInv

\* The same for steps that leave every call alone as well.
LEMMA CallsUnchanged ==
  ASSUME Shaped, NEW c \in Callers, call' = call,
         \A d \in Callers \ {c} : pc'[d] = pc[d]
  PROVE  OnlyMoves(c) /\ Same(c)
BY DEF Shaped, OnlyMoves, Same

\* The same for steps that replace fields the invariant does not look at.
LEMMA OtherFields ==
  ASSUME Shaped, NEW c \in Callers, NEW r, call' = [call EXCEPT ![c] = r],
         r.plugin = call[c].plugin, r.snapshot = call[c].snapshot,
         r.began = call[c].began, r.op = call[c].op, DOMAIN r = Fields,
         \A d \in Callers \ {c} : pc'[d] = pc[d]
  PROVE  OnlyMoves(c) /\ Same(c) /\ call'[c] = r
BY DEF Shaped, OnlyMoves, Same

\* The end of the process leaves everything else as it was.
LEMMA CrashKeepsInv ==
  ASSUME RegistryInv, NEW c \in Callers, NEW from, Crash(c, from)
  PROVE  RegistryInv'
<1>1. UNCHANGED <<plugins, writer, readers, pc, call, left>> /\ crashed' = TRUE
  BY DEF Crash
<1>2. TypeOK'
  BY <1>1 DEF RegistryInv, TypeOK
<1> QED BY <1>1, <1>2 DEF RegistryInv, Shaped, WriterLocks, PluginKnown,
                        LookupHolds, CopyIsCurrent, NamesStayUnique

LEMMA ValidateKeepsInv ==
  ASSUME RegistryInv, NEW c \in Callers, Validate(c)
  PROVE  RegistryInv'
<1>1. CASE Crash(c, "validate")
  BY <1>1, CrashKeepsInv
<1>2. CASE ~ Crash(c, "validate")
  <2> DEFINE to == IF Refused(call[c].plugin) THEN "idle" ELSE "lock"
  <2>1. /\ Go(c, "validate", to) /\ to \in {"idle", "lock"}
        /\ UNCHANGED <<plugins, writer, readers, call, left, crashed>>
    BY <1>2 DEF Validate
  <2>2. /\ pc[c] = "validate" /\ pc'[c] = to
        /\ \A d \in Callers \ {c} : pc'[d] = pc[d]
        /\ TypeOK'
    BY <2>1, GoMoves DEF RegistryInv, TypeOK
  <2>3. WriterLocks'
    BY <2>1, <2>2 DEF RegistryInv, WriterLocks
  <2>4. OnlyMoves(c) /\ Same(c)
    BY <2>1, <2>2, CallsUnchanged DEF RegistryInv
  <2> QED BY <2>1, <2>2, <2>3, <2>4, FrameKeepsInv DEF Registering
<1> QED BY <1>1, <1>2

LEMMA AnnounceKeepsInv ==
  ASSUME RegistryInv, NEW c \in Callers, Announce(c)
  PROVE  RegistryInv'
<1>1. /\ Go(c, "lock", "wait") /\ writer = NoOne /\ writer' = c
      /\ UNCHANGED <<plugins, readers, call, left, crashed>>
  BY DEF Announce
<1>2. /\ pc[c] = "lock" /\ pc'[c] = "wait"
      /\ \A d \in Callers \ {c} : pc'[d] = pc[d]
      /\ TypeOK'
  BY <1>1, GoMoves DEF RegistryInv, TypeOK
<1>3. WriterLocks'
  BY <1>1, <1>2, DetectorAssumption DEF RegistryInv, WriterLocks
<1>4. OnlyMoves(c) /\ Same(c)
  BY <1>1, <1>2, CallsUnchanged DEF RegistryInv
<1> QED BY <1>1, <1>2, <1>3, <1>4, FrameKeepsInv DEF Registering

LEMMA LockKeepsInv ==
  ASSUME RegistryInv, NEW c \in Callers, Lock(c)
  PROVE  RegistryInv'
<1>1. /\ Go(c, "wait", "lookup")
      /\ UNCHANGED <<plugins, writer, readers, call, left, crashed>>
  BY DEF Lock
<1>2. /\ pc[c] = "wait" /\ pc'[c] = "lookup"
      /\ \A d \in Callers \ {c} : pc'[d] = pc[d]
      /\ TypeOK'
  BY <1>1, GoMoves DEF RegistryInv, TypeOK
<1>3. WriterLocks'
  BY <1>1, <1>2 DEF RegistryInv, WriterLocks
<1>4. OnlyMoves(c) /\ Same(c)
  BY <1>1, <1>2, CallsUnchanged DEF RegistryInv
<1> QED BY <1>1, <1>2, <1>3, <1>4, FrameKeepsInv DEF Registering

LEMMA LookupKeepsInv ==
  ASSUME RegistryInv, NEW c \in Callers, Lookup(c)
  PROVE  RegistryInv'
<1>1. CASE Crash(c, "lookup")
  BY <1>1, CrashKeepsInv
<1>2. CASE ~ Crash(c, "lookup") /\ Registered(call[c].plugin)
  <2>1. /\ Go(c, "lookup", "idle") /\ writer' = NoOne
        /\ UNCHANGED <<plugins, readers, call, left, crashed>>
    BY <1>2 DEF Lookup
  <2>2. /\ pc[c] = "lookup" /\ pc'[c] = "idle"
        /\ \A d \in Callers \ {c} : pc'[d] = pc[d]
        /\ TypeOK'
    BY <2>1, GoMoves DEF RegistryInv, TypeOK
  <2>3. WriterLocks'
    BY <2>1, <2>2 DEF RegistryInv, WriterLocks
  <2>4. OnlyMoves(c) /\ Same(c)
    BY <2>1, <2>2, CallsUnchanged DEF RegistryInv
  <2> QED BY <2>1, <2>2, <2>3, <2>4, FrameKeepsInv DEF Registering
<1>3. CASE ~ Crash(c, "lookup") /\ ~ Registered(call[c].plugin)
  <2>1. /\ Go(c, "lookup", "append") /\ writer' = writer
        /\ UNCHANGED <<plugins, readers, call, left, crashed>>
    BY <1>3 DEF Lookup
  <2>2. /\ pc[c] = "lookup" /\ pc'[c] = "append"
        /\ \A d \in Callers \ {c} : pc'[d] = pc[d]
        /\ TypeOK'
    BY <2>1, GoMoves DEF RegistryInv, TypeOK
  <2>3. WriterLocks'
    BY <2>1, <2>2 DEF RegistryInv, WriterLocks
  <2>4. OnlyMoves(c) /\ Same(c)
    BY <2>1, <2>2, CallsUnchanged DEF RegistryInv
  <2> QED BY <1>3, <2>1, <2>2, <2>3, <2>4, FrameKeepsInv DEF Registering
<1> QED BY <1>1, <1>2, <1>3

LEMMA RLockKeepsInv ==
  ASSUME RegistryInv, NEW c \in Callers, RLock(c)
  PROVE  RegistryInv'
<1>1. /\ writer = NoOne /\ readers' = readers \union {c}
      /\ UNCHANGED <<plugins, writer, call, left, crashed>>
      /\ Go(c, "rlock", "copy") \/ Go(c, "reenter", "inside")
  BY DEF RLock
<1>2. /\ \/ pc[c] = "rlock" /\ pc'[c] = "copy"
         \/ pc[c] = "reenter" /\ pc'[c] = "inside"
      /\ \A d \in Callers \ {c} : pc'[d] = pc[d]
      /\ pc' \in [Callers -> {"idle", "validate", "lock", "wait", "lookup",
                              "append", "rlock", "copy", "plugins",
                              "reenter", "inside", "confidence"}]
  <2>1. CASE Go(c, "rlock", "copy")
    BY <2>1, GoMoves DEF RegistryInv
  <2>2. CASE Go(c, "reenter", "inside")
    BY <2>2, GoMoves DEF RegistryInv
  <2> QED BY <1>1, <2>1, <2>2
<1>3. TypeOK'
  BY <1>1, <1>2 DEF RegistryInv, TypeOK
<1>4. WriterLocks'
  BY <1>1, <1>2 DEF RegistryInv, WriterLocks
<1>5. OnlyMoves(c) /\ Same(c)
  BY <1>1, <1>2, CallsUnchanged DEF RegistryInv
<1> QED BY <1>1, <1>2, <1>3, <1>4, <1>5, FrameKeepsInv DEF Registering

-----------------------------------------------------------------------------
(***************************************************************************)
(* The steps of a scan after the copy                                      *)
(***************************************************************************)
\* Such a step rewrites fields the invariant does not look at.
LEMMA ScanStepKeepsInv ==
  ASSUME RegistryInv, NEW c \in Callers, NEW r, NEW to, NEW from,
         plugins' = plugins, writer' = writer, readers' \subseteq Callers,
         left' = left, crashed' = crashed,
         call' = [call EXCEPT ![c] = r],
         r.plugin = call[c].plugin, r.snapshot = call[c].snapshot,
         r.began = call[c].began, r.op = call[c].op, DOMAIN r = Fields,
         from \in {"plugins", "inside", "confidence"},
         to \in {"idle", "plugins", "reenter", "confidence"},
         Go(c, from, to)
  PROVE  RegistryInv'
<1>1. /\ pc[c] = from /\ pc'[c] = to
      /\ \A d \in Callers \ {c} : pc'[d] = pc[d]
      /\ pc' \in [Callers -> {"idle", "validate", "lock", "wait", "lookup",
                              "append", "rlock", "copy", "plugins",
                              "reenter", "inside", "confidence"}]
  BY GoMoves DEF RegistryInv
<1>2. OnlyMoves(c) /\ Same(c)
  BY <1>1, OtherFields DEF RegistryInv
<1>3. \A d \in Callers : call'[d].snapshot = call[d].snapshot
  BY <1>2 DEF OnlyMoves, Same
<1>4. TypeOK'
  BY <1>1, <1>3 DEF RegistryInv, TypeOK
<1>5. WriterLocks'
  BY <1>1 DEF RegistryInv, WriterLocks
<1> QED BY <1>1, <1>2, <1>4, <1>5, FrameKeepsInv DEF Registering

LEMMA DetectKeepsInv ==
  ASSUME RegistryInv, NEW c \in Callers, Detect(c)
  PROVE  RegistryInv'
<1> DEFINE to == IF Turn(c).reenters THEN "reenter" ELSE "confidence"
           r == [call[c] EXCEPT !.matches = Turn(c).hits]
<1>1. /\ Go(c, "plugins", to) /\ to \in {"reenter", "confidence"}
      /\ UNCHANGED <<plugins, writer, readers, left, crashed>>
      /\ call' = [call EXCEPT ![c] = r]
  BY DEF Detect
<1>2. /\ r.plugin = call[c].plugin /\ r.snapshot = call[c].snapshot
      /\ r.began = call[c].began /\ r.op = call[c].op /\ DOMAIN r = Fields
      /\ readers \subseteq Callers
  BY DEF RegistryInv, Shaped, TypeOK, Fields
<1> HIDE DEF r, to
<1> QED BY <1>1, <1>2, ScanStepKeepsInv

LEMMA DetectPanicsKeepsInv ==
  ASSUME RegistryInv, NEW c \in Callers, DetectPanics(c)
  PROVE  RegistryInv'
<1> DEFINE r == WithoutMatches(call[c])
<1>1. /\ Go(c, "plugins", "confidence")
      /\ UNCHANGED <<plugins, writer, readers, left, crashed>>
      /\ call' = [call EXCEPT ![c] = r]
  BY DEF DetectPanics
<1>2. /\ r.plugin = call[c].plugin /\ r.snapshot = call[c].snapshot
      /\ r.began = call[c].began /\ r.op = call[c].op /\ DOMAIN r = Fields
      /\ readers \subseteq Callers
  BY DEF RegistryInv, Shaped, TypeOK, Fields, WithoutMatches
<1> HIDE DEF r
<1> QED BY <1>1, <1>2, ScanStepKeepsInv

LEMMA CollectKeepsInv ==
  ASSUME RegistryInv, NEW c \in Callers, Collect(c)
  PROVE  RegistryInv'
<1>1. CASE Crash(c, "confidence")
  BY <1>1, CrashKeepsInv
<1>2. CASE ~ Crash(c, "confidence")
  <2> DEFINE r == Collected(call[c])
  <2>1. /\ Go(c, "confidence", "plugins")
        /\ UNCHANGED <<plugins, writer, readers, left, crashed>>
        /\ call' = [call EXCEPT ![c] = r]
    BY <1>2 DEF Collect
  <2>2. /\ r.plugin = call[c].plugin /\ r.snapshot = call[c].snapshot
        /\ r.began = call[c].began /\ r.op = call[c].op /\ DOMAIN r = Fields
        /\ readers \subseteq Callers
    BY DEF RegistryInv, Shaped, TypeOK, Fields, Collected
  <2> HIDE DEF r
  <2> QED BY <2>1, <2>2, ScanStepKeepsInv
<1> QED BY <1>1, <1>2

LEMMA FinishKeepsInv ==
  ASSUME RegistryInv, NEW c \in Callers, Finish(c)
  PROVE  RegistryInv'
<1>1. PICK v :
        /\ Go(c, "plugins", "idle")
        /\ UNCHANGED <<plugins, writer, readers, left, crashed>>
        /\ call' = [call EXCEPT ![c].result = v]
  BY DEF Finish
<1> DEFINE r == [call[c] EXCEPT !.result = v]
<1>2. call' = [call EXCEPT ![c] = r]
  BY <1>1
<1>3. /\ r.plugin = call[c].plugin /\ r.snapshot = call[c].snapshot
      /\ r.began = call[c].began /\ r.op = call[c].op /\ DOMAIN r = Fields
      /\ readers \subseteq Callers
  BY DEF RegistryInv, Shaped, TypeOK, Fields
<1> HIDE DEF r
<1> QED BY <1>1, <1>2, <1>3, ScanStepKeepsInv

LEMMA ReenteredKeepsInv ==
  ASSUME RegistryInv, NEW c \in Callers, Reentered(c)
  PROVE  RegistryInv'
<1>1. /\ Go(c, "inside", "confidence")
      /\ UNCHANGED <<plugins, writer, call, left, crashed>>
      /\ readers' = readers \ {c} /\ readers \subseteq Callers
  BY DEF Reentered, RUnlock, RegistryInv, TypeOK
<1>2. /\ pc[c] = "inside" /\ pc'[c] = "confidence"
      /\ \A d \in Callers \ {c} : pc'[d] = pc[d]
      /\ TypeOK'
  BY <1>1, GoMoves DEF RegistryInv, TypeOK
<1>3. WriterLocks'
  BY <1>1, <1>2 DEF RegistryInv, WriterLocks
<1>4. OnlyMoves(c) /\ Same(c)
  BY <1>1, <1>2, CallsUnchanged DEF RegistryInv
<1> QED BY <1>1, <1>2, <1>3, <1>4, FrameKeepsInv DEF Registering

-----------------------------------------------------------------------------
(***************************************************************************)
(* The start of a call, the copy and the append                            *)
(***************************************************************************)
\* A new call: nothing copied yet, the length of the registry remembered.
LEMMA BeginKeepsInv ==
  ASSUME RegistryInv, NEW c \in Callers, NEW op, NEW to,
         Begin(c, op), Go(c, "idle", to),
         UNCHANGED <<plugins, writer, readers, crashed>>,
         DOMAIN op = Fields, op.snapshot = <<>>,
         to \in {"idle", "validate", "rlock"},
         to = "validate" => op.plugin \in Plugins,
         op.op \in {"Scan", "Plugins"} => to = "rlock"
  PROVE  RegistryInv'
<1> DEFINE r == [op EXCEPT !.began = Len(plugins)]
<1>1. /\ pc[c] = "idle" /\ pc'[c] = to
      /\ \A d \in Callers \ {c} : pc'[d] = pc[d]
      /\ pc' \in [Callers -> {"idle", "validate", "lock", "wait", "lookup",
                              "append", "rlock", "copy", "plugins",
                              "reenter", "inside", "confidence"}]
  BY GoMoves DEF RegistryInv
<1>2. /\ call' = [call EXCEPT ![c] = r] /\ left' = [left EXCEPT ![c] = @ - 1]
      /\ left[c] > 0
  BY DEF Begin
<1>3. /\ r.plugin = op.plugin /\ r.snapshot = <<>> /\ r.op = op.op
      /\ r.began = Len(plugins) /\ DOMAIN r = Fields
  BY DEF Fields
<1> HIDE DEF r
<1>4. /\ call'[c] = r /\ DOMAIN call' = Callers
      /\ \A d \in Callers \ {c} : call'[d] = call[d]
  BY <1>2 DEF RegistryInv, Shaped
<1>5. TypeOK'
  <2>1. \A d \in Callers : call'[d].snapshot \in Seq(Plugins)
    <3>1. <<>> \in Seq(Plugins)
      OBVIOUS
    <3>2. call'[c].snapshot \in Seq(Plugins)
      BY <1>3, <1>4, <3>1
    <3>3. \A d \in Callers \ {c} : call'[d].snapshot \in Seq(Plugins)
      BY <1>4 DEF RegistryInv, TypeOK
    <3> QED BY <3>2, <3>3
  <2>2. left' \in [Callers -> 0..Calls]
    BY <1>2, DetectorAssumption DEF RegistryInv, TypeOK
  <2> QED BY <1>1, <2>1, <2>2 DEF RegistryInv, TypeOK
<1>6. Shaped'
  BY <1>3, <1>4 DEF RegistryInv, Shaped
<1>7. WriterLocks'
  BY <1>1 DEF RegistryInv, WriterLocks
<1>8. PluginKnown'
  BY <1>1, <1>3, <1>4 DEF RegistryInv, PluginKnown
<1>9. LookupHolds'
  BY <1>1, <1>4 DEF RegistryInv, LookupHolds
<1>10. CopyIsCurrent'
  <2> SUFFICES ASSUME NEW d \in Callers
               PROVE  /\ call'[d].began \in 0..Len(plugins')
                      /\ IsPrefix(call'[d].snapshot, plugins')
                      /\ call'[d].op \in {"Scan", "Plugins"}
                           /\ pc'[d] \notin {"rlock", "copy"} =>
                           Len(call'[d].snapshot) >= call'[d].began
    BY DEF CopyIsCurrent
  <2>1. CASE d = c
    <3>1. Len(plugins) \in Nat /\ IsPrefix(<<>>, plugins)
      BY PrefixOfItself DEF RegistryInv, TypeOK
    <3> QED BY <2>1, <3>1, <1>1, <1>3, <1>4
  <2>2. CASE d # c
    BY <2>2, <1>1, <1>4 DEF RegistryInv, CopyIsCurrent
  <2> QED BY <2>1, <2>2
<1>11. NamesStayUnique'
  BY DEF RegistryInv, NamesStayUnique
<1> QED BY <1>5, <1>6, <1>7, <1>8, <1>9, <1>10, <1>11 DEF RegistryInv

LEMMA InvokeKeepsInv ==
  ASSUME RegistryInv, NEW c \in Callers, Invoke(c)
  PROVE  RegistryInv'
<1>1. ASSUME NEW p \in Plugins, Register(c, p) PROVE RegistryInv'
  <2> DEFINE op == [NoCall EXCEPT !.op = "Register", !.plugin = p]
  <2>1. /\ op.plugin = p /\ op.snapshot = <<>> /\ op.op = "Register"
        /\ DOMAIN op = Fields
    BY DEF NoCall, Fields
  <2>2. /\ Begin(c, op) /\ Go(c, "idle", "validate")
        /\ UNCHANGED <<plugins, writer, readers, crashed>>
    BY <1>1 DEF Register
  <2> HIDE DEF op
  <2> QED BY <2>1, <2>2, BeginKeepsInv
<1>2. CASE List(c)
  <2> DEFINE op == [NoCall EXCEPT !.op = "Plugins"]
  <2>1. op.snapshot = <<>> /\ op.op = "Plugins" /\ DOMAIN op = Fields
    BY DEF NoCall, Fields
  <2>2. /\ Begin(c, op) /\ Go(c, "idle", "rlock")
        /\ UNCHANGED <<plugins, writer, readers, crashed>>
    BY <1>2 DEF List
  <2> HIDE DEF op
  <2> QED BY <2>1, <2>2, BeginKeepsInv
<1>3. ASSUME NEW t \in Texts, ScanNothing(c, t) PROVE RegistryInv'
  <2> DEFINE op == [NoCall EXCEPT !.op = "Skipped", !.text = t,
                                  !.result.text = t]
  <2>1. op.snapshot = <<>> /\ op.op = "Skipped" /\ DOMAIN op = Fields
    BY DEF NoCall, Fields
  <2>2. /\ Begin(c, op) /\ Go(c, "idle", "idle")
        /\ UNCHANGED <<plugins, writer, readers, crashed>>
    BY <1>3 DEF ScanNothing
  <2> HIDE DEF op
  <2> QED BY <2>1, <2>2, BeginKeepsInv
<1>4. ASSUME NEW t \in Texts, Scan(c, t) PROVE RegistryInv'
  <2> DEFINE op == [NoCall EXCEPT !.op = "Scan", !.text = t,
                                  !.found = runBuiltins(t, Config.enabled)]
  <2>1. op.snapshot = <<>> /\ op.op = "Scan" /\ DOMAIN op = Fields
    BY DEF NoCall, Fields
  <2>2. /\ Begin(c, op) /\ Go(c, "idle", "rlock")
        /\ UNCHANGED <<plugins, writer, readers, crashed>>
    BY <1>4 DEF Scan
  <2> HIDE DEF op
  <2> QED BY <2>1, <2>2, BeginKeepsInv
<1> QED BY <1>1, <1>2, <1>3, <1>4 DEF Invoke

LEMMA CopyKeepsInv ==
  ASSUME RegistryInv, NEW c \in Callers, Copy(c)
  PROVE  RegistryInv'
<1> DEFINE to == IF call[c].op = "Scan" THEN "plugins" ELSE "idle"
           r == [call[c] EXCEPT !.snapshot = plugins]
<1>1. /\ Go(c, "copy", to) /\ to \in {"plugins", "idle"}
      /\ UNCHANGED <<plugins, writer, left, crashed>>
      /\ readers' \subseteq Callers
      /\ call' = [call EXCEPT ![c] = r]
  BY DEF Copy, Copied, RUnlock, RegistryInv, TypeOK
<1>2. /\ r.plugin = call[c].plugin /\ r.snapshot = plugins
      /\ r.began = call[c].began /\ r.op = call[c].op /\ DOMAIN r = Fields
  BY DEF RegistryInv, Shaped, Fields
<1> HIDE DEF r, to
<1>3. /\ pc[c] = "copy" /\ pc'[c] = to
      /\ \A d \in Callers \ {c} : pc'[d] = pc[d]
      /\ pc' \in [Callers -> {"idle", "validate", "lock", "wait", "lookup",
                              "append", "rlock", "copy", "plugins",
                              "reenter", "inside", "confidence"}]
  BY <1>1, GoMoves DEF RegistryInv
<1>4. /\ call'[c] = r /\ DOMAIN call' = Callers
      /\ \A d \in Callers \ {c} : call'[d] = call[d]
  BY <1>1 DEF RegistryInv, Shaped
<1>5. TypeOK'
  <2>1. \A d \in Callers : call'[d].snapshot \in Seq(Plugins)
    BY <1>2, <1>4 DEF RegistryInv, TypeOK
  <2> QED BY <1>1, <1>3, <2>1 DEF RegistryInv, TypeOK
<1>6. Shaped'
  BY <1>2, <1>4 DEF RegistryInv, Shaped
<1>7. WriterLocks'
  BY <1>1, <1>3 DEF RegistryInv, WriterLocks
<1>8. PluginKnown'
  BY <1>1, <1>3, <1>4 DEF RegistryInv, PluginKnown
<1>9. LookupHolds'
  BY <1>1, <1>3, <1>4 DEF RegistryInv, LookupHolds
<1>10. CopyIsCurrent'
  <2>1. IsPrefix(plugins, plugins)
    BY PrefixOfItself DEF RegistryInv, TypeOK
  <2>2. call[c].began \in 0..Len(plugins) /\ Len(plugins) \in Nat
    BY DEF RegistryInv, TypeOK, CopyIsCurrent
  <2> QED BY <2>1, <2>2, <1>1, <1>2, <1>3, <1>4 DEF RegistryInv, CopyIsCurrent
<1>11. NamesStayUnique'
  BY <1>1 DEF RegistryInv, NamesStayUnique
<1> QED BY <1>5, <1>6, <1>7, <1>8, <1>9, <1>10, <1>11 DEF RegistryInv

\* The append: the lookup of this goroutine still holds, and nobody else is
\* between its lookup and its append.
LEMMA AppendKeepsInv ==
  ASSUME RegistryInv, NEW c \in Callers, AppendPlugin(c)
  PROVE  RegistryInv'
<1> DEFINE p == call[c].plugin
<1>1. /\ Go(c, "append", "idle") /\ writer' = NoOne
      /\ plugins' = Append(plugins, p)
      /\ UNCHANGED <<readers, call, left, crashed>>
  BY DEF AppendPlugin
<1>2. /\ pc[c] = "append" /\ pc'[c] = "idle"
      /\ \A d \in Callers \ {c} : pc'[d] = pc[d]
      /\ pc' \in [Callers -> {"idle", "validate", "lock", "wait", "lookup",
                              "append", "rlock", "copy", "plugins",
                              "reenter", "inside", "confidence"}]
  BY <1>1, GoMoves DEF RegistryInv
<1>3. /\ p \in Plugins /\ plugins \in Seq(Plugins)
      /\ \A i \in DOMAIN plugins : plugins[i].name # TrimSpace(p.name)
  BY <1>2 DEF RegistryInv, TypeOK, PluginKnown, LookupHolds
<1>4. /\ plugins' \in Seq(Plugins) /\ Len(plugins') = Len(plugins) + 1
      /\ \A i \in 1..Len(plugins) : plugins'[i] = plugins[i]
      /\ plugins'[Len(plugins) + 1] = p
      /\ DOMAIN plugins' = 1..(Len(plugins) + 1)
      /\ DOMAIN plugins = 1..Len(plugins) /\ Len(plugins) \in Nat
  BY <1>1, <1>3, AppendProperties
<1>5. \A d \in Callers \ {c} : pc[d] \notin {"wait", "lookup", "append"}
  BY <1>2 DEF RegistryInv, WriterLocks
<1>6. TypeOK'
  BY <1>1, <1>2, <1>4 DEF RegistryInv, TypeOK
<1>7. Shaped'
  BY <1>1 DEF RegistryInv, Shaped
<1>8. WriterLocks' /\ LookupHolds'
  BY <1>2, <1>5 DEF WriterLocks, LookupHolds
<1>9. PluginKnown'
  BY <1>1, <1>2 DEF RegistryInv, PluginKnown
<1>10. CopyIsCurrent'
  <2> SUFFICES ASSUME NEW d \in Callers
               PROVE  /\ call[d].began \in 0..Len(plugins')
                      /\ IsPrefix(call[d].snapshot, plugins')
                      /\ call[d].op \in {"Scan", "Plugins"}
                           /\ pc'[d] \notin {"rlock", "copy"} =>
                           Len(call[d].snapshot) >= call[d].began
    BY <1>1 DEF CopyIsCurrent
  <2>1. /\ call[d].began \in 0..Len(plugins)
        /\ IsPrefix(call[d].snapshot, plugins)
        /\ call[d].op \in {"Scan", "Plugins"} /\ pc[d] \notin {"rlock", "copy"} =>
             Len(call[d].snapshot) >= call[d].began
        /\ call[d].snapshot \in Seq(Plugins)
    BY DEF RegistryInv, CopyIsCurrent, TypeOK
  <2>2. IsPrefix(call[d].snapshot, plugins')
    BY <2>1, <1>1, <1>3, PrefixOfAppend
  <2>3. pc'[d] \notin {"rlock", "copy"} => pc[d] \notin {"rlock", "copy"}
    BY <1>2
  <2> QED BY <2>1, <2>2, <2>3, <1>4
<1>11. NamesStayUnique'
  <2> SUFFICES ASSUME NEW i \in 1..(Len(plugins) + 1),
                      NEW j \in 1..(Len(plugins) + 1), i < j,
                      TrimSpace(plugins'[i].name) = TrimSpace(plugins'[j].name)
               PROVE  plugins'[i].name # TrimSpace(plugins'[i].name)
    BY <1>4 DEF NamesStayUnique
  <2>1. i \in DOMAIN plugins /\ plugins'[i] = plugins[i]
    BY <1>4
  <2>2. CASE j \in DOMAIN plugins
    BY <2>1, <2>2, <1>4 DEF RegistryInv, NamesStayUnique
  <2>3. CASE j = Len(plugins) + 1
    BY <2>1, <2>3, <1>3, <1>4
  <2> QED BY <2>2, <2>3, <1>4
<1> QED BY <1>6, <1>7, <1>8, <1>9, <1>10, <1>11 DEF RegistryInv

-----------------------------------------------------------------------------
(***************************************************************************)
(* The findings of a scan                                                  *)
(***************************************************************************)
\* What the matchers found, and the first n plugins of the copy except those
\* that panicked.
SoFar(k, n) ==
  runBuiltins(k.text, Config.enabled)
    \union UNION { Contribution(k.snapshot[i], k.snapshot[i].hits, k.text) :
                     i \in (1..n) \ k.quiet }

Resolution(k) == resolveOverlaps(SetToSeq(k.found \union Names(k.text)))

\* The result of a scan that has returned.
Delivers(k) ==
  /\ k.result.detections = ToSet(Resolution(k))
  /\ k.result.text = IF Config.AnonymizeOutput
                     THEN Anonymize(k.text, Resolution(k)) ELSE k.text

\* A scan that has got to at has found what it should have by then.
ScanOk(k, at) ==
  k.op = "Scan" =>
    /\ k.text \in Texts
    /\ at \notin Registering
    /\ at \in {"rlock", "copy"} =>
         /\ k.next = 1 /\ k.quiet = {}
         /\ k.found = runBuiltins(k.text, Config.enabled)
    /\ at \in {"plugins", "idle"} =>
         /\ k.next \in 1..(Len(k.snapshot) + 1)
         /\ k.quiet \subseteq 1..(k.next - 1)
         /\ k.found = SoFar(k, k.next - 1)
    /\ at \in {"reenter", "inside", "confidence"} =>
         /\ k.next \in 1..Len(k.snapshot)
         /\ k.quiet \subseteq 1..k.next
         /\ k.found = SoFar(k, k.next - 1)
         /\ k.matches = IF k.next \in k.quiet THEN {}
                        ELSE k.snapshot[k.next].hits
    /\ at = "idle" => k.next = Len(k.snapshot) + 1 /\ Delivers(k)

ScanInv == \A c \in Callers : ScanOk(call[c], pc[c])

\* Only the call that moves has to be looked at.
LEMMA OneCallMoves ==
  ASSUME RegistryInv, ScanInv, NEW c \in Callers, NEW r, NEW from, NEW to,
         Go(c, from, to),
         to \in {"idle", "validate", "lock", "wait", "lookup", "append",
                 "rlock", "copy", "plugins", "reenter", "inside",
                 "confidence"},
         call'[c] = r, \A d \in Callers \ {c} : call'[d] = call[d],
         pc[c] = from /\ ScanOk(call[c], from) => ScanOk(r, to)
  PROVE  ScanInv'
<1>1. /\ pc[c] = from /\ pc'[c] = to
      /\ \A d \in Callers \ {c} : pc'[d] = pc[d]
  BY GoMoves DEF RegistryInv
<1>2. /\ call'[c] = r /\ \A d \in Callers \ {c} : call'[d] = call[d]
  OBVIOUS
<1> SUFFICES ASSUME NEW d \in Callers PROVE ScanOk(call'[d], pc'[d])
  BY DEF ScanInv
<1>3. CASE d = c
  <2>1. ScanOk(call[c], from)
    BY <1>1 DEF ScanInv
  <2> QED BY <1>1, <1>2, <1>3, <2>1
<1>4. CASE d # c
  <2>1. ScanOk(call[d], pc[d])
    BY DEF ScanInv
  <2> QED BY <1>1, <1>2, <1>4, <2>1
<1> QED BY <1>3, <1>4

LEMMA Rewritten ==
  ASSUME RegistryInv, NEW c \in Callers, NEW r, call' = [call EXCEPT ![c] = r]
  PROVE  call'[c] = r /\ \A d \in Callers \ {c} : call'[d] = call[d]
BY DEF RegistryInv, Shaped

\* The steps of Register and Plugins, and the waiting inside Detect.
LEMMA QuietStepsKeepScans ==
  ASSUME RegistryInv, ScanInv, NEW c \in Callers,
         \/ Validate(c) \/ Announce(c) \/ Lock(c) \/ Lookup(c)
         \/ AppendPlugin(c) \/ RLock(c) \/ Reentered(c)
  PROVE  ScanInv'
<1>1. CASE UNCHANGED <<pc, call>>
  BY <1>1 DEF ScanInv
<1>2. ASSUME NEW from, NEW to, Go(c, from, to), call' = call,
             \/ from \in Registering /\ to \in {"idle", "lock", "wait", "lookup", "append"}
             \/ from = "rlock" /\ to = "copy"
             \/ from = "reenter" /\ to = "inside"
             \/ from = "inside" /\ to = "confidence"
      PROVE  ScanInv'
  <2>1. ASSUME ScanOk(call[c], from) PROVE ScanOk(call[c], to)
    <3>1. CASE from \in Registering
      BY <2>1, <3>1 DEF ScanOk
    <3>2. CASE from \notin Registering
      BY <1>2, <2>1, <3>2 DEF ScanOk, Registering
    <3> QED BY <3>1, <3>2
  <2>2. call'[c] = call[c] /\ \A d \in Callers \ {c} : call'[d] = call[d]
    BY <1>2
  <2>3. to \in {"idle", "lock", "wait", "lookup", "append", "copy", "inside",
                "confidence"}
    BY <1>2
  <2> QED BY <1>2, <2>1, <2>2, <2>3, OneCallMoves
<1>3. CASE Validate(c)
  <2>1. CASE Crash(c, "validate")
    BY <1>1, <2>1 DEF Crash
  <2>2. CASE ~ Crash(c, "validate")
    <3>1. \/ Go(c, "validate", "idle") /\ call' = call
          \/ Go(c, "validate", "lock") /\ call' = call
      BY <1>3, <2>2 DEF Validate
    <3> QED BY <1>2, <3>1 DEF Registering
  <2> QED BY <2>1, <2>2
<1>4. CASE Announce(c)
  BY <1>2, <1>4 DEF Announce, Registering
<1>5. CASE Lock(c)
  BY <1>2, <1>5 DEF Lock, Registering
<1>6. CASE Lookup(c)
  <2>1. CASE Crash(c, "lookup")
    BY <1>1, <2>1 DEF Crash
  <2>2. CASE ~ Crash(c, "lookup")
    <3>1. \/ Go(c, "lookup", "idle") /\ call' = call
          \/ Go(c, "lookup", "append") /\ call' = call
      BY <1>6, <2>2 DEF Lookup
    <3> QED BY <1>2, <3>1 DEF Registering
  <2> QED BY <2>1, <2>2
<1>7. CASE AppendPlugin(c)
  BY <1>2, <1>7 DEF AppendPlugin, Registering
<1>8. CASE RLock(c)
  <2>1. \/ Go(c, "rlock", "copy") /\ call' = call
        \/ Go(c, "reenter", "inside") /\ call' = call
    BY <1>8 DEF RLock
  <2> QED BY <1>2, <2>1
<1>9. CASE Reentered(c)
  BY <1>2, <1>9 DEF Reentered
<1> QED BY <1>3, <1>4, <1>5, <1>6, <1>7, <1>8, <1>9

LEMMA CopyKeepsScans ==
  ASSUME RegistryInv, ScanInv, NEW c \in Callers, Copy(c)
  PROVE  ScanInv'
<1> DEFINE k == call[c]
           to == IF k.op = "Scan" THEN "plugins" ELSE "idle"
           r == [k EXCEPT !.snapshot = plugins]
<1>1. /\ Go(c, "copy", to) /\ to \in {"plugins", "idle"}
      /\ call' = [call EXCEPT ![c] = r]
  BY DEF Copy, Copied
<1>2. /\ r.op = k.op /\ r.text = k.text /\ r.found = k.found
      /\ r.next = k.next /\ r.quiet = k.quiet /\ r.snapshot = plugins
  BY DEF RegistryInv, Shaped, Fields
<1>3. Len(plugins) \in Nat
  BY DEF RegistryInv, TypeOK
<1>4. r.op = "Scan" => to = "plugins"
  BY <1>2
<1> HIDE DEF r, k, to
<1>5. ASSUME ScanOk(k, "copy") PROVE ScanOk(r, to)
  <2> SUFFICES ASSUME r.op = "Scan"
               PROVE  /\ r.text \in Texts
                      /\ r.next \in 1..(Len(r.snapshot) + 1)
                      /\ r.quiet \subseteq 1..(r.next - 1)
                      /\ r.found = SoFar(r, r.next - 1)
    BY <1>4 DEF ScanOk, Registering
  <2>1. /\ k.text \in Texts /\ r.next = 1 /\ r.quiet = {}
        /\ r.found = runBuiltins(r.text, Config.enabled)
    BY <1>2, <1>5 DEF ScanOk
  <2>2. (1..(r.next - 1)) \ r.quiet = {}
    BY <2>1
  <2>3. r.found = SoFar(r, r.next - 1)
    BY <2>1, <2>2 DEF SoFar
  <2> QED BY <1>2, <1>3, <2>1, <2>3
<1> QED BY <1>1, <1>5, Rewritten, OneCallMoves DEF k

LEMMA DetectKeepsScans ==
  ASSUME RegistryInv, ScanInv, NEW c \in Callers, Detect(c)
  PROVE  ScanInv'
<1> DEFINE k == call[c]
           to == IF Turn(c).reenters THEN "reenter" ELSE "confidence"
           r == [k EXCEPT !.matches = Turn(c).hits]
<1>1. /\ Go(c, "plugins", to) /\ to \in {"reenter", "confidence"}
      /\ call' = [call EXCEPT ![c] = r]
      /\ k.next <= Len(k.snapshot)
  BY DEF Detect
<1>2. /\ r.op = k.op /\ r.text = k.text /\ r.found = k.found
      /\ r.next = k.next /\ r.quiet = k.quiet /\ r.snapshot = k.snapshot
      /\ r.matches = k.snapshot[k.next].hits
  BY DEF RegistryInv, Shaped, Fields, Turn
<1>3. Len(k.snapshot) \in Nat
  BY DEF RegistryInv, TypeOK
<1> HIDE DEF r, k, to
<1>4. ASSUME ScanOk(k, "plugins") PROVE ScanOk(r, to)
  <2> SUFFICES ASSUME r.op = "Scan"
               PROVE  /\ r.text \in Texts
                      /\ r.next \in 1..Len(r.snapshot)
                      /\ r.quiet \subseteq 1..r.next
                      /\ r.found = SoFar(r, r.next - 1)
                      /\ r.matches = IF r.next \in r.quiet THEN {}
                                     ELSE r.snapshot[r.next].hits
    BY <1>1 DEF ScanOk, Registering
  <2>1. /\ k.text \in Texts /\ k.next \in 1..(Len(k.snapshot) + 1)
        /\ k.quiet \subseteq 1..(k.next - 1) /\ k.found = SoFar(k, k.next - 1)
    BY <1>2, <1>4 DEF ScanOk
  <2>2. k.next \in 1..Len(k.snapshot)
    BY <1>1, <1>3, <2>1
  <2>3. SoFar(r, r.next - 1) = SoFar(k, k.next - 1)
    BY <1>2 DEF SoFar
  <2>4. k.quiet \subseteq 1..k.next /\ k.next \notin k.quiet
    BY <2>1, <2>2
  <2> QED BY <1>2, <2>1, <2>2, <2>3, <2>4
<1> QED BY <1>1, <1>4, Rewritten, OneCallMoves DEF k

LEMMA DetectPanicsKeepsScans ==
  ASSUME RegistryInv, ScanInv, NEW c \in Callers, DetectPanics(c)
  PROVE  ScanInv'
<1> DEFINE k == call[c]
           r == WithoutMatches(k)
<1>1. /\ Go(c, "plugins", "confidence") /\ call' = [call EXCEPT ![c] = r]
      /\ k.next <= Len(k.snapshot)
  BY DEF DetectPanics
<1>2. /\ r.op = k.op /\ r.text = k.text /\ r.found = k.found
      /\ r.next = k.next /\ r.quiet = k.quiet \union {k.next}
      /\ r.snapshot = k.snapshot /\ r.matches = {}
  BY DEF RegistryInv, Shaped, Fields, WithoutMatches
<1>3. Len(k.snapshot) \in Nat
  BY DEF RegistryInv, TypeOK
<1> HIDE DEF r, k
<1>4. ASSUME ScanOk(k, "plugins") PROVE ScanOk(r, "confidence")
  <2> SUFFICES ASSUME r.op = "Scan"
               PROVE  /\ r.text \in Texts
                      /\ r.next \in 1..Len(r.snapshot)
                      /\ r.quiet \subseteq 1..r.next
                      /\ r.found = SoFar(r, r.next - 1)
                      /\ r.matches = IF r.next \in r.quiet THEN {}
                                     ELSE r.snapshot[r.next].hits
    BY DEF ScanOk, Registering
  <2>1. /\ k.text \in Texts /\ k.next \in 1..(Len(k.snapshot) + 1)
        /\ k.quiet \subseteq 1..(k.next - 1) /\ k.found = SoFar(k, k.next - 1)
    BY <1>2, <1>4 DEF ScanOk
  <2>2. k.next \in 1..Len(k.snapshot)
    BY <1>1, <1>3, <2>1
  <2>3. (1..(k.next - 1)) \ r.quiet = (1..(k.next - 1)) \ k.quiet
    BY <1>2, <2>2
  <2>4. SoFar(r, r.next - 1) = SoFar(k, k.next - 1)
    BY <1>2, <2>3 DEF SoFar
  <2>5. r.quiet \subseteq 1..k.next
    BY <1>2, <2>1, <2>2
  <2> QED BY <1>2, <2>1, <2>2, <2>4, <2>5
<1> QED BY <1>1, <1>4, Rewritten, OneCallMoves DEF k

LEMMA CollectKeepsScans ==
  ASSUME RegistryInv, ScanInv, NEW c \in Callers, Collect(c)
  PROVE  ScanInv'
<1>1. CASE Crash(c, "confidence")
  BY <1>1 DEF Crash, ScanInv
<1>2. CASE ~ Crash(c, "confidence")
  <2> DEFINE k == call[c]
             r == Collected(k)
             p == k.snapshot[k.next]
  <2>1. Go(c, "confidence", "plugins") /\ call' = [call EXCEPT ![c] = r]
    BY <1>2 DEF Collect
  <2>2. /\ r.op = k.op /\ r.text = k.text
        /\ r.found = k.found \union Contribution(p, k.matches, k.text)
        /\ r.next = k.next + 1 /\ r.quiet = k.quiet /\ r.snapshot = k.snapshot
    BY DEF RegistryInv, Shaped, Fields, Collected
  <2>3. Len(k.snapshot) \in Nat
    BY DEF RegistryInv, TypeOK
  <2> HIDE DEF r, k
  <2>4. ASSUME ScanOk(k, "confidence") PROVE ScanOk(r, "plugins")
    <3> SUFFICES ASSUME r.op = "Scan"
                 PROVE  /\ r.text \in Texts
                        /\ r.next \in 1..(Len(r.snapshot) + 1)
                        /\ r.quiet \subseteq 1..(r.next - 1)
                        /\ r.found = SoFar(r, r.next - 1)
      BY DEF ScanOk, Registering
    <3>1. /\ k.text \in Texts /\ k.next \in 1..Len(k.snapshot)
          /\ k.quiet \subseteq 1..k.next /\ k.found = SoFar(k, k.next - 1)
          /\ k.matches = IF k.next \in k.quiet THEN {} ELSE p.hits
      BY <2>2, <2>4 DEF ScanOk
    <3>2. r.next \in 1..(Len(k.snapshot) + 1) /\ r.next - 1 = k.next
      BY <2>2, <2>3, <3>1
    <3> DEFINE Adds(i) == Contribution(k.snapshot[i], k.snapshot[i].hits, k.text)
    <3>3. SoFar(r, k.next) = SoFar(k, k.next)
      BY <2>2 DEF SoFar
    <3>4. SoFar(k, k.next) = k.found \union Contribution(p, k.matches, k.text)
      <4>1. CASE k.next \in k.quiet
        <5>1. (1..k.next) \ k.quiet = (1..(k.next - 1)) \ k.quiet
          BY <3>1, <4>1
        <5>2. Contribution(p, {}, k.text) = {}
          BY DEF Contribution
        <5>3. SoFar(k, k.next) = SoFar(k, k.next - 1)
          BY <5>1 DEF SoFar
        <5> QED BY <3>1, <4>1, <5>2, <5>3
      <4>2. CASE k.next \notin k.quiet
        <5>1. (1..k.next) \ k.quiet = ((1..(k.next - 1)) \ k.quiet) \union {k.next}
          BY <3>1, <4>2
        <5>2. Contribution(p, k.matches, k.text) = Adds(k.next)
          BY <3>1, <4>2
        <5> DEFINE I == (1..(k.next - 1)) \ k.quiet
        <5>3. SoFar(k, k.next)
                = runBuiltins(k.text, Config.enabled)
                    \union UNION { Adds(i) : i \in I \union {k.next} }
          BY <5>1 DEF SoFar
        <5>4. k.found = runBuiltins(k.text, Config.enabled)
                          \union UNION { Adds(i) : i \in I }
          BY <3>1 DEF SoFar
        <5> HIDE DEF Adds, I
        <5>5. UNION { Adds(i) : i \in I \union {k.next} }
                = (UNION { Adds(i) : i \in I }) \union Adds(k.next)
          OBVIOUS
        <5> HIDE DEF p
        <5> QED BY <5>2, <5>3, <5>4, <5>5
      <4> QED BY <4>1, <4>2
    <3>5. r.quiet \subseteq 1..k.next
      BY <2>2, <3>1
    <3> QED BY <2>2, <3>1, <3>2, <3>3, <3>4, <3>5
  <2> QED BY <2>1, <2>4, Rewritten, OneCallMoves DEF k
<1> QED BY <1>1, <1>2

LEMMA FinishKeepsScans ==
  ASSUME RegistryInv, ScanInv, NEW c \in Callers, Finish(c)
  PROVE  ScanInv'
<1> DEFINE k == call[c]
           v == [detections |-> ToSet(Resolution(k)),
                 text |-> IF Config.AnonymizeOutput
                          THEN Anonymize(k.text, Resolution(k)) ELSE k.text,
                 reason |-> applyBlocking(ToSet(Resolution(k)))]
           r == [k EXCEPT !.result = v]
<1>1. /\ Go(c, "plugins", "idle") /\ k.next > Len(k.snapshot)
      /\ call' = [call EXCEPT ![c].result = v]
  BY DEF Finish, Resolution
<1>2. call' = [call EXCEPT ![c] = r]
  BY <1>1
<1>3. /\ r.op = k.op /\ r.text = k.text /\ r.found = k.found
      /\ r.next = k.next /\ r.quiet = k.quiet /\ r.snapshot = k.snapshot
      /\ r.result = v
  BY DEF RegistryInv, Shaped, Fields
<1>4. Len(k.snapshot) \in Nat
  BY DEF RegistryInv, TypeOK
<1>5. /\ v.detections = ToSet(Resolution(k))
      /\ v.text = IF Config.AnonymizeOutput
                  THEN Anonymize(k.text, Resolution(k)) ELSE k.text
  OBVIOUS
<1> HIDE DEF r, k, v
<1>6. Resolution(r) = Resolution(k)
  BY <1>3 DEF Resolution
<1>7. Delivers(r)
  BY <1>3, <1>5, <1>6 DEF Delivers
<1>8. ASSUME ScanOk(k, "plugins") PROVE ScanOk(r, "idle")
  <2> SUFFICES ASSUME r.op = "Scan"
               PROVE  /\ r.text \in Texts
                      /\ r.next \in 1..(Len(r.snapshot) + 1)
                      /\ r.quiet \subseteq 1..(r.next - 1)
                      /\ r.found = SoFar(r, r.next - 1)
                      /\ r.next = Len(r.snapshot) + 1
    BY <1>7 DEF ScanOk, Registering
  <2>1. /\ k.text \in Texts /\ k.next \in 1..(Len(k.snapshot) + 1)
        /\ k.quiet \subseteq 1..(k.next - 1) /\ k.found = SoFar(k, k.next - 1)
    BY <1>3, <1>8 DEF ScanOk
  <2>2. k.next = Len(k.snapshot) + 1
    BY <1>1, <1>4, <2>1
  <2>3. SoFar(r, r.next - 1) = SoFar(k, k.next - 1)
    BY <1>3 DEF SoFar
  <2> QED BY <1>3, <2>1, <2>2, <2>3
<1> QED BY <1>1, <1>2, <1>8, Rewritten, OneCallMoves DEF k

LEMMA BeginKeepsScans ==
  ASSUME RegistryInv, ScanInv, NEW c \in Callers, NEW op, NEW to,
         Begin(c, op), Go(c, "idle", to), to \in {"idle", "validate", "rlock"},
         DOMAIN op = Fields, op.op = "Scan" => to = "rlock" /\ ScanOk(op, "rlock")
  PROVE  ScanInv'
<1> DEFINE r == [op EXCEPT !.began = Len(plugins)]
<1>1. call' = [call EXCEPT ![c] = r]
  BY DEF Begin
<1>2. /\ r.op = op.op /\ r.text = op.text /\ r.found = op.found
      /\ r.next = op.next /\ r.quiet = op.quiet
  BY DEF Fields
<1> HIDE DEF r
<1>3. ScanOk(r, to)
  BY <1>2 DEF ScanOk, Registering
<1>4. call'[c] = r /\ \A d \in Callers \ {c} : call'[d] = call[d]
  BY <1>1, Rewritten
<1> QED BY <1>3, <1>4, OneCallMoves

LEMMA InvokeKeepsScans ==
  ASSUME RegistryInv, ScanInv, NEW c \in Callers, Invoke(c)
  PROVE  ScanInv'
<1>1. ASSUME NEW p \in Plugins, Register(c, p) PROVE ScanInv'
  <2> DEFINE op == [NoCall EXCEPT !.op = "Register", !.plugin = p]
  <2>1. op.op # "Scan" /\ DOMAIN op = Fields
    BY DEF NoCall, Fields
  <2>2. Begin(c, op) /\ Go(c, "idle", "validate")
    BY <1>1 DEF Register
  <2> HIDE DEF op
  <2> QED BY BeginKeepsScans, <2>1, <2>2
<1>2. CASE List(c)
  <2> DEFINE op == [NoCall EXCEPT !.op = "Plugins"]
  <2>1. op.op # "Scan" /\ DOMAIN op = Fields
    BY DEF NoCall, Fields
  <2>2. Begin(c, op) /\ Go(c, "idle", "rlock")
    BY <1>2 DEF List
  <2> HIDE DEF op
  <2> QED BY BeginKeepsScans, <2>1, <2>2
<1>3. ASSUME NEW t \in Texts, ScanNothing(c, t) PROVE ScanInv'
  <2> DEFINE op == [NoCall EXCEPT !.op = "Skipped", !.text = t,
                                  !.result.text = t]
  <2>1. op.op # "Scan" /\ DOMAIN op = Fields
    BY DEF NoCall, Fields
  <2>2. Begin(c, op) /\ Go(c, "idle", "idle")
    BY <1>3 DEF ScanNothing
  <2> HIDE DEF op
  <2> QED BY BeginKeepsScans, <2>1, <2>2
<1>4. ASSUME NEW t \in Texts, Scan(c, t) PROVE ScanInv'
  <2> DEFINE op == [NoCall EXCEPT !.op = "Scan", !.text = t,
                                  !.found = runBuiltins(t, Config.enabled)]
  <2>1. /\ op.text = t /\ op.found = runBuiltins(t, Config.enabled)
        /\ op.next = 1 /\ op.quiet = {} /\ DOMAIN op = Fields
    BY DEF NoCall, Fields
  <2>2. Begin(c, op) /\ Go(c, "idle", "rlock")
    BY <1>4 DEF Scan
  <2> HIDE DEF op
  <2>3. ScanOk(op, "rlock")
    BY <2>1 DEF ScanOk, Registering
  <2> QED BY BeginKeepsScans, <2>1, <2>2, <2>3
<1> QED BY <1>1, <1>2, <1>3, <1>4 DEF Invoke

-----------------------------------------------------------------------------
(***************************************************************************)
(* The theorems                                                            *)
(***************************************************************************)
LEMMA RegistryInit == Init => RegistryInv
<1> SUFFICES ASSUME Init PROVE RegistryInv
  OBVIOUS
<1>1. /\ plugins = <<>> /\ writer = NoOne /\ readers = {} /\ crashed = FALSE
      /\ pc = [c \in Callers |-> "idle"] /\ left = [c \in Callers |-> Calls]
      /\ call = [c \in Callers |-> NoCall]
  BY DEF Init
<1>2. /\ NoCall.snapshot = <<>> /\ NoCall.began = 0 /\ NoCall.op = "none"
      /\ DOMAIN NoCall = Fields
  BY DEF NoCall, Fields
<1>3. TypeOK
  <2>1. <<>> \in Seq(Plugins)
    OBVIOUS
  <2>2. \A c \in Callers : call[c].snapshot \in Seq(Plugins)
    BY <1>1, <1>2, <2>1
  <2>3. left \in [Callers -> 0..Calls]
    BY <1>1, DetectorAssumption
  <2> QED BY <1>1, <2>1, <2>2, <2>3 DEF TypeOK
<1>4. Shaped
  BY <1>1, <1>2 DEF Shaped
<1>5. WriterLocks /\ PluginKnown /\ LookupHolds
  BY <1>1 DEF WriterLocks, PluginKnown, LookupHolds
<1>6. CopyIsCurrent
  <2>1. IsPrefix(<<>>, <<>>) /\ Len(<<>>) = 0
    BY DEF IsPrefix
  <2> QED BY <1>1, <1>2, <2>1 DEF CopyIsCurrent
<1>7. NamesStayUnique
  BY <1>1 DEF NamesStayUnique
<1> QED BY <1>3, <1>4, <1>5, <1>6, <1>7 DEF RegistryInv

LEMMA RegistryNext == RegistryInv /\ [Next]_vars => RegistryInv'
<1> SUFFICES ASSUME RegistryInv, [Next]_vars PROVE RegistryInv'
  OBVIOUS
<1>1. ASSUME NEW c \in Callers, Step(c) PROVE RegistryInv'
  BY <1>1, ValidateKeepsInv, AnnounceKeepsInv, LockKeepsInv, LookupKeepsInv,
     AppendKeepsInv, RLockKeepsInv, CopyKeepsInv, DetectKeepsInv,
     DetectPanicsKeepsInv, ReenteredKeepsInv, CollectKeepsInv, FinishKeepsInv
     DEF Step
<1>2. ASSUME NEW c \in Callers, Invoke(c) PROVE RegistryInv'
  BY <1>2, InvokeKeepsInv
<1>3. CASE UNCHANGED vars
  BY <1>3 DEF vars, RegistryInv, TypeOK, Shaped, WriterLocks, PluginKnown,
              LookupHolds, CopyIsCurrent, NamesStayUnique
<1> QED BY <1>1, <1>2, <1>3 DEF Next, Finished

LEMMA RegistryInvariant == Spec => []RegistryInv
BY RegistryInit, RegistryNext, PTL DEF Spec

LEMMA ScanInit == Init => ScanInv
<1> SUFFICES ASSUME Init PROVE ScanInv
  OBVIOUS
<1>1. NoCall.op # "Scan"
  BY DEF NoCall
<1>2. \A c \in Callers : call[c] = NoCall
  BY DEF Init
<1> QED BY <1>1, <1>2 DEF ScanInv, ScanOk

LEMMA ScanNext == RegistryInv /\ ScanInv /\ [Next]_vars => ScanInv'
<1> SUFFICES ASSUME RegistryInv, ScanInv, [Next]_vars PROVE ScanInv'
  OBVIOUS
<1>1. ASSUME NEW c \in Callers, Step(c) PROVE ScanInv'
  BY <1>1, QuietStepsKeepScans, CopyKeepsScans, DetectKeepsScans,
     DetectPanicsKeepsScans, CollectKeepsScans, FinishKeepsScans DEF Step
<1>2. ASSUME NEW c \in Callers, Invoke(c) PROVE ScanInv'
  BY <1>2, InvokeKeepsScans
<1>3. CASE UNCHANGED vars
  BY <1>3 DEF vars, ScanInv
<1> QED BY <1>1, <1>2, <1>3 DEF Next, Finished

-----------------------------------------------------------------------------
(***************************************************************************)
(* What the findings of a scan are                                         *)
(***************************************************************************)
LEMMA ContributionIsSound ==
  ASSUME NEW p \in Plugins, NEW text, Len(text) \in Nat
  PROVE  SoundIn(Contribution(p, p.hits, text), Len(text))
<1> DEFINE M == { n \in p.hits : Accepted(n, text) }
           f == [m \in M |-> [type |-> m.type, start |-> m.start,
                              end |-> m.end, conf |-> p.conf]]
           F == { f[m] : m \in M }
<1>1. Contribution(p, p.hits, text) = F
  BY DEF Contribution
<1>2. IsFiniteSet(M)
  <2> DEFINE H == p.hits
  <2>1. IsFiniteSet(H) /\ M \in SUBSET H
    BY ScanAssumption
  <2> HIDE DEF H, M
  <2> QED BY <2>1, FS_Subset
<1>3. \A m \in M : /\ m.type \in Int /\ m.start \in Int /\ m.end \in Int
                   /\ p.conf \in Int /\ Accepted(m, text)
  BY ScanAssumption
<1> HIDE DEF M
<1>4. ASSUME NEW d \in F
      PROVE  /\ d = [type |-> d.type, start |-> d.start, end |-> d.end,
                     conf |-> d.conf]
             /\ d.type \in Int /\ d.start \in Int /\ d.end \in Int
             /\ d.conf \in Int
             /\ 0 <= d.start /\ d.start < d.end /\ d.end <= Len(text)
  <2>1. PICK m \in M : d = [type |-> m.type, start |-> m.start,
                            end |-> m.end, conf |-> p.conf]
    OBVIOUS
  <2>2. ~ (m.end <= m.start \/ m.start < 0 \/ m.end > Len(text))
    BY <1>3 DEF Accepted
  <2>3. m.type \in Int /\ m.start \in Int /\ m.end \in Int /\ p.conf \in Int
    BY <1>3
  <2>4. 0 <= m.start /\ m.start < m.end /\ m.end <= Len(text)
    BY <2>2, <2>3
  <2> QED BY <2>1, <2>3, <2>4
<1>5. IsFiniteSet(F)
  <2> HIDE DEF f
  <2> QED BY <1>2, FiniteImage
<1> HIDE DEF F
<1>6. SoundIn(F, Len(text))
  BY <1>4, <1>5 DEF SoundIn, AreDetections
<1> QED BY <1>1, <1>6

\* All a scan found are detections of its text.
LEMMA FindingsAreSound ==
  ASSUME NEW k, k.text \in Texts, k.snapshot \in Seq(Plugins),
         k.found = SoFar(k, Len(k.snapshot))
  PROVE  SoundIn(k.found \union Names(k.text), Len(k.text))
<1> DEFINE text == k.text
           n == Len(k.snapshot)
           B == runBuiltins(text, Config.enabled)
           N == Names(text)
           T == (1..n) \ k.quiet
           f == [x \in T |-> Contribution(k.snapshot[x], k.snapshot[x].hits, text)]
           C == { f[x] : x \in T }
<1>1. IsText(text) /\ Config.enabled \subseteq Builtins
  BY ScanAssumption DEF IsText
<1>2. Len(text) \in Nat
  BY <1>1 DEF IsText
<1>3. k.found = B \union UNION C
  BY DEF SoFar
<1>4. \A x \in T : k.snapshot[x] \in Plugins
  OBVIOUS
<1>5. \A F \in C : SoundIn(F, Len(text))
  BY <1>2, <1>4, ContributionIsSound
<1>6. IsFiniteSet(C)
  <2> DEFINE D == 1..n
  <2>1. IsFiniteSet(D) /\ T \in SUBSET D
    <3>1. 1 \in Int /\ n \in Int
      OBVIOUS
    <3> HIDE DEF n
    <3> QED BY <3>1, FS_Interval
  <2> HIDE DEF D, T, f
  <2>2. IsFiniteSet(T)
    BY <2>1, FS_Subset
  <2> QED BY <2>2, FiniteImage
<1>7. SoundIn(B, Len(text))
  <2> DEFINE t == text
             e == Config.enabled
  <2>1. IsText(t) /\ e \subseteq Builtins
    BY <1>1
  <2> HIDE DEF t, e
  <2>2. SoundIn(runBuiltins(t, e), Len(t))
    BY <2>1, BuiltinsAreSound
  <2> QED BY <2>2 DEF t, e
<1>8. SoundIn(N, Len(text))
  <2>1. CASE Config.DetectNames
    <3>1. N = runNamePass(text)
      BY <2>1 DEF Names
    <3> HIDE DEF N, text
    <3> QED BY <1>1, <3>1, NamesAreSound
  <2>2. CASE ~ Config.DetectNames
    <3>1. N = {}
      BY <2>2 DEF Names
    <3> HIDE DEF N, text
    <3> QED BY <3>1, FS_EmptySet DEF SoundIn, AreDetections
  <2> QED BY <2>1, <2>2
<1> HIDE DEF C, B, N, text
<1>9. SoundIn(UNION C, Len(text))
  BY <1>5, <1>6, SoundUnions
<1>10. SoundIn(B \union UNION C, Len(text))
  BY <1>7, <1>9, SoundUnion
<1>11. SoundIn((B \union UNION C) \union N, Len(text))
  BY <1>8, <1>10, SoundUnion
<1> QED BY <1>3, <1>11 DEF N, text

\* What a scan that has returned delivers.
LEMMA ReturnedScan ==
  ASSUME RegistryInv, ScanInv, NEW c \in Callers, Returned(c)
  PROVE  /\ call[c].text \in Texts
         /\ call[c].found = SoFar(call[c], Len(call[c].snapshot))
         /\ Delivers(call[c])
         /\ SoundIn(call[c].found \union Names(call[c].text), Len(call[c].text))
<1> DEFINE k == call[c]
<1>1. ScanOk(k, "idle") /\ k.op = "Scan"
  BY DEF ScanInv, Returned
<1>2. k.snapshot \in Seq(Plugins)
  BY DEF RegistryInv, TypeOK
<1> HIDE DEF k
<1>3. Len(k.snapshot) \in Nat
  BY <1>2
<1>4. /\ k.text \in Texts /\ k.next = Len(k.snapshot) + 1 /\ Delivers(k)
      /\ k.found = SoFar(k, k.next - 1)
  BY <1>1 DEF ScanOk
<1>5. k.next - 1 = Len(k.snapshot)
  BY <1>3, <1>4
<1>6. SoundIn(k.found \union Names(k.text), Len(k.text))
  BY <1>2, <1>4, <1>5, FindingsAreSound
<1> QED BY <1>4, <1>5, <1>6 DEF k

-----------------------------------------------------------------------------
(***************************************************************************)
(* The theorems about the registry and the scans                           *)
(***************************************************************************)
LEMMA ScanInvariant == Spec => [](RegistryInv /\ ScanInv)
<1>1. Init => RegistryInv /\ ScanInv
  BY RegistryInit, ScanInit
<1>2. (RegistryInv /\ ScanInv) /\ [Next]_vars => (RegistryInv /\ ScanInv)'
  BY RegistryNext, ScanNext
<1> QED BY <1>1, <1>2, PTL DEF Spec

\* A scan returns the arbitration of what the matchers, the name pass and the
\* plugins that did not panic reported, whatever else happens to the registry
\* meanwhile (engine.go:103-105, 197-198).
THEOREM PanicIsolation == Spec => []PanicsAreIsolated
<1>1. ASSUME RegistryInv, ScanInv PROVE PanicsAreIsolated
  <2> SUFFICES ASSUME NEW c \in Callers, Returned(c)
               PROVE  Arbitrates(Detections(c),
                        runBuiltins(call[c].text, Config.enabled)
                          \union Names(call[c].text)
                          \union UNION { Contribution(call[c].snapshot[i],
                                                      call[c].snapshot[i].hits,
                                                      call[c].text) :
                               i \in DOMAIN call[c].snapshot \ call[c].quiet })
    BY DEF PanicsAreIsolated
  <2> DEFINE k == call[c]
             F == k.found \union Names(k.text)
             C == { Contribution(k.snapshot[i], k.snapshot[i].hits, k.text) :
                      i \in DOMAIN k.snapshot \ k.quiet }
             B == runBuiltins(k.text, Config.enabled)
  <2>1. DOMAIN k.snapshot = 1..Len(k.snapshot)
    BY <1>1 DEF RegistryInv, TypeOK
  <2>2. k.found = B \union UNION C
    BY <1>1, <2>1, ReturnedScan DEF SoFar
  <2>3. Detections(c) = ToSet(resolveOverlaps(SetToSeq(F)))
    BY <1>1, ReturnedScan DEF Delivers, Resolution, Detections
  <2>4. SoundIn(F, Len(k.text))
    BY <1>1, ReturnedScan
  <2> HIDE DEF F
  <2>5. Arbitrates(Detections(c), F)
    BY <2>3, <2>4, ResolvedFindings
  <2> HIDE DEF C, B
  <2>6. F = B \union Names(k.text) \union UNION C
    BY <2>2 DEF F
  <2> QED BY <2>5, <2>6 DEF C, B
<1> QED BY <1>1, ScanInvariant, PTL

\* The detections of a scan lie in its text and share no byte, whatever the
\* plugins return (engine.go:181).
THEOREM SpanSoundness == Spec => []SpansAreSound
<1>1. ASSUME RegistryInv, ScanInv PROVE SpansAreSound
  <2> SUFFICES ASSUME NEW c \in Callers, Returned(c)
               PROVE  /\ \A d \in Detections(c) :
                           /\ 0 <= d.start /\ d.start < d.end
                           /\ d.end <= Len(call[c].text)
                      /\ PairwiseDisjoint(Detections(c))
    BY DEF SpansAreSound
  <2> DEFINE F == call[c].found \union Names(call[c].text)
  <2>1. Detections(c) = ToSet(resolveOverlaps(SetToSeq(F)))
    BY <1>1, ReturnedScan DEF Delivers, Resolution, Detections
  <2>2. SoundIn(F, Len(call[c].text))
    BY <1>1, ReturnedScan
  <2> HIDE DEF F
  <2>3. PairwiseDisjoint(Detections(c)) /\ SoundIn(Detections(c), Len(call[c].text))
    BY <2>1, <2>2, ResolvedFindings
  <2> QED BY <2>3 DEF SoundIn
<1> QED BY <1>1, ScanInvariant, PTL

\* The text a scan returns is its text with every detection replaced by one
\* placeholder of its type, numbered in reading order, and nothing else
\* replaced, for detections of any number and length (anonymizer.go:9-25).
THEOREM OnlyDetectionsAreReplaced == Spec => []NothingElseIsReplaced
<1>1. ASSUME RegistryInv, ScanInv PROVE NothingElseIsReplaced
  <2> SUFFICES ASSUME NEW c \in Callers, Returned(c), Config.AnonymizeOutput
               PROVE  LET text == call[c].text IN
                      call[c].result.text
                        = FlattenSeq([x \in DOMAIN text |->
                                        PieceAt(x, text, Detections(c))])
    BY Zenon DEF NothingElseIsReplaced, PieceAt, Standing, semanticPlaceholder
  <2> DEFINE text == call[c].text
             F == call[c].found \union Names(text)
             r == resolveOverlaps(SetToSeq(F))
             bs == buildPlaceholders(resolveOverlaps(r))
  <2>1. Detections(c) = ToSet(r) /\ call[c].result.text = Anonymize(text, r)
    BY <1>1, ReturnedScan DEF Delivers, Resolution, Detections
  <2>2. IsText(text)
    BY <1>1, ReturnedScan, ScanAssumption DEF IsText
  <2>3. SoundIn(F, Len(text))
    BY <1>1, ReturnedScan
  <2> HIDE DEF F, text
  <2>4. Anonymize(text, r)
          = FlattenSeq([x \in DOMAIN text |-> PieceAt(x, text, ToSet(r))])
    <3> DEFINE q == r
               b == bs
    <3>1. q = resolveOverlaps(SetToSeq(F)) /\ b = buildPlaceholders(resolveOverlaps(q))
      OBVIOUS
    <3> HIDE DEF q, b
    <3>2. Anonymize(text, q)
            = FlattenSeq([x \in DOMAIN text |-> PieceAt(x, text, ToSet(q))])
      BY <2>2, <2>3, <3>1, AnonymizedText
    <3> QED BY <3>2 DEF q
  <2> QED BY <2>1, <2>4, Zenon DEF text
<1> QED BY <1>1, ScanInvariant, PTL

\* Every variable of the detector stays in its type (engine.go:16-20).
THEOREM DetectorTyping == Spec => []TypeOK
<1>1. RegistryInv => TypeOK
  BY DEF RegistryInv
<1> QED BY <1>1, RegistryInvariant, PTL

\* However many goroutines register at once, no plugin gets in behind one
\* that has its name, blanks around the name aside, unless the earlier one
\* was registered with such blanks (engine.go:64-71).
THEOREM UniqueNames == Spec => []NamesStayUnique
<1>1. RegistryInv => NamesStayUnique
  BY DEF RegistryInv
<1> QED BY <1>1, RegistryInvariant, PTL

\* What a scan or a listing copied is a prefix of the registry from then on,
\* and has every plugin registered before the call (engine.go:77-83, 172-175).
THEOREM CurrentSnapshots == Spec => []SnapshotIsCurrent
<1>1. RegistryInv => SnapshotIsCurrent
  BY DEF RegistryInv, CopyIsCurrent, SnapshotIsCurrent
<1> QED BY <1>1, RegistryInvariant, PTL
=============================================================================
