--------------------------- MODULE StreamScanner ---------------------------
(***************************************************************************)
(* StreamScanner.Scan of pii/stream.go: one goroutine reads a stream into  *)
(* windows that overlap, scans each window, and hands chunks to a consumer *)
(* through a bounded channel; an error goes to a second channel.           *)
(*                                                                         *)
(* A byte is its position in the stream, 1..StreamLen, so that what a      *)
(* window really holds can be compared with the offset the code computes   *)
(* for it.  The detector is a parameter, as it is in the code: Detect      *)
(* gives the detections of a text.                                         *)
(***************************************************************************)
EXTENDS Integers, Sequences, FiniteSets

CONSTANTS
  StreamLen,     \* bytes the reader delivers before io.EOF
  Opts,          \* the caller's StreamOptions: ChunkSize and Overlap
  OutCap,        \* capacity of the chunk channel (4 in the code)
  Detect(_),     \* the detections of a text
  Expected,      \* spans of the stream found in every window that holds them
  MayCancel,     \* whether somebody may cancel the context
  MayFail,       \* whether the reader may fail with an error
  EofWithData,   \* whether a read may return bytes together with io.EOF
  MayAbandon     \* whether the consumer may stop receiving

-----------------------------------------------------------------------------
\* NewStreamScanner: the defaults are filled in, then the options are refused
\* or accepted.
ChunkSizeOf(opts) == IF opts.ChunkSize <= 0 THEN 2048 ELSE opts.ChunkSize
OverlapOf(opts)   == IF opts.Overlap = 0 THEN 128 ELSE opts.Overlap

NewStreamScanner(opts) ==
  opts.Overlap >= 0 /\ OverlapOf(opts) < ChunkSizeOf(opts)

ChunkSize == ChunkSizeOf(Opts)
Overlap   == OverlapOf(Opts)

\* The bytes from offset a up to, not including, offset b.
Window(a, b) == [k \in 1..(b - a) |-> a + k]

\* The span of d, a detection of a text that begins at the given offset.
At(offset, d) ==
  [type |-> d.type, start |-> offset + d.start, end |-> offset + d.end]

Stream == Window(0, StreamLen)

Span == [type : Nat, start : Nat, end : Nat]

ASSUME OptionsAssumption ==
  /\ StreamLen \in Nat
  /\ Opts \in [ChunkSize : Int, Overlap : Int]
  /\ NewStreamScanner(Opts)
  /\ OutCap \in Nat \ {0}
  /\ {MayCancel, MayFail, EofWithData, MayAbandon} \subseteq BOOLEAN

\* A detection lies within the text it was found in.
ASSUME DetectAssumption ==
  \A a \in 0..StreamLen : \A b \in a..StreamLen :
    \A d \in Detect(Window(a, b)) :
      d \in Span /\ d.start < d.end /\ d.end <= b - a

\* What Expected means: the detector finds these spans in every window that
\* holds them whole, whatever else the window holds.
ASSUME ExpectedAssumption ==
  /\ Expected \subseteq Span
  /\ \A o \in Expected :
       /\ o.start < o.end /\ o.end <= StreamLen
       /\ \A a \in 0..o.start : \A b \in o.end..StreamLen :
            \E d \in Detect(Window(a, b)) : At(a, d) = o

-----------------------------------------------------------------------------
VARIABLES
  \* The environment.
  ctx,             \* "live" or "cancelled"
  position,        \* bytes taken from the reader
  \* The goroutine.
  pc,
  carry,           \* tail of the last window
  absoluteOffset,
  seen,            \* keys of the detections already emitted
  n, err,          \* what br.Read returned in this iteration
  combined,        \* the window: carry and the bytes read
  chunk,           \* the chunk about to be sent
  \* The channels.
  sent,            \* every chunk put into out, in order
  received,        \* how many of them the consumer took
  errs,            \* contents of errCh
  errClosed, outClosed,
  \* The consumer.
  consumer,        \* "chunks", "errs", "done" or "gone"
  failure          \* what the consumer got from errCh, or "none"

env      == <<ctx, position>>
iterVars == <<n, err, combined, chunk>>
channels == <<sent, received, errs, errClosed, outClosed>>
goVars   == <<carry, absoluteOffset, seen>>
peer     == <<consumer, failure>>
vars     == <<env, pc, goVars, iterVars, channels, peer>>

Failures == {"eof", "failed", "cancelled", "none"}
NoChunk  == [text |-> <<>>, offset |-> 0, dets |-> {}, scanned |-> FALSE]

\* Mutant: the key without the text.
KeyWithoutText(text, offset, d) == [offset |-> offset + d.start, type |-> d.type]

\* The absolute offset, the type and the text of a detection.
chunkSeenKey(text, offset, d) ==
  [ offset |-> offset + d.start,
    type   |-> d.type,
    text   |-> SubSeq(text, d.start + 1, d.end) ]

\* The keys of the detections a chunk carries.
Keys(c) == { chunkSeenKey(c.text, c.offset, d) : d \in c.dets }

Buffered == Len(sent) - received

\* Mutant: an unbounded channel.
RoomAlways == TRUE

\* A send on out does not block.
Room == Buffered < OutCap

\* Mutant: one byte too few.
TailOfShort(text) ==
  IF Len(text) > Overlap THEN SubSeq(text, Len(text) - Overlap + 2, Len(text))
                         ELSE text

\* Mutant: the carry is never cut.
TailOfAll(text) == text

\* The last Overlap bytes of a window, or all of it.
TailOf(text) ==
  IF Len(text) > Overlap THEN SubSeq(text, Len(text) - Overlap + 1, Len(text))
                         ELSE text

\* Mutant: nothing counts as already emitted.
FreshAll(dets, offset) == dets

\* Mutant: the key is recorded before it is looked up.
FreshNone(dets, offset) == {}

\* The detections of the window that no earlier chunk carried.
Fresh(dets, offset) ==
  { d \in dets : chunkSeenKey(combined, offset, d) \notin seen }

\* Mutant: the offset advances by the window, not by the bytes read.
AdvanceByWindow == absoluteOffset + Len(combined)

Advance == absoluteOffset + n

\* Mutant: the cancellation is not looked at.
CancelSeenNever == FALSE

\* ctx.Err() at the top of the loop.
CancelSeen == ctx = "cancelled"

\* Mutant: the deferred close(errCh) is forgotten.
AfterReadUnclosed(e) ==
  CASE e = "none"   -> "check"
    [] e = "eof"    -> "closeOut"
    [] OTHER        -> "report"

\* Mutant: an error of the reader ends the stream like io.EOF.
AfterReadSilent(e) == IF e = "none" THEN "check" ELSE "closeErrs"

\* Where an iteration goes with the error of its read.
AfterRead(e) ==
  CASE e = "none"   -> "check"
    [] e = "eof"    -> "closeErrs"
    [] OTHER        -> "report"

\* Mutant: errCh without a buffer, which nobody receives from yet.
ErrRoomUnbuffered == consumer = "errs"

\* A send on errCh, of capacity one, does not block.
ErrRoom == errs = <<>>

Init ==
  /\ ctx = "live" /\ position = 0
  /\ pc = "check"
  /\ carry = <<>> /\ absoluteOffset = 0 /\ seen = {}
  /\ n = 0 /\ err = "none" /\ combined = <<>> /\ chunk = NoChunk
  /\ sent = <<>> /\ received = 0 /\ errs = <<>>
  /\ errClosed = FALSE /\ outClosed = FALSE
  /\ consumer = "chunks" /\ failure = "none"
-----------------------------------------------------------------------------
\* The goroutine: top of the loop, ctx.Err().
CheckContext ==
  /\ pc = "check"
  /\ IF CancelSeen
     THEN /\ err' = "cancelled"
          /\ pc' = "report"
     ELSE /\ err' = "none"
          /\ pc' = "read"
  /\ UNCHANGED <<env, goVars, n, combined, chunk, channels, peer>>

\* br.Read returns k bytes and e.  Bytes may come with an error: bufio hands
\* a large enough buffer straight to the underlying reader.  A reader that
\* returns neither bytes nor an error is left out, as io.Reader discourages it.
Read(k, e) ==
  /\ pc = "read"
  /\ k \in 0..ChunkSize /\ k <= StreamLen - position
  /\ \/ e = "none" /\ k > 0
     \/ e = "eof" /\ k = StreamLen - position /\ (k > 0 => EofWithData)
     \/ e = "failed" /\ MayFail
  /\ n' = k
  /\ err' = e
  /\ position' = position + k
  /\ combined' = IF k > 0 THEN carry \o Window(position, position + k) ELSE <<>>
  /\ pc' = IF k > 0 THEN "scan" ELSE "decide"
  /\ UNCHANGED <<ctx, goVars, chunk, channels, peer>>

\* detector.Scan and the filter on seen.  Under a cancelled context the
\* detector returns the text as it is, without detections.
Scan ==
  /\ pc = "scan"
  /\ LET chunkOffset == absoluteOffset - Len(carry)
         scanned == ctx = "live"
         dets == IF scanned THEN Detect(combined) ELSE {}
     IN  /\ chunk' = [ text    |-> combined,
                       offset  |-> chunkOffset,
                       dets    |-> Fresh(dets, chunkOffset),
                       scanned |-> scanned ]
         /\ seen' = seen \cup { chunkSeenKey(combined, chunkOffset, d) : d \in dets }
  /\ pc' = "send"
  /\ UNCHANGED <<env, carry, absoluteOffset, n, err, combined, channels, peer>>

\* out <- Chunk, which blocks while the channel is full and does not watch the
\* context; then the offset and the carry for the next window.
Send ==
  /\ pc = "send"
  /\ Room
  /\ sent' = Append(sent, chunk)
  /\ absoluteOffset' = Advance
  /\ carry' = TailOf(combined)
  /\ n' = 0 /\ combined' = <<>> /\ chunk' = NoChunk
  /\ pc' = "decide"
  /\ UNCHANGED <<env, seen, err, received, errs, errClosed, outClosed, peer>>

\* What the error of the read means: go on, end, or report it.
Decide ==
  /\ pc = "decide"
  /\ pc' = AfterRead(err)
  /\ UNCHANGED <<env, goVars, iterVars, channels, peer>>

\* errCh <- err; the channel holds one error.
Report ==
  /\ pc = "report"
  /\ ErrRoom
  /\ errs' = <<err>>
  /\ pc' = "closeErrs"
  /\ UNCHANGED <<env, goVars, iterVars, sent, received, errClosed, outClosed, peer>>

\* The deferred calls run last in, first out: errCh is closed before out.
CloseErrs ==
  /\ pc = "closeErrs"
  /\ errClosed' = TRUE
  /\ pc' = "closeOut"
  /\ UNCHANGED <<env, goVars, iterVars, sent, received, errs, outClosed, peer>>

CloseOut ==
  /\ pc = "closeOut"
  /\ outClosed' = TRUE
  /\ pc' = "returned"
  /\ UNCHANGED <<env, goVars, iterVars, sent, received, errs, errClosed, peer>>

Goroutine ==
  \/ CheckContext
  \/ \E k \in 0..ChunkSize, e \in {"none", "eof", "failed"} : Read(k, e)
  \/ Scan
  \/ Send
  \/ Decide
  \/ Report
  \/ CloseErrs
  \/ CloseOut

-----------------------------------------------------------------------------
(***************************************************************************)
(* The consumer, as runStream of cmd/pii-guard/main.go is one: it ranges   *)
(* over the chunks, then receives once from the error channel.             *)
(***************************************************************************)
\* Mutant: a closed channel ends the loop at once, whatever it still holds.
DrainedWhenClosed == outClosed

\* The range loop over out ends: the channel is closed and empty.
Drained == Buffered = 0 /\ outClosed

Receive ==
  /\ consumer = "chunks"
  /\ Buffered > 0
  /\ received' = received + 1
  /\ UNCHANGED <<env, pc, goVars, iterVars, sent, errs, errClosed, outClosed, peer>>

EndOfChunks ==
  /\ consumer = "chunks"
  /\ Drained
  /\ consumer' = "errs"
  /\ UNCHANGED <<env, pc, goVars, iterVars, channels, failure>>

ReceiveError ==
  /\ consumer = "errs"
  /\ \/ /\ errs # <<>>
        /\ failure' = Head(errs)
        /\ errs' = <<>>
     \/ /\ errs = <<>> /\ errClosed
        /\ UNCHANGED <<failure, errs>>
  /\ consumer' = "done"
  /\ UNCHANGED <<env, pc, goVars, iterVars, sent, received, errClosed, outClosed>>

\* A chunk cannot be encoded: runStream returns without draining.
Abandon ==
  /\ MayAbandon
  /\ consumer = "chunks" /\ received > 0
  /\ consumer' = "gone"
  /\ UNCHANGED <<env, pc, goVars, iterVars, channels, failure>>

Consumer == Receive \/ EndOfChunks \/ ReceiveError

\* The context is cancelled, at any moment before the goroutine returns.
Cancel ==
  /\ MayCancel
  /\ ctx = "live" /\ pc # "returned"
  /\ ctx' = "cancelled"
  /\ UNCHANGED <<position, pc, goVars, iterVars, channels, peer>>

\* Everything has been said and read, or nobody drains the full channel the
\* goroutine wants to send on: the program goes on elsewhere.
Finished ==
  /\ \/ pc = "returned" /\ consumer \in {"done", "gone"}
     \/ pc = "send" /\ ~ Room /\ consumer = "gone"
  /\ UNCHANGED vars

Next == Goroutine \/ Consumer \/ Abandon \/ Cancel \/ Finished

Spec == Init /\ [][Next]_vars

\* The goroutine and the consumer are goroutines the runtime schedules, and
\* the reader answers; nothing obliges anybody to cancel or to give up.
FairSpec == Spec /\ WF_vars(Goroutine) /\ WF_vars(Consumer)

-----------------------------------------------------------------------------
Chunk == [text : Seq(1..StreamLen), offset : Nat, dets : SUBSET Span,
          scanned : BOOLEAN]

TypeOK ==
  /\ ctx \in {"live", "cancelled"}
  /\ position \in 0..StreamLen
  /\ pc \in {"check", "read", "scan", "send", "decide", "report",
             "closeErrs", "closeOut", "returned"}
  /\ carry \in Seq(1..StreamLen)
  /\ absoluteOffset \in 0..StreamLen
  /\ seen \in SUBSET [offset : Nat, type : Nat, text : Seq(1..StreamLen)]
  /\ n \in 0..ChunkSize
  /\ err \in Failures
  /\ combined \in Seq(1..StreamLen)
  /\ chunk \in Chunk
  /\ sent \in Seq(Chunk)
  /\ received \in 0..Len(sent)
  /\ Buffered <= OutCap
  /\ errs \in {<<>>} \cup { <<e>> : e \in Failures }
  /\ errClosed \in BOOLEAN /\ outClosed \in BOOLEAN
  /\ consumer \in {"chunks", "errs", "done", "gone"}
  /\ failure \in Failures

\* The offset of a chunk is where its text stands in the stream
\* (stream.go:23-24): no sequence of short reads makes them drift apart.
OffsetIsAbsolute ==
  \A i \in DOMAIN sent : \A k \in DOMAIN sent[i].text :
    sent[i].text[k] = sent[i].offset + k

\* Every span of at most Overlap + 1 bytes that has been read through lies
\* whole in the window of some chunk, wherever the reads fell: this is what
\* the carried tail is for (stream.go:14-17, 31-32).
WindowsCover ==
  \A a \in 0..absoluteOffset : \A b \in (a + 1)..absoluteOffset :
    b - a <= Overlap + 1 =>
      \E i \in DOMAIN sent :
        sent[i].offset <= a /\ b <= sent[i].offset + Len(sent[i].text)

\* What the detector finds in every window that holds it is emitted by the
\* time the stream has been read past it, however it straddles the reads,
\* if no chunk went out unscanned.
NothingMissed ==
  (\A i \in DOMAIN sent : sent[i].scanned) =>
    \A o \in Expected :
      o.end <= absoluteOffset /\ o.end - o.start <= Overlap + 1 =>
        \E i \in DOMAIN sent : \E d \in sent[i].dets :
          At(sent[i].offset, d) = o

\* No detection is emitted by two chunks, although their windows overlap
\* (stream.go:91-100).
EmittedOnce ==
  \A i, j \in DOMAIN sent :
    \A d \in sent[i].dets : \A e \in sent[j].dets :
      At(sent[i].offset, d) = At(sent[j].offset, e) => i = j

\* A window, and so the memory of one iteration, is bounded by the options
\* however long the stream (stream.go:110-115).
WindowIsBounded == Len(carry) <= Overlap /\ Len(combined) <= Overlap + ChunkSize

\* A chunk whose text was not scanned because of a cancellation is the last
\* one: the goroutine sends at most one chunk after it.
UnscannedIsLast ==
  \A i \in DOMAIN sent : ~ sent[i].scanned => i = Len(sent)

\* A consumer that drained the chunks never waits for the error: errCh is
\* closed or holds the error before the end of the chunks can be seen
\* (stream.go:69-70, main.go:227-236).
ErrorIsReady == consumer = "errs" => errs # <<>> \/ errClosed

\* A consumer that saw the chunks end without an error got every chunk of the
\* whole stream, and each of them was scanned: "Errors are reported via the
\* second channel" (stream.go:63).
CleanEndIsScanned ==
  consumer = "done" /\ failure = "none" =>
    /\ absoluteOffset = StreamLen
    /\ received = Len(sent)
    /\ \A i \in DOMAIN sent : sent[i].scanned

\* What the consumer has been given, in the terms of the abstract stream: it
\* gets the detections of the whole text, each once, and is told whether the
\* stream is complete (ADR-005).
Found  == UNION { { At(sent[i].offset, d) : d \in sent[i].dets } : i \in 1..received }
Status == IF consumer # "done" THEN "open"
          ELSE IF failure = "none" THEN "complete" ELSE "failed"
Whole  == { At(0, d) : d \in Detect(Stream) }

Abstract == INSTANCE DetectionStream
              WITH Whole <- Whole, found <- Found, status <- Status

Delivers == Abstract!Spec

\* The detectors Delivers is about: their finds do not depend on the window and
\* are no longer than the overlap covers.
FindsAreStable ==
  /\ Whole \subseteq Expected
  /\ \A o \in Whole : o.end - o.start <= Overlap + 1
  /\ \A a \in 0..StreamLen : \A b \in a..StreamLen :
       \A d \in Detect(Window(a, b)) : At(a, d) \in Whole

\* The stream ends for a consumer that keeps receiving: whatever the reads
\* return and whenever the context is cancelled, the range loop ends and the
\* receive from the error channel does not block (main.go:227-236).
Terminates == <>(consumer \in {"done", "gone"})

\* "Closes the channel on EOF or context cancellation" (stream.go:62-63).
CancellationCloses == ctx = "cancelled" ~> outClosed
=============================================================================
