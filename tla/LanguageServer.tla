--------------------------- MODULE LanguageServer ---------------------------
(***************************************************************************)
(* pii-guard-lsp (cmd/pii-guard-lsp/main.go): an editor writes framed      *)
(* messages to the server, which reads them one by one from its standard   *)
(* input, scans the text of each document it is shown and publishes the    *)
(* detections as diagnostics.                                              *)
(*                                                                         *)
(* A frame is the header lines, the blank line and the bytes of the body   *)
(* of a message.  The pipe holds [of, at]: element at of the frame of      *)
(* message of, so that a slip in the framing shows.  The editor may die    *)
(* between any two elements.                                               *)
(***************************************************************************)
EXTENDS Integers, Sequences, FiniteSets, SequencesExt

CONSTANTS
  Documents,    \* the URIs of the editor
  Texts,        \* the texts a document may have: sequences of bytes
  Newline,      \* the byte that ends a line
  Continuation, \* a byte of a character other than its first one
  Detect(_),    \* the detections of a text: start, end and whether secret
  Methods,      \* what the editor sends besides the texts of documents
  MaxSent,      \* bound: messages the editor sends
  MayHangUp     \* whether the editor may die

ASSUME ServerAssumption ==
  /\ MaxSent \in Nat /\ MayHangUp \in BOOLEAN
  /\ Methods \intersect {"didOpen", "didChange"} = {}
  /\ \A t \in Texts :
       /\ t \in Seq(ToSet(t))
       /\ \A d \in Detect(t) :
            /\ d \in [start : Nat, end : Nat, secret : BOOLEAN]
            /\ d.start < d.end /\ d.end <= Len(t)

Unseen == <<"unseen">>       \* a document that is not open

VARIABLES
  \* The editor.
  shown,          \* the text of each document, or Unseen
  sent,           \* the messages sent, in order (history)
  \* The pipe.
  stdin,          \* lines and bytes not yet read
  closed,         \* the editor has gone
  stdout,         \* what the server wrote, in order
  \* The server.
  pc,             \* "header", "body", "handle", or how it ended:
                  \* "clean", "fatal" or "exited"
  contentLength, body,
  handled         \* messages handled (history)

editor == <<shown, sent>>
vars == <<editor, stdin, closed, stdout, pc, contentLength, body, handled>>

TypeOK ==
  /\ shown \in [Documents -> Texts \union {Unseen}]
  /\ sent \in Seq([method : Methods \union {"didOpen", "didChange", "didClose"},
                   id : Nat, uri : Documents \union {"none"}, changes : Seq(Texts),
                   size : 1..2, frame : Seq({"length", "other", "blank", "byte"})])
  /\ stdin \in Seq([of : Nat, at : Nat]) /\ closed \in BOOLEAN
  /\ pc \in {"header", "body", "handle", "clean", "fatal", "exited"}
  /\ contentLength \in 0..2
  /\ body \in Seq([of : Nat, at : Nat])
  /\ handled \in 0..Len(sent)

Ended == pc \in {"clean", "fatal", "exited"}

-----------------------------------------------------------------------------
(***************************************************************************)
(* Positions and diagnostics                                               *)
(***************************************************************************)
\* The newlines before the offset.
Breaks(text, offset) == { k \in 1..offset : text[k] = Newline }

\* The line and the column of the byte at the offset; columns count bytes.
lineCol(text, offset) ==
  [line |-> Cardinality(Breaks(text, offset)),
   character |-> offset - Max(Breaks(text, offset) \union {0})]

Diagnostics(text) ==
  { [start |-> lineCol(text, d.start),
     end |-> lineCol(text, d.end),
     severity |-> IF d.secret THEN 1 ELSE 2] : d \in Detect(text) }

\* What the server writes: an answer to a request, or the diagnostics of a
\* document.
Answer(id) == [kind |-> "answer", of |-> id, diagnostics |-> {}]
publish(uri, text) ==
  <<[kind |-> "diagnostics", of |-> uri, diagnostics |-> Diagnostics(text)]>>

\* Mutant: the first change of the list.
ShownByFirst(changes) == changes[1]

\* Full synchronisation: the last change holds the whole text.
ShownBy(changes) == Last(changes)

\* What dispatch writes for a message.  "initialized" has no id, a document
\* that is saved or closed is passed over, and so is every method the switch
\* does not name and every body that is not a request.
Written(m) ==
  CASE m.method \in {"initialize", "shutdown"} -> <<Answer(m.id)>>
    [] m.method = "didOpen" -> publish(m.uri, m.changes[1])
    [] m.method = "didChange" /\ m.changes # <<>> ->
         publish(m.uri, ShownBy(m.changes))
    [] OTHER -> <<>>

-----------------------------------------------------------------------------
(***************************************************************************)
(* The editor                                                              *)
(***************************************************************************)
\* The header lines of a frame: the length of its body, alone or after another
\* header, or no length at all.
Headers == {<<"length">>, <<"other", "length">>, <<"other">>}

Frame(header, size) == header \o <<"blank">> \o [k \in 1..size |-> "byte"]

\* What the pipe holds of message i, from one place of its frame to another.
Elements(i, from, to) ==
  [k \in 1..(to - from + 1) |-> [of |-> i, at |-> from + k - 1]]

\* The body of a message with a text is longer than that of one without.
Message(method, uri, changes) ==
  [method |-> method, id |-> Len(sent) + 1, uri |-> uri, changes |-> changes,
   size |-> IF changes = <<>> THEN 1 ELSE 2, frame |-> <<>>]

\* The editor writes a frame.
Write(m) ==
  /\ ~ closed /\ Len(sent) < MaxSent
  /\ \E header \in Headers :
       LET frame == Frame(header, m.size) IN
       /\ sent' = Append(sent, [m EXCEPT !.frame = frame])
       /\ stdin' = stdin \o Elements(Len(sent) + 1, 1, Len(frame))
  /\ UNCHANGED <<closed, stdout, pc, contentLength, body, handled>>

Open(u, t) ==
  /\ shown[u] = Unseen
  /\ shown' = [shown EXCEPT ![u] = t]
  /\ Write(Message("didOpen", u, <<t>>))

\* A list of changes, the last of which holds the text; or an empty list.
Change(u, changes) ==
  /\ shown[u] # Unseen
  /\ shown' = [shown EXCEPT ![u] = IF changes = <<>> THEN @ ELSE Last(changes)]
  /\ Write(Message("didChange", u, changes))

Close(u) ==
  /\ shown[u] # Unseen
  /\ shown' = [shown EXCEPT ![u] = Unseen]
  /\ Write(Message("didClose", u, <<>>))

\* Messages without a text: requests, "initialized", "didSave", "exit", a
\* method the server does not know, and a body that is not JSON.
Tell(method) ==
  /\ Write(Message(method, "none", <<>>))
  /\ UNCHANGED shown

\* The editor dies: what it had not yet written of its last frame is lost.
HangUp ==
  /\ MayHangUp /\ ~ closed
  /\ closed' = TRUE
  /\ \E k \in 0..Len(stdin) :
       /\ \A j \in (k + 1)..Len(stdin) : stdin[j].of = Len(sent)
       /\ stdin' = SubSeq(stdin, 1, k)
  /\ UNCHANGED <<editor, stdout, pc, contentLength, body, handled>>

Editor ==
  \/ \E u \in Documents :
       \/ \E t \in Texts : Open(u, t)
       \/ \E changes \in BoundedSeq(Texts, 2) : Change(u, changes)
       \/ Close(u)
  \/ \E method \in Methods : Tell(method)
  \/ HangUp

-----------------------------------------------------------------------------
(***************************************************************************)
(* The server: readMessage and serve                                       *)
(***************************************************************************)
Init ==
  /\ shown = [u \in Documents |-> Unseen] /\ sent = <<>>
  /\ stdin = <<>> /\ closed = FALSE /\ stdout = <<>>
  /\ pc = "header" /\ contentLength = 0 /\ body = <<>> /\ handled = 0

\* Element k of the pipe is a line of this kind, or a byte.
Holds(k, kind) == sent[stdin[k].of].frame[stdin[k].at] = kind

\* The blank lines; the first one ends the header at the front of the pipe.
Blanks == { k \in DOMAIN stdin : Holds(k, "blank") }

\* The header lines up to the blank one, which must have announced a length;
\* the last length counts.
ReadHeader ==
  /\ pc = "header" /\ Blanks # {}
  /\ LET blank == CHOOSE k \in Blanks : \A j \in Blanks : k <= j
         announced == { k \in 1..blank : Holds(k, "length") }
         length == IF announced = {} THEN contentLength
                   ELSE sent[stdin[CHOOSE k \in announced :
                                     \A j \in announced : j <= k].of].size
     IN  /\ contentLength' = length
         /\ pc' = IF length <= 0 THEN "fatal" ELSE "body"
         /\ stdin' = SubSeq(stdin, blank + 1, Len(stdin))
  /\ UNCHANGED <<editor, closed, stdout, body, handled>>

\* The pipe ends between messages, or in a header: both are io.EOF.
EndOfInput ==
  /\ pc = "header" /\ Blanks = {} /\ closed
  /\ pc' = "clean"
  /\ stdin' = <<>>
  /\ UNCHANGED <<editor, closed, stdout, contentLength, body, handled>>

\* Mutant: waits for one byte more.
BodyIsThereStrictly == Len(stdin) > contentLength

BodyIsThere == Len(stdin) >= contentLength

\* io.ReadFull of the body.
ReadBody ==
  /\ pc = "body" /\ BodyIsThere
  /\ body' = SubSeq(stdin, 1, contentLength)
  /\ stdin' = SubSeq(stdin, contentLength + 1, Len(stdin))
  /\ pc' = "handle"
  /\ UNCHANGED <<editor, closed, stdout, contentLength, handled>>

\* The pipe ends in the body: without a byte of it that is io.EOF, after some
\* it is io.ErrUnexpectedEOF.
BodyIsCut ==
  /\ pc = "body" /\ closed /\ Len(stdin) < contentLength
  /\ pc' = IF stdin = <<>> THEN "clean" ELSE "fatal"
  /\ stdin' = <<>>
  /\ UNCHANGED <<editor, closed, stdout, contentLength, body, handled>>

\* The body of a message is the end of its frame.
BodyOf(i) ==
  LET n == Len(sent[i].frame) IN Elements(i, n - sent[i].size + 1, n)

\* json.Unmarshal: the message whose bytes these are; anything else is no
\* request.
Parsed ==
  LET i == body[1].of IN
  IF i \in DOMAIN sent /\ body = BodyOf(i)
  THEN sent[i] ELSE [Message("not JSON", "none", <<>>) EXCEPT !.id = 0]

\* Mutant: the length is a variable of the server.
NewLengthKept == contentLength

\* contentLength is a local variable of readMessage.
NewLength == 0

\* Mutant: a bad request ends the server.
AfterParsedFatal(m) ==
  CASE m.method = "exit"     -> "exited"
    [] m.method = "not JSON" -> "fatal"
    [] OTHER                 -> "header"

\* A bad request is logged and passed over.
AfterParsed(m) == IF m.method = "exit" THEN "exited" ELSE "header"

\* dispatch, and the next call of readMessage.
Dispatch ==
  /\ pc = "handle"
  /\ stdout' = stdout \o Written(Parsed)
  /\ pc' = AfterParsed(Parsed)
  /\ contentLength' = NewLength /\ body' = <<>>
  /\ handled' = handled + 1
  /\ UNCHANGED <<editor, stdin, closed>>

Serve == ReadHeader \/ EndOfInput \/ ReadBody \/ BodyIsCut \/ Dispatch

\* Nothing more is sent and nothing is left to read, or the server has ended.
Finished ==
  /\ Ended \/ (pc = "header" /\ stdin = <<>> /\ ~ closed /\ Len(sent) = MaxSent)
  /\ UNCHANGED vars

Next == Editor \/ Serve \/ Finished

Spec == Init /\ [][Next]_vars

\* The server reads what is there; an editor need not say anything.
FairSpec == Spec /\ WF_vars(Serve)

-----------------------------------------------------------------------------
\* The framing never slips: what is parsed is the next message the editor
\* sent, all of it, whatever other headers surround the length and however
\* the messages before it were answered (main.go:204-232).
FramesStayAligned ==
  pc = "handle" => body = BodyOf(handled + 1)

\* Where the editor finds a position: it counts characters, not bytes.
OffsetAt(text, p) ==
  CHOOSE o \in 0..Len(text) :
    /\ Cardinality(Breaks(text, o)) = p.line
    /\ p.character =
         Cardinality({ k \in 1..o : /\ text[k] # Continuation
                                    /\ k > Max(Breaks(text, o) \union {0}) })

\* No character of more than one byte on the line.
Plain(text, line) ==
  \A k \in DOMAIN text : Cardinality(Breaks(text, k)) = line
                          => text[k] # Continuation

Latest(u) ==
  LET about == { k \in DOMAIN stdout :
                   stdout[k].kind = "diagnostics" /\ stdout[k].of = u }
  IN  stdout[Max(about)].diagnostics

\* Once everything sent is handled, the diagnostics the editor got last for an
\* open document are the detections of the text it shows: their severities
\* and lines always, their places where the lines have only characters of one
\* byte.  Changes that came bunched, empty ones, and those of other documents
\* included (main.go:143-152, 158-176).
EditorSeesItsText ==
  pc = "header" /\ handled = Len(sent) =>
    \A u \in Documents : shown[u] # Unseen =>
      LET t == shown[u]
          InPlace(g) == Plain(t, g.start.line) /\ Plain(t, g.end.line)
          RowOf(o) == lineCol(t, o).line
      IN  /\ { <<g.start.line, g.end.line, g.severity = 1>> : g \in Latest(u) }
              = { <<RowOf(d.start), RowOf(d.end), d.secret>> : d \in Detect(t) }
          /\ { [start |-> OffsetAt(t, g.start), end |-> OffsetAt(t, g.end),
                secret |-> g.severity = 1] : g \in { h \in Latest(u) : InPlace(h) } }
              = { d \in Detect(t) : Plain(t, RowOf(d.start)) /\ Plain(t, RowOf(d.end)) }

\* The server ends only when it is told to, when the editor is gone, or when
\* a frame has no length; a body that is not JSON does not end it
\* (main.go:109-121, 224-226).
EndsForCause ==
  Ended => \/ closed
           \/ \E i \in DOMAIN sent : \/ "length" \notin ToSet(sent[i].frame)
                                     \/ sent[i].method = "exit"

\* A request the server knows is answered, unless the server has ended: it
\* never waits for a later message to come (main.go:106-139).
RequestsAreAnswered ==
  \A i \in 1..MaxSent :
    (i <= Len(sent) /\ sent[i].method \in {"initialize", "shutdown"})
      ~> (Ended \/ Contains(stdout, Answer(i)))
=============================================================================
