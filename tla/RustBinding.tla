---------------------------- MODULE RustBinding ----------------------------
(***************************************************************************)
(* One call of pii.RustScan: the Go side of the binding                    *)
(* (pii/engine_rust.go) and the two functions of the Rust library          *)
(* (engine-rust/src/lib.rs).  The detections come back as JSON in a buffer *)
(* of the Rust heap, which the Go side has to give back.                   *)
(*                                                                         *)
(* A call is what happens to the heap, in order, and what is returned.     *)
(* The lengths of buffers are in units of which IntRange are the 2^32      *)
(* values a C int has, half of them negative.                              *)
(***************************************************************************)
EXTENDS Integers, Sequences, FiniteSets, SequencesExt

CONSTANTS
  IntRange,     \* bound: the number of values of a C int, 2^32 in the code
  Built         \* the library is built in (build tag veezrust, with cgo)

ASSUME RustAssumption == IntRange \in Nat \ {0} /\ Built \in BOOLEAN

\* The conversion C.int(n).
CInt(n) ==
  LET m == n % IntRange IN IF 2 * m < IntRange THEN m ELSE m - IntRange

Event(op, length) == [op |-> op, length |-> length]

\* veez_pii_scan: a text that is not UTF-8 is refused, for any other one the
\* JSON is left in a buffer of its length.  The pointers of the Go side are
\* never null.
veez_pii_scan(text) ==
  IF ~ text.utf8 THEN [code |-> -2, heap |-> <<>>]
  ELSE [code |-> 0, heap |-> <<Event("alloc", text.json)>>]

\* C.GoBytes: a negative length panics.
GoBytes(n) == IF n < 0 THEN <<>> ELSE <<Event("read", n)>>

\* What json.Unmarshal makes of the first n bytes: a part of an array is none.
Unmarshal(text, n) == IF n = text.json THEN "detections" ELSE "error"

\* Mutant: the buffer is given back behind the check of the JSON.
FreedLate(text) ==
  LET call == veez_pii_scan(text)
      n == CInt(text.json)
  IN
  IF text.json = 0 THEN [heap |-> <<>>, returns |-> "nothing"]
  ELSE IF call.code # 0 THEN [heap |-> call.heap, returns |-> "error"]
  ELSE [heap |-> call.heap \o GoBytes(n)
                   \o (IF n = text.json THEN <<Event("free", text.json)>> ELSE <<>>),
        returns |-> IF n < 0 THEN "panic" ELSE Unmarshal(text, n)]

\* json: the length of the answer, zero for an empty text, which is not sent
\* to the library.  The deferred veez_pii_free runs on every way out.
rustScan(text) ==
  LET call == veez_pii_scan(text)
      n == CInt(text.json)
  IN
  IF text.json = 0 THEN [heap |-> <<>>, returns |-> "nothing"]
  ELSE IF call.code # 0 THEN [heap |-> call.heap, returns |-> "error"]
  ELSE [heap |-> call.heap \o GoBytes(n) \o <<Event("free", text.json)>>,
        returns |-> IF n < 0 THEN "panic" ELSE Unmarshal(text, n)]

\* Without the library there is a stub.
RustScan(text) ==
  IF Built THEN rustScan(text) ELSE [heap |-> <<>>, returns |-> "nothing"]

\* Every buffer the library hands out is given back once, with its own length
\* and after it was last read; nothing is read past its end; and who gets
\* detections gets those of the whole buffer, also when its length does not
\* fit a C int (engine_rust.go:62-67, lib.rs:16-18, 122-131).
BuffersAreFreed(text) ==
  LET call == RustScan(text)
      At(op) == { k \in DOMAIN call.heap : call.heap[k].op = op }
  IN
  /\ Cardinality(At("free")) = Cardinality(At("alloc"))
  /\ \A a \in At("alloc") : \A k \in At("read") \union At("free") :
       /\ a < k /\ call.heap[k].length <= call.heap[a].length
       /\ k \in At("free") => /\ call.heap[k].length = call.heap[a].length
                              /\ k = Len(call.heap)
  /\ call.returns = "detections" => \E k \in At("read") : call.heap[k].length = text.json
=============================================================================
