--------------------------- MODULE FunctionProofs ---------------------------
(***************************************************************************)
(* What the functions without state promise, for every input: the run      *)
(* of MCFunctions enters some of them.                                     *)
(***************************************************************************)
EXTENDS MCFunctions, ScanProofs

-----------------------------------------------------------------------------
(***************************************************************************)
(* Sequences                                                               *)
(***************************************************************************)
\* Two elements put together.
LEMMA TwoTogether ==
  ASSUME NEW T, NEW x \in T, NEW y \in T
  PROVE  <<x>> \o <<y>> = <<x, y>>
<1> DEFINE s == <<x>> \o <<y>>
           w == <<x, y>>
<1>1. /\ s \in Seq(T) /\ Len(s) = 2
      /\ \A i \in 1..2 : s[i] = IF i <= 1 THEN <<x>>[i] ELSE <<y>>[i - 1]
  <2>1. <<x>> \in Seq(T) /\ <<y>> \in Seq(T) /\ Len(<<x>>) = 1 /\ Len(<<y>>) = 1
    OBVIOUS
  <2>2. /\ s \in Seq(T) /\ Len(s) = Len(<<x>>) + Len(<<y>>)
        /\ \A i \in 1..Len(<<x>>) + Len(<<y>>) :
             s[i] = IF i <= Len(<<x>>) THEN <<x>>[i] ELSE <<y>>[i - Len(<<x>>)]
    BY <2>1, ConcatProperties
  <2> QED BY <2>1, <2>2
<1>2. s[1] = x /\ s[2] = y
  BY <1>1
<1>3. w \in Seq(T) /\ Len(w) = 2 /\ w[1] = x /\ w[2] = y
  OBVIOUS
<1> HIDE DEF s, w
<1>4. \A i \in 1..Len(s) : s[i] = w[i]
  BY <1>1, <1>2, <1>3
<1>5. s = w
  BY <1>1, <1>3, <1>4, SeqEqual
<1> QED BY <1>5 DEF s, w

\* And three.
LEMMA FewTogether ==
  ASSUME NEW x, NEW y, NEW z
  PROVE  /\ <<x>> \o <<>> \o <<z>> = <<x, z>>
         /\ <<x>> \o <<y>> \o <<z>> = <<x, y, z>>
<1> DEFINE T == {x, y, z}
<1>1. <<x>> \in Seq(T) /\ <<y>> \in Seq(T) /\ <<z>> \in Seq(T)
      /\ <<x, y>> \in Seq(T) /\ <<x, z>> \in Seq(T) /\ <<x, y, z>> \in Seq(T)
  OBVIOUS
<1>6. x \in T /\ y \in T /\ z \in T
  OBVIOUS
<1> HIDE DEF T
<1>2. <<x>> \o <<>> = <<x>>
  BY <1>1, ConcatEmptySeq
<1>3. <<x>> \o <<z>> = <<x, z>>
  BY <1>6, TwoTogether
<1>4. <<x>> \o <<y>> = <<x, y>>
  BY <1>6, TwoTogether
<1>5. <<x, y>> \o <<z>> = <<x, y, z>>
  <2> DEFINE u == <<x, y>>
             s == u \o <<z>>
             w == <<x, y, z>>
  <2>1. s \in Seq(T) /\ Len(s) = 3
        /\ \A i \in 1..3 : s[i] = IF i <= 2 THEN u[i] ELSE <<z>>[i - 2]
    <3>1. u \in Seq(T) /\ Len(u) = 2 /\ Len(<<z>>) = 1
      BY <1>1
    <3> HIDE DEF u
    <3>2. /\ s \in Seq(T) /\ Len(s) = Len(u) + Len(<<z>>)
          /\ \A i \in 1..Len(u) + Len(<<z>>) :
               s[i] = IF i <= Len(u) THEN u[i] ELSE <<z>>[i - Len(u)]
      BY <1>1, <3>1, ConcatProperties
    <3> QED BY <3>1, <3>2
  <2>2. s[1] = x /\ s[2] = y /\ s[3] = z
    BY <2>1
  <2>3. w \in Seq(T) /\ Len(w) = 3 /\ w[1] = x /\ w[2] = y /\ w[3] = z
    BY <1>1
  <2> HIDE DEF s, w
  <2>4. \A i \in 1..Len(s) : s[i] = w[i]
    BY <2>1, <2>2, <2>3
  <2>5. s = w
    BY <2>1, <2>3, <2>4, SeqEqual
  <2> QED BY <2>5 DEF s, w
<1> QED BY <1>2, <1>3, <1>4, <1>5

\* The elements of three sequences put together.
LEMMA ThreeParts ==
  ASSUME NEW T, NEW p \in Seq(T), NEW q \in Seq(T), NEW r \in Seq(T)
  PROVE  /\ p \o q \o r \in Seq(T)
         /\ Len(p \o q \o r) = Len(p) + Len(q) + Len(r)
         /\ \A k \in 1..Len(p) : (p \o q \o r)[k] = p[k]
         /\ \A k \in 1..Len(q) : (p \o q \o r)[Len(p) + k] = q[k]
         /\ \A k \in 1..Len(r) : (p \o q \o r)[Len(p) + Len(q) + k] = r[k]
<1> DEFINE u == p \o q
           s == u \o r
<1>1. u \in Seq(T) /\ Len(u) = Len(p) + Len(q)
  OBVIOUS
<1>2. \A k \in 1..Len(u) : u[k] = IF k <= Len(p) THEN p[k] ELSE q[k - Len(p)]
  BY ConcatProperties
<1> HIDE DEF u
<1>3. s \in Seq(T) /\ Len(s) = Len(u) + Len(r)
  BY <1>1, ConcatProperties
<1>4. \A k \in 1..Len(s) : s[k] = IF k <= Len(u) THEN u[k] ELSE r[k - Len(u)]
  BY <1>1, <1>3, ConcatProperties
<1> HIDE DEF s
<1>5. Len(p) \in Nat /\ Len(q) \in Nat /\ Len(r) \in Nat
  OBVIOUS
<1>6. ASSUME NEW k \in 1..Len(p) PROVE s[k] = p[k]
  BY <1>1, <1>2, <1>3, <1>4, <1>5
<1>7. ASSUME NEW k \in 1..Len(q) PROVE s[Len(p) + k] = q[k]
  <2>1. Len(p) + k \in 1..Len(u) /\ Len(p) + k \in 1..Len(s)
        /\ ~ (Len(p) + k <= Len(p)) /\ Len(p) + k - Len(p) = k
    BY <1>1, <1>3, <1>5
  <2>2. s[Len(p) + k] = u[Len(p) + k] /\ u[Len(p) + k] = q[Len(p) + k - Len(p)]
    BY <1>2, <1>4, <2>1
  <2> QED BY <2>1, <2>2
<1>8. ASSUME NEW k \in 1..Len(r) PROVE s[Len(p) + Len(q) + k] = r[k]
  <2>1. /\ Len(u) + k \in 1..Len(s) /\ ~ (Len(u) + k <= Len(u))
        /\ Len(u) + k - Len(u) = k
    BY <1>1, <1>3, <1>5
  <2>2. s[Len(u) + k] = r[Len(u) + k - Len(u)]
    BY <1>4, <2>1
  <2> QED BY <1>1, <2>1, <2>2
<1> QED BY <1>1, <1>3, <1>6, <1>7, <1>8 DEF s, u

\* One element between two sequences.
LEMMA AroundOne ==
  ASSUME NEW T, NEW p \in Seq(T), NEW c \in T, NEW r \in Seq(T)
  PROVE  /\ Len(p \o <<c>> \o r) = Len(p) + 1 + Len(r)
         /\ \A k \in 1..Len(p) : (p \o <<c>> \o r)[k] = p[k]
         /\ (p \o <<c>> \o r)[Len(p) + 1] = c
         /\ \A k \in 1..Len(r) : (p \o <<c>> \o r)[Len(p) + 1 + k] = r[k]
<1> DEFINE q == <<c>>
           s == p \o q \o r
<1>1. q \in Seq(T) /\ Len(q) = 1 /\ q[1] = c
  OBVIOUS
<1> HIDE DEF q
<1>2. /\ Len(s) = Len(p) + Len(q) + Len(r)
      /\ \A k \in 1..Len(p) : s[k] = p[k]
      /\ \A k \in 1..Len(q) : s[Len(p) + k] = q[k]
      /\ \A k \in 1..Len(r) : s[Len(p) + Len(q) + k] = r[k]
  <2>1. q \in Seq(T)
    BY <1>1
  <2> QED BY <2>1, ThreeParts
<1> HIDE DEF s
<1>3. s[Len(p) + 1] = c
  <2>1. 1 \in 1..Len(q)
    BY <1>1
  <2> QED BY <1>1, <1>2, <2>1
<1> QED BY <1>1, <1>2, <1>3 DEF s, q

\* r has the i elements of p and then the j elements of q.
IsTogether(r, T, p, q, i, j) ==
  /\ r \in Seq(T) /\ Len(r) = i + j
  /\ \A k \in 1..(i + j) : r[k] = IF k <= i THEN p[k] ELSE q[k - i]

LEMMA PutTogether ==
  ASSUME NEW T, NEW p \in Seq(T), NEW q \in Seq(T), NEW i \in Nat, NEW j \in Nat,
         Len(p) = i, Len(q) = j
  PROVE  IsTogether(p \o q, T, p, q, i, j)
<1>1. /\ p \o q \in Seq(T) /\ Len(p \o q) = Len(p) + Len(q)
      /\ \A k \in 1..Len(p) + Len(q) :
           (p \o q)[k] = IF k <= Len(p) THEN p[k] ELSE q[k - Len(p)]
  BY ConcatProperties
<1> QED BY <1>1 DEF IsTogether

-----------------------------------------------------------------------------
(***************************************************************************)
(* The binding                                                             *)
(***************************************************************************)
\* A length never counts for more than it is as a C int.
LEMMA CIntBound ==
  ASSUME NEW n \in Nat
  PROVE  CInt(n) \in Int /\ CInt(n) <= n
<1> DEFINE m == n % IntRange
<1>1. IntRange \in Nat /\ IntRange > 0
  BY RustAssumption
<1>2. m \in Nat /\ m <= n
  BY <1>1
<1> HIDE DEF m
<1>3. CInt(n) = IF 2 * m < IntRange THEN m ELSE m - IntRange
  BY DEF CInt, m
<1> QED BY <1>1, <1>2, <1>3

\* A call with or without the library, for an answer of any length: the buffer
\* is given back once, last, with its own length, and detections are those of
\* the whole of it (engine_rust.go:46-80).
THEOREM EveryBufferIsFreed ==
  ASSUME NEW text, text.json \in Nat
  PROVE  BuffersAreFreed(text)
<1> DEFINE n == CInt(text.json)
           call == RustScan(text)
           Of_(op) == { k \in DOMAIN call.heap : call.heap[k].op = op }
           a == Event("alloc", text.json)
           r == Event("read", n)
           f == Event("free", text.json)
<1>1. n \in Int /\ n <= text.json
  BY CIntBound
<1> HIDE DEF n
<1>2. /\ a.op = "alloc" /\ r.op = "read" /\ f.op = "free"
      /\ a.length = text.json /\ r.length = n /\ f.length = text.json
  BY DEF Event
<1> HIDE DEF a, r, f
<1>3. \/ call.heap = <<>> /\ call.returns # "detections"
      \/ call.heap = <<a, f>> /\ call.returns # "detections"
      \/ call.heap = <<a, r, f>> /\ (call.returns = "detections" => n = text.json)
  <2>1. CASE text.utf8 /\ text.json # 0 /\ Built
    <3>1. call.heap = <<a>> \o GoBytes(n) \o <<f>>
          /\ call.returns = IF n < 0 THEN "panic" ELSE Unmarshal(text, n)
      BY <2>1 DEF RustScan, rustScan, veez_pii_scan, n, a, f
    <3>2. CASE n < 0
      <4>1. call.heap = <<a>> \o <<>> \o <<f>> /\ call.returns = "panic"
        BY <3>1, <3>2 DEF GoBytes
      <4> HIDE DEF call
      <4> QED BY <4>1, FewTogether
    <3>3. CASE ~ (n < 0)
      <4>1. call.heap = <<a>> \o <<r>> \o <<f>> /\ call.returns = Unmarshal(text, n)
        BY <3>1, <3>3 DEF GoBytes, r
      <4> HIDE DEF call
      <4>2. call.heap = <<a, r, f>>
        BY <4>1, FewTogether
      <4> QED BY <4>1, <4>2 DEF Unmarshal
    <3> QED BY <3>2, <3>3
  <2>2. CASE ~ (text.utf8 /\ text.json # 0 /\ Built)
    BY <2>2 DEF RustScan, rustScan, veez_pii_scan
  <2> QED BY <2>1, <2>2
<1> HIDE DEF call
<1>4. CASE call.heap = <<>> /\ call.returns # "detections"
  <2>1. DOMAIN call.heap = {}
    BY <1>4
  <2> QED BY <1>4, <2>1 DEF BuffersAreFreed, call
<1>5. CASE call.heap = <<a, f>> /\ call.returns # "detections"
  <2>1. Of_("alloc") = {1} /\ Of_("free") = {2} /\ Of_("read") = {}
    BY <1>2, <1>5
  <2>2. Cardinality(Of_("alloc")) = 1 /\ Cardinality(Of_("free")) = 1
    BY <2>1, FS_Singleton
  <2>3. \A x \in Of_("alloc") : \A k \in Of_("read") \union Of_("free") :
          /\ x < k /\ call.heap[k].length <= call.heap[x].length
          /\ k \in Of_("free") => /\ call.heap[k].length = call.heap[x].length
                                  /\ k = Len(call.heap)
    BY <1>2, <1>5, <2>1
  <2> QED BY <1>5, <2>2, <2>3 DEF BuffersAreFreed, call
<1>6. CASE call.heap = <<a, r, f>> /\ (call.returns = "detections" => n = text.json)
  <2>1. Of_("alloc") = {1} /\ Of_("free") = {3} /\ Of_("read") = {2}
    BY <1>2, <1>6
  <2>2. Cardinality(Of_("alloc")) = 1 /\ Cardinality(Of_("free")) = 1
    BY <2>1, FS_Singleton
  <2>3. \A x \in Of_("alloc") : \A k \in Of_("read") \union Of_("free") :
          /\ x < k /\ call.heap[k].length <= call.heap[x].length
          /\ k \in Of_("free") => /\ call.heap[k].length = call.heap[x].length
                                  /\ k = Len(call.heap)
    BY <1>1, <1>2, <1>6, <2>1
  <2>4. call.returns = "detections" =>
          \E k \in Of_("read") : call.heap[k].length = text.json
    BY <1>2, <1>6, <2>1
  <2> QED BY <1>6, <2>2, <2>3, <2>4 DEF BuffersAreFreed, call
<1> QED BY <1>3, <1>4, <1>5, <1>6

-----------------------------------------------------------------------------
(***************************************************************************)
(* Masking                                                                 *)
(***************************************************************************)
LEMMA StarsShape ==
  ASSUME NEW n \in Nat
  PROVE  /\ Stars(n) \in Seq(Int) /\ Len(Stars(n)) = n
         /\ \A k \in 1..n : Stars(n)[k] = Star
BY DEF Stars, Star

\* A masked string has the length of the string, shows what the string has in
\* its place or a star, and a star at least unless it is empty (mask.go:24-35).
LEMMA StringIsHidden ==
  ASSUME NEW s \in Seq(Int), NEW a \in Nat, NEW b \in Nat
  PROVE  /\ maskString(s, a, b) \in Seq(Int)
         /\ Len(maskString(s, a, b)) = Len(s)
         /\ \A k \in 1..Len(s) :
              maskString(s, a, b)[k] = Star \/ maskString(s, a, b)[k] = s[k]
         /\ Len(s) > 0 => \E k \in 1..Len(s) : maskString(s, a, b)[k] = Star
<1> DEFINE n == Len(s)
           m == maskString(s, a, b)
<1>1. CASE n <= a + b
  <2>1. m = Stars(n) /\ n \in Nat
    BY <1>1 DEF maskString
  <2> HIDE DEF n
  <2>2. n > 0 => 1 \in 1..n
    BY <2>1
  <2> QED BY <2>1, <2>2, StarsShape DEF n
<1>2. CASE ~ (n <= a + b)
  <2> DEFINE A == SubSeq(s, 1, a)
             B == Stars(n - a - b)
             C == SubSeq(s, n - b + 1, n)
  <2>1. m = A \o B \o C /\ n \in Nat /\ n - a - b \in Nat /\ n - a - b > 0
    BY <1>2 DEF maskString
  <2>2. /\ A \in Seq(Int) /\ Len(A) = a /\ \A k \in 1..a : A[k] = s[k]
    BY <2>1
  <2>3. /\ B \in Seq(Int) /\ Len(B) = n - a - b
        /\ \A k \in 1..(n - a - b) : B[k] = Star
    BY <2>1, StarsShape
  <2>4. C \in Seq(Int) /\ Len(C) = b
    BY <2>1
  <2>5. ASSUME NEW k \in 1..b PROVE C[k] = s[n - b + k]
    <3>1. n - b + 1 + k - 1 = n - b + k /\ k \in 1..Len(C)
      BY <2>1, <2>4
    <3> QED BY <2>1, <3>1
  <2> HIDE DEF A, B, C, n, m
  <2>6. /\ m \in Seq(Int) /\ Len(m) = n
        /\ \A k \in 1..a : m[k] = A[k]
        /\ \A k \in 1..(n - a - b) : m[a + k] = B[k]
        /\ \A k \in 1..b : m[n - b + k] = C[k]
    <3>1. a + (n - a - b) + b = n /\ \A k \in 1..b : a + (n - a - b) + k = n - b + k
      BY <2>1
    <3>2. /\ m \in Seq(Int) /\ Len(m) = Len(A) + Len(B) + Len(C)
          /\ \A k \in 1..Len(A) : m[k] = A[k]
          /\ \A k \in 1..Len(B) : m[Len(A) + k] = B[k]
          /\ \A k \in 1..Len(C) : m[Len(A) + Len(B) + k] = C[k]
      <4> DEFINE M == A \o B \o C
      <4>1. /\ M \in Seq(Int) /\ Len(M) = Len(A) + Len(B) + Len(C)
            /\ \A k \in 1..Len(A) : M[k] = A[k]
            /\ \A k \in 1..Len(B) : M[Len(A) + k] = B[k]
            /\ \A k \in 1..Len(C) : M[Len(A) + Len(B) + k] = C[k]
        <5>1. A \in Seq(Int) /\ B \in Seq(Int) /\ C \in Seq(Int)
          BY <2>2, <2>3, <2>4
        <5> QED BY <5>1, ThreeParts
      <4> QED BY <2>1, <4>1
    <3>3. /\ \A k \in 1..a : m[k] = A[k]
          /\ \A k \in 1..(n - a - b) : m[a + k] = B[k]
      BY <2>2, <2>3, <3>2
    <3>4. \A k \in 1..b : m[n - b + k] = C[k]
      BY <2>2, <2>3, <2>4, <3>1, <3>2
    <3> QED BY <2>1, <2>2, <2>3, <2>4, <3>1, <3>2, <3>3, <3>4
  <2>7. ASSUME NEW k \in 1..n PROVE m[k] = Star \/ m[k] = s[k]
    <3>1. CASE k <= a
      BY <2>2, <2>6, <3>1
    <3>2. CASE a < k /\ k <= n - b
      <4>1. k - a \in 1..(n - a - b) /\ a + (k - a) = k
        BY <2>1, <3>2
      <4> QED BY <2>3, <2>6, <4>1
    <3>3. CASE n - b < k
      <4>1. k - (n - b) \in 1..b /\ n - b + (k - (n - b)) = k
        BY <2>1, <3>3
      <4>2. m[n - b + (k - (n - b))] = C[k - (n - b)]
        BY <2>6, <4>1
      <4>3. C[k - (n - b)] = s[n - b + (k - (n - b))]
        BY <2>5, <4>1
      <4> QED BY <4>1, <4>2, <4>3
    <3>4. k <= a \/ (a < k /\ k <= n - b) \/ n - b < k
      BY <2>1
    <3> QED BY <3>1, <3>2, <3>3, <3>4
  <2>8. m[a + 1] = Star /\ a + 1 \in 1..n
    <3>1. 1 \in 1..(n - a - b) /\ a + 1 \in 1..n
      BY <2>1
    <3> QED BY <2>3, <2>6, <3>1
  <2> QED BY <2>6, <2>7, <2>8 DEF n, m
<1> QED BY <1>1, <1>2

\* A single @ is where the part in front of it ends.
LEMMA SingleAt ==
  ASSUME NEW value \in Seq(Int),
         Cardinality({ k \in DOMAIN value : value[k] = At }) = 1
  PROVE  \E x \in 1..Len(value) :
           /\ value[x] = At
           /\ x = CHOOSE k \in { k \in DOMAIN value : value[k] = At } : TRUE
           /\ x = CHOOSE k \in DOMAIN value : value[k] = At
<1> DEFINE ats == { k \in DOMAIN value : value[k] = At }
<1>1. IsFiniteSet(ats)
  <2>1. ats \subseteq 1..Len(value) /\ Len(value) \in Nat
    OBVIOUS
  <2> DEFINE I == 1..Len(value)
  <2>2. IsFiniteSet(I)
    BY <2>1, FS_Interval
  <2> HIDE DEF ats, I
  <2>3. ats \subseteq I
    BY <2>1 DEF I
  <2> QED BY <2>2, <2>3, FS_Subset
<1>2. Cardinality(ats) = 1
  OBVIOUS
<1>3. PICK x : ats = {x}
  <2> HIDE DEF ats
  <2> QED BY <1>1, <1>2, FS_Singleton
<1>4. x \in 1..Len(value) /\ value[x] = At
  <2>1. x \in ats
    BY <1>3
  <2> QED BY <2>1
<1>5. x = CHOOSE k \in ats : TRUE
  <2> HIDE DEF ats
  <2> QED BY <1>3
<1>6. x = CHOOSE k \in DOMAIN value : value[k] = At
  <2>1. \A k \in DOMAIN value : value[k] = At <=> k = x
    <3>1. \A k : k \in ats <=> k = x
      <4> HIDE DEF ats
      <4> QED BY <1>3
    <3> QED BY <1>4, <3>1
  <2>2. \A k : (k \in DOMAIN value /\ value[k] = At) <=> k = x
    BY <1>4, <2>1
  <2> QED BY <2>2
<1> QED BY <1>4, <1>5, <1>6

\* What a masked value shows, for every value and every kind of type
\* (mask.go:5-35).
THEOREM EveryValueIsHidden ==
  ASSUME NEW value \in Seq(Int), NEW as
  PROVE  MaskHides(value, as)
<1> DEFINE n == Len(value)
           m == Mask(value, as)
<1>1. n \in Nat /\ DOMAIN value = 1..n
  OBVIOUS
<1>2. CASE as = "email"
  <2> DEFINE ats == { k \in DOMAIN value : value[k] = At }
  <2>1. CASE Cardinality(ats) # 1
    <3>1. m = Stars(3)
      BY <1>2, <2>1 DEF Mask
    <3> QED BY <3>1 DEF MaskHides
  <2>2. CASE Cardinality(ats) = 1
    <3>1. PICK x \in 1..n : /\ value[x] = At
                            /\ x = CHOOSE k \in ats : TRUE
                            /\ x = CHOOSE k \in DOMAIN value : value[k] = At
      BY <2>2, SingleAt
    <3> DEFINE L == SubSeq(value, 1, x - 1)
               R == SubSeq(value, x + 1, n)
               P == maskString(L, 1, 0)
               Q == maskString(R, 1, 4)
               M == P \o <<At>> \o Q
    <3>2. m = M
      BY <1>2, <2>2, <3>1 DEF Mask
    <3>3. L \in Seq(Int) /\ Len(L) = x - 1 /\ \A k \in 1..(x - 1) : L[k] = value[k]
      BY <1>1, <3>1
    <3>4. R \in Seq(Int) /\ Len(R) = n - x
      BY <1>1, <3>1
    <3>5. ASSUME NEW k \in 1..(n - x) PROVE R[k] = value[x + k]
      <4>1. x + 1 \in Int /\ n \in Int /\ k \in 1..n - (x + 1) + 1
            /\ x + 1 + k - 1 = x + k /\ \A i \in (x + 1)..n : i \in 1..n
        <5> HIDE DEF n, R
        <5> QED BY <1>1, <3>1
      <4>2. \A i \in (x + 1)..n : value[i] \in Int
        BY <4>1
      <4>3. R[k] = value[x + 1 + k - 1]
        <5> HIDE DEF n
        <5> QED BY <4>1, <4>2, SubSeqProperties
      <4> QED BY <4>1, <4>3
    <3> HIDE DEF L, R, m
    <3>6. /\ P \in Seq(Int) /\ Len(P) = x - 1
          /\ \A k \in 1..(x - 1) : P[k] = Star \/ P[k] = L[k]
          /\ x - 1 > 0 => \E k \in 1..(x - 1) : P[k] = Star
      <4>1. /\ P \in Seq(Int) /\ Len(P) = Len(L)
            /\ \A k \in 1..Len(L) : P[k] = Star \/ P[k] = L[k]
            /\ Len(L) > 0 => \E k \in 1..Len(L) : P[k] = Star
        <5>1. L \in Seq(Int) /\ 1 \in Nat /\ 0 \in Nat
          BY <3>3
        <5> QED BY <5>1, StringIsHidden, Zenon
      <4> QED BY <3>3, <4>1
    <3>7. /\ Q \in Seq(Int) /\ Len(Q) = n - x
          /\ \A k \in 1..(n - x) : Q[k] = Star \/ Q[k] = R[k]
          /\ n - x > 0 => \E k \in 1..(n - x) : Q[k] = Star
      <4>1. /\ Q \in Seq(Int) /\ Len(Q) = Len(R)
            /\ \A k \in 1..Len(R) : Q[k] = Star \/ Q[k] = R[k]
            /\ Len(R) > 0 => \E k \in 1..Len(R) : Q[k] = Star
        <5>1. R \in Seq(Int) /\ 1 \in Nat /\ 4 \in Nat
          BY <3>4
        <5> QED BY <5>1, StringIsHidden, Zenon
      <4> QED BY <3>4, <4>1
    <3> HIDE DEF P, Q
    <3>8. /\ Len(M) = n
          /\ \A k \in 1..(x - 1) : M[k] = P[k]
          /\ M[x] = At
          /\ \A k \in 1..(n - x) : M[x + k] = Q[k]
      <4> DEFINE N == P \o <<At>> \o Q
      <4>1. P \in Seq(Int) /\ Q \in Seq(Int) /\ At \in Int
        BY <3>6, <3>7 DEF At
      <4>2. /\ Len(N) = Len(P) + 1 + Len(Q)
            /\ \A k \in 1..Len(P) : N[k] = P[k]
            /\ N[Len(P) + 1] = At
            /\ \A k \in 1..Len(Q) : N[Len(P) + 1 + k] = Q[k]
        BY <4>1, AroundOne
      <4> HIDE DEF N
      <4>3. Len(N) = n /\ \A k \in 1..(x - 1) : N[k] = P[k]
        BY <1>1, <3>1, <3>6, <3>7, <4>2
      <4>4. N[x] = At
        <5>1. Len(P) + 1 = x
          BY <3>1, <3>6
        <5> QED BY <4>2, <5>1
      <4>5. \A k \in 1..(n - x) : N[x + k] = Q[k]
        <5>1. Len(P) + 1 = x
          BY <3>1, <3>6
        <5> QED BY <3>7, <4>2, <5>1
      <4> QED BY <4>3, <4>4, <4>5 DEF N
    <3> HIDE DEF M
    <3>9. ASSUME NEW k \in 1..n PROVE M[k] = Star \/ M[k] = value[k]
      <4>1. CASE k < x
        <5>1. k \in 1..(x - 1)
          BY <3>1, <4>1
        <5> QED BY <3>3, <3>6, <3>8, <5>1
      <4>2. CASE k = x
        BY <3>1, <3>8, <4>2
      <4>3. CASE k > x
        <5>1. k - x \in 1..(n - x) /\ x + (k - x) = k
          BY <1>1, <3>1, <4>3
        <5>2. M[x + (k - x)] = Q[k - x] /\ R[k - x] = value[x + (k - x)]
              /\ (Q[k - x] = Star \/ Q[k - x] = R[k - x])
          BY <3>5, <3>7, <3>8, <5>1
        <5> QED BY <5>1, <5>2
      <4> QED BY <3>1, <4>1, <4>2, <4>3
    <3>10. x > 1 => \E k \in 1..(x - 1) : M[k] = Star
      <4>1. x > 1 => x - 1 > 0
        BY <3>1
      <4>2. x > 1 => \E k \in 1..(x - 1) : P[k] = Star
        BY <3>6, <4>1
      <4> QED BY <3>8, <4>2
    <3>11. x < n => \E k \in (x + 1)..n : M[k] = Star
      <4> SUFFICES ASSUME x < n PROVE \E k \in (x + 1)..n : M[k] = Star
        OBVIOUS
      <4>1. PICK k \in 1..(n - x) : Q[k] = Star
        BY <1>1, <3>1, <3>7
      <4>2. x + k \in (x + 1)..n /\ M[x + k] = Star
        BY <1>1, <3>1, <3>8, <4>1
      <4> QED BY <4>2
    <3> QED BY <1>1, <1>2, <3>1, <3>2, <3>8, <3>9, <3>10, <3>11 DEF MaskHides, m
  <2> QED BY <2>1, <2>2
<1>3. ASSUME NEW a \in Nat, NEW b \in Nat, m = maskString(value, a, b), as # "email"
      PROVE  MaskHides(value, as)
  <2>1. /\ m \in Seq(Int) /\ Len(m) = n
        /\ \A k \in 1..n : m[k] = Star \/ m[k] = value[k]
        /\ n > 0 => \E k \in 1..n : m[k] = Star
    <3> HIDE DEF m
    <3> QED BY <1>3, StringIsHidden
  <2>2. value # <<>> => n > 0
    OBVIOUS
  <2>3. value # <<>> => \E k \in 1..n : m[k] = Star
    BY <2>1, <2>2
  <2> HIDE DEF n
  <2>4. Len(m) = n /\ \A k \in DOMAIN value : m[k] = Star \/ m[k] = value[k]
    BY <1>1, <2>1
  <2>5. value # <<>> => \E k \in DOMAIN value : m[k] = Star
    BY <1>1, <2>3
  <2> HIDE DEF m
  <2>6. /\ Len(m) = Len(value)
        /\ \A k \in DOMAIN value : m[k] = Star \/ m[k] = value[k]
        /\ IF as # "email" THEN value # <<>> => \E k \in DOMAIN value : m[k] = Star
           ELSE LET at == CHOOSE k \in DOMAIN value : value[k] = At IN
                /\ at > 1 => \E k \in 1..(at - 1) : m[k] = Star
                /\ at < Len(value) => \E k \in (at + 1)..Len(value) : m[k] = Star
    BY <1>3, <2>4, <2>5 DEF n
  <2> QED BY <2>6 DEF MaskHides, m
<1>4. CASE as = "number"
  <2>1. CASE n < 8
    <3>1. m = Stars(3)
      BY <1>4, <2>1 DEF Mask
    <3> QED BY <3>1 DEF MaskHides
  <2>2. CASE n = 8
    BY <1>4, <2>2 DEF MaskHides
  <2>3. CASE n > 8
    <3>1. n - 8 = n - 4 - 4 /\ n - 3 = n - 4 + 1 /\ ~ (n < 8) /\ ~ (n <= 4 + 4)
      BY <1>1, <2>3
    <3>2. m = SubSeq(value, 1, 4) \o Stars(n - 8) \o SubSeq(value, n - 3, n)
      BY <1>4, <3>1 DEF Mask
    <3>3. m = maskString(value, 4, 4)
      <4> HIDE DEF m
      <4> QED BY <3>1, <3>2 DEF maskString
    <3>4. as # "email" /\ 4 \in Nat
      BY <1>4
    <3> HIDE DEF m
    <3> QED BY <1>3, <3>3, <3>4
  <2>4. n < 8 \/ n = 8 \/ n > 8
    <3> HIDE DEF n
    <3> QED BY <1>1
  <2> QED BY <2>1, <2>2, <2>3, <2>4
<1>5. CASE as # "email" /\ as # "number"
  <2>1. m = maskString(value, 2, 2)
    BY <1>5 DEF Mask
  <2> QED BY <1>3, <1>5, <2>1
<1> QED BY <1>2, <1>4, <1>5

-----------------------------------------------------------------------------
(***************************************************************************)
(* Folds                                                                   *)
(***************************************************************************)
\* it takes the elements of the subsets of 1..n from the greatest down.
LeftFold(it, n, base, step) ==
  \A t \in SUBSET (1..n) :
    it[t] = IF t = {} THEN base ELSE step[<<it[t \ {Max(t)}], Max(t)>>]

LEMMA LeftFoldExists ==
  ASSUME NEW n \in Nat, NEW A, NEW base \in A, NEW step \in [A \X (1..n) -> A]
  PROVE  \E it \in [SUBSET (1..n) -> A] : LeftFold(it, n, base, step)
<1> DEFINE ch == [t \in SUBSET (1..n) |-> Max(t)]
<1>1. \A t \in SUBSET (1..n) : t # {} => Max(t) \in t
  BY GreatestIn
<1>2. \A t \in SUBSET (1..n) : ch[t] = Max(t)
  OBVIOUS
<1> HIDE DEF ch
<1>3. \A t \in SUBSET (1..n) : t # {} => ch[t] \in t
  BY <1>1, <1>2
<1>4. PICK it \in [SUBSET (1..n) -> A] : FoldsWith(it, n, base, step, ch)
  BY <1>3, FoldExists
<1>5. LeftFold(it, n, base, step)
  BY <1>2, <1>4 DEF LeftFold, FoldsWith
<1> QED BY <1>5

\* g acts like step on the states in A.
ActsLike(g, n, A, base, step) ==
  /\ g[{}] = base
  /\ \A t \in SUBSET (1..n) : t # {} /\ g[t \ {Max(t)}] \in A =>
       g[t] = step[<<g[t \ {Max(t)}], Max(t)>>]

\* f holds the states of the fold, from base on.
StepsOf(f, n, base, step) ==
  f[0] = base /\ \A k \in 1..n : f[k] = step[<<f[k - 1], k>>]

\* g ends where the steps from base end.
GoesThrough(g, n, A, base, step) ==
  \E f \in [0..n -> A] : StepsOf(f, n, base, step) /\ f[n] = g[1..n]

\* A fold from the left goes through its states: g is what the definition
\* chooses.
LEMMA LeftSteps ==
  ASSUME NEW n \in Nat, NEW A, NEW base \in A, NEW step \in [A \X (1..n) -> A], NEW g,
         ActsLike(g, n, A, base, step)
  PROVE  GoesThrough(g, n, A, base, step)
<1> DEFINE f == [k \in 0..n |-> g[1..k]]
           T == { k \in 0..n : f[k] \in A /\ (k > 0 => f[k] = step[<<f[k - 1], k>>]) }
<1>1. f[0] = base
  <2>1. 1..0 = {} /\ 0 \in 0..n
    OBVIOUS
  <2> QED BY <2>1 DEF ActsLike
<1>2. \A k \in 0..n : f[k] = g[1..k]
  OBVIOUS
<1> HIDE DEF f
<1>3. 0 \in T
  BY <1>1
<1>4. ASSUME NEW k \in 0..(n - 1), k \in T PROVE k + 1 \in T
  <2> DEFINE j == k + 1
             t == 1..j
  <2>1. j \in 1..n /\ j \in 0..n /\ k \in 0..n /\ j - 1 = k /\ j > 0 /\ j \in t
    OBVIOUS
  <2>2. t \in SUBSET (1..n) /\ \A y \in t : y \in Int /\ y <= j
    OBVIOUS
  <2>3. t \ {j} = 1..k
    OBVIOUS
  <2>4. f[k] \in A
    BY <1>4
  <2> HIDE DEF T
  <2>5. f[k] = g[1..k] /\ f[j] = g[t]
    BY <1>2, <2>1
  <2> HIDE DEF j, t
  <2>6. Max(t) \in t /\ \A y \in t : y <= Max(t)
    <3>1. t # {}
      BY <2>1
    <3> QED BY <2>2, <3>1, GreatestIn
  <2>7. Max(t) = j
    <3>1. Max(t) \in Int /\ Max(t) <= j
      BY <2>2, <2>6
    <3>2. j \in Int /\ j <= Max(t)
      BY <2>1, <2>2, <2>6
    <3> QED BY <3>1, <3>2
  <2>8. g[t] = step[<<g[t \ {Max(t)}], Max(t)>>]
    <3>1. t # {} /\ g[t \ {Max(t)}] \in A
      BY <2>1, <2>3, <2>4, <2>5, <2>7
    <3> QED BY <2>2, <3>1 DEF ActsLike
  <2>9. f[j] = step[<<f[k], j>>]
    BY <2>3, <2>5, <2>7, <2>8
  <2>10. f[j] \in A
    BY <2>1, <2>4, <2>9
  <2>11. j \in T
    BY <2>1, <2>9, <2>10 DEF T
  <2> QED BY <2>11 DEF j
<1>5. \A k \in 0..n : k \in T
  <2> HIDE DEF T
  <2> QED BY <1>3, <1>4, InductionUpTo
<1>6. \A k \in 0..n : f[k] \in A
  BY <1>5
<1>7. \A k \in 1..n : f[k] = step[<<f[k - 1], k>>]
  <2>1. \A k \in 1..n : k \in 0..n /\ k > 0
    OBVIOUS
  <2> QED BY <1>5, <2>1
<1>8. f \in [0..n -> A] /\ f[n] = g[1..n]
  <2>1. f \in [0..n -> A]
    <3>1. DOMAIN f = 0..n /\ f = [k \in 0..n |-> f[k]]
      BY DEF f
    <3> QED BY <1>6, <3>1
  <2> QED BY <1>2, <2>1
<1> QED BY <1>1, <1>7, <1>8 DEF StepsOf, GoesThrough

\* And from the right: the elements are taken from the least up.
RightFold(it, n, base, step) ==
  \A t \in SUBSET (1..n) :
    it[t] = IF t = {} THEN base ELSE step[<<it[t \ {Min(t)}], Min(t)>>]

ActsFromRight(g, n, A, base, step) ==
  /\ g[{}] = base
  /\ \A t \in SUBSET (1..n) : t # {} /\ g[t \ {Min(t)}] \in A =>
       g[t] = step[<<g[t \ {Min(t)}], Min(t)>>]

\* f holds the states, f[k] the one in front of the elements up to k.
StepsFromRight(f, n, base, step) ==
  f[n] = base /\ \A k \in 1..n : f[k - 1] = step[<<f[k], k>>]

ComesThrough(g, n, A, base, step) ==
  \E f \in [0..n -> A] : StepsFromRight(f, n, base, step) /\ f[0] = g[1..n]

LEMMA RightFoldExists ==
  ASSUME NEW n \in Nat, NEW A, NEW base \in A, NEW step \in [A \X (1..n) -> A]
  PROVE  \E it \in [SUBSET (1..n) -> A] : RightFold(it, n, base, step)
<1> DEFINE ch == [t \in SUBSET (1..n) |-> Min(t)]
<1>1. \A t \in SUBSET (1..n) : t # {} => Min(t) \in t
  BY LeastIn
<1>2. \A t \in SUBSET (1..n) : ch[t] = Min(t)
  OBVIOUS
<1> HIDE DEF ch
<1>3. \A t \in SUBSET (1..n) : t # {} => ch[t] \in t
  BY <1>1, <1>2
<1>4. PICK it \in [SUBSET (1..n) -> A] : FoldsWith(it, n, base, step, ch)
  BY <1>3, FoldExists
<1>5. RightFold(it, n, base, step)
  BY <1>2, <1>4 DEF RightFold, FoldsWith
<1> QED BY <1>5

LEMMA RightSteps ==
  ASSUME NEW n \in Nat, NEW A, NEW base \in A, NEW step \in [A \X (1..n) -> A], NEW g,
         ActsFromRight(g, n, A, base, step)
  PROVE  ComesThrough(g, n, A, base, step)
<1> DEFINE f == [k \in 0..n |-> g[(k + 1)..n]]
           T == { i \in 0..n : /\ f[n - i] \in A
                               /\ i > 0 => f[n - i] = step[<<f[n - i + 1], n - i + 1>>] }
<1>1. f[n] = base
  <2>1. (n + 1)..n = {} /\ n \in 0..n
    OBVIOUS
  <2> QED BY <2>1 DEF ActsFromRight
<1>2. \A k \in 0..n : f[k] = g[(k + 1)..n]
  OBVIOUS
<1> HIDE DEF f
<1>3. 0 \in T
  <2>1. n - 0 = n
    OBVIOUS
  <2> QED BY <1>1, <2>1
<1>4. ASSUME NEW i \in 0..(n - 1), i \in T PROVE i + 1 \in T
  <2> DEFINE k == n - i
             j == n - (i + 1)
             t == (j + 1)..n
  <2>1. /\ k \in 1..n /\ j \in 0..n /\ k \in 0..n /\ j + 1 = k /\ i + 1 \in 0..n
        /\ i + 1 > 0 /\ k \in t
    OBVIOUS
  <2>2. t \in SUBSET (1..n) /\ \A y \in t : y \in Int /\ k <= y
    OBVIOUS
  <2>3. t \ {k} = (k + 1)..n
    OBVIOUS
  <2>4. f[k] \in A
    BY <1>4
  <2> HIDE DEF T
  <2>5. f[k] = g[(k + 1)..n] /\ f[j] = g[t]
    BY <1>2, <2>1
  <2> HIDE DEF j, k, t
  <2>6. Min(t) \in t /\ \A y \in t : Min(t) <= y
    <3>1. t # {}
      BY <2>1
    <3> QED BY <2>2, <3>1, LeastIn
  <2>7. Min(t) = k
    <3>1. Min(t) \in Int /\ k <= Min(t)
      BY <2>2, <2>6
    <3>2. k \in Int /\ Min(t) <= k
      BY <2>1, <2>2, <2>6
    <3> QED BY <3>1, <3>2
  <2>8. g[t] = step[<<g[t \ {Min(t)}], Min(t)>>]
    <3>1. t # {} /\ g[t \ {Min(t)}] \in A
      BY <2>1, <2>3, <2>4, <2>5, <2>7
    <3> QED BY <2>2, <3>1 DEF ActsFromRight
  <2>9. f[j] = step[<<f[k], k>>]
    BY <2>3, <2>5, <2>7, <2>8
  <2>10. f[j] \in A
    BY <2>1, <2>4, <2>9
  <2>11. f[j] = step[<<f[j + 1], j + 1>>]
    BY <2>1, <2>9
  <2> QED BY <2>1, <2>10, <2>11 DEF T, j
<1>5. \A i \in 0..n : i \in T
  <2> HIDE DEF T
  <2> QED BY <1>3, <1>4, InductionUpTo
<1>6. ASSUME NEW k \in 0..n
      PROVE  f[k] \in A /\ (k < n => f[k] = step[<<f[k + 1], k + 1>>])
  <2>1. n - k \in 0..n /\ n - (n - k) = k /\ (k < n => n - k > 0)
    OBVIOUS
  <2>2. n - k \in T
    BY <1>5, <2>1
  <2> QED BY <2>1, <2>2
<1>7. \A k \in 1..n : f[k - 1] = step[<<f[k], k>>]
  <2>1. \A k \in 1..n : k - 1 \in 0..n /\ k - 1 < n /\ (k - 1) + 1 = k
    OBVIOUS
  <2> QED BY <1>6, <2>1
<1>8. f \in [0..n -> A] /\ f[0] = g[1..n]
  <2>1. f \in [0..n -> A]
    <3>1. DOMAIN f = 0..n /\ f = [k \in 0..n |-> f[k]]
      BY DEF f
    <3> QED BY <1>6, <3>1
  <2>2. 0 \in 0..n /\ 0 + 1 = 1
    OBVIOUS
  <2> QED BY <1>2, <2>1, <2>2
<1> QED BY <1>1, <1>7, <1>8 DEF StepsFromRight, ComesThrough

\* it takes the elements of the subsets of D in any order.
AddsUp(g, D, w) ==
  \A t \in SUBSET D :
    g[t] = IF t = {} THEN 0 ELSE LET x == CHOOSE y \in t : TRUE IN w[x] + g[t \ {x}]

\* G holds the sums of the w[k] with k in D that lie behind each place.
Sums(G, n, w, D) ==
  /\ G \in [0..n -> Int]
  /\ G[n] = 0
  /\ \A k \in 1..n : G[k - 1] = G[k] + (IF k \in D THEN w[k] ELSE 0)

\* A sum over a set does not depend on the order.
LEMMA SumOver ==
  ASSUME NEW n \in Nat, NEW w \in [1..n -> Int], NEW D \in SUBSET (1..n), NEW g,
         AddsUp(g, D, w), NEW G, Sums(G, n, w, D)
  PROVE  g[D] = G[0]
<1> DEFINE P(t) == \A H : Sums(H, n, w, t) => g[t] = H[0]
           T == { m \in Nat : \A t \in SUBSET D : Cardinality(t) = m => P(t) }
<1>1. IsFiniteSet(D) /\ Cardinality(D) \in 0..n
  <2> DEFINE I == 1..n
  <2>1. IsFiniteSet(I) /\ Cardinality(I) = n
    BY FS_Interval
  <2>2. D \in SUBSET I
    OBVIOUS
  <2> HIDE DEF I
  <2>3. IsFiniteSet(D) /\ Cardinality(D) <= n /\ Cardinality(D) \in Nat
    BY <2>1, <2>2, FS_Subset, FS_CardinalityType
  <2> QED BY <2>3
<1>2. \A t \in SUBSET D : IsFiniteSet(t) /\ Cardinality(t) \in Nat
  BY <1>1, FS_Subset, FS_CardinalityType
<1>3. 0 \in T
  <2> SUFFICES ASSUME NEW t \in SUBSET D, Cardinality(t) = 0, NEW H, Sums(H, n, w, t)
               PROVE  g[t] = H[0]
    OBVIOUS
  <2>1. t = {}
    BY <1>2, FS_EmptySet
  <2>2. g[t] = 0
    BY <2>1 DEF AddsUp
  <2> DEFINE Z == { k \in 0..n : H[n - k] = 0 }
  <2>3. H[n] = 0 /\ \A k \in 1..n : H[k - 1] = H[k]
    BY <2>1 DEF Sums
  <2>4. 0 \in Z
    <3>1. n - 0 = n
      OBVIOUS
    <3> QED BY <2>3, <3>1
  <2>5. \A k \in 0..(n - 1) : k \in Z => k + 1 \in Z
    <3> SUFFICES ASSUME NEW k \in 0..(n - 1), H[n - k] = 0 PROVE H[n - (k + 1)] = 0
      OBVIOUS
    <3>1. n - k \in 1..n /\ n - (k + 1) = (n - k) - 1
      OBVIOUS
    <3> QED BY <2>3, <3>1
  <2>6. \A k \in 0..n : k \in Z
    <3> HIDE DEF Z
    <3> QED BY <2>4, <2>5, InductionUpTo
  <2>7. n - n = 0 /\ n \in 0..n
    OBVIOUS
  <2> QED BY <2>2, <2>6, <2>7
<1>4. \A m \in 0..(n - 1) : m \in T => m + 1 \in T
  <2> SUFFICES ASSUME NEW m \in 0..(n - 1), m \in T PROVE m + 1 \in T
    OBVIOUS
  <2>10. m + 1 \in Nat /\ m + 1 # 0
    OBVIOUS
  <2> SUFFICES ASSUME NEW t \in SUBSET D, Cardinality(t) = m + 1, NEW H, Sums(H, n, w, t)
               PROVE  g[t] = H[0]
    BY <2>10
  <2> DEFINE x == CHOOSE y \in t : TRUE
             K == [k \in 0..n |-> IF k < x THEN H[k] - w[x] ELSE H[k]]
  <2>1. t # {}
    BY <2>10, FS_EmptySet
  <2>2. x \in t
    BY <2>1
  <2>3. g[t] = w[x] + g[t \ {x}]
    BY <2>1 DEF AddsUp
  <2> HIDE DEF x
  <2>4. Cardinality(t \ {x}) = m /\ t \ {x} \in SUBSET D
    BY <1>2, <2>2, FS_RemoveElement
  <2>5. x \in 1..n /\ w[x] \in Int
    BY <2>2
  <2>6. Sums(K, n, w, t \ {x})
    <3>1. /\ \A k \in 0..n : H[k] \in Int
          /\ H[n] = 0 /\ \A k \in 1..n : H[k - 1] = H[k] + (IF k \in t THEN w[k] ELSE 0)
      BY DEF Sums
    <3>2. K \in [0..n -> Int]
      BY <2>5, <3>1
    <3>3. K[n] = 0
      BY <2>5, <3>1
    <3>4. ASSUME NEW k \in 1..n
          PROVE  K[k - 1] = K[k] + (IF k \in t \ {x} THEN w[k] ELSE 0)
      <4>1. k \in 0..n /\ k - 1 \in 0..n /\ w[k] \in Int
        OBVIOUS
      <4>2. /\ K[k] = IF k < x THEN H[k] - w[x] ELSE H[k]
            /\ K[k - 1] = IF k - 1 < x THEN H[k - 1] - w[x] ELSE H[k - 1]
        BY <4>1
      <4>3. H[k - 1] = H[k] + (IF k \in t THEN w[k] ELSE 0)
        BY <3>1
      <4>4. H[k] \in Int /\ H[k - 1] \in Int
        BY <3>1, <4>1
      <4> HIDE DEF K
      <4>5. CASE k = x
        BY <2>2, <2>5, <4>2, <4>3, <4>4, <4>5
      <4>6. CASE k < x
        BY <2>5, <4>1, <4>2, <4>3, <4>4, <4>6
      <4>7. CASE k > x
        BY <2>5, <4>1, <4>2, <4>3, <4>4, <4>7
      <4> QED BY <2>5, <4>5, <4>6, <4>7
    <3> HIDE DEF K
    <3> QED BY <3>2, <3>3, <3>4 DEF Sums
  <2>7. K[0] = H[0] - w[x]
    BY <2>5
  <2> HIDE DEF K
  <2>8. g[t \ {x}] = K[0]
    BY <2>4, <2>6
  <2>9. H[0] \in Int
    BY DEF Sums
  <2> QED BY <2>3, <2>5, <2>7, <2>8, <2>9
<1>5. \A m \in 0..n : m \in T
  <2> HIDE DEF T
  <2> QED BY <1>3, <1>4, InductionUpTo
<1>6. P(D)
  BY <1>1, <1>5
<1> QED BY <1>6

\* What the definition of the sum chooses adds up.
LEMMA SumExists ==
  ASSUME NEW n \in Nat, NEW w \in [1..n -> Int], NEW D \in SUBSET (1..n)
  PROVE  \E g : g = [t \in SUBSET D |->
                       IF t = {} THEN 0
                       ELSE w[CHOOSE y \in t : TRUE] + g[t \ {CHOOSE y \in t : TRUE}]]
<1> DEFINE ch == [t \in SUBSET (1..n) |-> CHOOSE y \in t : TRUE]
           A == Int
           base == 0
           step == [p \in A \X (1..n) |-> w[p[2]] + p[1]]
<1>1. \A t \in SUBSET (1..n) : ch[t] = CHOOSE y \in t : TRUE
  OBVIOUS
<1>2. \A t \in SUBSET (1..n) : t # {} => (CHOOSE y \in t : TRUE) \in t
  OBVIOUS
<1> HIDE DEF ch
<1>3. \A t \in SUBSET (1..n) : t # {} => ch[t] \in t
  BY <1>1, <1>2
<1>4. step \in [A \X (1..n) -> A] /\ base \in A
  OBVIOUS
<1>5. \A x \in A, k \in 1..n : step[<<x, k>>] = w[k] + x
  OBVIOUS
<1> HIDE DEF step, A, base
<1>6. PICK it \in [SUBSET (1..n) -> A] : FoldsWith(it, n, base, step, ch)
  BY <1>3, <1>4, FoldExists
<1> DEFINE g == [t \in SUBSET D |-> it[t]]
<1>7. ASSUME NEW t \in SUBSET D
      PROVE  g[t] = IF t = {} THEN 0
                    ELSE w[CHOOSE y \in t : TRUE] + g[t \ {CHOOSE y \in t : TRUE}]
  <2> DEFINE x == CHOOSE y \in t : TRUE
  <2>1. t \in SUBSET (1..n) /\ ch[t] = x
    BY <1>1
  <2>2. CASE t = {}
    <3>1. it[t] = base
      BY <1>6, <2>1, <2>2 DEF FoldsWith
    <3> QED BY <2>2, <3>1 DEF base
  <2>3. CASE t # {}
    <3>1. x \in t
      BY <2>3
    <3> HIDE DEF x
    <3>2. it[t] = step[<<it[t \ {x}], x>>]
      BY <1>6, <2>1, <2>3 DEF FoldsWith
    <3>3. t \ {x} \in SUBSET (1..n) /\ t \ {x} \in SUBSET D /\ x \in 1..n
      BY <2>1, <3>1
    <3>4. it[t \ {x}] \in A
      BY <1>6, <3>3
    <3>5. it[t] = w[x] + it[t \ {x}]
      BY <1>5, <3>2, <3>3, <3>4
    <3>6. g[t] = w[x] + g[t \ {x}]
      BY <3>3, <3>5
    <3> QED BY <2>3, <3>6 DEF x
  <2> QED BY <2>2, <2>3
<1>8. g = [t \in SUBSET D |->
             IF t = {} THEN 0
             ELSE w[CHOOSE y \in t : TRUE] + g[t \ {CHOOSE y \in t : TRUE}]]
  <2>1. g = [t \in SUBSET D |-> g[t]]
    OBVIOUS
  <2> HIDE DEF g
  <2> QED BY <1>7, <2>1
<1> QED BY <1>8

-----------------------------------------------------------------------------
(***************************************************************************)
(* The tokenizer                                                           *)
(***************************************************************************)
ByteSet == { b \in (DOMAIN Width) \X (1..4) : b[2] <= Width[b[1]] }

TokenSet == [start : Int, end : Int]
LoopState == [at : Nat, start : Int, tokens : Seq(TokenSet)]

LEMMA ByteType ==
  ASSUME NEW b \in Seq(ByteSet), NEW i \in 1..Len(b)
  PROVE  /\ b[i] = <<b[i][1], b[i][2]>>
         /\ b[i][1] \in DOMAIN Width /\ b[i][2] \in 1..4
         /\ b[i][2] <= Width[b[i][1]]
         /\ Width[b[i][1]] \in 1..4
<1>1. b[i] \in ByteSet
  OBVIOUS
<1> QED BY <1>1, TokenizerAssumption DEF ByteSet

\* What the bytes from offset i on are, when they begin with a rune.
LEMMA WholeBytes ==
  ASSUME NEW b \in Seq(ByteSet), NEW i \in 0..(Len(b) - 1)
  PROVE  LET r == b[i + 1][1] IN
         Whole(b, i) => /\ i + Width[r] <= Len(b)
                        /\ \A k \in 1..Width[r] : b[i + k] = <<r, k>>
<1> DEFINE r == b[i + 1][1]
           w == Width[r]
           c == SubSeq(b, i + 1, i + w)
<1> SUFFICES ASSUME Whole(b, i)
    PROVE    i + w <= Len(b) /\ \A k \in 1..w : b[i + k] = <<r, k>>
  OBVIOUS
<1>1. w \in 1..4 /\ i \in Nat /\ Len(b) \in Nat
  <2>1. i + 1 \in 1..Len(b)
    OBVIOUS
  <2> QED BY <2>1, ByteType
<1>2. i + w <= Len(b) /\ c = [k \in 1..w |-> <<r, k>>]
  BY DEF Whole, Encoded
<1>3. ASSUME NEW k \in 1..w PROVE b[i + k] = <<r, k>>
  <2>1. c[k] = <<r, k>>
    BY <1>2
  <2>2. c[k] = b[i + 1 + k - 1]
    <3> HIDE DEF w
    <3>1. i + 1 \in Int /\ i + w \in Int /\ \A j \in (i + 1)..(i + w) : j \in 1..Len(b)
      BY <1>1, <1>2
    <3>2. \A j \in (i + 1)..(i + w) : b[j] \in ByteSet
      BY <3>1
    <3>3. k \in 1..(i + w) - (i + 1) + 1
      BY <1>1
    <3> QED BY <3>1, <3>2, <3>3, SubSeqProperties
  <2>3. i + 1 + k - 1 = i + k
    BY <1>1
  <2> QED BY <2>1, <2>2, <2>3
<1> QED BY <1>2, <1>3

\* The rune at an offset, and how far the loop goes.
LEMMA RuneAt ==
  ASSUME NEW b \in Seq(ByteSet), NEW i \in 0..(Len(b) - 1)
  PROVE  LET d == decodeRune(b, i)
             r == b[i + 1][1]
         IN
         /\ d.size \in 1..4
         /\ Whole(b, i) => d.rune = r /\ d.size = Width[r]
         /\ isWordRune(d.rune) => Whole(b, i) /\ isWordRune(r)
<1>1. i + 1 \in 1..Len(b)
  OBVIOUS
<1>2. Width[b[i + 1][1]] \in 1..4
  BY <1>1, ByteType
<1>3. ~ isWordRune(RuneError)
  BY TokenizerAssumption DEF isWordRune
<1>4. CASE Whole(b, i)
  BY <1>2, <1>4 DEF decodeRune
<1>5. CASE ~ Whole(b, i)
  BY <1>3, <1>5 DEF decodeRune
<1> QED BY <1>4, <1>5

\* One turn of the loop: it is not at this offset; it takes a word rune; or it
\* takes anything else, and the open token ends.
LEMMA Turn ==
  ASSUME NEW b \in Seq(ByteSet), NEW i \in 0..(Len(b) - 1), NEW s \in LoopState
  PROVE  LET e == Advance(b, s, i)
             r == b[i + 1][1]
         IN
         /\ e \in LoopState
         /\ \/ s.at # i /\ e = s
            \/ /\ s.at = i /\ Whole(b, i) /\ isWordRune(r)
               /\ e.at = i + Width[r] /\ e.tokens = s.tokens
               /\ e.start = IF s.start < 0 THEN i ELSE s.start
            \/ /\ s.at = i
               /\ Whole(b, i) => ~ isWordRune(r) /\ e.at = i + Width[r]
               /\ e.at \in Nat /\ e.at > i /\ e.start = -1
               /\ e.tokens = IF s.start < 0 THEN s.tokens
                             ELSE Append(s.tokens, Token(s.start, i))
<1> DEFINE d == decodeRune(b, i)
           r == b[i + 1][1]
           e == Advance(b, s, i)
<1>1. /\ d.size \in 1..4
      /\ Whole(b, i) => d.rune = r /\ d.size = Width[r]
      /\ isWordRune(d.rune) => Whole(b, i) /\ isWordRune(r)
  BY RuneAt
<1>2. /\ s = [at |-> s.at, start |-> s.start, tokens |-> s.tokens]
      /\ s.at \in Nat /\ s.start \in Int /\ s.tokens \in Seq(TokenSet) /\ i \in Nat
  BY DEF LoopState
<1>3. CASE s.at # i
  BY <1>3 DEF Advance
<1>4. CASE s.at = i /\ isWordRune(d.rune)
  <2>1. e = [s EXCEPT !.at = i + d.size, !.start = IF @ < 0 THEN i ELSE @]
    BY <1>4 DEF Advance
  <2> HIDE DEF d, e
  <2>2. e = [at |-> i + d.size, start |-> IF s.start < 0 THEN i ELSE s.start,
             tokens |-> s.tokens]
    BY <1>2, <2>1
  <2>3. i + d.size \in Nat /\ (IF s.start < 0 THEN i ELSE s.start) \in Int
    BY <1>1, <1>2
  <2>4. e \in LoopState
    BY <1>2, <2>2, <2>3 DEF LoopState
  <2>5. /\ e.at = i + d.size /\ e.tokens = s.tokens
        /\ e.start = IF s.start < 0 THEN i ELSE s.start
    BY <2>2
  <2> QED BY <1>1, <1>4, <2>4, <2>5 DEF e, d
<1>5. CASE s.at = i /\ ~ isWordRune(d.rune)
  <2> DEFINE more == IF s.start < 0 THEN s.tokens
                     ELSE Append(s.tokens, Token(s.start, i))
  <2>1. e = [at |-> i + d.size, start |-> -1, tokens |-> more]
    BY <1>5 DEF Advance
  <2>2. more \in Seq(TokenSet)
    <3>1. Token(s.start, i) \in TokenSet
      BY <1>2 DEF Token, TokenSet
    <3> HIDE DEF TokenSet
    <3> QED BY <1>2, <3>1, AppendProperties
  <2> HIDE DEF d, e, more
  <2>3. i + d.size \in Nat /\ i + d.size > i /\ -1 \in Int
    BY <1>1, <1>2
  <2>4. e \in LoopState
    BY <2>1, <2>2, <2>3 DEF LoopState
  <2>5. e.at = i + d.size /\ e.tokens = more /\ e.start = -1
    BY <2>1
  <2>6. Whole(b, i) => ~ isWordRune(r) /\ e.at = i + Width[r]
    BY <1>1, <1>5, <2>5
  <2> QED BY <1>5, <2>3, <2>4, <2>5, <2>6 DEF e, d, more
<1> QED BY <1>3, <1>4, <1>5

\* The tokenizer goes through the states of its loop.
LEMMA TokenizeSteps ==
  ASSUME NEW b \in Seq(ByteSet)
  PROVE  \E f \in [0..Len(b) -> LoopState] :
           /\ f[0] = [at |-> 0, start |-> -1, tokens |-> <<>>]
           /\ \A k \in 1..Len(b) : f[k] = Advance(b, f[k - 1], k - 1)
           /\ Tokenize(b) = IF f[Len(b)].start < 0 THEN f[Len(b)].tokens
                            ELSE Append(f[Len(b)].tokens,
                                        Token(f[Len(b)].start, Len(b)))
<1> DEFINE n == Len(b)
           A == LoopState
           base == [at |-> 0, start |-> -1, tokens |-> <<>>]
           q == [i \in 1..n |-> i - 1]
           step == [x \in A \X (1..n) |-> Advance(b, x[1], x[2] - 1)]
           Folds(it) == it = [t \in SUBSET (1..n) |->
                                IF t = {} THEN base
                                ELSE Advance(b, it[t \ {Max(t)}], q[Max(t)])]
           g == CHOOSE it : Folds(it)
           last == FoldLeft(LAMBDA t, i : Advance(b, t, i), base, q)
<1>1. n \in Nat /\ base \in A /\ DOMAIN q = 1..n
  BY EmptySeq DEF LoopState
<1>2. last = g[1..n]
  <2>1. last = (CHOOSE it : it = [t \in SUBSET DOMAIN q |->
                               IF t = {} THEN base
                               ELSE Advance(b, it[t \ {Max(t)}], q[Max(t)])])[DOMAIN q]
    BY Zenon DEF FoldLeft, MapThenFoldSet
  <2> HIDE DEF n, q, base
  <2> QED BY <1>1, <2>1, Zenon
<1>3. \A k \in 1..n : q[k] = k - 1 /\ k - 1 \in 0..(n - 1)
  BY <1>1
<1>4. step \in [A \X (1..n) -> A]
  <2>1. ASSUME NEW x \in A \X (1..n) PROVE Advance(b, x[1], x[2] - 1) \in A
    <3>1. x[1] \in A /\ x[2] - 1 \in 0..(n - 1)
      BY <1>3
    <3> QED BY <3>1, Turn
  <2> QED BY <2>1
<1> HIDE DEF n, A, base, q
<1>5. \A t \in SUBSET (1..n) : t # {} => Max(t) \in 1..n
  BY <1>1, GreatestIn
<1>6. \A x \in A, k \in 1..n : step[<<x, k>>] = Advance(b, x, q[k])
  BY <1>3
<1> HIDE DEF step
<1>7. PICK it \in [SUBSET (1..n) -> A] : LeftFold(it, n, base, step)
  BY <1>1, <1>4, LeftFoldExists
<1>8. Folds(it)
  <2>1. ASSUME NEW t \in SUBSET (1..n)
        PROVE  it[t] = IF t = {} THEN base
                       ELSE Advance(b, it[t \ {Max(t)}], q[Max(t)])
    <3>1. it[t \ {Max(t)}] \in A
      BY <1>7
    <3>2. it[t] = IF t = {} THEN base ELSE step[<<it[t \ {Max(t)}], Max(t)>>]
      BY <1>7 DEF LeftFold
    <3> QED BY <1>5, <1>6, <3>1, <3>2
  <2> QED BY <2>1
<1>9. Folds(g)
  <2> HIDE DEF Folds
  <2> QED BY <1>8
<1> HIDE DEF g
<1>10. \A t \in SUBSET (1..n) :
         g[t] = IF t = {} THEN base ELSE Advance(b, g[t \ {Max(t)}], q[Max(t)])
  BY <1>9
<1>11. g[{}] = base
  <2>1. {} \in SUBSET (1..n)
    OBVIOUS
  <2> QED BY <1>10, <2>1
<1>12. \A t \in SUBSET (1..n) : t # {} /\ g[t \ {Max(t)}] \in A =>
         g[t] = step[<<g[t \ {Max(t)}], Max(t)>>]
  BY <1>5, <1>6, <1>10
<1>16. ActsLike(g, n, A, base, step)
  BY <1>11, <1>12 DEF ActsLike
<1>17. PICK f \in [0..n -> A] : StepsOf(f, n, base, step) /\ f[n] = g[1..n]
  <2>1. n \in Nat /\ base \in A
    BY <1>1
  <2>2. GoesThrough(g, n, A, base, step)
    BY <1>4, <1>16, <2>1, LeftSteps, Zenon
  <2> QED BY <2>2 DEF GoesThrough
<1>13. f[0] = base /\ \A k \in 1..n : f[k] = step[<<f[k - 1], k>>]
  BY <1>17 DEF StepsOf
<1>14. \A k \in 1..n : f[k] = Advance(b, f[k - 1], k - 1)
  <2>1. ASSUME NEW k \in 1..n PROVE f[k - 1] \in A
    <3>1. k - 1 \in 0..n
      BY <1>1
    <3> QED BY <1>13, <3>1
  <2> SUFFICES ASSUME NEW k \in 1..n PROVE f[k] = Advance(b, f[k - 1], k - 1)
    OBVIOUS
  <2>2. f[k] = step[<<f[k - 1], k>>]
    BY <1>13
  <2>3. step[<<f[k - 1], k>>] = Advance(b, f[k - 1], q[k])
    BY <1>6, <2>1
  <2> QED BY <1>3, <2>2, <2>3
<1>15. Tokenize(b) = IF f[n].start < 0 THEN f[n].tokens
                     ELSE Append(f[n].tokens, Token(f[n].start, n))
  <2>1. Tokenize(b) = IF last.start < 0 THEN last.tokens
                      ELSE Append(last.tokens, Token(last.start, n))
    BY Zenon DEF Tokenize, base, q, n
  <2> HIDE DEF last
  <2> QED BY <1>2, <1>17, <2>1
<1> QED BY <1>13, <1>14, <1>15 DEF n, A, base

\* The bytes of a whole rune, each of which belongs to it.
LEMMA RuneBytes ==
  ASSUME NEW b \in Seq(ByteSet), NEW i \in 0..(Len(b) - 1), Whole(b, i)
  PROVE  /\ i + Width[b[i + 1][1]] \in (i + 1)..Len(b)
         /\ b[i + 1][2] = 1
         /\ \A j \in (i + 1)..(i + Width[b[i + 1][1]]) :
              /\ InRune(b, j)
              /\ b[j] = <<b[i + 1][1], j - i>>
              /\ InWord(b, j) <=> isWordRune(b[i + 1][1])
<1> DEFINE r == b[i + 1][1]
           w == Width[r]
<1>1. i + w <= Len(b) /\ \A k \in 1..w : b[i + k] = <<r, k>>
  BY WholeBytes
<1>2. w \in 1..4 /\ i \in Nat /\ Len(b) \in Nat
  <2>1. i + 1 \in 1..Len(b)
    OBVIOUS
  <2> QED BY <2>1, ByteType
<1> HIDE DEF w
<1>3. b[i + 1] = <<r, 1>>
  <2>1. 1 \in 1..w
    BY <1>2
  <2> QED BY <1>1, <2>1
<1>4. ASSUME NEW j \in (i + 1)..(i + w)
      PROVE  InRune(b, j) /\ b[j] = <<r, j - i>> /\ (InWord(b, j) <=> isWordRune(r))
  <2>1. j - i \in 1..w /\ i + (j - i) = j
    BY <1>2
  <2>2. b[j] = <<r, j - i>>
    BY <1>1, <2>1
  <2>3. b[j][1] = r /\ b[j][2] = j - i /\ j - (j - i) = i
    BY <1>2, <2>1, <2>2
  <2> HIDE DEF r
  <2>4. InRune(b, j)
    BY <1>2, <1>3, <2>3 DEF InRune
  <2> QED BY <2>2, <2>3, <2>4 DEF InWord
<1>5. i + w \in (i + 1)..Len(b) /\ b[i + 1][2] = 1
  BY <1>1, <1>2, <1>3
<1> QED BY <1>4, <1>5 DEF w

-----------------------------------------------------------------------------
\* A token of word runes only, and tokens in order.
GoodToken(b, t) ==
  /\ 0 <= t.start /\ t.start < t.end /\ t.end <= Len(b)
  /\ b[t.start + 1][2] = 1
  /\ \A j \in (t.start + 1)..t.end : InWord(b, j)

GoodTokens(b, ts) ==
  /\ ts \in Seq(TokenSet)
  /\ \A k \in 1..Len(ts) : GoodToken(b, ts[k])
  /\ \A j, k \in 1..Len(ts) : j < k => ts[j].end < ts[k].start

\* The tokens end before offset i.
EndBefore(ts, i) == \A k \in 1..Len(ts) : ts[k].end < i

LEMMA OneMoreToken ==
  ASSUME NEW b, NEW ts, GoodTokens(b, ts), NEW t \in TokenSet, GoodToken(b, t),
         EndBefore(ts, t.start)
  PROVE  GoodTokens(b, Append(ts, t)) /\ EndBefore(Append(ts, t), t.end + 1)
<1> DEFINE n == Len(ts)
           us == Append(ts, t)
<1>1. ts \in Seq(TokenSet) /\ n \in Nat
  BY DEF GoodTokens
<1>2. /\ us \in Seq(TokenSet) /\ Len(us) = n + 1 /\ us[n + 1] = t
      /\ \A k \in 1..n : us[k] = ts[k]
  BY <1>1, AppendProperties
<1>3. t.start \in Int /\ t.end \in Int /\ t.start < t.end
  BY DEF TokenSet, GoodToken
<1>4. \A k \in 1..n : ts[k].end \in Int /\ ts[k].end < t.start
  <2>1. \A k \in 1..n : ts[k] \in TokenSet
    BY <1>1
  <2> QED BY <2>1 DEF TokenSet, EndBefore
<1>5. \A k \in 1..n : GoodToken(b, ts[k])
  BY DEF GoodTokens
<1>6. \A j, k \in 1..n : j < k => ts[j].end < ts[k].start
  BY DEF GoodTokens
<1> HIDE DEF n, us
<1>7. \A k \in 1..(n + 1) : GoodToken(b, us[k])
  BY <1>1, <1>2, <1>5
<1>8. ASSUME NEW j \in 1..(n + 1), NEW k \in 1..(n + 1), j < k
      PROVE  us[j].end < us[k].start
  <2>1. j \in 1..n /\ us[j] = ts[j]
    BY <1>1, <1>2, <1>8
  <2>2. CASE k \in 1..n
    BY <1>2, <1>6, <1>8, <2>1, <2>2
  <2>3. CASE k = n + 1
    BY <1>2, <1>4, <2>1, <2>3
  <2> QED BY <1>1, <2>2, <2>3
<1>9. \A k \in 1..(n + 1) : us[k].end < t.end + 1
  <2> SUFFICES ASSUME NEW k \in 1..(n + 1) PROVE us[k].end < t.end + 1
    OBVIOUS
  <2>1. CASE k \in 1..n
    <3>1. us[k].end = ts[k].end /\ ts[k].end \in Int /\ ts[k].end < t.start
      BY <1>2, <1>4, <2>1
    <3> QED BY <1>3, <3>1
  <2>2. CASE k = n + 1
    BY <1>2, <1>3, <2>2
  <2> QED BY <1>1, <2>1, <2>2
<1> QED BY <1>2, <1>7, <1>8, <1>9 DEF GoodTokens, EndBefore, us

\* The loop in front of offset i.
OpenToken(b, s) ==
  /\ s.start < s.at /\ s.at <= Len(b)
  /\ b[s.start + 1][2] = 1
  /\ \A j \in (s.start + 1)..s.at : InWord(b, j)
  /\ EndBefore(s.tokens, s.start)

LoopInv(b, s, i) ==
  /\ s \in LoopState
  /\ s.at >= i
  /\ GoodTokens(b, s.tokens)
  /\ s.start < 0 => EndBefore(s.tokens, s.at)
  /\ s.start >= 0 => OpenToken(b, s)

LEMMA LoopStarts ==
  ASSUME NEW b
  PROVE  LoopInv(b, [at |-> 0, start |-> -1, tokens |-> <<>>], 0)
<1> DEFINE s == [at |-> 0, start |-> -1, tokens |-> <<>>]
<1>1. s \in LoopState /\ s.at = 0 /\ s.start = -1 /\ s.tokens = <<>>
  BY EmptySeq DEF LoopState
<1>2. <<>> \in Seq(TokenSet) /\ Len(<<>>) = 0
  BY EmptySeq
<1> HIDE DEF s
<1>3. GoodTokens(b, s.tokens) /\ EndBefore(s.tokens, s.at)
  <2>1. s.tokens \in Seq(TokenSet) /\ 1..Len(s.tokens) = {}
    BY <1>1, <1>2
  <2> QED BY <2>1 DEF GoodTokens, EndBefore
<1>4. ~ (s.start >= 0)
  BY <1>1
<1> QED BY <1>1, <1>3, <1>4 DEF LoopInv, s

LEMMA LaterBound ==
  ASSUME NEW ts \in Seq(TokenSet), NEW i \in Int, NEW j \in Int, i <= j, EndBefore(ts, i)
  PROVE  EndBefore(ts, j)
<1>1. \A k \in 1..Len(ts) : ts[k].end \in Int
  <2>1. \A k \in 1..Len(ts) : ts[k] \in TokenSet
    OBVIOUS
  <2> QED BY <2>1 DEF TokenSet
<1> QED BY <1>1 DEF EndBefore

LEMMA LoopGoesOn ==
  ASSUME NEW b \in Seq(ByteSet), NEW i \in 0..(Len(b) - 1), NEW s, LoopInv(b, s, i)
  PROVE  LoopInv(b, Advance(b, s, i), i + 1)
<1> DEFINE e == Advance(b, s, i)
           r == b[i + 1][1]
<1>1. s \in LoopState /\ s.at \in Nat /\ s.start \in Int /\ s.tokens \in Seq(TokenSet)
      /\ i \in Nat /\ Len(b) \in Nat
  BY DEF LoopInv, LoopState
<1>2. /\ e \in LoopState
      /\ \/ s.at # i /\ e = s
         \/ /\ s.at = i /\ Whole(b, i) /\ isWordRune(r)
            /\ e.at = i + Width[r] /\ e.tokens = s.tokens
            /\ e.start = IF s.start < 0 THEN i ELSE s.start
         \/ /\ s.at = i
            /\ Whole(b, i) => ~ isWordRune(r) /\ e.at = i + Width[r]
            /\ e.at \in Nat /\ e.at > i /\ e.start = -1
            /\ e.tokens = IF s.start < 0 THEN s.tokens
                          ELSE Append(s.tokens, Token(s.start, i))
  BY <1>1, Turn
<1> HIDE DEF e
<1>3. CASE s.at # i /\ e = s
  <2>1. e.at >= i + 1
    BY <1>1, <1>3 DEF LoopInv
  <2> QED BY <1>3, <2>1 DEF LoopInv, e
<1>4. CASE /\ s.at = i /\ Whole(b, i) /\ isWordRune(r)
           /\ e.at = i + Width[r] /\ e.tokens = s.tokens
           /\ e.start = IF s.start < 0 THEN i ELSE s.start
  <2>1. /\ e.at \in (i + 1)..Len(b) /\ b[i + 1][2] = 1
        /\ \A j \in (i + 1)..e.at : InWord(b, j)
    BY <1>4, RuneBytes
  <2>2. CASE s.start < 0
    <3>1. e.start = i /\ EndBefore(e.tokens, e.start)
      BY <1>4, <2>2 DEF LoopInv
    <3>2. OpenToken(b, e)
      BY <1>1, <2>1, <3>1 DEF OpenToken
    <3> QED BY <1>1, <1>2, <1>4, <2>1, <3>1, <3>2 DEF LoopInv, e
  <2>3. CASE ~ (s.start < 0)
    <3>1. e.start = s.start /\ OpenToken(b, s) /\ s.at = i
      BY <1>1, <1>4, <2>3 DEF LoopInv
    <3>2. \A j \in (e.start + 1)..e.at : InWord(b, j)
      <4> SUFFICES ASSUME NEW j \in (e.start + 1)..e.at PROVE InWord(b, j)
        OBVIOUS
      <4>1. j \in (s.start + 1)..i \/ j \in (i + 1)..e.at
        BY <1>1, <2>1, <3>1
      <4> QED BY <2>1, <3>1, <4>1 DEF OpenToken
    <3>3. OpenToken(b, e)
      BY <1>1, <1>4, <2>1, <3>1, <3>2 DEF OpenToken
    <3> QED BY <1>1, <1>2, <1>4, <2>1, <2>3, <3>1, <3>3 DEF LoopInv, e
  <2> QED BY <2>2, <2>3
<1>5. CASE /\ s.at = i /\ e.at \in Nat /\ e.at > i /\ e.start = -1
           /\ e.tokens = IF s.start < 0 THEN s.tokens
                         ELSE Append(s.tokens, Token(s.start, i))
  <2>1. GoodTokens(b, e.tokens) /\ EndBefore(e.tokens, e.at)
    <3>1. CASE s.start < 0
      <4>1. e.tokens = s.tokens /\ GoodTokens(b, s.tokens) /\ EndBefore(s.tokens, i)
        BY <1>5, <3>1 DEF LoopInv
      <4>2. i \in Int /\ e.at \in Int /\ i <= e.at
        BY <1>1, <1>5
      <4> QED BY <1>1, <4>1, <4>2, LaterBound
    <3>2. CASE ~ (s.start < 0)
      <4> DEFINE t == Token(s.start, i)
                 us == Append(s.tokens, t)
      <4>1. OpenToken(b, s) /\ s.at = i /\ s.start >= 0
        BY <1>1, <1>5, <3>2 DEF LoopInv
      <4>2. t \in TokenSet /\ t.start = s.start /\ t.end = i
        BY <1>1 DEF Token, TokenSet
      <4> HIDE DEF t
      <4>3. GoodToken(b, t) /\ EndBefore(s.tokens, t.start)
        BY <1>1, <4>1, <4>2 DEF OpenToken, GoodToken
      <4>4. GoodTokens(b, s.tokens)
        BY DEF LoopInv
      <4>5. GoodTokens(b, us) /\ EndBefore(us, t.end + 1)
        BY <4>2, <4>3, <4>4, OneMoreToken
      <4>6. e.tokens = us
        BY <1>5, <3>2 DEF t
      <4> HIDE DEF us
      <4>7. i + 1 \in Int /\ e.at \in Int /\ i + 1 <= e.at /\ us \in Seq(TokenSet)
        BY <1>1, <1>5, <4>5 DEF GoodTokens
      <4>8. EndBefore(us, e.at)
        BY <4>2, <4>5, <4>7, LaterBound
      <4> QED BY <4>5, <4>6, <4>8
    <3> QED BY <3>1, <3>2
  <2>2. e.at >= i + 1 /\ ~ (e.start >= 0)
    BY <1>1, <1>5
  <2>3. e \in LoopState
    BY <1>2
  <2>4. LoopInv(b, e, i + 1)
    BY <2>1, <2>2, <2>3 DEF LoopInv
  <2> QED BY <2>4 DEF e
<1> QED BY <1>2, <1>3, <1>4, <1>5

\* Every state of the loop, and what comes of the last one.
LEMMA TokensAreGood ==
  ASSUME NEW b \in Seq(ByteSet)
  PROVE  GoodTokens(b, Tokenize(b))
<1> DEFINE n == Len(b)
<1>1. n \in Nat
  OBVIOUS
<1>2. PICK f \in [0..n -> LoopState] :
        /\ f[0] = [at |-> 0, start |-> -1, tokens |-> <<>>]
        /\ \A k \in 1..n : f[k] = Advance(b, f[k - 1], k - 1)
        /\ Tokenize(b) = IF f[n].start < 0 THEN f[n].tokens
                         ELSE Append(f[n].tokens, Token(f[n].start, n))
  BY TokenizeSteps
<1> DEFINE T == { k \in 0..n : LoopInv(b, f[k], k) }
<1>3. 0 \in T
  BY <1>1, <1>2, LoopStarts
<1>4. ASSUME NEW k \in 0..(n - 1), k \in T PROVE k + 1 \in T
  <2>1. k + 1 \in 1..n /\ k + 1 \in 0..n /\ (k + 1) - 1 = k
    BY <1>1
  <2>2. f[k + 1] = Advance(b, f[k], k)
    BY <1>2, <2>1
  <2>3. LoopInv(b, f[k], k)
    BY <1>4
  <2>4. LoopInv(b, Advance(b, f[k], k), k + 1)
    BY <2>3, LoopGoesOn
  <2> QED BY <2>1, <2>2, <2>4
<1>5. \A k \in 0..n : k \in T
  <2> HIDE DEF T, n
  <2> QED BY <1>1, <1>3, <1>4, InductionUpTo
<1> DEFINE s == f[n]
           t == Token(s.start, n)
<1>6. LoopInv(b, s, n)
  BY <1>1, <1>5
<1>7. s.start \in Int /\ s.at \in Nat
  BY <1>6 DEF LoopInv, LoopState
<1>8. Tokenize(b) = IF s.start < 0 THEN s.tokens ELSE Append(s.tokens, t)
  BY <1>2
<1> HIDE DEF s
<1>9. CASE s.start < 0
  BY <1>6, <1>8, <1>9 DEF LoopInv
<1>10. CASE ~ (s.start < 0)
  <2>1. OpenToken(b, s) /\ GoodTokens(b, s.tokens)
    BY <1>6, <1>7, <1>10 DEF LoopInv
  <2>2. s.at = n
    BY <1>1, <1>6, <1>7, <2>1 DEF LoopInv, OpenToken
  <2>3. t \in TokenSet /\ t.start = s.start /\ t.end = n
    BY <1>1, <1>7 DEF Token, TokenSet
  <2> HIDE DEF t
  <2>4. GoodToken(b, t) /\ EndBefore(s.tokens, t.start)
    BY <1>1, <1>7, <1>10, <2>1, <2>2, <2>3 DEF OpenToken, GoodToken
  <2> QED BY <1>8, <1>10, <2>1, <2>3, <2>4, OneMoreToken
<1> QED BY <1>9, <1>10

\* No two names share a byte, in any text (pii/names.go:24-32).
THEOREM NamesNeverMeet ==
  ASSUME NEW b \in Seq(ByteSet)
  PROVE  NamesDoNotMeet(b)
<1> DEFINE ts == Tokenize(b)
           n == Len(ts)
           Runes(i) == RunesOf(b, ts[i])
           Given == { i \in DOMAIN ts : /\ IsCapitalizedRunes(Runes(i))
                                        /\ IsLikelyFirstNameRunes(Runes(i)) }
           Pair(i) == i + 1 \in DOMAIN ts /\ IsSurname(Runes(i + 1))
           last(i) == IF Pair(i) THEN i + 1 ELSE i
           name(i) == [start |-> ts[i].start, end |-> ts[last(i)].end,
                       conf |-> IF Pair(i) THEN 85 ELSE 65]
<1>1. runNamePassOnBytes(b) = { name(i) : i \in Given }
  BY Zenon DEF runNamePassOnBytes
<1>2. GoodTokens(b, ts)
  BY TokensAreGood
<1> HIDE DEF ts
<1>3. DOMAIN ts = 1..n /\ n \in Nat
  BY <1>2 DEF GoodTokens
<1>4. \A i \in 1..n : ts[i].start \in Int /\ ts[i].end \in Int
  <2>1. \A i \in 1..n : ts[i] \in TokenSet
    BY <1>2 DEF GoodTokens
  <2> QED BY <2>1 DEF TokenSet
<1>5. \A i, j \in 1..n : i < j => ts[i].end < ts[j].start
  BY <1>2 DEF GoodTokens
<1>6. \A i \in Given : i \in 1..n /\ ~ IsSurname(Runes(i))
  BY <1>3 DEF IsSurname
<1>7. \A i \in Given : Pair(i) => i + 1 \in 1..n /\ IsSurname(Runes(i + 1))
  BY <1>3
<1> HIDE DEF Given, Pair, Runes, n
<1>8. ASSUME NEW i \in Given, NEW j \in Given, i < j
      PROVE  name(i).end <= name(j).start
  <2>1. last(i) \in 1..n /\ last(i) < j
    <3>1. CASE Pair(i)
      <4>1. i + 1 # j /\ last(i) = i + 1
        BY <1>6, <1>7, <3>1
      <4> QED BY <1>3, <1>6, <1>7, <1>8, <3>1, <4>1
    <3>2. CASE ~ Pair(i)
      BY <1>6, <1>8, <3>2
    <3> QED BY <3>1, <3>2
  <2> DEFINE l == last(i)
  <2>2. name(i).end = ts[l].end /\ name(j).start = ts[j].start
    OBVIOUS
  <2>3. l \in 1..n /\ j \in 1..n /\ l < j
    BY <1>6, <2>1
  <2> HIDE DEF name, l
  <2>4. ts[l].end < ts[j].start /\ ts[l].end \in Int /\ ts[j].start \in Int
    BY <1>4, <1>5, <2>3
  <2> QED BY <2>2, <2>4
<1> HIDE DEF name
<1>9. ASSUME NEW x \in runNamePassOnBytes(b), NEW y \in runNamePassOnBytes(b), x # y
      PROVE  x.end <= y.start \/ y.end <= x.start
  <2>1. PICK i \in Given : x = name(i)
    BY <1>1
  <2>2. PICK j \in Given : y = name(j)
    BY <1>1
  <2>3. i # j /\ i \in 1..n /\ j \in 1..n
    BY <1>6, <1>9, <2>1, <2>2
  <2>4. i < j \/ j < i
    BY <1>3, <2>3
  <2> QED BY <1>8, <2>1, <2>2, <2>4
<1> QED BY <1>9 DEF NamesDoNotMeet

-----------------------------------------------------------------------------
\* A token goes as far as its word.
Maximal(b, t) ==
  /\ t.start > 0 => ~ InWord(b, t.start)
  /\ t.end < Len(b) => ~ InWord(b, t.end + 1)

\* A token holds the byte.
Holds(ts, j) == \E k \in 1..Len(ts) : ts[k].start < j /\ j <= ts[k].end

\* The loop in front of offset i of a valid text.
ValidInv(b, s) ==
  /\ s.at <= Len(b)
  /\ s.at < Len(b) => Whole(b, s.at)
  /\ \A k \in 1..Len(s.tokens) : Maximal(b, s.tokens[k])
  /\ s.start > 0 => ~ InWord(b, s.start)
  /\ s.start < 0 /\ s.at > 0 => ~ InWord(b, s.at)
  /\ \A j \in 1..s.at :
       InWord(b, j) => Holds(s.tokens, j) \/ (s.start >= 0 /\ s.start < j)

\* Behind a rune of a valid text comes another one.
LEMMA NextRune ==
  ASSUME NEW b \in Seq(ByteSet), Valid(b), NEW i \in 0..(Len(b) - 1), Whole(b, i),
         i + Width[b[i + 1][1]] < Len(b)
  PROVE  Whole(b, i + Width[b[i + 1][1]])
<1> DEFINE r == b[i + 1][1]
           m == i + Width[r]
           j == m + 1
           k == b[j][2]
           first == j - k
<1>1. m \in (i + 1)..Len(b) /\ b[m] = <<r, m - i>> /\ m - i = Width[r]
  <2>1. Width[r] \in 1..4 /\ i \in Nat /\ Len(b) \in Nat
    <3>1. i + 1 \in 1..Len(b)
      OBVIOUS
    <3> QED BY <3>1, ByteType
  <2>2. i + Width[r] \in (i + 1)..Len(b)
    BY RuneBytes
  <2>3. i + Width[r] \in (i + 1)..(i + Width[r]) /\ (i + Width[r]) - i = Width[r]
    BY <2>1
  <2>4. b[i + Width[r]] = <<r, (i + Width[r]) - i>>
    BY <2>3, RuneBytes
  <2> QED BY <2>2, <2>3, <2>4
<1>2. m < Len(b) /\ Len(b) \in Nat /\ i \in Nat
  OBVIOUS
<1> HIDE DEF r, m
<1>3. j \in 1..Len(b) /\ m \in Nat /\ j - 1 = m
  BY <1>1, <1>2
<1>4. InRune(b, j)
  <2>1. DOMAIN b = 1..Len(b)
    OBVIOUS
  <2> QED BY <1>3, <2>1 DEF Valid
<1>5. k \in 1..4
  BY <1>3, ByteType
<1>6. first >= 0 /\ b[first + 1] = <<b[j][1], 1>> /\ Whole(b, first)
  BY <1>4 DEF InRune
<1>7. CASE k = 1
  BY <1>3, <1>6, <1>7 DEF m, r
<1>8. CASE k > 1
  <2>1. first \in 0..(Len(b) - 1) /\ m - first = k - 1 /\ first + (k - 1) = m
    <3>1. first >= 0
      BY <1>6
    <3> HIDE DEF k
    <3>2. first = m + 1 - k
      BY <1>3, <1>5
    <3> HIDE DEF first
    <3> QED BY <1>2, <1>3, <1>5, <1>8, <3>1, <3>2
  <2> DEFINE c == b[j][1]
  <2>2. b[first + 1][1] = c
    BY <1>6
  <2>3. k <= Width[c] /\ Width[c] \in 1..4
    BY <1>3, ByteType
  <2>4. \A l \in 1..Width[c] : b[first + l] = <<c, l>>
    <3> HIDE DEF first
    <3> QED BY <1>6, <2>1, <2>2, WholeBytes
  <2>5. k - 1 \in 1..Width[c] /\ first + (k - 1) = m
    <3>1. k \in 1..4 /\ k > 1 /\ k <= Width[c]
      BY <1>5, <1>8, <2>3
    <3> HIDE DEF k, first, c
    <3> QED BY <2>1, <2>3, <3>1
  <2>6. b[m] = <<c, k - 1>>
    BY <2>4, <2>5
  <2> HIDE DEF c, k
  <2>7. c = r /\ k - 1 = m - i
    BY <1>1, <2>6
  <2>8. k - 1 = Width[c]
    BY <1>1, <2>7
  <2> QED BY <1>5, <2>3, <2>8
<1> QED BY <1>5, <1>7, <1>8

LEMMA ValidStarts ==
  ASSUME NEW b \in Seq(ByteSet), Valid(b)
  PROVE  ValidInv(b, [at |-> 0, start |-> -1, tokens |-> <<>>])
<1> DEFINE s == [at |-> 0, start |-> -1, tokens |-> <<>>]
<1>1. s.at = 0 /\ s.start = -1 /\ s.tokens = <<>> /\ Len(<<>>) = 0
  OBVIOUS
<1>2. Len(b) > 0 => Whole(b, 0)
  <2> SUFFICES ASSUME Len(b) > 0 PROVE Whole(b, 0)
    OBVIOUS
  <2>1. 1 \in 1..Len(b) /\ DOMAIN b = 1..Len(b)
    OBVIOUS
  <2>2. InRune(b, 1) /\ b[1][2] \in 1..4
    BY <2>1, ByteType DEF Valid
  <2>3. 1 - b[1][2] >= 0 /\ Whole(b, 1 - b[1][2])
    BY <2>2 DEF InRune
  <2>4. 1 - b[1][2] = 0
    BY <2>2, <2>3
  <2> QED BY <2>3, <2>4
<1> HIDE DEF s
<1>3. Len(b) \in Nat /\ 1..s.at = {} /\ 1..Len(s.tokens) = {}
  BY <1>1
<1>4. s.at <= Len(b) /\ (s.at < Len(b) => Whole(b, s.at))
  BY <1>1, <1>2, <1>3
<1>5. ~ (s.start > 0) /\ ~ (s.at > 0)
  BY <1>1
<1> QED BY <1>3, <1>4, <1>5 DEF ValidInv, s

LEMMA HoldsMore ==
  ASSUME NEW ts \in Seq(TokenSet), NEW t \in TokenSet, NEW j \in Int
  PROVE  Holds(Append(ts, t), j) <=> Holds(ts, j) \/ (t.start < j /\ j <= t.end)
<1> DEFINE n == Len(ts)
           us == Append(ts, t)
<1>1. n \in Nat /\ Len(us) = n + 1 /\ us[n + 1] = t /\ \A k \in 1..n : us[k] = ts[k]
  BY AppendProperties
<1> HIDE DEF us, n
<1>2. \A k \in 1..(n + 1) : k \in 1..n \/ k = n + 1
  BY <1>1
<1>3. n + 1 \in 1..(n + 1) /\ \A k \in 1..n : k \in 1..(n + 1)
  BY <1>1
<1> QED BY <1>1, <1>2, <1>3 DEF Holds, us, n

LEMMA ValidGoesOn ==
  ASSUME NEW b \in Seq(ByteSet), Valid(b), NEW i \in 0..(Len(b) - 1), NEW s,
         LoopInv(b, s, i), ValidInv(b, s)
  PROVE  ValidInv(b, Advance(b, s, i))
<1> DEFINE e == Advance(b, s, i)
           r == b[i + 1][1]
           m == i + Width[r]
<1>1. s \in LoopState /\ s.at \in Nat /\ s.start \in Int /\ s.tokens \in Seq(TokenSet)
      /\ i \in Nat /\ Len(b) \in Nat /\ i < Len(b)
  BY DEF LoopInv, LoopState
<1>2. /\ e \in LoopState
      /\ \/ s.at # i /\ e = s
         \/ /\ s.at = i /\ Whole(b, i) /\ isWordRune(r)
            /\ e.at = i + Width[r] /\ e.tokens = s.tokens
            /\ e.start = IF s.start < 0 THEN i ELSE s.start
         \/ /\ s.at = i
            /\ Whole(b, i) => ~ isWordRune(r) /\ e.at = i + Width[r]
            /\ e.at \in Nat /\ e.at > i /\ e.start = -1
            /\ e.tokens = IF s.start < 0 THEN s.tokens
                          ELSE Append(s.tokens, Token(s.start, i))
  <2>1. s \in LoopState
    BY <1>1
  <2> QED BY <2>1, Turn
<1> HIDE DEF e
<1>3. CASE s.at # i /\ e = s
  BY <1>3 DEF e
<1>4. CASE s.at = i
  <2>1. Whole(b, i)
    BY <1>1, <1>4 DEF ValidInv
  <2>2. /\ m \in (i + 1)..Len(b)
        /\ \A j \in (i + 1)..m : InWord(b, j) <=> isWordRune(r)
    BY <2>1, RuneBytes
  <2>3. m < Len(b) => Whole(b, m)
    BY <2>1, NextRune
  <2> HIDE DEF m, r
  <2>4. m \in Nat /\ m > 0 /\ i + 1 <= m
    BY <1>1, <2>2
  <2>5. i + 1 \in (i + 1)..m /\ m \in (i + 1)..m
        /\ \A j \in 1..m : j \in 1..i \/ j \in (i + 1)..m
    BY <1>1, <2>4
  <2>6. \A j \in 1..i :
          InWord(b, j) => Holds(s.tokens, j) \/ (s.start >= 0 /\ s.start < j)
    BY <1>4 DEF ValidInv
  <2>7. \A k \in 1..Len(s.tokens) : Maximal(b, s.tokens[k])
    BY DEF ValidInv
  <2>8. CASE /\ isWordRune(r) /\ e.at = m /\ e.tokens = s.tokens
             /\ e.start = IF s.start < 0 THEN i ELSE s.start
    <3>1. e.start >= 0 /\ e.start <= i
      <4>1. CASE s.start < 0
        BY <1>1, <2>8, <4>1
      <4>2. CASE ~ (s.start < 0)
        BY <1>1, <1>4, <2>8, <4>2 DEF LoopInv, OpenToken
      <4> QED BY <4>1, <4>2
    <3>2. e.start > 0 => ~ InWord(b, e.start)
      BY <1>1, <1>4, <2>8 DEF ValidInv
    <3>3. ASSUME NEW j \in 1..m, InWord(b, j)
          PROVE  Holds(e.tokens, j) \/ (e.start >= 0 /\ e.start < j)
      <4>1. CASE j \in 1..i
        BY <1>1, <2>6, <2>8, <3>3, <4>1
      <4>2. CASE j \in (i + 1)..m
        <5>1. e.start \in Int /\ e.start < j
          BY <1>1, <1>2, <2>4, <3>1, <4>2 DEF LoopState
        <5> QED BY <3>1, <5>1
      <4> QED BY <2>5, <4>1, <4>2
    <3>4. ~ (e.start < 0)
      BY <1>1, <2>8
    <3> QED BY <2>2, <2>3, <2>4, <2>7, <2>8, <3>2, <3>3, <3>4 DEF ValidInv, e
  <2>9. CASE /\ ~ isWordRune(r) /\ e.at = m /\ e.start = -1
             /\ e.tokens = IF s.start < 0 THEN s.tokens
                           ELSE Append(s.tokens, Token(s.start, i))
    <3>1. ~ InWord(b, i + 1) /\ ~ InWord(b, m) /\ \A j \in (i + 1)..m : ~ InWord(b, j)
      BY <2>2, <2>5, <2>9
    <3>2. /\ \A k \in 1..Len(e.tokens) : Maximal(b, e.tokens[k])
          /\ \A j \in 1..i : InWord(b, j) => Holds(e.tokens, j)
      <4>1. CASE s.start < 0
        BY <1>1, <2>6, <2>7, <2>9, <4>1
      <4>2. CASE ~ (s.start < 0)
        <5> DEFINE t == Token(s.start, i)
                   ts == s.tokens
                   us == Append(ts, t)
        <5>1. t \in TokenSet /\ t.start = s.start /\ t.end = i
          BY <1>1 DEF Token, TokenSet
        <5>2. e.tokens = us
          BY <2>9, <4>2
        <5>3. Maximal(b, t)
          BY <3>1, <5>1 DEF Maximal, ValidInv
        <5> HIDE DEF t
        <5>4. /\ Len(us) = Len(ts) + 1 /\ us[Len(ts) + 1] = t /\ Len(ts) \in Nat
              /\ \A k \in 1..Len(ts) : us[k] = ts[k]
          BY <1>1, <5>1, AppendProperties
        <5>5. ASSUME NEW j \in 1..i, InWord(b, j) PROVE Holds(us, j)
          <6>1. Holds(ts, j) \/ (t.start < j /\ j <= t.end)
            BY <1>1, <2>6, <5>1, <5>5
          <6>2. j \in Int
            OBVIOUS
          <6> QED BY <1>1, <5>1, <6>1, <6>2, HoldsMore
        <5> HIDE DEF us
        <5>6. \A k \in 1..Len(us) : Maximal(b, us[k])
          <6> SUFFICES ASSUME NEW k \in 1..Len(us) PROVE Maximal(b, us[k])
            OBVIOUS
          <6>1. CASE k \in 1..Len(ts)
            BY <2>7, <5>4, <6>1
          <6>2. CASE k = Len(ts) + 1
            BY <5>3, <5>4, <6>2
          <6> QED BY <5>4, <6>1, <6>2
        <5> QED BY <5>2, <5>5, <5>6
      <4> QED BY <4>1, <4>2
    <3>3. ~ (e.start > 0)
      BY <2>9
    <3> QED BY <2>2, <2>3, <2>4, <2>5, <2>9, <3>1, <3>2, <3>3 DEF ValidInv, e
  <2> QED BY <1>2, <1>4, <2>1, <2>8, <2>9 DEF m
<1> QED BY <1>2, <1>3, <1>4

\* The tokens of a valid text go as far as their words, and hold them all.
LEMMA ValidTokens ==
  ASSUME NEW b \in Seq(ByteSet), Valid(b)
  PROVE  LET ts == Tokenize(b) IN
         /\ \A k \in 1..Len(ts) : Maximal(b, ts[k])
         /\ \A j \in 1..Len(b) : InWord(b, j) => Holds(ts, j)
<1> DEFINE n == Len(b)
           ts == Tokenize(b)
<1>1. n \in Nat
  OBVIOUS
<1>2. PICK f \in [0..n -> LoopState] :
        /\ f[0] = [at |-> 0, start |-> -1, tokens |-> <<>>]
        /\ \A k \in 1..n : f[k] = Advance(b, f[k - 1], k - 1)
        /\ ts = IF f[n].start < 0 THEN f[n].tokens
                ELSE Append(f[n].tokens, Token(f[n].start, n))
  BY TokenizeSteps
<1> DEFINE T == { k \in 0..n : LoopInv(b, f[k], k) /\ ValidInv(b, f[k]) }
<1>3. 0 \in T
  BY <1>1, <1>2, LoopStarts, ValidStarts
<1>4. ASSUME NEW k \in 0..(n - 1), k \in T PROVE k + 1 \in T
  <2>1. k + 1 \in 1..n /\ k + 1 \in 0..n /\ (k + 1) - 1 = k
    BY <1>1
  <2>2. f[k + 1] = Advance(b, f[k], k)
    BY <1>2, <2>1
  <2>3. LoopInv(b, f[k], k) /\ ValidInv(b, f[k])
    BY <1>4
  <2>4. LoopInv(b, Advance(b, f[k], k), k + 1)
    BY <2>3, LoopGoesOn
  <2>5. ValidInv(b, Advance(b, f[k], k))
    BY <2>3, ValidGoesOn
  <2> QED BY <2>1, <2>2, <2>4, <2>5
<1>5. \A k \in 0..n : k \in T
  <2> HIDE DEF T, n
  <2> QED BY <1>1, <1>3, <1>4, InductionUpTo
<1> DEFINE s == f[n]
           t == Token(s.start, n)
<1>6. LoopInv(b, s, n) /\ ValidInv(b, s)
  BY <1>1, <1>5
<1>7. s.start \in Int /\ s.at \in Nat /\ s.tokens \in Seq(TokenSet)
  BY <1>6 DEF LoopInv, LoopState
<1>8. ts = IF s.start < 0 THEN s.tokens ELSE Append(s.tokens, t)
  BY <1>2
<1> HIDE DEF s, ts
<1>9. s.at = n
  BY <1>1, <1>6, <1>7 DEF LoopInv, ValidInv
<1>10. /\ \A k \in 1..Len(s.tokens) : Maximal(b, s.tokens[k])
       /\ s.start > 0 => ~ InWord(b, s.start)
       /\ \A j \in 1..n :
            InWord(b, j) => Holds(s.tokens, j) \/ (s.start >= 0 /\ s.start < j)
  BY <1>6, <1>9 DEF ValidInv
<1>11. CASE s.start < 0
  <2>1. \A j \in 1..n : InWord(b, j) => Holds(s.tokens, j)
    BY <1>7, <1>10, <1>11
  <2> QED BY <1>8, <1>10, <1>11, <2>1 DEF ts
<1>12. CASE ~ (s.start < 0)
  <2>1. t \in TokenSet /\ t.start = s.start /\ t.end = n
    BY <1>1, <1>7 DEF Token, TokenSet
  <2>2. Maximal(b, t)
    BY <1>1, <1>10, <2>1 DEF Maximal
  <2> DEFINE l == Len(s.tokens)
  <2> HIDE DEF t
  <2>3. ts = Append(s.tokens, t)
    BY <1>8, <1>12
  <2>4. /\ Len(ts) = l + 1 /\ ts[l + 1] = t /\ l \in Nat
        /\ \A k \in 1..l : ts[k] = s.tokens[k]
    BY <1>7, <2>1, <2>3, AppendProperties
  <2>5. ASSUME NEW j \in 1..n, InWord(b, j) PROVE Holds(ts, j)
    <3>1. Holds(s.tokens, j) \/ (t.start < j /\ j <= t.end)
      BY <1>1, <1>7, <1>10, <2>1, <2>5
    <3>2. j \in Int
      OBVIOUS
    <3> QED BY <1>7, <2>1, <2>3, <3>1, <3>2, HoldsMore
  <2>6. ASSUME NEW k \in 1..Len(ts) PROVE Maximal(b, ts[k])
    <3>1. CASE k \in 1..l
      BY <1>10, <2>4, <3>1
    <3>2. CASE k = l + 1
      BY <2>2, <2>4, <3>2
    <3> HIDE DEF l
    <3> QED BY <2>4, <3>1, <3>2
  <2> QED BY <2>5, <2>6 DEF ts
<1> QED BY <1>11, <1>12

\* What a word is.
LEMMA WordShape ==
  ASSUME NEW b \in Seq(ByteSet)
  PROVE  /\ \A t \in Words(b) :
              /\ t \in TokenSet /\ 0 <= t.start /\ t.start < t.end /\ t.end <= Len(b)
              /\ \A j \in (t.start + 1)..t.end : InWord(b, j)
              /\ Maximal(b, t)
         /\ \A t \in TokenSet : GoodToken(b, t) /\ Maximal(b, t) => t \in Words(b)
<1> DEFINE n == Len(b)
           Run(x, y) == /\ x < y
                        /\ \A j \in (x + 1)..y : InWord(b, j)
                        /\ x > 0 => ~ InWord(b, x)
                        /\ y < n => ~ InWord(b, y + 1)
           P == { p \in (0..n) \X (0..n) : Run(p[1], p[2]) }
<1>1. n \in Nat
  OBVIOUS
<1>2. Words(b) = { Token(p[1], p[2]) : p \in P }
  BY DEF Words
<1>3. ASSUME NEW t \in Words(b)
      PROVE  /\ t \in TokenSet /\ 0 <= t.start /\ t.start < t.end /\ t.end <= n
             /\ \A j \in (t.start + 1)..t.end : InWord(b, j)
             /\ Maximal(b, t)
  <2>1. PICK p \in P : t = Token(p[1], p[2])
    BY <1>2
  <2>2. p[1] \in 0..n /\ p[2] \in 0..n /\ Run(p[1], p[2])
    OBVIOUS
  <2>3. t.start = p[1] /\ t.end = p[2] /\ t \in TokenSet
    BY <2>1, <2>2 DEF Token, TokenSet
  <2>4. Maximal(b, t)
    BY <2>2, <2>3 DEF Maximal
  <2> QED BY <1>1, <2>2, <2>3, <2>4
<1>4. ASSUME NEW t \in TokenSet, GoodToken(b, t), Maximal(b, t) PROVE t \in Words(b)
  <2> DEFINE p == <<t.start, t.end>>
  <2>1. t.start \in Int /\ t.end \in Int /\ t = Token(t.start, t.end)
    BY DEF Token, TokenSet
  <2>2. t.start \in 0..n /\ t.end \in 0..n /\ Run(t.start, t.end)
    BY <1>1, <1>4, <2>1 DEF GoodToken, Maximal
  <2> HIDE DEF Run, n
  <2>3. p \in P
    BY <2>2
  <2> QED BY <1>2, <2>1, <2>3
<1> QED BY <1>3, <1>4

\* Two runs as long as they can be that share a byte are one.
LEMMA OneWord ==
  ASSUME NEW b \in Seq(ByteSet), NEW t \in Words(b), NEW u \in Words(b), NEW j \in Int, t.start < j, j <= t.end, u.start < j, j <= u.end
  PROVE  t = u
<1>1. /\ t.start \in Int /\ t.end \in Int /\ u.start \in Int /\ u.end \in Int
      /\ t = [start |-> t.start, end |-> t.end]
      /\ u = [start |-> u.start, end |-> u.end]
      /\ Len(b) \in Nat
  BY WordShape DEF TokenSet
<1>2. /\ 0 <= t.start /\ 0 <= u.start /\ t.end <= Len(b) /\ u.end <= Len(b)
      /\ \A k \in (t.start + 1)..t.end : InWord(b, k)
      /\ \A k \in (u.start + 1)..u.end : InWord(b, k)
      /\ Maximal(b, t) /\ Maximal(b, u)
  BY WordShape
<1>3. ~ (t.start < u.start)
  <2> SUFFICES ASSUME t.start < u.start PROVE FALSE
    OBVIOUS
  <2>1. u.start > 0 /\ u.start \in (t.start + 1)..t.end
    BY <1>1, <1>2
  <2> QED BY <1>2, <2>1 DEF Maximal
<1>4. ~ (u.start < t.start)
  <2> SUFFICES ASSUME u.start < t.start PROVE FALSE
    OBVIOUS
  <2>1. t.start > 0 /\ t.start \in (u.start + 1)..u.end
    BY <1>1, <1>2
  <2> QED BY <1>2, <2>1 DEF Maximal
<1>5. ~ (t.end < u.end)
  <2> SUFFICES ASSUME t.end < u.end PROVE FALSE
    OBVIOUS
  <2>1. t.end < Len(b) /\ t.end + 1 \in (u.start + 1)..u.end
    BY <1>1, <1>2
  <2> QED BY <1>2, <2>1 DEF Maximal
<1>6. ~ (u.end < t.end)
  <2> SUFFICES ASSUME u.end < t.end PROVE FALSE
    OBVIOUS
  <2>1. u.end < Len(b) /\ u.end + 1 \in (t.start + 1)..t.end
    BY <1>1, <1>2
  <2> QED BY <1>2, <2>1 DEF Maximal
<1>7. t.start = u.start /\ t.end = u.end
  BY <1>1, <1>3, <1>4, <1>5, <1>6
<1> QED BY <1>1, <1>7

\* The tokens are the words, in order and whole, in every text that is UTF-8;
\* in any other, no token splits a rune or holds a byte that is no letter's
\* (context/names.go:41-75).
THEOREM EveryWordIsAToken ==
  ASSUME NEW b \in Seq(ByteSet)
  PROVE  TokensAreWords(b)
<1> DEFINE ts == Tokenize(b)
           n == Len(ts)
<1>1. GoodTokens(b, ts)
  BY TokensAreGood
<1>2. CASE Valid(b)
  <2>0. /\ \A k \in 1..n : Maximal(b, ts[k])
        /\ \A j \in 1..Len(b) : InWord(b, j) => Holds(ts, j)
    BY <1>2, ValidTokens
  <2> HIDE DEF ts
  <2>1. /\ DOMAIN ts = 1..n /\ ts \in Seq(TokenSet)
        /\ \A k \in 1..n : GoodToken(b, ts[k]) /\ ts[k] \in TokenSet
    <3>1. DOMAIN ts = 1..n /\ ts \in Seq(TokenSet)
      BY <1>1 DEF GoodTokens
    <3>2. \A k \in 1..n : ts[k] \in TokenSet
      BY <3>1
    <3> QED BY <1>1, <3>1, <3>2 DEF GoodTokens
  <2>2. ToSet(ts) = { ts[k] : k \in 1..n }
    BY <2>1 DEF ToSet
  <2>3. ASSUME NEW k \in 1..n PROVE ts[k] \in Words(b)
    BY <2>0, <2>1, WordShape
  <2>4. ASSUME NEW t \in Words(b) PROVE t \in ToSet(ts)
    <3>1. /\ t \in TokenSet /\ 0 <= t.start /\ t.start < t.end /\ t.end <= Len(b)
          /\ \A j \in (t.start + 1)..t.end : InWord(b, j)
          /\ Maximal(b, t)
      BY WordShape
    <3> DEFINE j == t.start + 1
    <3>2. j \in 1..Len(b) /\ j \in (t.start + 1)..t.end /\ j \in Int
          /\ t.start < j /\ j <= t.end
      BY <3>1 DEF TokenSet
    <3> HIDE DEF j
    <3>3. PICK k \in 1..n : ts[k].start < j /\ j <= ts[k].end
      BY <2>0, <3>1, <3>2 DEF Holds
    <3> DEFINE u == ts[k]
    <3>4. u \in TokenSet /\ GoodToken(b, u) /\ Maximal(b, u) /\ u \in Words(b)
          /\ u.start < j /\ j <= u.end
      BY <2>0, <2>1, <2>3, <3>3
    <3>5. u \in ToSet(ts)
      BY <2>2
    <3> HIDE DEF u
    <3>6. t = u
      BY <3>1, <3>2, <3>4, OneWord
    <3> QED BY <3>5, <3>6
  <2>5. ToSet(ts) = Words(b)
    BY <2>2, <2>3, <2>4
  <2>6. \A i, j \in DOMAIN ts : i < j => ts[i].end < ts[j].start
    BY <1>1, <2>1 DEF GoodTokens
  <2> QED BY <1>2, <2>5, <2>6 DEF TokensAreWords, ts
<1>3. CASE ~ Valid(b)
  <2> HIDE DEF ts
  <2>1. DOMAIN ts = 1..n
    BY <1>1 DEF GoodTokens
  <2>2. \A i, j \in DOMAIN ts : i < j => ts[i].end < ts[j].start
    BY <1>1, <2>1 DEF GoodTokens
  <2>3. \A t \in ToSet(ts) : GoodToken(b, t)
    BY <1>1, <2>1 DEF GoodTokens, ToSet
  <2> QED BY <1>3, <2>2, <2>3 DEF TokensAreWords, GoodToken, ts
<1> QED BY <1>2, <1>3

-----------------------------------------------------------------------------
(***************************************************************************)
(* The checksum                                                            *)
(***************************************************************************)
OnlyStep(t, c, set) == IF c \in set THEN Append(t, c) ELSE t

OnlyGoesThrough(S, s, set) ==
  \E f \in [0..Len(s) -> Seq(S \intersect set)] :
    /\ f[0] = <<>> /\ Only(s, set) = f[Len(s)]
    /\ \A k \in 1..Len(s) : f[k] = OnlyStep(f[k - 1], s[k], set)

\* The elements of a set are put together one by one.
LEMMA OnlySteps ==
  ASSUME NEW S, NEW s \in Seq(S), NEW set
  PROVE  OnlyGoesThrough(S, s, set)
<1> DEFINE n == Len(s)
           A == Seq(S \intersect set)
           base == <<>>
           step == [x \in A \X (1..n) |-> OnlyStep(x[1], s[x[2]], set)]
           Folds(it) == it = [t \in SUBSET (1..n) |->
                                IF t = {} THEN base
                                ELSE OnlyStep(it[t \ {Max(t)}], s[Max(t)], set)]
           g == CHOOSE it : Folds(it)
<1>1. n \in Nat /\ base \in A /\ DOMAIN s = 1..n /\ \A k \in 1..n : s[k] \in S
  BY EmptySeq
<1>2. Only(s, set) = g[1..n]
  <2>1. Only(s, set)
          = (CHOOSE it : it = [t \in SUBSET DOMAIN s |->
               IF t = {} THEN base
               ELSE OnlyStep(it[t \ {Max(t)}], s[Max(t)], set)])[DOMAIN s]
    BY Zenon DEF Only, OnlyStep, FoldLeft, MapThenFoldSet
  <2> HIDE DEF n, base
  <2> QED BY <1>1, <2>1, Zenon
<1>4. step \in [A \X (1..n) -> A]
  <2>1. ASSUME NEW x \in A \X (1..n) PROVE OnlyStep(x[1], s[x[2]], set) \in A
    <3>1. x[1] \in A /\ x[2] \in 1..n
      OBVIOUS
    <3>2. CASE s[x[2]] \in set
      <4>1. s[x[2]] \in S \intersect set
        BY <1>1, <3>1, <3>2
      <4>2. Append(x[1], s[x[2]]) \in A
        BY <3>1, <4>1, AppendProperties
      <4> QED BY <3>2, <4>2 DEF OnlyStep
    <3> QED BY <3>1, <3>2 DEF OnlyStep
  <2> QED BY <2>1
<1> HIDE DEF n, A, base
<1>5. \A t \in SUBSET (1..n) : t # {} => Max(t) \in 1..n
  BY <1>1, GreatestIn
<1>6. \A x \in A, k \in 1..n : step[<<x, k>>] = OnlyStep(x, s[k], set)
  OBVIOUS
<1> HIDE DEF step
<1>7. PICK it \in [SUBSET (1..n) -> A] : LeftFold(it, n, base, step)
  BY <1>1, <1>4, LeftFoldExists
<1>8. Folds(it)
  <2>1. ASSUME NEW t \in SUBSET (1..n)
        PROVE  it[t] = IF t = {} THEN base
                       ELSE OnlyStep(it[t \ {Max(t)}], s[Max(t)], set)
    <3>1. it[t \ {Max(t)}] \in A
      BY <1>7
    <3>2. it[t] = IF t = {} THEN base ELSE step[<<it[t \ {Max(t)}], Max(t)>>]
      BY <1>7 DEF LeftFold
    <3> QED BY <1>5, <1>6, <3>1, <3>2
  <2> QED BY <2>1
<1>9. Folds(g)
  <2> HIDE DEF Folds
  <2> QED BY <1>8
<1> HIDE DEF g
<1>10. \A t \in SUBSET (1..n) :
         g[t] = IF t = {} THEN base ELSE OnlyStep(g[t \ {Max(t)}], s[Max(t)], set)
  BY <1>9
<1>11. g[{}] = base
  <2>1. {} \in SUBSET (1..n)
    OBVIOUS
  <2> QED BY <1>10, <2>1
<1>12. \A t \in SUBSET (1..n) : t # {} /\ g[t \ {Max(t)}] \in A =>
         g[t] = step[<<g[t \ {Max(t)}], Max(t)>>]
  BY <1>5, <1>6, <1>10
<1>13. GoesThrough(g, n, A, base, step)
  <2>1. ActsLike(g, n, A, base, step)
    BY <1>11, <1>12 DEF ActsLike
  <2>2. n \in Nat /\ base \in A
    BY <1>1
  <2> QED BY <1>4, <2>1, <2>2, LeftSteps, Zenon
<1>14. PICK f \in [0..n -> A] : StepsOf(f, n, base, step) /\ f[n] = g[1..n]
  BY <1>13 DEF GoesThrough
<1>15. f[0] = base /\ \A k \in 1..n : f[k] = step[<<f[k - 1], k>>]
  BY <1>14 DEF StepsOf
<1>16. \A k \in 1..n : f[k] = OnlyStep(f[k - 1], s[k], set)
  <2> SUFFICES ASSUME NEW k \in 1..n PROVE f[k] = OnlyStep(f[k - 1], s[k], set)
    OBVIOUS
  <2>1. k - 1 \in 0..n
    BY <1>1
  <2>2. f[k - 1] \in A
    BY <2>1
  <2> QED BY <1>6, <1>15, <2>2
<1> QED BY <1>2, <1>14, <1>15, <1>16 DEF OnlyGoesThrough, n, A, base

\* One digit more of the sum.
Luhn(c, s) == [sum |-> s.sum + (IF s.alternate THEN Doubled(c) ELSE c),
               alternate |-> ~ s.alternate]
LuhnState == [sum : Int, alternate : BOOLEAN]

LEMMA LuhnType ==
  ASSUME NEW c \in Digit, NEW s \in LuhnState
  PROVE  Luhn(c, s) \in LuhnState
BY DEF Luhn, LuhnState, Digit, Doubled

\* The sum goes through the digits from the last to the first.
LEMMA LuhnSteps ==
  ASSUME NEW s \in Seq(Digit)
  PROVE  \E f \in [0..Len(s) -> LuhnState] :
           /\ f[Len(s)] = [sum |-> 0, alternate |-> FALSE]
           /\ \A k \in 1..Len(s) : f[k - 1] = Luhn(s[k], f[k])
           /\ LuhnSum(s) = f[0].sum
<1> DEFINE n == Len(s)
           A == LuhnState
           base == [sum |-> 0, alternate |-> FALSE]
           step == [x \in A \X (1..n) |-> Luhn(s[x[2]], x[1])]
           Folds(it) == it = [t \in SUBSET (1..n) |->
                                IF t = {} THEN base
                                ELSE Luhn(s[Min(t)], it[t \ {Min(t)}])]
           g == CHOOSE it : Folds(it)
<1>1. n \in Nat /\ base \in A /\ DOMAIN s = 1..n /\ \A k \in 1..n : s[k] \in Digit
  BY DEF LuhnState
<1>2. LuhnSum(s) = g[1..n].sum
  <2>1. LuhnSum(s)
          = (CHOOSE it : it = [t \in SUBSET DOMAIN s |->
               IF t = {} THEN base
               ELSE Luhn(s[Min(t)], it[t \ {Min(t)}])])[DOMAIN s].sum
    BY Zenon DEF LuhnSum, Luhn, FoldRight, MapThenFoldSet
  <2> HIDE DEF n, base
  <2> QED BY <1>1, <2>1, Zenon
<1>4. step \in [A \X (1..n) -> A]
  <2>1. ASSUME NEW x \in A \X (1..n) PROVE Luhn(s[x[2]], x[1]) \in A
    <3>1. x[1] \in A /\ s[x[2]] \in Digit
      BY <1>1
    <3> QED BY <3>1, LuhnType
  <2> QED BY <2>1
<1> HIDE DEF n, A, base
<1>5. \A t \in SUBSET (1..n) : t # {} => Min(t) \in 1..n
  BY <1>1, LeastIn
<1>6. \A x \in A, k \in 1..n : step[<<x, k>>] = Luhn(s[k], x)
  OBVIOUS
<1> HIDE DEF step
<1>7. PICK it \in [SUBSET (1..n) -> A] : RightFold(it, n, base, step)
  BY <1>1, <1>4, RightFoldExists
<1>8. Folds(it)
  <2>1. ASSUME NEW t \in SUBSET (1..n)
        PROVE  it[t] = IF t = {} THEN base ELSE Luhn(s[Min(t)], it[t \ {Min(t)}])
    <3>1. it[t \ {Min(t)}] \in A
      BY <1>7
    <3>2. it[t] = IF t = {} THEN base ELSE step[<<it[t \ {Min(t)}], Min(t)>>]
      BY <1>7 DEF RightFold
    <3> QED BY <1>5, <1>6, <3>1, <3>2
  <2> QED BY <2>1
<1>9. Folds(g)
  <2> HIDE DEF Folds
  <2> QED BY <1>8
<1> HIDE DEF g
<1>10. \A t \in SUBSET (1..n) :
         g[t] = IF t = {} THEN base ELSE Luhn(s[Min(t)], g[t \ {Min(t)}])
  BY <1>9
<1>11. g[{}] = base
  <2>1. {} \in SUBSET (1..n)
    OBVIOUS
  <2> QED BY <1>10, <2>1
<1>12. \A t \in SUBSET (1..n) : t # {} /\ g[t \ {Min(t)}] \in A =>
         g[t] = step[<<g[t \ {Min(t)}], Min(t)>>]
  BY <1>5, <1>6, <1>10
<1>13. ComesThrough(g, n, A, base, step)
  <2>1. ActsFromRight(g, n, A, base, step)
    BY <1>11, <1>12 DEF ActsFromRight
  <2>2. n \in Nat /\ base \in A
    BY <1>1
  <2> QED BY <1>4, <2>1, <2>2, RightSteps, Zenon
<1>14. PICK f \in [0..n -> A] : StepsFromRight(f, n, base, step) /\ f[0] = g[1..n]
  BY <1>13 DEF ComesThrough
<1>15. f[n] = base /\ \A k \in 1..n : f[k - 1] = step[<<f[k], k>>]
  BY <1>14 DEF StepsFromRight
<1>16. \A k \in 1..n : f[k - 1] = Luhn(s[k], f[k])
  <2> SUFFICES ASSUME NEW k \in 1..n PROVE f[k - 1] = Luhn(s[k], f[k])
    OBVIOUS
  <2>1. k \in 0..n
    BY <1>1
  <2>2. f[k] \in A
    BY <2>1
  <2> QED BY <1>6, <1>15, <2>2
<1>17. LuhnSum(s) = f[0].sum
  BY <1>2, <1>14
<1> QED BY <1>14, <1>15, <1>16, <1>17 DEF n, A, base

\* R holds the sums of the digits of v behind each place.
CardRun(v, R) ==
  /\ R \in [0..Len(v) -> LuhnState]
  /\ R[Len(v)] = [sum |-> 0, alternate |-> FALSE]
  /\ \A k \in 1..Len(v) : R[k - 1] = IF v[k] \in Digit THEN Luhn(v[k], R[k]) ELSE R[k]

DigitsOf(v) == { k \in 1..Len(v) : v[k] \in Digit }

\* The digits of a number with blanks and dashes, and their sum.
LEMMA CardSum ==
  ASSUME NEW v \in Seq(0..Dash)
  PROVE  \E R : CardRun(v, R)
                /\ (ValidateLuhn(v) <=> /\ Cardinality(DigitsOf(v)) \in 13..19
                                        /\ R[0].sum % 10 = 0)
<1> DEFINE n == Len(v)
           set == ToSet(v) \ {Blank, Dash}
           cleaned == Only(v, set)
           S == 0..Dash
<1>1. n \in Nat /\ DOMAIN v = 1..n /\ \A k \in 1..n : v[k] \in S
  <2>1. v \in Seq(S)
    OBVIOUS
  <2> HIDE DEF S
  <2> QED BY <2>1
<1>2. \A k \in 1..n : v[k] \in set <=> v[k] \in Digit
  BY <1>1 DEF ToSet, Digit, Blank, Dash
<1>3. S \intersect set \subseteq Digit
  BY DEF Digit, Blank, Dash
<1>4. PICK f \in [0..n -> Seq(S \intersect set)] :
        /\ f[0] = <<>> /\ cleaned = f[n]
        /\ \A k \in 1..n : f[k] = OnlyStep(f[k - 1], v[k], set)
  <2>1. v \in Seq(S)
    OBVIOUS
  <2> HIDE DEF S, set
  <2>2. OnlyGoesThrough(S, v, set)
    BY <2>1, OnlySteps
  <2> QED BY <2>2 DEF OnlyGoesThrough
<1>5. \A k \in 0..n : f[k] \in Seq(Digit)
  <2> HIDE DEF set, n, S
  <2> SUFFICES ASSUME NEW k \in 0..n PROVE f[k] \in Seq(Digit)
    OBVIOUS
  <2>1. f[k] \in Seq(S \intersect set)
    BY <1>4
  <2> QED BY <1>3, <2>1, SeqMonotonic
<1>6. \A k \in 1..n : f[k] = IF v[k] \in Digit THEN Append(f[k - 1], v[k]) ELSE f[k - 1]
  <2> HIDE DEF set
  <2> QED BY <1>2, <1>4 DEF OnlyStep
<1> HIDE DEF set, n, S
<1> DEFINE L(k) == Len(f[k])
           Cont(j) == \A k \in 0..j : L(k) <= L(j) /\ \A i \in 1..L(k) : f[j][i] = f[k][i]
           Holds_(j) == Cardinality({ k \in 1..j : v[k] \in Digit }) = L(j)
           T == { j \in 0..n : Cont(j) /\ Holds_(j) }
<1>7. ASSUME NEW k \in 1..n
      PROVE  /\ k - 1 \in 0..n /\ k \in 0..n /\ L(k) \in Nat /\ L(k - 1) \in Nat
             /\ v[k] \in Digit => /\ L(k) = L(k - 1) + 1 /\ f[k][L(k)] = v[k]
                                  /\ \A i \in 1..L(k - 1) : f[k][i] = f[k - 1][i]
             /\ v[k] \notin Digit => f[k] = f[k - 1]
  <2>1. k - 1 \in 0..n /\ k \in 0..n
    BY <1>1
  <2>2. f[k] \in Seq(Digit) /\ f[k - 1] \in Seq(Digit)
    BY <1>5, <2>1
  <2>3. CASE v[k] \in Digit
    <3>1. f[k] = Append(f[k - 1], v[k])
      BY <1>6, <2>3
    <3> HIDE DEF Digit
    <3>2. /\ L(k) = L(k - 1) + 1 /\ f[k][L(k - 1) + 1] = v[k]
          /\ \A i \in 1..L(k - 1) : f[k][i] = f[k - 1][i]
      BY <2>2, <2>3, <3>1, AppendProperties
    <3> QED BY <2>1, <2>2, <2>3, <3>2
  <2>4. CASE v[k] \notin Digit
    BY <1>6, <2>1, <2>2, <2>4
  <2> QED BY <2>3, <2>4
<1>8. 0 \in T
  <2>1. L(0) = 0 /\ 0..0 = {0} /\ 0 \in 0..n /\ 1..0 = {}
    BY <1>1, <1>4
  <2>2. Cardinality({}) = 0
    BY FS_EmptySet
  <2>3. { k \in 1..0 : v[k] \in Digit } = {}
    BY <2>1
  <2> QED BY <2>1, <2>2, <2>3
<1>9. ASSUME NEW j \in 0..(n - 1), j \in T PROVE j + 1 \in T
  <2> DEFINE m == j + 1
  <2>1. m \in 1..n /\ m \in 0..n /\ m - 1 = j /\ j \in 0..n /\ j \in Nat
    BY <1>1
  <2>2. Cont(j) /\ Holds_(j)
    BY <1>9
  <2> HIDE DEF T, m
  <2>3. /\ L(m) \in Nat /\ L(j) \in Nat
        /\ v[m] \in Digit => /\ L(m) = L(j) + 1 /\ f[m][L(m)] = v[m]
                             /\ \A i \in 1..L(j) : f[m][i] = f[j][i]
        /\ v[m] \notin Digit => f[m] = f[j]
    BY <1>7, <2>1
  <2>4. L(j) <= L(m) /\ \A i \in 1..L(j) : f[m][i] = f[j][i]
    <3>1. CASE v[m] \in Digit
      BY <2>3, <3>1
    <3>2. CASE v[m] \notin Digit
      BY <2>3, <3>2
    <3> QED BY <3>1, <3>2
  <2>5. Cont(m)
    <3> SUFFICES ASSUME NEW k \in 0..m
        PROVE  L(k) <= L(m) /\ \A i \in 1..L(k) : f[m][i] = f[k][i]
      OBVIOUS
    <3>1. CASE k = m
      BY <2>3, <3>1
    <3>2. CASE k # m
      <4>1. k \in 0..j /\ k \in 0..n
        BY <1>1, <2>1, <3>2 DEF m
      <4>2. f[k] \in Seq(Digit) /\ L(k) \in Nat
        BY <1>5, <4>1
      <4>3. L(k) <= L(j) /\ \A i \in 1..L(k) : f[j][i] = f[k][i]
        BY <2>2, <4>1
      <4> HIDE DEF L
      <4> QED BY <2>3, <2>4, <4>2, <4>3
    <3> QED BY <3>1, <3>2
  <2>6. Holds_(m)
    <3> DEFINE B == { k \in 1..j : v[k] \in Digit }
               C == { k \in 1..m : v[k] \in Digit }
               I == 1..j
    <3>1. IsFiniteSet(B) /\ m \notin B
      <4>1. IsFiniteSet(I)
        BY <2>1, FS_Interval
      <4>2. B \subseteq I /\ m \notin I
        BY <2>1
      <4> HIDE DEF I, B
      <4> QED BY <4>1, <4>2, FS_Subset
    <3>2. C = IF v[m] \in Digit THEN B \union {m} ELSE B
      BY <2>1
    <3>3. Cardinality(B) = L(j)
      BY <2>2
    <3> HIDE DEF B, C, L
    <3>4. Cardinality(C) = IF v[m] \in Digit THEN Cardinality(B) + 1 ELSE Cardinality(B)
      BY <3>1, <3>2, FS_AddElement
    <3>5. Cardinality(C) = L(m)
      BY <2>3, <3>3, <3>4 DEF L
    <3> QED BY <3>5 DEF C
  <2> QED BY <2>1, <2>5, <2>6 DEF T, m
<1>10. \A j \in 0..n : j \in T
  <2> HIDE DEF T
  <2> QED BY <1>1, <1>8, <1>9, InductionUpTo
<1> DEFINE c == f[n]
<1>11. c \in Seq(Digit) /\ n \in 0..n /\ Cont(n) /\ Cardinality(DigitsOf(v)) = Len(c)
  <2>1. n \in 0..n
    BY <1>1
  <2>2. n \in T
    BY <1>10, <2>1
  <2> QED BY <1>5, <2>1, <2>2 DEF DigitsOf, n
<1>12. PICK h \in [0..Len(c) -> LuhnState] :
         /\ h[Len(c)] = [sum |-> 0, alternate |-> FALSE]
         /\ \A k \in 1..Len(c) : h[k - 1] = Luhn(c[k], h[k])
         /\ LuhnSum(c) = h[0].sum
  BY <1>11, LuhnSteps
<1> DEFINE R == [k \in 0..n |-> h[L(k)]]
<1>13. ASSUME NEW k \in 0..n PROVE L(k) \in 0..Len(c)
  <2>1. f[k] \in Seq(Digit) /\ L(k) <= L(n)
    BY <1>5, <1>11
  <2> QED BY <2>1, <1>11
<1>14. R \in [0..n -> LuhnState]
  BY <1>12, <1>13
<1>15. R[n] = [sum |-> 0, alternate |-> FALSE] /\ R[0] = h[0]
  <2>1. 0 \in 0..n /\ L(0) = 0
    BY <1>1, <1>4
  <2> QED BY <1>11, <1>12, <2>1
<1>16. ASSUME NEW k \in 1..n
       PROVE  R[k - 1] = IF v[k] \in Digit THEN Luhn(v[k], R[k]) ELSE R[k]
  <2>1. k - 1 \in 0..n /\ k \in 0..n /\ L(k) \in Nat /\ L(k - 1) \in Nat
    BY <1>7
  <2>2. R[k] = h[L(k)] /\ R[k - 1] = h[L(k - 1)]
    BY <2>1
  <2>3. CASE v[k] \in Digit
    <3>1. L(k) = L(k - 1) + 1 /\ f[k][L(k)] = v[k]
      BY <1>7, <2>3
    <3>2. L(k) \in 1..L(k) /\ L(k) \in 1..Len(c) /\ L(k) - 1 = L(k - 1)
      <4>1. L(k) \in 0..Len(c)
        BY <1>13, <2>1
      <4> HIDE DEF L, c
      <4> QED BY <2>1, <3>1, <4>1
    <3>3. c[L(k)] = v[k]
      BY <1>11, <2>1, <3>1, <3>2
    <3> HIDE DEF L, R, c
    <3>4. h[L(k) - 1] = Luhn(c[L(k)], h[L(k)])
      BY <1>12, <3>2
    <3> QED BY <2>2, <2>3, <3>2, <3>3, <3>4
  <2>4. CASE v[k] \notin Digit
    <3>1. L(k) = L(k - 1)
      BY <1>7, <2>4
    <3> HIDE DEF L, R
    <3> QED BY <2>2, <2>4, <3>1
  <2> QED BY <2>3, <2>4
<1>17. CardRun(v, R)
  <2> HIDE DEF R
  <2> QED BY <1>14, <1>15, <1>16 DEF CardRun, n
<1>18. ValidateLuhn(v) <=> Cardinality(DigitsOf(v)) \in 13..19 /\ R[0].sum % 10 = 0
  <2>1. cleaned = c
    BY <1>4
  <2>2. ToSet(c) \subseteq Digit
    <3> HIDE DEF c, Digit
    <3> QED BY <1>11 DEF ToSet
  <2>3. ValidateLuhn(v) <=> /\ ToSet(cleaned) \subseteq Digit /\ Len(cleaned) \in 13..19
                            /\ LuhnSum(cleaned) % 10 = 0
    BY Zenon DEF ValidateLuhn, set
  <2> HIDE DEF c, R, cleaned
  <2> QED BY <1>11, <1>12, <1>15, <2>1, <2>2, <2>3
<1> QED BY <1>17, <1>18

Weight(alternate, d) == IF alternate THEN Doubled(d) ELSE d

LEMMA WeightType ==
  ASSUME NEW a \in BOOLEAN, NEW d \in Digit
  PROVE  Weight(a, d) \in 0..9
BY DEF Weight, Doubled, Digit

\* A digit for another one at place k leaves the places of the digits and
\* changes every sum in front of it by the same.
Shifts(v, k, d, R, Q) ==
  \A j \in 0..Len(v) :
    /\ Q[j].alternate = R[j].alternate
    /\ Q[j].sum = R[j].sum + (IF j < k THEN Weight(R[k].alternate, d)
                                              - Weight(R[k].alternate, v[k])
                              ELSE 0)

LEMMA OneDigitChanged ==
  ASSUME NEW v \in Seq(0..Dash), NEW k \in 1..Len(v), v[k] \in Digit, NEW d \in Digit
  PROVE  LET w == [v EXCEPT ![k] = d] IN
         /\ w \in Seq(0..Dash) /\ Len(w) = Len(v) /\ DigitsOf(w) = DigitsOf(v)
         /\ \A j \in 1..Len(v) : w[j] = IF j = k THEN d ELSE v[j]
<1> DEFINE w == [v EXCEPT ![k] = d]
           S == 0..Dash
           n == Len(v)
<1>1. d \in S
  BY DEF Digit, Dash
<1>2. w \in Seq(S) /\ Len(w) = n /\ \A j \in 1..n : w[j] = IF j = k THEN d ELSE v[j]
  <2>1. v \in Seq(S)
    OBVIOUS
  <2> HIDE DEF S
  <2> QED BY <1>1, <2>1, ExceptSeq
<1>3. DigitsOf(w) = DigitsOf(v)
  <2> HIDE DEF w, S, n
  <2>1. \A j \in 1..n : w[j] \in Digit <=> v[j] \in Digit
    BY <1>2
  <2> QED BY <1>2, <2>1 DEF DigitsOf, n
<1> QED BY <1>2, <1>3

LEMMA SumShifts ==
  ASSUME NEW v \in Seq(0..Dash), NEW k \in 1..Len(v), v[k] \in Digit, NEW d \in Digit,
         NEW R, CardRun(v, R), NEW Q, CardRun([v EXCEPT ![k] = d], Q)
  PROVE  Shifts(v, k, d, R, Q)
<1> DEFINE w == [v EXCEPT ![k] = d]
           n == Len(v)
           D == Weight(R[k].alternate, d) - Weight(R[k].alternate, v[k])
           Good(j) == /\ Q[j].alternate = R[j].alternate
                      /\ Q[j].sum = R[j].sum + (IF j < k THEN D ELSE 0)
           T == { i \in 0..n : Good(n - i) }
<1>1. n \in Nat /\ Len(w) = n /\ \A j \in 1..n : w[j] = IF j = k THEN d ELSE v[j]
  BY OneDigitChanged
<1>2. /\ R \in [0..n -> LuhnState] /\ R[n] = [sum |-> 0, alternate |-> FALSE]
      /\ \A j \in 1..n : R[j - 1] = IF v[j] \in Digit THEN Luhn(v[j], R[j]) ELSE R[j]
  BY DEF CardRun
<1> HIDE DEF n, w
<1>3. /\ Q \in [0..n -> LuhnState] /\ Q[n] = [sum |-> 0, alternate |-> FALSE]
      /\ \A j \in 1..n : Q[j - 1] = IF w[j] \in Digit THEN Luhn(w[j], Q[j]) ELSE Q[j]
  <2>1. CardRun(w, Q)
    BY DEF w
  <2> QED BY <1>1, <2>1 DEF CardRun
<1>4. D \in Int /\ k \in 1..n
  <2>1. k \in 1..n /\ k \in 0..n
    BY <1>1 DEF n
  <2>2. R[k].alternate \in BOOLEAN
    <3>1. R[k] \in LuhnState
      BY <1>2, <2>1
    <3> QED BY <3>1 DEF LuhnState
  <2>3. Weight(R[k].alternate, d) \in 0..9 /\ Weight(R[k].alternate, v[k]) \in 0..9
    BY <2>2, WeightType
  <2> QED BY <2>1, <2>3
<1>5. 0 \in T
  <2>1. n - 0 = n /\ ~ (n < k)
    BY <1>1, <1>4
  <2>2. Good(n)
    BY <1>2, <1>3, <2>1
  <2> QED BY <1>1, <2>1, <2>2
<1>6. ASSUME NEW i \in 0..(n - 1), i \in T PROVE i + 1 \in T
  <2> DEFINE j == n - i
  <2>1. j \in 1..n /\ j \in 0..n /\ j - 1 \in 0..n /\ n - (i + 1) = j - 1 /\ i + 1 \in 0..n
    BY <1>1
  <2>2. Good(j)
    BY <1>6
  <2> HIDE DEF T, j, D
  <2>3. /\ R[j - 1] = IF v[j] \in Digit THEN Luhn(v[j], R[j]) ELSE R[j]
        /\ Q[j - 1] = IF w[j] \in Digit THEN Luhn(w[j], Q[j]) ELSE Q[j]
    BY <1>2, <1>3, <2>1
  <2>4. R[j] \in LuhnState /\ Q[j] \in LuhnState
    BY <1>2, <1>3, <2>1
  <2>5. /\ R[j].alternate \in BOOLEAN /\ R[j].sum \in Int
        /\ Q[j].alternate \in BOOLEAN /\ Q[j].sum \in Int
    BY <2>4 DEF LuhnState
  <2>6. ASSUME NEW x, NEW s PROVE Luhn(x, s).sum = s.sum + Weight(s.alternate, x)
                                  /\ Luhn(x, s).alternate = ~ s.alternate
    BY DEF Luhn, Weight
  <2>7. CASE j = k
    <3>1. v[j] \in Digit /\ w[j] = d /\ d \in Digit
      BY <1>1, <2>1, <2>7
    <3>2. R[j - 1] = Luhn(v[j], R[j]) /\ Q[j - 1] = Luhn(d, Q[j])
      BY <2>3, <3>1
    <3>3. ~ (j < k) /\ j - 1 < k
      BY <2>1, <2>7
    <3>4. Q[j].alternate = R[j].alternate /\ Q[j].sum = R[j].sum
      BY <2>2, <2>5, <3>3
    <3>5. Q[j - 1].sum = Q[j].sum + Weight(R[j].alternate, d)
          /\ R[j - 1].sum = R[j].sum + Weight(R[j].alternate, v[j])
          /\ Q[j - 1].alternate = R[j - 1].alternate
      BY <2>6, <3>2, <3>4
    <3>6. Weight(R[j].alternate, d) \in 0..9 /\ Weight(R[j].alternate, v[j]) \in 0..9
      BY <2>5, <3>1, WeightType
    <3>7. D = Weight(R[j].alternate, d) - Weight(R[j].alternate, v[j])
      BY <2>7 DEF D
    <3>8. Q[j - 1].sum = R[j - 1].sum + D
      <4> DEFINE x == Weight(R[j].alternate, d)
                 y == Weight(R[j].alternate, v[j])
                 p == R[j].sum
      <4>1. x \in Int /\ y \in Int /\ p \in Int /\ D = x - y
        BY <2>5, <3>6, <3>7
      <4>2. Q[j - 1].sum = p + x /\ R[j - 1].sum = p + y
        BY <3>4, <3>5
      <4> HIDE DEF x, y, p
      <4> QED BY <4>1, <4>2
    <3>9. Good(j - 1)
      BY <3>3, <3>5, <3>8
    <3> QED BY <2>1, <3>9 DEF T
  <2>8. CASE j # k
    <3>1. w[j] = v[j] /\ (j < k <=> j - 1 < k)
      BY <1>1, <1>4, <2>1, <2>8
    <3>2. CASE v[j] \in Digit
      <4>1. R[j - 1] = Luhn(v[j], R[j]) /\ Q[j - 1] = Luhn(v[j], Q[j])
        BY <2>3, <3>1, <3>2
      <4>2. /\ Q[j - 1].sum = Q[j].sum + Weight(R[j].alternate, v[j])
            /\ R[j - 1].sum = R[j].sum + Weight(R[j].alternate, v[j])
            /\ Q[j - 1].alternate = R[j - 1].alternate
        BY <2>2, <2>6, <4>1
      <4>3. Weight(R[j].alternate, v[j]) \in 0..9
        BY <2>5, <3>2, WeightType
      <4> DEFINE E == IF j < k THEN D ELSE 0
      <4>4. E \in Int /\ Q[j].sum = R[j].sum + E
        BY <1>4, <2>2
      <4>5. E = IF j - 1 < k THEN D ELSE 0
        BY <3>1
      <4> HIDE DEF E
      <4>6. Q[j - 1].sum = R[j - 1].sum + E
        BY <2>5, <4>2, <4>3, <4>4
      <4>7. Good(j - 1)
        BY <4>2, <4>5, <4>6
      <4> QED BY <2>1, <4>7 DEF T
    <3>3. CASE v[j] \notin Digit
      <4>1. R[j - 1] = R[j] /\ Q[j - 1] = Q[j]
        BY <2>3, <3>1, <3>3
      <4>2. Good(j - 1)
        BY <2>2, <3>1, <4>1
      <4> QED BY <2>1, <4>2 DEF T
    <3> QED BY <3>2, <3>3
  <2> QED BY <2>7, <2>8
<1>7. \A i \in 0..n : i \in T
  <2> HIDE DEF T
  <2> QED BY <1>1, <1>5, <1>6, InductionUpTo
<1>8. ASSUME NEW j \in 0..n PROVE Good(j)
  <2>1. n - j \in 0..n /\ n - (n - j) = j
    BY <1>1
  <2>2. n - j \in T
    BY <1>7, <2>1
  <2> QED BY <2>1, <2>2
<1> QED BY <1>8 DEF Shifts, n

\* The checksum behind a change, from the one in front of it.
LEMMA ChecksumShifts ==
  ASSUME NEW v \in Seq(0..Dash), NEW k \in 1..Len(v), v[k] \in Digit, NEW d \in Digit,
         NEW R, CardRun(v, R)
  PROVE  LET w == [v EXCEPT ![k] = d] IN
         \E Q : /\ CardRun(w, Q) /\ Shifts(v, k, d, R, Q)
                /\ ValidateLuhn(w) <=> /\ Cardinality(DigitsOf(v)) \in 13..19
                                       /\ Q[0].sum % 10 = 0
<1> DEFINE w == [v EXCEPT ![k] = d]
<1>1. w \in Seq(0..Dash) /\ DigitsOf(w) = DigitsOf(v)
  BY OneDigitChanged
<1>2. PICK Q : CardRun(w, Q)
               /\ (ValidateLuhn(w) <=> /\ Cardinality(DigitsOf(w)) \in 13..19
                                       /\ Q[0].sum % 10 = 0)
  <2> HIDE DEF w
  <2> QED BY <1>1, CardSum
<1>3. Shifts(v, k, d, R, Q)
  BY <1>2, SumShifts
<1> QED BY <1>1, <1>2, <1>3

\* Two digits count for different amounts, in either kind of place; and what a
\* digit adds when it is doubled tells all digits apart but 0 and 9.
LEMMA WeightsDiffer ==
  ASSUME NEW a \in BOOLEAN, NEW x \in Digit, NEW y \in Digit, NEW s \in Int, s % 10 = 0
  PROVE  /\ (s + (Weight(a, y) - Weight(a, x))) % 10 = 0 => x = y
         /\ ((s + (Weight(a, y) - Weight(a, x))) + (Weight(~ a, x) - Weight(~ a, y))) % 10 = 0
              => x = y \/ {x, y} = {0, 9}
<1> DEFINE X(z) == IF 2 * z > 9 THEN z - 9 ELSE z
<1>1. x \in 0..9 /\ y \in 0..9
  BY DEF Digit
<1>2. \A z \in 0..9 : Weight(TRUE, z) = z + X(z) /\ Weight(FALSE, z) = z
  BY DEF Weight, Doubled
<1>3. a = TRUE \/ a = FALSE
  OBVIOUS
<1>4. (s + (Weight(a, y) - Weight(a, x))) % 10 = 0 => x = y
  <2>1. CASE a = TRUE
    <3>1. Weight(a, y) = y + X(y) /\ Weight(a, x) = x + X(x)
      BY <1>1, <1>2, <2>1
    <3>2. (s + ((y + X(y)) - (x + X(x)))) % 10 = 0 => x = y
      BY <1>1
    <3> QED BY <3>1, <3>2
  <2>2. CASE a = FALSE
    <3>1. Weight(a, y) = y /\ Weight(a, x) = x
      BY <1>1, <1>2, <2>2
    <3>2. (s + (y - x)) % 10 = 0 => x = y
      BY <1>1
    <3> QED BY <3>1, <3>2
  <2> QED BY <1>3, <2>1, <2>2
<1>5. ((s + (Weight(a, y) - Weight(a, x))) + (Weight(~ a, x) - Weight(~ a, y))) % 10 = 0
        => x = y \/ (x = 0 /\ y = 9) \/ (x = 9 /\ y = 0)
  <2>1. CASE a = TRUE
    <3>1. /\ Weight(a, y) = y + X(y) /\ Weight(a, x) = x + X(x)
          /\ Weight(~ a, y) = y /\ Weight(~ a, x) = x
      BY <1>1, <1>2, <2>1
    <3>2. ((s + ((y + X(y)) - (x + X(x)))) + (x - y)) % 10 = 0
            => x = y \/ (x = 0 /\ y = 9) \/ (x = 9 /\ y = 0)
      BY <1>1
    <3> QED BY <3>1, <3>2
  <2>2. CASE a = FALSE
    <3>1. /\ Weight(~ a, y) = y + X(y) /\ Weight(~ a, x) = x + X(x)
          /\ Weight(a, y) = y /\ Weight(a, x) = x
      BY <1>1, <1>2, <2>2
    <3>2. ((s + (y - x)) + ((x + X(x)) - (y + X(y)))) % 10 = 0
            => x = y \/ (x = 0 /\ y = 9) \/ (x = 9 /\ y = 0)
      BY <1>1
    <3> QED BY <3>1, <3>2
  <2> QED BY <1>3, <2>1, <2>2
<1>6. {0, 9} = {9, 0}
  OBVIOUS
<1> QED BY <1>4, <1>5, <1>6

\* Behind the last digit there is nothing to add, so it counts as it is.
LEMMA LastCounts ==
  ASSUME NEW v \in Seq(0..Dash), NEW R, CardRun(v, R), NEW k \in DigitsOf(v),
         \A j \in DigitsOf(v) : j <= k
  PROVE  R[k].alternate = FALSE
<1> DEFINE n == Len(v)
           base == [sum |-> 0, alternate |-> FALSE]
           T == { i \in 0..n : n - i >= k => R[n - i] = base }
<1>1. n \in Nat /\ k \in 1..n
  BY DEF DigitsOf
<1>2. R[n] = base
      /\ \A j \in 1..n : R[j - 1] = IF v[j] \in Digit THEN Luhn(v[j], R[j]) ELSE R[j]
  BY DEF CardRun
<1>3. \A j \in 1..n : v[j] \in Digit => j <= k
  BY DEF DigitsOf
<1> HIDE DEF n, base
<1>4. 0 \in T
  BY <1>1, <1>2
<1>5. ASSUME NEW i \in 0..(n - 1), i \in T PROVE i + 1 \in T
  <2> DEFINE j == n - i
  <2>1. j \in 1..n /\ n - (i + 1) = j - 1 /\ i + 1 \in 0..n /\ j \in Int
    BY <1>1
  <2>2. j >= k => R[j] = base
    BY <1>5
  <2> HIDE DEF T, j
  <2>3. j - 1 >= k => R[j - 1] = base
    <3> SUFFICES ASSUME j - 1 >= k PROVE R[j - 1] = base
      OBVIOUS
    <3>1. j >= k /\ ~ (j <= k)
      BY <1>1, <2>1
    <3>2. v[j] \notin Digit
      BY <1>3, <2>1, <3>1
    <3> QED BY <1>2, <2>1, <2>2, <3>1, <3>2
  <2> QED BY <2>1, <2>3 DEF T
<1>6. \A i \in 0..n : i \in T
  <2> HIDE DEF T
  <2> QED BY <1>1, <1>4, <1>5, InductionUpTo
<1>7. R[k] = base
  <2>1. n - k \in 0..n /\ n - (n - k) = k /\ k >= k
    BY <1>1
  <2>2. n - k \in T
    BY <1>6, <2>1
  <2> QED BY <2>1, <2>2
<1> QED BY <1>7 DEF base

\* One wrong digit in a valid card number of any length, or two neighbours
\* exchanged, make a number that is not valid, 09 and 90 apart; and one last
\* digit makes a number valid (validate.go:17-60).
THEOREM EverySlipIsCaught ==
  ASSUME NEW S, NEW value \in Seq(S)
  PROVE  TyposAreCaught(value)
<1> DEFINE Digits == { k \in DOMAIN value : value[k] \in Digit }
           n == Len(value)
           last == CHOOSE k \in Digits : \A j \in Digits : j <= k
           Valid_(w) == ValidateLuhn(w)
<1> SUFFICES ASSUME Cardinality(Digits) \in 13..19, ToSet(value) \subseteq 0..Dash
    PROVE    /\ Cardinality({ d \in Digit : ValidateLuhn([value EXCEPT ![last] = d]) }) = 1
             /\ ValidateLuhn(value) =>
                  /\ \A k \in Digits : \A d \in Digit \ {value[k]} :
                       ~ ValidateLuhn([value EXCEPT ![k] = d])
                  /\ \A k \in Digits : k + 1 \in Digits =>
                       (ValidateLuhn([value EXCEPT ![k] = value[k + 1], ![k + 1] = value[k]])
                          => value[k] = value[k + 1] \/ {value[k], value[k + 1]} = {0, 9})
  BY Zenon DEF TyposAreCaught
<1>1. n \in Nat /\ DOMAIN value = 1..n /\ value \in Seq(0..Dash)
  <2> DEFINE U == 0..Dash
  <2>1. n \in Nat /\ DOMAIN value = 1..n /\ value = [k \in 1..n |-> value[k]]
    OBVIOUS
  <2>2. \A k \in 1..n : value[k] \in U
    BY <2>1 DEF ToSet
  <2> HIDE DEF n, U
  <2>3. value \in [1..n -> U]
    BY <2>1, <2>2
  <2>4. value \in Seq(U)
    BY <2>1, <2>3
  <2> QED BY <2>1, <2>4 DEF U
<1>2. Digits = DigitsOf(value)
  BY <1>1 DEF DigitsOf
<1> HIDE DEF Digits, n
<1>3. \A k \in Digits : k \in 1..Len(value) /\ value[k] \in Digit
  BY <1>2 DEF DigitsOf
<1>4. PICK R : CardRun(value, R)
               /\ (ValidateLuhn(value) <=> /\ Cardinality(DigitsOf(value)) \in 13..19
                                           /\ R[0].sum % 10 = 0)
  BY <1>1, CardSum
<1>5. 0 \in 0..Len(value) /\ R[0].sum \in Int
      /\ \A k \in 0..Len(value) : R[k].alternate \in BOOLEAN
  <2>1. 0 \in 0..Len(value)
    BY <1>1 DEF n
  <2>2. \A k \in 0..Len(value) : R[k] \in LuhnState
    BY <1>4 DEF CardRun
  <2> QED BY <2>1, <2>2 DEF LuhnState
<1>6. \A k \in Digits : 0 < k /\ k \in 0..Len(value)
  BY <1>3
<1>7. ASSUME NEW k \in Digits, NEW d \in Digit
      PROVE  ValidateLuhn([value EXCEPT ![k] = d])
               <=> (R[0].sum + (Weight(R[k].alternate, d)
                                  - Weight(R[k].alternate, value[k]))) % 10 = 0
  <2>1. PICK Q : /\ Shifts(value, k, d, R, Q)
                 /\ ValidateLuhn([value EXCEPT ![k] = d])
                      <=> /\ Cardinality(DigitsOf(value)) \in 13..19
                          /\ Q[0].sum % 10 = 0
    BY <1>1, <1>3, <1>4, ChecksumShifts
  <2>2. Q[0].sum = R[0].sum + (Weight(R[k].alternate, d) - Weight(R[k].alternate, value[k]))
    BY <1>5, <1>6, <2>1 DEF Shifts
  <2> QED BY <1>2, <2>1, <2>2
<1>8. Cardinality({ d \in Digit : ValidateLuhn([value EXCEPT ![last] = d]) }) = 1
  <2>1. last \in Digits /\ \A j \in Digits : j <= last
    <3>0. Digits # {}
      <4>1. Cardinality({}) = 0 /\ ~ (0 \in 13..19)
        BY FS_EmptySet
      <4> QED BY <4>1
    <3>1. Digits \in SUBSET (1..Len(value)) /\ Len(value) \in Nat /\ Digits # {}
      BY <1>1, <1>3, <3>0 DEF n
    <3>2. Max(Digits) \in Digits /\ \A j \in Digits : j <= Max(Digits)
      BY <3>1, GreatestIn
    <3> QED BY <3>2
  <2> HIDE DEF last
  <2>2. R[last].alternate = FALSE
    BY <1>1, <1>2, <1>4, <2>1, LastCounts
  <2> DEFINE x == value[last]
             s == R[0].sum
             V == { d \in Digit : ValidateLuhn([value EXCEPT ![last] = d]) }
             e == (x - s) % 10
  <2>3. x \in 0..9 /\ s \in Int
    BY <1>3, <1>5, <2>1 DEF Digit
  <2>4. \A d \in Digit : d \in V <=> (s + (d - x)) % 10 = 0
    <3> SUFFICES ASSUME NEW d \in Digit PROVE d \in V <=> (s + (d - x)) % 10 = 0
      OBVIOUS
    <3>1. Weight(FALSE, d) = d /\ Weight(FALSE, x) = x
      BY DEF Weight
    <3> QED BY <1>7, <2>1, <2>2, <3>1
  <2>5. V \subseteq Digit
    OBVIOUS
  <2> HIDE DEF x, s, V
  <2>6. e \in Digit /\ \A d \in Digit : (s + (d - x)) % 10 = 0 <=> d = e
    BY <2>3 DEF Digit
  <2>7. V = {e}
    BY <2>4, <2>5, <2>6
  <2> HIDE DEF e
  <2> QED BY <2>7, FS_Singleton DEF V
<1>9. ASSUME ValidateLuhn(value), NEW k \in Digits, NEW d \in Digit \ {value[k]}
      PROVE  ~ ValidateLuhn([value EXCEPT ![k] = d])
  <2>1. R[0].sum % 10 = 0 /\ R[k].alternate \in BOOLEAN /\ d \in Digit /\ value[k] \in Digit
    BY <1>3, <1>4, <1>5, <1>6, <1>9
  <2>2. (R[0].sum + (Weight(R[k].alternate, d) - Weight(R[k].alternate, value[k]))) % 10 = 0
          => value[k] = d
    BY <1>5, <2>1, WeightsDiffer
  <2> QED BY <1>7, <2>1, <2>2
<1>10. ASSUME ValidateLuhn(value), NEW k \in Digits, k + 1 \in Digits,
              ValidateLuhn([value EXCEPT ![k] = value[k + 1], ![k + 1] = value[k]])
       PROVE  value[k] = value[k + 1] \/ {value[k], value[k + 1]} = {0, 9}
  <2> DEFINE a == value[k]
             b == value[k + 1]
             w == [value EXCEPT ![k] = b]
             u == [w EXCEPT ![k + 1] = a]
             alt == R[k].alternate
  <2>1. a \in Digit /\ b \in Digit /\ k \in 1..Len(value) /\ k + 1 \in 1..Len(value)
        /\ k \in Int
    BY <1>3, <1>10
  <2>2. u = [value EXCEPT ![k] = value[k + 1], ![k + 1] = value[k]]
    OBVIOUS
  <2>3. PICK Q : CardRun(w, Q) /\ Shifts(value, k, b, R, Q)
    BY <1>1, <1>4, <2>1, ChecksumShifts
  <2>4. /\ w \in Seq(0..Dash) /\ Len(w) = Len(value) /\ DigitsOf(w) = DigitsOf(value)
        /\ w[k + 1] = b
    <3>1. /\ w \in Seq(0..Dash) /\ Len(w) = Len(value) /\ DigitsOf(w) = DigitsOf(value)
          /\ \A j \in 1..Len(value) : w[j] = IF j = k THEN b ELSE value[j]
      <4>1. value \in Seq(0..Dash) /\ value[k] \in Digit
        BY <1>1, <2>1
      <4> HIDE DEF a, b
      <4> QED BY <2>1, <4>1, OneDigitChanged
    <3>2. k + 1 # k
      BY <2>1
    <3> QED BY <2>1, <3>1, <3>2
  <2> HIDE DEF w
  <2>5. PICK P : /\ Shifts(w, k + 1, a, Q, P)
                 /\ ValidateLuhn(u) <=> /\ Cardinality(DigitsOf(w)) \in 13..19
                                        /\ P[0].sum % 10 = 0
    BY <2>1, <2>3, <2>4, ChecksumShifts
  <2>6. P[0].sum % 10 = 0
    BY <1>10, <2>2, <2>5
  <2>7. 0 < k /\ 0 < k + 1 /\ k \in 0..Len(value) /\ k + 1 \in 0..Len(value) /\ ~ (k + 1 < k)
        /\ (k + 1) - 1 = k
    BY <2>1
  <2>8. alt \in BOOLEAN /\ R[k + 1].alternate = ~ alt
    <3>1. R[k] = Luhn(b, R[k + 1])
      BY <1>4, <2>1, <2>7 DEF CardRun
    <3>2. R[k].alternate = ~ R[k + 1].alternate
      BY <3>1 DEF Luhn
    <3>3. R[k].alternate \in BOOLEAN /\ R[k + 1].alternate \in BOOLEAN
      BY <1>5, <2>7
    <3> QED BY <3>2, <3>3
  <2>9. Q[k + 1].alternate = ~ alt
    BY <2>3, <2>7, <2>8 DEF Shifts
  <2>10. Q[0].sum = R[0].sum + (Weight(alt, b) - Weight(alt, a))
    BY <1>5, <2>3, <2>7 DEF Shifts
  <2>11. P[0].sum = Q[0].sum + (Weight(~ alt, a) - Weight(~ alt, b))
    BY <1>5, <2>4, <2>5, <2>7, <2>9 DEF Shifts
  <2>12. R[0].sum % 10 = 0
    BY <1>4, <1>10
  <2> HIDE DEF alt
  <2>13. ((R[0].sum + (Weight(alt, b) - Weight(alt, a)))
            + (Weight(~ alt, a) - Weight(~ alt, b))) % 10 = 0
    BY <2>6, <2>10, <2>11
  <2> HIDE DEF a, b
  <2>14. a = b \/ {a, b} = {0, 9}
    BY <1>5, <2>1, <2>8, <2>12, <2>13, WeightsDiffer
  <2> QED BY <2>14 DEF a, b
<1> QED BY <1>8, <1>9, <1>10

-----------------------------------------------------------------------------
(***************************************************************************)
(* Company numbers                                                         *)
(***************************************************************************)
\* The checksum by places is that of the loop.
LEMMA ChecksumsAgree ==
  ASSUME NEW s \in Seq(Digit)
  PROVE  Checks(s) <=> luhnMod10(s)
<1> DEFINE n == Len(s)
           D == 1..n
           W(k) == IF (n - k) % 2 = 0 THEN s[k] ELSE Doubled(s[k])
           w == [k \in 1..n |-> W(k)]
           Adds(it) == it = [t \in SUBSET D |->
                              IF t = {} THEN 0
                              ELSE W(CHOOSE y \in t : TRUE) + it[t \ {CHOOSE y \in t : TRUE}]]
           g == CHOOSE it : Adds(it)
<1>1. Checks(s) <=> g[D] % 10 = 0
  <2>1. Checks(s) <=> (CHOOSE it : it = [t \in SUBSET (1..Len(s)) |->
                              IF t = {} THEN 0
                              ELSE (IF (Len(s) - (CHOOSE y \in t : TRUE)) % 2 = 0
                                    THEN s[CHOOSE y \in t : TRUE]
                                    ELSE Doubled(s[CHOOSE y \in t : TRUE]))
                                   + it[t \ {CHOOSE y \in t : TRUE}]])[1..Len(s)] % 10 = 0
    BY Zenon DEF Checks, MapThenSumSet, MapThenFoldSet
  <2> QED BY <2>1, Zenon
<1>2. n \in Nat /\ \A k \in 1..n : s[k] \in Digit
  OBVIOUS
<1>3. \A k \in 1..n : w[k] = W(k) /\ w[k] \in Int
  BY <1>2 DEF Digit, Doubled
<1>4. w \in [1..n -> Int]
  <2>1. w = [k \in 1..n |-> w[k]]
    OBVIOUS
  <2> HIDE DEF w, n
  <2> QED BY <1>3, <2>1
<1> HIDE DEF w, W
<1>5. D \in SUBSET (1..n) /\ D \in SUBSET D
  OBVIOUS
<1>6. PICK h : h = [t \in SUBSET D |->
                     IF t = {} THEN 0
                     ELSE w[CHOOSE y \in t : TRUE] + h[t \ {CHOOSE y \in t : TRUE}]]
  <2> HIDE DEF D, n
  <2> QED BY <1>2, <1>4, <1>5, SumExists
<1>7. \A t \in SUBSET D : t # {} => (CHOOSE y \in t : TRUE) \in 1..n
  OBVIOUS
<1>8. Adds(h)
  <2>1. \A t \in SUBSET D :
          h[t] = IF t = {} THEN 0
                 ELSE W(CHOOSE y \in t : TRUE) + h[t \ {CHOOSE y \in t : TRUE}]
    <3> HIDE DEF D, n
    <3> QED BY <1>3, <1>6, <1>7
  <2>2. h = [t \in SUBSET D |-> h[t]]
    <3> HIDE DEF D, n
    <3> QED BY <1>6
  <2> HIDE DEF D, n
  <2> QED BY <2>1, <2>2
<1>9. Adds(g)
  <2> HIDE DEF Adds
  <2> QED BY <1>8
<1> HIDE DEF g
<1>10. AddsUp(g, D, w)
  <2>1. \A t \in SUBSET D :
          g[t] = IF t = {} THEN 0
                 ELSE W(CHOOSE y \in t : TRUE) + g[t \ {CHOOSE y \in t : TRUE}]
    <3> HIDE DEF D, n
    <3> QED BY <1>9
  <2> HIDE DEF D, n
  <2>2. \A t \in SUBSET D :
          g[t] = IF t = {} THEN 0
                 ELSE w[CHOOSE y \in t : TRUE] + g[t \ {CHOOSE y \in t : TRUE}]
    BY <1>3, <1>7, <2>1
  <2> QED BY <2>2, Zenon DEF AddsUp
<1>11. PICK f \in [0..n -> LuhnState] :
         /\ f[n] = [sum |-> 0, alternate |-> FALSE]
         /\ \A k \in 1..n : f[k - 1] = Luhn(s[k], f[k])
         /\ LuhnSum(s) = f[0].sum
  BY LuhnSteps
<1>12. \A k \in 0..n : f[k].sum \in Int /\ f[k].alternate \in BOOLEAN
  BY <1>11 DEF LuhnState
<1> DEFINE Z == { i \in 0..n : f[n - i].alternate <=> i % 2 = 1 }
<1>13. 0 \in Z
  <2>1. n - 0 = n /\ 0 \in 0..n
    BY <1>2
  <2> QED BY <1>11, <2>1
<1> HIDE DEF n, D
<1>14. ASSUME NEW i \in 0..(n - 1), i \in Z PROVE i + 1 \in Z
  <2>1. /\ n - i \in 1..n /\ n - (i + 1) = (n - i) - 1
        /\ n - i \in 0..n /\ n - (i + 1) \in 0..n /\ i + 1 \in 0..n
    BY <1>2
  <2>2. f[n - (i + 1)].alternate = ~ f[n - i].alternate
    <3>1. f[n - (i + 1)] = Luhn(s[n - i], f[n - i])
      BY <1>11, <2>1
    <3> QED BY <3>1 DEF Luhn
  <2>3. i % 2 = 1 <=> ~ ((i + 1) % 2 = 1)
    OBVIOUS
  <2>4. f[n - i].alternate <=> i % 2 = 1
    BY <1>14
  <2> QED BY <1>12, <2>1, <2>2, <2>3, <2>4
<1>15. \A i \in 0..n : i \in Z
  <2> HIDE DEF Z
  <2> QED BY <1>2, <1>13, <1>14, InductionUpTo
<1>16. ASSUME NEW k \in 1..n PROVE f[k - 1].sum = f[k].sum + W(k)
  <2>1. n - k \in 0..n /\ n - (n - k) = k /\ k \in 0..n
    BY <1>2
  <2>2. f[k].alternate <=> (n - k) % 2 = 1
    BY <1>15, <2>1
  <2>3. (n - k) % 2 = 0 <=> ~ ((n - k) % 2 = 1)
    BY <1>2
  <2>4. f[k - 1].sum = f[k].sum + (IF f[k].alternate THEN Doubled(s[k]) ELSE s[k])
    <3>1. f[k - 1] = Luhn(s[k], f[k])
      BY <1>11
    <3> QED BY <3>1 DEF Luhn
  <2> QED BY <2>2, <2>3, <2>4 DEF W
<1> DEFINE G == [k \in 0..n |-> f[k].sum]
<1>17. Sums(G, n, w, D)
  <2>1. G \in [0..n -> Int]
    BY <1>12
  <2>2. G[n] = 0
    BY <1>2, <1>11
  <2>3. ASSUME NEW k \in 1..n PROVE G[k - 1] = G[k] + (IF k \in D THEN w[k] ELSE 0)
    <3>1. k \in 0..n /\ k - 1 \in 0..n /\ k \in D
      BY <1>2 DEF D
    <3> QED BY <1>3, <1>16, <3>1
  <2> HIDE DEF G
  <2> QED BY <2>1, <2>2, <2>3 DEF Sums
<1>18. g[D] = G[0]
  <2> HIDE DEF G
  <2> QED BY <1>2, <1>4, <1>5, <1>10, <1>17, SumOver
<1>19. G[0] = LuhnSum(s)
  BY <1>2, <1>11
<1> QED BY <1>1, <1>18, <1>19 DEF luhnMod10

\* One element more.
LEMMA OnlyAppend ==
  ASSUME NEW S, NEW s \in Seq(S), NEW c \in S, NEW set
  PROVE  Only(Append(s, c), set) = OnlyStep(Only(s, set), c, set)
<1> DEFINE n == Len(s)
           t == Append(s, c)
<1>1. /\ t \in Seq(S) /\ Len(t) = n + 1 /\ n \in Nat
      /\ \A k \in 1..n : t[k] = s[k]
      /\ t[n + 1] = c
  BY AppendProperties
<1>2. PICK f \in [0..Len(s) -> Seq(S \intersect set)] :
        /\ f[0] = <<>> /\ Only(s, set) = f[Len(s)]
        /\ \A k \in 1..Len(s) : f[k] = OnlyStep(f[k - 1], s[k], set)
  <2>1. OnlyGoesThrough(S, s, set)
    BY OnlySteps
  <2> QED BY <2>1 DEF OnlyGoesThrough
<1> HIDE DEF t
<1>3. PICK h \in [0..Len(t) -> Seq(S \intersect set)] :
        /\ h[0] = <<>> /\ Only(t, set) = h[Len(t)]
        /\ \A k \in 1..Len(t) : h[k] = OnlyStep(h[k - 1], t[k], set)
  <2>1. OnlyGoesThrough(S, t, set)
    BY <1>1, OnlySteps
  <2> QED BY <2>1 DEF OnlyGoesThrough
<1> DEFINE T == { k \in 0..n : h[k] = f[k] }
<1>4. 0 \in T
  BY <1>1, <1>2, <1>3
<1> HIDE DEF n
<1>5. ASSUME NEW k \in 0..(n - 1), k \in T PROVE k + 1 \in T
  <2>1. k + 1 \in 1..n /\ k + 1 \in 0..n /\ (k + 1) - 1 = k /\ k + 1 \in 1..(n + 1)
    BY <1>1
  <2>2. f[k + 1] = OnlyStep(f[k], s[k + 1], set)
    BY <1>2, <2>1 DEF n
  <2>3. h[k + 1] = OnlyStep(h[k], t[k + 1], set)
    BY <1>1, <1>3, <2>1
  <2>4. h[k] = f[k]
    BY <1>5
  <2> QED BY <1>1, <2>1, <2>2, <2>3, <2>4
<1>6. \A k \in 0..n : k \in T
  <2> HIDE DEF T
  <2> QED BY <1>1, <1>4, <1>5, InductionUpTo
<1>7. n \in 0..n /\ n + 1 \in 1..(n + 1) /\ (n + 1) - 1 = n
  BY <1>1
<1>8. h[n] = f[n]
  BY <1>6, <1>7
<1>9. h[n + 1] = OnlyStep(h[n], c, set)
  BY <1>1, <1>3, <1>7
<1> QED BY <1>1, <1>2, <1>3, <1>8, <1>9 DEF n, t

\* What is kept are the elements of the set.
LEMMA OnlyKeeps ==
  ASSUME NEW S, NEW s \in Seq(S), NEW set
  PROVE  /\ Only(s, set) \in Seq(S \intersect set)
         /\ ToSet(Only(s, set)) = ToSet(s) \intersect set
<1> DEFINE n == Len(s)
           A == S \intersect set
<1>1. PICK f \in [0..n -> Seq(A)] :
        /\ f[0] = <<>> /\ Only(s, set) = f[n]
        /\ \A k \in 1..n : f[k] = OnlyStep(f[k - 1], s[k], set)
  <2>1. OnlyGoesThrough(S, s, set)
    BY OnlySteps
  <2> QED BY <2>1 DEF OnlyGoesThrough
<1>2. n \in Nat /\ DOMAIN s = 1..n /\ \A k \in 1..n : s[k] \in S
  OBVIOUS
<1> DEFINE Up(k) == { s[i] : i \in 1..k }
           T == { k \in 0..n : ToSet(f[k]) = Up(k) \intersect set }
<1> HIDE DEF n
<1>3. 0 \in T
  <2>1. ToSet(f[0]) = {}
    BY <1>1 DEF ToSet
  <2>2. Up(0) = {} /\ 0 \in 0..n
    BY <1>2
  <2> QED BY <2>1, <2>2
<1>4. ASSUME NEW k \in 0..(n - 1), k \in T PROVE k + 1 \in T
  <2>1. k + 1 \in 1..n /\ k + 1 \in 0..n /\ (k + 1) - 1 = k /\ k \in 0..n
    BY <1>2
  <2>2. f[k + 1] = OnlyStep(f[k], s[k + 1], set)
    BY <1>1, <2>1
  <2>3. Up(k + 1) = Up(k) \union {s[k + 1]}
    <3>1. 1..(k + 1) = (1..k) \union {k + 1}
      OBVIOUS
    <3> QED BY <3>1
  <2>4. ToSet(f[k]) = Up(k) \intersect set
    BY <1>4
  <2> HIDE DEF Up
  <2>5. CASE s[k + 1] \in set
    <3>1. f[k] \in Seq(A) /\ s[k + 1] \in A
      BY <1>2, <2>1, <2>5
    <3> HIDE DEF A
    <3>2. f[k + 1] = Append(f[k], s[k + 1])
      BY <2>2, <2>5 DEF OnlyStep
    <3>3. ToSet(f[k + 1]) = ToSet(f[k]) \union {s[k + 1]}
      <4>1. DOMAIN f[k + 1] = 1..(Len(f[k]) + 1) /\ DOMAIN f[k] = 1..Len(f[k])
            /\ Len(f[k]) \in Nat
        BY <3>1, <3>2
      <4>2. /\ \A i \in 1..Len(f[k]) : f[k + 1][i] = f[k][i]
            /\ f[k + 1][Len(f[k]) + 1] = s[k + 1]
        BY <3>1, <3>2, AppendProperties
      <4>3. 1..(Len(f[k]) + 1) = (1..Len(f[k])) \union {Len(f[k]) + 1}
        BY <4>1
      <4> DEFINE m == Len(f[k])
                 a == f[k]
                 b == f[k + 1]
      <4>4. /\ DOMAIN b = (1..m) \union {m + 1} /\ DOMAIN a = 1..m
            /\ \A i \in 1..m : b[i] = a[i]
            /\ b[m + 1] = s[k + 1]
        BY <4>1, <4>2, <4>3
      <4> HIDE DEF m, a, b
      <4>5. { b[i] : i \in DOMAIN b } = { a[i] : i \in DOMAIN a } \union {s[k + 1]}
        BY <4>4
      <4> QED BY <4>5 DEF a, b, ToSet
    <3> QED BY <2>1, <2>3, <2>4, <2>5, <3>3
  <2>6. CASE s[k + 1] \notin set
    <3>1. f[k + 1] = f[k]
      BY <2>2, <2>6 DEF OnlyStep
    <3> QED BY <2>1, <2>3, <2>4, <2>6, <3>1
  <2> QED BY <2>5, <2>6
<1>5. \A k \in 0..n : k \in T
  <2> HIDE DEF T
  <2> QED BY <1>2, <1>3, <1>4, InductionUpTo
<1>6. n \in 0..n
  BY <1>2
<1>7. Up(n) = ToSet(s)
  BY <1>2 DEF ToSet
<1>8. f[n] \in Seq(A)
  BY <1>6
<1> QED BY <1>1, <1>5, <1>6, <1>7, <1>8

\* One step of an expression from a place of the text.
TakeStep(text, p, step) ==
  IF p >= 0 /\ p < Len(text) /\ text[p + 1] \in step.of THEN p + 1
  ELSE IF step.optional THEN p ELSE -1

\* f holds the places the steps of the expression lead to.
Takes(f, text, i, re) ==
  /\ f \in [0..Len(re) -> Int]
  /\ f[0] = i
  /\ \A k \in 1..Len(re) : f[k] = TakeStep(text, f[k - 1], re[k])

LEMMA MatchSteps ==
  ASSUME NEW S, NEW text \in Seq(S), NEW i \in Int, NEW R, NEW re \in Seq(R)
  PROVE  \E f : /\ Takes(f, text, i, re)
                /\ MatchEnd(text, i, re) =
                     IF Boundary(text, i) /\ f[Len(re)] >= 0 /\ Boundary(text, f[Len(re)])
                     THEN f[Len(re)] ELSE -1
<1> DEFINE n == Len(re)
           A == Int
           base == i
           step == [x \in A \X (1..n) |-> TakeStep(text, x[1], re[x[2]])]
           Folds(it) == it = [t \in SUBSET (1..n) |->
                                IF t = {} THEN base
                                ELSE TakeStep(text, it[t \ {Max(t)}], re[Max(t)])]
           g == CHOOSE it : Folds(it)
<1>1. n \in Nat /\ base \in A /\ DOMAIN re = 1..n
  OBVIOUS
<1>2. MatchEnd(text, i, re) =
        IF Boundary(text, i) /\ g[1..n] >= 0 /\ Boundary(text, g[1..n]) THEN g[1..n] ELSE -1
  <2> DEFINE e == (CHOOSE it : it = [t \in SUBSET DOMAIN re |->
               IF t = {} THEN i
               ELSE TakeStep(text, it[t \ {Max(t)}], re[Max(t)])])[DOMAIN re]
  <2>1. MatchEnd(text, i, re)
          = IF Boundary(text, i) /\ e >= 0 /\ Boundary(text, e) THEN e ELSE -1
    BY Zenon DEF MatchEnd, TakeStep, FoldLeft, MapThenFoldSet
  <2>2. e = g[1..n]
    <3> HIDE DEF n
    <3> QED BY <1>1, Zenon
  <2> HIDE DEF e, g
  <2> QED BY <2>1, <2>2
<1>4. step \in [A \X (1..n) -> A]
  <2>1. ASSUME NEW x \in A \X (1..n) PROVE TakeStep(text, x[1], re[x[2]]) \in A
    <3>1. x[1] \in Int
      OBVIOUS
    <3> QED BY <3>1 DEF TakeStep
  <2> QED BY <2>1
<1> HIDE DEF n, A, base
<1>5. \A t \in SUBSET (1..n) : t # {} => Max(t) \in 1..n
  BY <1>1, GreatestIn
<1>6. \A x \in A, k \in 1..n : step[<<x, k>>] = TakeStep(text, x, re[k])
  OBVIOUS
<1> HIDE DEF step
<1>7. PICK it \in [SUBSET (1..n) -> A] : LeftFold(it, n, base, step)
  BY <1>1, <1>4, LeftFoldExists
<1>8. Folds(it)
  <2>1. ASSUME NEW t \in SUBSET (1..n)
        PROVE  it[t] = IF t = {} THEN base
                       ELSE TakeStep(text, it[t \ {Max(t)}], re[Max(t)])
    <3>1. it[t \ {Max(t)}] \in A
      BY <1>7
    <3>2. it[t] = IF t = {} THEN base ELSE step[<<it[t \ {Max(t)}], Max(t)>>]
      BY <1>7 DEF LeftFold
    <3> QED BY <1>5, <1>6, <3>1, <3>2
  <2> QED BY <2>1
<1>9. Folds(g)
  <2> HIDE DEF Folds
  <2> QED BY <1>8
<1> HIDE DEF g
<1>10. \A t \in SUBSET (1..n) :
         g[t] = IF t = {} THEN base ELSE TakeStep(text, g[t \ {Max(t)}], re[Max(t)])
  BY <1>9
<1>11. g[{}] = base
  <2>1. {} \in SUBSET (1..n)
    OBVIOUS
  <2> QED BY <1>10, <2>1
<1>12. \A t \in SUBSET (1..n) : t # {} /\ g[t \ {Max(t)}] \in A =>
         g[t] = step[<<g[t \ {Max(t)}], Max(t)>>]
  BY <1>5, <1>6, <1>10
<1>13. GoesThrough(g, n, A, base, step)
  <2>1. ActsLike(g, n, A, base, step)
    BY <1>11, <1>12 DEF ActsLike
  <2>2. n \in Nat /\ base \in A
    BY <1>1
  <2> QED BY <1>4, <2>1, <2>2, LeftSteps, Zenon
<1>14. PICK f \in [0..n -> A] : StepsOf(f, n, base, step) /\ f[n] = g[1..n]
  BY <1>13 DEF GoesThrough
<1>15. f[0] = base /\ \A k \in 1..n : f[k] = step[<<f[k - 1], k>>]
  BY <1>14 DEF StepsOf
<1>16. \A k \in 1..n : f[k] = TakeStep(text, f[k - 1], re[k])
  <2> SUFFICES ASSUME NEW k \in 1..n PROVE f[k] = TakeStep(text, f[k - 1], re[k])
    OBVIOUS
  <2>1. k - 1 \in 0..n
    BY <1>1
  <2>2. f[k - 1] \in A
    BY <2>1
  <2> QED BY <1>6, <1>15, <2>2
<1>17. Takes(f, text, i, re)
  BY <1>14, <1>15, <1>16 DEF Takes, n, A, base
<1> QED BY <1>2, <1>14, <1>17 DEF n

\* An expression of digits and optional separators; R counts its digits.
IsNumberRE(re, R) ==
  /\ re \in Seq({One(Digit), Maybe(Separator)})
  /\ R \in [0..Len(re) -> Nat]
  /\ R[0] = 0
  /\ \A k \in 1..Len(re) : R[k] = R[k - 1] + (IF re[k] = One(Digit) THEN 1 ELSE 0)

\* The digits of a span of the text.
DigitsIn(text, i, p) == Only(SubSeq(text, i + 1, p), Digit)

\* A match lies in the text, is not longer than its expression and has as many
\* digits.
LEMMA MatchShape ==
  ASSUME NEW S, NEW text \in Seq(S), NEW i \in 0..Len(text), NEW re, NEW R, IsNumberRE(re, R)
  PROVE  LET e == MatchEnd(text, i, re) IN
         /\ e \in Int /\ e >= -1
         /\ e >= 0 => /\ e <= Len(text) /\ e - i <= Len(re) /\ R[Len(re)] <= e - i
                      /\ DigitsIn(text, i, e) \in Seq(Digit)
                      /\ Len(DigitsIn(text, i, e)) = R[Len(re)]
<1> DEFINE n == Len(re)
           N == Len(text)
           St == {One(Digit), Maybe(Separator)}
           G(p, k) == p = -1 \/ /\ p \in i..N
                                /\ p - i <= k /\ R[k] <= p - i
                                /\ DigitsIn(text, i, p) \in Seq(Digit)
                                /\ Len(DigitsIn(text, i, p)) = R[k]
<1>1. re \in Seq(St)
  BY DEF IsNumberRE
<1>2. n \in Nat /\ N \in Nat /\ i \in Int /\ \A k \in 1..n : re[k] \in St
  <2> HIDE DEF St
  <2> QED BY <1>1
<1>3. PICK f : /\ Takes(f, text, i, re)
               /\ MatchEnd(text, i, re) =
                     IF Boundary(text, i) /\ f[n] >= 0 /\ Boundary(text, f[n])
                     THEN f[n] ELSE -1
  <2> HIDE DEF St
  <2> QED BY <1>1, <1>2, MatchSteps
<1> DEFINE T == { k \in 0..n : G(f[k], k) }
<1>4. R[0] = 0 /\ \A k \in 1..n : R[k] = R[k - 1] + (IF re[k] = One(Digit) THEN 1 ELSE 0)
  BY DEF IsNumberRE
<1>5. \A k \in 0..n : R[k] \in Nat
  BY DEF IsNumberRE
<1>6. f[0] = i /\ \A k \in 1..n : f[k] = TakeStep(text, f[k - 1], re[k])
  BY <1>3 DEF Takes
<1> HIDE DEF St, n, N
<1>7. 0 \in T
  <2>1. SubSeq(text, i + 1, i) = <<>>
    BY <1>2, SubSeqEmpty
  <2>2. Only(<<>>, Digit) = <<>>
    <3>1. OnlyGoesThrough(S, <<>>, Digit)
      BY EmptySeq, OnlySteps
    <3>2. Len(<<>>) = 0
      OBVIOUS
    <3> QED BY <3>1, <3>2 DEF OnlyGoesThrough
  <2>3. DigitsIn(text, i, i) = <<>>
    BY <2>1, <2>2 DEF DigitsIn
  <2>4. i \in i..N /\ i - i = 0 /\ 0 \in 0..n
    BY <1>2 DEF N
  <2>5. <<>> \in Seq(Digit) /\ Len(<<>>) = 0
    BY EmptySeq
  <2>6. Len(DigitsIn(text, i, i)) = R[0] /\ DigitsIn(text, i, i) \in Seq(Digit)
    BY <1>4, <2>3, <2>5
  <2>7. i - i <= 0 /\ R[0] <= i - i
    BY <1>4, <2>4
  <2>8. G(i, 0)
    BY <2>4, <2>6, <2>7
  <2> QED BY <1>6, <2>4, <2>8
<1>8. ASSUME NEW k \in 0..(n - 1), k \in T PROVE k + 1 \in T
  <2> DEFINE p == f[k]
             q == f[k + 1]
             step == re[k + 1]
  <2>1. /\ k + 1 \in 1..n /\ k + 1 \in 0..n /\ (k + 1) - 1 = k /\ k \in 0..n
        /\ k \in Int
    BY <1>2
  <2>2. q = TakeStep(text, p, step) /\ R[k + 1] = R[k] + (IF step = One(Digit) THEN 1 ELSE 0)
        /\ step \in St /\ R[k] \in Nat
    BY <1>2, <1>4, <1>5, <1>6, <2>1
  <2>3. G(p, k)
    BY <1>8
  <2> HIDE DEF p, q, step
  <2>4. One(Digit) # Maybe(Separator)
        /\ One(Digit).of = Digit /\ One(Digit).optional = FALSE
        /\ Maybe(Separator).of = Separator /\ Maybe(Separator).optional = TRUE
    BY DEF One, Maybe
  <2>5. CASE p >= 0 /\ p < Len(text) /\ text[p + 1] \in step.of
    <3>1. q = p + 1 /\ p # -1
      BY <2>2, <2>3, <2>5 DEF TakeStep
    <3>2. p \in i..N /\ p + 1 \in i..N /\ p + 1 \in 1..Len(text)
      BY <1>2, <2>3, <2>5, <3>1 DEF N
    <3>3. /\ SubSeq(text, i + 1, p) \in Seq(S)
          /\ SubSeq(text, i + 1, p + 1) = Append(SubSeq(text, i + 1, p), text[p + 1])
          /\ text[p + 1] \in S
      <4> DEFINE a == SubSeq(text, i + 1, p)
                 b == SubSeq(text, i + 1, p + 1)
                 c == text[p + 1]
      <4>1. p \in Int /\ i \in Nat /\ i <= p /\ p + 1 <= Len(text)
        BY <1>2, <3>2
      <4>2. \A j \in (i + 1)..(p + 1) : text[j] \in S
        BY <4>1
      <4>3. /\ a \in Seq(S) /\ Len(a) = p - i
            /\ \A j \in 1..(p - i) : a[j] = text[i + j]
        <5>1. i + 1 \in Int /\ \A j \in (i + 1)..p : text[j] \in S
          BY <4>1, <4>2
        <5>2. /\ a \in Seq(S) /\ Len(a) = IF i + 1 <= p THEN p - (i + 1) + 1 ELSE 0
              /\ \A j \in 1..(p - (i + 1) + 1) : a[j] = text[(i + 1) + j - 1]
          BY <4>1, <5>1, SubSeqProperties
        <5> HIDE DEF a
        <5> QED BY <4>1, <5>2
      <4>4. /\ b \in Seq(S) /\ Len(b) = p - i + 1
            /\ \A j \in 1..(p - i + 1) : b[j] = text[i + j]
        <5>1. i + 1 \in Int /\ p + 1 \in Int
          BY <4>1
        <5>2. /\ b \in Seq(S) /\ Len(b) = IF i + 1 <= p + 1 THEN (p + 1) - (i + 1) + 1 ELSE 0
              /\ \A j \in 1..((p + 1) - (i + 1) + 1) : b[j] = text[(i + 1) + j - 1]
          BY <4>2, <5>1, SubSeqProperties
        <5> HIDE DEF b
        <5> QED BY <4>1, <5>2
      <4>5. c \in S
        BY <4>1, <4>2
      <4> HIDE DEF a, b
      <4>6. /\ Append(a, c) \in Seq(S) /\ Len(Append(a, c)) = p - i + 1
            /\ \A j \in 1..(p - i) : Append(a, c)[j] = a[j]
            /\ Append(a, c)[p - i + 1] = c
        BY <4>3, <4>5, AppendProperties
      <4>7. \A j \in 1..(p - i + 1) : b[j] = Append(a, c)[j]
        <5> SUFFICES ASSUME NEW j \in 1..(p - i + 1) PROVE b[j] = Append(a, c)[j]
          OBVIOUS
        <5>1. b[j] = text[i + j]
          BY <4>4
        <5>2. CASE j = p - i + 1
          <6>1. i + j = p + 1
            BY <4>1, <5>2
          <6> QED BY <4>6, <5>1, <5>2, <6>1
        <5>3. CASE j # p - i + 1
          <6>1. j \in 1..(p - i)
            BY <4>1, <5>3
          <6> QED BY <4>3, <4>6, <5>1, <6>1
        <5> QED BY <5>2, <5>3
      <4>8. b = Append(a, c)
        BY <4>4, <4>6, <4>7, SeqEqual
      <4> QED BY <4>3, <4>5, <4>8 DEF a, b
    <3>4. DigitsIn(text, i, p + 1) = OnlyStep(DigitsIn(text, i, p), text[p + 1], Digit)
      BY <3>3, OnlyAppend DEF DigitsIn
    <3>5. CASE step = One(Digit)
      <4>1. text[p + 1] \in Digit
        BY <2>4, <2>5, <3>5
      <4>2. DigitsIn(text, i, p + 1) = Append(DigitsIn(text, i, p), text[p + 1])
        BY <3>4, <4>1 DEF OnlyStep
      <4>3. DigitsIn(text, i, p) \in Seq(Digit) /\ Len(DigitsIn(text, i, p)) = R[k]
        BY <2>3, <3>1
      <4>4. /\ DigitsIn(text, i, p + 1) \in Seq(Digit)
            /\ Len(DigitsIn(text, i, p + 1)) = R[k] + 1
        BY <4>1, <4>2, <4>3, AppendProperties
      <4>5. R[k + 1] = R[k] + 1
        BY <2>2, <3>5
      <4>6. (p + 1) - i <= k + 1 /\ R[k] + 1 <= (p + 1) - i
        BY <1>2, <2>1, <2>2, <2>3, <3>1, <3>2
      <4> QED BY <2>1, <3>1, <3>2, <4>4, <4>5, <4>6 DEF q
    <3>6. CASE step = Maybe(Separator)
      <4>1. text[p + 1] \notin Digit
        BY <2>4, <2>5, <3>6 DEF Separator, Digit, Blank, Dot, Dash
      <4>2. DigitsIn(text, i, p + 1) = DigitsIn(text, i, p)
        BY <3>4, <4>1 DEF OnlyStep
      <4>3. DigitsIn(text, i, p) \in Seq(Digit) /\ Len(DigitsIn(text, i, p)) = R[k]
        BY <2>3, <3>1
      <4>5. R[k + 1] = R[k]
        BY <2>2, <2>4, <3>6
      <4>6. (p + 1) - i <= k + 1 /\ R[k] <= (p + 1) - i
        BY <1>2, <2>1, <2>2, <2>3, <3>1, <3>2
      <4> QED BY <2>1, <3>1, <3>2, <4>2, <4>3, <4>5, <4>6 DEF q
    <3> QED BY <2>2, <3>5, <3>6 DEF St
  <2>6. CASE ~ (p >= 0 /\ p < Len(text) /\ text[p + 1] \in step.of)
    <3>1. q = IF step.optional THEN p ELSE -1
      BY <2>2, <2>6 DEF TakeStep
    <3>2. CASE q = -1
      BY <2>1, <3>2 DEF q
    <3>3. CASE q # -1
      <4>1. q = p /\ step = Maybe(Separator)
        BY <2>2, <2>4, <3>1, <3>3 DEF St
      <4>2. R[k + 1] = R[k]
        BY <2>2, <2>4, <4>1
      <4>3. G(q, k)
        BY <2>3, <4>1
      <4>4. q \in Int
        BY <1>2, <3>3, <4>3
      <4>5. G(q, k + 1)
        BY <1>2, <2>1, <3>3, <4>2, <4>3, <4>4
      <4> QED BY <2>1, <4>5 DEF q
    <3> QED BY <3>2, <3>3
  <2> QED BY <2>5, <2>6
<1>9. \A k \in 0..n : k \in T
  <2> HIDE DEF T
  <2> QED BY <1>2, <1>7, <1>8, InductionUpTo
<1>10. n \in 0..n
  BY <1>2
<1>11. G(f[n], n)
  BY <1>9, <1>10
<1>12. f[n] = -1 \/ f[n] \in i..N
  BY <1>11
<1> HIDE DEF G
<1>13. CASE MatchEnd(text, i, re) = -1
  BY <1>13
<1>14. CASE MatchEnd(text, i, re) # -1
  <2>1. MatchEnd(text, i, re) = f[n] /\ f[n] # -1
    BY <1>3, <1>14 DEF n
  <2>2. f[n] \in Int /\ f[n] >= 0
    BY <1>2, <1>12, <2>1
  <2> QED BY <1>2, <1>11, <2>1, <2>2 DEF G, n, N
<1> QED BY <1>13, <1>14

\* The expression of a SIREN, and that of a SIRET.
LEMMA SirenShape ==
  /\ sirenRE \in Seq({One(Digit), Maybe(Separator)})
  /\ Len(sirenRE) = 11
  /\ \A k \in 1..11 : sirenRE[k] = IF k \in {4, 8} THEN Maybe(Separator) ELSE One(Digit)
<1> DEFINE d == One(Digit)
           m == Maybe(Separator)
           St == {d, m}
           a == Times(3, Digit)
           b == <<m>>
<1>1. a \in Seq(St) /\ Len(a) = 3 /\ \A k \in 1..3 : a[k] = d
  BY DEF Times
<1>2. b \in Seq(St) /\ Len(b) = 1 /\ b[1] = m
  OBVIOUS
<1>3. sirenRE = (((a \o b) \o a) \o b) \o a
  BY DEF sirenRE
<1> HIDE DEF a, b, d, m, St
<1> DEFINE u == a \o b
           v == u \o a
           w == v \o b
           x == w \o a
<1>4. /\ u \in Seq(St) /\ Len(u) = 4
      /\ \A k \in 1..4 : u[k] = IF k <= 3 THEN a[k] ELSE b[k - 3]
  <2>1. 3 \in Nat /\ 1 \in Nat
    OBVIOUS
  <2>2. IsTogether(u, St, a, b, 3, 1)
    BY <1>1, <1>2, <2>1, PutTogether, Zenon
  <2> HIDE DEF u
  <2> QED BY <2>2 DEF IsTogether
<1> HIDE DEF u
<1>5. /\ v \in Seq(St) /\ Len(v) = 7
      /\ \A k \in 1..7 : v[k] = IF k <= 4 THEN u[k] ELSE a[k - 4]
  <2>1. 4 \in Nat /\ 3 \in Nat
    OBVIOUS
  <2>2. IsTogether(v, St, u, a, 4, 3)
    BY <1>1, <1>4, <2>1, PutTogether, Zenon
  <2> HIDE DEF v
  <2> QED BY <2>2 DEF IsTogether
<1> HIDE DEF v
<1>6. /\ w \in Seq(St) /\ Len(w) = 8
      /\ \A k \in 1..8 : w[k] = IF k <= 7 THEN v[k] ELSE b[k - 7]
  <2>1. 7 \in Nat /\ 1 \in Nat
    OBVIOUS
  <2>2. IsTogether(w, St, v, b, 7, 1)
    BY <1>2, <1>5, <2>1, PutTogether, Zenon
  <2> HIDE DEF w
  <2> QED BY <2>2 DEF IsTogether
<1> HIDE DEF w
<1>7. /\ x \in Seq(St) /\ Len(x) = 11
      /\ \A k \in 1..11 : x[k] = IF k <= 8 THEN w[k] ELSE a[k - 8]
  <2>1. 8 \in Nat /\ 3 \in Nat
    OBVIOUS
  <2>2. IsTogether(x, St, w, a, 8, 3)
    BY <1>1, <1>6, <2>1, PutTogether, Zenon
  <2> HIDE DEF x
  <2> QED BY <2>2 DEF IsTogether
<1>8. sirenRE = x
  BY <1>3 DEF u, v, w
<1> HIDE DEF x
<1>9. \A k \in 1..11 : x[k] = IF k \in {4, 8} THEN m ELSE d
  BY <1>1, <1>2, <1>4, <1>5, <1>6, <1>7
<1> QED BY <1>7, <1>8, <1>9 DEF d, m, St

LEMMA SiretShape ==
  /\ siretRE \in Seq({One(Digit), Maybe(Separator)})
  /\ Len(siretRE) = 17
  /\ \A k \in 1..17 : siretRE[k] = IF k \in {4, 8, 12} THEN Maybe(Separator) ELSE One(Digit)
<1> DEFINE d == One(Digit)
           m == Maybe(Separator)
           St == {d, m}
           a == Times(5, Digit)
           b == <<m>>
           s == sirenRE
<1>1. a \in Seq(St) /\ Len(a) = 5 /\ \A k \in 1..5 : a[k] = d
  BY DEF Times
<1>2. b \in Seq(St) /\ Len(b) = 1 /\ b[1] = m
  OBVIOUS
<1>3. siretRE = (s \o b) \o a
  BY DEF siretRE
<1>4. /\ s \in Seq(St) /\ Len(s) = 11
      /\ \A k \in 1..11 : s[k] = IF k \in {4, 8} THEN m ELSE d
  BY SirenShape
<1> HIDE DEF a, b, d, m, St, s
<1> DEFINE u == s \o b
           v == u \o a
<1>5. /\ u \in Seq(St) /\ Len(u) = 12
      /\ \A k \in 1..12 : u[k] = IF k <= 11 THEN s[k] ELSE b[k - 11]
  <2>1. 11 \in Nat /\ 1 \in Nat
    OBVIOUS
  <2>2. IsTogether(u, St, s, b, 11, 1)
    BY <1>2, <1>4, <2>1, PutTogether, Zenon
  <2> HIDE DEF u
  <2> QED BY <2>2 DEF IsTogether
<1> HIDE DEF u
<1>6. /\ v \in Seq(St) /\ Len(v) = 17
      /\ \A k \in 1..17 : v[k] = IF k <= 12 THEN u[k] ELSE a[k - 12]
  <2>1. 12 \in Nat /\ 5 \in Nat
    OBVIOUS
  <2>2. IsTogether(v, St, u, a, 12, 5)
    BY <1>1, <1>5, <2>1, PutTogether, Zenon
  <2> HIDE DEF v
  <2> QED BY <2>2 DEF IsTogether
<1>7. siretRE = v
  BY <1>3 DEF u
<1> HIDE DEF v
<1>8. \A k \in 1..17 : v[k] = IF k \in {4, 8, 12} THEN m ELSE d
  BY <1>1, <1>2, <1>4, <1>5, <1>6
<1> QED BY <1>6, <1>7, <1>8 DEF d, m, St

\* Nine digits, and fourteen.
LEMMA NumberREs ==
  /\ \E R : IsNumberRE(sirenRE, R) /\ R[Len(sirenRE)] = 9
  /\ \E R : IsNumberRE(siretRE, R) /\ R[Len(siretRE)] = 14
<1>1. One(Digit) # Maybe(Separator)
  <2>1. One(Digit).optional = FALSE /\ Maybe(Separator).optional = TRUE
    BY DEF One, Maybe
  <2> QED BY <2>1
<1>2. ASSUME NEW re, NEW n \in {11, 17}, Len(re) = n,
             re \in Seq({One(Digit), Maybe(Separator)}),
             \A k \in 1..n : re[k] = IF k \in {4, 8, 12} THEN Maybe(Separator) ELSE One(Digit)
      PROVE  \E R : IsNumberRE(re, R) /\ R[n] = IF n = 11 THEN 9 ELSE 14
  <2> DEFINE R == [k \in 0..n |-> IF k < 4 THEN k ELSE IF k < 8 THEN k - 1
                                  ELSE IF k < 12 THEN k - 2 ELSE k - 3]
  <2>1. R \in [0..n -> Nat]
    OBVIOUS
  <2>2. R[0] = 0 /\ R[n] = IF n = 11 THEN 9 ELSE 14
    OBVIOUS
  <2>3. ASSUME NEW k \in 1..n
        PROVE  R[k] = R[k - 1] + (IF re[k] = One(Digit) THEN 1 ELSE 0)
    <3>1. k \in 0..n /\ k - 1 \in 0..n
      OBVIOUS
    <3>2. re[k] = One(Digit) <=> k \notin {4, 8, 12}
      BY <1>1, <1>2
    <3> QED BY <3>1, <3>2
  <2> HIDE DEF R
  <2> QED BY <1>2, <2>1, <2>2, <2>3 DEF IsNumberRE
<1>3. \E R : IsNumberRE(sirenRE, R) /\ R[11] = 9
  <2>1. \A k \in 1..11 : k \in {4, 8} <=> k \in {4, 8, 12}
    OBVIOUS
  <2>2. \A k \in 1..11 : sirenRE[k] = IF k \in {4, 8, 12} THEN Maybe(Separator) ELSE One(Digit)
    BY <2>1, SirenShape
  <2> QED BY <1>2, <2>2, SirenShape
<1>4. \E R : IsNumberRE(siretRE, R) /\ R[17] = 14
  BY <1>2, SiretShape
<1> QED BY <1>3, <1>4, SirenShape, SiretShape

\* The matches of the two expressions: their place, their length and their
\* digits.
LEMMA NumberMatches ==
  ASSUME NEW S, NEW text \in Seq(S), NEW i \in 0..Len(text)
  PROVE  LET a == MatchEnd(text, i, sirenRE)
             b == MatchEnd(text, i, siretRE)
         IN  /\ a \in Int /\ a >= -1 /\ b \in Int /\ b >= -1
             /\ a >= 0 => /\ a <= Len(text) /\ a - i \in 9..11
                          /\ DigitsIn(text, i, a) \in Seq(Digit)
                          /\ Len(DigitsIn(text, i, a)) = 9
             /\ b >= 0 => /\ b <= Len(text) /\ b - i \in 14..17
                          /\ DigitsIn(text, i, b) \in Seq(Digit)
                          /\ Len(DigitsIn(text, i, b)) = 14
<1>1. Len(sirenRE) = 11 /\ Len(siretRE) = 17 /\ i \in Int
  BY SirenShape, SiretShape
<1>2. PICK Q : IsNumberRE(sirenRE, Q) /\ Q[11] = 9
  BY <1>1, NumberREs
<1>3. PICK R : IsNumberRE(siretRE, R) /\ R[17] = 14
  BY <1>1, NumberREs
<1> DEFINE a == MatchEnd(text, i, sirenRE)
           b == MatchEnd(text, i, siretRE)
<1>4. /\ a \in Int /\ a >= -1
      /\ a >= 0 => /\ a <= Len(text) /\ a - i <= 11 /\ 9 <= a - i
                   /\ DigitsIn(text, i, a) \in Seq(Digit)
                   /\ Len(DigitsIn(text, i, a)) = 9
  BY <1>1, <1>2, MatchShape
<1>5. /\ b \in Int /\ b >= -1
      /\ b >= 0 => /\ b <= Len(text) /\ b - i <= 17 /\ 14 <= b - i
                   /\ DigitsIn(text, i, b) \in Seq(Digit)
                   /\ Len(DigitsIn(text, i, b)) = 14
  BY <1>1, <1>3, MatchShape
<1> HIDE DEF a, b
<1>6. /\ a >= 0 => a - i \in 9..11
      /\ b >= 0 => b - i \in 14..17
  BY <1>1, <1>4, <1>5
<1> QED BY <1>4, <1>5, <1>6 DEF a, b

\* One place more of the text.
ScanStep(text, re, spans, i) ==
  IF (spans # <<>> => Last(spans)[2] <= i) /\ MatchEnd(text, i, re) >= 0
  THEN Append(spans, <<i, MatchEnd(text, i, re)>>) ELSE spans

\* f holds the matches found up to each place.
Scans(f, text, re) ==
  /\ f \in [0..Len(text) -> Seq(Int \X Int)]
  /\ f[0] = <<>>
  /\ \A k \in 1..Len(text) : f[k] = ScanStep(text, re, f[k - 1], k - 1)

\* A match is not empty.
GoesOn(text, re) ==
  \A i \in 0..Len(text) :
    /\ MatchEnd(text, i, re) \in Int
    /\ MatchEnd(text, i, re) >= 0 => i < MatchEnd(text, i, re)

LEMMA FindSteps ==
  ASSUME NEW S, NEW text \in Seq(S), NEW re, GoesOn(text, re)
  PROVE  \E f : Scans(f, text, re) /\ FindAllIn(text, re) = f[Len(text)]
<1> DEFINE n == Len(text)
           A == Seq(Int \X Int)
           base == <<>>
           ks == [k \in 1..n |-> k - 1]
           step == [x \in A \X (1..n) |-> ScanStep(text, re, x[1], x[2] - 1)]
           Folds(it) == it = [t \in SUBSET (1..n) |->
                                IF t = {} THEN base
                                ELSE ScanStep(text, re, it[t \ {Max(t)}], ks[Max(t)])]
           g == CHOOSE it : Folds(it)
<1>1. n \in Nat /\ base \in A
  BY EmptySeq
<1>2. FindAllIn(text, re) = g[1..n]
  <2>1. FindAllIn(text, re)
          = (CHOOSE it : it = [t \in SUBSET DOMAIN ks |->
               IF t = {} THEN base
               ELSE ScanStep(text, re, it[t \ {Max(t)}], ks[Max(t)])])[DOMAIN ks]
    BY Zenon DEF FindAllIn, ScanStep, FoldLeft, MapThenFoldSet
  <2>2. DOMAIN ks = 1..n
    OBVIOUS
  <2> HIDE DEF ks, n, base
  <2> QED BY <2>1, <2>2, Zenon
<1>3. \A k \in 1..n : ks[k] = k - 1
  OBVIOUS
<1> HIDE DEF ks
<1>4. step \in [A \X (1..n) -> A]
  <2>1. ASSUME NEW x \in A \X (1..n) PROVE ScanStep(text, re, x[1], x[2] - 1) \in A
    <3> DEFINE i == x[2] - 1
    <3>1. x[1] \in A /\ i \in Int /\ i \in 0..Len(text)
      BY <1>1
    <3> HIDE DEF i, A
    <3>2. MatchEnd(text, i, re) \in Int
      BY <3>1 DEF GoesOn
    <3>3. <<i, MatchEnd(text, i, re)>> \in Int \X Int
      BY <3>1, <3>2
    <3>4. Append(x[1], <<i, MatchEnd(text, i, re)>>) \in A
      BY <3>1, <3>3, AppendProperties DEF A
    <3>5. ScanStep(text, re, x[1], i) \in A
      BY <3>1, <3>4 DEF ScanStep
    <3> QED BY <3>5 DEF i
  <2> HIDE DEF A
  <2> QED BY <2>1
<1> HIDE DEF n, A, base
<1>5. \A t \in SUBSET (1..n) : t # {} => Max(t) \in 1..n
  BY <1>1, GreatestIn
<1>6. \A x \in A, k \in 1..n : step[<<x, k>>] = ScanStep(text, re, x, k - 1)
  OBVIOUS
<1> HIDE DEF step
<1>7. PICK it \in [SUBSET (1..n) -> A] : LeftFold(it, n, base, step)
  BY <1>1, <1>4, LeftFoldExists
<1>8. Folds(it)
  <2>1. ASSUME NEW t \in SUBSET (1..n)
        PROVE  it[t] = IF t = {} THEN base
                       ELSE ScanStep(text, re, it[t \ {Max(t)}], ks[Max(t)])
    <3>1. it[t \ {Max(t)}] \in A
      BY <1>7
    <3>2. it[t] = IF t = {} THEN base ELSE step[<<it[t \ {Max(t)}], Max(t)>>]
      BY <1>7 DEF LeftFold
    <3> QED BY <1>3, <1>5, <1>6, <3>1, <3>2
  <2> QED BY <2>1
<1>9. Folds(g)
  <2> HIDE DEF Folds
  <2> QED BY <1>8
<1> HIDE DEF g
<1>10. \A t \in SUBSET (1..n) :
         g[t] = IF t = {} THEN base ELSE ScanStep(text, re, g[t \ {Max(t)}], ks[Max(t)])
  BY <1>9
<1>11. g[{}] = base
  <2>1. {} \in SUBSET (1..n)
    OBVIOUS
  <2> QED BY <1>10, <2>1
<1>12. \A t \in SUBSET (1..n) : t # {} /\ g[t \ {Max(t)}] \in A =>
         g[t] = step[<<g[t \ {Max(t)}], Max(t)>>]
  BY <1>3, <1>5, <1>6, <1>10
<1>13. GoesThrough(g, n, A, base, step)
  <2>1. ActsLike(g, n, A, base, step)
    BY <1>11, <1>12 DEF ActsLike
  <2>2. n \in Nat /\ base \in A
    BY <1>1
  <2> QED BY <1>4, <2>1, <2>2, LeftSteps, Zenon
<1>14. PICK f \in [0..n -> A] : StepsOf(f, n, base, step) /\ f[n] = g[1..n]
  BY <1>13 DEF GoesThrough
<1>15. f[0] = base /\ \A k \in 1..n : f[k] = step[<<f[k - 1], k>>]
  BY <1>14 DEF StepsOf
<1>16. \A k \in 1..n : f[k] = ScanStep(text, re, f[k - 1], k - 1)
  <2> SUFFICES ASSUME NEW k \in 1..n PROVE f[k] = ScanStep(text, re, f[k - 1], k - 1)
    OBVIOUS
  <2>1. k - 1 \in 0..n
    BY <1>1
  <2>2. f[k - 1] \in A
    BY <2>1
  <2> QED BY <1>6, <1>15, <2>2
<1>17. Scans(f, text, re)
  BY <1>14, <1>15, <1>16 DEF Scans, n, A, base
<1> QED BY <1>2, <1>14, <1>17 DEF n

\* The matches found are candidates, none meets another, and they are all that
\* can be added: what is left out meets one of them.
FindsAll(spans, all) ==
  /\ spans \in Seq(Int \X Int)
  /\ ToSet(spans) \subseteq all
  /\ \A s, t \in ToSet(spans) : s # t => ~ Meet(s, t)
  /\ \A s \in all : s \in ToSet(spans) \/ \E t \in ToSet(spans) : t # s /\ Meet(s, t)

LEMMA MatchesFound ==
  ASSUME NEW S, NEW text \in Seq(S), NEW re, GoesOn(text, re),
         MatchEnd(text, Len(text), re) < 0
  PROVE  FindsAll(FindAllIn(text, re), Candidates(text, re))
<1> DEFINE n == Len(text)
           M(i) == MatchEnd(text, i, re)
           Inv(ss, k) ==
             /\ \A a \in 1..Len(ss) : /\ ss[a] = <<ss[a][1], M(ss[a][1])>>
                                      /\ ss[a][1] \in 0..(k - 1) /\ ss[a][2] >= 0
             /\ \A a, b \in 1..Len(ss) : a < b => ss[a][2] <= ss[b][1]
             /\ \A i \in 0..(k - 1) : M(i) >= 0 =>
                  \E a \in 1..Len(ss) : ss[a][1] <= i /\ i < ss[a][2]
<1>1. n \in Nat /\ \A i \in 0..n : M(i) \in Int /\ (M(i) >= 0 => i < M(i))
  BY DEF GoesOn
<1>2. PICK f : Scans(f, text, re) /\ FindAllIn(text, re) = f[n]
  BY FindSteps
<1>3. /\ f \in [0..n -> Seq(Int \X Int)] /\ f[0] = <<>>
      /\ \A k \in 1..n : f[k] = ScanStep(text, re, f[k - 1], k - 1)
  BY <1>2 DEF Scans
<1>4. \A k \in 0..n : f[k] \in Seq(Int \X Int)
  BY <1>3
<1> DEFINE T == { k \in 0..n : Inv(f[k], k) }
<1>5. 0 \in T
  <2>1. Len(f[0]) = 0 /\ 0 \in 0..n
    BY <1>1, <1>3
  <2> HIDE DEF M
  <2> QED BY <2>1
<1> HIDE DEF n, M
<1>6. ASSUME NEW k \in 0..(n - 1), k \in T PROVE k + 1 \in T
  <2> DEFINE ss == f[k]
             tt == f[k + 1]
             m == Len(ss)
  <2>1. /\ k + 1 \in 1..n /\ k + 1 \in 0..n /\ (k + 1) - 1 = k /\ k \in 0..n /\ k \in Nat
    BY <1>1
  <2>2. tt = ScanStep(text, re, ss, k)
    BY <1>3, <2>1
  <2>3. Inv(ss, k)
    BY <1>6
  <2>4. ss \in Seq(Int \X Int) /\ m \in Nat /\ \A a \in 1..m : ss[a][1] \in Int /\ ss[a][2] \in Int
    BY <1>4, <2>1
  <2>5. M(k) \in Int /\ (M(k) >= 0 => k < M(k))
    BY <1>1, <2>1
  <2>6. \A a \in 1..m : ss[a][1] < ss[a][2] /\ ss[a][1] < k
    <3> SUFFICES ASSUME NEW a \in 1..m PROVE ss[a][1] < ss[a][2] /\ ss[a][1] < k
      OBVIOUS
    <3>1. ss[a][1] \in 0..(k - 1) /\ ss[a][2] >= 0 /\ ss[a] = <<ss[a][1], M(ss[a][1])>>
      BY <2>3
    <3>2. ss[a][1] \in 0..n
      <4> DEFINE x == ss[a][1]
      <4>1. x \in 0..(k - 1) /\ k \in 0..n
        BY <2>1, <3>1
      <4> HIDE DEF x
      <4>2. x \in 0..n
        BY <1>1, <4>1
      <4> QED BY <4>2 DEF x
    <3>3. ss[a][2] = M(ss[a][1])
      <4> DEFINE x == ss[a]
                 e == M(ss[a][1])
      <4>1. x = <<ss[a][1], e>>
        BY <3>1
      <4> HIDE DEF x, e
      <4>2. x[2] = e
        BY <4>1
      <4> QED BY <4>2 DEF x, e
    <3> QED BY <1>1, <2>1, <3>1, <3>2, <3>3
  <2> HIDE DEF ss, tt, m
  <2>7. ss # <<>> => m > 0 /\ Last(ss) = ss[m] /\ m \in 1..m
    BY <2>4 DEF Last, m
  <2>8. CASE (ss # <<>> => Last(ss)[2] <= k) /\ M(k) >= 0
    <3> DEFINE new == <<k, M(k)>>
    <3>1. tt = Append(ss, new)
      BY <2>2, <2>8 DEF ScanStep, M
    <3>2. new \in Int \X Int /\ new[1] = k /\ new[2] = M(k)
      BY <2>1, <2>5
    <3> HIDE DEF new
    <3>3. /\ Len(tt) = m + 1
          /\ \A a \in 1..m : tt[a] = ss[a]
          /\ tt[m + 1] = new
      BY <2>4, <3>1, <3>2, AppendProperties DEF m
    <3>4. ASSUME NEW a \in 1..m PROVE ss[a][2] <= k
      <4>1. ss # <<>> /\ Last(ss) = ss[m] /\ m \in 1..m
        <5>1. ss # <<>>
          BY <2>4 DEF m
        <5> QED BY <2>7, <5>1
      <4>2. ss[m][2] <= k
        BY <2>8, <4>1
      <4>3. CASE a = m
        BY <4>2, <4>3
      <4>4. CASE a # m
        <5>1. a < m
          BY <2>4, <4>4
        <5>2. ss[a][2] <= ss[m][1]
          BY <2>3, <4>1, <5>1 DEF m
        <5>3. ss[m][1] < ss[m][2]
          BY <2>6, <4>1
        <5> QED BY <2>1, <2>4, <4>1, <4>2, <5>2, <5>3
      <4> QED BY <4>3, <4>4
    <3>5. \A a \in 1..(m + 1) : a \in 1..m \/ a = m + 1
      <4>1. m \in Nat
        BY <2>4
      <4> QED BY <4>1
    <3>6. ASSUME NEW a \in 1..(m + 1)
          PROVE  tt[a] = <<tt[a][1], M(tt[a][1])>> /\ tt[a][1] \in 0..k /\ tt[a][2] >= 0
      <4>1. CASE a \in 1..m
        <5>1. ss[a] = <<ss[a][1], M(ss[a][1])>> /\ ss[a][1] \in 0..(k - 1) /\ ss[a][2] >= 0
          BY <2>3, <4>1 DEF m
        <5>2. tt[a] = ss[a]
          BY <3>3, <4>1
        <5> QED BY <2>1, <5>1, <5>2
      <4>2. CASE a = m + 1
        <5>1. tt[a] = new /\ new[1] = k /\ new[2] = M(k) /\ new = <<k, M(k)>>
          BY <3>2, <3>3, <4>2 DEF new
        <5> QED BY <2>1, <2>8, <5>1
      <4> QED BY <3>5, <4>1, <4>2
    <3>7. ASSUME NEW a \in 1..(m + 1), NEW b \in 1..(m + 1), a < b
          PROVE  tt[a][2] <= tt[b][1]
      <4>1. a \in 1..m
        BY <2>4, <3>7
      <4>2. CASE b \in 1..m
        BY <2>3, <3>3, <3>7, <4>1, <4>2 DEF m
      <4>3. CASE b = m + 1
        BY <3>2, <3>3, <3>4, <4>1, <4>3
      <4> QED BY <3>5, <4>2, <4>3
    <3>8. ASSUME NEW i \in 0..k, M(i) >= 0
          PROVE  \E a \in 1..(m + 1) : tt[a][1] <= i /\ i < tt[a][2]
      <4>1. CASE i = k
        <5>1. m + 1 \in 1..(m + 1)
          BY <2>4
        <5>2. tt[m + 1][1] <= i /\ i < tt[m + 1][2]
          BY <2>1, <2>5, <2>8, <3>2, <3>3, <4>1
        <5> QED BY <5>1, <5>2
      <4>2. CASE i # k
        <5>1. i \in 0..(k - 1)
          BY <2>1, <4>2
        <5>2. PICK a \in 1..m : ss[a][1] <= i /\ i < ss[a][2]
          BY <2>3, <3>8, <5>1 DEF m
        <5>3. a \in 1..(m + 1)
          BY <2>4
        <5> QED BY <3>3, <5>2, <5>3
      <4> QED BY <4>1, <4>2
    <3>9. Inv(tt, k + 1)
      BY <2>1, <3>3, <3>6, <3>7, <3>8
    <3> QED BY <2>1, <3>9 DEF tt
  <2>9. CASE ~ ((ss # <<>> => Last(ss)[2] <= k) /\ M(k) >= 0)
    <3>1. tt = ss
      BY <2>2, <2>9 DEF ScanStep, M
    <3>2. ASSUME NEW a \in 1..m
          PROVE  ss[a] = <<ss[a][1], M(ss[a][1])>> /\ ss[a][1] \in 0..k /\ ss[a][2] >= 0
      <4>1. ss[a] = <<ss[a][1], M(ss[a][1])>> /\ ss[a][1] \in 0..(k - 1) /\ ss[a][2] >= 0
        BY <2>3 DEF m
      <4> QED BY <2>1, <4>1
    <3>3. ASSUME NEW i \in 0..k, M(i) >= 0
          PROVE  \E a \in 1..m : ss[a][1] <= i /\ i < ss[a][2]
      <4>1. CASE i = k
        <5>1. ss # <<>> /\ ~ (Last(ss)[2] <= k)
          BY <2>9, <3>3, <4>1
        <5>2. m \in 1..m /\ ~ (ss[m][2] <= k)
          BY <2>7, <5>1
        <5>3. ss[m][1] <= k /\ k < ss[m][2]
          BY <2>1, <2>4, <2>6, <5>2
        <5> QED BY <4>1, <5>2, <5>3
      <4>2. CASE i # k
        <5>1. i \in 0..(k - 1)
          BY <2>1, <4>2
        <5> QED BY <2>3, <3>3, <5>1 DEF m
      <4> QED BY <4>1, <4>2
    <3>4. \A a, b \in 1..m : a < b => ss[a][2] <= ss[b][1]
      BY <2>3 DEF m
    <3>5. Inv(ss, k + 1)
      BY <2>1, <3>2, <3>3, <3>4 DEF m
    <3> QED BY <2>1, <3>1, <3>5 DEF tt
  <2> QED BY <2>8, <2>9
<1>7. \A k \in 0..n : k \in T
  <2> HIDE DEF T
  <2> QED BY <1>1, <1>5, <1>6, InductionUpTo
<1> DEFINE ss == f[n]
           m == Len(ss)
<1>8. n \in 0..n
  BY <1>1
<1>9. Inv(ss, n)
  BY <1>7, <1>8
<1>10. ss \in Seq(Int \X Int) /\ FindAllIn(text, re) = ss
  BY <1>2, <1>4, <1>8
<1>11. DOMAIN ss = 1..m /\ m \in Nat /\ \A a \in 1..m : ss[a][1] \in Int /\ ss[a][2] \in Int
  BY <1>10
<1> HIDE DEF ss, m
<1>12. ToSet(ss) = { ss[a] : a \in 1..m }
  BY <1>11 DEF ToSet
<1>13. ToSet(ss) \subseteq Candidates(text, re)
  <2> SUFFICES ASSUME NEW a \in 1..m PROVE ss[a] \in Candidates(text, re)
    BY <1>12
  <2>1. ss[a] = <<ss[a][1], M(ss[a][1])>> /\ ss[a][1] \in 0..(n - 1) /\ ss[a][2] >= 0
    BY <1>9 DEF m
  <2>2. ss[a][1] \in 0..n /\ M(ss[a][1]) >= 0
    BY <1>1, <2>1
  <2> QED BY <2>1, <2>2 DEF Candidates, M, n
<1>14. ASSUME NEW s \in ToSet(ss), NEW t \in ToSet(ss), s # t PROVE ~ Meet(s, t)
  <2>1. PICK a \in 1..m : s = ss[a]
    BY <1>12
  <2>2. PICK b \in 1..m : t = ss[b]
    BY <1>12
  <2>3. a < b \/ b < a
    BY <1>11, <1>14, <2>1, <2>2
  <2>4. a < b => s[2] <= t[1]
    BY <1>9, <2>1, <2>2 DEF m
  <2>5. b < a => t[2] <= s[1]
    BY <1>9, <2>1, <2>2 DEF m
  <2> QED BY <1>11, <2>1, <2>2, <2>3, <2>4, <2>5 DEF Meet
<1>15. ASSUME NEW s \in Candidates(text, re)
       PROVE  s \in ToSet(ss) \/ \E t \in ToSet(ss) : t # s /\ Meet(s, t)
  <2>1. PICK i \in 0..n : s = <<i, M(i)>> /\ M(i) >= 0
    BY DEF Candidates, M, n
  <2>2. i # n
    BY <1>1, <1>8, <2>1 DEF M, n
  <2>3. i \in 0..(n - 1)
    BY <1>1, <2>2
  <2>4. PICK a \in 1..m : ss[a][1] <= i /\ i < ss[a][2]
    BY <1>9, <2>1, <2>3 DEF m
  <2>5. s[1] = i /\ s[2] = M(i) /\ i < M(i) /\ M(i) \in Int
    BY <1>1, <2>1
  <2>6. Meet(s, ss[a])
    <3>1. ss[a][1] \in Int /\ ss[a][2] \in Int
      BY <1>11
    <3> QED BY <2>1, <2>4, <2>5, <3>1 DEF Meet
  <2>7. ss[a] \in ToSet(ss)
    BY <1>12
  <2> QED BY <2>6, <2>7
<1> QED BY <1>10, <1>13, <1>14, <1>15 DEF FindsAll

\* Spans of the given sizes, none of which meets another.
NumberSpans(A, sizes) ==
  /\ \A s \in A : s \in Int \X Int /\ s[2] - s[1] \in sizes
  /\ \A s, t \in A : s # t => ~ Meet(s, t)

Reported(A, B) ==
  { Match(TypeSIRET, s) : s \in A } \union { Match(TypeSIREN, s) : s \in B }

\* Of the numbers reported every SIRET is kept, and every SIREN that none of
\* them meets.
LEMMA NumbersKept ==
  ASSUME NEW A, NEW B, NumberSpans(A, 14..17), NumberSpans(B, 9..11),
         NEW out \in Seq(Reported(A, B)), ToSet(out) = Reported(A, B)
  PROVE  LET kept == ToSet(resolveOverlaps(out)) IN
         /\ \A s \in A : Match(TypeSIRET, s) \in kept
         /\ \A s \in B : \/ Match(TypeSIREN, s) \in kept
                         \/ \E t \in A : Match(TypeSIRET, t) \in kept /\ Meet(s, t)
<1> DEFINE D == Reported(A, B)
           kept == ToSet(resolveOverlaps(out))
           M(s) == Match(TypeSIRET, s)
           N(s) == Match(TypeSIREN, s)
<1>1. /\ \A s \in A : s[1] \in Int /\ s[2] \in Int /\ s[2] - s[1] >= 14
      /\ \A s \in B : s[1] \in Int /\ s[2] \in Int /\ s[2] - s[1] <= 11 /\ s[2] - s[1] >= 9
  BY DEF NumberSpans
<1>2. \A s : /\ M(s) = [type |-> M(s).type, start |-> M(s).start, end |-> M(s).end,
                        conf |-> M(s).conf]
             /\ M(s).type = 2 /\ M(s).start = s[1] /\ M(s).end = s[2] /\ M(s).conf = 85
  BY DEF Match, TypeSIRET
<1>3. \A s : /\ N(s) = [type |-> N(s).type, start |-> N(s).start, end |-> N(s).end,
                        conf |-> N(s).conf]
             /\ N(s).type = 1 /\ N(s).start = s[1] /\ N(s).end = s[2] /\ N(s).conf = 85
  BY DEF Match, TypeSIREN
<1>4. D = { M(s) : s \in A } \union { N(s) : s \in B }
  BY DEF Reported
<1> HIDE DEF M, N, D
<1>5. AreDetections(D)
  <2> SUFFICES ASSUME NEW d \in D
               PROVE  /\ d = [type |-> d.type, start |-> d.start, end |-> d.end,
                              conf |-> d.conf]
                      /\ d.type \in Int /\ d.start \in Int /\ d.end \in Int
                      /\ d.conf \in Int
    BY Zenon DEF AreDetections
  <2>1. CASE \E s \in A : d = M(s)
    <3>1. PICK s \in A : d = M(s)
      BY <2>1
    <3>2. s[1] \in Int /\ s[2] \in Int
      BY <1>1
    <3>3. d.type = 2 /\ d.start = s[1] /\ d.end = s[2] /\ d.conf = 85
      BY <1>2, <3>1
    <3>4. d = [type |-> d.type, start |-> d.start, end |-> d.end, conf |-> d.conf]
      BY <1>2, <3>1, Zenon
    <3> QED BY <3>2, <3>3, <3>4
  <2>2. CASE \E s \in B : d = N(s)
    <3>1. PICK s \in B : d = N(s)
      BY <2>2
    <3>2. s[1] \in Int /\ s[2] \in Int
      BY <1>1
    <3>3. d.type = 1 /\ d.start = s[1] /\ d.end = s[2] /\ d.conf = 85
      BY <1>3, <3>1
    <3>4. d = [type |-> d.type, start |-> d.start, end |-> d.end, conf |-> d.conf]
      BY <1>3, <3>1, Zenon
    <3> QED BY <3>2, <3>3, <3>4
  <2> QED BY <1>4, <2>1, <2>2
<1>6. /\ kept \subseteq D
      /\ Len(out) <= 1 => resolveOverlaps(out) = out
      /\ Len(out) > 1 => Arbitrates(kept, D)
  <2>1. out \in Seq(D) /\ ToSet(out) = D
    BY DEF D
  <2> QED BY <1>5, <2>1, Resolved
<1>7. Len(out) \in Nat
  OBVIOUS
<1>8. CASE Len(out) <= 1
  <2>1. kept = D
    BY <1>6, <1>8 DEF D
  <2> QED BY <1>4, <2>1 DEF M, N
<1>9. CASE Len(out) > 1
  <2> HIDE DEF kept
  <2>1. \A d \in D : d \in kept <=> /\ Size(d) > 0
                                    /\ \A r \in kept : Before(r, d) => ~ Intersect(r, d)
    BY <1>6, <1>9 DEF Arbitrates
  <2>2. ASSUME NEW s \in A PROVE M(s) \in kept
    <3>1. M(s) \in D
      BY <1>4
    <3>2. Size(M(s)) > 0
      <4>1. s[1] \in Int /\ s[2] \in Int /\ s[2] - s[1] >= 14
        BY <1>1
      <4>2. Size(M(s)) = s[2] - s[1]
        BY <1>2 DEF Size
      <4> QED BY <4>1, <4>2
    <3>3. ASSUME NEW r \in kept, Before(r, M(s)) PROVE ~ Intersect(r, M(s))
      <4>1. r \in D
        BY <1>6
      <4>2. ASSUME NEW t \in A, r = M(t) PROVE ~ Intersect(r, M(s))
        <5>1. t # s
          BY <1>5, <3>1, <3>3, <4>2, BeforeIsAsymmetric
        <5>2. ~ Meet(t, s)
          BY <5>1 DEF NumberSpans
        <5> QED BY <1>2, <4>2, <5>2 DEF Meet, Intersect
      <4>3. ASSUME NEW t \in B, r = N(t) PROVE FALSE
        <5>1. /\ r.conf = 85 /\ M(s).conf = 85
              /\ Size(r) = t[2] - t[1] /\ Size(M(s)) = s[2] - s[1]
          BY <1>2, <1>3, <4>3 DEF Size
        <5>2. Size(r) < Size(M(s)) /\ Size(r) \in Int /\ Size(M(s)) \in Int
          <6>1. /\ t[1] \in Int /\ t[2] \in Int /\ t[2] - t[1] <= 11
                /\ s[1] \in Int /\ s[2] \in Int /\ s[2] - s[1] >= 14
            BY <1>1
          <6> QED BY <5>1, <6>1
        <5> QED BY <3>3, <5>1, <5>2 DEF Before
      <4> QED BY <1>4, <4>1, <4>2, <4>3
    <3> QED BY <2>1, <3>1, <3>2, <3>3
  <2>3. ASSUME NEW s \in B, N(s) \notin kept
        PROVE  \E t \in A : M(t) \in kept /\ Meet(s, t)
    <3>1. N(s) \in D /\ Size(N(s)) > 0
      <4>1. s[1] \in Int /\ s[2] \in Int /\ s[2] - s[1] >= 9
        BY <1>1
      <4> QED BY <1>3, <1>4, <4>1 DEF Size
    <3>2. PICK r \in kept : Before(r, N(s)) /\ Intersect(r, N(s))
      BY <2>1, <2>3, <3>1
    <3>3. r \in D
      BY <1>6
    <3>4. ASSUME NEW t \in B, r = N(t) PROVE FALSE
      <4>1. t # s
        BY <1>5, <3>1, <3>2, <3>4, BeforeIsAsymmetric
      <4>2. ~ Meet(t, s)
        BY <4>1 DEF NumberSpans
      <4> QED BY <1>3, <3>2, <3>4, <4>2 DEF Meet, Intersect
    <3>5. PICK t \in A : r = M(t)
      BY <1>4, <3>3, <3>4
    <3>6. Meet(s, t)
      BY <1>2, <1>3, <3>2, <3>5 DEF Meet, Intersect
    <3> QED BY <3>5, <3>6
  <2> QED BY <2>2, <2>3 DEF M, N, kept
<1> QED BY <1>7, <1>8, <1>9

\* The candidates of the two expressions.
LEMMA CandidateShape ==
  ASSUME NEW S, NEW text \in Seq(S)
  PROVE  /\ GoesOn(text, sirenRE) /\ GoesOn(text, siretRE)
         /\ MatchEnd(text, Len(text), sirenRE) < 0 /\ MatchEnd(text, Len(text), siretRE) < 0
         /\ \A s \in Candidates(text, sirenRE) :
              /\ s \in Int \X Int /\ s[2] - s[1] \in 9..11
              /\ stripSep(text, s) \in Seq(Digit) /\ Len(stripSep(text, s)) = 9
         /\ \A s \in Candidates(text, siretRE) :
              /\ s \in Int \X Int /\ s[2] - s[1] \in 14..17
              /\ stripSep(text, s) \in Seq(Digit) /\ Len(stripSep(text, s)) = 14
<1> DEFINE a(i) == MatchEnd(text, i, sirenRE)
           b(i) == MatchEnd(text, i, siretRE)
           n == Len(text)
<1>1. ASSUME NEW i \in 0..n
      PROVE  /\ a(i) \in Int /\ a(i) >= -1 /\ b(i) \in Int /\ b(i) >= -1
             /\ a(i) >= 0 => /\ a(i) <= n /\ a(i) - i \in 9..11
                             /\ DigitsIn(text, i, a(i)) \in Seq(Digit)
                             /\ Len(DigitsIn(text, i, a(i))) = 9
             /\ b(i) >= 0 => /\ b(i) <= n /\ b(i) - i \in 14..17
                             /\ DigitsIn(text, i, b(i)) \in Seq(Digit)
                             /\ Len(DigitsIn(text, i, b(i))) = 14
  BY NumberMatches
<1>2. n \in Nat /\ n \in 0..n
  OBVIOUS
<1>3. /\ Candidates(text, sirenRE) = { <<i, a(i)>> : i \in { j \in 0..n : a(j) >= 0 } }
      /\ Candidates(text, siretRE) = { <<i, b(i)>> : i \in { j \in 0..n : b(j) >= 0 } }
  BY DEF Candidates
<1>4. /\ GoesOn(text, sirenRE) <=> \A i \in 0..n : a(i) \in Int /\ (a(i) >= 0 => i < a(i))
      /\ GoesOn(text, siretRE) <=> \A i \in 0..n : b(i) \in Int /\ (b(i) >= 0 => i < b(i))
  BY DEF GoesOn
<1>5. \A s : stripSep(text, s) = DigitsIn(text, s[1], s[2])
  BY DEF stripSep, DigitsIn
<1> HIDE DEF a, b, n
<1>6. ASSUME NEW i \in 0..n PROVE /\ a(i) \in Int /\ (a(i) >= 0 => i < a(i))
                                 /\ b(i) \in Int /\ (b(i) >= 0 => i < b(i))
  <2>1. i \in Int /\ a(i) \in Int /\ b(i) \in Int
    BY <1>1
  <2>2. a(i) >= 0 => a(i) - i \in 9..11
    BY <1>1
  <2>3. b(i) >= 0 => b(i) - i \in 14..17
    BY <1>1
  <2> QED BY <2>1, <2>2, <2>3
<1>7. a(n) < 0 /\ b(n) < 0
  <2>1. a(n) \in Int /\ b(n) \in Int
    BY <1>1, <1>2
  <2>2. a(n) >= 0 => a(n) <= n /\ n < a(n)
    BY <1>1, <1>2, <1>6
  <2>3. b(n) >= 0 => b(n) <= n /\ n < b(n)
    BY <1>1, <1>2, <1>6
  <2> QED BY <1>2, <2>1, <2>2, <2>3
<1>8. ASSUME NEW s \in Candidates(text, sirenRE)
      PROVE  /\ s \in Int \X Int /\ s[2] - s[1] \in 9..11
             /\ stripSep(text, s) \in Seq(Digit) /\ Len(stripSep(text, s)) = 9
  <2>1. PICK i \in 0..n : s = <<i, a(i)>> /\ a(i) >= 0
    BY <1>3
  <2>2. s[1] = i /\ s[2] = a(i) /\ i \in Int
    BY <2>1
  <2> QED BY <1>1, <1>5, <2>1, <2>2
<1>9. ASSUME NEW s \in Candidates(text, siretRE)
      PROVE  /\ s \in Int \X Int /\ s[2] - s[1] \in 14..17
             /\ stripSep(text, s) \in Seq(Digit) /\ Len(stripSep(text, s)) = 14
  <2>1. PICK i \in 0..n : s = <<i, b(i)>> /\ b(i) >= 0
    BY <1>3
  <2>2. s[1] = i /\ s[2] = b(i) /\ i \in Int
    BY <2>1
  <2> QED BY <1>1, <1>5, <2>1, <2>2
<1> QED BY <1>4, <1>6, <1>7, <1>8, <1>9 DEF a, b, n

\* What the plugin reports and what is kept of it, for every text.
THEOREM EveryNumberIsFound ==
  ASSUME NEW S, NEW text \in Seq(S)
  PROVE  NumbersAreFound(text)
<1> DEFINE P == Int \X Int
           allSirets == FindAllIn(text, siretRE)
           allSirens == FindAllIn(text, sirenRE)
           Checked(found) == { s \in ToSet(found) : luhnMod10(stripSep(text, s)) }
           checkedT == Checked(allSirets)
           checkedN == { s \in Checked(allSirens) : ~ Covered(Only(allSirets, checkedT), s) }
           sirets == Only(allSirets, checkedT)
           sirens == Only(allSirens, checkedN)
           T == [k \in DOMAIN sirets |-> Match(TypeSIRET, sirets[k])]
           N == [k \in DOMAIN sirens |-> Match(TypeSIREN, sirens[k])]
           out == DetectCompanies(text)
           kept == ToSet(resolveOverlaps(out))
           candT == Candidates(text, siretRE)
           candN == Candidates(text, sirenRE)
           A == ToSet(sirets)
           B == ToSet(sirens)
<1>1. out = T \o N
  BY Zenon DEF DetectCompanies
<1>2. /\ FindsAll(allSirets, candT) /\ FindsAll(allSirens, candN)
  BY CandidateShape, MatchesFound
<1>3. /\ allSirets \in Seq(P) /\ ToSet(allSirets) \subseteq candT
      /\ \A s, t \in ToSet(allSirets) : s # t => ~ Meet(s, t)
      /\ \A s \in candT : s \in ToSet(allSirets) \/ \E t \in ToSet(allSirets) : t # s /\ Meet(s, t)
  BY <1>2 DEF FindsAll
<1>4. /\ allSirens \in Seq(P) /\ ToSet(allSirens) \subseteq candN
      /\ \A s, t \in ToSet(allSirens) : s # t => ~ Meet(s, t)
      /\ \A s \in candN : s \in ToSet(allSirens) \/ \E t \in ToSet(allSirens) : t # s /\ Meet(s, t)
  BY <1>2 DEF FindsAll
<1> HIDE DEF allSirets, allSirens, candT, candN, P
<1>5. /\ sirets \in Seq(P) /\ A = ToSet(allSirets) \intersect checkedT
  <2> HIDE DEF checkedT
  <2>1. sirets \in Seq(P \intersect checkedT) /\ A = ToSet(allSirets) \intersect checkedT
    BY <1>3, OnlyKeeps
  <2>2. P \intersect checkedT \subseteq P
    OBVIOUS
  <2> QED BY <2>1, <2>2, SeqMonotonic
<1> HIDE DEF sirets
<1>6. /\ sirens \in Seq(P) /\ B = ToSet(allSirens) \intersect checkedN
  <2> HIDE DEF checkedN
  <2>1. sirens \in Seq(P \intersect checkedN) /\ B = ToSet(allSirens) \intersect checkedN
    BY <1>4, OnlyKeeps
  <2>2. P \intersect checkedN \subseteq P
    OBVIOUS
  <2> QED BY <2>1, <2>2, SeqMonotonic
<1> HIDE DEF sirens
<1>7. /\ A = { s \in ToSet(allSirets) : luhnMod10(stripSep(text, s)) }
      /\ B = { s \in ToSet(allSirens) : luhnMod10(stripSep(text, s)) /\ ~ Covered(sirets, s) }
  BY <1>5, <1>6 DEF sirets
<1> HIDE DEF checkedT, checkedN, Checked
<1>8. NumberSpans(A, 14..17) /\ NumberSpans(B, 9..11)
  <2>1. \A s \in candT : s \in Int \X Int /\ s[2] - s[1] \in 14..17
    BY CandidateShape DEF candT
  <2>2. \A s \in candN : s \in Int \X Int /\ s[2] - s[1] \in 9..11
    BY CandidateShape DEF candN
  <2> QED BY <1>3, <1>4, <1>7, <2>1, <2>2 DEF NumberSpans
<1>9. /\ A = { sirets[k] : k \in DOMAIN sirets } /\ B = { sirens[k] : k \in DOMAIN sirens }
  BY DEF ToSet
<1> HIDE DEF A, B
<1>10. out \in Seq(Reported(A, B)) /\ ToSet(out) = Reported(A, B)
  <2> DEFINE D == Reported(A, B)
             t == Len(sirets)
             u == Len(sirens)
  <2>1. /\ t \in Nat /\ u \in Nat /\ DOMAIN sirets = 1..t /\ DOMAIN sirens = 1..u
    BY <1>5, <1>6
  <2>2. \A s \in A : Match(TypeSIRET, s) \in D
    BY DEF Reported
  <2>3. \A s \in B : Match(TypeSIREN, s) \in D
    BY DEF Reported
  <2>4. \A d \in D : \/ \E s \in A : d = Match(TypeSIRET, s)
                     \/ \E s \in B : d = Match(TypeSIREN, s)
    BY DEF Reported
  <2> HIDE DEF D, t, u
  <2>5. T \in Seq(D) /\ Len(T) = t /\ \A k \in 1..t : T[k] = Match(TypeSIRET, sirets[k])
    <3>1. \A k \in 1..t : Match(TypeSIRET, sirets[k]) \in D
      BY <1>9, <2>1, <2>2
    <3>2. T = [k \in 1..t |-> Match(TypeSIRET, sirets[k])]
      BY <2>1
    <3> HIDE DEF T
    <3>3. T \in [1..t -> D]
      BY <3>1, <3>2
    <3> QED BY <2>1, <3>2, <3>3
  <2>6. N \in Seq(D) /\ Len(N) = u /\ \A k \in 1..u : N[k] = Match(TypeSIREN, sirens[k])
    <3>1. \A k \in 1..u : Match(TypeSIREN, sirens[k]) \in D
      BY <1>9, <2>1, <2>3
    <3>2. N = [k \in 1..u |-> Match(TypeSIREN, sirens[k])]
      BY <2>1
    <3> HIDE DEF N
    <3>3. N \in [1..u -> D]
      BY <3>1, <3>2
    <3> QED BY <2>1, <3>2, <3>3
  <2> HIDE DEF T, N, out
  <2>7. IsTogether(T \o N, D, T, N, t, u)
    BY <2>1, <2>5, <2>6, PutTogether, Zenon
  <2>8. IsTogether(out, D, T, N, t, u)
    BY <1>1, <2>7
  <2>9. /\ out \in Seq(D) /\ Len(out) = t + u
        /\ \A k \in 1..(t + u) : out[k] = IF k <= t THEN T[k] ELSE N[k - t]
    BY <2>8 DEF IsTogether
  <2>10. ToSet(out) \subseteq D
    BY <2>9 DEF ToSet
  <2>11. ToSet(out) = { out[k] : k \in 1..(t + u) }
    BY <2>9 DEF ToSet
  <2>12. ASSUME NEW s \in A PROVE Match(TypeSIRET, s) \in ToSet(out)
    <3>1. PICK k \in 1..t : s = sirets[k]
      BY <1>9, <2>1
    <3>2. k \in 1..(t + u) /\ k <= t
      BY <2>1
    <3>3. out[k] = Match(TypeSIRET, s)
      BY <2>5, <2>9, <3>1, <3>2
    <3> QED BY <2>11, <3>2, <3>3
  <2>13. ASSUME NEW s \in B PROVE Match(TypeSIREN, s) \in ToSet(out)
    <3>1. PICK k \in 1..u : s = sirens[k]
      BY <1>9, <2>1
    <3>2. t + k \in 1..(t + u) /\ ~ (t + k <= t) /\ (t + k) - t = k
      BY <2>1
    <3>3. out[t + k] = Match(TypeSIREN, s)
      BY <2>6, <2>9, <3>1, <3>2
    <3> QED BY <2>11, <3>2, <3>3
  <2>14. D \subseteq ToSet(out)
    BY <2>4, <2>12, <2>13
  <2> QED BY <2>9, <2>10, <2>14 DEF D
<1> HIDE DEF out, T, N
<1>11. /\ \A s \in A : Match(TypeSIRET, s) \in kept
       /\ \A s \in B : \/ Match(TypeSIREN, s) \in kept
                       \/ \E t \in A : Match(TypeSIRET, t) \in kept /\ Meet(s, t)
  BY <1>8, <1>10, NumbersKept
<1> HIDE DEF kept
<1> DEFINE V(s) == Checks(stripSep(text, s))
<1>12. /\ \A s \in candT : /\ V(s) <=> luhnMod10(stripSep(text, s))
                           /\ Len(stripSep(text, s)) = 14
                           /\ s[1] \in Int /\ s[2] \in Int /\ s[1] < s[2] /\ s = <<s[1], s[2]>>
       /\ \A s \in candN : /\ V(s) <=> luhnMod10(stripSep(text, s))
                           /\ Len(stripSep(text, s)) = 9
                           /\ s[1] \in Int /\ s[2] \in Int /\ s[1] < s[2] /\ s = <<s[1], s[2]>>
  <2>1. ASSUME NEW s \in candT
        PROVE  /\ V(s) <=> luhnMod10(stripSep(text, s))
               /\ Len(stripSep(text, s)) = 14
               /\ s[1] \in Int /\ s[2] \in Int /\ s[1] < s[2] /\ s = <<s[1], s[2]>>
    <3>1. /\ s \in Int \X Int /\ s[2] - s[1] \in 14..17
          /\ stripSep(text, s) \in Seq(Digit) /\ Len(stripSep(text, s)) = 14
      BY CandidateShape DEF candT
    <3>2. s[1] \in Int /\ s[2] \in Int /\ s = <<s[1], s[2]>>
      BY <3>1
    <3>3. s[1] < s[2]
      BY <3>1, <3>2
    <3> QED BY <3>1, <3>2, <3>3, ChecksumsAgree
  <2>2. ASSUME NEW s \in candN
        PROVE  /\ V(s) <=> luhnMod10(stripSep(text, s))
               /\ Len(stripSep(text, s)) = 9
               /\ s[1] \in Int /\ s[2] \in Int /\ s[1] < s[2] /\ s = <<s[1], s[2]>>
    <3>1. /\ s \in Int \X Int /\ s[2] - s[1] \in 9..11
          /\ stripSep(text, s) \in Seq(Digit) /\ Len(stripSep(text, s)) = 9
      BY CandidateShape DEF candN
    <3>2. s[1] \in Int /\ s[2] \in Int /\ s = <<s[1], s[2]>>
      BY <3>1
    <3>3. s[1] < s[2]
      BY <3>1, <3>2
    <3> QED BY <3>1, <3>2, <3>3, ChecksumsAgree
  <2> QED BY <2>1, <2>2
<1> HIDE DEF V
<1>13. ASSUME NEW d \in ToSet(out)
       PROVE  LET s == <<d.start, d.end>> IN
              V(s) /\ Len(stripSep(text, s)) = IF d.type = TypeSIRET THEN 14 ELSE 9
  <2>1. d \in Reported(A, B)
    BY <1>10
  <2>2. ASSUME NEW s \in A, d = Match(TypeSIRET, s)
        PROVE  /\ V(<<d.start, d.end>>)
               /\ Len(stripSep(text, <<d.start, d.end>>)) = IF d.type = TypeSIRET THEN 14 ELSE 9
    <3>1. s \in candT /\ luhnMod10(stripSep(text, s))
      BY <1>3, <1>7
    <3>2. d.start = s[1] /\ d.end = s[2] /\ d.type = TypeSIRET
      BY <2>2 DEF Match
    <3>3. <<d.start, d.end>> = s
      BY <1>12, <3>1, <3>2
    <3> QED BY <1>12, <3>1, <3>2, <3>3
  <2>3. ASSUME NEW s \in B, d = Match(TypeSIREN, s)
        PROVE  /\ V(<<d.start, d.end>>)
               /\ Len(stripSep(text, <<d.start, d.end>>)) = IF d.type = TypeSIRET THEN 14 ELSE 9
    <3>1. s \in candN /\ luhnMod10(stripSep(text, s))
      BY <1>4, <1>7
    <3>2. d.start = s[1] /\ d.end = s[2] /\ d.type # TypeSIRET
      BY <2>3 DEF Match, TypeSIRET, TypeSIREN
    <3>3. <<d.start, d.end>> = s
      BY <1>12, <3>1, <3>2
    <3> QED BY <1>12, <3>1, <3>2, <3>3
  <2> QED BY <2>1, <2>2, <2>3 DEF Reported
<1>14. ASSUME NEW s \in candT, V(s), \A t \in candT : t # s => ~ Meet(s, t)
       PROVE  Match(TypeSIRET, s) \in kept
  <2>1. s \in ToSet(allSirets)
    BY <1>3, <1>14
  <2>2. s \in A
    BY <1>7, <1>12, <1>14, <2>1
  <2> QED BY <1>11, <2>2
<1>15. ASSUME NEW s \in candN, V(s), \A t \in candN : t # s => ~ Meet(s, t)
       PROVE  \/ Match(TypeSIREN, s) \in kept
              \/ \E d \in kept : d.type = TypeSIRET /\ Meet(s, <<d.start, d.end>>)
  <2>1. s \in ToSet(allSirens)
    BY <1>4, <1>15
  <2>2. ASSUME NEW t \in A, Meet(s, t)
        PROVE  \E d \in kept : d.type = TypeSIRET /\ Meet(s, <<d.start, d.end>>)
    <3> DEFINE d == Match(TypeSIRET, t)
    <3>1. d \in kept
      BY <1>11
    <3>2. d.type = TypeSIRET /\ d.start = t[1] /\ d.end = t[2]
      BY DEF Match
    <3>3. <<d.start, d.end>> = t
      <4>1. t \in candT
        BY <1>3, <1>7
      <4> HIDE DEF d
      <4> QED BY <1>12, <3>2, <4>1
    <3> HIDE DEF d
    <3> QED BY <2>2, <3>1, <3>2, <3>3
  <2>3. CASE Covered(sirets, s)
    <3>1. PICK k \in DOMAIN sirets : sirets[k][1] <= s[1] /\ s[1] < sirets[k][2]
      BY <2>3 DEF Covered
    <3>2. sirets[k] \in A /\ sirets[k] \in candT
      BY <1>3, <1>7, <1>9
    <3>3. Meet(s, sirets[k])
      <4>1. /\ s[1] \in Int /\ s[2] \in Int /\ s[1] < s[2]
            /\ sirets[k][1] \in Int /\ sirets[k][2] \in Int
        BY <1>12, <3>2
      <4> QED BY <3>1, <4>1 DEF Meet
    <3> QED BY <2>2, <3>2, <3>3
  <2>4. CASE ~ Covered(sirets, s)
    <3>1. s \in B
      BY <1>7, <1>12, <1>15, <2>1, <2>4
    <3> QED BY <1>11, <2>2, <3>1
  <2> QED BY <2>3, <2>4
<1> QED BY <1>13, <1>14, <1>15, Zenon DEF NumbersAreFound, V, kept, candT, candN, out

-----------------------------------------------------------------------------
(***************************************************************************)
(* The corpus                                                              *)
(***************************************************************************)
PIITypes == {"EMAIL", "IP", "API_KEY", "PHONE"}

\* The text has the values of P at their places, and wording elsewhere.
Laid(text, C, P) ==
  /\ text \in Seq(C)
  /\ \A p \in P : /\ p[1] \in Nat /\ p[2] \in Seq(C) /\ p[1] + Len(p[2]) <= Len(text)
                  /\ \A k \in 1..Len(p[2]) : text[p[1] + k] = p[2][k]
  /\ \A j \in 1..Len(text) :
       text[j] = "." \/ \E p \in P : p[1] < j /\ j <= p[1] + Len(p[2])

\* Values over C that a single character tells apart.
ToldApart(Vs, C) ==
  /\ \A t \in PIITypes : Vs[t] \subseteq Seq(C) \ {<<>>}
  /\ \A t, u \in PIITypes : \A v \in Vs[t], w \in Vs[u] : \A i \in 1..Len(v) :
       /\ v[i] # "."
       /\ \A j \in 1..Len(w) : v[i] = w[j] => t = u /\ v = w /\ i = j

\* Wording goes on.
LEMMA LaidWording ==
  ASSUME NEW C, "." \in C, NEW text, NEW P, Laid(text, C, P), NEW n \in Nat
  PROVE  Laid(text \o Wording(n), C, P) /\ Len(text \o Wording(n)) = Len(text) + n
<1> DEFINE m == Len(text)
           w == Wording(n)
           r == text \o w
<1>1. w \in Seq(C) /\ Len(w) = n /\ \A k \in 1..n : w[k] = "."
  BY DEF Wording
<1>2. text \in Seq(C) /\ m \in Nat
  BY DEF Laid
<1> HIDE DEF m, w
<1>3. IsTogether(text \o w, C, text, w, m, n)
  BY <1>1, <1>2, PutTogether, Zenon DEF m
<1> HIDE DEF r
<1>4. /\ r \in Seq(C) /\ Len(r) = m + n
      /\ \A k \in 1..(m + n) : r[k] = IF k <= m THEN text[k] ELSE w[k - m]
  BY <1>3 DEF IsTogether, r
<1>5. ASSUME NEW p \in P
      PROVE  /\ p[1] \in Nat /\ p[2] \in Seq(C) /\ p[1] + Len(p[2]) <= Len(r)
             /\ \A k \in 1..Len(p[2]) : r[p[1] + k] = p[2][k]
  <2>1. /\ p[1] \in Nat /\ p[2] \in Seq(C) /\ p[1] + Len(p[2]) <= m
        /\ \A k \in 1..Len(p[2]) : text[p[1] + k] = p[2][k]
    BY DEF Laid, m
  <2>2. Len(p[2]) \in Nat
    BY <2>1
  <2> DEFINE l == Len(p[2])
             o == p[1]
  <2> HIDE DEF l, o
  <2>3. l \in Nat /\ o \in Nat /\ o + l <= m
    BY <2>1, <2>2 DEF l, o
  <2>4. \A k \in 1..l : o + k \in 1..(m + n) /\ o + k <= m
    BY <1>2, <2>3
  <2>5. \A k \in 1..l : r[o + k] = p[2][k]
    <3>1. \A k \in 1..l : text[o + k] = p[2][k]
      BY <2>1 DEF l, o
    <3> QED BY <1>4, <2>4, <3>1
  <2>6. o + l <= Len(r)
    BY <1>2, <1>4, <2>3
  <2> QED BY <2>1, <2>5, <2>6 DEF l, o
<1>6. ASSUME NEW j \in 1..(m + n)
      PROVE  r[j] = "." \/ \E p \in P : p[1] < j /\ j <= p[1] + Len(p[2])
  <2>1. CASE j <= m
    <3>1. j \in 1..m
      BY <1>2, <2>1
    <3>2. r[j] = text[j]
      BY <1>4, <2>1
    <3> QED BY <3>1, <3>2 DEF Laid, m
  <2>2. CASE ~ (j <= m)
    <3>1. j - m \in 1..n
      BY <1>2, <2>2
    <3> QED BY <1>1, <1>4, <2>2, <3>1
  <2> QED BY <2>1, <2>2
<1>7. Laid(r, C, P)
  BY <1>4, <1>5, <1>6 DEF Laid
<1> QED BY <1>4, <1>7 DEF r, w, m

\* And a value.
LEMMA LaidValue ==
  ASSUME NEW C, NEW text, NEW P, Laid(text, C, P), NEW v \in Seq(C), NEW t
  PROVE  Laid(text \o v, C, P \union {<<Len(text), v, t>>})
         /\ Len(text \o v) = Len(text) + Len(v)
<1> DEFINE m == Len(text)
           n == Len(v)
           r == text \o v
           q == <<m, v, t>>
<1>2. text \in Seq(C) /\ m \in Nat /\ n \in Nat
  BY DEF Laid
<1>7. q[1] = m /\ q[2] = v
  OBVIOUS
<1> HIDE DEF m, n, q
<1>3. IsTogether(text \o v, C, text, v, m, n)
  BY <1>2, PutTogether, Zenon DEF m, n
<1> HIDE DEF r
<1>4. /\ r \in Seq(C) /\ Len(r) = m + n
      /\ \A k \in 1..(m + n) : r[k] = IF k <= m THEN text[k] ELSE v[k - m]
  BY <1>3 DEF IsTogether, r
<1>5. ASSUME NEW p \in P
      PROVE  /\ p[1] \in Nat /\ p[2] \in Seq(C) /\ p[1] + Len(p[2]) <= Len(r)
             /\ \A k \in 1..Len(p[2]) : r[p[1] + k] = p[2][k]
  <2>1. /\ p[1] \in Nat /\ p[2] \in Seq(C) /\ p[1] + Len(p[2]) <= m
        /\ \A k \in 1..Len(p[2]) : text[p[1] + k] = p[2][k]
    BY DEF Laid, m
  <2>2. Len(p[2]) \in Nat
    BY <2>1
  <2> DEFINE l == Len(p[2])
             o == p[1]
  <2> HIDE DEF l, o
  <2>3. l \in Nat /\ o \in Nat /\ o + l <= m
    BY <2>1, <2>2 DEF l, o
  <2>4. \A k \in 1..l : o + k \in 1..(m + n) /\ o + k <= m
    BY <1>2, <2>3
  <2>5. \A k \in 1..l : r[o + k] = p[2][k]
    <3>1. \A k \in 1..l : text[o + k] = p[2][k]
      BY <2>1 DEF l, o
    <3> QED BY <1>4, <2>4, <3>1
  <2>6. o + l <= Len(r)
    BY <1>2, <1>4, <2>3
  <2> QED BY <2>1, <2>5, <2>6 DEF l, o
<1>8. /\ q[1] \in Nat /\ q[2] \in Seq(C) /\ q[1] + Len(q[2]) <= Len(r)
      /\ \A k \in 1..Len(q[2]) : r[q[1] + k] = q[2][k]
  <2>1. ASSUME NEW k \in 1..n PROVE r[m + k] = v[k]
    <3>1. m + k \in 1..(m + n) /\ ~ (m + k <= m) /\ (m + k) - m = k
      BY <1>2
    <3> QED BY <1>4, <3>1
  <2> QED BY <1>2, <1>4, <1>7, <2>1 DEF n
<1>6. ASSUME NEW j \in 1..(m + n)
      PROVE  r[j] = "." \/ \E p \in P \union {q} : p[1] < j /\ j <= p[1] + Len(p[2])
  <2>1. CASE j <= m
    <3>1. j \in 1..m
      BY <1>2, <2>1
    <3>2. r[j] = text[j]
      BY <1>4, <2>1
    <3> QED BY <3>1, <3>2 DEF Laid, m
  <2>2. CASE ~ (j <= m)
    <3>1. q[1] < j /\ j <= q[1] + Len(q[2])
      BY <1>2, <1>7, <2>2 DEF n
    <3> QED BY <3>1
  <2> QED BY <2>1, <2>2
<1>9. Laid(r, C, P \union {q})
  BY <1>4, <1>5, <1>6, <1>8 DEF Laid
<1> QED BY <1>4, <1>9 DEF r, n, m, q

\* A text laid out that way holds its values nowhere else.
LEMMA LaidInPlace ==
  ASSUME NEW Vs, NEW C, ToldApart(Vs, C), NEW s, NEW P, Laid(s.text, C, P),
         \A p \in P : /\ p = <<p[1], p[2], p[3]>>
                      /\ p[3] \in PIITypes /\ p[2] \in Vs[p[3]],
         ToSet(s.truth) = { Span(p[1], p[2], p[3]) : p \in P }
  PROVE  TruthIsInPlace(s, Vs)
<1> DEFINE text == s.text
           n == Len(text)
           U == UNION { (0..n) \X Vs[t] \X {t} : t \in PIITypes }
           Q == { p \in U : /\ p[1] + Len(p[2]) <= n
                            /\ SubSeq(text, p[1] + 1, p[1] + Len(p[2])) = p[2] }
<1>1. text \in Seq(C) /\ n \in Nat /\ \A k \in 1..n : text[k] \in C
  BY DEF Laid
<1>2. \A p \in U : p = <<p[1], p[2], p[3]>> /\ p[1] \in 0..n /\ p[3] \in PIITypes
                   /\ p[2] \in Vs[p[3]]
  OBVIOUS
<1>3. ASSUME NEW o \in 0..n, NEW t \in PIITypes, NEW v \in Vs[t]
      PROVE  <<o, v, t>> \in U
  OBVIOUS
<1>4. \A t \in PIITypes : \A v \in Vs[t] : v \in Seq(C) /\ v # <<>>
  BY DEF ToldApart
<1>5. TruthIsInPlace(s, Vs) <=> ToSet(s.truth) = { Span(q[1], q[2], q[3]) : q \in Q }
  BY DEF TruthIsInPlace, PIITypes
<1> HIDE DEF text, n
<1>6. ASSUME NEW o \in Nat, NEW v \in Seq(C), o + Len(v) <= n
      PROVE  SubSeq(text, o + 1, o + Len(v)) = v <=> \A k \in 1..Len(v) : text[o + k] = v[k]
  <2> DEFINE l == Len(v)
             u == SubSeq(text, o + 1, o + l)
  <2>1. l \in Nat /\ o + 1 \in Int /\ o + l \in Int /\ (o + l) - (o + 1) + 1 = l
    OBVIOUS
  <2>8. o + l <= n
    BY <1>6
  <2> HIDE DEF l
  <2>2. \A i \in (o + 1)..(o + l) : text[i] \in C
    <3>1. \A i \in (o + 1)..(o + l) : i \in 1..n
      <4>1. n \in Nat
        BY <1>1
      <4>2. l \in Int /\ o \in Int /\ n \in Int /\ o >= 0 /\ o + l <= n
        BY <2>1, <2>8, <4>1
      <4> QED BY <4>2
    <3> QED BY <1>1, <3>1
  <2>3. /\ u \in Seq(C) /\ Len(u) = IF o + 1 <= o + l THEN (o + l) - (o + 1) + 1 ELSE 0
        /\ \A i \in 1..((o + l) - (o + 1) + 1) : u[i] = text[(o + 1) + i - 1]
    BY <2>1, <2>2, SubSeqProperties
  <2> HIDE DEF u
  <2>4. Len(u) = l /\ \A i \in 1..l : u[i] = text[o + i]
    <3>1. \A i \in 1..l : (o + 1) + i - 1 = o + i
      BY <2>1
    <3>2. \A i \in 1..l : u[i] = text[(o + 1) + i - 1]
      BY <2>1, <2>3
    <3>3. Len(u) = l
      BY <2>1, <2>3
    <3> QED BY <3>1, <3>2, <3>3
  <2>5. (\A i \in 1..Len(u) : u[i] = v[i]) => u = v
    BY <2>3, <2>4, SeqEqual DEF l
  <2>6. (\A k \in 1..l : text[o + k] = v[k]) => u = v
    BY <2>4, <2>5
  <2>7. u = v => \A k \in 1..l : text[o + k] = v[k]
    BY <2>4
  <2> QED BY <2>6, <2>7 DEF u, l
<1>7. ASSUME NEW p \in P PROVE p \in Q
  <2>1. /\ p[1] \in Nat /\ p[2] \in Seq(C) /\ p[1] + Len(p[2]) <= n
        /\ \A k \in 1..Len(p[2]) : text[p[1] + k] = p[2][k]
    BY DEF Laid, text, n
  <2>2. SubSeq(text, p[1] + 1, p[1] + Len(p[2])) = p[2]
    BY <1>6, <2>1
  <2>3. p[1] \in 0..n
    <3>1. Len(p[2]) \in Nat
      BY <2>1
    <3> QED BY <1>1, <2>1, <3>1
  <2>4. p \in U
    <3>1. p = <<p[1], p[2], p[3]>> /\ p[3] \in PIITypes /\ p[2] \in Vs[p[3]]
      OBVIOUS
    <3> HIDE DEF U
    <3>2. <<p[1], p[2], p[3]>> \in U
      BY <1>3, <2>3, <3>1
    <3> QED BY <3>1, <3>2, Zenon
  <2> HIDE DEF U
  <2> QED BY <2>1, <2>2, <2>4
<1>8. ASSUME NEW q \in Q PROVE q \in P
  <2> DEFINE o == q[1]
             v == q[2]
             t == q[3]
  <2>1. /\ q = <<o, v, t>> /\ o \in 0..n /\ t \in PIITypes /\ v \in Vs[t]
        /\ o + Len(v) <= n
        /\ SubSeq(text, o + 1, o + Len(v)) = v
    BY <1>2
  <2> HIDE DEF Q, o, v, t
  <2>2. v \in Seq(C) /\ v # <<>> /\ o \in Nat
    BY <1>4, <2>1
  <2>3. 1 \in 1..Len(v)
    BY <2>2
  <2>4. text[o + 1] = v[1]
    BY <1>6, <2>1, <2>2, <2>3
  <2>5. o + 1 \in 1..n
    <3>1. Len(v) \in Nat /\ Len(v) >= 1
      BY <2>2, <2>3
    <3> QED BY <1>1, <2>1, <2>2, <3>1
  <2>6. v[1] # "."
    BY <2>1, <2>3 DEF ToldApart
  <2>7. PICK p \in P : p[1] < o + 1 /\ o + 1 <= p[1] + Len(p[2])
    BY <2>4, <2>5, <2>6 DEF Laid, text, n
  <2>8. /\ p[1] \in Nat /\ p[2] \in Seq(C)
        /\ \A k \in 1..Len(p[2]) : text[p[1] + k] = p[2][k]
    BY DEF Laid, text
  <2>9. /\ p = <<p[1], p[2], p[3]>> /\ p[3] \in PIITypes /\ p[2] \in Vs[p[3]]
    OBVIOUS
  <2> DEFINE k == o + 1 - p[1]
  <2>10. k \in 1..Len(p[2]) /\ p[1] + k = o + 1
    <3>1. Len(p[2]) \in Nat
      BY <2>8
    <3> QED BY <2>2, <2>7, <2>8, <3>1
  <2> HIDE DEF k
  <2>11. v[1] = p[2][k]
    BY <2>4, <2>8, <2>10
  <2>12. t = p[3] /\ v = p[2] /\ 1 = k
    <3> DEFINE u == p[3]
    <3>3. u \in PIITypes /\ t \in PIITypes /\ v \in Vs[t]
      BY <2>1, <2>9
    <3> HIDE DEF u
    <3>4. \A w \in Vs[u] : \A i \in 1..Len(v) : \A j \in 1..Len(w) :
            v[i] = w[j] => t = u /\ v = w /\ i = j
      BY <3>3 DEF ToldApart
    <3>1. \A w \in Vs[p[3]] : \A i \in 1..Len(v) : \A j \in 1..Len(w) :
            v[i] = w[j] => t = p[3] /\ v = w /\ i = j
      BY <3>4 DEF u
    <3> DEFINE w == p[2]
    <3>2. \A i \in 1..Len(v) : \A j \in 1..Len(w) : v[i] = w[j] => t = p[3] /\ v = w /\ i = j
      BY <2>9, <3>1
    <3> QED BY <2>3, <2>10, <2>11, <3>2
  <2>13. o = p[1]
    BY <2>2, <2>8, <2>10, <2>12
  <2>14. q = p
    BY <2>1, <2>9, <2>12, <2>13, Zenon
  <2> QED BY <2>14
<1>9. P = Q
  BY <1>7, <1>8
<1> QED BY <1>5, <1>9

LEMMA OnlyWording ==
  ASSUME NEW C, "." \in C, NEW n \in Nat
  PROVE  Laid(Wording(n), C, {}) /\ Len(Wording(n)) = n
<1>1. Wording(n) \in Seq(C) /\ Len(Wording(n)) = n /\ \A k \in 1..n : Wording(n)[k] = "."
  BY DEF Wording
<1> QED BY <1>1 DEF Laid

\* The truth of a sample names the places P of its text.
Annotated(s, C, P) ==
  /\ Laid(s.text, C, P)
  /\ ToSet(s.truth) = { Span(p[1], p[2], p[3]) : p \in P }

LEMMA Truths1 ==
  ASSUME NEW a PROVE ToSet(<<a>>) = {a}
BY DEF ToSet

LEMMA Truths2 ==
  ASSUME NEW a, NEW b PROVE ToSet(<<a, b>>) = {a, b}
BY DEF ToSet

LEMMA Truths3 ==
  ASSUME NEW a, NEW b, NEW c PROVE ToSet(<<a, b, c>>) = {a, b, c}
BY DEF ToSet

LEMMA ChatAnnotated ==
  ASSUME NEW C, "." \in C, NEW v \in Seq(C)
  PROVE  Annotated(genChat(v), C, {<<25, v, "EMAIL">>})
<1> DEFINE p == <<25, v, "EMAIL">>
           a == Wording(25)
           b == a \o v
           c == b \o Wording(9)
<1>1. Laid(a, C, {}) /\ Len(a) = 25
  BY OnlyWording
<1> HIDE DEF a
<1>2. Laid(b, C, {p})
  <2>1. Laid(a \o v, C, {} \union {<<Len(a), v, "EMAIL">>})
    BY <1>1, LaidValue, Zenon
  <2>2. {} \union {<<Len(a), v, "EMAIL">>} = {p}
    BY <1>1
  <2> QED BY <2>1, <2>2, Zenon
<1> HIDE DEF b
<1>3. Laid(c, C, {p})
  <2>1. 9 \in Nat
    OBVIOUS
  <2> QED BY <1>2, <2>1, LaidWording, Zenon
<1> HIDE DEF c
<1>4. genChat(v).text = c /\ genChat(v).truth = <<Span(25, v, "EMAIL")>>
  <2>1. genChat(v).text = c /\ genChat(v).truth = <<Span(Len(a), v, "EMAIL")>>
    BY Zenon DEF genChat, Sample, a, b, c
  <2> QED BY <1>1, <2>1, Zenon
<1>5. { Span(q[1], q[2], q[3]) : q \in {p} } = {Span(25, v, "EMAIL")}
  OBVIOUS
<1> QED BY <1>3, <1>4, <1>5, Truths1, Zenon DEF Annotated

LEMMA TicketAnnotated ==
  ASSUME NEW C, "." \in C, NEW v \in Seq(C)
  PROVE  Annotated(genTicket(v), C, {<<38, v, "PHONE">>})
<1> DEFINE p == <<38, v, "PHONE">>
           a == Wording(38)
           b == a \o v
           c == b \o Wording(15)
<1>1. Laid(a, C, {}) /\ Len(a) = 38
  BY OnlyWording
<1> HIDE DEF a
<1>2. Laid(b, C, {p})
  <2>1. Laid(a \o v, C, {} \union {<<Len(a), v, "PHONE">>})
    BY <1>1, LaidValue, Zenon
  <2>2. {} \union {<<Len(a), v, "PHONE">>} = {p}
    BY <1>1
  <2> QED BY <2>1, <2>2, Zenon
<1> HIDE DEF b
<1>3. Laid(c, C, {p})
  <2>1. 15 \in Nat
    OBVIOUS
  <2> QED BY <1>2, <2>1, LaidWording, Zenon
<1> HIDE DEF c
<1>4. genTicket(v).text = c /\ genTicket(v).truth = <<Span(38, v, "PHONE")>>
  <2>1. genTicket(v).text = c /\ genTicket(v).truth = <<Span(Len(a), v, "PHONE")>>
    BY Zenon DEF genTicket, Sample, a, b, c
  <2> QED BY <1>1, <2>1, Zenon
<1>5. { Span(q[1], q[2], q[3]) : q \in {p} } = {Span(38, v, "PHONE")}
  OBVIOUS
<1> QED BY <1>3, <1>4, <1>5, Truths1, Zenon DEF Annotated

LEMMA DocAnnotated ==
  ASSUME NEW C, "." \in C, NEW v \in Seq(C), NEW w \in Seq(C)
  PROVE  Annotated(genDoc(v, w), C, {<<34, v, "EMAIL">>, <<34 + Len(v) + 13, w, "IP">>})
<1> DEFINE p == <<34, v, "EMAIL">>
           q == <<34 + Len(v) + 13, w, "IP">>
           a == Wording(34)
           b == a \o v
           c == b \o Wording(13)
           d == c \o w
           e == d \o Wording(6)
<1>0. 6 \in Nat /\ 13 \in Nat /\ Len(v) \in Nat
  OBVIOUS
<1>1. Laid(a, C, {}) /\ Len(a) = 34
  BY OnlyWording
<1> HIDE DEF a
<1>2. Laid(b, C, {p}) /\ Len(b) = 34 + Len(v)
  <2>1. Laid(a \o v, C, {} \union {<<Len(a), v, "EMAIL">>}) /\ Len(a \o v) = Len(a) + Len(v)
    BY <1>1, LaidValue, Zenon
  <2>2. {} \union {<<Len(a), v, "EMAIL">>} = {p}
    BY <1>1
  <2> QED BY <1>1, <2>1, <2>2, Zenon
<1> HIDE DEF b, p
<1>3. Laid(c, C, {p}) /\ Len(c) = 34 + Len(v) + 13
  <2>1. Laid(c, C, {p}) /\ Len(c) = Len(b) + 13
    BY <1>0, <1>2, LaidWording, Zenon
  <2> HIDE DEF c
  <2> QED BY <1>2, <2>1, Zenon
<1> HIDE DEF c
<1>4. Laid(d, C, {p, q})
  <2>1. Laid(c \o w, C, {p} \union {<<Len(c), w, "IP">>})
    BY <1>3, LaidValue, Zenon
  <2>2. {p} \union {<<Len(c), w, "IP">>} = {p, q}
    BY <1>3
  <2> QED BY <2>1, <2>2, Zenon
<1> HIDE DEF d
<1>5. Laid(e, C, {p, q})
  BY <1>0, <1>4, LaidWording, Zenon
<1> HIDE DEF e
<1>6. /\ genDoc(v, w).text = e
      /\ genDoc(v, w).truth = <<Span(34, v, "EMAIL"), Span(34 + Len(v) + 13, w, "IP")>>
  BY Zenon DEF genDoc, Sample, a, b, c, d, e
<1>7. { Span(x[1], x[2], x[3]) : x \in {p, q} }
        = {Span(34, v, "EMAIL"), Span(34 + Len(v) + 13, w, "IP")}
  BY DEF p
<1> QED BY <1>5, <1>6, <1>7, Truths2, Zenon DEF Annotated, p

LEMMA LogAnnotated ==
  ASSUME NEW C, "." \in C, NEW v \in Seq(C), NEW w \in Seq(C)
  PROVE  Annotated(genLog(v, w), C, {<<36, v, "IP">>, <<36 + Len(v) + 10, w, "API_KEY">>})
<1> DEFINE p == <<36, v, "IP">>
           q == <<36 + Len(v) + 10, w, "API_KEY">>
           a == Wording(35) \o Wording(1)
           b == a \o v
           c == b \o Wording(1) \o Wording(8) \o Wording(1)
           d == c \o w
           e == d \o Wording(1) \o Wording(12)
<1>0. 1 \in Nat /\ 8 \in Nat /\ 12 \in Nat /\ Len(v) \in Nat
  OBVIOUS
<1>1. Laid(a, C, {}) /\ Len(a) = 36
  <2>1. Laid(Wording(35), C, {}) /\ Len(Wording(35)) = 35
    BY OnlyWording
  <2>2. Laid(a, C, {}) /\ Len(a) = Len(Wording(35)) + 1
    BY <1>0, <2>1, LaidWording, Zenon
  <2> HIDE DEF a
  <2>3. Len(a) = 35 + 1
    BY <2>1, <2>2, Zenon
  <2>4. Len(a) = 36
    BY <2>3
  <2> QED BY <2>2, <2>4, Zenon
<1> HIDE DEF a
<1>2. Laid(b, C, {p}) /\ Len(b) = 36 + Len(v)
  <2>1. Laid(a \o v, C, {} \union {<<Len(a), v, "IP">>}) /\ Len(a \o v) = Len(a) + Len(v)
    BY <1>1, LaidValue, Zenon
  <2>2. {} \union {<<Len(a), v, "IP">>} = {p}
    BY <1>1
  <2> QED BY <1>1, <2>1, <2>2, Zenon
<1> HIDE DEF b, p
<1>3. Laid(c, C, {p}) /\ Len(c) = 36 + Len(v) + 10
  <2> DEFINE x == b \o Wording(1)
             y == x \o Wording(8)
  <2>1. Laid(x, C, {p}) /\ Len(x) = Len(b) + 1
    BY <1>0, <1>2, LaidWording, Zenon
  <2> HIDE DEF x
  <2>2. Laid(y, C, {p}) /\ Len(y) = Len(x) + 8
    BY <1>0, <2>1, LaidWording, Zenon
  <2> HIDE DEF y
  <2>3. Laid(y \o Wording(1), C, {p}) /\ Len(y \o Wording(1)) = Len(y) + 1
    BY <1>0, <2>2, LaidWording, Zenon
  <2>4. Laid(c, C, {p}) /\ Len(c) = Len(y) + 1
    BY <2>3, Zenon DEF x, y
  <2> HIDE DEF c
  <2>5. Len(c) = 36 + Len(v) + 1 + 8 + 1
    BY <1>2, <2>1, <2>2, <2>4, Zenon
  <2>6. 36 + Len(v) + 1 + 8 + 1 = 36 + Len(v) + 10
    BY <1>0
  <2> QED BY <2>4, <2>5, <2>6, Zenon
<1> HIDE DEF c
<1>4. Laid(d, C, {p, q})
  <2>1. Laid(c \o w, C, {p} \union {<<Len(c), w, "API_KEY">>})
    BY <1>3, LaidValue, Zenon
  <2>2. {p} \union {<<Len(c), w, "API_KEY">>} = {p, q}
    BY <1>3
  <2> QED BY <2>1, <2>2, Zenon
<1> HIDE DEF d
<1>5. Laid(e, C, {p, q})
  <2>1. Laid(d \o Wording(1), C, {p, q})
    BY <1>0, <1>4, LaidWording, Zenon
  <2> QED BY <1>0, <2>1, LaidWording, Zenon
<1> HIDE DEF e
<1>8. <<".">> = Wording(1)
  <2> DEFINE x == <<".">>
             y == Wording(1)
  <2>1. x \in Seq(C) /\ Len(x) = 1 /\ x[1] = "."
    OBVIOUS
  <2>2. y \in Seq(C) /\ Len(y) = 1 /\ y[1] = "."
    BY DEF Wording
  <2> HIDE DEF x, y
  <2>3. \A i \in 1..Len(x) : x[i] = y[i]
    BY <2>1, <2>2
  <2> QED BY <2>1, <2>2, <2>3, SeqEqual DEF x, y
<1>6. /\ genLog(v, w).text = e
      /\ genLog(v, w).truth = <<Span(36, v, "IP"), Span(36 + Len(v) + 10, w, "API_KEY")>>
  BY <1>8, Zenon DEF genLog, Sample, a, b, c, d, e
<1>7. { Span(x[1], x[2], x[3]) : x \in {p, q} }
        = {Span(36, v, "IP"), Span(36 + Len(v) + 10, w, "API_KEY")}
  BY DEF p
<1> QED BY <1>5, <1>6, <1>7, Truths2, Zenon DEF Annotated, p

LEMMA EmailAnnotated ==
  ASSUME NEW C, "." \in C, NEW v \in Seq(C), NEW w \in Seq(C)
  PROVE  Annotated(genEmail(v, w), C,
                   {<<6, v, "EMAIL">>, <<6 + Len(v) + 5, w, "EMAIL">>,
                    <<6 + Len(v) + 5 + Len(w) + 44, v, "EMAIL">>})
<1> DEFINE p == <<6, v, "EMAIL">>
           q == <<6 + Len(v) + 5, w, "EMAIL">>
           r == <<6 + Len(v) + 5 + Len(w) + 44, v, "EMAIL">>
           a == Wording(6) \o v
           b == a \o Wording(5)
           c == b \o w
           h == c \o Wording(14)
<1>0. 5 \in Nat /\ 7 \in Nat /\ 14 \in Nat /\ 30 \in Nat /\ Len(v) \in Nat /\ Len(w) \in Nat
  OBVIOUS
<1>1. Laid(a, C, {p}) /\ Len(a) = 6 + Len(v)
  <2> DEFINE x == Wording(6)
  <2>1. Laid(x, C, {}) /\ Len(x) = 6
    BY OnlyWording
  <2> HIDE DEF x
  <2>2. Laid(x \o v, C, {} \union {<<Len(x), v, "EMAIL">>}) /\ Len(x \o v) = Len(x) + Len(v)
    BY <2>1, LaidValue, Zenon
  <2>3. {} \union {<<Len(x), v, "EMAIL">>} = {p}
    BY <2>1
  <2> QED BY <2>1, <2>2, <2>3, Zenon DEF x
<1> HIDE DEF a, p
<1>2. Laid(b, C, {p}) /\ Len(b) = 6 + Len(v) + 5
  <2>1. Laid(b, C, {p}) /\ Len(b) = Len(a) + 5
    BY <1>0, <1>1, LaidWording, Zenon
  <2> HIDE DEF b
  <2> QED BY <1>1, <2>1, Zenon
<1> HIDE DEF b
<1>3. Laid(c, C, {p, q}) /\ Len(c) = 6 + Len(v) + 5 + Len(w)
  <2>1. Laid(b \o w, C, {p} \union {<<Len(b), w, "EMAIL">>}) /\ Len(b \o w) = Len(b) + Len(w)
    BY <1>2, LaidValue, Zenon
  <2>2. {p} \union {<<Len(b), w, "EMAIL">>} = {p, q}
    BY <1>2
  <2> QED BY <1>2, <2>1, <2>2, Zenon
<1> HIDE DEF c, q
<1>4. Laid(h, C, {p, q}) /\ Len(h) = Len(c) + 14
  BY <1>0, <1>3, LaidWording, Zenon
<1> HIDE DEF h
<1> DEFINE d == h \o Wording(30)
<1>5. Laid(d, C, {p, q}) /\ Len(d) = Len(h) + 30
  <2>1. Laid(h, C, {p, q}) /\ 30 \in Nat
    BY <1>0, <1>4
  <2> QED BY <2>1, LaidWording, Zenon
<1> HIDE DEF d
<1>6. Len(h) + 30 = 6 + Len(v) + 5 + Len(w) + 44
  BY <1>0, <1>3, <1>4
<1> DEFINE e == d \o v
<1>7. Laid(e, C, {p, q, r})
  <2>1. Laid(d \o v, C, {p, q} \union {<<Len(d), v, "EMAIL">>})
    BY <1>5, LaidValue, Zenon
  <2>2. {p, q} \union {<<Len(d), v, "EMAIL">>} = {p, q, r}
    BY <1>5, <1>6
  <2> QED BY <2>1, <2>2, Zenon
<1> HIDE DEF e
<1> DEFINE f == e \o Wording(7)
<1>8. Laid(f, C, {p, q, r})
  BY <1>0, <1>7, LaidWording, Zenon
<1> HIDE DEF f
<1>9. /\ genEmail(v, w).text = f
      /\ genEmail(v, w).truth = <<Span(6, v, "EMAIL"), Span(6 + Len(v) + 5, w, "EMAIL"),
                                  Span(6 + Len(v) + 5 + Len(w) + 44, v, "EMAIL")>>
  <2>1. /\ genEmail(v, w).text = f
        /\ genEmail(v, w).truth = <<Span(6, v, "EMAIL"), Span(6 + Len(v) + 5, w, "EMAIL"),
                                    Span(Len(h) + Len(Wording(30)), v, "EMAIL")>>
    BY Zenon DEF genEmail, Sample, a, b, c, h, d, e, f
  <2>2. Len(Wording(30)) = 30
    BY OnlyWording
  <2> QED BY <1>6, <2>1, <2>2, Zenon
<1>10. { Span(x[1], x[2], x[3]) : x \in {p, q, r} }
        = {Span(6, v, "EMAIL"), Span(6 + Len(v) + 5, w, "EMAIL"),
           Span(6 + Len(v) + 5 + Len(w) + 44, v, "EMAIL")}
  BY DEF p, q
<1> QED BY <1>8, <1>9, <1>10, Truths3, Zenon DEF Annotated, p, q

\* The annotations of every sample of the corpus, whatever the values, as long
\* as a character tells them apart, are the places of its values.
THEOREM EveryAnnotationIsTrue ==
  ASSUME NEW C, "." \in C, NEW Vs, ToldApart(Vs, C), NEW i \in Nat,
         NEW s \in Generate(i, Vs)
  PROVE  TruthIsInPlace(s, Vs)
<1>1. \A t \in PIITypes : \A v \in Vs[t] : v \in Seq(C)
  BY DEF ToldApart
<1>2. "EMAIL" \in PIITypes /\ "IP" \in PIITypes /\ "API_KEY" \in PIITypes /\ "PHONE" \in PIITypes
  BY DEF PIITypes
<1>3. ASSUME NEW e \in Vs["EMAIL"], s = genChat(e) PROVE TruthIsInPlace(s, Vs)
  <2> DEFINE P == {<<25, e, "EMAIL">>}
  <2>1. Annotated(s, C, P)
    BY <1>1, <1>2, <1>3, ChatAnnotated, Zenon
  <2>2. \A p \in P : p = <<p[1], p[2], p[3]>> /\ p[3] \in PIITypes /\ p[2] \in Vs[p[3]]
    BY <1>2
  <2> HIDE DEF P
  <2>3. Laid(s.text, C, P) /\ ToSet(s.truth) = { Span(p[1], p[2], p[3]) : p \in P }
    BY <2>1, Zenon DEF Annotated
  <2> QED BY <2>2, <2>3, LaidInPlace, Zenon
<1>4. ASSUME NEW f \in Vs["EMAIL"], NEW t \in Vs["EMAIL"], s = genEmail(f, t)
      PROVE  TruthIsInPlace(s, Vs)
  <2> DEFINE P == {<<6, f, "EMAIL">>, <<6 + Len(f) + 5, t, "EMAIL">>,
                   <<6 + Len(f) + 5 + Len(t) + 44, f, "EMAIL">>}
  <2>1. Annotated(s, C, P)
    BY <1>1, <1>2, <1>4, EmailAnnotated, Zenon
  <2>2. \A p \in P : p = <<p[1], p[2], p[3]>> /\ p[3] \in PIITypes /\ p[2] \in Vs[p[3]]
    BY <1>2
  <2> HIDE DEF P
  <2>3. Laid(s.text, C, P) /\ ToSet(s.truth) = { Span(p[1], p[2], p[3]) : p \in P }
    BY <2>1, Zenon DEF Annotated
  <2> QED BY <2>2, <2>3, LaidInPlace, Zenon
<1>5. ASSUME NEW a \in Vs["IP"], NEW k \in Vs["API_KEY"], s = genLog(a, k)
      PROVE  TruthIsInPlace(s, Vs)
  <2> DEFINE P == {<<36, a, "IP">>, <<36 + Len(a) + 10, k, "API_KEY">>}
  <2>1. Annotated(s, C, P)
    BY <1>1, <1>2, <1>5, LogAnnotated, Zenon
  <2>2. \A p \in P : p = <<p[1], p[2], p[3]>> /\ p[3] \in PIITypes /\ p[2] \in Vs[p[3]]
    BY <1>2
  <2> HIDE DEF P
  <2>3. Laid(s.text, C, P) /\ ToSet(s.truth) = { Span(p[1], p[2], p[3]) : p \in P }
    BY <2>1, Zenon DEF Annotated
  <2> QED BY <2>2, <2>3, LaidInPlace, Zenon
<1>6. ASSUME NEW n \in Vs["PHONE"], s = genTicket(n) PROVE TruthIsInPlace(s, Vs)
  <2> DEFINE P == {<<38, n, "PHONE">>}
  <2>1. Annotated(s, C, P)
    BY <1>1, <1>2, <1>6, TicketAnnotated, Zenon
  <2>2. \A p \in P : p = <<p[1], p[2], p[3]>> /\ p[3] \in PIITypes /\ p[2] \in Vs[p[3]]
    BY <1>2
  <2> HIDE DEF P
  <2>3. Laid(s.text, C, P) /\ ToSet(s.truth) = { Span(p[1], p[2], p[3]) : p \in P }
    BY <2>1, Zenon DEF Annotated
  <2> QED BY <2>2, <2>3, LaidInPlace, Zenon
<1>7. ASSUME NEW e \in Vs["EMAIL"], NEW a \in Vs["IP"], s = genDoc(e, a)
      PROVE  TruthIsInPlace(s, Vs)
  <2> DEFINE P == {<<34, e, "EMAIL">>, <<34 + Len(e) + 13, a, "IP">>}
  <2>1. Annotated(s, C, P)
    BY <1>1, <1>2, <1>7, DocAnnotated, Zenon
  <2>2. \A p \in P : p = <<p[1], p[2], p[3]>> /\ p[3] \in PIITypes /\ p[2] \in Vs[p[3]]
    BY <1>2
  <2> HIDE DEF P
  <2>3. Laid(s.text, C, P) /\ ToSet(s.truth) = { Span(p[1], p[2], p[3]) : p \in P }
    BY <2>1, Zenon DEF Annotated
  <2> QED BY <2>2, <2>3, LaidInPlace, Zenon
<1>8. \/ s \in { genChat(e) : e \in Vs["EMAIL"] }
      \/ s \in { genEmail(f, t) : f \in Vs["EMAIL"], t \in Vs["EMAIL"] }
      \/ s \in { genLog(a, k) : a \in Vs["IP"], k \in Vs["API_KEY"] }
      \/ s \in { genTicket(p) : p \in Vs["PHONE"] }
      \/ s \in { genDoc(e, a) : e \in Vs["EMAIL"], a \in Vs["IP"] }
  BY DEF Generate
<1> QED BY <1>3, <1>4, <1>5, <1>6, <1>7, <1>8

-----------------------------------------------------------------------------
(***************************************************************************)
(* The scores                                                              *)
(***************************************************************************)
\* The pairs of R up to the k-th true span.
PairsTo(R, k) == { p \in R : p[1] <= k }

\* No true span and no detection is in two pairs.
Pairing(X) == \A p, q \in X : p # q => p[1] # q[1] /\ p[2] # q[2]

\* M holds what is taken up to each true span: the first one that is free.
Greedy(M, n, m, R) ==
  /\ M \in [0..n -> SUBSET (1..m)]
  /\ M[0] = {}
  /\ \A k \in 1..n :
       LET free == { j \in 1..m : <<k, j>> \in R /\ j \notin M[k - 1] } IN
       M[k] = IF free = {} THEN M[k - 1] ELSE M[k - 1] \union {Min(free)}

\* What was taken was taken for some span, and the pairs are a pairing.
Taken(M, R, k) ==
  /\ IsFiniteSet(M[k]) /\ Cardinality(M[k]) \in Nat
  /\ \A j \in M[k] : \E p \in PairsTo(R, k) : p[2] = j
  /\ \E X \in SUBSET PairsTo(R, k) :
       /\ Pairing(X) /\ IsFiniteSet(X) /\ Cardinality(X) = Cardinality(M[k])
       /\ \A p \in X : p[2] \in M[k]

\* A step takes nothing, or the first that was free.
Rests(M, R, k) ==
  M[k] = M[k - 1] /\ \A j : <<k, j>> \in R => j \in M[k - 1]

TakesFirst(M, m, R, k) ==
  \E d \in 1..m : /\ <<k, d>> \in R /\ d \notin M[k - 1] /\ M[k] = M[k - 1] \union {d}
                  /\ \A j : <<k, j>> \in R /\ j < d => j \in M[k - 1]

LEMMA GreedyStep ==
  ASSUME NEW n \in Nat, NEW m \in Nat, NEW R \in SUBSET ((1..n) \X (1..m)), NEW M,
         Greedy(M, n, m, R), NEW k \in 1..n
  PROVE  Rests(M, R, k) \/ TakesFirst(M, m, R, k)
<1> DEFINE free == { j \in 1..m : <<k, j>> \in R /\ j \notin M[k - 1] }
<1>1. M[k] = IF free = {} THEN M[k - 1] ELSE M[k - 1] \union {Min(free)}
  BY DEF Greedy
<1>2. \A j : <<k, j>> \in R => j \in 1..m
  OBVIOUS
<1>3. \A j : <<k, j>> \in R /\ j \notin free => j \in M[k - 1]
  BY <1>2
<1>4. CASE free = {}
  BY <1>1, <1>3, <1>4 DEF Rests
<1>5. CASE free # {}
  <2> DEFINE d == Min(free)
  <2>1. d \in free /\ \A j \in free : d <= j
    BY <1>5, LeastIn
  <2>2. d \in 1..m /\ <<k, d>> \in R /\ d \notin M[k - 1]
    BY <2>1
  <2> HIDE DEF d
  <2>3. \A j : <<k, j>> \in R /\ j < d => j \notin free
    <3>1. \A j \in free : j \in Int
      OBVIOUS
    <3> HIDE DEF free
    <3> QED BY <2>1, <2>2, <3>1
  <2>4. M[k] = M[k - 1] \union {d}
    BY <1>1, <1>5 DEF d
  <2> HIDE DEF free
  <2> QED BY <1>3, <2>2, <2>3, <2>4 DEF TakesFirst
<1> QED BY <1>4, <1>5

LEMMA TakenPairs ==
  ASSUME NEW n \in Nat, NEW m \in Nat, NEW R \in SUBSET ((1..n) \X (1..m)), NEW M,
         Greedy(M, n, m, R)
  PROVE  \A k \in 0..n : Taken(M, R, k)
<1> DEFINE T == { k \in 0..n : Taken(M, R, k) }
<1>1. 0 \in T
  <2>1. M[0] = {} /\ 0 \in 0..n
    BY DEF Greedy
  <2>2. {} \in SUBSET PairsTo(R, 0) /\ Pairing({})
    BY DEF Pairing
  <2> QED BY <2>1, <2>2, FS_EmptySet DEF Taken
<1>2. ASSUME NEW i \in 0..(n - 1), i \in T PROVE i + 1 \in T
  <2> DEFINE k == i + 1
  <2>1. k \in 1..n /\ k \in 0..n /\ k - 1 = i /\ i \in Int
    OBVIOUS
  <2>2. Taken(M, R, i)
    BY <1>2
  <2> HIDE DEF T, k
  <2>3. PairsTo(R, i) \subseteq PairsTo(R, k) /\ \A p \in PairsTo(R, i) : p \in R /\ p[1] <= i
    <3>1. \A p \in R : p[1] \in Int
      OBVIOUS
    <3> QED BY <2>1, <3>1 DEF PairsTo, k
  <2>4. \/ M[k] = M[i]
        \/ \E d \in 1..m : <<k, d>> \in R /\ d \notin M[i] /\ M[k] = M[i] \union {d}
    <3>1. Rests(M, R, k) \/ TakesFirst(M, m, R, k)
      BY <2>1, GreedyStep
    <3> QED BY <2>1, <3>1 DEF Rests, TakesFirst
  <2>5. CASE M[k] = M[i]
    <3>1. Taken(M, R, k)
      BY <2>2, <2>3, <2>5 DEF Taken
    <3> QED BY <2>1, <3>1 DEF T, k
  <2>6. CASE \E d \in 1..m : <<k, d>> \in R /\ d \notin M[i] /\ M[k] = M[i] \union {d}
    <3>1. PICK d \in 1..m : <<k, d>> \in R /\ d \notin M[i] /\ M[k] = M[i] \union {d}
      BY <2>6
    <3>2. PICK X \in SUBSET PairsTo(R, i) :
            /\ Pairing(X) /\ IsFiniteSet(X) /\ Cardinality(X) = Cardinality(M[i])
            /\ \A p \in X : p[2] \in M[i]
      BY <2>2 DEF Taken
    <3> DEFINE p == <<k, d>>
               Y == X \union {p}
    <3>3. p \in PairsTo(R, k) /\ p[1] = k /\ p[2] = d
      BY <2>1, <3>1 DEF PairsTo
    <3> HIDE DEF p
    <3>4. \A q \in X : q[1] # p[1] /\ q[2] # p[2]
      <4>1. \A q \in X : q[1] <= i /\ q[2] \in M[i]
        BY <2>3, <3>2
      <4>2. ~ (k <= i)
        BY <2>1
      <4> QED BY <3>1, <3>3, <4>1, <4>2
    <3>5. Pairing(Y) /\ Y \in SUBSET PairsTo(R, k)
      BY <2>3, <3>2, <3>3, <3>4 DEF Pairing
    <3>6. IsFiniteSet(Y) /\ Cardinality(Y) = Cardinality(X) + 1
      <4>1. p \notin X
        BY <3>4
      <4> QED BY <3>2, <4>1, FS_AddElement
    <3>7. IsFiniteSet(M[k]) /\ Cardinality(M[k]) = Cardinality(M[i]) + 1
          /\ Cardinality(M[k]) \in Nat
      <4>1. IsFiniteSet(M[i]) /\ Cardinality(M[i]) \in Nat
        BY <2>2 DEF Taken
      <4>2. IsFiniteSet(M[k]) /\ Cardinality(M[k]) = Cardinality(M[i]) + 1
        BY <3>1, <4>1, FS_AddElement
      <4> QED BY <4>1, <4>2
    <3>8. \A j \in M[k] : \E q \in PairsTo(R, k) : q[2] = j
      <4>1. \A j \in M[i] : \E q \in PairsTo(R, i) : q[2] = j
        BY <2>2 DEF Taken
      <4> QED BY <2>3, <3>1, <3>3, <4>1
    <3>9. \A q \in Y : q[2] \in M[k]
      BY <3>1, <3>2, <3>3
    <3> HIDE DEF Y
    <3>10. Cardinality(Y) = Cardinality(M[k])
      BY <3>2, <3>6, <3>7
    <3>11. Taken(M, R, k)
      BY <3>5, <3>6, <3>7, <3>8, <3>9, <3>10 DEF Taken
    <3> QED BY <2>1, <3>11 DEF T, k
  <2> QED BY <2>4, <2>5, <2>6
<1> HIDE DEF T
<1>3. \A k \in 0..n : k \in T
  BY <1>1, <1>2, InductionUpTo
<1> QED BY <1>3 DEF T

\* A pairing up to a span either leaves that one out, or is a pairing up to the
\* one before with a pair more.
LastPair(X, R, k) ==
  \/ X \in SUBSET PairsTo(R, k - 1)
  \/ \E p \in X : /\ p[1] = k /\ p \in R
                  /\ X \ {p} \in SUBSET PairsTo(R, k - 1) /\ Pairing(X \ {p})
                  /\ IsFiniteSet(X \ {p})
                  /\ Cardinality(X) = Cardinality(X \ {p}) + 1
                  /\ \A q \in X \ {p} : q \in R /\ q[1] < k /\ q[2] # p[2]

LEMMA PairingSplits ==
  ASSUME NEW n \in Nat, NEW m \in Nat, NEW R \in SUBSET ((1..n) \X (1..m)), NEW k \in 1..n,
         NEW X \in SUBSET PairsTo(R, k), Pairing(X), IsFiniteSet(X)
  PROVE  LastPair(X, R, k)
<1>1. \A p \in X : p \in R /\ p[1] \in Int /\ p[1] <= k
  BY DEF PairsTo
<1>2. CASE \A p \in X : p[1] # k
  <2>1. \A p \in X : p[1] <= k - 1
    BY <1>1, <1>2
  <2>2. X \in SUBSET PairsTo(R, k - 1)
    BY <1>1, <2>1 DEF PairsTo
  <2> QED BY <2>2 DEF LastPair
<1>3. CASE \E p \in X : p[1] = k
  <2>1. PICK p \in X : p[1] = k
    BY <1>3
  <2> DEFINE Y == X \ {p}
  <2>2. \A q \in Y : q \in R /\ q[1] < k /\ q[2] # p[2]
    <3>1. \A q \in Y : q[1] # k /\ q[2] # p[2]
      BY <2>1 DEF Pairing
    <3> QED BY <1>1, <3>1
  <2>3. Y \in SUBSET PairsTo(R, k - 1)
    <3>1. \A q \in Y : q[1] <= k - 1
      BY <1>1, <2>2
    <3> QED BY <2>2, <3>1 DEF PairsTo
  <2>4. Pairing(Y)
    BY DEF Pairing
  <2>5. IsFiniteSet(Y) /\ Cardinality(Y) = Cardinality(X) - 1
    BY FS_RemoveElement
  <2>6. Cardinality(X) = Cardinality(Y) + 1
    <3>1. Cardinality(X) \in Nat
      BY FS_CardinalityType
    <3> QED BY <2>5, <3>1
  <2> QED BY <1>1, <2>1, <2>2, <2>3, <2>4, <2>5, <2>6 DEF LastPair
<1> QED BY <1>2, <1>3

\* No pairing has more pairs than were taken; and one whose detections all lie
\* before one that was taken has fewer.
AtMost(M, R, k) ==
  \A X \in SUBSET PairsTo(R, k) : Pairing(X) /\ IsFiniteSet(X) =>
    Cardinality(X) <= Cardinality(M[k])

Fewer(M, R, k) ==
  \A X \in SUBSET PairsTo(R, k) : Pairing(X) /\ IsFiniteSet(X) =>
    \A j \in M[k] : (\A p \in X : p[2] < j) => Cardinality(X) < Cardinality(M[k])

\* A detection meets one true span at most.
LEMMA GreedySingle ==
  ASSUME NEW n \in Nat, NEW m \in Nat, NEW R \in SUBSET ((1..n) \X (1..m)), NEW M,
         Greedy(M, n, m, R),
         \A p, q \in R : p[2] = q[2] => p[1] = q[1]
  PROVE  \A k \in 0..n : AtMost(M, R, k)
<1> DEFINE T == { k \in 0..n : AtMost(M, R, k) }
<1>1. 0 \in T
  <2>1. PairsTo(R, 0) = {}
    <3>1. \A p \in R : p[1] >= 1 /\ p[1] \in Int
      OBVIOUS
    <3> QED BY <3>1 DEF PairsTo
  <2>2. M[0] = {}
    BY DEF Greedy
  <2>3. AtMost(M, R, 0)
    BY <2>1, <2>2, FS_EmptySet DEF AtMost
  <2> QED BY <2>3
<1>2. ASSUME NEW i \in 0..(n - 1), i \in T PROVE i + 1 \in T
  <2> DEFINE k == i + 1
  <2>1. k \in 1..n /\ k \in 0..n /\ k - 1 = i /\ i \in Int /\ i \in 0..n
    OBVIOUS
  <2>2. AtMost(M, R, i)
    BY <1>2
  <2> HIDE DEF T, k
  <2>3. Taken(M, R, i) /\ Taken(M, R, k)
    BY <2>1, TakenPairs
  <2>4. IsFiniteSet(M[i]) /\ Cardinality(M[i]) \in Nat /\ Cardinality(M[k]) \in Nat
    BY <2>3 DEF Taken
  <2> SUFFICES ASSUME NEW X \in SUBSET PairsTo(R, k), Pairing(X), IsFiniteSet(X)
               PROVE  Cardinality(X) <= Cardinality(M[k])
    BY <2>1 DEF AtMost, T, k
  <2>5. LastPair(X, R, k)
    BY <2>1, PairingSplits
  <2>11. Rests(M, R, k) \/ TakesFirst(M, m, R, k)
    BY <2>1, GreedyStep
  <2>6. \A Y \in SUBSET PairsTo(R, i) : Pairing(Y) /\ IsFiniteSet(Y) =>
          Cardinality(Y) \in Nat /\ Cardinality(Y) <= Cardinality(M[i])
    BY <2>2, FS_CardinalityType DEF AtMost
  <2>7. CASE M[k] = M[i] /\ \A j : <<k, j>> \in R => j \in M[i]
    <3>1. \A p \in R : p[1] # k
      <4> SUFFICES ASSUME NEW p \in R, p[1] = k PROVE FALSE
        OBVIOUS
      <4>1. p = <<k, p[2]>>
        OBVIOUS
      <4>2. p[2] \in M[i]
        BY <2>7, <4>1
      <4>3. PICK q \in PairsTo(R, i) : q[2] = p[2]
        BY <2>3, <4>2 DEF Taken
      <4>4. q \in R /\ q[1] <= i
        BY <4>3 DEF PairsTo
      <4>5. q[1] = p[1]
        BY <4>3, <4>4
      <4> QED BY <2>1, <4>4, <4>5
    <3>2. X \in SUBSET PairsTo(R, i)
      BY <2>1, <2>5, <3>1 DEF LastPair
    <3> QED BY <2>6, <2>7, <3>2
  <2>8. CASE \E d \in 1..m : d \notin M[i] /\ M[k] = M[i] \union {d}
    <3>1. Cardinality(M[k]) = Cardinality(M[i]) + 1
      BY <2>4, <2>8, FS_AddElement
    <3>2. CASE X \in SUBSET PairsTo(R, i)
      <4>1. Cardinality(X) \in Nat /\ Cardinality(X) <= Cardinality(M[i])
        BY <2>6, <3>2
      <4> QED BY <2>4, <3>1, <4>1
    <3>3. CASE \E p \in X : /\ X \ {p} \in SUBSET PairsTo(R, i) /\ Pairing(X \ {p})
                            /\ IsFiniteSet(X \ {p})
                            /\ Cardinality(X) = Cardinality(X \ {p}) + 1
      <4>1. PICK p \in X : /\ X \ {p} \in SUBSET PairsTo(R, i) /\ Pairing(X \ {p})
                           /\ IsFiniteSet(X \ {p})
                           /\ Cardinality(X) = Cardinality(X \ {p}) + 1
        BY <3>3
      <4>2. Cardinality(X \ {p}) \in Nat /\ Cardinality(X \ {p}) <= Cardinality(M[i])
        BY <2>6, <4>1
      <4> QED BY <2>4, <3>1, <4>1, <4>2
    <3> QED BY <2>1, <2>5, <3>2, <3>3 DEF LastPair
  <2> QED BY <2>1, <2>7, <2>8, <2>11 DEF Rests, TakesFirst
<1> HIDE DEF T
<1>3. \A k \in 0..n : k \in T
  BY <1>1, <1>2, InductionUpTo
<1> QED BY <1>3 DEF T

\* True spans and detections come in the same order.
LEMMA GreedyOrdered ==
  ASSUME NEW n \in Nat, NEW m \in Nat, NEW R \in SUBSET ((1..n) \X (1..m)), NEW M,
         Greedy(M, n, m, R),
         \A p, q \in R : p[1] < q[1] => p[2] <= q[2]
  PROVE  \A k \in 0..n : AtMost(M, R, k)
<1> DEFINE T == { k \in 0..n : AtMost(M, R, k) /\ Fewer(M, R, k) }
<1>1. 0 \in T
  <2>1. PairsTo(R, 0) = {}
    <3>1. \A p \in R : p[1] >= 1 /\ p[1] \in Int
      OBVIOUS
    <3> QED BY <3>1 DEF PairsTo
  <2>2. M[0] = {}
    BY DEF Greedy
  <2>3. AtMost(M, R, 0)
    BY <2>1, <2>2, FS_EmptySet DEF AtMost
  <2>4. Fewer(M, R, 0)
    BY <2>2 DEF Fewer
  <2> QED BY <2>3, <2>4
<1>2. ASSUME NEW i \in 0..(n - 1), i \in T PROVE i + 1 \in T
  <2> DEFINE k == i + 1
  <2>1. k \in 1..n /\ k \in 0..n /\ k - 1 = i /\ i \in Int /\ i \in 0..n
    OBVIOUS
  <2>2. AtMost(M, R, i) /\ Fewer(M, R, i)
    BY <1>2
  <2> HIDE DEF T, k
  <2>3. Taken(M, R, i) /\ Taken(M, R, k)
    BY <2>1, TakenPairs
  <2>4. IsFiniteSet(M[i]) /\ Cardinality(M[i]) \in Nat /\ Cardinality(M[k]) \in Nat
    BY <2>3 DEF Taken
  <2>0. M[i] \subseteq 1..m /\ M[k] \subseteq 1..m
    BY <2>1 DEF Greedy
  <2> SUFFICES ASSUME NEW X \in SUBSET PairsTo(R, k), Pairing(X), IsFiniteSet(X)
               PROVE  /\ Cardinality(X) <= Cardinality(M[k])
                      /\ \A j \in M[k] : (\A p \in X : p[2] < j) =>
                           Cardinality(X) < Cardinality(M[k])
    BY <2>1 DEF AtMost, Fewer, T, k
  <2>5. LastPair(X, R, k)
    BY <2>1, PairingSplits
  <2>11. Rests(M, R, k) \/ TakesFirst(M, m, R, k)
    BY <2>1, GreedyStep
  <2>6. \A Y \in SUBSET PairsTo(R, i) : Pairing(Y) /\ IsFiniteSet(Y) =>
          /\ Cardinality(Y) \in Nat /\ Cardinality(Y) <= Cardinality(M[i])
          /\ \A j \in M[i] : (\A p \in Y : p[2] < j) => Cardinality(Y) < Cardinality(M[i])
    BY <2>2, FS_CardinalityType DEF AtMost, Fewer
  <2>7. \A j \in M[i], p \in R : p[1] = k => j <= p[2]
    <3> SUFFICES ASSUME NEW j \in M[i], NEW p \in R, p[1] = k PROVE j <= p[2]
      OBVIOUS
    <3>1. PICK q \in PairsTo(R, i) : q[2] = j
      BY <2>3 DEF Taken
    <3>2. q \in R /\ q[1] <= i /\ q[1] \in Int
      BY DEF PairsTo
    <3>3. q[1] < p[1]
      BY <2>1, <3>2
    <3> QED BY <3>1, <3>2, <3>3
  \* The rest of a pairing with a pair of this span.
  <2>8. ASSUME NEW p \in X, p[1] = k, p \in R, NEW Y, Y = X \ {p},
               \A q \in Y : q \in R /\ q[1] < k /\ q[2] # p[2]
        PROVE  \A q \in Y : q[2] < p[2]
    <3> SUFFICES ASSUME NEW q \in Y PROVE q[2] < p[2]
      OBVIOUS
    <3>1. q \in R /\ q[1] < p[1] /\ q[2] # p[2]
      BY <2>8
    <3>2. q[2] <= p[2] /\ q[2] \in Int /\ p[2] \in Int
      BY <2>8, <3>1
    <3> QED BY <3>1, <3>2
  <2>9. CASE X \in SUBSET PairsTo(R, i)
    <3>1. /\ Cardinality(X) \in Nat /\ Cardinality(X) <= Cardinality(M[i])
          /\ \A j \in M[i] : (\A p \in X : p[2] < j) => Cardinality(X) < Cardinality(M[i])
      BY <2>6, <2>9
    <3>2. CASE M[k] = M[i]
      BY <3>1, <3>2
    <3>3. CASE \E d \in 1..m : d \notin M[i] /\ M[k] = M[i] \union {d}
      <4>1. Cardinality(M[k]) = Cardinality(M[i]) + 1
        BY <2>4, <3>3, FS_AddElement
      <4> QED BY <2>4, <3>1, <4>1
    <3> QED BY <2>1, <2>11, <3>2, <3>3 DEF Rests, TakesFirst
  <2>10. CASE X \notin SUBSET PairsTo(R, i)
    <3>1. PICK p \in X : /\ p[1] = k /\ p \in R
                         /\ X \ {p} \in SUBSET PairsTo(R, i) /\ Pairing(X \ {p})
                         /\ IsFiniteSet(X \ {p})
                         /\ Cardinality(X) = Cardinality(X \ {p}) + 1
                         /\ \A q \in X \ {p} : q \in R /\ q[1] < k /\ q[2] # p[2]
      BY <2>1, <2>5, <2>10 DEF LastPair
    <3> DEFINE Y == X \ {p}
    <3>2. \A q \in Y : q[2] < p[2]
      BY <2>8, <3>1
    <3>3. Y \in SUBSET PairsTo(R, i) /\ Pairing(Y) /\ IsFiniteSet(Y)
          /\ Cardinality(X) = Cardinality(Y) + 1
      BY <3>1
    <3> HIDE DEF Y
    <3>4. /\ Cardinality(Y) \in Nat /\ Cardinality(Y) <= Cardinality(M[i])
          /\ \A j \in M[i] : (\A q \in Y : q[2] < j) => Cardinality(Y) < Cardinality(M[i])
      BY <2>6, <3>3
    <3>5. p[2] \in M[i] => Cardinality(X) <= Cardinality(M[i])
      <4> SUFFICES ASSUME p[2] \in M[i] PROVE Cardinality(X) <= Cardinality(M[i])
        OBVIOUS
      <4>1. Cardinality(Y) < Cardinality(M[i])
        BY <3>2, <3>4
      <4> QED BY <2>4, <3>3, <3>4, <4>1
    <3>6. p = <<k, p[2]>> /\ p[2] \in 1..m
      BY <3>1
    <3>7. ASSUME NEW j \in M[i], \A q \in X : q[2] < j PROVE FALSE
      <4>1. p[2] < j /\ j <= p[2]
        BY <2>7, <3>1, <3>7
      <4> QED BY <2>0, <3>6, <4>1
    <3>8. CASE M[k] = M[i] /\ \A j : <<k, j>> \in R => j \in M[i]
      <4>1. p[2] \in M[i]
        BY <3>1, <3>6, <3>8
      <4> QED BY <3>5, <3>7, <3>8, <4>1
    <3>9. CASE \E d \in 1..m : /\ d \notin M[i] /\ M[k] = M[i] \union {d}
                               /\ \A j : <<k, j>> \in R /\ j < d => j \in M[i]
      <4>1. PICK d \in 1..m : /\ d \notin M[i] /\ M[k] = M[i] \union {d}
                              /\ \A j : <<k, j>> \in R /\ j < d => j \in M[i]
        BY <3>9
      <4>2. Cardinality(M[k]) = Cardinality(M[i]) + 1
        <5>1. d \notin M[i] /\ M[k] = M[i] \union {d} /\ IsFiniteSet(M[i])
          BY <2>4, <4>1
        <5> QED BY <5>1, FS_AddElement, Zenon
      <4>3. Cardinality(X) <= Cardinality(M[k])
        BY <2>4, <3>3, <3>4, <4>2
      <4>4. ASSUME NEW j \in M[k], \A q \in X : q[2] < j
            PROVE  Cardinality(X) < Cardinality(M[k])
        <5>1. j = d
          BY <3>7, <4>1, <4>4
        <5>2. p[2] < d
          BY <4>4, <5>1
        <5>3. p[2] \in M[i]
          BY <3>1, <3>6, <4>1, <5>2
        <5> QED BY <2>4, <3>3, <3>4, <3>5, <4>2, <5>3
      <4> QED BY <4>3, <4>4
    <3> QED BY <2>1, <2>11, <3>8, <3>9 DEF Rests, TakesFirst
  <2> QED BY <2>9, <2>10
<1> HIDE DEF T
<1>3. \A k \in 0..n : k \in T
  BY <1>1, <1>2, InductionUpTo
<1> QED BY <1>3 DEF T

Metrics == [tp : Int, fp : Int, fn : Int]
PerType(Types) == [Types -> Metrics]
ScoreState(Types, m) == [matched : SUBSET (1..m), per : PerType(Types)]

\* A true span looks for its detection.
ScoreOne(got, s, t) ==
  LET free == Hits(got, s.matched, t) IN
  IF free = {} THEN [s EXCEPT !.per[t.type].fn = @ + 1]
  ELSE [matched |-> s.matched \union {Min(free)},
        per |-> [s.per EXCEPT ![t.type].tp = @ + 1]]

ScoreHits(per, truth, got) ==
  FoldLeft(LAMBDA s, t : ScoreOne(got, s, t), [matched |-> {}, per |-> per], truth)

\* A detection nobody took is a false positive.
ScoreRest(got, matched, p, i) ==
  IF i \in matched THEN p ELSE [p EXCEPT ![got[i].type].fp = @ + 1]

ScoreEnd(matched, per, got) ==
  FoldLeft(LAMBDA p, i : ScoreRest(got, matched, p, i), per, [i \in DOMAIN got |-> i])

LEMMA ScoreParts ==
  ASSUME NEW per, NEW truth, NEW got
  PROVE  score(per, truth, got)
           = LET h == ScoreHits(per, truth, got) IN ScoreEnd(h.matched, h.per, got)
BY Zenon DEF score, ScoreHits, ScoreEnd, ScoreOne, ScoreRest, FoldLeft, MapThenFoldSet

\* One more in a cell of the table.
MoreIn(p, q, t, c, Types) ==
  /\ q \in PerType(Types)
  /\ t \in Types => q[t] = c
  /\ \A T \in Types : T # t => q[T] = p[T]

LEMMA OneMore ==
  ASSUME NEW Types, NEW p \in PerType(Types), NEW t
  PROVE  /\ MoreIn(p, [p EXCEPT ![t].tp = @ + 1], t, [p[t] EXCEPT !.tp = @ + 1], Types)
         /\ MoreIn(p, [p EXCEPT ![t].fn = @ + 1], t, [p[t] EXCEPT !.fn = @ + 1], Types)
         /\ MoreIn(p, [p EXCEPT ![t].fp = @ + 1], t, [p[t] EXCEPT !.fp = @ + 1], Types)
<1>1. MoreIn(p, [p EXCEPT ![t].tp = @ + 1], t, [p[t] EXCEPT !.tp = @ + 1], Types)
  <2> DEFINE c == [p[t] EXCEPT !.tp = @ + 1]
  <2>1. t \in Types => c \in Metrics
    BY DEF PerType, Metrics
  <2>2. [p EXCEPT ![t].tp = @ + 1] = [p EXCEPT ![t] = c]
    BY DEF PerType
  <2> HIDE DEF c
  <2>3. MoreIn(p, [p EXCEPT ![t] = c], t, c, Types)
    BY <2>1 DEF PerType, MoreIn
  <2> QED BY <2>2, <2>3, Zenon DEF c
<1>2. MoreIn(p, [p EXCEPT ![t].fn = @ + 1], t, [p[t] EXCEPT !.fn = @ + 1], Types)
  <2> DEFINE c == [p[t] EXCEPT !.fn = @ + 1]
  <2>1. t \in Types => c \in Metrics
    BY DEF PerType, Metrics
  <2>2. [p EXCEPT ![t].fn = @ + 1] = [p EXCEPT ![t] = c]
    BY DEF PerType
  <2> HIDE DEF c
  <2>3. MoreIn(p, [p EXCEPT ![t] = c], t, c, Types)
    BY <2>1 DEF PerType, MoreIn
  <2> QED BY <2>2, <2>3, Zenon DEF c
<1>3. MoreIn(p, [p EXCEPT ![t].fp = @ + 1], t, [p[t] EXCEPT !.fp = @ + 1], Types)
  <2> DEFINE c == [p[t] EXCEPT !.fp = @ + 1]
  <2>1. t \in Types => c \in Metrics
    BY DEF PerType, Metrics
  <2>2. [p EXCEPT ![t].fp = @ + 1] = [p EXCEPT ![t] = c]
    BY DEF PerType
  <2> HIDE DEF c
  <2>3. MoreIn(p, [p EXCEPT ![t] = c], t, c, Types)
    BY <2>1 DEF PerType, MoreIn
  <2> QED BY <2>2, <2>3, Zenon DEF c
<1> QED BY <1>1, <1>2, <1>3

\* What a true span changes.
OneSpan(got, s, t, r, Types, m) ==
  LET free == Hits(got, s.matched, t) IN
  /\ r \in ScoreState(Types, m)
  /\ free = {} => /\ r.matched = s.matched
                  /\ \A T \in Types :
                       r.per[T] = IF t.type = T THEN [s.per[T] EXCEPT !.fn = @ + 1] ELSE s.per[T]
  /\ free # {} => /\ r.matched = s.matched \union {Min(free)}
                  /\ Min(free) \in free
                  /\ \A T \in Types :
                       r.per[T] = IF t.type = T THEN [s.per[T] EXCEPT !.tp = @ + 1] ELSE s.per[T]

LEMMA SpanStep ==
  ASSUME NEW S, NEW got \in Seq(S), NEW Types, NEW s \in ScoreState(Types, Len(got)), NEW t
  PROVE  OneSpan(got, s, t, ScoreOne(got, s, t), Types, Len(got))
<1> DEFINE m == Len(got)
           free == Hits(got, s.matched, t)
           r == ScoreOne(got, s, t)
           p == s.per
           a == [p EXCEPT ![t.type].fn = @ + 1]
           b == [p EXCEPT ![t.type].tp = @ + 1]
<1>1. m \in Nat /\ free \in SUBSET (1..m)
  BY DEF Hits
<1>2. p \in PerType(Types) /\ s.matched \in SUBSET (1..m)
        /\ s = [matched |-> s.matched, per |-> p]
  BY DEF ScoreState
<1>3. /\ a \in PerType(Types) /\ b \in PerType(Types)
      /\ \A T \in Types : a[T] = IF t.type = T THEN [p[T] EXCEPT !.fn = @ + 1] ELSE p[T]
      /\ \A T \in Types : b[T] = IF t.type = T THEN [p[T] EXCEPT !.tp = @ + 1] ELSE p[T]
  <2>1. /\ MoreIn(p, a, t.type, [p[t.type] EXCEPT !.fn = @ + 1], Types)
        /\ MoreIn(p, b, t.type, [p[t.type] EXCEPT !.tp = @ + 1], Types)
    BY <1>2, OneMore, Zenon
  <2> HIDE DEF p, a, b
  <2> QED BY <2>1 DEF MoreIn
<1>4. r = IF free = {} THEN [s EXCEPT !.per[t.type].fn = @ + 1]
          ELSE [matched |-> s.matched \union {Min(free)}, per |-> b]
  BY Zenon DEF ScoreOne
<1>5. [s EXCEPT !.per[t.type].fn = @ + 1] = [matched |-> s.matched, per |-> a]
  BY <1>2
<1>6. free # {} => Min(free) \in free
  <2> HIDE DEF free, m
  <2> QED BY <1>1, LeastIn
<1> HIDE DEF a, b, free, p, r, m
<1>7. CASE free = {}
  <2>1. r = [matched |-> s.matched, per |-> a]
    BY <1>4, <1>5, <1>7
  <2>2. r \in ScoreState(Types, m) /\ r.matched = s.matched /\ r.per = a
    BY <1>2, <1>3, <2>1 DEF ScoreState
  <2>3. /\ free # {} => FALSE
        /\ \A T \in Types : r.per[T] = IF t.type = T THEN [p[T] EXCEPT !.fn = @ + 1] ELSE p[T]
    BY <1>3, <1>7, <2>2
  <2> QED BY <2>2, <2>3, Zenon DEF OneSpan, free, p, r, m
<1>8. CASE free # {}
  <2>1. r = [matched |-> s.matched \union {Min(free)}, per |-> b]
    BY <1>4, <1>8
  <2>2. r \in ScoreState(Types, m) /\ r.matched = s.matched \union {Min(free)} /\ r.per = b
    <3>1. s.matched \union {Min(free)} \in SUBSET (1..m)
      BY <1>1, <1>2, <1>6, <1>8
    <3> QED BY <1>3, <2>1, <3>1 DEF ScoreState
  <2>3. /\ free = {} => FALSE
        /\ \A T \in Types : r.per[T] = IF t.type = T THEN [p[T] EXCEPT !.tp = @ + 1] ELSE p[T]
    BY <1>3, <1>8, <2>2
  <2> QED BY <1>6, <2>2, <2>3, Zenon DEF OneSpan, free, p, r, m
<1> QED BY <1>7, <1>8

\* The true spans one after the other.
LEMMA HitSteps ==
  ASSUME NEW S, NEW got \in Seq(S), NEW U, NEW truth \in Seq(U), NEW Types,
         NEW per \in PerType(Types)
  PROVE  \E f \in [0..Len(truth) -> ScoreState(Types, Len(got))] :
           /\ f[0] = [matched |-> {}, per |-> per]
           /\ \A k \in 1..Len(truth) : f[k] = ScoreOne(got, f[k - 1], truth[k])
           /\ ScoreHits(per, truth, got) = f[Len(truth)]
<1> DEFINE n == Len(truth)
           A == ScoreState(Types, Len(got))
           base == [matched |-> {}, per |-> per]
           q == truth
           step == [x \in A \X (1..n) |-> ScoreOne(got, x[1], q[x[2]])]
           Folds(it) == it = [t \in SUBSET (1..n) |->
                                IF t = {} THEN base
                                ELSE ScoreOne(got, it[t \ {Max(t)}], q[Max(t)])]
           g == CHOOSE it : Folds(it)
<1>1. n \in Nat /\ base \in A /\ DOMAIN q = 1..n
  BY DEF ScoreState
<1>3. \A x \in A, k \in 1..n : ScoreOne(got, x, q[k]) \in A
  BY SpanStep DEF OneSpan
<1>2. ScoreHits(per, truth, got) = g[1..n]
  <2>1. ScoreHits(per, truth, got) = (CHOOSE it : it = [t \in SUBSET DOMAIN q |->
                               IF t = {} THEN base
                               ELSE ScoreOne(got, it[t \ {Max(t)}], q[Max(t)])])[DOMAIN q]
    BY Zenon DEF ScoreHits, FoldLeft, MapThenFoldSet
  <2> HIDE DEF n, q, base
  <2> QED BY <1>1, <2>1, Zenon
<1>4. step \in [A \X (1..n) -> A]
  <2>1. ASSUME NEW x \in A \X (1..n) PROVE ScoreOne(got, x[1], q[x[2]]) \in A
    <3>1. x[1] \in A /\ x[2] \in 1..n
      OBVIOUS
    <3> HIDE DEF A, q, n
    <3> QED BY <1>3, <3>1
  <2> QED BY <2>1
<1> HIDE DEF A, base, q, n
<1>5. \A t \in SUBSET (1..n) : t # {} => Max(t) \in 1..n
  BY <1>1, GreatestIn
<1>6. \A x \in A, k \in 1..n : step[<<x, k>>] = ScoreOne(got, x, q[k])
  OBVIOUS
<1> HIDE DEF step
<1>7. PICK it \in [SUBSET (1..n) -> A] : LeftFold(it, n, base, step)
  BY <1>1, <1>4, LeftFoldExists
<1>8. Folds(it)
  <2>1. ASSUME NEW t \in SUBSET (1..n)
        PROVE  it[t] = IF t = {} THEN base
                       ELSE ScoreOne(got, it[t \ {Max(t)}], q[Max(t)])
    <3>1. it[t \ {Max(t)}] \in A
      BY <1>7
    <3>2. it[t] = IF t = {} THEN base ELSE step[<<it[t \ {Max(t)}], Max(t)>>]
      BY <1>7 DEF LeftFold
    <3> QED BY <1>5, <1>6, <3>1, <3>2
  <2> QED BY <2>1
<1>9. Folds(g)
  <2> HIDE DEF Folds
  <2> QED BY <1>8
<1> HIDE DEF g
<1>10. \A t \in SUBSET (1..n) :
         g[t] = IF t = {} THEN base ELSE ScoreOne(got, g[t \ {Max(t)}], q[Max(t)])
  BY <1>9
<1>11. g[{}] = base
  <2>1. {} \in SUBSET (1..n)
    OBVIOUS
  <2> QED BY <1>10, <2>1
<1>12. \A t \in SUBSET (1..n) : t # {} /\ g[t \ {Max(t)}] \in A =>
         g[t] = step[<<g[t \ {Max(t)}], Max(t)>>]
  BY <1>5, <1>6, <1>10
<1>13. ActsLike(g, n, A, base, step)
  BY <1>11, <1>12 DEF ActsLike
<1>14. PICK f \in [0..n -> A] : StepsOf(f, n, base, step) /\ f[n] = g[1..n]
  <2>1. n \in Nat /\ base \in A
    BY <1>1
  <2>2. GoesThrough(g, n, A, base, step)
    BY <1>4, <1>13, <2>1, LeftSteps, Zenon
  <2> QED BY <2>2 DEF GoesThrough
<1>15. f[0] = base /\ \A k \in 1..n : f[k] = step[<<f[k - 1], k>>]
  BY <1>14 DEF StepsOf
<1>16. \A k \in 1..n : f[k] = ScoreOne(got, f[k - 1], q[k])
  <2> SUFFICES ASSUME NEW k \in 1..n PROVE f[k] = ScoreOne(got, f[k - 1], q[k])
    OBVIOUS
  <2>1. k - 1 \in 0..n
    BY <1>1
  <2>2. f[k - 1] \in A
    BY <2>1
  <2> QED BY <1>6, <1>15, <2>2
<1>17. \A k \in 1..n : q[k] = truth[k]
  BY DEF q, n
<1> QED BY <1>2, <1>14, <1>15, <1>16, <1>17 DEF n, A, base

\* And the detections.
LEMMA RestSteps ==
  ASSUME NEW S, NEW got \in Seq(S), NEW Types, NEW per \in PerType(Types), NEW matched
  PROVE  \E f \in [0..Len(got) -> PerType(Types)] :
           /\ f[0] = per
           /\ \A k \in 1..Len(got) : f[k] = ScoreRest(got, matched, f[k - 1], k)
           /\ ScoreEnd(matched, per, got) = f[Len(got)]
<1> DEFINE n == Len(got)
           A == PerType(Types)
           base == per
           q == [i \in DOMAIN got |-> i]
           step == [x \in A \X (1..n) |-> ScoreRest(got, matched, x[1], q[x[2]])]
           Folds(it) == it = [t \in SUBSET (1..n) |->
                                IF t = {} THEN base
                                ELSE ScoreRest(got, matched, it[t \ {Max(t)}], q[Max(t)])]
           g == CHOOSE it : Folds(it)
<1>1. n \in Nat /\ base \in A /\ DOMAIN q = 1..n
  OBVIOUS
<1>3. \A x \in A, k \in 1..n : ScoreRest(got, matched, x, q[k]) \in A
  <2> SUFFICES ASSUME NEW x \in PerType(Types), NEW k \in 1..n
               PROVE  ScoreRest(got, matched, x, q[k]) \in PerType(Types)
    OBVIOUS
  <2>1. [x EXCEPT ![got[q[k]].type].fp = @ + 1] \in PerType(Types)
    BY OneMore, Zenon DEF MoreIn
  <2> QED BY <2>1 DEF ScoreRest
<1>2. ScoreEnd(matched, per, got) = g[1..n]
  <2>1. ScoreEnd(matched, per, got) = (CHOOSE it : it = [t \in SUBSET DOMAIN q |->
                               IF t = {} THEN base
                               ELSE ScoreRest(got, matched, it[t \ {Max(t)}], q[Max(t)])])[DOMAIN q]
    BY Zenon DEF ScoreEnd, FoldLeft, MapThenFoldSet
  <2> HIDE DEF n, q, base
  <2> QED BY <1>1, <2>1, Zenon
<1>4. step \in [A \X (1..n) -> A]
  <2>1. ASSUME NEW x \in A \X (1..n) PROVE ScoreRest(got, matched, x[1], q[x[2]]) \in A
    <3>1. x[1] \in A /\ x[2] \in 1..n
      OBVIOUS
    <3> HIDE DEF A, q, n
    <3> QED BY <1>3, <3>1
  <2> QED BY <2>1
<1> HIDE DEF A, base, q, n
<1>5. \A t \in SUBSET (1..n) : t # {} => Max(t) \in 1..n
  BY <1>1, GreatestIn
<1>6. \A x \in A, k \in 1..n : step[<<x, k>>] = ScoreRest(got, matched, x, q[k])
  OBVIOUS
<1> HIDE DEF step
<1>7. PICK it \in [SUBSET (1..n) -> A] : LeftFold(it, n, base, step)
  BY <1>1, <1>4, LeftFoldExists
<1>8. Folds(it)
  <2>1. ASSUME NEW t \in SUBSET (1..n)
        PROVE  it[t] = IF t = {} THEN base
                       ELSE ScoreRest(got, matched, it[t \ {Max(t)}], q[Max(t)])
    <3>1. it[t \ {Max(t)}] \in A
      BY <1>7
    <3>2. it[t] = IF t = {} THEN base ELSE step[<<it[t \ {Max(t)}], Max(t)>>]
      BY <1>7 DEF LeftFold
    <3> QED BY <1>5, <1>6, <3>1, <3>2
  <2> QED BY <2>1
<1>9. Folds(g)
  <2> HIDE DEF Folds
  <2> QED BY <1>8
<1> HIDE DEF g
<1>10. \A t \in SUBSET (1..n) :
         g[t] = IF t = {} THEN base ELSE ScoreRest(got, matched, g[t \ {Max(t)}], q[Max(t)])
  BY <1>9
<1>11. g[{}] = base
  <2>1. {} \in SUBSET (1..n)
    OBVIOUS
  <2> QED BY <1>10, <2>1
<1>12. \A t \in SUBSET (1..n) : t # {} /\ g[t \ {Max(t)}] \in A =>
         g[t] = step[<<g[t \ {Max(t)}], Max(t)>>]
  BY <1>5, <1>6, <1>10
<1>13. ActsLike(g, n, A, base, step)
  BY <1>11, <1>12 DEF ActsLike
<1>14. PICK f \in [0..n -> A] : StepsOf(f, n, base, step) /\ f[n] = g[1..n]
  <2>1. n \in Nat /\ base \in A
    BY <1>1
  <2>2. GoesThrough(g, n, A, base, step)
    BY <1>4, <1>13, <2>1, LeftSteps, Zenon
  <2> QED BY <2>2 DEF GoesThrough
<1>15. f[0] = base /\ \A k \in 1..n : f[k] = step[<<f[k - 1], k>>]
  BY <1>14 DEF StepsOf
<1>16. \A k \in 1..n : f[k] = ScoreRest(got, matched, f[k - 1], q[k])
  <2> SUFFICES ASSUME NEW k \in 1..n PROVE f[k] = ScoreRest(got, matched, f[k - 1], q[k])
    OBVIOUS
  <2>1. k - 1 \in 0..n
    BY <1>1
  <2>2. f[k - 1] \in A
    BY <2>1
  <2> QED BY <1>6, <1>15, <2>2
<1>17. \A k \in 1..n : q[k] = k
  BY DEF q, n
<1> QED BY <1>2, <1>14, <1>15, <1>16, <1>17 DEF n, A, base

\* The members of P up to a place.
Upto(P, k) == { i \in 1..k : i \in P }

LEMMA UptoStep ==
  ASSUME NEW P, NEW k \in Nat
  PROVE  /\ IsFiniteSet(Upto(P, k)) /\ Cardinality(Upto(P, k)) \in Nat
         /\ Upto(P, 0) = {}
         /\ k > 0 => Cardinality(Upto(P, k))
                       = Cardinality(Upto(P, k - 1)) + (IF k \in P THEN 1 ELSE 0)
<1>1. \A j \in Nat : IsFiniteSet(Upto(P, j)) /\ Cardinality(Upto(P, j)) \in Nat
  <2> SUFFICES ASSUME NEW j \in Nat
               PROVE  IsFiniteSet(Upto(P, j)) /\ Cardinality(Upto(P, j)) \in Nat
    OBVIOUS
  <2>1. IsFiniteSet(1..j) /\ Upto(P, j) \in SUBSET (1..j)
    BY FS_Interval DEF Upto
  <2>2. IsFiniteSet(Upto(P, j))
    BY <2>1, FS_Subset
  <2> QED BY <2>2, FS_CardinalityType
<1>2. Upto(P, 0) = {}
  BY DEF Upto
<1>3. ASSUME k > 0
      PROVE  Cardinality(Upto(P, k))
               = Cardinality(Upto(P, k - 1)) + (IF k \in P THEN 1 ELSE 0)
  <2> DEFINE a == Upto(P, k - 1)
  <2>1. k \notin a /\ Upto(P, k) = IF k \in P THEN a \union {k} ELSE a
    BY <1>3 DEF Upto
  <2>2. IsFiniteSet(a) /\ Cardinality(a) \in Nat
    BY <1>1, <1>3
  <2> HIDE DEF a
  <2>3. Cardinality(a \union {k}) = Cardinality(a) + 1
    BY <2>1, <2>2, FS_AddElement
  <2> QED BY <2>1, <2>2, <2>3 DEF a
<1> QED BY <1>1, <1>2, <1>3

OfType(spans, T) == { i \in DOMAIN spans : spans[i].type = T }

\* The true spans and detections of a type that meet.
Meeting(truth, got, T) ==
  { p \in (DOMAIN truth) \X (DOMAIN got) :
      /\ truth[p[1]].type = T /\ got[p[2]].type = T
      /\ overlap(truth[p[1]], got[p[2]]) }

\* The detections of a type that were taken.
TakenIn(f, got, T, n) == [k \in 0..n |-> { j \in f[k].matched : got[j].type = T }]

\* f goes through the true spans.
GoesOver(f, per, truth, got, Types) ==
  /\ f \in [0..Len(truth) -> ScoreState(Types, Len(got))]
  /\ f[0] = [matched |-> {}, per |-> per]
  /\ \A k \in 1..Len(truth) : f[k] = ScoreOne(got, f[k - 1], truth[k])

\* What is taken is taken greedily.
LEMMA TakenGreedily ==
  ASSUME NEW S, NEW got \in Seq(S), NEW U, NEW truth \in Seq(U), NEW Types,
         NEW per \in PerType(Types), NEW f, GoesOver(f, per, truth, got, Types), NEW T \in Types
  PROVE  Greedy(TakenIn(f, got, T, Len(truth)), Len(truth), Len(got), Meeting(truth, got, T))
<1> DEFINE n == Len(truth)
           m == Len(got)
           R == Meeting(truth, got, T)
           M == TakenIn(f, got, T, n)
<1>1. n \in Nat /\ m \in Nat /\ DOMAIN truth = 1..n /\ DOMAIN got = 1..m
  OBVIOUS
<1> HIDE DEF n, m
<1>2. /\ f \in [0..n -> ScoreState(Types, m)]
      /\ f[0] = [matched |-> {}, per |-> per]
      /\ \A k \in 1..n : f[k] = ScoreOne(got, f[k - 1], truth[k])
  BY DEF GoesOver, n, m
<1>3. \A k \in 0..n : M[k] = { j \in f[k].matched : got[j].type = T } /\ f[k].matched \in SUBSET (1..m)
  BY <1>2 DEF TakenIn, ScoreState
<1>4. M \in [0..n -> SUBSET (1..m)]
  <2>1. M = [k \in 0..n |-> M[k]]
    BY DEF TakenIn
  <2> HIDE DEF M
  <2>2. \A k \in 0..n : M[k] \in SUBSET (1..m)
    BY <1>3
  <2> QED BY <2>1, <2>2
<1> HIDE DEF M
<1>5. M[0] = {}
  BY <1>1, <1>2, <1>3
<1>6. ASSUME NEW k \in 1..n
      PROVE  LET free == { j \in 1..m : <<k, j>> \in R /\ j \notin M[k - 1] } IN
             M[k] = IF free = {} THEN M[k - 1] ELSE M[k - 1] \union {Min(free)}
  <2> DEFINE s == f[k - 1]
             t == truth[k]
             r == f[k]
             hits == Hits(got, s.matched, t)
             free == { j \in 1..m : <<k, j>> \in R /\ j \notin M[k - 1] }
  <2>1. k - 1 \in 0..n /\ k \in 0..n
    BY <1>1
  <2>2. s \in ScoreState(Types, m) /\ r = ScoreOne(got, s, t)
    BY <1>2, <2>1
  <2>3. OneSpan(got, s, t, r, Types, m)
    <3> HIDE DEF s, t, r
    <3> QED BY <2>2, SpanStep DEF m
  <2>4. /\ M[k - 1] = { j \in s.matched : got[j].type = T }
        /\ M[k] = { j \in r.matched : got[j].type = T }
    BY <1>3, <2>1
  <2>5. /\ hits = {} => r.matched = s.matched
        /\ hits # {} => r.matched = s.matched \union {Min(hits)} /\ Min(hits) \in hits
    BY <2>3, Zenon DEF OneSpan
  <2>6. \A j : j \in hits <=> /\ j \in 1..m /\ j \notin s.matched /\ got[j].type = t.type
                              /\ overlap(got[j], t)
    BY <1>1 DEF Hits
  <2>7. \A j : <<k, j>> \in R <=> /\ j \in 1..m /\ t.type = T /\ got[j].type = T
                                  /\ overlap(got[j], t)
    BY <1>1 DEF Meeting, overlap
  <2> HIDE DEF s, t, r, hits, R
  <2>8. CASE t.type = T
    <3>1. free = hits
      BY <2>4, <2>6, <2>7, <2>8
    <3>2. hits # {} => got[Min(hits)].type = T
      BY <2>5, <2>6, <2>8
    <3> HIDE DEF free
    <3>3. CASE hits = {}
      BY <2>4, <2>5, <3>1, <3>3 DEF free
    <3>4. CASE hits # {}
      <4>1. M[k] = M[k - 1] \union {Min(hits)}
        BY <2>4, <2>5, <3>2, <3>4
      <4>2. M[k] = IF free = {} THEN M[k - 1] ELSE M[k - 1] \union {Min(free)}
        BY <3>1, <3>4, <4>1
      <4> QED BY <4>2, Zenon DEF free
    <3> QED BY <3>3, <3>4
  <2>9. CASE t.type # T
    <3>1. free = {}
      BY <2>7, <2>9
    <3>2. hits # {} => got[Min(hits)].type # T
      BY <2>5, <2>6, <2>9
    <3>3. M[k] = M[k - 1]
      <4>1. CASE hits = {}
        BY <2>4, <2>5, <4>1
      <4>2. CASE hits # {}
        BY <2>4, <2>5, <3>2, <4>2
      <4> QED BY <4>1, <4>2
    <3> QED BY <3>1, <3>3
  <2> QED BY <2>8, <2>9
<1>7. Greedy(M, n, m, R)
  BY <1>4, <1>5, <1>6, Zenon DEF Greedy
<1> QED BY <1>7 DEF M, n, m, R

\* True positives are those taken, false negatives the other true spans.
LEMMA HitsCounted ==
  ASSUME NEW S, NEW got \in Seq(S), NEW U, NEW truth \in Seq(U), NEW Types,
         NEW per \in PerType(Types), NEW f, GoesOver(f, per, truth, got, Types), NEW T \in Types,
         NEW M, M = TakenIn(f, got, T, Len(truth)),
         NEW k \in 0..Len(truth)
  PROVE  /\ Cardinality(M[k]) \in Nat
         /\ f[k].per[T].tp = per[T].tp + Cardinality(M[k])
         /\ f[k].per[T].fn
              = per[T].fn + Cardinality(Upto(OfType(truth, T), k)) - Cardinality(M[k])
         /\ f[k].per[T].fp = per[T].fp
<1> DEFINE n == Len(truth)
           m == Len(got)
           P == OfType(truth, T)
           C(j) == Cardinality(M[j])
           N(j) == Cardinality(Upto(P, j))
           H(j) == /\ f[j].per[T].tp = per[T].tp + C(j)
                   /\ f[j].per[T].fn = per[T].fn + N(j) - C(j)
                   /\ f[j].per[T].fp = per[T].fp
           Q == { j \in 0..n : H(j) }
<1>1. n \in Nat /\ m \in Nat /\ DOMAIN truth = 1..n /\ DOMAIN got = 1..m
  OBVIOUS
<1> HIDE DEF n, m
<1>2. /\ f \in [0..n -> ScoreState(Types, m)]
      /\ f[0] = [matched |-> {}, per |-> per]
      /\ \A j \in 1..n : f[j] = ScoreOne(got, f[j - 1], truth[j])
  BY DEF GoesOver, n, m
<1>3. \A j \in 0..n : /\ M[j] = { i \in f[j].matched : got[i].type = T }
                      /\ f[j].matched \in SUBSET (1..m) /\ f[j].per \in PerType(Types)
                      /\ f[j].per[T] \in Metrics
  BY <1>2 DEF TakenIn, ScoreState, PerType, n
<1>4. \A j \in 0..n : IsFiniteSet(M[j]) /\ C(j) \in Nat
  <2> SUFFICES ASSUME NEW j \in 0..n PROVE IsFiniteSet(M[j]) /\ C(j) \in Nat
    OBVIOUS
  <2>1. IsFiniteSet(1..m) /\ M[j] \in SUBSET (1..m)
    <3>1. IsFiniteSet(1..m)
      BY <1>1, FS_Interval
    <3> QED BY <1>3, <3>1
  <2>2. IsFiniteSet(M[j])
    BY <2>1, FS_Subset
  <2> QED BY <2>2, FS_CardinalityType
<1>5. per[T] \in Metrics /\ per[T].tp \in Int /\ per[T].fn \in Int /\ per[T].fp \in Int
  BY DEF PerType, Metrics
<1>6. \A j \in 0..n : N(j) \in Nat
  BY <1>1, UptoStep
<1>7. 0 \in Q
  <2>1. M[0] = {} /\ 0 \in 0..n /\ f[0].per = per
    BY <1>1, <1>2, <1>3
  <2>2. C(0) = 0 /\ N(0) = 0
    BY <2>1, UptoStep, FS_EmptySet
  <2> HIDE DEF C, N
  <2> QED BY <1>5, <2>1, <2>2
<1>8. ASSUME NEW i \in 0..(n - 1), i \in Q PROVE i + 1 \in Q
  <2> DEFINE j == i + 1
             s == f[i]
             t == truth[j]
             r == f[j]
             hits == Hits(got, s.matched, t)
  <2>1. j \in 1..n /\ j \in 0..n /\ i \in 0..n /\ j - 1 = i /\ j > 0 /\ j \in Nat
    BY <1>1
  <2>2. s \in ScoreState(Types, m) /\ r = ScoreOne(got, s, t)
    BY <1>2, <2>1
  <2>3. OneSpan(got, s, t, r, Types, m)
    <3> HIDE DEF s, t, r
    <3> QED BY <2>2, SpanStep DEF m
  <2>4. /\ M[i] = { x \in s.matched : got[x].type = T }
        /\ M[j] = { x \in r.matched : got[x].type = T }
        /\ IsFiniteSet(M[i]) /\ C(i) \in Nat /\ N(i) \in Nat
    BY <1>3, <1>4, <1>6, <2>1
  <2>5. \A x : x \in hits <=> /\ x \in 1..m /\ x \notin s.matched /\ got[x].type = t.type
                              /\ overlap(got[x], t)
    BY <1>1 DEF Hits
  <2>6. H(i)
    BY <1>8
  <2>7. N(j) = N(i) + (IF t.type = T THEN 1 ELSE 0)
    <3>1. j \in P <=> t.type = T
      BY <1>1, <2>1 DEF OfType
    <3> HIDE DEF P, t, j
    <3> QED BY <2>1, <3>1, UptoStep
  <2>8. /\ hits = {} => /\ r.matched = s.matched
                        /\ r.per[T] = IF t.type = T THEN [s.per[T] EXCEPT !.fn = @ + 1] ELSE s.per[T]
        /\ hits # {} => /\ r.matched = s.matched \union {Min(hits)} /\ Min(hits) \in hits
                        /\ r.per[T] = IF t.type = T THEN [s.per[T] EXCEPT !.tp = @ + 1] ELSE s.per[T]
    BY <2>3, Zenon DEF OneSpan
  <2>9. s.per[T] \in Metrics
    BY <1>3, <2>1
  <2>0. j \in Q <=> H(j)
    BY <2>1
  <2> HIDE DEF Q
  <2> HIDE DEF j, s, t, r, hits
  <2>10. CASE t.type # T
    <3>1. r.per[T] = s.per[T] /\ M[j] = M[i]
      <4>1. CASE hits = {}
        BY <2>4, <2>8, <2>10, <4>1
      <4>2. CASE hits # {}
        <5>1. got[Min(hits)].type # T
          BY <2>5, <2>8, <2>10, <4>2
        <5>2. r.matched = s.matched \union {Min(hits)} /\ r.per[T] = s.per[T]
          BY <2>8, <2>10, <4>2
        <5> QED BY <2>4, <5>1, <5>2
      <4> QED BY <4>1, <4>2
    <3>2. N(j) = N(i) /\ C(j) = C(i)
      <4>1. N(j) = N(i) + 0 /\ N(i) \in Nat
        BY <2>4, <2>7, <2>10
      <4> HIDE DEF N
      <4>2. N(j) = N(i)
        BY <4>1
      <4> QED BY <3>1, <4>2
    <3>3. H(j)
      <4> HIDE DEF C, N
      <4> QED BY <2>6, <3>1, <3>2 DEF r, s
    <3> QED BY <2>0, <3>3 DEF j
  <2>11. CASE t.type = T /\ hits = {}
    <3>1. r.per[T] = [s.per[T] EXCEPT !.fn = @ + 1] /\ M[j] = M[i]
      BY <2>4, <2>8, <2>11
    <3>2. r.per[T].tp = s.per[T].tp /\ r.per[T].fn = s.per[T].fn + 1 /\ r.per[T].fp = s.per[T].fp
      BY <2>9, <3>1 DEF Metrics
    <3>3. N(j) = N(i) + 1 /\ C(j) = C(i)
      BY <2>4, <2>7, <2>11, <3>1
    <3>4. H(j)
      <4>1. s.per[T].tp = per[T].tp + C(i) /\ s.per[T].fn = per[T].fn + N(i) - C(i)
            /\ s.per[T].fp = per[T].fp
        BY <2>6, Zenon DEF s
      <4> HIDE DEF C, N
      <4>2. r.per[T].tp = per[T].tp + C(j) /\ r.per[T].fp = per[T].fp
        BY <3>2, <3>3, <4>1
      <4>3. r.per[T].fn = per[T].fn + N(j) - C(j)
        <5>1. \A a, b, c \in Int : a + b - c + 1 = a + (b + 1) - c
          OBVIOUS
        <5>2. per[T].fn \in Int /\ N(i) \in Int /\ C(i) \in Int
          BY <1>5, <2>4
        <5>3. per[T].fn + N(i) - C(i) + 1 = per[T].fn + (N(i) + 1) - C(i)
          BY <5>1, <5>2, Zenon
        <5>4. r.per[T].fn = per[T].fn + N(i) - C(i) + 1
          BY <3>2, <4>1, Zenon
        <5>5. r.per[T].fn = per[T].fn + (N(i) + 1) - C(i)
          BY <5>3, <5>4, Zenon
        <5> QED BY <3>3, <5>5, Zenon
      <4> QED BY <4>2, <4>3, Zenon DEF r
    <3> QED BY <2>0, <3>4 DEF j
  <2>12. CASE t.type = T /\ hits # {}
    <3>1. r.per[T] = [s.per[T] EXCEPT !.tp = @ + 1]
      BY <2>8, <2>12
    <3>2. r.per[T].tp = s.per[T].tp + 1 /\ r.per[T].fn = s.per[T].fn /\ r.per[T].fp = s.per[T].fp
      BY <2>9, <3>1 DEF Metrics
    <3>3. M[j] = M[i] \union {Min(hits)} /\ Min(hits) \notin M[i]
      <4>1. got[Min(hits)].type = T /\ Min(hits) \notin s.matched
        BY <2>5, <2>8, <2>12
      <4>2. r.matched = s.matched \union {Min(hits)}
        BY <2>8, <2>12
      <4> QED BY <2>4, <4>1, <4>2
    <3>4. C(j) = C(i) + 1
      BY <2>4, <3>3, FS_AddElement
    <3>5. N(j) = N(i) + 1
      BY <2>7, <2>12
    <3>6. H(j)
      <4>1. s.per[T].tp = per[T].tp + C(i) /\ s.per[T].fn = per[T].fn + N(i) - C(i)
            /\ s.per[T].fp = per[T].fp
        BY <2>6, Zenon DEF s
      <4> HIDE DEF C, N
      <4>2. per[T].fn \in Int /\ per[T].tp \in Int /\ N(i) \in Int /\ C(i) \in Int
        BY <1>5, <2>4
      <4>3. r.per[T].tp = per[T].tp + C(j)
        <5>1. \A a, c \in Int : a + c + 1 = a + (c + 1)
          OBVIOUS
        <5> QED BY <3>2, <3>4, <4>1, <4>2, <5>1, Zenon
      <4>4. r.per[T].fn = per[T].fn + N(j) - C(j)
        <5>1. \A a, b, c \in Int : a + b - c = a + (b + 1) - (c + 1)
          OBVIOUS
        <5>2. per[T].fn + N(i) - C(i) = per[T].fn + (N(i) + 1) - (C(i) + 1)
          BY <4>2, <5>1, Zenon
        <5>3. r.per[T].fn = per[T].fn + (N(i) + 1) - (C(i) + 1)
          BY <3>2, <4>1, <5>2, Zenon
        <5> QED BY <3>4, <3>5, <5>3, Zenon
      <4> QED BY <3>2, <4>1, <4>3, <4>4, Zenon DEF r
    <3> QED BY <2>0, <3>6 DEF j
  <2> QED BY <2>10, <2>11, <2>12
<1>9. \A j \in 0..n : j \in Q
  <2> HIDE DEF Q
  <2> QED BY <1>1, <1>7, <1>8, InductionUpTo
<1>10. k \in 0..n
  BY DEF n
<1> QED BY <1>4, <1>9, <1>10

\* g goes through the detections.
GoesOverRest(g, matched, per, got, Types) ==
  /\ g \in [0..Len(got) -> PerType(Types)]
  /\ g[0] = per
  /\ \A k \in 1..Len(got) : g[k] = ScoreRest(got, matched, g[k - 1], k)

\* False positives are the detections nobody took.
LEMMA RestsCounted ==
  ASSUME NEW S, NEW got \in Seq(S), NEW Types, NEW per \in PerType(Types), NEW matched,
         NEW g, GoesOverRest(g, matched, per, got, Types), NEW T \in Types,
         NEW M, M = { j \in matched : got[j].type = T }, NEW k \in 0..Len(got)
  PROVE  /\ g[k][T].tp = per[T].tp
         /\ g[k][T].fn = per[T].fn
         /\ g[k][T].fp
              = per[T].fp + Cardinality(Upto(OfType(got, T), k)) - Cardinality(Upto(M, k))
<1> DEFINE m == Len(got)
           P == OfType(got, T)
           C(j) == Cardinality(Upto(M, j))
           N(j) == Cardinality(Upto(P, j))
           H(j) == /\ g[j][T].tp = per[T].tp
                   /\ g[j][T].fn = per[T].fn
                   /\ g[j][T].fp = per[T].fp + N(j) - C(j)
           Q == { j \in 0..m : H(j) }
<1>1. m \in Nat /\ DOMAIN got = 1..m
  OBVIOUS
<1> HIDE DEF m
<1>2. /\ g \in [0..m -> PerType(Types)] /\ g[0] = per
      /\ \A j \in 1..m : g[j] = ScoreRest(got, matched, g[j - 1], j)
  BY DEF GoesOverRest, m
<1>3. \A j \in 0..m : g[j] \in PerType(Types) /\ g[j][T] \in Metrics
  BY <1>2 DEF PerType
<1>4. per[T].tp \in Int /\ per[T].fn \in Int /\ per[T].fp \in Int
  BY DEF PerType, Metrics
<1>5. \A j \in 0..m : N(j) \in Nat /\ C(j) \in Nat
  BY <1>1, UptoStep
<1>6. 0 \in Q
  <2>1. 0 \in 0..m
    BY <1>1
  <2>2. C(0) = 0 /\ N(0) = 0
    BY UptoStep, FS_EmptySet
  <2> HIDE DEF C, N
  <2> QED BY <1>2, <1>4, <2>1, <2>2
<1>7. ASSUME NEW i \in 0..(m - 1), i \in Q PROVE i + 1 \in Q
  <2> DEFINE j == i + 1
             p == g[i]
             r == g[j]
             t == got[j].type
  <2>1. j \in 1..m /\ j \in 0..m /\ i \in 0..m /\ j - 1 = i /\ j > 0 /\ j \in Nat
    BY <1>1
  <2>2. p \in PerType(Types) /\ r = ScoreRest(got, matched, p, j) /\ p[T] \in Metrics
    BY <1>2, <1>3, <2>1
  <2>3. H(i)
    BY <1>7
  <2>4. j \in Q <=> H(j)
    BY <2>1
  <2>5. (j \in P <=> t = T) /\ (j \in M <=> j \in matched /\ t = T)
    BY <1>1, <2>1 DEF OfType
  <2>6. N(i) \in Int /\ C(i) \in Int
    BY <1>5, <2>1
  <2> HIDE DEF P, Q
  <2>7. /\ N(j) = N(i) + (IF j \in P THEN 1 ELSE 0)
        /\ C(j) = C(i) + (IF j \in M THEN 1 ELSE 0)
    <3> HIDE DEF j
    <3> QED BY <2>1, UptoStep
  <2>8. p[T].tp = per[T].tp /\ p[T].fn = per[T].fn /\ p[T].fp = per[T].fp + N(i) - C(i)
    BY <2>3, Zenon
  <2> HIDE DEF j, p, r, t, N, C
  <2>9. CASE j \in matched
    <3>1. r = p
      BY <2>2, <2>9 DEF ScoreRest
    <3>2. N(j) - C(j) = N(i) - C(i)
      BY <2>5, <2>6, <2>7, <2>9
    <3>3. per[T].fp + N(j) - C(j) = per[T].fp + N(i) - C(i)
      <4>1. N(j) \in Int /\ C(j) \in Int
        BY <2>6, <2>7
      <4> QED BY <1>4, <2>6, <3>2, <4>1
    <3>4. H(j)
      BY <2>8, <3>1, <3>3, Zenon DEF r
    <3> QED BY <2>4, <3>4 DEF j
  <2>10. CASE j \notin matched
    <3>1. r = [p EXCEPT ![t].fp = @ + 1]
      BY <2>2, <2>10 DEF ScoreRest, t
    <3>2. MoreIn(p, r, t, [p[t] EXCEPT !.fp = @ + 1], Types)
      <4>1. MoreIn(p, [p EXCEPT ![t].fp = @ + 1], t, [p[t] EXCEPT !.fp = @ + 1], Types)
        BY <2>2, OneMore, Zenon
      <4> QED BY <3>1, <4>1, Zenon
    <3>3. C(j) = C(i)
      <4>1. C(j) = C(i) + 0
        BY <2>5, <2>7, <2>10
      <4> QED BY <2>6, <4>1
    <3>4. CASE t # T
      <4>1. r[T] = p[T]
        BY <3>2, <3>4 DEF MoreIn
      <4>2. N(j) = N(i)
        <5>1. N(j) = N(i) + 0
          BY <2>5, <2>7, <3>4
        <5> QED BY <2>6, <5>1
      <4>3. H(j)
        BY <2>8, <3>3, <4>1, <4>2, Zenon DEF r
      <4> QED BY <2>4, <4>3 DEF j
    <3>5. CASE t = T
      <4>1. r[T] = [p[T] EXCEPT !.fp = @ + 1]
        BY <3>2, <3>5 DEF MoreIn
      <4>2. r[T].tp = p[T].tp /\ r[T].fn = p[T].fn /\ r[T].fp = p[T].fp + 1
        BY <2>2, <4>1 DEF Metrics
      <4>3. N(j) = N(i) + 1
        BY <2>5, <2>7, <3>5
      <4>4. per[T].fp + N(i) - C(i) + 1 = per[T].fp + (N(i) + 1) - C(i)
        BY <1>4, <2>6
      <4>5. r[T].fp = per[T].fp + N(j) - C(j)
        BY <2>8, <3>3, <4>2, <4>3, <4>4, Zenon
      <4>6. H(j)
        BY <2>8, <4>2, <4>5, Zenon DEF r
      <4> QED BY <2>4, <4>6 DEF j
    <3> QED BY <3>4, <3>5
  <2> QED BY <2>9, <2>10
<1>8. \A j \in 0..m : j \in Q
  <2> HIDE DEF Q
  <2> QED BY <1>1, <1>6, <1>7, InductionUpTo
<1>9. k \in 0..m
  BY DEF m
<1> QED BY <1>8, <1>9

LEMMA GreatestIs ==
  ASSUME NEW A, NEW c \in A, \A x \in A : x \in Int /\ x <= c
  PROVE  Max(A) = c
<1>1. Max(A) \in A /\ \A y \in A : Max(A) >= y
  BY DEF Max
<1> QED BY <1>1

\* Spans of integers.
Marks(A) == \A x \in A : x.start \in Int /\ x.end \in Int

\* In one of the two cases the pairing is a best one.
LEMMA TakenIsBest ==
  ASSUME NEW S, NEW got \in Seq(S), Marks(S), NEW U, NEW truth \in Seq(U), Marks(U), NEW T,
         NEW M, Greedy(M, Len(truth), Len(got), Meeting(truth, got, T)),
         \/ InOrder(truth) /\ InOrder(got)
         \/ OneEach(truth, got)
  PROVE  Cardinality(M[Len(truth)]) = BestMatching(truth, got, T)
<1> DEFINE n == Len(truth)
           m == Len(got)
           R == Meeting(truth, got, T)
           Ms == { X \in SUBSET R : \A p, q \in X : p # q => p[1] # q[1] /\ p[2] # q[2] }
           c == Cardinality(M[n])
<1>1. n \in Nat /\ m \in Nat /\ DOMAIN truth = 1..n /\ DOMAIN got = 1..m /\ n \in 0..n
  OBVIOUS
<1>2. BestMatching(truth, got, T) = Max({ Cardinality(X) : X \in Ms })
  BY Zenon DEF BestMatching, Meeting
<1>3. /\ \A i \in 1..n : truth[i].start \in Int /\ truth[i].end \in Int
      /\ \A j \in 1..m : got[j].start \in Int /\ got[j].end \in Int
  BY <1>1 DEF Marks
<1> HIDE DEF n, m
<1>4. R \in SUBSET ((1..n) \X (1..m))
  BY <1>1 DEF Meeting
<1>5. \A p \in R : /\ p[1] \in 1..n /\ p[2] \in 1..m
                   /\ truth[p[1]].type = T /\ got[p[2]].type = T
                   /\ truth[p[1]].start < got[p[2]].end /\ got[p[2]].start < truth[p[1]].end
  BY <1>1 DEF Meeting, overlap
<1> HIDE DEF R
<1>6. Greedy(M, n, m, R)
  BY DEF n, m, R
<1>7. ASSUME InOrder(truth), InOrder(got) PROVE AtMost(M, R, n)
  <2>1. ASSUME NEW p \in R, NEW q \in R, p[1] < q[1] PROVE p[2] <= q[2]
    <3> SUFFICES ASSUME ~ (p[2] <= q[2]) PROVE FALSE
      OBVIOUS
    <3>1. truth[p[1]].end <= truth[q[1]].start
      BY <1>1, <1>5, <1>7, <2>1 DEF InOrder
    <3>2. q[2] < p[2]
      BY <1>5
    <3>3. got[q[2]].end <= got[p[2]].start
      BY <1>1, <1>5, <1>7, <3>2 DEF InOrder
    <3>4. /\ truth[q[1]].start < got[q[2]].end /\ got[p[2]].start < truth[p[1]].end
          /\ truth[q[1]].start \in Int /\ truth[p[1]].end \in Int
          /\ got[q[2]].end \in Int /\ got[p[2]].start \in Int
      BY <1>3, <1>5
    <3> QED BY <3>1, <3>3, <3>4
  <2>2. \A k \in 0..n : AtMost(M, R, k)
    BY <1>1, <1>4, <1>6, <2>1, GreedyOrdered
  <2> QED BY <1>1, <2>2
<1>8. ASSUME OneEach(truth, got) PROVE AtMost(M, R, n)
  <2>1. ASSUME NEW p \in R, NEW q \in R, p[2] = q[2] PROVE p[1] = q[1]
    <3>1. {truth[p[1]].type, truth[q[1]].type} = {got[p[2]].type}
      BY <1>5, <2>1
    <3>2. overlap(truth[p[1]], got[p[2]]) /\ overlap(truth[q[1]], got[p[2]])
      BY <1>5, <2>1 DEF overlap
    <3> QED BY <1>1, <1>5, <1>8, <3>1, <3>2 DEF OneEach
  <2>2. \A k \in 0..n : AtMost(M, R, k)
    BY <1>1, <1>4, <1>6, <2>1, GreedySingle
  <2> QED BY <1>1, <2>2
<1>9. AtMost(M, R, n)
  BY <1>7, <1>8
<1>10. Taken(M, R, n)
  BY <1>1, <1>4, <1>6, TakenPairs
<1>11. PairsTo(R, n) = R
  <2>1. \A p \in R : p[1] <= n
    BY <1>1, <1>5
  <2> QED BY <2>1 DEF PairsTo
<1>12. IsFiniteSet(R)
  <2>1. IsFiniteSet(1..n) /\ IsFiniteSet(1..m)
    BY <1>1, FS_Interval
  <2>2. IsFiniteSet((1..n) \X (1..m))
    BY <2>1, FS_Product
  <2> QED BY <1>4, <2>2, FS_Subset
<1>13. \A X \in Ms : Pairing(X) /\ IsFiniteSet(X) /\ X \in SUBSET R
  BY <1>12, FS_Subset DEF Pairing
<1>14. \A X \in Ms : Cardinality(X) \in Int /\ Cardinality(X) <= c
  <2> SUFFICES ASSUME NEW X \in Ms PROVE Cardinality(X) \in Int /\ Cardinality(X) <= c
    OBVIOUS
  <2>1. Pairing(X) /\ IsFiniteSet(X) /\ X \in SUBSET PairsTo(R, n)
    BY <1>11, <1>13
  <2> HIDE DEF Ms
  <2>2. Cardinality(X) \in Nat
    BY <2>1, FS_CardinalityType
  <2> QED BY <1>9, <2>1, <2>2 DEF AtMost
<1>15. \E X \in Ms : Cardinality(X) = c
  <2>1. PICK X \in SUBSET PairsTo(R, n) : Pairing(X) /\ Cardinality(X) = c
    BY <1>10 DEF Taken
  <2>2. X \in Ms
    BY <1>11, <2>1 DEF Pairing
  <2> QED BY <2>1, <2>2
<1> DEFINE B == { Cardinality(X) : X \in Ms }
<1> HIDE DEF Ms
<1>16. c \in B /\ \A x \in B : x \in Int /\ x <= c
  BY <1>14, <1>15
<1> HIDE DEF B, c
<1>17. Max(B) = c
  BY <1>16, GreatestIs
<1> QED BY <1>2, <1>17, Zenon DEF B, c, n

\* What scoring one sample adds under a type.
ScoreFor(q, per, truth, got, T) ==
  /\ q[T].tp + q[T].fn = per[T].tp + per[T].fn + Cardinality(OfType(truth, T))
  /\ q[T].tp + q[T].fp = per[T].tp + per[T].fp + Cardinality(OfType(got, T))
  /\ (InOrder(truth) /\ InOrder(got)) \/ OneEach(truth, got)
       => /\ BestMatching(truth, got, T) \in Int
          /\ q[T].tp = per[T].tp + BestMatching(truth, got, T)

LEMMA ScoreAdds ==
  ASSUME NEW S, NEW got \in Seq(S), NEW truth \in Seq(S), Marks(S), NEW Types,
         NEW per \in PerType(Types)
  PROVE  LET q == score(per, truth, got) IN
         /\ q \in PerType(Types)
         /\ \A T \in Types : ScoreFor(q, per, truth, got, T)
<1> DEFINE n == Len(truth)
           m == Len(got)
           h == ScoreHits(per, truth, got)
           q == score(per, truth, got)
<1>1. n \in Nat /\ m \in Nat /\ DOMAIN truth = 1..n /\ DOMAIN got = 1..m
      /\ n \in 0..n /\ m \in 0..m
  OBVIOUS
<1>2. PICK f : GoesOver(f, per, truth, got, Types) /\ h = f[n]
  BY HitSteps DEF GoesOver
<1>3. f[n] \in ScoreState(Types, m) /\ f[n].per \in PerType(Types)
      /\ f[n].matched \in SUBSET (1..m)
  BY <1>1, <1>2 DEF GoesOver, ScoreState
<1>4. q = ScoreEnd(h.matched, h.per, got)
  BY ScoreParts, Zenon
<1> HIDE DEF h, q
<1>5. PICK g : GoesOverRest(g, h.matched, h.per, got, Types) /\ q = g[m]
  BY <1>2, <1>3, <1>4, RestSteps DEF GoesOverRest
<1>6. q \in PerType(Types)
  BY <1>1, <1>5 DEF GoesOverRest
<1>7. ASSUME NEW T \in Types PROVE ScoreFor(q, per, truth, got, T)
  <2> DEFINE M == TakenIn(f, got, T, n)
             c == Cardinality(M[n])
             P == OfType(truth, T)
             D == OfType(got, T)
  <2>1. Upto(P, n) = P /\ Upto(D, m) = D
    BY <1>1 DEF Upto, OfType
  <2>2. /\ M[n] = { j \in h.matched : got[j].type = T } /\ Upto(M[n], m) = M[n]
    BY <1>1, <1>2, <1>3 DEF TakenIn, Upto
  <2>3. /\ c \in Nat
        /\ h.per[T].tp = per[T].tp + c
        /\ h.per[T].fn = per[T].fn + Cardinality(P) - c
        /\ h.per[T].fp = per[T].fp
    <3> HIDE DEF P, M
    <3>1. /\ Cardinality(M[n]) \in Nat
          /\ f[n].per[T].tp = per[T].tp + Cardinality(M[n])
          /\ f[n].per[T].fn = per[T].fn + Cardinality(Upto(P, n)) - Cardinality(M[n])
          /\ f[n].per[T].fp = per[T].fp
      BY <1>1, <1>2, HitsCounted DEF M, P, n
    <3> QED BY <1>2, <2>1, <3>1
  <2>4. /\ q[T].tp = h.per[T].tp
        /\ q[T].fn = h.per[T].fn
        /\ q[T].fp = h.per[T].fp + Cardinality(D) - c
    <3> DEFINE X == M[n]
    <3>1. X = { j \in h.matched : got[j].type = T } /\ Upto(X, m) = X
      BY <2>2
    <3> HIDE DEF D, X
    <3>2. h.per \in PerType(Types)
      BY <1>2, <1>3
    <3>3. /\ g[m][T].tp = h.per[T].tp
          /\ g[m][T].fn = h.per[T].fn
          /\ g[m][T].fp
               = h.per[T].fp + Cardinality(Upto(D, m)) - Cardinality(Upto(X, m))
      BY <1>1, <1>5, <3>1, <3>2, RestsCounted DEF D, m
    <3> QED BY <1>5, <2>1, <3>1, <3>3 DEF X
  <2>5. Cardinality(P) \in Int /\ Cardinality(D) \in Int
    BY <1>1, <2>1, UptoStep
  <2>6. per[T].tp \in Int /\ per[T].fn \in Int /\ per[T].fp \in Int
    BY DEF PerType, Metrics
  <2>7. ASSUME (InOrder(truth) /\ InOrder(got)) \/ OneEach(truth, got)
        PROVE  c = BestMatching(truth, got, T) /\ c \in Int
    <3>1. Greedy(M, n, m, Meeting(truth, got, T))
      BY <1>2, TakenGreedily
    <3> HIDE DEF M
    <3>2. c = BestMatching(truth, got, T)
      BY <2>7, <3>1, TakenIsBest DEF n, m
    <3> QED BY <2>3, <3>2
  <2> HIDE DEF P, D, c
  <2>8. q[T].tp + q[T].fn = per[T].tp + per[T].fn + Cardinality(P)
    <3>1. \A a, b, x, y \in Int : (a + x) + (b + y - x) = a + b + y
      OBVIOUS
    <3> QED BY <2>3, <2>4, <2>5, <2>6, <3>1
  <2>9. q[T].tp + q[T].fp = per[T].tp + per[T].fp + Cardinality(D)
    <3>1. \A a, b, x, y \in Int : (a + x) + (b + y - x) = a + b + y
      OBVIOUS
    <3> QED BY <2>3, <2>4, <2>5, <2>6, <3>1
  <2> QED BY <2>3, <2>4, <2>7, <2>8, <2>9, Zenon DEF ScoreFor, P, D
<1> QED BY <1>6, <1>7 DEF q

\* One sample more.
BenchOne(samples, answers, r, k) ==
  [r EXCEPT
    !.chars = @ + Len(samples[k].text),
    !.latencies = IF answers[k].err THEN @ ELSE @ + 1,
    !.perType = IF answers[k].err THEN @
                ELSE score(@, samples[k].truth, answers[k].dets)]

BenchState(Types) ==
  [samples : Int, chars : Int, latencies : Int, perType : PerType(Types)]

\* Samples and answers as they come: spans are of integers, the true ones of a
\* type follow each other.
Scorable(samples, answers, S) ==
  /\ Marks(S)
  /\ samples = [k \in 1..Len(samples) |-> samples[k]] /\ Len(samples) \in Nat
  /\ \A k \in DOMAIN samples :
       /\ Len(samples[k].text) \in Nat
       /\ samples[k].truth \in Seq(S) /\ InOrder(samples[k].truth)
       /\ answers[k].err \in BOOLEAN /\ answers[k].dets \in Seq(S)

\* What it changes.
OneSample(samples, answers, k, r, q, Types) ==
  /\ q \in BenchState(Types)
  /\ q.perType = IF answers[k].err THEN r.perType
                 ELSE score(r.perType, samples[k].truth, answers[k].dets)

LEMMA SampleStep ==
  ASSUME NEW samples, NEW answers, NEW S, Scorable(samples, answers, S), NEW Types,
         NEW k \in DOMAIN samples, NEW r \in BenchState(Types)
  PROVE  OneSample(samples, answers, k, r, BenchOne(samples, answers, r, k), Types)
<1> DEFINE e == answers[k].err
           l == Len(samples[k].text)
           z == score(r.perType, samples[k].truth, answers[k].dets)
           q == BenchOne(samples, answers, r, k)
<1>1. e \in BOOLEAN /\ l \in Nat
  BY DEF Scorable
<1>2. z \in PerType(Types)
  <2>1. samples[k].truth \in Seq(S) /\ answers[k].dets \in Seq(S) /\ Marks(S)
        /\ r.perType \in PerType(Types)
    BY DEF Scorable, BenchState
  <2> QED BY <2>1, ScoreAdds
<1>3. q = [r EXCEPT !.chars = @ + l, !.latencies = IF e THEN @ ELSE @ + 1,
                    !.perType = IF e THEN @ ELSE z]
  <2> HIDE DEF z
  <2>1. q = [r EXCEPT !.chars = @ + l, !.latencies = IF e THEN @ ELSE @ + 1,
                      !.perType = IF e THEN @ ELSE score(@, samples[k].truth, answers[k].dets)]
    BY Zenon DEF BenchOne
  <2> HIDE DEF e, l, q
  <2> QED BY <2>1 DEF z, BenchState
<1> HIDE DEF e, l, z, q
<1>4. q \in BenchState(Types) /\ q.perType = IF e THEN r.perType ELSE z
  <2> DEFINE c == r.chars + l
             a == IF e THEN r.latencies ELSE r.latencies + 1
             p == IF e THEN r.perType ELSE z
  <2>1. r.chars \in Int /\ r.latencies \in Int /\ r.perType \in PerType(Types)
    BY DEF BenchState
  <2>2. c \in Int /\ a \in Int /\ p \in PerType(Types)
    BY <1>1, <1>2, <2>1
  <2>3. q = [r EXCEPT !.chars = c, !.latencies = a, !.perType = p]
    BY <1>3 DEF BenchState
  <2> HIDE DEF c, a, p
  <2>4. q \in BenchState(Types) /\ q.perType = p
    BY <2>2, <2>3 DEF BenchState
  <2> QED BY <2>4 DEF p
<1> QED BY <1>4, Zenon DEF OneSample, e, z, q

BenchFold(samples, answers, Types) ==
  FoldLeft(LAMBDA r, k : BenchOne(samples, answers, r, k),
           [samples |-> Len(samples), chars |-> 0, latencies |-> 0,
            perType |-> [t \in Types |-> NoMetrics]],
           [k \in DOMAIN samples |-> k])

LEMMA BenchIsFold ==
  ASSUME NEW samples, NEW answers, NEW Types
  PROVE  benchmark(samples, answers, Types) = BenchFold(samples, answers, Types)
BY Zenon DEF benchmark, BenchFold, BenchOne, FoldLeft, MapThenFoldSet

\* The samples one after the other.
LEMMA BenchSteps ==
  ASSUME NEW samples, NEW answers, NEW S, Scorable(samples, answers, S), NEW Types
  PROVE  \E f \in [0..Len(samples) -> BenchState(Types)] :
           /\ f[0] = [samples |-> Len(samples), chars |-> 0, latencies |-> 0,
                           perType |-> [t \in Types |-> NoMetrics]]
           /\ \A k \in 1..Len(samples) : f[k] = BenchOne(samples, answers, f[k - 1], k)
           /\ BenchFold(samples, answers, Types) = f[Len(samples)]
<1> DEFINE n == Len(samples)
           A == BenchState(Types)
           base == [samples |-> Len(samples), chars |-> 0, latencies |-> 0,
                           perType |-> [t \in Types |-> NoMetrics]]
           q == [k \in DOMAIN samples |-> k]
           step == [x \in A \X (1..n) |-> BenchOne(samples, answers, x[1], q[x[2]])]
           Folds(it) == it = [t \in SUBSET (1..n) |->
                                IF t = {} THEN base
                                ELSE BenchOne(samples, answers, it[t \ {Max(t)}], q[Max(t)])]
           g == CHOOSE it : Folds(it)
<1>0. n \in Nat /\ DOMAIN samples = 1..n
  BY DEF Scorable
<1>1. n \in Nat /\ base \in A /\ DOMAIN q = 1..n
  BY <1>0 DEF BenchState, PerType, Metrics, NoMetrics
<1>3. \A x \in A, k \in 1..n : BenchOne(samples, answers, x, q[k]) \in A
  <2> SUFFICES ASSUME NEW x \in BenchState(Types), NEW k \in 1..n
               PROVE  BenchOne(samples, answers, x, k) \in BenchState(Types)
    BY <1>0
  <2> QED BY <1>0, SampleStep DEF OneSample
<1>2. BenchFold(samples, answers, Types) = g[1..n]
  <2>1. BenchFold(samples, answers, Types) = (CHOOSE it : it = [t \in SUBSET DOMAIN q |->
                               IF t = {} THEN base
                               ELSE BenchOne(samples, answers, it[t \ {Max(t)}], q[Max(t)])])[DOMAIN q]
    BY Zenon DEF BenchFold, FoldLeft, MapThenFoldSet
  <2> HIDE DEF n, q, base
  <2> QED BY <1>1, <2>1, Zenon
<1>4. step \in [A \X (1..n) -> A]
  <2>1. ASSUME NEW x \in A \X (1..n) PROVE BenchOne(samples, answers, x[1], q[x[2]]) \in A
    <3>1. x[1] \in A /\ x[2] \in 1..n
      OBVIOUS
    <3> HIDE DEF A, q, n
    <3> QED BY <1>3, <3>1
  <2> QED BY <2>1
<1> HIDE DEF A, base, q, n
<1>5. \A t \in SUBSET (1..n) : t # {} => Max(t) \in 1..n
  BY <1>1, GreatestIn
<1>6. \A x \in A, k \in 1..n : step[<<x, k>>] = BenchOne(samples, answers, x, q[k])
  OBVIOUS
<1> HIDE DEF step
<1>7. PICK it \in [SUBSET (1..n) -> A] : LeftFold(it, n, base, step)
  BY <1>1, <1>4, LeftFoldExists
<1>8. Folds(it)
  <2>1. ASSUME NEW t \in SUBSET (1..n)
        PROVE  it[t] = IF t = {} THEN base
                       ELSE BenchOne(samples, answers, it[t \ {Max(t)}], q[Max(t)])
    <3>1. it[t \ {Max(t)}] \in A
      BY <1>7
    <3>2. it[t] = IF t = {} THEN base ELSE step[<<it[t \ {Max(t)}], Max(t)>>]
      BY <1>7 DEF LeftFold
    <3> QED BY <1>5, <1>6, <3>1, <3>2
  <2> QED BY <2>1
<1>9. Folds(g)
  <2> HIDE DEF Folds
  <2> QED BY <1>8
<1> HIDE DEF g
<1>10. \A t \in SUBSET (1..n) :
         g[t] = IF t = {} THEN base ELSE BenchOne(samples, answers, g[t \ {Max(t)}], q[Max(t)])
  BY <1>9
<1>11. g[{}] = base
  <2>1. {} \in SUBSET (1..n)
    OBVIOUS
  <2> QED BY <1>10, <2>1
<1>12. \A t \in SUBSET (1..n) : t # {} /\ g[t \ {Max(t)}] \in A =>
         g[t] = step[<<g[t \ {Max(t)}], Max(t)>>]
  BY <1>5, <1>6, <1>10
<1>13. ActsLike(g, n, A, base, step)
  BY <1>11, <1>12 DEF ActsLike
<1>14. PICK f \in [0..n -> A] : StepsOf(f, n, base, step) /\ f[n] = g[1..n]
  <2>1. n \in Nat /\ base \in A
    BY <1>1
  <2>2. GoesThrough(g, n, A, base, step)
    BY <1>4, <1>13, <2>1, LeftSteps, Zenon
  <2> QED BY <2>2 DEF GoesThrough
<1>15. f[0] = base /\ \A k \in 1..n : f[k] = step[<<f[k - 1], k>>]
  BY <1>14 DEF StepsOf
<1>16. \A k \in 1..n : f[k] = BenchOne(samples, answers, f[k - 1], q[k])
  <2> SUFFICES ASSUME NEW k \in 1..n PROVE f[k] = BenchOne(samples, answers, f[k - 1], q[k])
    OBVIOUS
  <2>1. k - 1 \in 0..n
    BY <1>1
  <2>2. f[k - 1] \in A
    BY <2>1
  <2> QED BY <1>6, <1>15, <2>2
<1>17. \A k \in 1..n : q[k] = k
  BY DEF q, n
<1> QED BY <1>2, <1>14, <1>15, <1>16, <1>17 DEF n, A, base

\* F holds the sums of the w[k] with k in D up to each place.
SumsUp(F, n, w, D) ==
  /\ F \in [0..n -> Int]
  /\ F[0] = 0
  /\ \A k \in 1..n : F[k] = F[k - 1] + (IF k \in D THEN w[k] ELSE 0)

\* A sum that is counted from the front.
LEMMA SumForward ==
  ASSUME NEW n \in Nat, NEW w \in [1..n -> Int], NEW D \in SUBSET (1..n), NEW g,
         AddsUp(g, D, w), NEW F, SumsUp(F, n, w, D)
  PROVE  g[D] = F[n]
<1> DEFINE G == [k \in 0..n |-> F[n] - F[k]]
<1>1. \A k \in 0..n : G[k] = F[n] - F[k] /\ F[k] \in Int /\ F[n] \in Int
  BY DEF SumsUp
<1>2. G \in [0..n -> Int] /\ n \in 0..n /\ 0 \in 0..n /\ F[0] = 0
  BY DEF SumsUp
<1> HIDE DEF G
<1>3. G[n] = 0 /\ G[0] = F[n]
  BY <1>1, <1>2
<1>4. ASSUME NEW k \in 1..n PROVE G[k - 1] = G[k] + (IF k \in D THEN w[k] ELSE 0)
  <2>1. k - 1 \in 0..n /\ k \in 0..n
    OBVIOUS
  <2>2. w[k] \in Int
    OBVIOUS
  <2>3. G[k - 1] = F[n] - F[k - 1] /\ G[k] = F[n] - F[k] /\ F[k - 1] \in Int /\ F[k] \in Int
    BY <1>1, <2>1
  <2> DEFINE e == IF k \in D THEN w[k] ELSE 0
  <2>4. e \in Int /\ F[k] = F[k - 1] + e
    BY <2>2 DEF SumsUp
  <2>5. F[n] \in Int
    BY <1>1
  <2> HIDE DEF e
  <2>6. F[n] - F[k - 1] = (F[n] - F[k]) + e
    BY <2>3, <2>4, <2>5
  <2>7. G[k - 1] = G[k] + e
    BY <2>3, <2>6
  <2> QED BY <2>7 DEF e
<1>5. Sums(G, n, w, D)
  BY <1>2, <1>3, <1>4 DEF Sums
<1>6. g[D] = G[0]
  BY <1>5, SumOver
<1> QED BY <1>3, <1>6

\* The true spans of a type in some samples, their detections, and the pairs.
\* The true spans of a type in some samples, their detections, and the pairs.
TruthCount(samples, k, T) == Cardinality({ i \in DOMAIN samples[k].truth : samples[k].truth[i].type = T })

TruthSum(samples, T, D) == MapThenSumSet(LAMBDA k : TruthCount(samples, k, T), D)

LEMMA TruthsAddUp ==
  ASSUME NEW samples, NEW T, NEW n \in Nat, NEW D \in SUBSET (1..n),
         NEW w \in [1..n -> Int], \A k \in D : w[k] = TruthCount(samples, k, T)
  PROVE  \E g : /\ AddsUp(g, D, w)
                /\ TruthSum(samples, T, D) = g[D]
<1> DEFINE W(k) == TruthCount(samples, k, T)
           Adds(it) == it = [t \in SUBSET D |->
                               IF t = {} THEN 0
                               ELSE W(CHOOSE y \in t : TRUE) + it[t \ {CHOOSE y \in t : TRUE}]]
           g == CHOOSE it : Adds(it)
<1>1. TruthSum(samples, T, D) = g[D]
  BY Zenon DEF TruthSum, MapThenSumSet, MapThenFoldSet
<1>2. \A k \in D : w[k] = W(k)
  OBVIOUS
<1> HIDE DEF W
<1>3. \A t \in SUBSET D : t # {} => (CHOOSE y \in t : TRUE) \in D
  OBVIOUS
<1>4. PICK h : h = [t \in SUBSET D |->
                     IF t = {} THEN 0
                     ELSE w[CHOOSE y \in t : TRUE] + h[t \ {CHOOSE y \in t : TRUE}]]
  BY SumExists
<1>5. Adds(h)
  <2>1. \A t \in SUBSET D :
          h[t] = IF t = {} THEN 0
                 ELSE W(CHOOSE y \in t : TRUE) + h[t \ {CHOOSE y \in t : TRUE}]
    BY <1>2, <1>3, <1>4
  <2>2. h = [t \in SUBSET D |-> h[t]]
    BY <1>4
  <2> QED BY <2>1, <2>2
<1>6. Adds(g)
  <2> HIDE DEF Adds
  <2> QED BY <1>5
<1> HIDE DEF g
<1>7. AddsUp(g, D, w)
  <2>1. \A t \in SUBSET D :
          g[t] = IF t = {} THEN 0
                 ELSE W(CHOOSE y \in t : TRUE) + g[t \ {CHOOSE y \in t : TRUE}]
    BY <1>6
  <2>2. \A t \in SUBSET D :
          g[t] = IF t = {} THEN 0
                 ELSE w[CHOOSE y \in t : TRUE] + g[t \ {CHOOSE y \in t : TRUE}]
    BY <1>2, <1>3, <2>1
  <2> QED BY <2>2, Zenon DEF AddsUp
<1> QED BY <1>1, <1>7

\* The detections.
AnswerCount(answers, k, T) == Cardinality({ i \in DOMAIN answers[k].dets : answers[k].dets[i].type = T })

AnswerSum(answers, T, D) == MapThenSumSet(LAMBDA k : AnswerCount(answers, k, T), D)

LEMMA AnswersAddUp ==
  ASSUME NEW answers, NEW T, NEW n \in Nat, NEW D \in SUBSET (1..n),
         NEW w \in [1..n -> Int], \A k \in D : w[k] = AnswerCount(answers, k, T)
  PROVE  \E g : /\ AddsUp(g, D, w)
                /\ AnswerSum(answers, T, D) = g[D]
<1> DEFINE W(k) == AnswerCount(answers, k, T)
           Adds(it) == it = [t \in SUBSET D |->
                               IF t = {} THEN 0
                               ELSE W(CHOOSE y \in t : TRUE) + it[t \ {CHOOSE y \in t : TRUE}]]
           g == CHOOSE it : Adds(it)
<1>1. AnswerSum(answers, T, D) = g[D]
  BY Zenon DEF AnswerSum, MapThenSumSet, MapThenFoldSet
<1>2. \A k \in D : w[k] = W(k)
  OBVIOUS
<1> HIDE DEF W
<1>3. \A t \in SUBSET D : t # {} => (CHOOSE y \in t : TRUE) \in D
  OBVIOUS
<1>4. PICK h : h = [t \in SUBSET D |->
                     IF t = {} THEN 0
                     ELSE w[CHOOSE y \in t : TRUE] + h[t \ {CHOOSE y \in t : TRUE}]]
  BY SumExists
<1>5. Adds(h)
  <2>1. \A t \in SUBSET D :
          h[t] = IF t = {} THEN 0
                 ELSE W(CHOOSE y \in t : TRUE) + h[t \ {CHOOSE y \in t : TRUE}]
    BY <1>2, <1>3, <1>4
  <2>2. h = [t \in SUBSET D |-> h[t]]
    BY <1>4
  <2> QED BY <2>1, <2>2
<1>6. Adds(g)
  <2> HIDE DEF Adds
  <2> QED BY <1>5
<1> HIDE DEF g
<1>7. AddsUp(g, D, w)
  <2>1. \A t \in SUBSET D :
          g[t] = IF t = {} THEN 0
                 ELSE W(CHOOSE y \in t : TRUE) + g[t \ {CHOOSE y \in t : TRUE}]
    BY <1>6
  <2>2. \A t \in SUBSET D :
          g[t] = IF t = {} THEN 0
                 ELSE w[CHOOSE y \in t : TRUE] + g[t \ {CHOOSE y \in t : TRUE}]
    BY <1>2, <1>3, <2>1
  <2> QED BY <2>2, Zenon DEF AddsUp
<1> QED BY <1>1, <1>7

\* The best pairings.
PairSum(samples, answers, T, D) == MapThenSumSet(LAMBDA k : BestMatching(samples[k].truth, answers[k].dets, T), D)

LEMMA PairsAddUp ==
  ASSUME NEW samples, NEW answers, NEW T, NEW n \in Nat, NEW D \in SUBSET (1..n),
         NEW w \in [1..n -> Int], \A k \in D : w[k] = BestMatching(samples[k].truth, answers[k].dets, T)
  PROVE  \E g : /\ AddsUp(g, D, w)
                /\ PairSum(samples, answers, T, D) = g[D]
<1> DEFINE W(k) == BestMatching(samples[k].truth, answers[k].dets, T)
           Adds(it) == it = [t \in SUBSET D |->
                               IF t = {} THEN 0
                               ELSE W(CHOOSE y \in t : TRUE) + it[t \ {CHOOSE y \in t : TRUE}]]
           g == CHOOSE it : Adds(it)
<1>1. PairSum(samples, answers, T, D) = g[D]
  BY Zenon DEF PairSum, MapThenSumSet, MapThenFoldSet
<1>2. \A k \in D : w[k] = W(k)
  OBVIOUS
<1> HIDE DEF W
<1>3. \A t \in SUBSET D : t # {} => (CHOOSE y \in t : TRUE) \in D
  OBVIOUS
<1>4. PICK h : h = [t \in SUBSET D |->
                     IF t = {} THEN 0
                     ELSE w[CHOOSE y \in t : TRUE] + h[t \ {CHOOSE y \in t : TRUE}]]
  BY SumExists
<1>5. Adds(h)
  <2>1. \A t \in SUBSET D :
          h[t] = IF t = {} THEN 0
                 ELSE W(CHOOSE y \in t : TRUE) + h[t \ {CHOOSE y \in t : TRUE}]
    BY <1>2, <1>3, <1>4
  <2>2. h = [t \in SUBSET D |-> h[t]]
    BY <1>4
  <2> QED BY <2>1, <2>2
<1>6. Adds(g)
  <2> HIDE DEF Adds
  <2> QED BY <1>5
<1> HIDE DEF g
<1>7. AddsUp(g, D, w)
  <2>1. \A t \in SUBSET D :
          g[t] = IF t = {} THEN 0
                 ELSE W(CHOOSE y \in t : TRUE) + g[t \ {CHOOSE y \in t : TRUE}]
    BY <1>6
  <2>2. \A t \in SUBSET D :
          g[t] = IF t = {} THEN 0
                 ELSE w[CHOOSE y \in t : TRUE] + g[t \ {CHOOSE y \in t : TRUE}]
    BY <1>2, <1>3, <2>1
  <2> QED BY <2>2, Zenon DEF AddsUp
<1> QED BY <1>1, <1>7

\* Whatever the samples and the answers, every true span and every detection of
\* the samples that were answered is counted once, and the pairing is a best one.
THEOREM EveryScoreIsBest ==
  ASSUME NEW samples, NEW answers, NEW S, Scorable(samples, answers, S), NEW Types
  PROVE  ScoreIsBest(samples, answers, Types)
<1> DEFINE n == Len(samples)
           D == { k \in DOMAIN samples : ~ answers[k].err }
           truth(k) == samples[k].truth
           dets(k) == answers[k].dets
           Best(k, T) == BestMatching(truth(k), dets(k), T)
           cond == \A k \in D : InOrder(dets(k)) \/ OneEach(truth(k), dets(k))
<1>1. n \in Nat /\ DOMAIN samples = 1..n /\ D \in SUBSET (1..n)
  BY DEF Scorable
<1>2. PICK f \in [0..n -> BenchState(Types)] :
        /\ f[0] = [samples |-> n, chars |-> 0, latencies |-> 0,
                   perType |-> [t \in Types |-> NoMetrics]]
        /\ \A k \in 1..n : f[k] = BenchOne(samples, answers, f[k - 1], k)
        /\ benchmark(samples, answers, Types) = f[n]
  BY BenchSteps, BenchIsFold
<1> DEFINE per(k) == f[k].perType
<1>3. \A k \in 0..n : per(k) \in PerType(Types)
  BY <1>2 DEF BenchState
<1>4. \A k \in D : k \in 1..n /\ k \in DOMAIN samples /\ answers[k].err = FALSE
  BY <1>1 DEF Scorable
<1>5. ASSUME NEW k \in 1..n
      PROVE  /\ k \notin D => per(k) = per(k - 1)
             /\ k \in D => \A T \in Types : ScoreFor(per(k), per(k - 1), truth(k), dets(k), T)
  <2>1. k - 1 \in 0..n /\ k \in DOMAIN samples
    BY <1>1
  <2>2. OneSample(samples, answers, k, f[k - 1], f[k], Types)
    <3>1. f[k - 1] \in BenchState(Types) /\ f[k] = BenchOne(samples, answers, f[k - 1], k)
      BY <1>2, <2>1
    <3> QED BY <2>1, <3>1, SampleStep
  <2>3. per(k) = IF answers[k].err THEN per(k - 1) ELSE score(per(k - 1), truth(k), dets(k))
    BY <2>2, Zenon DEF OneSample
  <2>4. answers[k].err \in BOOLEAN /\ (k \in D <=> ~ answers[k].err)
    BY <2>1 DEF Scorable
  <2>5. truth(k) \in Seq(S) /\ dets(k) \in Seq(S) /\ Marks(S)
    BY <2>1 DEF Scorable
  <2>6. per(k - 1) \in PerType(Types)
    BY <1>3, <2>1
  <2> HIDE DEF D, per, truth, dets
  <2>7. k \in D => per(k) = score(per(k - 1), truth(k), dets(k))
    BY <2>3, <2>4
  <2>8. \A T \in Types : ScoreFor(score(per(k - 1), truth(k), dets(k)), per(k - 1), truth(k), dets(k), T)
    BY <2>5, <2>6, ScoreAdds
  <2>9. k \notin D => per(k) = per(k - 1)
    BY <2>3, <2>4
  <2> QED BY <2>7, <2>8, <2>9
<1>6. \A k \in D : InOrder(truth(k))
  BY <1>4 DEF Scorable
<1>7. per(0) = [t \in Types |-> NoMetrics]
  BY <1>1, <1>2
<1> HIDE DEF per
<1>8. \A T \in Types : per(0)[T].tp = 0 /\ per(0)[T].fp = 0 /\ per(0)[T].fn = 0
  BY <1>7 DEF NoMetrics
<1>9. \A k \in 0..n, T \in Types : /\ per(k)[T].tp \in Int /\ per(k)[T].fp \in Int
                                   /\ per(k)[T].fn \in Int
  BY <1>3 DEF PerType, Metrics
<1>10. \A k \in D : truth(k) \in Seq(S) /\ dets(k) \in Seq(S)
  BY <1>4 DEF Scorable
<1>11. ASSUME NEW T \in Types
       PROVE  per(n)[T].tp + per(n)[T].fn
                = MapThenSumSet(LAMBDA k : Cardinality({ i \in DOMAIN samples[k].truth :
                                                           samples[k].truth[i].type = T }), D)
  <2> DEFINE F == [k \in 0..n |-> per(k)[T].tp + per(k)[T].fn]
             N(k) == TruthCount(samples, k, T)
             w == [k \in 1..n |-> IF k \in D THEN N(k) ELSE 0]
  <2>1. F \in [0..n -> Int] /\ F[0] = 0 /\ F[n] = per(n)[T].tp + per(n)[T].fn
    BY <1>1, <1>8, <1>9
  <2>2. \A k \in D : N(k) \in Int
    <3> SUFFICES ASSUME NEW k \in D PROVE N(k) \in Int
      OBVIOUS
    <3> DEFINE P == OfType(truth(k), T)
               l == Len(truth(k))
    <3>1. l \in Nat /\ Upto(P, l) = P
      BY <1>10 DEF Upto, OfType
    <3>2. Cardinality(P) \in Nat
      BY <3>1, UptoStep
    <3> QED BY <3>2 DEF OfType, TruthCount
  <2>3. w \in [1..n -> Int] /\ \A k \in D : w[k] = N(k)
    <3> HIDE DEF N, D
    <3> QED BY <1>1, <2>2
  <2>4. \A k \in 1..n : F[k] = F[k - 1] + (IF k \in D THEN w[k] ELSE 0)
    <3> SUFFICES ASSUME NEW k \in 1..n PROVE F[k] = F[k - 1] + (IF k \in D THEN w[k] ELSE 0)
      OBVIOUS
    <3>1. k - 1 \in 0..n /\ k \in 0..n
      BY <1>1
    <3>2. /\ F[k] = per(k)[T].tp + per(k)[T].fn
          /\ F[k - 1] = per(k - 1)[T].tp + per(k - 1)[T].fn
          /\ F[k - 1] \in Int
      BY <1>9, <3>1
    <3>3. CASE k \in D
      <4>1. per(k)[T].tp + per(k)[T].fn
              = per(k - 1)[T].tp + per(k - 1)[T].fn + Cardinality(OfType(truth(k), T))
        BY <1>5, <3>3, Zenon DEF ScoreFor
      <4>2. w[k] = Cardinality(OfType(truth(k), T))
        BY <2>3, <3>3, Zenon DEF OfType, TruthCount
      <4> HIDE DEF F, w
      <4> QED BY <3>2, <3>3, <4>1, <4>2
    <3>4. CASE k \notin D
      <4>1. per(k) = per(k - 1)
        BY <1>5, <3>4
      <4> HIDE DEF F, w, D
      <4> QED BY <3>2, <3>4, <4>1
    <3> QED BY <3>3, <3>4
  <2> HIDE DEF F, w, D
  <2>5. PICK g : AddsUp(g, D, w) /\ TruthSum(samples, T, D) = g[D]
    BY <1>1, <2>3, TruthsAddUp
  <2>6. g[D] = F[n]
    <3>1. SumsUp(F, n, w, D)
      BY <2>1, <2>4, Zenon DEF SumsUp
    <3> QED BY <1>1, <2>3, <2>5, <3>1, SumForward
  <2> QED BY <2>1, <2>5, <2>6, Zenon DEF TruthSum, TruthCount
<1>12. ASSUME NEW T \in Types
       PROVE  per(n)[T].tp + per(n)[T].fp
                = MapThenSumSet(LAMBDA k : Cardinality({ i \in DOMAIN answers[k].dets :
                                                           answers[k].dets[i].type = T }), D)
  <2> DEFINE F == [k \in 0..n |-> per(k)[T].tp + per(k)[T].fp]
             N(k) == AnswerCount(answers, k, T)
             w == [k \in 1..n |-> IF k \in D THEN N(k) ELSE 0]
  <2>1. F \in [0..n -> Int] /\ F[0] = 0 /\ F[n] = per(n)[T].tp + per(n)[T].fp
    BY <1>1, <1>8, <1>9
  <2>2. \A k \in D : N(k) \in Int
    <3> SUFFICES ASSUME NEW k \in D PROVE N(k) \in Int
      OBVIOUS
    <3> DEFINE P == OfType(dets(k), T)
               l == Len(dets(k))
    <3>1. l \in Nat /\ Upto(P, l) = P
      BY <1>10 DEF Upto, OfType
    <3>2. Cardinality(P) \in Nat
      BY <3>1, UptoStep
    <3> QED BY <3>2 DEF OfType, AnswerCount
  <2>3. w \in [1..n -> Int] /\ \A k \in D : w[k] = N(k)
    <3> HIDE DEF N, D
    <3> QED BY <1>1, <2>2
  <2>4. \A k \in 1..n : F[k] = F[k - 1] + (IF k \in D THEN w[k] ELSE 0)
    <3> SUFFICES ASSUME NEW k \in 1..n PROVE F[k] = F[k - 1] + (IF k \in D THEN w[k] ELSE 0)
      OBVIOUS
    <3>1. k - 1 \in 0..n /\ k \in 0..n
      BY <1>1
    <3>2. /\ F[k] = per(k)[T].tp + per(k)[T].fp
          /\ F[k - 1] = per(k - 1)[T].tp + per(k - 1)[T].fp
          /\ F[k - 1] \in Int
      BY <1>9, <3>1
    <3>3. CASE k \in D
      <4>1. per(k)[T].tp + per(k)[T].fp
              = per(k - 1)[T].tp + per(k - 1)[T].fp + Cardinality(OfType(dets(k), T))
        BY <1>5, <3>3, Zenon DEF ScoreFor
      <4>2. w[k] = Cardinality(OfType(dets(k), T))
        BY <2>3, <3>3, Zenon DEF OfType, AnswerCount
      <4> HIDE DEF F, w
      <4> QED BY <3>2, <3>3, <4>1, <4>2
    <3>4. CASE k \notin D
      <4>1. per(k) = per(k - 1)
        BY <1>5, <3>4
      <4> HIDE DEF F, w, D
      <4> QED BY <3>2, <3>4, <4>1
    <3> QED BY <3>3, <3>4
  <2> HIDE DEF F, w, D
  <2>5. PICK g : AddsUp(g, D, w) /\ AnswerSum(answers, T, D) = g[D]
    BY <1>1, <2>3, AnswersAddUp
  <2>6. g[D] = F[n]
    <3>1. SumsUp(F, n, w, D)
      BY <2>1, <2>4, Zenon DEF SumsUp
    <3> QED BY <1>1, <2>3, <2>5, <3>1, SumForward
  <2> QED BY <2>1, <2>5, <2>6, Zenon DEF AnswerSum, AnswerCount
<1>13. ASSUME NEW T \in Types, cond
       PROVE  per(n)[T].tp
                = MapThenSumSet(LAMBDA k : BestMatching(samples[k].truth, answers[k].dets, T), D)
  <2> DEFINE F == [k \in 0..n |-> per(k)[T].tp]
             N(k) == BestMatching(samples[k].truth, answers[k].dets, T)
             w == [k \in 1..n |-> IF k \in D THEN per(k)[T].tp - per(k - 1)[T].tp ELSE 0]
  <2>1. F \in [0..n -> Int] /\ F[0] = 0 /\ F[n] = per(n)[T].tp
    BY <1>1, <1>8, <1>9
  <2>2. \A k \in 1..n : /\ k - 1 \in 0..n /\ k \in 0..n
                        /\ per(k)[T].tp \in Int /\ per(k - 1)[T].tp \in Int
    <3>1. \A k \in 1..n : k - 1 \in 0..n /\ k \in 0..n
      BY <1>1
    <3> QED BY <1>9, <3>1
  <2>3. w \in [1..n -> Int]
    BY <2>2
  <2>4. ASSUME NEW k \in D PROVE w[k] = N(k)
    <3>1. (InOrder(truth(k)) /\ InOrder(dets(k))) \/ OneEach(truth(k), dets(k))
      BY <1>6, <1>13
    <3>2. ScoreFor(per(k), per(k - 1), truth(k), dets(k), T)
      BY <1>4, <1>5
    <3>3. N(k) \in Int /\ per(k)[T].tp = per(k - 1)[T].tp + N(k)
      BY <3>1, <3>2, Zenon DEF ScoreFor
    <3>5. k \in 1..n /\ per(k - 1)[T].tp \in Int
      BY <1>4, <2>2
    <3>6. w[k] = per(k)[T].tp - per(k - 1)[T].tp
      BY <3>5
    <3> HIDE DEF w, N
    <3> QED BY <3>3, <3>5, <3>6
  <2>5. \A k \in 1..n : F[k] = F[k - 1] + (IF k \in D THEN w[k] ELSE 0)
    <3> SUFFICES ASSUME NEW k \in 1..n PROVE F[k] = F[k - 1] + (IF k \in D THEN w[k] ELSE 0)
      OBVIOUS
    <3>1. F[k] = per(k)[T].tp /\ F[k - 1] = per(k - 1)[T].tp
      BY <2>2
    <3>2. k \notin D => per(k) = per(k - 1)
      BY <1>5
    <3>3. k \in D => w[k] = per(k)[T].tp - per(k - 1)[T].tp
      OBVIOUS
    <3> HIDE DEF F, w, D
    <3> QED BY <2>2, <3>1, <3>2, <3>3
  <2> HIDE DEF F, w, D, n
  <2>6. PICK g : AddsUp(g, D, w) /\ PairSum(samples, answers, T, D) = g[D]
    <3>1. \A k \in D : w[k] = N(k)
      BY <2>4
    <3> HIDE DEF n
    <3> QED BY <1>1, <2>3, <3>1, PairsAddUp
  <2>7. g[D] = F[n]
    <3>1. SumsUp(F, n, w, D)
      BY <2>1, <2>5, Zenon DEF SumsUp
    <3> QED BY <1>1, <2>3, <2>6, <3>1, SumForward
  <2> QED BY <2>1, <2>6, <2>7, Zenon DEF PairSum
<1>14. benchmark(samples, answers, Types).perType = per(n)
  BY <1>2 DEF per
<1> HIDE DEF n
<1> QED BY <1>11, <1>12, <1>13, <1>14, Zenon DEF ScoreIsBest

-----------------------------------------------------------------------------
(***************************************************************************)
(* The inputs                                                              *)
(***************************************************************************)
\* What is entered has the form its family has.
InputType ==
  /\ entered \in BOOLEAN
  /\ Of("value") => input.is \in Seq(Int)
  /\ Of("call") => input.json \in Nat
  /\ Of("text") => input \in Seq(ByteSet)
  /\ Of("card") \/ Of("numbers") => \E S : input \in Seq(S)
  /\ Of("sample") => \E i \in Nat : input \in Generate(i, Values)
  /\ Of("scores") => Scorable(input.samples, input.answers, RealSpans)

\* A card number is a sequence, in one piece and in groups.
LEMMA CardType ==
  ASSUME NEW n \in {13, 16}, NEW p, NEW a, NEW b
  PROVE  /\ \E S : Card(n, p, a, b) \in Seq(S)
         /\ \E S : Grouped(Card(n, p, a, b)) \in Seq(S)
<1> DEFINE c == Card(n, p, a, b)
           S == { c[k] : k \in 1..n } \union {Blank, Dash}
<1>1. n \in Nat /\ n >= 13
  OBVIOUS
<1>2. DOMAIN c = 1..n /\ c = [k \in 1..n |-> c[k]]
  <2> DEFINE zeros == [k \in 1..n |-> IF k = p THEN a ELSE IF k = p + 1 THEN b ELSE 0]
             d == CHOOSE x \in Digit : ValidateLuhn([zeros EXCEPT ![n] = x])
  <2>1. c = [zeros EXCEPT ![n] = d]
    BY Zenon DEF Card
  <2>2. zeros = [k \in 1..n |-> zeros[k]]
    OBVIOUS
  <2> HIDE DEF c, d, zeros
  <2> QED BY <2>1, <2>2
<1> HIDE DEF c
<1>3. c \in Seq(S) /\ Len(c) = n
  BY <1>1, <1>2
<1>4. Grouped(c) \in Seq(S)
  <2> DEFINE x == SubSeq(c, 1, 4)
             y == SubSeq(c, 5, 12)
             z == SubSeq(c, 13, Len(c))
  <2>1. <<Blank>> \in Seq(S) /\ <<Dash>> \in Seq(S)
    OBVIOUS
  <2> HIDE DEF S
  <2>2. x \in Seq(S) /\ y \in Seq(S) /\ z \in Seq(S)
    BY <1>1, <1>3
  <2>3. \A q, r \in Seq(S) : q \o r \in Seq(S)
    BY ConcatProperties
  <2>4. Grouped(c) = x \o <<Blank>> \o y \o <<Dash>> \o z
    BY DEF Grouped
  <2> HIDE DEF x, y, z
  <2> QED BY <2>1, <2>2, <2>3, <2>4
<1> QED BY <1>3, <1>4 DEF c

\* Groups of digits joined are a text.
LEMMA JoinedType ==
  ASSUME NEW n \in 0..5, NEW g \in [1..n -> Groups], NEW b,
         \A k \in 1..(n - 1) : b[k] \in {<<>>, <<Blank>>, <<Other>>}
  PROVE  Joined(g, b) \in Seq(Nat)
<1> DEFINE s == [k \in 1..n |-> IF k = 1 THEN g[k] ELSE b[k - 1] \o g[k]]
<1>1. \A x \in Groups : x \in Seq(Nat)
  <2>1. /\ <<7, 3, 2>> \in Seq(Nat) /\ <<8, 2, 9>> \in Seq(Nat) /\ <<3, 2, 0>> \in Seq(Nat)
        /\ <<1, 1, 1>> \in Seq(Nat) /\ <<0, 0, 0, 7, 4>> \in Seq(Nat)
    OBVIOUS
  <2> QED BY <2>1 DEF Groups
<1>2. \A x \in {<<>>, <<Blank>>, <<Other>>} : x \in Seq(Nat)
  <2>1. <<>> \in Seq(Nat) /\ <<Blank>> \in Seq(Nat) /\ <<Other>> \in Seq(Nat)
    BY DEF Blank, Other
  <2> QED BY <2>1
<1>3. Joined(g, b) = FlattenSeq(s)
  BY DEF Joined
<1>4. ASSUME NEW k \in 1..n PROVE s[k] \in Seq(Nat)
  <2>1. g[k] \in Seq(Nat)
    BY <1>1
  <2>2. CASE k = 1
    BY <2>1, <2>2
  <2>3. CASE k # 1
    <3>1. k - 1 \in 1..(n - 1)
      BY <2>3
    <3>2. b[k - 1] \in Seq(Nat)
      BY <1>2, <3>1
    <3>3. b[k - 1] \o g[k] \in Seq(Nat)
      BY <2>1, <3>2, ConcatProperties
    <3> QED BY <2>3, <3>3
  <2> QED BY <2>2, <2>3
<1>5. s \in Seq(Seq(Nat))
  <2>1. s = [k \in 1..n |-> s[k]] /\ n \in Nat
    OBVIOUS
  <2> HIDE DEF s
  <2> QED BY <1>4, <2>1
<1> HIDE DEF s
<1> QED BY <1>3, <1>5, FlattenType

\* The company numbers that are entered.
LEMMA NumbersType ==
  ASSUME kind = "numbers", EnterNumbers
  PROVE  input' \in Seq(Nat)
<1> DEFINE Bs == {<<>>, <<Blank>>, <<Other>>}
           Cs == {<<>>, <<Blank>>}
           four == [k \in 1..4 |-> <<Blank>>]
<1>1. \/ \E g \in SeqOf(Groups, 3) : \E b \in TupleOf(Bs, 2) : input' = Joined(g, b)
      \/ \E g \in TupleOf(Groups, 4) : \E b \in TupleOf(Cs, 3) : input' = Joined(g, b)
      \/ \E g \in TupleOf(Groups, 5) : input' = Joined(g, four)
  BY DEF EnterNumbers, Enter
<1>2. four \in [1..4 -> Bs] /\ \A n \in Nat : [1..n -> Cs] \subseteq [1..n -> Bs]
  OBVIOUS
<1>3. \A n \in 0..5 : n \in Nat
  OBVIOUS
<1> HIDE DEF Bs, Cs, four
<1>4. ASSUME NEW n \in 0..5, NEW g \in [1..n -> Groups], NEW m, NEW b \in [1..m -> Bs],
             m \in Nat, n - 1 <= m, input' = Joined(g, b)
      PROVE  input' \in Seq(Nat)
  <2>1. \A k \in 1..(n - 1) : b[k] \in Bs
    BY <1>4
  <2> QED BY <1>4, <2>1, JoinedType DEF Bs
<1>5. CASE \E g \in SeqOf(Groups, 3) : \E b \in TupleOf(Bs, 2) : input' = Joined(g, b)
  <2>1. PICK g \in SeqOf(Groups, 3) : \E b \in TupleOf(Bs, 2) : input' = Joined(g, b)
    BY <1>5
  <2>2. PICK b \in TupleOf(Bs, 2) : input' = Joined(g, b)
    BY <2>1
  <2>3. PICK n \in 0..3 : g \in [1..n -> Groups]
    BY DEF SeqOf
  <2>4. n \in 0..5 /\ n - 1 <= 2 /\ b \in [1..2 -> Bs]
    BY DEF TupleOf
  <2> QED BY <1>4, <2>2, <2>3, <2>4
<1>6. CASE \E g \in TupleOf(Groups, 4) : \E b \in TupleOf(Cs, 3) : input' = Joined(g, b)
  <2>1. PICK g \in TupleOf(Groups, 4) : \E b \in TupleOf(Cs, 3) : input' = Joined(g, b)
    BY <1>6
  <2>2. PICK b \in TupleOf(Cs, 3) : input' = Joined(g, b)
    BY <2>1
  <2>4. g \in [1..4 -> Groups] /\ b \in [1..3 -> Bs]
    BY <1>2 DEF TupleOf
  <2>5. 4 \in 0..5 /\ 3 \in Nat /\ 4 - 1 <= 3
    OBVIOUS
  <2> QED BY <1>4, <2>2, <2>4, <2>5
<1>7. CASE \E g \in TupleOf(Groups, 5) : input' = Joined(g, four)
  <2>1. PICK g \in TupleOf(Groups, 5) : input' = Joined(g, four)
    BY <1>7
  <2>4. g \in [1..5 -> Groups]
    BY DEF TupleOf
  <2>5. 5 \in 0..5 /\ 4 \in Nat /\ 5 - 1 <= 4
    OBVIOUS
  <2> QED BY <1>2, <1>4, <2>1, <2>4, <2>5
<1> QED BY <1>1, <1>5, <1>6, <1>7

\* The characters of the values TLC draws.
Alphabet == {".", "a", "b", "c", "d", "e", "f", "g", "h", "i", "j", "k", "l"}

LEMMA ValuesToldApart == ToldApart(Values, Alphabet)
<1>1. \A t \in PIITypes : Values[t] \subseteq Seq(Alphabet) \ {<<>>}
  <2>1. /\ Values["EMAIL"] = {<<"a">>, <<"b", "c">>} /\ Values["IP"] = {<<"d">>, <<"e", "f">>}
        /\ Values["API_KEY"] = {<<"g">>, <<"h", "i">>} /\ Values["PHONE"] = {<<"j">>, <<"k", "l">>}
    BY DEF Values
  <2>2. \A x \in Alphabet : <<x>> \in Seq(Alphabet) \ {<<>>}
    OBVIOUS
  <2>3. \A x, y \in Alphabet : <<x, y>> \in Seq(Alphabet) \ {<<>>}
    OBVIOUS
  <2>4. {"a", "b", "c", "d", "e", "f", "g", "h", "i", "j", "k", "l"} \subseteq Alphabet
    BY DEF Alphabet
  <2> DEFINE S == Seq(Alphabet) \ {<<>>}
  <2>5. /\ <<"a">> \in S /\ <<"b", "c">> \in S /\ <<"d">> \in S /\ <<"e", "f">> \in S
        /\ <<"g">> \in S /\ <<"h", "i">> \in S /\ <<"j">> \in S /\ <<"k", "l">> \in S
    BY <2>2, <2>3, <2>4
  <2> HIDE DEF S
  <2>6. /\ Values["EMAIL"] \subseteq S /\ Values["IP"] \subseteq S
        /\ Values["API_KEY"] \subseteq S /\ Values["PHONE"] \subseteq S
    BY <2>1, <2>5, Zenon
  <2>7. \A t \in PIITypes : Values[t] \subseteq S
    BY <2>6, Zenon DEF PIITypes
  <2> QED BY <2>7 DEF S
<1>2. ASSUME NEW t \in PIITypes, NEW u \in PIITypes, NEW v \in Values[t], NEW w \in Values[u],
             NEW i \in 1..Len(v)
      PROVE  /\ v[i] # "."
             /\ \A j \in 1..Len(w) : v[i] = w[j] => t = u /\ v = w /\ i = j
  BY DEF PIITypes, Values
<1> QED BY <1>1, <1>2 DEF ToldApart

\* The spans that are entered, a true one of a type behind the other.
LEMMA SpansEntered ==
  /\ Marks(RealSpans)
  /\ \A t \in Truths : t \in Seq(RealSpans) /\ InOrder(t)
  /\ \A g \in Answers \union {Failed} : g.err \in BOOLEAN /\ g.dets \in Seq(RealSpans)
<1>1. Marks(RealSpans)
  BY DEF Marks, RealSpans, Spans
<1>2. \A A : \A x \in BoundedSeq(A, 2) : x \in Seq(A) /\ Len(x) \in 0..2
  <2> SUFFICES ASSUME NEW A, NEW x \in BoundedSeq(A, 2) PROVE x \in Seq(A) /\ Len(x) \in 0..2
    OBVIOUS
  <2>1. PICK n \in 0..2 : x \in [1..n -> A]
    BY DEF BoundedSeq, SeqOf
  <2> QED BY <2>1
<1>3. ASSUME NEW t \in Truths PROVE t \in Seq(RealSpans) /\ InOrder(t)
  <2>1. t \in BoundedSeq(RealSpans, 2) /\ (Len(t) = 2 => t[1].end <= t[2].start)
    BY DEF Truths
  <2>2. t \in Seq(RealSpans) /\ Len(t) \in 0..2
    BY <1>2, <2>1
  <2> HIDE DEF RealSpans
  <2>3. ASSUME NEW i \in DOMAIN t, NEW j \in DOMAIN t, i < j PROVE t[i].end <= t[j].start
    <3>1. Len(t) = 2 /\ i = 1 /\ j = 2
      BY <2>2, <2>3
    <3> QED BY <2>1, <3>1
  <2> QED BY <2>2, <2>3 DEF InOrder
<1>4. ASSUME NEW g \in Answers \union {Failed}
      PROVE  g.err \in BOOLEAN /\ g.dets \in Seq(RealSpans)
  <2>1. CASE g \in Answers
    <3>1. PICK x \in BoundedSeq(RealSpans, 2) : g = [dets |-> x, err |-> FALSE]
      BY <2>1 DEF Answers
    <3>2. x \in Seq(RealSpans)
      BY <1>2
    <3> QED BY <3>1, <3>2
  <2>2. CASE g = Failed
    <3>1. <<>> \in Seq(RealSpans)
      OBVIOUS
    <3> QED BY <2>2, <3>1 DEF Failed
  <2> QED BY <2>1, <2>2
<1> QED BY <1>1, <1>3, <1>4

\* The samples and the answers that are entered.
LEMMA ScoresType ==
  ASSUME EnterScores
  PROVE  Scorable(input'.samples, input'.answers, RealSpans)
<1>1. PICK t \in Truths : \E g \in Answers \union {Failed} : \E h \in {g, Failed} :
        input' = [samples |-> <<Sample("doc", Wording(3), t), Sample("doc", Wording(3), t)>>,
                  answers |-> <<g, h>>]
  BY Zenon DEF EnterScores, Enter
<1>2. PICK g \in Answers \union {Failed} : \E h \in {g, Failed} :
        input' = [samples |-> <<Sample("doc", Wording(3), t), Sample("doc", Wording(3), t)>>,
                  answers |-> <<g, h>>]
  BY <1>1
<1>3. PICK h \in {g, Failed} :
        input' = [samples |-> <<Sample("doc", Wording(3), t), Sample("doc", Wording(3), t)>>,
                  answers |-> <<g, h>>]
  BY <1>2
<1> DEFINE s == Sample("doc", Wording(3), t)
<1>4. input'.samples = <<s, s>> /\ input'.answers = <<g, h>>
  BY <1>3
<1>5. Len(s.text) \in Nat /\ s.truth = t
  BY DEF Sample, Wording
<1>6. h \in Answers \union {Failed}
  OBVIOUS
<1> HIDE DEF s
<1>7. /\ t \in Seq(RealSpans) /\ InOrder(t)
      /\ g.err \in BOOLEAN /\ g.dets \in Seq(RealSpans)
      /\ h.err \in BOOLEAN /\ h.dets \in Seq(RealSpans)
  BY <1>6, SpansEntered
<1> DEFINE x == <<s, s>>
           y == <<g, h>>
<1>8. x = [k \in 1..Len(x) |-> x[k]] /\ Len(x) \in Nat
  OBVIOUS
<1>9. ASSUME NEW k \in DOMAIN x
      PROVE  /\ Len(x[k].text) \in Nat
             /\ x[k].truth \in Seq(RealSpans) /\ InOrder(x[k].truth)
             /\ y[k].err \in BOOLEAN /\ y[k].dets \in Seq(RealSpans)
  <2>1. x[k] = s /\ (y[k] = g \/ y[k] = h)
    OBVIOUS
  <2> HIDE DEF x, y
  <2> QED BY <1>5, <1>7, <2>1
<1> HIDE DEF x, y
<1>10. Scorable(x, y, RealSpans)
  BY <1>8, <1>9, SpansEntered, Zenon DEF Scorable
<1> QED BY <1>4, <1>10 DEF x, y

LEMMA Inputs == Spec => []InputType
<1>1. Init => InputType
  BY DEF Init, InputType, Of
<1>2. InputType /\ [Next]_vars => InputType'
  <2> SUFFICES ASSUME InputType, [Next]_vars PROVE InputType'
    OBVIOUS
  <2>1. CASE UNCHANGED vars
    BY <2>1 DEF InputType, Of, vars
  <2>2. CASE Next
    <3>1. entered' = TRUE /\ kind' = kind
      BY <2>2 DEF Next
    <3>2. ASSUME kind = "value" PROVE input'.is \in Seq(Int)
      <4>1. EnterValue
        BY <2>2, <3>2 DEF Next, EnterText, EnterCard, EnterNumbers, EnterSample,
                          EnterScores, EnterCall
      <4>2. ASSUME NEW n \in 0..10, NEW as,
                   input' = [is |-> [k \in 1..n |-> IF as = "number" THEN 1 ELSE Letter],
                             as |-> as]
            PROVE  input'.is \in Seq(Int)
        <5>1. [k \in 1..n |-> IF as = "number" THEN 1 ELSE Letter] \in Seq(Int)
          BY DEF Letter
        <5> QED BY <4>2, <5>1
      <4>3. ASSUME NEW v \in BoundedSeq({Letter, At}, 7),
                   input' = [is |-> v, as |-> "email"]
            PROVE  input'.is \in Seq(Int)
        <5>1. v \in Seq(Int)
          <6>1. PICK n \in 0..7 : v \in [1..n -> {Letter, At}]
            BY DEF BoundedSeq, SeqOf
          <6> QED BY <6>1 DEF Letter, At
        <5> QED BY <4>3, <5>1
      <4> QED BY <4>1, <4>2, <4>3 DEF EnterValue, Enter
    <3>3. ASSUME kind = "call" PROVE input'.json \in Nat
      <4>1. EnterCall
        BY <2>2, <3>3 DEF Next, EnterText, EnterCard, EnterNumbers, EnterSample,
                          EnterScores, EnterValue
      <4> QED BY <4>1, RustAssumption DEF EnterCall, Enter
    <3>4. ASSUME kind = "text" PROVE input' \in Seq(ByteSet)
      <4>1. EnterText
        BY <2>2, <3>4 DEF Next, EnterCard, EnterNumbers, EnterSample, EnterScores,
                          EnterValue, EnterCall
      <4>2. input' \in BoundedSeq(Bytes, MaxBytes)
        BY <4>1 DEF EnterText, Enter
      <4>3. PICK n \in 0..MaxBytes : input' \in [1..n -> Bytes]
        BY <4>2 DEF BoundedSeq, SeqOf
      <4>4. Bytes \subseteq ByteSet
        <5> SUFFICES ASSUME NEW c \in Bytes PROVE c \in ByteSet
          OBVIOUS
        <5>0. PICK x, y : c = <<x, y>>
          BY Zenon DEF Bytes
        <5>1. c = <<c[1], c[2]>>
          BY <5>0
        <5>2. c[1] \in DOMAIN Width /\ c[2] \in 1..Width[c[1]]
          BY BytesAssumption
        <5>3. Width[c[1]] \in 1..4
          BY <5>2, TokenizerAssumption
        <5>4. c[2] \in 1..4 /\ c[2] <= Width[c[1]]
          BY <5>2, <5>3
        <5> QED BY <5>1, <5>2, <5>4 DEF ByteSet
      <4>5. n \in Nat
        BY BytesAssumption
      <4> HIDE DEF ByteSet
      <4>6. input' \in [1..n -> ByteSet]
        BY <4>3, <4>4
      <4> QED BY <4>5, <4>6
    <3>5. ASSUME kind = "card" PROVE \E S : input' \in Seq(S)
      <4>1. EnterCard
        BY <2>2, <3>5 DEF Next, EnterText, EnterNumbers, EnterSample, EnterScores,
                          EnterValue, EnterCall
      <4>2. PICK n \in {13, 16} : \E a, b, p :
              input' = Card(n, p, a, b) \/ input' = Grouped(Card(n, p, a, b))
        BY <4>1, SMT DEF EnterCard, Enter
      <4>3. PICK a, b, p : input' = Card(n, p, a, b) \/ input' = Grouped(Card(n, p, a, b))
        BY <4>2
      <4> QED BY <4>3, CardType
    <3>6. ASSUME kind = "numbers" PROVE \E S : input' \in Seq(S)
      <4>1. EnterNumbers
        BY <2>2, <3>6 DEF Next, EnterText, EnterCard, EnterSample, EnterScores,
                          EnterValue, EnterCall
      <4> QED BY <3>6, <4>1, NumbersType
    <3>7. ASSUME kind = "sample" PROVE \E i \in Nat : input' \in Generate(i, Values)
      <4>1. EnterSample
        BY <2>2, <3>7 DEF Next, EnterText, EnterCard, EnterNumbers, EnterScores,
                          EnterValue, EnterCall
      <4> QED BY <4>1 DEF EnterSample, Enter
    <3>8. ASSUME kind = "scores" PROVE Scorable(input'.samples, input'.answers, RealSpans)
      <4>1. EnterScores
        BY <2>2, <3>8 DEF Next, EnterText, EnterCard, EnterNumbers, EnterSample,
                          EnterValue, EnterCall
      <4> QED BY <4>1, ScoresType
    <3> QED BY <3>1, <3>2, <3>3, <3>4, <3>5, <3>6, <3>7, <3>8 DEF InputType, Of
  <2> QED BY <2>1, <2>2 DEF Next
<1> QED BY <1>1, <1>2, PTL DEF Spec

\* The tokens of every text are its words.
THEOREM TokensAreTheWords == Spec => []WordsAreTokens
<1>1. InputType => WordsAreTokens
  BY EveryWordIsAToken DEF InputType, WordsAreTokens
<1> QED BY <1>1, Inputs, PTL

\* The names of every text keep apart.
THEOREM NamesKeepApart == Spec => []NamesAreDisjoint
<1>1. InputType => NamesAreDisjoint
  BY NamesNeverMeet DEF InputType, NamesAreDisjoint
<1> QED BY <1>1, Inputs, PTL

\* A slip makes no card number valid.
THEOREM SlipsAreCaught == Spec => []OneSlipIsCaught
<1>1. InputType => OneSlipIsCaught
  BY EverySlipIsCaught DEF InputType, OneSlipIsCaught
<1> QED BY <1>1, Inputs, PTL

\* The company numbers of every text are found, and nothing else.
THEOREM NumbersAreKept == Spec => []CompaniesAreFound
<1>1. InputType => CompaniesAreFound
  BY EveryNumberIsFound DEF InputType, CompaniesAreFound
<1> QED BY <1>1, Inputs, PTL

\* The annotations of every sample are true.
THEOREM AnnotationsHold == Spec => []AnnotationsAreTrue
<1>1. InputType => AnnotationsAreTrue
  <2>1. "." \in Alphabet
    BY DEF Alphabet
  <2> QED BY <2>1, EveryAnnotationIsTrue, ValuesToldApart DEF InputType, AnnotationsAreTrue
<1> QED BY <1>1, Inputs, PTL

\* The score of a benchmark is the best one.
THEOREM ScoresAreBest == Spec => []ScoresAreRight
<1>1. InputType => ScoresAreRight
  BY EveryScoreIsBest DEF InputType, ScoresAreRight
<1> QED BY <1>1, Inputs, PTL

\* Masking hides what it is given.
THEOREM ValuesAreMasked == Spec => []MaskedIsHidden
<1>1. InputType => MaskedIsHidden
  BY EveryValueIsHidden DEF InputType, MaskedIsHidden
<1> QED BY <1>1, Inputs, PTL

\* No call of the library leaks a buffer or uses one given back.
THEOREM CallsLeakNothing == Spec => []NothingLeaks
<1>1. InputType => NothingLeaks
  BY EveryBufferIsFreed DEF InputType, NothingLeaks
<1> QED BY <1>1, Inputs, PTL
=============================================================================
