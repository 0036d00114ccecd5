-------------------------- MODULE LogAnalysisProofs --------------------------
(***************************************************************************)
(* The analysis of a failed run, for any artifacts, any replies of the     *)
(* model and any number of rounds: whenever the model is asked again it    *)
(* has the full answer to every call it made; the first thing it is told   *)
(* is all that the artifacts tell; and the notice shows where the log of   *)
(* the run failed.                                                         *)
(***************************************************************************)
EXTENDS LogAnalysis, FiniteSetTheorems, WellFoundedInduction, TLAPS

-----------------------------------------------------------------------------
(* Numbers and sequences.                                                  *)

\* A set of naturals has a least element: the induction of the proofs below.
LEMMA Least ==
  ASSUME NEW T \in SUBSET Nat, T # {}
  PROVE  \E x \in T : \A y \in T : x <= y
<1>1. PICK x \in T : \A y \in T : ~ (<<y, x>> \in OpToRel(<, Nat))
  BY NatLessThanWellFounded, WFMin, Zenon
<1>2. \A y \in T : ~ (y < x)
  BY <1>1 DEF OpToRel
<1>3. QED BY <1>2

\* The smaller of two numbers.
LEMMA MinOfTwo ==
  ASSUME NEW a \in Int, NEW b \in Int
  PROVE  Min({a, b}) = IF a <= b THEN a ELSE b
<1> DEFINE m == IF a <= b THEN a ELSE b
<1>1. m \in {a, b} /\ \A y \in {a, b} : m <= y
  OBVIOUS
<1>2. \A x \in {a, b} : (\A y \in {a, b} : x <= y) => x = m
  OBVIOUS
<1>3. QED BY <1>1, <1>2 DEF Min

\* Two stretches of one sequence, joined.
LEMMA Joined ==
  ASSUME NEW g, NEW a \in Nat, NEW b \in Nat
  PROVE  [i \in 1 .. a |-> g[i]] \o [i \in 1 .. b |-> g[a + i]] = [i \in 1 .. a + b |-> g[i]]
<1> DEFINE S == {g[i] : i \in Nat}
           u == [i \in 1 .. a |-> g[i]]
           v == [i \in 1 .. b |-> g[a + i]]
<1>1. \A i \in Nat : g[i] \in S
  OBVIOUS
<1> HIDE DEF S
<1>2. u \in Seq(S) /\ Len(u) = a /\ \A i \in 1 .. a : u[i] = g[i]
  <2>1. u \in [1 .. a -> S]
    BY <1>1
  <2> HIDE DEF u
  <2>2. Len(u) = a
    BY <2>1
  <2>3. \A i \in 1 .. a : u[i] = g[i]
    BY DEF u
  <2>4. QED BY <2>1, <2>2, <2>3
<1>3. v \in Seq(S) /\ Len(v) = b /\ \A i \in 1 .. b : v[i] = g[a + i]
  <2>1. v \in [1 .. b -> S]
    BY <1>1
  <2> HIDE DEF v
  <2>2. Len(v) = b
    BY <2>1
  <2>3. \A i \in 1 .. b : v[i] = g[a + i]
    BY DEF v
  <2>4. QED BY <2>1, <2>2, <2>3
<1> HIDE DEF u, v
<1>4. u \o v = [i \in 1 .. a + b |-> g[i]]
  <2>1. u \o v \in Seq(S) /\ Len(u \o v) = a + b
    BY <1>2, <1>3
  <2>2. \A i \in 1 .. a + b : (u \o v)[i] = g[i]
    <3> SUFFICES ASSUME NEW i \in 1 .. a + b PROVE (u \o v)[i] = g[i]
      OBVIOUS
    <3>1. CASE i <= a
      BY <1>2, <1>3, <3>1
    <3>2. CASE i > a
      <4>1. (u \o v)[i] = v[i - a]
        BY <1>2, <1>3, <3>2
      <4>2. i - a \in 1 .. b /\ a + (i - a) = i
        BY <3>2
      <4>3. QED BY <1>3, <4>1, <4>2
    <3>3. i <= a \/ i > a
      OBVIOUS
    <3>4. QED BY <3>1, <3>2, <3>3
  <2>3. u \o v = [i \in 1 .. a + b |-> (u \o v)[i]]
    <3> DEFINE w == u \o v
    <3> HIDE DEF w
    <3>1. w \in Seq(S) /\ Len(w) = a + b
      BY <2>1 DEF w
    <3>2. w \in [1 .. Len(w) -> S]
      BY <3>1
    <3>3. w = [i \in 1 .. Len(w) |-> w[i]]
      BY <3>2
    <3>4. QED BY <3>1, <3>3 DEF w
  <2>4. QED BY <2>2, <2>3
<1>5. QED BY <1>4 DEF u, v

\* The concatenation of sequences, one after the other.
LEMMA Flatten ==
  ASSUME NEW S, NEW seqs \in Seq(Seq(S)), seqs # << >>
  PROVE  \E f : /\ f = [i \in 1 .. Len(seqs) |->
                          IF i = 1 THEN seqs[i] ELSE f[i - 1] \o seqs[i]]
                /\ FlattenSeq(seqs) = f[Len(seqs)]
<1> DEFINE Is(f, n) == f = [i \in 1 .. n |-> IF i = 1 THEN seqs[i] ELSE f[i - 1] \o seqs[i]]
           Bad == {n \in Nat : ~ \E f : Is(f, n)}
<1>1. Bad = {}
  <2>1. SUFFICES ASSUME Bad # {} PROVE FALSE
    OBVIOUS
  <2>2. PICK n \in Bad : \A m \in Bad : n <= m
    BY <2>1, Least
  <2>3. n # 0
    <3>1. Is([i \in 1 .. 0 |-> 0], 0)
      OBVIOUS
    <3>2. QED BY <3>1
  <2>4. n - 1 \in Nat /\ n - 1 \notin Bad
    <3>1. n \in Nat
      OBVIOUS
    <3> HIDE DEF Bad
    <3>2. n - 1 \in Nat /\ ~ (n <= n - 1)
      BY <2>3, <3>1
    <3>3. QED BY <2>2, <3>2
  <2>5. PICK f : Is(f, n - 1)
    BY <2>4
  <2> DEFINE g == [i \in 1 .. n |-> IF i < n THEN f[i] ELSE
                                    IF i = 1 THEN seqs[i] ELSE f[i - 1] \o seqs[i]]
  <2>6. Is(g, n)
    <3>1. ASSUME NEW i \in 1 .. n
          PROVE  g[i] = IF i = 1 THEN seqs[i] ELSE g[i - 1] \o seqs[i]
      <4>1. CASE i = n
        BY <2>2, <2>3, <4>1
      <4>2. CASE i < n
        <5>1. i \in 1 .. n - 1
          BY <2>4, <3>1, <4>2
        <5>2. f[i] = IF i = 1 THEN seqs[i] ELSE f[i - 1] \o seqs[i]
          BY <2>5, <5>1
        <5>3. QED BY <2>2, <3>1, <4>2, <5>2
      <4>3. QED BY <2>2, <3>1, <4>1, <4>2
    <3>2. g = [i \in 1 .. n |-> g[i]]
      OBVIOUS
    <3> HIDE DEF g
    <3>3. QED BY <3>1, <3>2
  <2>7. QED BY <2>2, <2>6
<1>2. \E f : Is(f, Len(seqs))
  <2> HIDE DEF Is
  <2>1. Len(seqs) \in Nat
    OBVIOUS
  <2>2. QED BY <1>1, <2>1
<1> DEFINE all[i \in 1 .. Len(seqs)] == IF i = 1 THEN seqs[i] ELSE all[i - 1] \o seqs[i]
<1>3. FlattenSeq(seqs) = all[Len(seqs)]
  <2>1. Len(seqs) # 0
    OBVIOUS
  <2>2. QED BY <2>1 DEF FlattenSeq
<1>4. Is(all, Len(seqs))
  BY <1>2, Zenon
<1> HIDE DEF all
<1>5. QED BY <1>3, <1>4

\* A sequence of batches is a sequence again: what is done to each item of each
\* batch is done to each item (sanitizeAndFormatLines).
LEMMA Batches ==
  ASSUME NEW numbers \in Seq(Nat)
  PROVE  SanitizeAndFormatLines(numbers) = [i \in 1 .. Len(numbers) |-> Redact(numbers[i])]
<1> DEFINE L == Len(numbers)
           count == (L + BatchSize - 1) \div BatchSize
           end(b) == Min({b * BatchSize, L})
           batch(b) == SubSeq(numbers, (b - 1) * BatchSize + 1, end(b))
           page(b) == [i \in DOMAIN batch(b) |-> Redact(batch(b)[i])]
           pages == [b \in 1 .. count |-> page(b)]
           S == {Redact(n) : n \in Nat}
           all == [i \in 1 .. L |-> Redact(numbers[i])]
           upTo(b) == [i \in 1 .. end(b) |-> all[i]]
<1>1. L \in Nat /\ BatchSize \in Nat /\ BatchSize >= 1
  BY ToolsAssumption
<1>2. count \in Nat /\ count * BatchSize >= L /\ (count - 1) * BatchSize < L
  BY <1>1
<1> DEFINE lo(b) == (b - 1) * BatchSize
<1>3. ASSUME NEW b \in 1 .. count
      PROVE  /\ lo(b) \in Nat /\ lo(b) < L /\ b * BatchSize = lo(b) + BatchSize
             /\ end(b) = IF lo(b) + BatchSize <= L THEN lo(b) + BatchSize ELSE L
             /\ end(b) \in Nat /\ lo(b) < end(b) /\ end(b) <= L
             /\ b # count => lo(b) + BatchSize < L
  <2>1. /\ lo(b) \in Nat /\ b * BatchSize = lo(b) + BatchSize
    BY <1>1, <1>2
  <2>2. lo(b) <= (count - 1) * BatchSize /\ (count - 1) * BatchSize \in Nat
    <3>1. \A x, y \in Nat : x <= y => x * BatchSize <= y * BatchSize
      BY <1>1
    <3>2. b - 1 \in Nat /\ count - 1 \in Nat /\ b - 1 <= count - 1
      BY <1>2
    <3>3. QED BY <1>1, <3>1, <3>2
  <2>3. b # count => b * BatchSize <= (count - 1) * BatchSize
    <3>1. \A x, y \in Nat : x <= y => x * BatchSize <= y * BatchSize
      BY <1>1
    <3>2. b # count => b \in Nat /\ count - 1 \in Nat /\ b <= count - 1
      BY <1>2
    <3>3. QED BY <3>1, <3>2
  <2> DEFINE hi == b * BatchSize
             top == (count - 1) * BatchSize
  <2>4. end(b) = IF hi <= L THEN hi ELSE L
    <3>1. hi \in Int /\ L \in Int
      BY <1>1, <2>1
    <3> HIDE DEF hi
    <3>2. QED BY <3>1, MinOfTwo DEF hi
  <2> DEFINE low == lo(b)
  <2>5. /\ low \in Nat /\ hi = low + BatchSize /\ low <= top /\ top \in Nat /\ top < L
        /\ b # count => hi <= top
    BY <1>2, <2>1, <2>2, <2>3
  <2> HIDE DEF hi, top, low, count, L
  <2>6. /\ low \in Nat /\ low < L /\ hi = low + BatchSize
        /\ b # count => low + BatchSize < L
    BY <1>1, <2>5
  <2>7. QED
    BY <1>1, <2>4, <2>6 DEF hi, low, L
<1>4. ASSUME NEW b \in 1 .. count
      PROVE  /\ page(b) = [i \in 1 .. end(b) - lo(b) |-> all[lo(b) + i]]
             /\ page(b) \in Seq(S)
  <2> DEFINE low == lo(b)
             hi == end(b)
  <2>1. low \in Nat /\ hi \in Nat /\ low < hi /\ hi <= L
    BY <1>3
  <2> HIDE DEF low, hi, L
  <2>2. batch(b) = SubSeq(numbers, low + 1, hi)
    BY DEF low, hi
  <2>3. /\ SubSeq(numbers, low + 1, hi) = [i \in 1 .. hi - low |-> numbers[low + i]]
        /\ \A i \in 1 .. hi - low : numbers[low + i] \in Nat
    BY <2>1 DEF L
  <2>4. page(b) = [i \in 1 .. hi - low |-> Redact(numbers[low + i])]
    BY <2>2, <2>3
  <2>5. \A i \in 1 .. hi - low : all[low + i] = Redact(numbers[low + i])
    BY <2>1 DEF L
  <2> HIDE DEF all
  <2>6. page(b) = [i \in 1 .. hi - low |-> all[low + i]]
    BY <2>4, <2>5
  <2>7. hi - low \in Nat /\ \A i \in 1 .. hi - low : all[low + i] \in S
    <3>1. \A n \in Nat : Redact(n) \in S
      OBVIOUS
    <3> HIDE DEF S
    <3>2. \A i \in 1 .. hi - low : all[low + i] \in S
      BY <2>3, <2>5, <3>1, Zenon
    <3>3. QED BY <2>1, <3>2
  <2> HIDE DEF S, page
  <2>8. page(b) \in Seq(S)
    BY <2>6, <2>7
  <2>9. QED BY <2>6, <2>8 DEF low, hi
<1>5. SanitizeAndFormatLines(numbers) = FlattenSeq(pages)
  BY DEF SanitizeAndFormatLines
<1> HIDE DEF page, end
<1>6. CASE count = 0
  <2>1. L = 0
    BY <1>1, <1>2, <1>6
  <2>2. pages = << >>
    BY <1>6
  <2>3. FlattenSeq(<< >>) = << >>
    BY DEF FlattenSeq
  <2>4. [i \in 1 .. L |-> Redact(numbers[i])] = << >>
    <3> HIDE DEF L
    <3> QED BY <2>1
  <2> HIDE DEF pages
  <2>5. QED BY <1>5, <2>2, <2>3, <2>4
<1>7. CASE count # 0
  <2> HIDE DEF count, S
  <2>1. pages \in Seq(Seq(S)) /\ pages # << >> /\ Len(pages) = count
    <3>1. pages \in [1 .. count -> Seq(S)]
      BY <1>4
    <3> HIDE DEF pages
    <3>2. QED BY <1>2, <1>7, <3>1
  <2>2. PICK f : /\ f = [i \in 1 .. count |-> IF i = 1 THEN pages[i] ELSE f[i - 1] \o pages[i]]
                 /\ FlattenSeq(pages) = f[count]
    BY <2>1, Flatten
  <2>3. \A b \in 1 .. count : f[b] = IF b = 1 THEN page(b) ELSE f[b - 1] \o page(b)
    BY <2>2
  <2> DEFINE Bad == {b \in 1 .. count : f[b] # upTo(b)}
  <2>4. Bad = {}
    <3>1. SUFFICES ASSUME Bad # {} PROVE FALSE
      OBVIOUS
    <3>2. PICK b \in Bad : \A c \in Bad : b <= c
      <4>1. Bad \in SUBSET Nat
        OBVIOUS
      <4> HIDE DEF Bad
      <4>2. QED BY <3>1, <4>1, Least
    <3>3. b \in 1 .. count /\ b \in Nat /\ count \in Nat
      BY <1>2
    <3> DEFINE low == lo(b)
               hi == end(b)
    <3>4. /\ low \in Nat /\ hi \in Nat /\ low < hi /\ hi <= L
          /\ page(b) = [i \in 1 .. hi - low |-> all[low + i]]
          /\ upTo(b) = [i \in 1 .. hi |-> all[i]]
      BY <1>3, <1>4, <3>3
    <3>5. CASE b = 1
      <4>1. low = 0
        BY <1>1, <3>5
      <4> HIDE DEF low, hi
      <4>2. page(b) = upTo(b)
        BY <3>4, <4>1
      <4>3. QED BY <2>3, <3>2, <3>3, <3>5, <4>2
    <3>6. CASE b # 1
      <4>1. b - 1 \in 1 .. count /\ ~ (b <= b - 1)
        BY <3>3, <3>6
      <4>2. b - 1 \notin Bad
        BY <3>2, <4>1
      <4>3. f[b - 1] = upTo(b - 1)
        BY <4>1, <4>2
      <4>4. end(b - 1) = low
        <5> DEFINE c == b - 1
        <5>1. c \in 1 .. count /\ c # count /\ c * BatchSize = low
          BY <3>3, <4>1
        <5> HIDE DEF c
        <5>2. /\ lo(c) \in Nat /\ c * BatchSize = lo(c) + BatchSize
              /\ end(c) = IF lo(c) + BatchSize <= L THEN lo(c) + BatchSize ELSE L
              /\ c # count => lo(c) + BatchSize < L
          BY <1>3, <5>1
        <5> DEFINE below == lo(c)
        <5> HIDE DEF below, L, low
        <5>3. end(c) = low
          BY <1>1, <5>1, <5>2 DEF below
        <5>4. QED BY <5>3 DEF c
      <4>5. f[b - 1] = [i \in 1 .. low |-> all[i]]
        BY <4>3, <4>4
      <4> HIDE DEF low, hi, upTo
      <4>6. [i \in 1 .. low |-> all[i]] \o
              [i \in 1 .. hi - low |-> all[low + i]]
            = [i \in 1 .. hi |-> all[i]]
        BY <3>4, Joined
      <4>7. f[b] = f[b - 1] \o page(b)
        BY <2>3, <3>3, <3>6
      <4>8. f[b] = upTo(b)
        BY <3>4, <4>5, <4>6, <4>7
      <4>9. QED BY <3>2, <4>8
    <3>7. QED BY <3>5, <3>6
  <2>5. f[count] = upTo(count) /\ count \in 1 .. count
    BY <1>2, <1>7, <2>4
  <2>6. end(count) = L
    <3>1. /\ count * BatchSize >= L /\ count * BatchSize = lo(count) + BatchSize
          /\ end(count) = IF lo(count) + BatchSize <= L THEN lo(count) + BatchSize ELSE L
          /\ lo(count) \in Nat
      BY <1>2, <1>3, <2>5
    <3> DEFINE low == lo(count)
    <3> HIDE DEF low, L
    <3>2. QED BY <1>1, <3>1 DEF low
  <2>7. upTo(count) = all
    BY <2>6
  <2>8. QED BY <1>5, <2>2, <2>5, <2>7
<1>8. QED BY <1>6, <1>7

\* The first line of a range and the last one that is there, and how many there are.
FirstLine(spec) == IF spec.start = Unset THEN 1 ELSE spec.start
LastLine(n, spec) == IF spec.stop = Unset \/ ~ (spec.stop <= n) THEN n ELSE spec.stop
Span(first, last) == IF first <= last THEN last - first + 1 ELSE 0

\* The scan numbers the lines of the range, from its first to its last
\* (readLinesInRange).
LEMMA ReadRange ==
  ASSUME NEW lines, Len(lines) \in Nat, NEW spec \in FileSpec, ValidRange(spec)
  PROVE  ReadLinesInRange(lines, spec) =
           [i \in 1 .. Span(FirstLine(spec), LastLine(Len(lines), spec)) |->
              FirstLine(spec) + i - 1]
<1> DEFINE N == Len(lines)
           first == FirstLine(spec)
           last == LastLine(N, spec)
           over(n) == n > N \/ (spec.stop # Unset /\ n > spec.stop)
           from(n) == IF n < first THEN first ELSE n
           rest(n) == [i \in 1 .. Span(from(n), last) |-> from(n) + i - 1]
           item(n) == IF n < first THEN << >> ELSE << n >>
<1>1. /\ N \in Nat /\ first \in Nat /\ first >= 1 /\ last \in Int /\ last <= N
      /\ \A n \in 1 .. N + 1 : over(n) <=> n > last
  BY ToolsAssumption DEF FileSpec, ValidRange, FirstLine, LastLine
<1>2. ASSUME NEW n \in 1 .. N + 1, over(n) PROVE rest(n) = << >>
  <2>1. n > last
    BY <1>1, <1>2
  <2> HIDE DEF last, first
  <2>2. Span(from(n), last) = 0
    BY <1>1, <2>1 DEF Span
  <2>3. QED BY <2>2
<1>3. ASSUME NEW n \in 1 .. N + 1, ~over(n)
      PROVE  n + 1 \in 1 .. N + 1 /\ rest(n) = item(n) \o rest(n + 1)
  <2>1. n <= last
    BY <1>1, <1>3
  <2> HIDE DEF last, first, N, over
  <2>2. n + 1 \in 1 .. N + 1
    BY <1>1, <2>1
  <2>3. CASE n < first
    <3>1. from(n + 1) = from(n) /\ item(n) = << >>
      BY <1>1, <2>3
    <3>2. rest(n + 1) = rest(n)
      BY <3>1
    <3>3. rest(n) \in Seq(Int)
      BY <1>1, <2>1, <2>3 DEF Span
    <3>4. \A s \in Seq(Int) : << >> \o s = s
      OBVIOUS
    <3> HIDE DEF rest, item
    <3>5. QED BY <2>2, <3>1, <3>2, <3>3, <3>4
  <2>4. CASE n >= first
    <3> DEFINE g == [i \in 1 .. N + 1 |-> n + i - 1]
               m == last - n
    <3>1. m \in Nat /\ Span(from(n), last) = 1 + m /\ Span(from(n + 1), last) = m
          /\ from(n) = n /\ from(n + 1) = n + 1
      BY <1>1, <2>1, <2>4 DEF Span
    <3>2. [i \in 1 .. 1 |-> g[i]] \o [i \in 1 .. m |-> g[1 + i]] = [i \in 1 .. 1 + m |-> g[i]]
      <4> HIDE DEF g, m
      <4>1. QED BY <3>1, Joined
    <3>3. item(n) = [i \in 1 .. 1 |-> g[i]]
      BY <1>1, <2>4
    <3>4. rest(n + 1) = [i \in 1 .. m |-> g[1 + i]]
      <4>1. 1 + m <= N + 1
        BY <1>1, <2>4
      <4> HIDE DEF m
      <4>2. \A i \in 1 .. m : from(n + 1) + i - 1 = g[1 + i]
        BY <1>1, <3>1, <4>1
      <4> HIDE DEF g, from
      <4>3. QED BY <3>1, <4>2
    <3>5. rest(n) = [i \in 1 .. 1 + m |-> g[i]]
      <4>1. 1 + m <= N + 1
        BY <1>1, <2>4
      <4> HIDE DEF m
      <4>2. QED BY <1>1, <3>1, <4>1
    <3>6. QED BY <2>2, <3>2, <3>3, <3>4, <3>5
  <2>5. n < first \/ n >= first
    BY <1>1
  <2>6. QED BY <2>3, <2>4, <2>5
<1> DEFINE scan[n \in 1 .. N + 1] == IF over(n) THEN << >> ELSE item(n) \o scan[n + 1]
<1>4. ReadLinesInRange(lines, spec) = scan[1]
  BY DEF ReadLinesInRange, FirstLine
<1> HIDE DEF over, rest, item
<1>5. \E f : f = [n \in 1 .. N + 1 |-> IF over(n) THEN << >> ELSE item(n) \o f[n + 1]]
  <2> DEFINE f == [n \in 1 .. N + 1 |-> rest(n)]
  <2>1. f = [n \in 1 .. N + 1 |-> IF over(n) THEN << >> ELSE item(n) \o f[n + 1]]
    BY <1>2, <1>3
  <2>2. QED BY <2>1
<1>6. scan = [n \in 1 .. N + 1 |-> IF over(n) THEN << >> ELSE item(n) \o scan[n + 1]]
  BY <1>5, Zenon
<1> HIDE DEF scan
<1>7. scan[1] = rest(1)
  <2> DEFINE Bad == {k \in 0 .. N : scan[N + 1 - k] # rest(N + 1 - k)}
  <2>1. SUFFICES ASSUME Bad # {} PROVE FALSE
    BY <1>1
  <2>2. Bad \in SUBSET Nat
    OBVIOUS
  <2>3. PICK k \in Bad : \A l \in Bad : k <= l
    <3> HIDE DEF Bad
    <3> QED BY <2>1, <2>2, Least
  <2> DEFINE n == N + 1 - k
  <2>4. n \in 1 .. N + 1 /\ k \in 0 .. N /\ scan[n] # rest(n)
    BY <1>1
  <2>5. CASE over(n)
    BY <1>2, <1>6, <2>4, <2>5
  <2>6. CASE ~over(n)
    <3>1. n + 1 \in 1 .. N + 1 /\ rest(n) = item(n) \o rest(n + 1)
      BY <1>3, <2>4, <2>6
    <3>2. scan[n] = item(n) \o scan[n + 1]
      BY <1>6, <2>4, <2>6
    <3>3. k - 1 \in 0 .. N /\ k - 1 \notin Bad /\ N + 1 - (k - 1) = n + 1
      <4>1. k - 1 \in 0 .. N /\ N + 1 - (k - 1) = n + 1 /\ ~ (k <= k - 1)
        BY <1>1, <2>4, <3>1
      <4> HIDE DEF Bad
      <4>2. QED BY <2>3, <4>1
    <3>4. scan[n + 1] = rest(n + 1)
      BY <3>3
    <3>5. QED BY <2>4, <3>1, <3>2, <3>4
  <2>7. QED BY <2>5, <2>6
<1>8. from(1) = first
  BY <1>1
<1>9. QED BY <1>4, <1>7, <1>8 DEF rest

\* The numbers from one to another.
LEMMA Interval ==
  ASSUME NEW a \in Int, NEW b \in Int
  PROVE  IsFiniteSet(a .. b) /\ Cardinality(a .. b) = Span(a, b)
BY FS_Interval DEF Span

\* The page that the tool makes of one file is the one it owes: the whole range,
\* in order, redacted unless the call asked otherwise, or an error
\* (processSingleFile).
LEMMA OwedPage ==
  ASSUME config \in Configs, NEW spec \in FileSpec, ValidRange(spec),
         NEW sanitize \in BOOLEAN \cup {Unset}
  PROVE  ProcessSingleFile(spec, config.disk, sanitize # FALSE) = Owed(spec, sanitize)
<1> DEFINE lines == File(spec.path).lines
           N == Len(lines)
           first == FirstLine(spec)
           last == LastLine(N, spec)
           sp == Span(first, last)
           wanted == {n \in DOMAIN lines : /\ spec.start # Unset => n >= spec.start
                                           /\ spec.stop # Unset => n <= spec.stop}
           numbers == [i \in 1 .. sp |-> first + i - 1]
           bare == sanitize = FALSE
           item(n) == [line |-> n, raw |-> bare]
           owed == [k \in 1 .. Cardinality(wanted) |->
                     [line |-> CHOOSE n \in wanted : Cardinality({m \in wanted : m <= n}) = k,
                      raw |-> bare]]
<1>1. /\ lines \in Seq(Line) /\ N \in Nat /\ DOMAIN lines = 1 .. N
      /\ spec.path \in Paths /\ config.disk[spec.path] = File(spec.path)
  <2>1. config \in Config
    BY AnalysisAssumption
  <2>2. spec.path \in Paths
    BY DEF FileSpec
  <2>3. File(spec.path) \in Entry
    BY <2>1, <2>2 DEF Config, File
  <2>4. lines \in Seq(Line)
    BY <2>3 DEF Entry
  <2> HIDE DEF lines
  <2>5. QED BY <2>2, <2>4 DEF File
<1> HIDE DEF lines
<1>2. /\ first \in Nat /\ first >= 1 /\ last \in Int /\ last <= N
      /\ wanted = first .. last /\ sp \in Nat
      /\ sp > 0 => sp = last - first + 1
  BY <1>1, ToolsAssumption DEF FileSpec, ValidRange, FirstLine, LastLine, Span
<1>3. TooLong(lines, spec) <=> \E n \in DOMAIN lines :
        lines[n].size >= ScanLimit /\ (spec.stop # Unset => n <= spec.stop + 1)
  <2>1. CASE spec.stop = Unset
    BY <1>1, <2>1 DEF TooLong, Scanned
  <2>2. CASE spec.stop # Unset
    <3>1. spec.stop + 1 \in Int
      BY <2>2 DEF FileSpec
    <3>2. Scanned(lines, spec) = IF N <= spec.stop + 1 THEN N ELSE spec.stop + 1
      BY <1>1, <2>2, <3>1, MinOfTwo DEF Scanned
    <3>3. \A n \in DOMAIN lines : n \in 1 .. Scanned(lines, spec) <=> n <= spec.stop + 1
      BY <1>1, <3>1, <3>2
    <3>4. 1 .. Scanned(lines, spec) \subseteq DOMAIN lines
      BY <1>1, <3>1, <3>2
    <3>5. QED BY <2>2, <3>3, <3>4 DEF TooLong
  <2>3. QED BY <2>1, <2>2
<1>4. ReadLinesInRange(lines, spec) = numbers
  BY <1>1, ReadRange
<1>5. numbers \in Seq(Nat) /\ Len(numbers) = sp
  <2> HIDE DEF first, sp
  <2>1. numbers \in [1 .. sp -> Nat]
    BY <1>2
  <2> HIDE DEF numbers
  <2>2. QED BY <1>2, <2>1
<1>6. ProcessLines(numbers, sanitize # FALSE) = [i \in 1 .. sp |-> item(first + i - 1)]
  <2> HIDE DEF first, sp
  <2>1. \A i \in 1 .. sp : numbers[i] = first + i - 1
    OBVIOUS
  <2> HIDE DEF numbers
  <2> DEFINE b == bare
             made == ProcessLines(numbers, ~b)
  <2>2. CASE b
    <3>1. made = [i \in DOMAIN numbers |-> Bare(numbers[i])]
      BY <2>2 DEF ProcessLines
    <3>2. DOMAIN numbers = 1 .. sp
      BY <1>5
    <3> HIDE DEF made
    <3>3. made = [i \in 1 .. sp |-> item(first + i - 1)]
      BY <2>1, <2>2, <3>1, <3>2 DEF Bare
    <3>4. QED BY <3>3 DEF made
  <2>3. CASE ~b
    <3>1. made = SanitizeAndFormatLines(numbers)
      BY <2>3 DEF ProcessLines
    <3>2. SanitizeAndFormatLines(numbers) = [i \in 1 .. sp |-> Redact(numbers[i])]
      BY <1>5, Batches
    <3> HIDE DEF made
    <3>3. made = [i \in 1 .. sp |-> item(first + i - 1)]
      BY <2>1, <2>3, <3>1, <3>2 DEF Redact
    <3>4. QED BY <3>3 DEF made
  <2>4. QED BY <2>2, <2>3
<1>7. owed = [i \in 1 .. sp |-> item(first + i - 1)]
  <2> HIDE DEF first, last, wanted
  <2>1. Cardinality(wanted) = sp
    BY <1>2, Interval
  <2>2. ASSUME NEW k \in 1 .. sp
        PROVE  (CHOOSE n \in wanted : Cardinality({m \in wanted : m <= n}) = k) = first + k - 1
    <3>1. ASSUME NEW n \in wanted
          PROVE  Cardinality({m \in wanted : m <= n}) = n - first + 1
      <4>1. n \in Int /\ first <= n /\ n <= last
        BY <1>2
      <4>2. {m \in wanted : m <= n} = first .. n
        BY <1>2, <4>1
      <4>3. Cardinality(first .. n) = Span(first, n)
        BY <1>2, <4>1, Interval
      <4>4. Span(first, n) = n - first + 1
        BY <1>2, <4>1 DEF Span
      <4>5. QED BY <4>2, <4>3, <4>4
    <3>2. first + k - 1 \in wanted
      <4> HIDE DEF sp
      <4> QED BY <1>2
    <3>3. \A n \in wanted : n \in Int /\ (n - first + 1 = k <=> n = first + k - 1)
      BY <1>2
    <3> HIDE DEF sp
    <3>4. QED BY <3>1, <3>2, <3>3
  <2> HIDE DEF sp
  <2>3. QED BY <2>1, <2>2
<1>8. Owed(spec, sanitize) =
        IF ~File(spec.path).readable \/ TooLong(lines, spec) THEN ErrorPage ELSE Page(owed)
  BY <1>3 DEF Owed, lines
<1>9. ProcessSingleFile(spec, config.disk, sanitize # FALSE) =
        IF ~File(spec.path).readable \/ TooLong(lines, spec) THEN ErrorPage
        ELSE Page(ProcessLines(numbers, sanitize # FALSE))
  BY <1>1, <1>4 DEF ProcessSingleFile, lines
<1>10. QED BY <1>6, <1>7, <1>8, <1>9

-----------------------------------------------------------------------------
(* The calls and their answers.                                            *)

\* A call is answered in full: the call itself, and after it the pages of its
\* files, but for those named again further on.
Answered(call, said, answer) ==
  /\ said = [role |-> "call", call |-> call]
  /\ answer.role = "answer"
  /\ \A k \in DOMAIN call.files :
       \/ answer.pages[call.files[k].path] = Owed(call.files[k], call.sanitize)
       \/ \E later \in DOMAIN call.files :
            later > k /\ call.files[later].path = call.files[k].path

\* What is executed and not refused is answered in full: of the ranges of one
\* file the last is the one that counts (processFiles).
LEMMA Executed ==
  ASSUME config \in Configs, NEW call \in Call,
         ~Execute(call, artifacts, config.disk).refused
  PROVE  \A k \in DOMAIN call.files :
           \/ Execute(call, artifacts, config.disk).pages[call.files[k].path]
                = Owed(call.files[k], call.sanitize)
           \/ \E later \in DOMAIN call.files :
                later > k /\ call.files[later].path = call.files[k].path
<1> DEFINE files == call.files
           should == call.sanitize # FALSE
           page(i) == ProcessSingleFile(files[i], config.disk, should)
           named(path) == {i \in DOMAIN files : files[i].path = path}
           answer == Execute(call, artifacts, config.disk)
<1>1. /\ files \in Seq(FileSpec) /\ call.sanitize \in BOOLEAN \cup {Unset}
  BY DEF Call
<1>2. /\ ValidateAllFiles(files, artifacts)
      /\ answer = ProcessFiles(files, config.disk, should)
  BY DEF Execute, Refused
<1> HIDE DEF answer
<1>3. answer.pages = [path \in {files[i].path : i \in DOMAIN files} |-> page(Max(named(path)))]
  <2>1. ~answer.refused
    BY DEF answer
  <2> DEFINE pages == [path \in {files[i].path : i \in DOMAIN files} |-> page(Max(named(path)))]
             alone == Len(files) = 1 /\ page(1).error
  <2>2. answer = IF alone THEN Refused ELSE [refused |-> FALSE, pages |-> pages]
    BY <1>2 DEF ProcessFiles
  <2> HIDE DEF pages, alone
  <2>3. answer = [refused |-> FALSE, pages |-> pages]
    BY <2>1, <2>2 DEF Refused
  <2>4. QED BY <2>3 DEF pages
<1>4. SUFFICES ASSUME NEW k \in DOMAIN files,
                      \A later \in DOMAIN files : later > k => files[later].path # files[k].path
               PROVE  answer.pages[files[k].path] = Owed(files[k], call.sanitize)
  BY DEF answer
<1>5. Max(named(files[k].path)) = k
  <2> DEFINE T == named(files[k].path)
  <2>1. k \in T /\ \A i \in T : i \in Nat /\ k >= i
    BY <1>1, <1>4
  <2> HIDE DEF T
  <2>2. \A x \in T : (\A y \in T : x >= y) => x = k
    BY <2>1
  <2>3. Max(T) = k
    BY <2>1, <2>2 DEF Max
  <2>4. QED BY <2>3 DEF T
<1>6. answer.pages[files[k].path] = page(k)
  BY <1>3, <1>5
<1>7. files[k] \in FileSpec /\ ValidRange(files[k])
  BY <1>1, <1>2 DEF ValidateAllFiles
<1>8. page(k) = Owed(files[k], call.sanitize)
  BY <1>1, <1>7, OwedPage
<1>9. QED BY <1>6, <1>8

\* Before the conversation nothing was said.  While it goes on, the calls are
\* those answered, each in full, and then those still in the queue.
Handled == Len(calls) - Len(queue)

AnsweredInv ==
  /\ config \in Configs
  /\ calls \in Seq(Call) /\ queue \in Seq(Call) /\ conv \in Seq(ToSet(conv))
  /\ pc \in {"new", "collect", "junit", "prompt"} => calls = << >> /\ queue = << >>
  /\ pc \in {"ask", "tools"} =>
       /\ Handled \in Nat /\ Len(conv) = 1 + 2 * Handled
       /\ \A i \in 1 .. Handled : Answered(calls[i], conv[2 * i], conv[2 * i + 1])
       /\ \A i \in DOMAIN queue : queue[i] = calls[Handled + i]
  /\ pc = "ask" => queue = << >>

\* A sequence is one of its own items.
LEMMA OwnItems ==
  ASSUME NEW S, NEW s \in Seq(S)
  PROVE  s \in Seq(ToSet(s))
<1>1. s \in [1 .. Len(s) -> ToSet(s)] /\ Len(s) \in Nat
  BY DEF ToSet
<1>2. QED BY <1>1

\* It holds before anything is said.
LEMMA AnsweredInit == Init => AnsweredInv
<1>1. << >> \in Seq(Call) /\ << >> \in Seq(ToSet(<< >>))
  OBVIOUS
<1>2. QED BY <1>1 DEF Init, AnsweredInv

\* The actions that say nothing to the model and ask it nothing keep it.
LEMMA AnsweredApart ==
  ASSUME AnsweredInv, UNCHANGED << config, calls, queue, conv >>,
         pc' \in {"ask", "tools"} => pc' = pc,
         pc' \in {"new", "collect", "junit", "prompt"} =>
           pc \in {"new", "collect", "junit", "prompt"}
  PROVE  AnsweredInv'
<1>1. Handled' = Handled
  BY DEF Handled
<1>2. \A c, s, a : Answered(c, s, a)' <=> Answered(c, s, a)
  BY DEF Answered, Owed, File
<1>3. QED BY <1>1, <1>2 DEF AnsweredInv

\* The first message of the conversation is the prompt.
LEMMA AnsweredPrompt == AnsweredInv /\ Analyze => AnsweredInv'
<1> SUFFICES ASSUME AnsweredInv, Analyze PROVE AnsweredInv'
  OBVIOUS
<1> DEFINE prompt == IF Tests THEN TestPrompt ELSE KrknPrompt
<1>1. /\ config' = config /\ pc' = "ask" /\ conv' = << prompt >>
      /\ calls' = << >> /\ queue' = << >>
  BY DEF Analyze, collected, AnsweredInv
<1> HIDE DEF prompt
<1>2. << prompt >> \in Seq({prompt}) /\ Len(<< prompt >>) = 1
  OBVIOUS
<1>3. conv' \in Seq(ToSet(conv))' /\ Len(conv') = 1
  BY <1>1, <1>2, OwnItems
<1>4. << >> \in Seq(Call) /\ Len(<< >>) = 0
  OBVIOUS
<1>5. Handled' = 0
  BY <1>1, <1>4 DEF Handled
<1>6. QED BY <1>1, <1>3, <1>4, <1>5 DEF AnsweredInv

\* A reply brings calls that are still to be handled, all of them.
LEMMA AnsweredReply ==
  ASSUME AnsweredInv, NEW reply \in config.replies, GenerateContent(reply)
  PROVE  AnsweredInv'
<1>1. CASE reply.came # "answer"
  <2>1. /\ UNCHANGED << config, calls, queue, conv >>
        /\ pc' \in {"report", "over"}
    BY <1>1 DEF GenerateContent, Fail, collected
  <2>2. QED BY <2>1, AnsweredApart
<1>2. CASE reply.came = "answer"
  <2>1. /\ UNCHANGED << config, conv >> /\ pc = "ask" /\ pc' \in {"write", "tools"}
        /\ queue' = reply.calls /\ calls' = calls \o reply.calls
    BY <1>2 DEF GenerateContent, collected
  <2>2. reply.calls \in Seq(Call)
    <3>1. config \in Config
      BY AnalysisAssumption DEF AnsweredInv
    <3>2. config.replies \in SUBSET Reply
      BY <3>1 DEF Config
    <3>3. QED BY <3>2 DEF Reply
  <2>3. calls \in Seq(Call) /\ Handled = Len(calls)
    <3>1. queue = << >> /\ calls \in Seq(Call)
      BY <2>1 DEF AnsweredInv
    <3>2. QED BY <3>1 DEF Handled
  <2> DEFINE new == reply.calls
             all == calls \o reply.calls
  <2>4. /\ all \in Seq(Call) /\ Len(all) = Len(calls) + Len(new)
        /\ \A i \in DOMAIN calls : all[i] = calls[i]
        /\ \A i \in DOMAIN new : all[Len(calls) + i] = new[i]
    <3>1. \A s, t \in Seq(Call) :
            /\ s \o t \in Seq(Call) /\ Len(s \o t) = Len(s) + Len(t)
            /\ \A i \in DOMAIN s : (s \o t)[i] = s[i]
            /\ \A i \in DOMAIN t : (s \o t)[Len(s) + i] = t[i]
      OBVIOUS
    <3>2. QED BY <2>2, <2>3, <3>1
  <2> HIDE DEF all, new
  <2>5. calls' = all /\ queue' = new
    BY <2>1 DEF all, new
  <2>6. Handled' = Handled
    <3>1. Handled' = Len(all) - Len(new)
      BY <2>5 DEF Handled
    <3>2. Len(new) \in Nat /\ Len(calls) \in Nat
      BY <2>2, <2>3 DEF new
    <3>3. QED BY <2>3, <2>4, <3>1, <3>2
  <2>7. \A i \in 1 .. Handled' : Answered(calls'[i], conv'[2 * i], conv'[2 * i + 1])
    <3>1. \A i \in 1 .. Handled : Answered(calls[i], conv[2 * i], conv[2 * i + 1])
      BY <2>1 DEF AnsweredInv
    <3>2. 1 .. Handled = DOMAIN calls
      BY <2>3
    <3>3. \A i \in 1 .. Handled : calls'[i] = calls[i]
      BY <2>4, <2>5, <3>2
    <3>4. QED BY <2>1, <2>6, <3>1, <3>3
  <2>8. (\A i \in 1 .. Handled : Answered(calls[i], conv[2 * i], conv[2 * i + 1]))'
    <3>1. \A c, s, a : Answered(c, s, a)' <=> Answered(c, s, a)
      BY <2>1 DEF Answered, Owed, File
    <3>2. QED BY <2>7, <3>1
  <2>9. QED
    BY <2>1, <2>2, <2>3, <2>4, <2>5, <2>6, <2>8 DEF AnsweredInv, new
<1>3. QED BY <1>1, <1>2

\* A call is handled and its answer said, or the conversation is over.
LEMMA AnsweredCall == AnsweredInv /\ HandleToolCall => AnsweredInv'
<1> SUFFICES ASSUME AnsweredInv, HandleToolCall PROVE AnsweredInv'
  OBVIOUS
<1> DEFINE answer == Execute(Head(queue), artifacts, config.disk)
           said == [role |-> "call", call |-> Head(queue)]
           told == [role |-> "answer", pages |-> answer.pages]
<1>1. /\ UNCHANGED << config, calls >> /\ pc = "tools" /\ queue # << >>
      /\ config \in Configs /\ queue \in Seq(Call) /\ calls \in Seq(Call)
      /\ conv \in Seq(ToSet(conv))
  BY DEF HandleToolCall, collected, AnsweredInv
<1>2. CASE answer.refused
  <2>1. /\ UNCHANGED << queue, conv >> /\ pc' \in {"report", "over"}
    BY <1>2 DEF HandleToolCall, Fail
  <2>2. QED BY <1>1, <2>1, AnsweredApart
<1>3. CASE ~answer.refused
  <2>1. /\ conv' = conv \o << said, told >> /\ queue' = Tail(queue) /\ pc' = "tools"
    BY <1>1, <1>3 DEF HandleToolCall, Turn
  <2>2. /\ Head(queue) \in Call /\ Len(queue) \in Nat /\ Len(queue) >= 1
        /\ Tail(queue) \in Seq(Call) /\ Len(Tail(queue)) = Len(queue) - 1
        /\ Head(queue) = queue[1]
        /\ \A i \in DOMAIN Tail(queue) : i + 1 \in DOMAIN queue /\ Tail(queue)[i] = queue[i + 1]
    BY <1>1
  <2>3. /\ Handled \in Nat /\ Len(conv) = 1 + 2 * Handled
        /\ \A i \in 1 .. Handled : Answered(calls[i], conv[2 * i], conv[2 * i + 1])
        /\ \A i \in DOMAIN queue : queue[i] = calls[Handled + i]
    BY <1>1 DEF AnsweredInv
  <2>4. Handled' = Handled + 1
    BY <1>1, <2>1, <2>2 DEF Handled
  <2>5. Answered(Head(queue), said, told)
    <3>1. \A k \in DOMAIN Head(queue).files :
            \/ answer.pages[Head(queue).files[k].path]
                 = Owed(Head(queue).files[k], Head(queue).sanitize)
            \/ \E later \in DOMAIN Head(queue).files :
                 later > k /\ Head(queue).files[later].path = Head(queue).files[k].path
      BY <1>1, <1>3, <2>2, Executed
    <3> DEFINE pages == answer.pages
    <3> HIDE DEF answer
    <3>2. told.role = "answer" /\ told.pages = pages
      OBVIOUS
    <3> HIDE DEF pages, told
    <3>3. QED BY <3>1, <3>2 DEF Answered, pages
  <2> HIDE DEF answer, said, told
  <2>6. /\ conv' \in Seq(ToSet(conv) \cup {said, told}) /\ Len(conv') = Len(conv) + 2
        /\ \A i \in 1 .. Len(conv) : conv'[i] = conv[i]
        /\ conv'[Len(conv) + 1] = said /\ conv'[Len(conv) + 2] = told
    <3> DEFINE S == ToSet(conv) \cup {said, told}
    <3>1. conv \in Seq(S)
      <4>1. conv \in [1 .. Len(conv) -> ToSet(conv)] /\ Len(conv) \in Nat
        BY <1>1
      <4>2. conv \in [1 .. Len(conv) -> S]
        BY <4>1
      <4> HIDE DEF S
      <4>3. QED BY <4>1, <4>2
    <3>2. << said, told >> \in Seq(S)
      OBVIOUS
    <3> HIDE DEF S
    <3>3. /\ conv \o << said, told >> \in Seq(S)
          /\ Len(conv \o << said, told >>) = Len(conv) + 2
          /\ \A i \in 1 .. Len(conv) : (conv \o << said, told >>)[i] = conv[i]
          /\ (conv \o << said, told >>)[Len(conv) + 1] = said
          /\ (conv \o << said, told >>)[Len(conv) + 2] = told
      BY <3>1, <3>2
    <3>4. QED BY <2>1, <3>3 DEF S
  <2>7. conv' \in Seq(ToSet(conv))'
    BY <2>6, OwnItems
  <2>8. Len(conv') = 1 + 2 * Handled'
    BY <2>3, <2>4, <2>6
  <2>9. ASSUME NEW i \in 1 .. Handled'
        PROVE  Answered(calls[i], conv'[2 * i], conv'[2 * i + 1])
    <3>1. CASE i \in 1 .. Handled
      <4>1. 2 * i \in 1 .. Len(conv) /\ 2 * i + 1 \in 1 .. Len(conv)
        BY <2>3, <3>1
      <4>2. QED BY <2>3, <2>6, <3>1, <4>1
    <3>2. CASE i = Handled + 1
      <4>1. 2 * i = Len(conv) + 1 /\ 2 * i + 1 = Len(conv) + 2
        BY <2>3, <3>2
      <4>2. calls[i] = Head(queue)
        <5>1. 1 \in DOMAIN queue
          BY <1>1, <2>2
        <5>2. QED BY <2>2, <2>3, <3>2, <5>1
      <4>3. QED BY <2>5, <2>6, <4>1, <4>2
    <3>3. QED BY <2>3, <2>4, <3>1, <3>2
  <2>10. (\A i \in 1 .. Handled : Answered(calls[i], conv[2 * i], conv[2 * i + 1]))'
    <3>1. \A c, s, a : Answered(c, s, a)' <=> Answered(c, s, a)
      BY <1>1 DEF Answered, Owed, File
    <3>2. QED BY <1>1, <2>9, <3>1
  <2>11. \A i \in DOMAIN queue' : queue'[i] = calls'[Handled' + i]
    <3>1. \A i \in DOMAIN Tail(queue) : Tail(queue)[i] = calls[Handled + (i + 1)]
      BY <2>2, <2>3
    <3>2. \A i \in DOMAIN Tail(queue) : i \in Nat /\ Handled + (i + 1) = Handled + 1 + i
      BY <2>2, <2>3
    <3>3. QED BY <1>1, <2>1, <2>4, <3>1, <3>2
  <2>12. Handled' \in Nat /\ queue' \in Seq(Call)
    BY <2>1, <2>2, <2>3, <2>4
  <2>13. QED BY <1>1, <2>1, <2>7, <2>8, <2>10, <2>11, <2>12 DEF AnsweredInv
<1>4. QED BY <1>2, <1>3

\* Once the calls of a reply are handled, all calls are.
LEMMA AnsweredRound == AnsweredInv /\ CallsHandled => AnsweredInv'
<1> SUFFICES ASSUME AnsweredInv, CallsHandled PROVE AnsweredInv'
  OBVIOUS
<1>1. /\ UNCHANGED << config, calls, queue, conv >> /\ pc = "tools" /\ queue = << >>
      /\ pc' \in {"write", "ask"}
  BY DEF CallsHandled, NextRound, talk
<1>2. Handled' = Handled
  BY <1>1 DEF Handled
<1>3. \A c, s, a : Answered(c, s, a)' <=> Answered(c, s, a)
  BY <1>1 DEF Answered, Owed, File
<1>4. QED BY <1>1, <1>2, <1>3 DEF AnsweredInv

\* Every step keeps it.
LEMMA AnsweredStep == AnsweredInv /\ [Next]_vars => AnsweredInv'
<1> SUFFICES ASSUME AnsweredInv, [Next]_vars PROVE AnsweredInv'
  OBVIOUS
<1>1. CASE NewEngine
  BY <1>1, AnsweredApart DEF NewEngine, Fail
<1>2. CASE CollectTests \/ CollectKrkn \/ NoDirectory
  BY <1>2, AnsweredApart DEF CollectTests, CollectKrkn, NoDirectory, Fail, talk
<1>3. CASE \E path \in Paths : ParseJUnit(path) \/ Finish(path)
  BY <1>3, AnsweredApart DEF ParseJUnit, Finish, talk
<1>4. CASE Receive \/ AllReceived
  BY <1>4, AnsweredApart DEF Receive, AllReceived, talk
<1>5. CASE Analyze
  BY <1>5, AnsweredPrompt
<1>6. CASE \E reply \in config.replies : GenerateContent(reply)
  BY <1>6, AnsweredReply
<1>7. CASE HandleToolCall
  BY <1>7, AnsweredCall
<1>8. CASE CallsHandled
  BY <1>8, AnsweredRound
<1>9. CASE WriteSummary
  BY <1>9, AnsweredApart DEF WriteSummary, Fail
<1>10. CASE Report
  BY <1>10, AnsweredApart DEF Report, talk
<1>11. CASE UNCHANGED vars
  BY <1>11, AnsweredApart DEF vars
<1>12. QED
  BY <1>1, <1>2, <1>3, <1>4, <1>5, <1>6, <1>7, <1>8, <1>9, <1>10, <1>11 DEF Next

\* Whenever the model is asked again, every call it made is answered in full.
LEMMA AnsweredNow == AnsweredInv => AnsweredInFull
<1> SUFFICES ASSUME AnsweredInv, pc = "ask" PROVE
      /\ Len(conv) = 1 + 2 * Len(calls)
      /\ \A i \in DOMAIN calls : Answered(calls[i], conv[2 * i], conv[2 * i + 1])
  BY DEF AnsweredInFull, Answered
<1>1. Handled = Len(calls) /\ DOMAIN calls = 1 .. Handled
  BY DEF AnsweredInv, Handled
<1>2. QED BY <1>1 DEF AnsweredInv

\* Whatever the artifacts, the replies and the number of rounds: the model never
\* continues on a conversation in which a call of its own lacks its answer, or
\* the answer a line (handleConversationWithTools, processFunctionCalls).
THEOREM Complete == Spec => []AnsweredInFull
<1>1. Init => AnsweredInv
  BY AnsweredInit
<1>2. AnsweredInv /\ [Next]_vars => AnsweredInv'
  BY AnsweredStep
<1>3. AnsweredInv => AnsweredInFull
  BY AnsweredNow
<1>4. QED BY <1>1, <1>2, <1>3, PTL DEF Spec

-----------------------------------------------------------------------------
(* What is kept of a sequence.                                             *)

\* How many of some numbers are at most n.
RankIn(T, n) == Cardinality(T \cap (1 .. n))

\* It grows by one at each of them, and nowhere else.
LEMMA RankGrows ==
  ASSUME NEW N \in Nat, NEW T \in SUBSET (1 .. N)
  PROVE  /\ RankIn(T, 0) = 0 /\ RankIn(T, N) = Cardinality(T)
         /\ \A n \in 0 .. N : RankIn(T, n) \in Nat
         /\ \A n \in 1 .. N : RankIn(T, n) = RankIn(T, n - 1) + (IF n \in T THEN 1 ELSE 0)
<1>1. RankIn(T, 0) = 0
  <2>1. T \cap (1 .. 0) = {}
    OBVIOUS
  <2>2. QED BY <2>1, FS_EmptySet DEF RankIn
<1>2. RankIn(T, N) = Cardinality(T)
  <2>1. T \cap (1 .. N) = T
    OBVIOUS
  <2>2. QED BY <2>1 DEF RankIn
<1>3. \A n \in 0 .. N : IsFiniteSet(T \cap (1 .. n)) /\ RankIn(T, n) \in Nat
  <2>1. \A n \in 0 .. N : IsFiniteSet(1 .. n)
    BY FS_Interval
  <2>2. \A n \in 0 .. N : IsFiniteSet(T \cap (1 .. n))
    BY <2>1, FS_Intersection
  <2>3. QED BY <2>2, FS_CardinalityType DEF RankIn
<1>4. ASSUME NEW n \in 1 .. N
      PROVE  RankIn(T, n) = RankIn(T, n - 1) + (IF n \in T THEN 1 ELSE 0)
  <2> DEFINE below == T \cap (1 .. n - 1)
  <2>1. IsFiniteSet(below) /\ n \notin below
    BY <1>3
  <2>2. CASE n \in T
    <3>1. T \cap (1 .. n) = below \cup {n}
      BY <2>2
    <3> HIDE DEF below
    <3>2. Cardinality(below \cup {n}) = Cardinality(below) + 1
      BY <2>1, FS_AddElement
    <3>3. QED BY <2>2, <3>1, <3>2 DEF RankIn, below
  <2>3. CASE n \notin T
    <3>1. T \cap (1 .. n) = below
      BY <2>3
    <3>2. n - 1 \in 0 .. N
      OBVIOUS
    <3>3. RankIn(T, n - 1) \in Nat
      BY <1>3, <3>2
    <3>4. RankIn(T, n) = RankIn(T, n - 1)
      BY <3>1 DEF RankIn
    <3>5. QED BY <2>3, <3>3, <3>4
  <2>4. QED BY <2>2, <2>3
<1>5. QED BY <1>1, <1>2, <1>3, <1>4

\* A number among them has a higher rank than any number before it.
LEMMA RankRises ==
  ASSUME NEW N \in Nat, NEW T \in SUBSET (1 .. N), NEW m \in 0 .. N, NEW n \in 1 .. N, m < n
  PROVE  RankIn(T, m) <= RankIn(T, n) /\ (n \in T => RankIn(T, m) < RankIn(T, n))
<1>1. IsFiniteSet(T \cap (1 .. n)) /\ T \cap (1 .. m) \subseteq T \cap (1 .. n)
  <2>1. IsFiniteSet(1 .. n)
    BY FS_Interval
  <2>2. IsFiniteSet(T \cap (1 .. n))
    BY <2>1, FS_Intersection
  <2>3. QED BY <2>2
<1>2. /\ RankIn(T, m) <= RankIn(T, n)
      /\ RankIn(T, m) = RankIn(T, n) => T \cap (1 .. n) = T \cap (1 .. m)
  BY <1>1, FS_Subset DEF RankIn
<1>3. n \in T => T \cap (1 .. n) # T \cap (1 .. m)
  OBVIOUS
<1>4. RankIn(T, m) \in Nat /\ RankIn(T, n) \in Nat
  <2>1. \A i \in 0 .. N : RankIn(T, i) \in Nat
    BY RankGrows
  <2>2. QED BY <2>1
<1>5. QED BY <1>2, <1>3, <1>4

\* Every rank up to the number of them is that of just one of them.
LEMMA RankOnto ==
  ASSUME NEW N \in Nat, NEW T \in SUBSET (1 .. N), NEW k \in 1 .. Cardinality(T)
  PROVE  \E n \in T : RankIn(T, n) = k
<1> DEFINE reached == {n \in 0 .. N : RankIn(T, n) >= k}
<1>1. Cardinality(T) \in Nat
  <2>1. IsFiniteSet(1 .. N)
    BY FS_Interval
  <2>2. QED BY <2>1, FS_Subset, FS_CardinalityType
<1>2. N \in reached
  <2>1. RankIn(T, N) = Cardinality(T)
    BY RankGrows
  <2>2. QED BY <1>1, <2>1
<1>3. PICK n \in reached : \A m \in reached : n <= m
  <2>1. reached \in SUBSET Nat
    OBVIOUS
  <2> HIDE DEF reached
  <2>2. QED BY <1>2, <2>1, Least
<1>4. n # 0
  <2>1. RankIn(T, 0) = 0
    BY RankGrows
  <2>2. QED BY <1>1, <1>3, <2>1
<1>5. n - 1 \in 0 .. N /\ n - 1 \notin reached
  <2>1. n \in 0 .. N /\ ~ (n <= n - 1)
    BY <1>4
  <2> HIDE DEF reached
  <2>2. QED BY <1>3, <1>4, <2>1
<1>6. RankIn(T, n - 1) < k /\ RankIn(T, n) >= k
  <2>1. \A i \in 0 .. N : RankIn(T, i) \in Nat
    BY RankGrows
  <2>2. QED BY <1>1, <1>3, <1>5, <2>1
<1>7. RankIn(T, n) = RankIn(T, n - 1) + (IF n \in T THEN 1 ELSE 0) /\ RankIn(T, n - 1) \in Nat
  <2>1. /\ \A i \in 0 .. N : RankIn(T, i) \in Nat
        /\ \A i \in 1 .. N : RankIn(T, i) = RankIn(T, i - 1) + (IF i \in T THEN 1 ELSE 0)
    BY RankGrows
  <2>2. n \in 1 .. N
    BY <1>4
  <2>3. QED BY <1>5, <2>1, <2>2
<1>8. n \in T /\ RankIn(T, n) = k
  BY <1>1, <1>6, <1>7
<1>9. QED BY <1>8

\* A list of numbers in ascending order, each of them once.
Lists(e, T) ==
  /\ e \in [1 .. Cardinality(T) -> T]
  /\ \A k, l \in 1 .. Cardinality(T) : k < l => e[k] < e[l]
  /\ \A n \in T : \E k \in 1 .. Cardinality(T) : e[k] = n

\* Kept is a sequence of what is at these places, in their order.
LEMMA KeptLists ==
  ASSUME NEW seq, Len(seq) \in Nat, NEW T \in SUBSET (1 .. Len(seq))
  PROVE  /\ IsFiniteSet(T) /\ Cardinality(T) \in Nat
         /\ \E e : /\ Lists(e, T)
                   /\ Kept(seq, T) = [k \in 1 .. Cardinality(T) |-> seq[e[k]]]
<1> DEFINE N == Len(seq)
           c == Cardinality(T)
           r(n) == RankIn(T, n)
           e == [k \in 1 .. c |-> CHOOSE n \in T : r(n) = k]
           step(f, n) == IF n = 0 THEN << >>
                         ELSE IF n \in T THEN Append(f[n - 1], seq[n]) ELSE f[n - 1]
           part(n) == [k \in 1 .. r(n) |-> seq[e[k]]]
<1>1. IsFiniteSet(T) /\ c \in Nat /\ r(N) = c
  <2>1. IsFiniteSet(1 .. N)
    BY FS_Interval
  <2>2. IsFiniteSet(T)
    BY <2>1, FS_Subset
  <2>3. r(N) = c
    BY RankGrows
  <2>4. QED BY <2>2, <2>3, FS_CardinalityType
<1> DEFINE grows == /\ r(0) = 0
                    /\ \A n \in 0 .. N : r(n) \in Nat
                    /\ \A n \in 1 .. N : r(n) = r(n - 1) + (IF n \in T THEN 1 ELSE 0)
           rises == \A m \in 0 .. N, n \in 1 .. N :
                      m < n => r(m) <= r(n) /\ (n \in T => r(m) < r(n))
<1>12. grows
  BY RankGrows
<1>13. rises
  BY RankRises
<1> HIDE DEF r
<1>2. \A k \in 1 .. c : e[k] \in T /\ r(e[k]) = k
  BY RankOnto DEF r
<1>3. ASSUME NEW m \in T, NEW n \in T, m # n
      PROVE  /\ r(m) # r(n) /\ (r(m) < r(n) => m < n)
             /\ m \in Nat /\ n \in Nat
  <2>1. m \in 1 .. N /\ n \in 1 .. N
    OBVIOUS
  <2>2. CASE m < n
    <3>1. r(m) < r(n) /\ r(m) \in Nat /\ r(n) \in Nat
      BY <1>3, <2>1, <2>2, <1>12, <1>13
    <3>2. QED BY <2>2, <3>1
  <2>3. CASE n < m
    <3>1. r(n) < r(m) /\ r(m) \in Nat /\ r(n) \in Nat
      BY <1>3, <2>1, <2>3, <1>12, <1>13
    <3>2. QED BY <2>3, <3>1
  <2>4. QED BY <1>3, <2>1, <2>2, <2>3
<1>4. \A n \in T : r(n) \in 1 .. c /\ e[r(n)] = n
  <2>1. ASSUME NEW n \in T PROVE r(n) \in 1 .. c /\ e[r(n)] = n
    <3>1. n \in 1 .. N /\ r(0) = 0 /\ r(0) < r(n) /\ r(n) \in Nat /\ r(n) <= r(N)
      <4>1. n \in 1 .. N /\ 0 < n /\ r(0) = 0 /\ r(n) \in Nat /\ r(N) \in Nat
        BY <1>12
      <4>2. r(0) < r(n)
        BY <4>1, <1>13
      <4>3. n # N => r(n) <= r(N)
        BY <4>1, <1>13
      <4>4. QED BY <4>1, <4>2, <4>3
    <3>2. r(n) \in 1 .. c
      BY <1>1, <3>1
    <3>3. e[r(n)] \in T /\ r(e[r(n)]) = r(n)
      BY <1>2, <3>2
    <3> HIDE DEF e, r
    <3>4. QED BY <1>3, <3>2, <3>3
  <2>2. QED BY <2>1
<1>5. Lists(e, T)
  <2>1. e \in [1 .. c -> T]
    BY <1>2
  <2>2. ASSUME NEW k \in 1 .. c, NEW l \in 1 .. c, k < l PROVE e[k] < e[l]
    <3>1. e[k] \in T /\ e[l] \in T /\ r(e[k]) = k /\ r(e[l]) = l
      BY <1>2
    <3> HIDE DEF e, r
    <3>2. e[k] # e[l] /\ r(e[k]) < r(e[l])
      BY <2>2, <3>1
    <3>3. QED BY <1>3, <3>1, <3>2
  <2> HIDE DEF e
  <2>3. QED BY <1>4, <2>1, <2>2 DEF Lists
<1> DEFINE all[n \in 0 .. N] ==
             IF n = 0 THEN << >>
             ELSE IF n \in T THEN Append(all[n - 1], seq[n]) ELSE all[n - 1]
<1>6. Kept(seq, T) = all[N]
  BY DEF Kept
<1>7. ASSUME NEW n \in 1 .. N
      PROVE  part(n) = IF n \in T THEN Append(part(n - 1), seq[n]) ELSE part(n - 1)
  <2>1. n - 1 \in 0 .. N /\ r(n - 1) \in Nat /\ r(n) = r(n - 1) + (IF n \in T THEN 1 ELSE 0)
    BY <1>12
  <2>2. CASE n \in T
    <3>1. r(n) = r(n - 1) + 1 /\ e[r(n)] = n
      BY <1>4, <2>1, <2>2
    <3> DEFINE p == r(n - 1)
               S == {seq[m] : m \in T}
               V == {seq[e[k]] : k \in 1 .. p}
               short == [k \in 1 .. p |-> seq[e[k]]]
               long == [k \in 1 .. p + 1 |-> seq[e[k]]]
    <3>2. p \in Nat /\ short \in [1 .. p -> V]
      BY <2>1
    <3> HIDE DEF p, V, e
    <3>3. short \in Seq(V) /\ Len(short) = p
      BY <3>2
    <3>4. Append(short, seq[n]) = [k \in 1 .. p + 1 |-> IF k = p + 1 THEN seq[n] ELSE short[k]]
      BY <3>2, <3>3
    <3>5. \A k \in 1 .. p : short[k] = seq[e[k]]
      OBVIOUS
    <3>6. e[p + 1] = n
      BY <3>1 DEF p
    <3> HIDE DEF short
    <3>7. Append(short, seq[n]) = long
      BY <3>2, <3>4, <3>5, <3>6
    <3>8. QED BY <2>2, <3>1, <3>7 DEF short, p
  <2>3. CASE n \notin T
    BY <2>1, <2>3
  <2>4. QED BY <2>2, <2>3
<1> HIDE DEF part
<1>8. \E f : f = [n \in 0 .. N |-> step(f, n)]
  <2> DEFINE f == [n \in 0 .. N |-> part(n)]
  <2>1. part(0) = << >>
    <3>1. r(0) = 0
      BY <1>12
    <3>2. QED BY <3>1 DEF part
  <2>2. \A n \in 1 .. N : n - 1 \in 0 .. N /\ f[n - 1] = part(n - 1)
    OBVIOUS
  <2>3. ASSUME NEW n \in 0 .. N PROVE part(n) = step(f, n)
    <3>1. CASE n = 0
      BY <2>1, <3>1
    <3>2. CASE n # 0
      <4>1. n \in 1 .. N
        BY <3>2
      <4>2. QED BY <1>7, <2>2, <3>2, <4>1
    <3>3. QED BY <3>1, <3>2
  <2>4. f = [n \in 0 .. N |-> step(f, n)]
    BY <2>3
  <2>5. QED BY <2>4
<1>9. all = [n \in 0 .. N |-> step(all, n)]
  BY <1>8, Zenon
<1> HIDE DEF all
<1>10. all[N] = part(N)
  <2> DEFINE Bad == {n \in 0 .. N : all[n] # part(n)}
  <2>1. SUFFICES ASSUME Bad # {} PROVE FALSE
    OBVIOUS
  <2>2. Bad \in SUBSET Nat
    OBVIOUS
  <2>3. PICK n \in Bad : \A m \in Bad : n <= m
    <3> HIDE DEF Bad
    <3> QED BY <2>1, <2>2, Least
  <2>4. n \in 0 .. N /\ all[n] # part(n)
    OBVIOUS
  <2>5. n # 0
    <3>1. all[0] = << >>
      BY <1>9
    <3>2. r(0) = 0
      BY <1>12
    <3>3. part(0) = << >>
      BY <3>2 DEF part
    <3>4. QED BY <2>4, <3>1, <3>3
  <2>6. n \in 1 .. N /\ n - 1 \in 0 .. N /\ n - 1 \notin Bad
    <3>1. n \in 1 .. N /\ n - 1 \in 0 .. N /\ ~ (n <= n - 1)
      BY <2>4, <2>5
    <3> HIDE DEF Bad
    <3>2. QED BY <2>3, <3>1
  <2>7. all[n - 1] = part(n - 1)
    BY <2>6
  <2>8. all[n] = step(all, n)
    BY <1>9, <2>4
  <2>9. QED BY <1>7, <2>4, <2>5, <2>6, <2>7, <2>8
<1>11. Kept(seq, T) = [k \in 1 .. c |-> seq[e[k]]]
  BY <1>1, <1>6, <1>10 DEF part
<1> HIDE DEF e
<1>14. QED BY <1>1, <1>5, <1>11

-----------------------------------------------------------------------------
(* What the prompt says of the tests.                                      *)

\* The tests of a file with a status.
Ended(path, status) == {i \in DOMAIN File(path).tests : File(path).tests[i] = status}

\* They are finitely many.
LEMMA EndedFinite ==
  ASSUME config \in Configs, NEW path \in Paths, NEW status
  PROVE  IsFiniteSet(Ended(path, status)) /\ Cardinality(Ended(path, status)) \in Nat
<1>1. config \in Config
  BY AnalysisAssumption
<1>2. File(path) \in Entry
  BY <1>1 DEF Config, File
<1>3. File(path).tests \in Seq(Statuses)
  BY <1>2 DEF Entry
<1>4. IsFiniteSet(DOMAIN File(path).tests)
  <2>1. DOMAIN File(path).tests = 1 .. Len(File(path).tests) /\ Len(File(path).tests) \in Nat
    BY <1>3
  <2>2. QED BY <2>1, FS_Interval
<1>5. IsFiniteSet(Ended(path, status))
  BY <1>4, FS_Subset DEF Ended
<1>6. QED BY <1>5, FS_CardinalityType

\* Counting the tests of the suites received, one by one, is counting them file
\* by file: no file is received twice (collectTestResults).
CountOf(status) ==
  MapThenSumSet(LAMBDA path : Cardinality(Ended(path, status)), ToSet(suites))

LEMMA TestsCounted ==
  ASSUME config \in Configs, suites \in Seq(Paths), IsInjective(suites), NEW status
  PROVE  /\ IsFiniteSet(TestsOf(status))
         /\ Cardinality(TestsOf(status)) = CountOf(status)
<1> DEFINE files == ToSet(suites)
           count(path) == Cardinality(Ended(path, status))
           mine(k) == {k} \X Ended(suites[k], status)
           of(s) == UNION {mine(k) : k \in {l \in DOMAIN suites : suites[l] \in s}}
           first(s) == CHOOSE x \in s : TRUE
           step(f, s) == IF s = {} THEN 0 ELSE count(first(s)) + f[s \ {first(s)}]
           upTo(n) == UNION {mine(k) : k \in 1 .. n}
           N == Len(suites)
<1>1. /\ N \in Nat /\ DOMAIN suites = 1 .. N /\ \A k \in 1 .. N : suites[k] \in Paths
      /\ \A k, l \in 1 .. N : suites[k] = suites[l] => k = l
  BY DEF IsInjective
<1>2. files = {suites[k] : k \in 1 .. N} /\ files \subseteq Paths
  BY <1>1 DEF ToSet
<1>3. \A k \in 1 .. N : IsFiniteSet(mine(k)) /\ Cardinality(mine(k)) = count(suites[k])
  <2>1. ASSUME NEW k \in 1 .. N
        PROVE  IsFiniteSet(mine(k)) /\ Cardinality(mine(k)) = count(suites[k])
    <3> DEFINE E == Ended(suites[k], status)
    <3>1. IsFiniteSet(E) /\ Cardinality(E) \in Nat
      BY <1>1, EndedFinite
    <3>2. IsFiniteSet({k}) /\ Cardinality({k}) = 1
      BY FS_Singleton
    <3> HIDE DEF E
    <3>3. IsFiniteSet({k} \X E) /\ Cardinality({k} \X E) = 1 * Cardinality(E)
      BY <3>1, <3>2, FS_Product
    <3>4. QED BY <3>1, <3>3 DEF E
  <2>2. QED BY <2>1
<1>4. of(files) = TestsOf(status) /\ TestsOf(status) = upTo(N)
  <2>1. {l \in DOMAIN suites : suites[l] \in files} = DOMAIN suites
    BY <1>1, <1>2
  <2>2. TestsOf(status) = UNION {mine(k) : k \in DOMAIN suites}
    BY DEF TestsOf, Ended
  <2>3. QED BY <1>1, <2>1, <2>2
<1>5. IsFiniteSet(upTo(N))
  <2> DEFINE Bad == {n \in 0 .. N : ~IsFiniteSet(upTo(n))}
  <2>1. SUFFICES ASSUME Bad # {} PROVE FALSE
    <3>1. N \in 0 .. N
      BY <1>1
    <3> HIDE DEF upTo, N
    <3>2. QED BY <3>1
  <2>2. Bad \in SUBSET Nat
    OBVIOUS
  <2>3. PICK n \in Bad : \A m \in Bad : n <= m
    <3> HIDE DEF Bad
    <3> QED BY <2>1, <2>2, Least
  <2>4. n # 0
    <3>1. upTo(0) = {}
      OBVIOUS
    <3>2. QED BY <3>1, FS_EmptySet
  <2>5. n \in 1 .. N /\ n - 1 \in 0 .. N /\ n - 1 \notin Bad
    <3>1. n \in 1 .. N /\ n - 1 \in 0 .. N /\ ~ (n <= n - 1)
      BY <1>1, <2>4
    <3> HIDE DEF Bad
    <3>2. QED BY <2>3, <3>1
  <2> DEFINE short == upTo(n - 1)
             more == mine(n)
  <2>6. upTo(n) = short \cup more
    <3>1. 1 .. n = (1 .. n - 1) \cup {n}
      BY <2>5
    <3> HIDE DEF mine
    <3>2. QED BY <3>1
  <2>7. IsFiniteSet(short) /\ IsFiniteSet(more)
    BY <1>3, <2>5
  <2> HIDE DEF short, more
  <2>8. IsFiniteSet(short \cup more)
    BY <2>7, FS_Union
  <2>9. QED BY <2>3, <2>6, <2>8
<1>6. ASSUME NEW s \in SUBSET files
      PROVE  IsFiniteSet(of(s)) /\ Cardinality(of(s)) \in Nat
  <2>1. of(s) \subseteq upTo(N)
    BY <1>1
  <2> HIDE DEF of, upTo
  <2>2. QED BY <1>5, <2>1, FS_Subset, FS_CardinalityType
<1>7. ASSUME NEW s \in SUBSET files, s # {}
      PROVE  /\ first(s) \in s /\ s \ {first(s)} \in SUBSET files
             /\ Cardinality(of(s)) = count(first(s)) + Cardinality(of(s \ {first(s)}))
  <2>1. first(s) \in s
    BY <1>7
  <2> DEFINE x == first(s)
             others == s \ {x}
  <2> HIDE DEF first
  <2>2. PICK k \in 1 .. N : suites[k] = x
    BY <1>2, <2>1
  <2>3. others \in SUBSET files
    OBVIOUS
  <2>4. of(s) = of(others) \cup mine(k)
    <3>1. {l \in DOMAIN suites : suites[l] \in s}
            = {l \in DOMAIN suites : suites[l] \in others} \cup {k}
      BY <1>1, <2>1, <2>2
    <3> HIDE DEF mine, others
    <3>2. QED BY <3>1
  <2>5. of(others) \cap mine(k) = {}
    BY <1>1, <2>2
  <2> DEFINE A == of(others)
             B == mine(k)
  <2>6. /\ IsFiniteSet(A) /\ Cardinality(A) \in Nat
        /\ IsFiniteSet(B) /\ Cardinality(B) = count(x)
    <3>1. IsFiniteSet(B) /\ Cardinality(B) = count(x)
      BY <1>3, <2>2
    <3> HIDE DEF others, of
    <3>2. IsFiniteSet(A) /\ Cardinality(A) \in Nat
      BY <1>6, <2>3
    <3>3. QED BY <3>1, <3>2
  <2>7. count(x) \in Nat
    BY <1>1, <2>2, EndedFinite
  <2> HIDE DEF A, B, of, mine, others, count
  <2>8. Cardinality(A \cup B) = Cardinality(A) + Cardinality(B) - Cardinality({})
    <3>1. A \cap B = {}
      BY <2>5 DEF A, B
    <3>2. QED BY <2>6, <3>1, FS_Union
  <2>9. Cardinality(of(s)) = count(x) + Cardinality(of(others))
    BY <2>4, <2>6, <2>7, <2>8, FS_EmptySet DEF A, B
  <2>10. QED BY <2>1, <2>3, <2>9 DEF others
<1> DEFINE sum[s \in SUBSET files] ==
             IF s = {} THEN 0 ELSE count(first(s)) + sum[s \ {first(s)}]
<1>8. CountOf(status) = sum[files]
  BY DEF CountOf, MapThenSumSet, MapThenFoldSet
<1> HIDE DEF files, of, count, first
<1>9. \E f : f = [s \in SUBSET files |-> step(f, s)]
  <2> DEFINE f == [s \in SUBSET files |-> Cardinality(of(s))]
  <2>1. ASSUME NEW s \in SUBSET files PROVE Cardinality(of(s)) = step(f, s)
    <3>1. CASE s = {}
      <4>1. of({}) = {}
        BY DEF of
      <4>2. QED BY <3>1, <4>1, FS_EmptySet
    <3>2. CASE s # {}
      <4>1. /\ s \ {first(s)} \in SUBSET files
            /\ Cardinality(of(s)) = count(first(s)) + Cardinality(of(s \ {first(s)}))
        BY <1>7, <3>2
      <4>2. f[s \ {first(s)}] = Cardinality(of(s \ {first(s)}))
        BY <4>1
      <4> HIDE DEF f
      <4>3. QED BY <3>2, <4>1, <4>2
    <3>3. QED BY <3>1, <3>2
  <2>2. f = [s \in SUBSET files |-> step(f, s)]
    BY <2>1
  <2>3. QED BY <2>2
<1>10. sum = [s \in SUBSET files |-> step(sum, s)]
  BY <1>9, Zenon
<1> HIDE DEF sum
<1>11. IsFiniteSet(files)
  <2>1. IsFiniteSet(1 .. N)
    BY <1>1, FS_Interval
  <2> DEFINE all == [k \in 1 .. N |-> suites[k]]
  <2>2. all \in Surjection(1 .. N, files)
    BY <1>1, <1>2 DEF Surjection
  <2>3. QED BY <2>1, <2>2, FS_Surjection
<1>12. sum[files] = Cardinality(of(files))
  <2> DEFINE Bad == {n \in Nat : \E s \in SUBSET files :
                       Cardinality(s) = n /\ sum[s] # Cardinality(of(s))}
  <2>1. SUFFICES ASSUME Bad # {} PROVE FALSE
    <3>1. Cardinality(files) \in Nat
      BY <1>11, FS_CardinalityType
    <3>2. QED BY <3>1
  <2>2. PICK n \in Bad : \A m \in Bad : n <= m
    <3>1. Bad \in SUBSET Nat
      OBVIOUS
    <3> HIDE DEF Bad
    <3>2. QED BY <2>1, <3>1, Least
  <2>3. PICK s \in SUBSET files : Cardinality(s) = n /\ sum[s] # Cardinality(of(s))
    OBVIOUS
  <2>4. IsFiniteSet(s)
    BY <1>11, FS_Subset
  <2>5. s # {}
    <3>1. of({}) = {}
      BY DEF of
    <3>2. sum[{}] = 0
      BY <1>10
    <3>3. QED BY <2>3, <3>1, <3>2, FS_EmptySet
  <2> DEFINE others == s \ {first(s)}
  <2>6. /\ first(s) \in s /\ others \in SUBSET files
        /\ Cardinality(of(s)) = count(first(s)) + Cardinality(of(others))
    BY <1>7, <2>5
  <2>7. Cardinality(others) = n - 1
    BY <2>3, <2>4, <2>6, FS_RemoveElement
  <2>8. sum[s] = count(first(s)) + sum[others]
    BY <1>10, <2>5
  <2> HIDE DEF others
  <2>9. sum[others] # Cardinality(of(others))
    BY <2>3, <2>6, <2>8
  <2>10. n \in Nat /\ n - 1 \in Nat
    <3>1. Cardinality(others) \in Nat
      BY <2>4, FS_RemoveElement, FS_CardinalityType DEF others
    <3>2. QED BY <2>7, <3>1
  <2>11. n - 1 \in Bad
    BY <2>6, <2>7, <2>9, <2>10
  <2> HIDE DEF Bad
  <2>12. n <= n - 1 /\ n - 1 \in Nat
    BY <2>2, <2>10, <2>11
  <2>13. QED BY <2>10, <2>12
<1>13. QED BY <1>4, <1>5, <1>8, <1>12 DEF files

\* Every line of the log with an error marker is among the anomalies
\* (extractErrorsFromLogFile).
LEMMA AnomaliesTold ==
  ASSUME config \in Configs, NEW path \in TestOutputLog
  PROVE  ToSet(CollectLogAnomalies.lines) = Marked(File(path).lines)
<1> DEFINE lines == File(path).lines
           numbers == [n \in DOMAIN lines |-> n]
           T == Marked(lines)
<1>1. config \in Config
  BY AnalysisAssumption
<1>2. /\ path \in Paths /\ File(path) \in Entry
      /\ \A p \in TestOutputLog : p = path
  <2>1. config.listing \in Seq(Paths) /\ config.disk \in [Paths -> Entry]
    BY <1>1 DEF Config
  <2>2. TestOutputLog \subseteq Paths
    <3>1. ToSet(config.listing) \subseteq Paths
      BY <2>1 DEF ToSet
    <3>2. QED BY <3>1 DEF TestOutputLog
  <2>3. \A p \in TestOutputLog : p = path
    BY <2>2, AnalysisAssumption DEF TestOutputLog, File
  <2>4. QED BY <2>1, <2>2, <2>3 DEF File
<1>3. lines \in Seq(Line)
  BY <1>2 DEF Entry
<1>4. (CHOOSE p \in TestOutputLog : TRUE) = path /\ TestOutputLog # {}
  BY <1>2
<1>5. CollectLogAnomalies.lines = Kept(numbers, T)
  <2>1. CollectLogAnomalies = [of |-> "test output", lines |-> Kept(numbers, T),
                               raw |-> config.sanitizer # "large"]
    BY <1>4 DEF CollectLogAnomalies
  <2> HIDE DEF numbers, T
  <2>2. QED BY <2>1
<1> DEFINE N == Len(lines)
<1>6. DOMAIN lines = 1 .. N /\ N \in Nat /\ T \in SUBSET (1 .. N)
  BY <1>3 DEF Marked
<1>7. numbers = [n \in 1 .. N |-> n]
  BY <1>6
<1> HIDE DEF lines, T, N, numbers
<1>8. Len(numbers) = N /\ \A n \in 1 .. N : numbers[n] = n
  BY <1>6, <1>7
<1>9. PICK e : /\ Lists(e, T)
               /\ Kept(numbers, T) = [k \in 1 .. Cardinality(T) |-> numbers[e[k]]]
  BY <1>6, <1>8, KeptLists
<1>10. \A k \in 1 .. Cardinality(T) : e[k] \in T /\ numbers[e[k]] = e[k]
  BY <1>6, <1>8, <1>9 DEF Lists
<1>11. Kept(numbers, T) = [k \in 1 .. Cardinality(T) |-> e[k]]
  BY <1>9, <1>10
<1>12. ToSet(Kept(numbers, T)) = {e[k] : k \in 1 .. Cardinality(T)}
  BY <1>11 DEF ToSet
<1>13. {e[k] : k \in 1 .. Cardinality(T)} = T
  BY <1>9, <1>10 DEF Lists
<1>14. QED BY <1>5, <1>12, <1>13 DEF lines, T

\* The artifacts are paths of the listing (collectLogArtifacts).
LEMMA ArtifactsListed ==
  ASSUME config \in Configs
  PROVE  ToSet(CollectLogArtifacts) \subseteq Paths
<1> DEFINE seq == config.listing
           T == {i \in DOMAIN seq : IF Tests THEN ListedByTests(seq[i]) ELSE ListedByKrkn(seq[i])}
<1>1. seq \in Seq(Paths)
  BY AnalysisAssumption DEF Config
<1>2. CollectLogArtifacts = Kept(seq, T)
  BY DEF CollectLogArtifacts
<1>3. Len(seq) \in Nat /\ T \in SUBSET (1 .. Len(seq)) /\ \A i \in T : seq[i] \in Paths
  BY <1>1
<1> HIDE DEF seq, T
<1>4. PICK e : /\ Lists(e, T)
               /\ Kept(seq, T) = [k \in 1 .. Cardinality(T) |-> seq[e[k]]]
  BY <1>3, KeptLists
<1>5. \A k \in 1 .. Cardinality(T) : e[k] \in T
  BY <1>4 DEF Lists
<1>6. QED BY <1>2, <1>3, <1>4, <1>5 DEF ToSet

\* The suites that were received are those of all JUnit files that could be
\* parsed, each once: then the prompt tells every test (Engine.Run).
ReadableFiles == {path \in JUnitFiles : File(path).readable}

LEMMA TestsInPrompt ==
  ASSUME config \in Configs, Tests, artifacts = CollectLogArtifacts,
         anomalies = CollectLogAnomalies,
         suites \in Seq(Paths), IsInjective(suites), ToSet(suites) = ReadableFiles
  PROVE  TestsTold(TestPrompt)
<1> DEFINE parsed == {path \in ToSet(TestPrompt.artifacts) :
                        File(path).kind = "junit" /\ File(path).readable}
<1>1. /\ TestPrompt.artifacts = artifacts /\ TestPrompt.anomalies = anomalies
      /\ TestPrompt.tally = Tally /\ TestPrompt.failed = FailedTests
  BY DEF TestPrompt
<1>2. parsed = ToSet(suites)
  BY <1>1 DEF ReadableFiles, JUnitFiles
<1> HIDE DEF parsed
<1>3. \A status \in Statuses :
        TestPrompt.tally[status] =
          MapThenSumSet(LAMBDA path : Cardinality(Ended(path, status)), parsed)
  <2> SUFFICES ASSUME NEW status \in Statuses
               PROVE  TestPrompt.tally[status] =
                 MapThenSumSet(LAMBDA path : Cardinality(Ended(path, status)), parsed)
    OBVIOUS
  <2>1. TestPrompt.tally[status] = Cardinality(TestsOf(status))
    BY <1>1 DEF Tally
  <2>2. Cardinality(TestsOf(status)) = CountOf(status)
    BY TestsCounted
  <2>3. QED BY <1>2, <2>1, <2>2 DEF CountOf
<1>4. ASSUME TestPrompt.tally["failed"] > 0
      PROVE  TestPrompt.failed =
               UNION {{path} \X (Ended(path, "failed") \cup Ended(path, "error")) : path \in parsed}
  <2>1. TestsOf("failed") # {}
    <3>1. TestPrompt.tally["failed"] = Cardinality(TestsOf("failed"))
      BY <1>1 DEF Tally, Statuses
    <3>2. Cardinality({}) = 0
      BY FS_EmptySet
    <3>3. SUFFICES ASSUME TestsOf("failed") = {} PROVE FALSE
      OBVIOUS
    <3>4. TestPrompt.tally["failed"] = 0
      BY <3>1, <3>2, <3>3
    <3>5. QED BY <1>4, <3>4
  <2>2. FailedTests = {<< suites[t[1]], t[2] >> : t \in TestsOf("failed") \cup TestsOf("error")}
    BY <2>1 DEF FailedTests
  <2> DEFINE at(k) == Ended(suites[k], "failed") \cup Ended(suites[k], "error")
  <2>3. TestsOf("failed") \cup TestsOf("error") = UNION {{k} \X at(k) : k \in DOMAIN suites}
    BY DEF TestsOf, Ended
  <2>4. FailedTests = UNION {{suites[k]} \X at(k) : k \in DOMAIN suites}
    <3> HIDE DEF at
    <3>1. FailedTests = {<< suites[t[1]], t[2] >> : t \in UNION {{k} \X at(k) : k \in DOMAIN suites}}
      BY <2>2, <2>3
    <3> DEFINE told == UNION {{suites[k]} \X at(k) : k \in DOMAIN suites}
               were == UNION {{k} \X at(k) : k \in DOMAIN suites}
    <3>2. ASSUME NEW x \in told PROVE \E t \in were : x = << suites[t[1]], t[2] >>
      <4>1. PICK k \in DOMAIN suites : x \in {suites[k]} \X at(k)
        OBVIOUS
      <4>2. PICK i \in at(k) : x = << suites[k], i >>
        BY <4>1
      <4>3. << k, i >> \in were
        BY <4>2
      <4>4. QED BY <4>2, <4>3
    <3>3. ASSUME NEW t \in were PROVE << suites[t[1]], t[2] >> \in told
      <4>1. PICK k \in DOMAIN suites : t \in {k} \X at(k)
        OBVIOUS
      <4>2. PICK i \in at(k) : t = << k, i >>
        BY <4>1
      <4>3. QED BY <4>2
    <3> HIDE DEF told, were
    <3>4. FailedTests = told
      BY <3>1, <3>2, <3>3 DEF were
    <3>5. QED BY <3>4 DEF told
  <2>5. UNION {{suites[k]} \X at(k) : k \in DOMAIN suites} =
          UNION {{path} \X (Ended(path, "failed") \cup Ended(path, "error")) : path \in parsed}
    BY <1>2 DEF ToSet
  <2>6. QED BY <1>1, <2>4, <2>5
<1>5. \A path \in TestOutputLog :
        ToSet(TestPrompt.anomalies.lines) = Marked(File(path).lines)
  BY <1>1, AnomaliesTold
<1>6. QED BY <1>3, <1>4, <1>5 DEF TestsTold, Ended, parsed

-----------------------------------------------------------------------------
(* What the prompt says of a Kraken run.                                   *)

\* A finite set of integers has a greatest element.
LEMMA MaxOf ==
  ASSUME NEW T \in SUBSET Int, IsFiniteSet(T), T # {}
  PROVE  Max(T) \in T /\ \A x \in T : x <= Max(T)
<1> DEFINE top(S) == \E y \in S : \A x \in S : x <= y
           Bad == {n \in Nat : \E S \in SUBSET T : S # {} /\ Cardinality(S) = n /\ ~top(S)}
<1>1. Bad = {}
  <2>1. SUFFICES ASSUME Bad # {} PROVE FALSE
    OBVIOUS
  <2>2. PICK n \in Bad : \A m \in Bad : n <= m
    <3>1. Bad \in SUBSET Nat
      OBVIOUS
    <3> HIDE DEF Bad
    <3>2. QED BY <2>1, <3>1, Least
  <2>3. PICK S \in SUBSET T : S # {} /\ Cardinality(S) = n /\ ~top(S)
    OBVIOUS
  <2>4. PICK x \in S : TRUE
    BY <2>3
  <2> DEFINE rest == S \ {x}
  <2>5. /\ rest \in SUBSET T /\ Cardinality(rest) = n - 1 /\ n \in Nat
        /\ Cardinality(rest) \in Nat
    <3>1. IsFiniteSet(S)
      BY FS_Subset
    <3>2. IsFiniteSet(rest) /\ Cardinality(rest) = Cardinality(S) - 1
      BY <2>4, <3>1, FS_RemoveElement
    <3> HIDE DEF rest
    <3>3. Cardinality(rest) \in Nat
      BY <3>2, FS_CardinalityType
    <3>4. rest \in SUBSET T
      BY DEF rest
    <3>5. QED BY <2>3, <3>2, <3>3, <3>4
  <2>6. CASE rest = {}
    <3>1. S = {x}
      BY <2>4, <2>6
    <3>2. x \in Int
      OBVIOUS
    <3>3. QED BY <2>3, <3>1, <3>2
  <2>7. CASE rest # {}
    <3>1. top(rest)
      <4>1. n - 1 \notin Bad
        <5>1. ~ (n <= n - 1)
          BY <2>5
        <5> HIDE DEF Bad
        <5>2. QED BY <2>2, <5>1
      <4>2. n - 1 \in Nat
        BY <2>5
      <4> HIDE DEF rest, top
      <4>3. QED BY <2>5, <2>7, <4>1, <4>2
    <3>2. PICK y \in rest : \A z \in rest : z <= y
      BY <3>1
    <3>3. x \in Int /\ y \in Int /\ y \in S /\ \A z \in S : z = x \/ z <= y
      BY <3>2
    <3>4. CASE x <= y
      BY <2>3, <3>3, <3>4
    <3>5. CASE y <= x
      <4>1. \A z \in S : z \in Int
        OBVIOUS
      <4>2. \A z \in S : z <= x
        BY <3>3, <3>5, <4>1
      <4>3. QED BY <2>3, <2>4, <4>2
    <3>6. QED BY <3>3, <3>4, <3>5
  <2>8. QED BY <2>6, <2>7
<1>2. top(T)
  <2>1. Cardinality(T) \in Nat
    BY FS_CardinalityType
  <2> HIDE DEF top
  <2>2. QED BY <1>1, <2>1
<1>3. PICK y \in T : \A x \in T : x <= y
  BY <1>2
<1>4. \A z \in T : (\A x \in T : z >= x) => z = y
  BY <1>3
<1>5. Max(T) = y
  BY <1>3, <1>4 DEF Max
<1>6. QED BY <1>3, <1>5

\* An injective function carries a finite set to one of the same size.
LEMMA Carried ==
  ASSUME NEW A, IsFiniteSet(A), NEW f, \A x, y \in A : f[x] = f[y] => x = y
  PROVE  /\ IsFiniteSet({f[x] : x \in A})
         /\ Cardinality({f[x] : x \in A}) = Cardinality(A)
<1> DEFINE g == [x \in A |-> f[x]]
           B == {f[x] : x \in A}
<1>1. g \in Bijection(A, B)
  BY DEF Bijection, Injection, Surjection, IsInjective
<1> HIDE DEF g, B
<1>2. IsFiniteSet(B) /\ Cardinality(B) = Cardinality(A)
  BY <1>1, FS_Bijection DEF ExistsBijection
<1>3. QED BY <1>2 DEF B

\* The rows that can be read, and the scenarios they hold.
WellRead == {i \in DOMAIN config.rows : config.rows[i].read = "well"}
Succeeded == {i \in WellRead : ~config.rows[i].scenario.failed}

\* The scenarios are those of the rows that can be read, in their order
\* (collectScenarioResults).
LEMMA ScenariosRead ==
  ASSUME config \in Configs
  PROVE  /\ IsFiniteSet(WellRead) /\ Cardinality(WellRead) \in Nat
         /\ \A i \in WellRead : config.rows[i].scenario \in Scenario
         /\ \E e : /\ Lists(e, WellRead)
                   /\ Scenarios(config.rows) =
                        [k \in 1 .. Cardinality(WellRead) |-> config.rows[e[k]].scenario]
<1> DEFINE rows == config.rows
           W == {i \in DOMAIN rows : rows[i].read = "well"}
<1>1. rows \in Seq(Row)
  BY AnalysisAssumption DEF Config
<1> HIDE DEF rows
<1>2. Len(rows) \in Nat /\ W \in SUBSET (1 .. Len(rows)) /\ \A i \in W : rows[i] \in Row
  BY <1>1
<1>3. \A i \in W : rows[i].scenario \in Scenario
  <2>1. \A row \in Row : row.read = "well" => row.scenario \in Scenario
    BY DEF Row
  <2>2. QED BY <1>2, <2>1
<1> DEFINE c == Cardinality(W)
           readable == Kept(rows, W)
<1>4. Scenarios(rows) = [i \in DOMAIN readable |-> readable[i].scenario]
  BY DEF Scenarios
<1> HIDE DEF W, readable
<1>5. IsFiniteSet(W) /\ c \in Nat
  BY <1>2, KeptLists
<1>6. PICK e : Lists(e, W) /\ readable = [k \in 1 .. c |-> rows[e[k]]]
  BY <1>2, KeptLists DEF readable
<1>7. Scenarios(rows) = [k \in 1 .. c |-> rows[e[k]].scenario]
  BY <1>4, <1>6
<1>8. W = WellRead
  BY DEF W, WellRead, rows
<1>9. QED BY <1>3, <1>5, <1>6, <1>7, <1>8 DEF rows

\* A list has no number twice.
LEMMA ListOnce ==
  ASSUME NEW T \in SUBSET Int, NEW e, Lists(e, T), Cardinality(T) \in Nat
  PROVE  \A k, l \in 1 .. Cardinality(T) : e[k] = e[l] => k = l
<1> DEFINE c == Cardinality(T)
<1>1. /\ \A k \in 1 .. c : e[k] \in Int
      /\ \A k, l \in 1 .. c : k < l => e[k] < e[l]
  BY DEF Lists
<1> HIDE DEF c
<1>2. \A k, l \in 1 .. c : k = l \/ k < l \/ l < k
  OBVIOUS
<1>3. \A k, l \in 1 .. c : e[k] = e[l] => ~ (e[k] < e[l]) /\ ~ (e[l] < e[k])
  BY <1>1
<1>4. \A k, l \in 1 .. c : e[k] = e[l] => k = l
  BY <1>1, <1>2, <1>3
<1>5. QED BY <1>4 DEF c

\* An order of a finite number of things, each of them once, leaves none out.
LEMMA RankingOnto ==
  ASSUME NEW m \in Nat, NEW rank \in [1 .. m -> 1 .. m],
         \A i, j \in 1 .. m : i # j => rank[i] # rank[j]
  PROVE  \A k \in 1 .. m : \E i \in 1 .. m : rank[i] = k
<1>1. rank \in Injection(1 .. m, 1 .. m)
  BY DEF Injection, IsInjective
<1>2. IsFiniteSet(1 .. m)
  BY FS_Interval
<1>3. rank \in Surjection(1 .. m, 1 .. m)
  BY <1>1, <1>2, FS_Injection
<1>4. QED BY <1>3 DEF Surjection

\* The summary of the scenarios, whatever order sort.Slice leaves equals in:
\* every scenario counted, and of the best none left out (processScenarios).
LEMMA ScenariosInSummary ==
  ASSUME config \in Configs, NEW rank \in Rankings(Scenarios(config.rows))
  PROVE  ScenariosTold(ProcessScenarios(Scenarios(config.rows), rank))
<1> DEFINE rows == config.rows
           W == WellRead
           S == Succeeded
           m == Cardinality(W)
           scen == Scenarios(rows)
           k == ProcessScenarios(scen, rank)
           fitness(i) == rows[i].scenario.fitness
           best(t) == /\ ~k.top[t].failed
                      /\ Cardinality({i \in S : fitness(i) > k.top[t].fitness}) < t
                      /\ Cardinality({u \in DOMAIN k.top : k.top[u] = k.top[t]})
                           <= Cardinality({i \in S : rows[i].scenario = k.top[t]})
<1> SUFFICES ScenariosTold(k)
  OBVIOUS
<1>1. /\ IsFiniteSet(W) /\ m \in Nat /\ \A i \in W : rows[i].scenario \in Scenario
      /\ W \in SUBSET Nat
  <2>1. rows \in Seq(Row)
    BY AnalysisAssumption DEF Config
  <2>2. W \in SUBSET Nat
    BY <2>1 DEF WellRead
  <2>3. QED BY <2>2, ScenariosRead
<1>2. PICK e : Lists(e, W) /\ scen = [j \in 1 .. m |-> rows[e[j]].scenario]
  BY ScenariosRead
<1>3. /\ \A j \in 1 .. m : e[j] \in W /\ scen[j] = rows[e[j]].scenario
      /\ \A i \in W : \E j \in 1 .. m : e[j] = i
      /\ \A i, j \in 1 .. m : e[i] = e[j] => i = j
  <2>1. /\ \A j \in 1 .. m : e[j] \in W
        /\ \A i \in W : \E j \in 1 .. m : e[j] = i
    BY <1>2 DEF Lists
  <2>2. \A i, j \in 1 .. m : e[i] = e[j] => i = j
    BY <1>1, <1>2, ListOnce
  <2>3. \A j \in 1 .. m : scen[j] = rows[e[j]].scenario
    BY <1>2
  <2>4. QED BY <2>1, <2>2, <2>3
<1>4. scen \in [1 .. m -> Scenario] /\ scen \in Seq(Scenario) /\ Len(scen) = m
  <2>1. scen \in [1 .. m -> Scenario]
    BY <1>1, <1>2, <1>3
  <2> HIDE DEF scen, m
  <2>2. QED BY <1>1, <2>1
<1>5. S \in SUBSET W /\ IsFiniteSet(S) /\ Cardinality(S) \in Nat
  <2>1. S \in SUBSET W
    BY DEF Succeeded
  <2>2. QED BY <1>1, <2>1, FS_Subset, FS_CardinalityType
<1>6. ScenariosTold(k) <=>
        /\ k.total = m /\ k.succeeded = Cardinality(S)
        /\ Len(k.failed) = Cardinality(W \ S)
        /\ Len(k.top) = Min({TopCount, Cardinality(S)})
        /\ \A t \in DOMAIN k.top : best(t)
        /\ k.top # << >> => \A i \in S : fitness(i) <= k.best
        /\ \A i \in W : rows[i].scenario.gen < k.generations
  BY DEF ScenariosTold, WellRead, Succeeded
<1> HIDE DEF rows, scen, W, S
<1>7. CASE m = 0
  <2>1. W = {} /\ S = {} /\ W \ S = {}
    BY <1>1, <1>5, <1>7, FS_EmptySet
  <2>2. scen = << >>
    BY <1>4, <1>7
  <2>3. /\ k.total = 0 /\ k.succeeded = 0 /\ k.failed = << >> /\ k.top = << >>
    BY <2>2 DEF ProcessScenarios, NoSummary
  <2>4. Cardinality(S) = 0 /\ Cardinality(W \ S) = 0
    BY <2>1, FS_EmptySet
  <2>5. Min({TopCount, 0}) = 0
    BY MinOfTwo, ResultsAssumption
  <2>6. Len(<< >>) = 0 /\ DOMAIN << >> = {}
    OBVIOUS
  <2> HIDE DEF k, m, best
  <2>7. Len(k.top) = Min({TopCount, Cardinality(S)}) /\ DOMAIN k.top = {}
    BY <2>3, <2>4, <2>5, <2>6
  <2>8. Len(k.failed) = Cardinality(W \ S) /\ k.total = m /\ k.succeeded = Cardinality(S)
    BY <1>7, <2>3, <2>4, <2>6
  <2>9. QED BY <1>6, <2>1, <2>3, <2>7, <2>8
<1>8. CASE m # 0
  <2> DEFINE bad == {j \in DOMAIN scen : scen[j].failed}
             good == DOMAIN scen \ bad
             failed == Kept(scen, bad)
             succeeded == Kept(scen, good)
             places == {j \in DOMAIN rank : rank[j] \notin bad}
             sorted == [j \in DOMAIN rank |-> scen[rank[j]]]
             ranked == Kept(sorted, places)
             n == Min({TopCount, Len(ranked)})
             top == SubSeq(ranked, 1, n)
             gens == {s.gen : s \in ToSet(scen)}
             g == Cardinality(S)
  <2>1. /\ k.total = Len(scen) /\ k.succeeded = Len(scen) - Len(failed)
        /\ k.failed = failed /\ k.top = top
        /\ k.best = IF succeeded # << >> /\ top # << >> THEN top[1].fitness ELSE 0
        /\ k.generations = Max(gens) + 1
    <3>1. scen # << >>
      BY <1>4, <1>8
    <3> DEFINE kinds == {s.kind : s \in ToSet(scen)}
               sum == FoldSeq(LAMBDA s, r : s.fitness + r, 0, succeeded)
               highest == IF succeeded # << >> /\ top # << >> THEN top[1].fitness ELSE 0
    <3>2. k = [total |-> Len(scen), succeeded |-> Len(scen) - Len(failed),
               failed |-> failed, generations |-> Max(gens) + 1, kinds |-> kinds,
               top |-> top, best |-> highest, sum |-> sum]
      BY <3>1 DEF ProcessScenarios
    <3> HIDE DEF k, failed, gens, kinds, top, highest, sum
    <3>3. QED BY <3>2 DEF highest
  <2>2. /\ rank \in [1 .. m -> 1 .. m]
        /\ \A i, j \in 1 .. m : i # j => rank[i] # rank[j]
        /\ \A i, j \in 1 .. m : i < j => scen[rank[i]].fitness >= scen[rank[j]].fitness
        /\ DOMAIN scen = 1 .. m /\ DOMAIN rank = 1 .. m
    <3>1. DOMAIN scen = 1 .. m
      BY <1>4
    <3>2. rank \in Rankings(scen)
      BY DEF scen, rows
    <3> HIDE DEF m
    <3>3. QED BY <3>1, <3>2 DEF Rankings
  <2> HIDE DEF k, m, g
  <2>3. /\ good = {j \in 1 .. m : ~scen[j].failed} /\ bad \in SUBSET (1 .. m)
        /\ good \in SUBSET (1 .. m) /\ bad = (1 .. m) \ good
        /\ places \in SUBSET (1 .. m) /\ \A j \in 1 .. m : j \in places <=> rank[j] \in good
    BY <2>2
  <2> HIDE DEF good, bad, places
  <2>4. /\ IsFiniteSet(bad) /\ IsFiniteSet(good) /\ Cardinality(bad) \in Nat
        /\ Cardinality(good) = m - Cardinality(bad)
    <3>1. IsFiniteSet(1 .. m) /\ Cardinality(1 .. m) = m
      BY <1>1, FS_Interval
    <3>2. IsFiniteSet(bad) /\ Cardinality(bad) \in Nat
      BY <2>3, <3>1, FS_Subset, FS_CardinalityType
    <3>3. (1 .. m) \cap good = good /\ (1 .. m) \ good = bad
      BY <2>3
    <3>4. IsFiniteSet(good)
      BY <2>3, <3>1, FS_Subset
    <3>5. Cardinality((1 .. m) \ good) = Cardinality(1 .. m) - Cardinality((1 .. m) \cap good)
      BY <3>1, FS_Difference
    <3>6. Cardinality(good) \in Nat
      BY <3>4, FS_CardinalityType
    <3>7. Cardinality(bad) = m - Cardinality(good)
      BY <3>1, <3>3, <3>5
    <3>8. QED BY <1>1, <3>2, <3>4, <3>6, <3>7
  <2>5. /\ {e[j] : j \in bad} = W \ S /\ {e[j] : j \in good} = S
    <3>1. \A j \in 1 .. m : e[j] \in S <=> j \in good
      BY <1>3, <2>3 DEF S, Succeeded, W, rows
    <3>2. QED BY <1>3, <1>5, <2>3, <3>1
  <2>6. Cardinality(bad) = Cardinality(W \ S) /\ Cardinality(good) = g
    <3>1. /\ \A i, j \in bad : e[i] = e[j] => i = j
          /\ \A i, j \in good : e[i] = e[j] => i = j
      BY <1>3, <2>3
    <3>2. Cardinality({e[j] : j \in bad}) = Cardinality(bad)
      BY <2>4, <3>1, Carried
    <3>3. Cardinality({e[j] : j \in good}) = Cardinality(good)
      BY <2>4, <3>1, Carried
    <3>4. QED BY <2>5, <3>2, <3>3 DEF g
  <2>7. Len(failed) = Cardinality(bad) /\ (g # 0 => succeeded # << >>)
    <3>1. Len(scen) \in Nat /\ bad \in SUBSET (1 .. Len(scen)) /\ good \in SUBSET (1 .. Len(scen))
      BY <1>1, <1>4, <2>3
    <3>2. PICK x : failed = [j \in 1 .. Cardinality(bad) |-> scen[x[j]]]
      BY <3>1, KeptLists
    <3>3. PICK y : succeeded = [j \in 1 .. Cardinality(good) |-> scen[y[j]]]
      BY <3>1, KeptLists
    <3>4. Len(failed) = Cardinality(bad)
      BY <2>4, <3>2
    <3>5. g # 0 => DOMAIN succeeded # {}
      BY <1>5, <2>6, <3>3 DEF g
    <3>6. QED BY <3>4, <3>5
  <2>8. /\ IsFiniteSet(places) /\ Cardinality(places) = g
        /\ {rank[j] : j \in places} = good
    <3>1. IsFiniteSet(places)
      <4>1. IsFiniteSet(1 .. m)
        BY <1>1, FS_Interval
      <4>2. QED BY <2>3, <4>1, FS_Subset
    <3>2. \A i, j \in places : rank[i] = rank[j] => i = j
      BY <2>2, <2>3
    <3>3. Cardinality({rank[j] : j \in places}) = Cardinality(places)
      BY <3>1, <3>2, Carried
    <3>4. {rank[j] : j \in places} = good
      <4>1. \A j \in 1 .. m : \E i \in 1 .. m : rank[i] = j
        BY <1>1, <2>2, RankingOnto
      <4>2. QED BY <2>3, <4>1
    <3>5. QED BY <2>6, <3>1, <3>3, <3>4
  <2>9. PICK h : Lists(h, places) /\ ranked = [t \in 1 .. g |-> sorted[h[t]]]
    <3>1. Len(sorted) = m
      BY <1>1, <2>2
    <3> HIDE DEF sorted
    <3>2. QED BY <1>1, <2>3, <2>8, <3>1, KeptLists
  <2>10. /\ \A t \in 1 .. g : h[t] \in places /\ h[t] \in 1 .. m
         /\ \A t, u \in 1 .. g : t < u => h[t] < h[u]
         /\ \A t, u \in 1 .. g : h[t] = h[u] => t = u
         /\ \A j \in places : \E t \in 1 .. g : h[t] = j
    <3>1. \A t, u \in 1 .. g : h[t] = h[u] => t = u
      <4>1. places \in SUBSET Int /\ Cardinality(places) \in Nat
        BY <1>5, <2>3, <2>8 DEF g
      <4>2. QED BY <2>8, <2>9, <4>1, ListOnce
    <3>2. QED BY <2>3, <2>8, <2>9, <3>1 DEF Lists
  <2>11. /\ n \in 0 .. g /\ n = Min({TopCount, g}) /\ (g # 0 => n # 0)
         /\ top = [t \in 1 .. n |-> scen[rank[h[t]]]]
    <3>1. g \in Nat /\ TopCount \in Nat \ {0}
      BY <1>5, ResultsAssumption DEF g
    <3>2. \A t \in 1 .. g : sorted[h[t]] = scen[rank[h[t]]]
      BY <2>2, <2>10
    <3>3. ranked = [t \in 1 .. g |-> scen[rank[h[t]]]]
      BY <2>9, <3>2
    <3> HIDE DEF ranked
    <3>4. Len(ranked) = g
      BY <3>1, <3>3
    <3>5. n = IF TopCount <= g THEN TopCount ELSE g
      BY <3>1, <3>4, MinOfTwo
    <3>6. n \in 0 .. g /\ n = Min({TopCount, g}) /\ (g # 0 => n # 0)
      BY <3>1, <3>4, <3>5
    <3> HIDE DEF n
    <3>7. SubSeq(ranked, 1, n) = [t \in 1 .. n |-> ranked[t]]
      BY <3>1, <3>6
    <3>8. \A t \in 1 .. n : ranked[t] = scen[rank[h[t]]]
      BY <3>1, <3>3, <3>6
    <3>9. QED BY <3>6, <3>7, <3>8
  <2> DEFINE place == [t \in 1 .. g |-> e[rank[h[t]]]]
  <2>12. /\ \A t \in 1 .. g : /\ rank[h[t]] \in good /\ place[t] \in S
                               /\ rows[place[t]].scenario = scen[rank[h[t]]]
         /\ \A i \in S : \E t \in 1 .. g : place[t] = i
         /\ \A t, u \in 1 .. g : place[t] = place[u] => t = u
    <3>1. \A t \in 1 .. g : rank[h[t]] \in good /\ rank[h[t]] \in 1 .. m
      BY <2>3, <2>8, <2>10
    <3>2. \A t \in 1 .. g : place[t] \in S
      BY <2>5, <3>1
    <3>3. \A t \in 1 .. g : rows[place[t]].scenario = scen[rank[h[t]]]
      BY <1>3, <3>1
    <3>4. \A i \in S : \E t \in 1 .. g : place[t] = i
      BY <2>5, <2>8, <2>10
    <3>5. \A t, u \in 1 .. g : place[t] = place[u] => t = u
      BY <1>3, <2>2, <2>10, <3>1
    <3>6. QED BY <3>1, <3>2, <3>3, <3>4, <3>5
  <2> HIDE DEF place
  <2>13. \A t, u \in 1 .. g : t <= u => fitness(place[t]) >= fitness(place[u])
    <3> SUFFICES ASSUME NEW t \in 1 .. g, NEW u \in 1 .. g, t <= u
                 PROVE  fitness(place[t]) >= fitness(place[u])
      OBVIOUS
    <3>1. fitness(place[t]) = scen[rank[h[t]]].fitness /\ fitness(place[u]) = scen[rank[h[u]]].fitness
      BY <2>12
    <3>2. CASE t = u
      <4>1. scen[rank[h[t]]] \in Scenario
        BY <1>4, <2>3, <2>12
      <4>2. scen[rank[h[t]]].fitness \in Int
        BY <4>1, ResultsAssumption DEF Scenario
      <4>3. QED BY <3>1, <3>2, <4>2
    <3>3. CASE t # u
      <4>1. h[t] < h[u] /\ h[t] \in 1 .. m /\ h[u] \in 1 .. m
        BY <2>10, <3>3
      <4>2. QED BY <2>2, <3>1, <4>1
    <3>4. QED BY <3>2, <3>3
  <2>14. \A i \in W : fitness(i) \in Int /\ rows[i].scenario.gen \in Nat
    BY <1>1, ResultsAssumption DEF Scenario
  <2>15. ASSUME NEW t \in 1 .. n
         PROVE  /\ ~top[t].failed
                /\ Cardinality({i \in S : fitness(i) > top[t].fitness}) < t
                /\ Cardinality({u \in 1 .. n : top[u] = top[t]})
                     <= Cardinality({i \in S : rows[i].scenario = top[t]})
    <3>1. /\ t \in 1 .. g /\ t \in Nat /\ \A u \in 1 .. n : u \in 1 .. g
          /\ \A u \in 1 .. n : top[u] = rows[place[u]].scenario
      <4>1. /\ n \in 0 .. g /\ g \in Nat
            /\ \A u \in 1 .. n : top[u] = scen[rank[h[u]]]
        BY <1>5, <2>11 DEF g
      <4> HIDE DEF n, top
      <4>2. t \in Nat /\ \A u \in 1 .. n : u \in 1 .. g
        BY <4>1
      <4>3. QED BY <2>12, <4>1, <4>2
    <3>2. ~top[t].failed
      <4>1. place[t] \in S /\ top[t] = rows[place[t]].scenario
        BY <2>12, <3>1
      <4>2. QED BY <4>1 DEF S, Succeeded, rows
    <3> HIDE DEF top
    <3> DEFINE fitter == {i \in S : fitness(i) > top[t].fitness}
               before == {place[u] : u \in 1 .. t - 1}
    <3>3. fitter \subseteq before
      <4> SUFFICES ASSUME NEW i \in fitter PROVE i \in before
        OBVIOUS
      <4>1. PICK u \in 1 .. g : place[u] = i
        BY <2>12
      <4>2. ~ (t <= u)
        <5>1. fitness(place[u]) > fitness(place[t])
          BY <3>1, <4>1
        <5>2. fitness(place[u]) \in Int /\ fitness(place[t]) \in Int
          BY <1>5, <2>12, <2>14, <3>1
        <5>3. t <= u => fitness(place[t]) >= fitness(place[u])
          BY <2>13, <3>1
        <5> HIDE DEF fitness
        <5>4. QED BY <5>1, <5>2, <5>3
      <4>3. u \in 1 .. t - 1
        BY <3>1, <4>2
      <4>4. QED BY <4>1, <4>3
    <3>4. IsFiniteSet(before) /\ Cardinality(before) = t - 1
      <4>1. IsFiniteSet(1 .. t - 1) /\ Cardinality(1 .. t - 1) = t - 1
        BY <3>1, FS_Interval
      <4>2. \A u, v \in 1 .. t - 1 : place[u] = place[v] => u = v
        <5>1. \A u \in 1 .. t - 1 : u \in 1 .. g
          BY <1>5, <3>1 DEF g
        <5>2. QED BY <2>12, <5>1
      <4> DEFINE range == 1 .. t - 1
      <4> HIDE DEF range
      <4>3. Cardinality({place[u] : u \in range}) = Cardinality(range)
            /\ IsFiniteSet({place[u] : u \in range})
        BY <4>1, <4>2, Carried DEF range
      <4>4. QED BY <4>1, <4>3 DEF range
    <3>5. Cardinality(fitter) < t
      <4> HIDE DEF fitter, before
      <4>1. Cardinality(fitter) <= Cardinality(before) /\ IsFiniteSet(fitter)
        BY <3>3, <3>4, FS_Subset
      <4>2. Cardinality(fitter) \in Nat
        BY <4>1, FS_CardinalityType
      <4>3. QED BY <3>1, <3>4, <4>1, <4>2
    <3> DEFINE same == {u \in 1 .. n : top[u] = top[t]}
               alike == {i \in S : rows[i].scenario = top[t]}
               image == {place[u] : u \in same}
    <3>6. Cardinality(image) = Cardinality(same)
      <4>1. IsFiniteSet(1 .. n)
        BY <2>11, FS_Interval
      <4>2. IsFiniteSet(same)
        BY <4>1, FS_Subset
      <4>3. \A u, v \in same : place[u] = place[v] => u = v
        BY <2>12, <3>1
      <4> HIDE DEF same
      <4>4. QED BY <4>2, <4>3, Carried
    <3>7. image \subseteq alike
      BY <2>12, <3>1
    <3>8. IsFiniteSet(alike)
      BY <1>5, FS_Subset
    <3>9. Cardinality(image) <= Cardinality(alike)
      <4> HIDE DEF image, alike
      <4>1. QED BY <3>7, <3>8, FS_Subset
    <3>10. QED BY <3>2, <3>5, <3>6, <3>9
  <2>16. ASSUME top # << >>
         PROVE  \A i \in S : fitness(i) <= k.best
    <3>1. n # 0 /\ g # 0 /\ n \in Nat /\ g \in Nat
      <4>1. n \in 0 .. g /\ g \in Nat
        BY <1>5, <2>11 DEF g
      <4>2. n # 0
        <5>1. top = [t \in 1 .. n |-> scen[rank[h[t]]]]
          BY <2>11
        <5> HIDE DEF top, n
        <5>2. n = 0 => top = << >>
          BY <5>1
        <5>3. QED BY <2>16, <5>2
      <4> HIDE DEF n
      <4>3. QED BY <4>1, <4>2
    <3>2. k.best = top[1].fitness
      BY <2>1, <2>7, <2>16, <3>1
    <3>3. top[1] = rows[place[1]].scenario /\ 1 \in 1 .. g
      BY <2>11, <2>12, <3>1
    <3> HIDE DEF top, n
    <3>4. \A i \in S : fitness(i) <= fitness(place[1])
      <4> SUFFICES ASSUME NEW i \in S PROVE fitness(i) <= fitness(place[1])
        OBVIOUS
      <4>1. PICK u \in 1 .. g : place[u] = i
        BY <2>12
      <4>2. fitness(place[1]) >= fitness(i)
        BY <2>13, <3>3, <4>1
      <4>3. fitness(i) \in Int /\ fitness(place[1]) \in Int
        BY <1>5, <2>12, <2>14, <3>3
      <4> HIDE DEF fitness
      <4>4. QED BY <4>2, <4>3
    <3>5. QED BY <3>2, <3>3, <3>4
  <2>17. ASSUME NEW i \in W PROVE rows[i].scenario.gen < k.generations
    <3>1. PICK j \in 1 .. m : e[j] = i
      BY <1>3
    <3>2. scen[j].gen \in gens /\ scen[j] = rows[i].scenario
      BY <1>3, <2>2, <3>1 DEF ToSet
    <3>3. gens \in SUBSET Int /\ IsFiniteSet(gens)
      <4> DEFINE f == [l \in 1 .. m |-> scen[l].gen]
      <4>1. gens = {scen[l].gen : l \in 1 .. m}
        BY <2>2 DEF ToSet
      <4>2. f \in Surjection(1 .. m, gens)
        BY <4>1 DEF Surjection
      <4>3. IsFiniteSet(1 .. m)
        BY <1>1, FS_Interval
      <4>4. IsFiniteSet(gens)
        <5> HIDE DEF f, gens
        <5>1. QED BY <4>2, <4>3, FS_Surjection
      <4>5. \A l \in 1 .. m : scen[l].gen \in Int
        <5>1. \A s \in Scenario : s.gen \in Generations
          BY DEF Scenario
        <5>2. \A l \in 1 .. m : scen[l] \in Scenario
          BY <1>4
        <5>3. \A x \in Generations : x \in Int
          BY ResultsAssumption
        <5>4. QED BY <5>1, <5>2, <5>3
      <4>6. QED BY <4>1, <4>4, <4>5
    <3> HIDE DEF gens
    <3>4. Max(gens) \in Int /\ scen[j].gen <= Max(gens) /\ scen[j].gen \in Int
      BY <3>2, <3>3, MaxOf
    <3>5. QED BY <2>1, <3>2, <3>4
  <2>18. DOMAIN top = 1 .. n /\ Len(top) = n
    <3>1. top = [t \in 1 .. n |-> scen[rank[h[t]]]] /\ n \in 0 .. g /\ g \in Nat
      BY <1>5, <2>11 DEF g
    <3> HIDE DEF top, n
    <3>2. n \in Nat
      BY <3>1
    <3>3. QED BY <3>1, <3>2
  <2>19. k.total = m /\ k.succeeded = g /\ Len(k.failed) = Cardinality(W \ S)
    <3>1. m - Cardinality(bad) = g
      BY <2>4, <2>6
    <3> HIDE DEF failed
    <3>2. QED BY <1>4, <2>1, <2>6, <2>7, <3>1
  <2>20. Len(k.top) = Min({TopCount, g})
    BY <2>1, <2>11, <2>18
  <2> HIDE DEF top, n, failed, gens
  <2>21. \A t \in DOMAIN k.top : best(t)
    BY <2>1, <2>15, <2>18
  <2> HIDE DEF best
  <2>22. QED BY <1>6, <2>1, <2>16, <2>17, <2>19, <2>20, <2>21 DEF g
<1>9. QED BY <1>7, <1>8

\* What is collected so far.  Of a test run each JUnit file is with its
\* goroutine, in the channel or received, and in one of these only; one that
\* could not be parsed may be dropped.  The prompt once rendered stays the first
\* message.
Summaries == {ProcessScenarios(Scenarios(config.rows), rank) :
                rank \in Rankings(Scenarios(config.rows))}

Apart(s, t) == ToSet(s) \cap t = {}

PromptInv ==
  /\ config \in Configs
  /\ pc \in {"new", "collect"} => parsing = {} /\ channel = << >> /\ suites = << >>
  /\ pc \in {"junit", "prompt"} /\ Tests =>
       /\ artifacts = CollectLogArtifacts /\ anomalies = CollectLogAnomalies
       /\ channel \in Seq(Paths) /\ IsInjective(channel)
       /\ suites \in Seq(Paths) /\ IsInjective(suites)
       /\ parsing \subseteq waiting /\ waiting \subseteq JUnitFiles
       /\ Apart(channel, parsing) /\ Apart(suites, parsing) /\ Apart(suites, ToSet(channel))
       /\ ToSet(suites) \subseteq ReadableFiles /\ ToSet(channel) \subseteq JUnitFiles
       /\ ReadableFiles \subseteq parsing \cup ToSet(channel) \cup ToSet(suites)
  /\ pc = "junit" => Tests
  /\ pc = "prompt" /\ Tests => parsing = {} /\ channel = << >>
  /\ pc = "prompt" /\ ~Tests => krkn \in Summaries
  /\ PromptTells

\* Sequences of different items, one added or one taken away.
LEMMA Added ==
  ASSUME NEW S, NEW s \in Seq(S), IsInjective(s), NEW x \in S, x \notin ToSet(s)
  PROVE  /\ Append(s, x) \in Seq(S) /\ IsInjective(Append(s, x))
         /\ ToSet(Append(s, x)) = ToSet(s) \cup {x}
<1> DEFINE t == Append(s, x)
           n == Len(s)
<1>1. /\ n \in Nat /\ t \in Seq(S) /\ DOMAIN s = 1 .. n /\ DOMAIN t = 1 .. n + 1
      /\ \A i \in 1 .. n : t[i] = s[i]
      /\ t[n + 1] = x
  OBVIOUS
<1> HIDE DEF t, n
<1>2. ToSet(t) = ToSet(s) \cup {x}
  <2>1. \A i \in 1 .. n + 1 : i \in 1 .. n \/ i = n + 1
    BY <1>1
  <2>2. n + 1 \in 1 .. n + 1 /\ \A i \in 1 .. n : i \in 1 .. n + 1
    BY <1>1
  <2>3. QED BY <1>1, <2>1, <2>2 DEF ToSet
<1>3. IsInjective(t)
  <2>1. \A i, j \in 1 .. n : s[i] = s[j] => i = j
    BY <1>1 DEF IsInjective
  <2>2. \A i \in 1 .. n : s[i] # x
    BY <1>1 DEF ToSet
  <2>3. \A i, j \in 1 .. n + 1 : t[i] = t[j] => i = j
    <3>1. \A i \in 1 .. n + 1 : i \in 1 .. n \/ i = n + 1
      BY <1>1
    <3>2. QED BY <1>1, <2>1, <2>2, <3>1
  <2>4. QED BY <1>1, <2>3 DEF IsInjective
<1>4. QED BY <1>1, <1>2, <1>3 DEF t

\* The first item taken away, the others stay in their order.
LEMMA Taken ==
  ASSUME NEW S, NEW s \in Seq(S), IsInjective(s), s # << >>
  PROVE  /\ Tail(s) \in Seq(S) /\ IsInjective(Tail(s)) /\ Head(s) \in S
         /\ Head(s) \notin ToSet(Tail(s)) /\ ToSet(s) = ToSet(Tail(s)) \cup {Head(s)}
<1> DEFINE t == Tail(s)
           n == Len(s)
<1>1. /\ n \in Nat \ {0} /\ t \in Seq(S) /\ DOMAIN s = 1 .. n /\ DOMAIN t = 1 .. n - 1
      /\ \A i \in 1 .. n - 1 : t[i] = s[i + 1]
      /\ Head(s) = s[1] /\ s[1] \in S
  OBVIOUS
<1> HIDE DEF t, n
<1>2. \A i, j \in 1 .. n : s[i] = s[j] => i = j
  BY <1>1 DEF IsInjective
<1>3. \A i \in 1 .. n - 1 : i + 1 \in 1 .. n /\ i + 1 # 1
  BY <1>1
<1>4. IsInjective(t)
  <2>1. \A i, j \in 1 .. n - 1 : t[i] = t[j] => i + 1 = j + 1
    BY <1>1, <1>2, <1>3
  <2>2. \A i, j \in 1 .. n - 1 : i + 1 = j + 1 => i = j
    OBVIOUS
  <2>3. QED BY <1>1, <2>1, <2>2 DEF IsInjective
<1>5. ToSet(t) = {s[i + 1] : i \in 1 .. n - 1}
  BY <1>1 DEF ToSet
<1>6. s[1] \notin ToSet(t)
  BY <1>1, <1>2, <1>3, <1>5
<1>7. ToSet(s) = ToSet(t) \cup {s[1]}
  <2>1. \A i \in 1 .. n : i = 1 \/ \E j \in 1 .. n - 1 : i = j + 1
    <3> SUFFICES ASSUME NEW i \in 1 .. n, i # 1 PROVE \E j \in 1 .. n - 1 : i = j + 1
      OBVIOUS
    <3>1. i - 1 \in 1 .. n - 1 /\ i = (i - 1) + 1
      BY <1>1
    <3>2. QED BY <3>1
  <2>2. 1 \in 1 .. n
    BY <1>1
  <2>3. ToSet(s) = {s[i] : i \in 1 .. n}
    BY <1>1 DEF ToSet
  <2>4. QED BY <1>3, <1>5, <2>1, <2>2, <2>3
<1>8. QED BY <1>1, <1>4, <1>6, <1>7 DEF t

\* What the artifacts tell does not change.
LEMMA SameRun ==
  ASSUME config' = config
  PROVE  /\ CollectLogArtifacts' = CollectLogArtifacts /\ CollectLogAnomalies' = CollectLogAnomalies
         /\ JUnitFiles' = JUnitFiles /\ ReadableFiles' = ReadableFiles /\ Tests' = Tests
         /\ Summaries' = Summaries
         /\ \A p : TestsTold(p)' <=> TestsTold(p)
         /\ \A k : ScenariosTold(k)' <=> ScenariosTold(k)
<1>1. CollectLogArtifacts' = CollectLogArtifacts /\ Tests' = Tests
  BY DEF CollectLogArtifacts, Tests, ListedByTests, ListedByKrkn, File
<1>2. JUnitFiles' = JUnitFiles /\ ReadableFiles' = ReadableFiles
  BY <1>1 DEF JUnitFiles, ReadableFiles, File
<1>3. TestOutputLog' = TestOutputLog
  BY DEF TestOutputLog, File
<1>4. CollectLogAnomalies' = CollectLogAnomalies
  BY <1>3 DEF CollectLogAnomalies, File
<1>5. Summaries' = Summaries
  BY DEF Summaries
<1>6. \A p : TestsTold(p)' <=> TestsTold(p)
  BY <1>3 DEF TestsTold, File, MapThenSumSet, MapThenFoldSet
<1>7. \A k : ScenariosTold(k)' <=> ScenariosTold(k)
  BY DEF ScenariosTold
<1>8. QED BY <1>1, <1>2, <1>4, <1>5, <1>6, <1>7

\* The actions that collect nothing keep it, as long as the first message stays.
LEMMA PromptApart ==
  ASSUME PromptInv, UNCHANGED << config, collected >>,
         pc' \in {"new", "collect"} => pc \in {"new", "collect"},
         pc' \in {"junit", "prompt"} => pc' = pc,
         conv' # << >> => conv # << >> /\ conv'[1] = conv[1]
  PROVE  PromptInv'
<1>1. UNCHANGED << artifacts, anomalies, parsing, waiting, channel, suites, krkn >>
  BY DEF collected
<1>2. PromptTells'
  <2>1. PromptTells
    BY DEF PromptInv
  <2>2. CASE conv' = << >>
    BY <2>2 DEF PromptTells
  <2>3. CASE conv' # << >>
    <3>1. conv'[1] = conv[1] /\ IF Tests THEN TestsTold(conv[1]) ELSE ScenariosTold(conv[1].krkn)
      BY <2>1, <2>3 DEF PromptTells
    <3>2. IF Tests' THEN TestsTold(conv[1])' ELSE ScenariosTold(conv[1].krkn)'
      <4>1. /\ Tests' = Tests
            /\ \A p : TestsTold(p)' <=> TestsTold(p)
            /\ \A k : ScenariosTold(k)' <=> ScenariosTold(k)
        BY SameRun
      <4> DEFINE p == conv[1]
      <4> QED BY <3>1, <4>1
    <3>3. QED BY <3>1, <3>2 DEF PromptTells
  <2>4. QED BY <2>2, <2>3
<1>3. QED BY <1>1, <1>2, SameRun DEF PromptInv, Apart

\* It holds before anything is collected.
LEMMA PromptInit == Init => PromptInv
BY DEF Init, PromptInv, PromptTells

\* The collection of a test run starts with every JUnit file at its goroutine.
LEMMA PromptCollect == PromptInv /\ (CollectTests \/ CollectKrkn) => PromptInv'
<1> SUFFICES ASSUME PromptInv, CollectTests \/ CollectKrkn PROVE PromptInv'
  OBVIOUS
<1>1. config' = config /\ conv' = conv /\ config \in Configs
  BY DEF CollectTests, CollectKrkn, talk, PromptInv
<1>2. PromptTells'
  <2>1. PromptTells
    BY DEF PromptInv
  <2>2. QED BY <1>1, <2>1, SameRun DEF PromptTells
<1>3. CASE CollectTests
  <2>1. /\ artifacts' = CollectLogArtifacts /\ anomalies' = CollectLogAnomalies
        /\ parsing' = JUnitFiles /\ waiting' = JUnitFiles /\ pc' = "junit" /\ Tests
        /\ channel' = << >> /\ suites' = << >>
    BY <1>3 DEF CollectTests, PromptInv
  <2>2. << >> \in Seq(Paths) /\ IsInjective(<< >>) /\ ToSet(<< >>) = {}
    BY DEF IsInjective, ToSet
  <2>3. ReadableFiles \subseteq JUnitFiles
    BY DEF ReadableFiles
  <2>4. QED BY <1>1, <1>2, <2>1, <2>2, <2>3, SameRun DEF PromptInv, Apart
<1>4. CASE CollectKrkn
  <2>1. krkn' \in Summaries /\ pc' = "prompt" /\ ~Tests
    BY <1>4 DEF CollectKrkn, Summaries
  <2>2. QED BY <1>1, <1>2, <2>1, SameRun DEF PromptInv
<1>5. QED BY <1>3, <1>4

\* A goroutine sends what it parsed, or is done.
LEMMA PromptParse ==
  ASSUME PromptInv, NEW path \in Paths, ParseJUnit(path) \/ Finish(path)
  PROVE  PromptInv'
<1>1. /\ config' = config /\ conv' = conv /\ config \in Configs /\ pc = "junit" /\ pc' = "junit" /\ Tests
      /\ UNCHANGED << artifacts, anomalies, suites >>
  BY DEF ParseJUnit, Finish, talk, PromptInv
<1>2. PromptTells'
  <2>1. PromptTells
    BY DEF PromptInv
  <2>2. QED BY <1>1, <2>1, SameRun DEF PromptTells
<1>3. /\ artifacts = CollectLogArtifacts /\ anomalies = CollectLogAnomalies
      /\ channel \in Seq(Paths) /\ IsInjective(channel)
      /\ suites \in Seq(Paths) /\ IsInjective(suites)
      /\ parsing \subseteq waiting /\ waiting \subseteq JUnitFiles
      /\ Apart(channel, parsing) /\ Apart(suites, parsing) /\ Apart(suites, ToSet(channel))
      /\ ToSet(suites) \subseteq ReadableFiles /\ ToSet(channel) \subseteq JUnitFiles
      /\ ReadableFiles \subseteq parsing \cup ToSet(channel) \cup ToSet(suites)
  BY <1>1 DEF PromptInv
<1>4. CASE ParseJUnit(path)
  <2>1. /\ path \in parsing /\ parsing' = parsing \ {path} /\ waiting' = waiting
        /\ channel' = Append(channel, path)
    BY <1>4 DEF ParseJUnit
  <2>2. path \notin ToSet(channel) /\ path \notin ToSet(suites) /\ path \in JUnitFiles
    BY <1>3, <2>1 DEF Apart
  <2>3. /\ channel' \in Seq(Paths) /\ IsInjective(channel')
        /\ ToSet(channel') = ToSet(channel) \cup {path}
    BY <1>3, <2>1, <2>2, Added
  <2>4. /\ Apart(channel', parsing') /\ Apart(suites, parsing') /\ Apart(suites, ToSet(channel'))
        /\ parsing' \subseteq waiting /\ ToSet(channel') \subseteq JUnitFiles
        /\ ReadableFiles \subseteq parsing' \cup ToSet(channel') \cup ToSet(suites)
    BY <1>3, <2>1, <2>2, <2>3 DEF Apart
  <2>5. Apart(channel, parsing)' /\ Apart(suites, parsing)' /\ Apart(suites, ToSet(channel))'
    BY <1>1, <2>4 DEF Apart
  <2>6. QED BY <1>1, <1>2, <1>3, <2>1, <2>3, <2>4, <2>5, SameRun DEF PromptInv
<1>5. CASE Finish(path)
  <2>1. /\ path \notin parsing /\ parsing' = parsing /\ waiting' = waiting \ {path}
        /\ channel' = channel
    BY <1>5 DEF Finish, Done
  <2>2. parsing' \subseteq waiting' /\ waiting' \subseteq JUnitFiles
    BY <1>3, <2>1
  <2>3. QED BY <1>1, <1>2, <1>3, <2>1, <2>2, SameRun DEF PromptInv, Apart
<1>6. QED BY <1>4, <1>5

\* The engine receives what was sent first.
LEMMA PromptReceive == PromptInv /\ (Receive \/ AllReceived) => PromptInv'
<1> SUFFICES ASSUME PromptInv, Receive \/ AllReceived PROVE PromptInv'
  OBVIOUS
<1>1. /\ config' = config /\ conv' = conv /\ config \in Configs /\ pc = "junit" /\ Tests
      /\ UNCHANGED << artifacts, anomalies, parsing, waiting >>
  BY DEF Receive, AllReceived, talk, collected, PromptInv
<1>2. PromptTells'
  <2>1. PromptTells
    BY DEF PromptInv
  <2>2. QED BY <1>1, <2>1, SameRun DEF PromptTells
<1>3. /\ artifacts = CollectLogArtifacts /\ anomalies = CollectLogAnomalies
      /\ channel \in Seq(Paths) /\ IsInjective(channel)
      /\ suites \in Seq(Paths) /\ IsInjective(suites)
      /\ parsing \subseteq waiting /\ waiting \subseteq JUnitFiles
      /\ Apart(channel, parsing) /\ Apart(suites, parsing) /\ Apart(suites, ToSet(channel))
      /\ ToSet(suites) \subseteq ReadableFiles /\ ToSet(channel) \subseteq JUnitFiles
      /\ ReadableFiles \subseteq parsing \cup ToSet(channel) \cup ToSet(suites)
  BY <1>1 DEF PromptInv
<1>4. CASE Receive
  <2> DEFINE path == Head(channel)
  <2>1. /\ channel # << >> /\ channel' = Tail(channel) /\ pc' = "junit"
        /\ suites' = IF File(path).readable THEN Append(suites, path) ELSE suites
    BY <1>1, <1>4 DEF Receive
  <2>2. /\ channel' \in Seq(Paths) /\ IsInjective(channel') /\ path \in Paths
        /\ path \notin ToSet(channel') /\ ToSet(channel) = ToSet(channel') \cup {path}
    BY <1>3, <2>1, Taken
  <2> HIDE DEF path
  <2>3. path \notin parsing /\ path \notin ToSet(suites) /\ path \in JUnitFiles
    BY <1>3, <2>2 DEF Apart
  <2>4. /\ suites' \in Seq(Paths) /\ IsInjective(suites')
        /\ ToSet(suites') = IF File(path).readable THEN ToSet(suites) \cup {path} ELSE ToSet(suites)
    <3>1. CASE File(path).readable
      <4>1. suites' = Append(suites, path)
        BY <2>1, <3>1
      <4>2. /\ Append(suites, path) \in Seq(Paths) /\ IsInjective(Append(suites, path))
            /\ ToSet(Append(suites, path)) = ToSet(suites) \cup {path}
        BY <1>3, <2>2, <2>3, Added
      <4>3. QED BY <3>1, <4>1, <4>2
    <3>2. CASE ~File(path).readable
      <4>1. suites' = suites
        BY <2>1, <3>2
      <4>2. QED BY <1>3, <3>2, <4>1
    <3>3. QED BY <3>1, <3>2
  <2>5. path \in ReadableFiles <=> File(path).readable
    BY <2>3 DEF ReadableFiles
  <2>6. /\ Apart(channel', parsing) /\ Apart(suites', parsing) /\ Apart(suites', ToSet(channel'))
        /\ ToSet(suites') \subseteq ReadableFiles /\ ToSet(channel') \subseteq JUnitFiles
        /\ ReadableFiles \subseteq parsing \cup ToSet(channel') \cup ToSet(suites')
    BY <1>3, <2>2, <2>3, <2>4, <2>5 DEF Apart
  <2>7. Apart(channel, parsing)' /\ Apart(suites, parsing)' /\ Apart(suites, ToSet(channel))'
    BY <1>1, <2>6 DEF Apart
  <2>8. QED BY <1>1, <1>2, <1>3, <2>1, <2>2, <2>4, <2>6, <2>7, SameRun DEF PromptInv
<1>5. CASE AllReceived
  <2>1. /\ channel = << >> /\ waiting = {} /\ pc' = "prompt"
        /\ UNCHANGED << channel, suites, krkn >>
    BY <1>5 DEF AllReceived, Closed, collected
  <2>2. parsing = {}
    BY <1>3, <2>1
  <2>3. QED BY <1>1, <1>2, <1>3, <2>1, <2>2, SameRun DEF PromptInv, Apart
<1>6. QED BY <1>4, <1>5

\* The prompt is rendered when everything is in.
LEMMA PromptRendered == PromptInv /\ Analyze => PromptInv'
<1> SUFFICES ASSUME PromptInv, Analyze PROVE PromptInv'
  OBVIOUS
<1>1. /\ config' = config /\ pc = "prompt" /\ pc' = "ask" /\ config \in Configs
      /\ conv' = << IF Tests THEN TestPrompt ELSE KrknPrompt >>
  BY DEF Analyze, PromptInv
<1>2. conv'[1] = IF Tests THEN TestPrompt ELSE KrknPrompt
  BY <1>1
<1>3. CASE Tests
  <2>1. /\ artifacts = CollectLogArtifacts /\ anomalies = CollectLogAnomalies
        /\ suites \in Seq(Paths) /\ IsInjective(suites)
        /\ ToSet(suites) \subseteq ReadableFiles /\ parsing = {} /\ channel = << >>
        /\ ReadableFiles \subseteq parsing \cup ToSet(channel) \cup ToSet(suites)
    BY <1>1, <1>3 DEF PromptInv
  <2>2. ToSet(suites) = ReadableFiles
    BY <2>1 DEF ToSet
  <2>3. TestsTold(TestPrompt)
    BY <1>1, <1>3, <2>1, <2>2, TestsInPrompt
  <2>4. PICK p : p = TestPrompt
    OBVIOUS
  <2>5. Tests' = Tests /\ \A q : TestsTold(q)' <=> TestsTold(q)
    BY <1>1, SameRun
  <2>6. TestsTold(p)'
    BY <2>3, <2>4, <2>5
  <2>7. conv'[1] = p
    BY <1>2, <1>3, <2>4
  <2>8. PromptTells'
    BY <1>3, <2>5, <2>6, <2>7 DEF PromptTells
  <2>9. QED BY <1>1, <2>8 DEF PromptInv
<1>4. CASE ~Tests
  <2>1. krkn \in Summaries
    BY <1>1, <1>4 DEF PromptInv
  <2>2. ScenariosTold(krkn)
    BY <1>1, <2>1, ScenariosInSummary DEF Summaries
  <2>3. KrknPrompt.krkn = krkn
    BY DEF KrknPrompt
  <2>4. QED BY <1>1, <1>2, <1>4, <2>2, <2>3, SameRun DEF PromptInv, PromptTells
<1>5. QED BY <1>3, <1>4

\* Every step keeps it; the conversation only grows.
LEMMA PromptStep == PromptInv /\ AnsweredInv /\ [Next]_vars => PromptInv'
<1> SUFFICES ASSUME PromptInv, AnsweredInv, [Next]_vars PROVE PromptInv'
  OBVIOUS
<1>1. CASE NewEngine
  BY <1>1, PromptApart DEF NewEngine, Fail
<1>2. CASE NoDirectory
  BY <1>2, PromptApart DEF NoDirectory, Fail
<1>3. CASE CollectTests \/ CollectKrkn
  BY <1>3, PromptCollect
<1>4. CASE \E path \in Paths : ParseJUnit(path) \/ Finish(path)
  BY <1>4, PromptParse
<1>5. CASE Receive \/ AllReceived
  BY <1>5, PromptReceive
<1>6. CASE Analyze
  BY <1>6, PromptRendered
<1>7. CASE \E reply \in config.replies : GenerateContent(reply)
  BY <1>7, PromptApart DEF GenerateContent, Fail
<1>8. CASE HandleToolCall
  <2> DEFINE answer == Execute(Head(queue), artifacts, config.disk)
             turn == Turn(Head(queue), answer)
  <2>1. /\ UNCHANGED << config, collected >> /\ pc = "tools" /\ pc' \in {"tools", "report", "over"}
        /\ conv' = conv \/ conv' = conv \o turn
    BY <1>8 DEF HandleToolCall, Fail
  <2>2. conv # << >> /\ (conv \o turn)[1] = conv[1]
    <3>1. conv \in Seq(ToSet(conv)) /\ Len(conv) >= 1
      BY <2>1 DEF AnsweredInv
    <3>2. turn \in Seq({turn[1], turn[2]})
      BY DEF Turn
    <3> HIDE DEF turn
    <3> DEFINE S == ToSet(conv) \cup {turn[1], turn[2]}
    <3>3. conv \in Seq(S) /\ turn \in Seq(S)
      <4>1. \A A, B : A \subseteq B => Seq(A) \subseteq Seq(B)
        OBVIOUS
      <4>2. QED BY <3>1, <3>2, <4>1
    <3> HIDE DEF S
    <3>4. QED BY <3>1, <3>3
  <2> HIDE DEF turn
  <2>3. conv'[1] = conv[1]
    BY <2>1, <2>2
  <2>4. QED BY <2>1, <2>2, <2>3, PromptApart
<1>9. CASE CallsHandled
  BY <1>9, PromptApart DEF CallsHandled, NextRound, talk
<1>10. CASE WriteSummary
  BY <1>10, PromptApart DEF WriteSummary, Fail
<1>11. CASE Report
  BY <1>11, PromptApart DEF Report, talk
<1>12. CASE UNCHANGED vars
  BY <1>12, PromptApart DEF vars, collected
<1>13. QED
  BY <1>1, <1>2, <1>3, <1>4, <1>5, <1>6, <1>7, <1>8, <1>9, <1>10, <1>11, <1>12 DEF Next

\* Whatever the goroutines' order, the artifacts and the rows: the first thing the
\* model is told is all that they tell, each test and each scenario once
\* (collectTestResults, processScenarios, Analyze).
THEOREM AllTold == Spec => []PromptTells
<1>1. Init => PromptInv /\ AnsweredInv
  BY PromptInit, AnsweredInit
<1>2. PromptInv /\ AnsweredInv /\ [Next]_vars => (PromptInv /\ AnsweredInv)'
  BY PromptStep, AnsweredStep
<1>3. PromptInv => PromptTells
  BY DEF PromptInv
<1>4. QED BY <1>1, <1>2, <1>3, PTL DEF Spec

-----------------------------------------------------------------------------
(* What the notice shows of the log.                                       *)

\* The lengths of a text's beginnings.
Lengths(u, text) ==
  /\ u \in [0 .. Len(text) -> Nat]
  /\ u[0] = 0
  /\ \A k \in 1 .. Len(text) : u[k] = u[k - 1] + text[k].size

\* A text is a sequence of pieces.
Pieces == [line : Nat, size : Nat]
Text == Seq(Pieces)

\* Its pieces have lengths.
LEMMA PiecesOf ==
  ASSUME NEW text \in Text
  PROVE  /\ Len(text) \in Nat /\ DOMAIN text = 1 .. Len(text)
         /\ \A k \in 1 .. Len(text) : text[k].line \in Nat /\ text[k].size \in Nat
<1>1. \A p \in Pieces : p.line \in Nat /\ p.size \in Nat
  BY DEF Pieces
<1>2. text \in Seq(Pieces)
  BY DEF Text
<1>3. /\ Len(text) \in Nat /\ DOMAIN text = 1 .. Len(text)
      /\ \A k \in 1 .. Len(text) : text[k] \in Pieces
  BY <1>2
<1>4. QED BY <1>1, <1>3

\* The length of a text is that of its last beginning.
LEMMA SizeOf ==
  ASSUME NEW text \in Text
  PROVE  \E u : Lengths(u, text) /\ Size(text) = u[Len(text)]
<1> DEFINE N == Len(text)
           z == [k \in 1 .. N |-> text[k].size]
           Is(f, n) == f = [k \in 0 .. n |-> IF k = 0 THEN 0 ELSE f[k - 1] + z[k]]
           Bad == {n \in 0 .. N : ~ \E f : Is(f, n)}
<1>1. N \in Nat /\ \A k \in 1 .. N : z[k] \in Nat /\ z[k] = text[k].size
  <2>1. N \in Nat /\ \A k \in 1 .. N : text[k].size \in Nat
    BY PiecesOf
  <2> HIDE DEF N
  <2>2. QED BY <2>1
<1> HIDE DEF z, N
<1>2. \E f : Is(f, N)
  <2>1. SUFFICES ASSUME Bad # {} PROVE FALSE
    BY <1>1
  <2>2. PICK n \in Bad : \A m \in Bad : n <= m
    <3>1. Bad \in SUBSET Nat
      BY <1>1
    <3> HIDE DEF Bad
    <3>2. QED BY <2>1, <3>1, Least
  <2>3. n \in 0 .. N
    OBVIOUS
  <2>4. n # 0
    <3>1. Is([k \in 0 .. 0 |-> 0], 0)
      OBVIOUS
    <3>2. QED BY <3>1
  <2>5. n - 1 \in 0 .. N /\ n - 1 \notin Bad
    <3> HIDE DEF Bad
    <3>1. n - 1 \in 0 .. N /\ ~ (n <= n - 1)
      BY <1>1, <2>3, <2>4
    <3>2. QED BY <2>2, <3>1
  <2>6. PICK f : Is(f, n - 1)
    BY <2>5
  <2> DEFINE g == [k \in 0 .. n |-> IF k < n THEN f[k] ELSE
                                    IF k = 0 THEN 0 ELSE f[k - 1] + z[k]]
  <2>7. Is(g, n)
    <3>1. ASSUME NEW k \in 0 .. n
          PROVE  g[k] = IF k = 0 THEN 0 ELSE g[k - 1] + z[k]
      <4>1. CASE k = n
        BY <1>1, <2>3, <2>4, <4>1
      <4>2. CASE k < n
        <5>1. k \in 0 .. n - 1
          BY <1>1, <2>3, <3>1, <4>2
        <5>2. f[k] = IF k = 0 THEN 0 ELSE f[k - 1] + z[k]
          BY <2>6, <5>1
        <5>3. QED BY <1>1, <2>3, <3>1, <4>2, <5>2
      <4>3. QED BY <1>1, <2>3, <3>1, <4>1, <4>2
    <3>2. g = [k \in 0 .. n |-> g[k]]
      OBVIOUS
    <3> HIDE DEF g
    <3>3. QED BY <3>1, <3>2
  <2>8. QED BY <2>2, <2>7
<1> DEFINE upTo[k \in 0 .. Len(text)] == IF k = 0 THEN 0 ELSE upTo[k - 1] + text[k].size
<1>3. Size(text) = upTo[Len(text)]
  BY DEF Size
<1>4. upTo = [k \in 0 .. Len(text) |-> IF k = 0 THEN 0 ELSE upTo[k - 1] + text[k].size]
  <2>1. PICK f : Is(f, N)
    BY <1>2
  <2>2. f = [k \in 0 .. Len(text) |-> IF k = 0 THEN 0 ELSE f[k - 1] + text[k].size]
    <3>1. \A k \in 0 .. N : k # 0 => z[k] = text[k].size
      BY <1>1
    <3>2. QED BY <2>1, <3>1, Zenon DEF N
  <2>3. QED BY <2>2, Zenon
<1> HIDE DEF upTo
<1>5. /\ upTo[0] = 0
      /\ \A k \in 1 .. N : upTo[k] = upTo[k - 1] + z[k]
  BY <1>1, <1>4 DEF N
<1>6. \A k \in 0 .. N : upTo[k] \in Nat
  <2> DEFINE Odd == {k \in 0 .. N : upTo[k] \notin Nat}
  <2>1. SUFFICES ASSUME Odd # {} PROVE FALSE
    OBVIOUS
  <2>2. PICK n \in Odd : \A m \in Odd : n <= m
    <3>1. Odd \in SUBSET Nat
      BY <1>1
    <3> HIDE DEF Odd
    <3>2. QED BY <2>1, <3>1, Least
  <2>3. n \in 0 .. N /\ n # 0
    BY <1>5
  <2>4. n - 1 \in 0 .. N /\ n - 1 \notin Odd
    <3> HIDE DEF Odd
    <3>1. n - 1 \in 0 .. N /\ ~ (n <= n - 1)
      BY <1>1, <2>3
    <3>2. QED BY <2>2, <3>1
  <2>5. upTo[n] = upTo[n - 1] + z[n] /\ z[n] \in Nat /\ upTo[n - 1] \in Nat
    BY <1>1, <1>5, <2>3, <2>4
  <2>6. QED BY <2>2, <2>5
<1>7. Lengths(upTo, text)
  <2>1. upTo \in [0 .. Len(text) -> Nat]
    BY <1>4, <1>6 DEF N
  <2>2. \A k \in 1 .. Len(text) : upTo[k] = upTo[k - 1] + text[k].size
    BY <1>1, <1>5 DEF N
  <2>3. QED BY <1>5, <2>1, <2>2 DEF Lengths
<1>8. QED BY <1>3, <1>7

\* The beginning of a text is as long as the text that begins alike, and if each
\* of its pieces is no longer than that of another text, neither is it.
LEMMA SizeOfBeginning ==
  ASSUME NEW s \in Text, NEW t \in Text, NEW u, NEW v, NEW d \in Nat,
         Lengths(u, s), Lengths(v, t), d + Len(t) <= Len(s),
         \A k \in 1 .. Len(t) : s[d + k].size <= t[k].size
  PROVE  \A k \in 0 .. Len(t) : u[d + k] <= u[d] + v[k]
<1> DEFINE Bad == {k \in 0 .. Len(t) : ~ (u[d + k] <= u[d] + v[k])}
<1>1. /\ Len(s) \in Nat /\ Len(t) \in Nat
      /\ \A k \in 1 .. Len(t) : t[k].size \in Nat
      /\ \A k \in 1 .. Len(s) : s[k].size \in Nat
  BY PiecesOf
<1>2. /\ \A k \in 0 .. Len(s) : u[k] \in Nat
      /\ \A k \in 0 .. Len(t) : v[k] \in Nat
      /\ v[0] = 0
      /\ \A k \in 1 .. Len(s) : u[k] = u[k - 1] + s[k].size
      /\ \A k \in 1 .. Len(t) : v[k] = v[k - 1] + t[k].size
  BY DEF Lengths
<1>3. SUFFICES ASSUME Bad # {} PROVE FALSE
  OBVIOUS
<1>4. PICK n \in Bad : \A m \in Bad : n <= m
  <2>1. Bad \in SUBSET Nat
    BY <1>1
  <2> HIDE DEF Bad
  <2>2. QED BY <1>3, <2>1, Least
<1>5. n \in 0 .. Len(t) /\ n # 0
  BY <1>1, <1>2
<1>6. n - 1 \in 0 .. Len(t) /\ n - 1 \notin Bad
  <2> HIDE DEF Bad
  <2>1. n - 1 \in 0 .. Len(t) /\ ~ (n <= n - 1)
    BY <1>1, <1>5
  <2>2. QED BY <1>4, <2>1
<1>7. u[d + (n - 1)] <= u[d] + v[n - 1]
  BY <1>6
<1>8. d + n \in 1 .. Len(s) /\ (d + n) - 1 = d + (n - 1) /\ n \in 1 .. Len(t)
  BY <1>1, <1>5
<1>9. u[d + n] = u[d + (n - 1)] + s[d + n].size /\ v[n] = v[n - 1] + t[n].size
  BY <1>2, <1>8
<1>10. s[d + n].size <= t[n].size /\ s[d + n].size \in Nat /\ t[n].size \in Nat
  BY <1>1, <1>8
<1>11. u[d + n] \in Nat /\ u[d] \in Nat /\ v[n] \in Nat /\ v[n - 1] \in Nat
       /\ u[d + (n - 1)] \in Nat
  BY <1>1, <1>2, <1>5, <1>8
<1>12. u[d + n] <= u[d] + v[n]
  <2>1. ASSUME NEW a \in Nat, NEW b \in Nat, NEW c \in Nat, NEW e \in Nat, NEW f \in Nat,
               a <= b + c, e <= f
        PROVE  a + e <= b + (c + f)
    BY <2>1
  <2> HIDE DEF Bad
  <2>2. u[d + (n - 1)] + s[d + n].size <= u[d] + (v[n - 1] + t[n].size)
    BY <1>7, <1>10, <1>11, <2>1
  <2>3. QED BY <1>9, <2>2
<1>13. QED BY <1>4, <1>12

\* The greater of two numbers.
LEMMA MaxOfTwo ==
  ASSUME NEW a \in Int, NEW b \in Int
  PROVE  Max({a, b}) = IF b <= a THEN a ELSE b
<1> DEFINE m == IF b <= a THEN a ELSE b
<1>1. m \in {a, b} /\ \A y \in {a, b} : m >= y
  OBVIOUS
<1>2. \A x \in {a, b} : (\A y \in {a, b} : x >= y) => x = m
  OBVIOUS
<1>3. QED BY <1>1, <1>2 DEF Max

\* Something in front of a sequence given by its items.
LEMMA InFront ==
  ASSUME NEW m \in Nat, NEW g, NEW x
  PROVE  << x >> \o [j \in 1 .. m |-> g[j]]
           = [j \in 1 .. m + 1 |-> IF j = 1 THEN x ELSE g[j - 1]]
<1> DEFINE S == {x} \cup {g[j] : j \in Nat}
           s == [j \in 1 .. m |-> g[j]]
           t == << x >> \o s
<1>1. x \in S /\ \A j \in Nat : g[j] \in S
  OBVIOUS
<1> HIDE DEF S
<1>2. s \in Seq(S) /\ Len(s) = m /\ \A j \in 1 .. m : s[j] = g[j]
  <2>1. s \in [1 .. m -> S]
    BY <1>1
  <2>2. \A j \in 1 .. m : s[j] = g[j]
    OBVIOUS
  <2> HIDE DEF s
  <2>3. s \in Seq(S) /\ Len(s) = m
    BY <2>1
  <2>4. QED BY <2>2, <2>3
<1> HIDE DEF s
<1>3. << x >> \in Seq(S) /\ Len(<< x >>) = 1
  BY <1>1
<1>4. t \in Seq(S) /\ Len(t) = m + 1 /\ t[1] = x /\ \A j \in 2 .. m + 1 : t[j] = s[j - 1]
  BY <1>2, <1>3
<1> HIDE DEF t
<1>5. \A j \in 1 .. m + 1 : t[j] = IF j = 1 THEN x ELSE g[j - 1]
  <2>1. ASSUME NEW j \in 1 .. m + 1, j # 1 PROVE t[j] = g[j - 1]
    <3>1. j \in 2 .. m + 1 /\ j - 1 \in 1 .. m
      BY <2>1
    <3>2. QED BY <1>2, <1>4, <3>1
  <2>2. QED BY <1>4, <2>1
<1>6. t = [j \in 1 .. m + 1 |-> t[j]]
  BY <1>4
<1>7. t = [j \in 1 .. m + 1 |-> IF j = 1 THEN x ELSE g[j - 1]]
  BY <1>5, <1>6
<1>8. QED BY <1>7 DEF t, s

\* A set of numbers has its least one at Min.
LEMMA MinOf ==
  ASSUME NEW T \in SUBSET Nat, T # {}
  PROVE  Min(T) \in T /\ \A x \in T : Min(T) <= x
<1>1. PICK y \in T : \A x \in T : y <= x
  BY Least
<1>2. QED BY <1>1 DEF Min

\* The block around a marked line begins at most ContextLines before it and goes
\* BlockLines on, as far as the log does.
LEMMA BlockOf ==
  ASSUME NEW log \in Seq(Line), NEW n \in Marked(log)
  PROVE  /\ Len(log) \in Nat /\ n \in 1 .. Len(log)
         /\ Block(log, n).first = (IF n - ContextLines <= 1 THEN 1 ELSE n - ContextLines)
         /\ Block(log, n).last = (IF Len(log) <= n + BlockLines - 1 THEN Len(log)
                                  ELSE n + BlockLines - 1)
         /\ Block(log, n).first \in 1 .. n /\ Block(log, n).last \in n .. Len(log)
<1>1. Len(log) \in Nat /\ n \in 1 .. Len(log)
  BY DEF Marked
<1>2. ContextLines \in Nat /\ BlockLines \in Nat \ {0}
  BY ReportAssumption
<1>3. Max({1, n - ContextLines}) = (IF n - ContextLines <= 1 THEN 1 ELSE n - ContextLines)
  BY <1>1, <1>2, MaxOfTwo
<1>4. Min({Len(log), n + BlockLines - 1}) = (IF Len(log) <= n + BlockLines - 1 THEN Len(log)
                                             ELSE n + BlockLines - 1)
  BY <1>1, <1>2, MinOfTwo
<1>5. QED BY <1>1, <1>2, <1>3, <1>4 DEF Block

\* Marked lines, each behind the block of the one before, from i on: every marked
\* line from there is in the block of one of them.
Chain(log, i, m, s) ==
  /\ m \in Nat /\ s \in [1 .. m -> Marked(log)]
  /\ \A j \in 1 .. m : s[j] >= i
  /\ \A j, k \in 1 .. m : j < k => s[j] + BlockLines <= s[k]
  /\ \A n \in Marked(log) : n >= i =>
       \E k \in 1 .. m : s[k] <= n /\ n <= Block(log, s[k]).last
  /\ \A n \in Marked(log) : n >= i => s[1] <= n

\* The chain from a line that has a marked one ahead: the first of these, and
\* the chain from behind its block.
LEMMA ChainGoesOn ==
  ASSUME NEW log \in Seq(Line), NEW i \in Nat,
         NEW n \in Marked(log), n >= i, \A l \in Marked(log) : l >= i => n <= l,
         NEW m, NEW s, Chain(log, Resume(Block(log, n)), m, s)
  PROVE  Chain(log, i, m + 1, [j \in 1 .. m + 1 |-> IF j = 1 THEN n ELSE s[j - 1]])
<1> DEFINE r == Resume(Block(log, n))
           t == [j \in 1 .. m + 1 |-> IF j = 1 THEN n ELSE s[j - 1]]
           last(l) == Block(log, l).last
<1>1. /\ m \in Nat /\ \A j \in 1 .. m : s[j] \in Marked(log) /\ s[j] >= r
      /\ \A j, k \in 1 .. m : j < k => s[j] + BlockLines <= s[k]
      /\ \A l \in Marked(log) : l >= r => \E k \in 1 .. m : s[k] <= l /\ l <= last(s[k])
  BY DEF Chain
<1>2. Len(log) \in Nat /\ Marked(log) \subseteq 1 .. Len(log) /\ BlockLines \in Nat \ {0}
  BY ReportAssumption DEF Marked
<1>3. /\ r = last(n) + 1 /\ last(n) \in n .. Len(log)
      /\ last(n) = IF Len(log) <= n + BlockLines - 1 THEN Len(log) ELSE n + BlockLines - 1
  BY BlockOf DEF Resume
<1> HIDE DEF r, last
<1>4. t[1] = n /\ \A j \in 2 .. m + 1 : j - 1 \in 1 .. m /\ t[j] = s[j - 1]
  BY <1>1
<1>5. \A j \in 1 .. m : j + 1 \in 2 .. m + 1 /\ t[j + 1] = s[j]
  BY <1>1, <1>4
<1>6. \A j \in 1 .. m + 1 : j = 1 \/ j \in 2 .. m + 1
  BY <1>1
<1>7. t \in [1 .. m + 1 -> Marked(log)]
  <2>1. \A j \in 1 .. m + 1 : t[j] \in Marked(log)
    BY <1>1, <1>4, <1>6
  <2>2. t = [j \in 1 .. m + 1 |-> t[j]]
    OBVIOUS
  <2> HIDE DEF t
  <2>3. QED BY <2>1, <2>2
<1> HIDE DEF t
<1>8. \A j \in 1 .. m + 1 : t[j] >= i
  <2>1. ASSUME NEW j \in 2 .. m + 1 PROVE t[j] >= i
    <3>1. s[j - 1] \in Marked(log) /\ s[j - 1] >= r /\ t[j] = s[j - 1]
      BY <1>1, <1>4
    <3>2. QED BY <1>2, <1>3, <3>1
  <2>2. QED BY <1>4, <1>6, <2>1
<1>9. \A j, k \in 1 .. m + 1 : j < k => t[j] + BlockLines <= t[k]
  <2> SUFFICES ASSUME NEW j \in 1 .. m + 1, NEW k \in 1 .. m + 1, j < k
               PROVE  t[j] + BlockLines <= t[k]
    OBVIOUS
  <2>1. k \in 2 .. m + 1 /\ k - 1 \in 1 .. m /\ t[k] = s[k - 1]
    BY <1>1, <1>4
  <2>2. CASE j = 1
    <3>1. s[k - 1] \in 1 .. Len(log) /\ s[k - 1] >= r
      BY <1>1, <1>2, <2>1
    <3>2. n + BlockLines <= s[k - 1]
      BY <1>2, <1>3, <3>1
    <3>3. QED BY <1>4, <2>1, <2>2, <3>2
  <2>3. CASE j # 1
    <3>1. j - 1 \in 1 .. m /\ t[j] = s[j - 1] /\ j - 1 < k - 1
      BY <1>1, <1>4, <1>6, <2>3
    <3>2. QED BY <1>1, <2>1, <3>1
  <2>4. QED BY <2>2, <2>3
<1>10. \A l \in Marked(log) : l >= i =>
         \E k \in 1 .. m + 1 : t[k] <= l /\ l <= last(t[k])
  <2> SUFFICES ASSUME NEW l \in Marked(log), l >= i
               PROVE  \E k \in 1 .. m + 1 : t[k] <= l /\ l <= last(t[k])
    OBVIOUS
  <2>1. CASE l <= last(n)
    <3>1. 1 \in 1 .. m + 1 /\ t[1] <= l /\ l <= last(t[1])
      BY <1>1, <1>4, <2>1
    <3>2. QED BY <3>1
  <2>2. CASE ~ (l <= last(n))
    <3>1. l >= r
      BY <1>2, <1>3, <2>2
    <3>2. PICK k \in 1 .. m : s[k] <= l /\ l <= last(s[k])
      BY <1>1, <3>1
    <3>3. k + 1 \in 1 .. m + 1 /\ t[k + 1] = s[k]
      BY <1>1, <1>5
    <3>4. QED BY <3>2, <3>3
  <2>3. QED BY <2>1, <2>2
<1>11. m + 1 \in Nat /\ \A l \in Marked(log) : l >= i => t[1] <= l
  BY <1>1, <1>4
<1>12. Chain(log, i, m + 1, t)
  BY <1>7, <1>8, <1>9, <1>10, <1>11 DEF Chain, last
<1>13. QED BY <1>12 DEF t

\* The blocks of a log are those around a chain of marked lines from its first
\* line on, as many as are sent (extractFailureBlocks).
LEMMA BlocksFound ==
  ASSUME NEW log \in Seq(Line)
  PROVE  \E m, s : /\ Chain(log, 1, m, s)
                   /\ FailureBlocks(log) =
                        [j \in 1 .. (IF MaxBlocks <= m THEN MaxBlocks ELSE m)
                           |-> Block(log, s[j])]
<1> DEFINE K == Len(log) + 2
           ahead(i) == {n \in Marked(log) : n >= i}
           next(i) == Block(log, Min(ahead(i)))
           Is(f, n) == f = [i \in K - n + 1 .. K |->
                              IF ahead(i) = {} THEN << >>
                              ELSE << next(i) >> \o f[Resume(next(i))]]
<1>1. Len(log) \in Nat /\ Marked(log) \subseteq 1 .. Len(log)
  BY DEF Marked
<1>2. ASSUME NEW i \in 1 .. K, ahead(i) # {}
      PROVE  /\ Min(ahead(i)) \in Marked(log) /\ Min(ahead(i)) >= i
             /\ \A l \in Marked(log) : l >= i => Min(ahead(i)) <= l
             /\ Resume(next(i)) \in i + 1 .. K
  <2>1. ahead(i) \in SUBSET Nat
    BY <1>1
  <2>2. Min(ahead(i)) \in ahead(i) /\ \A l \in ahead(i) : Min(ahead(i)) <= l
    <3> HIDE DEF ahead
    <3>1. QED BY <1>2, <2>1, MinOf
  <2> DEFINE n == Min(ahead(i))
  <2>3. n \in Marked(log) /\ n >= i /\ \A l \in Marked(log) : l >= i => n <= l
    BY <2>2
  <2> HIDE DEF n
  <2>4. Block(log, n).last \in n .. Len(log)
    BY <2>3, BlockOf
  <2>5. Resume(Block(log, n)) \in i + 1 .. K
    <3>1. n \in 1 .. Len(log)
      BY <1>1, <2>3
    <3>2. QED BY <1>1, <2>3, <2>4, <3>1 DEF Resume
  <2>6. QED BY <2>3, <2>5 DEF n
<1> HIDE DEF ahead, next
<1>3. \E f : Is(f, K)
  <2> DEFINE Bad == {n \in 0 .. K : ~ \E f : Is(f, n)}
  <2>1. SUFFICES ASSUME Bad # {} PROVE FALSE
    <3>1. K \in 0 .. K
      BY <1>1
    <3> HIDE DEF Is, K
    <3>2. QED BY <3>1
  <2>2. PICK n \in Bad : \A o \in Bad : n <= o
    <3>1. Bad \in SUBSET Nat
      BY <1>1
    <3> HIDE DEF Bad
    <3>2. QED BY <2>1, <3>1, Least
  <2>3. n \in 0 .. K /\ K \in Nat
    BY <1>1
  <2>4. n # 0
    <3>1. K - 0 + 1 .. K = {}
      BY <2>3
    <3>2. Is([i \in {} |-> 0], 0)
      BY <3>1
    <3>3. QED BY <3>2
  <2>5. n - 1 \in 0 .. K /\ n - 1 \notin Bad
    <3> HIDE DEF Bad
    <3>1. n - 1 \in 0 .. K /\ ~ (n <= n - 1)
      BY <2>3, <2>4
    <3>2. QED BY <2>2, <3>1
  <2>6. PICK f : Is(f, n - 1)
    BY <2>5
  <2> DEFINE p == K - n + 1
             step(h, i) == IF ahead(i) = {} THEN << >>
                           ELSE << next(i) >> \o h[Resume(next(i))]
             g == [i \in p .. K |-> IF i = p THEN step(f, i) ELSE f[i]]
  <2>7. p \in 1 .. K /\ K - (n - 1) + 1 = p + 1
    BY <2>3, <2>4
  <2> HIDE DEF p, K
  <2>8. \A i \in p + 1 .. K : f[i] = step(f, i) /\ g[i] = f[i]
    <3>1. f = [i \in p + 1 .. K |-> step(f, i)]
      BY <2>6, <2>7
    <3>2. \A i \in p + 1 .. K : i \in p .. K /\ i # p
      BY <2>3, <2>7
    <3>3. \A i \in p + 1 .. K : g[i] = f[i]
      BY <3>2
    <3> HIDE DEF g, step
    <3>4. \A i \in p + 1 .. K : f[i] = step(f, i)
      BY <3>1
    <3>5. QED BY <3>3, <3>4
  <2>9. ASSUME NEW i \in p .. K
        PROVE  g[i] = step(g, i)
    <3>1. i \in 1 .. K
      BY <2>3, <2>7
    <3>2. CASE ahead(i) = {}
      <4>1. CASE i = p
        BY <3>2, <4>1
      <4>2. CASE i # p
        <5>1. i \in p + 1 .. K
          BY <2>3, <2>7, <4>2
        <5>2. QED BY <2>8, <3>2, <5>1
      <4>3. QED BY <4>1, <4>2
    <3>3. CASE ahead(i) # {}
      <4>1. Resume(next(i)) \in i + 1 .. K
        BY <1>2, <3>1, <3>3 DEF K
      <4>2. Resume(next(i)) \in p + 1 .. K
        BY <2>3, <2>7, <4>1
      <4>3. g[Resume(next(i))] = f[Resume(next(i))]
        BY <2>8, <4>2
      <4>4. g[i] = step(f, i)
        <5>1. CASE i = p
          BY <5>1
        <5>2. CASE i # p
          <6>1. i \in p + 1 .. K
            BY <2>3, <2>7, <5>2
          <6>2. QED BY <2>8, <6>1
        <5>3. QED BY <5>1, <5>2
      <4> HIDE DEF g
      <4>5. QED BY <4>3, <4>4
    <3>4. QED BY <3>2, <3>3
  <2>10. g = [i \in p .. K |-> g[i]]
    OBVIOUS
  <2> HIDE DEF g
  <2>11. g = [i \in p .. K |-> step(g, i)]
    BY <2>9, <2>10
  <2>12. Is(g, n)
    BY <2>11 DEF p
  <2>13. QED BY <2>2, <2>12
<1> DEFINE blocks[i \in 1 .. Len(log) + 2] ==
             IF ahead(i) = {} THEN << >> ELSE << next(i) >> \o blocks[Resume(next(i))]
<1>4. blocks = [i \in 1 .. K |->
                  IF ahead(i) = {} THEN << >> ELSE << next(i) >> \o blocks[Resume(next(i))]]
  <2>1. K - K + 1 .. K = 1 .. K
    BY <1>1
  <2>2. PICK f : Is(f, K)
    BY <1>3
  <2>3. f = [i \in 1 .. Len(log) + 2 |->
               IF ahead(i) = {} THEN << >> ELSE << next(i) >> \o f[Resume(next(i))]]
    BY <2>1, <2>2
  <2>4. QED BY <2>3, Zenon
<1>5. FailureBlocks(log) = SubSeq(blocks[1], 1, Min({MaxBlocks, Len(blocks[1])}))
  BY Zenon DEF FailureBlocks, ahead, next
<1> HIDE DEF blocks
<1> DEFINE Around(i) == \E m, s : /\ Chain(log, i, m, s)
                                  /\ blocks[i] = [j \in 1 .. m |-> Block(log, s[j])]
<1>6. Around(1)
  <2> DEFINE Bad == {n \in 0 .. K - 1 : ~Around(K - n)}
  <2>1. SUFFICES ASSUME Bad # {} PROVE FALSE
    <3>1. K - 1 \in 0 .. K - 1 /\ K - (K - 1) = 1
      BY <1>1
    <3> HIDE DEF K, Around
    <3>2. QED BY <3>1
  <2>2. PICK n \in Bad : \A o \in Bad : n <= o
    <3>1. Bad \in SUBSET Nat
      BY <1>1
    <3> HIDE DEF Bad
    <3>2. QED BY <2>1, <3>1, Least
  <2> DEFINE i == K - n
  <2>3. n \in 0 .. K - 1 /\ K \in Nat /\ i \in 1 .. K /\ ~Around(i)
    <3>1. K \in Nat
      BY <1>1
    <3> HIDE DEF Around, K
    <3>2. n \in 0 .. K - 1 /\ ~Around(i)
      OBVIOUS
    <3>3. QED BY <3>1, <3>2
  <2>4. ASSUME NEW j \in i + 1 .. K PROVE Around(j)
    <3>1. K - j \in 0 .. K - 1 /\ ~ (n <= K - j) /\ K - (K - j) = j
      BY <2>3
    <3>2. K - j \notin Bad
      <4> HIDE DEF Bad
      <4>1. QED BY <2>2, <3>1
    <3> HIDE DEF Around, K
    <3>3. QED BY <3>1, <3>2
  <2> HIDE DEF i, Bad
  <2>5. CASE ahead(i) = {}
    <3>1. blocks[i] = << >>
      BY <1>4, <2>3, <2>5
    <3>2. << >> = [j \in 1 .. 0 |-> Block(log, << >>[j])]
      OBVIOUS
    <3>3. Chain(log, i, 0, << >>)
      BY <2>5 DEF Chain, ahead
    <3>4. Around(i)
      BY <3>1, <3>2, <3>3
    <3>5. QED BY <2>3, <3>4
  <2>6. CASE ahead(i) # {}
    <3>1. Around(Resume(next(i)))
      <4>1. Resume(next(i)) \in i + 1 .. K
        BY <1>2, <2>3, <2>6
      <4> HIDE DEF Around
      <4>2. QED BY <2>4, <4>1
    <3>2. PICK m, s : /\ Chain(log, Resume(next(i)), m, s)
                      /\ blocks[Resume(next(i))] = [j \in 1 .. m |-> Block(log, s[j])]
      BY <3>1
    <3> DEFINE n0 == Min(ahead(i))
               t == [j \in 1 .. m + 1 |-> IF j = 1 THEN n0 ELSE s[j - 1]]
    <3>3. n0 \in Marked(log) /\ n0 >= i /\ \A l \in Marked(log) : l >= i => n0 <= l
      BY <1>2, <2>3, <2>6
    <3>4. next(i) = Block(log, n0)
      BY DEF next
    <3> HIDE DEF n0
    <3>5. i \in Nat /\ m \in Nat
      BY <2>3, <3>2 DEF Chain
    <3>6. Chain(log, i, m + 1, t)
      BY <3>2, <3>3, <3>4, <3>5, ChainGoesOn
    <3>7. blocks[i] = << next(i) >> \o blocks[Resume(next(i))]
      BY <1>4, <2>3, <2>6
    <3>8. blocks[i] = [j \in 1 .. m + 1 |-> Block(log, t[j])]
      <4> DEFINE h == [j \in 1 .. m |-> Block(log, s[j])]
      <4>1. << next(i) >> \o [j \in 1 .. m |-> h[j]]
              = [j \in 1 .. m + 1 |-> IF j = 1 THEN next(i) ELSE h[j - 1]]
        BY <3>5, InFront
      <4>2. [j \in 1 .. m |-> h[j]] = h
        OBVIOUS
      <4>3. \A j \in 1 .. m + 1 : (IF j = 1 THEN next(i) ELSE h[j - 1]) = Block(log, t[j])
        <5>1. ASSUME NEW j \in 1 .. m + 1, j # 1 PROVE h[j - 1] = Block(log, t[j])
          <6>1. j - 1 \in 1 .. m /\ t[j] = s[j - 1]
            BY <3>5, <5>1
          <6> HIDE DEF t
          <6>2. QED BY <6>1
        <5>2. \A j \in 1 .. m + 1 : j = 1 => next(i) = Block(log, t[j])
          BY <3>4
        <5>3. QED BY <5>1, <5>2
      <4> HIDE DEF h, t
      <4>4. blocks[i] = [j \in 1 .. m + 1 |-> IF j = 1 THEN next(i) ELSE h[j - 1]]
        BY <3>2, <3>7, <4>1, <4>2 DEF h
      <4>5. QED BY <4>3, <4>4
    <3> HIDE DEF t
    <3>9. Around(i)
      BY <3>6, <3>8
    <3>10. QED BY <2>3, <3>9
  <2>7. QED BY <2>5, <2>6
<1>7. PICK m, s : /\ Chain(log, 1, m, s)
                  /\ blocks[1] = [j \in 1 .. m |-> Block(log, s[j])]
  BY <1>6
<1>8. m \in Nat /\ MaxBlocks \in Nat \ {0}
  BY <1>7, ReportAssumption DEF Chain
<1> DEFINE w == IF MaxBlocks <= m THEN MaxBlocks ELSE m
           h == [j \in 1 .. m |-> Block(log, s[j])]
<1>9. Len(h) = m
  BY <1>8
<1>10. Min({MaxBlocks, Len(blocks[1])}) = w
  BY <1>7, <1>8, <1>9, MinOfTwo
<1>11. SubSeq(h, 1, w) = [j \in 1 .. w |-> h[j]]
  BY <1>8
<1>12. \A j \in 1 .. w : h[j] = Block(log, s[j])
  BY <1>8
<1> HIDE DEF h, w
<1>13. FailureBlocks(log) = [j \in 1 .. w |-> Block(log, s[j])]
  <2>1. FailureBlocks(log) = SubSeq(h, 1, w)
    BY <1>5, <1>7, <1>10 DEF h
  <2>2. QED BY <1>11, <1>12, <2>1
<1>14. QED BY <1>7, <1>13 DEF w

\* What a text built of several says: it starts as the first of them does, and
\* every line of each of them is in it.
LEMMA OneAfterTheOther ==
  ASSUME NEW seqs \in Seq(Seq(Pieces)), seqs # << >>
  PROVE  LET text == FlattenSeq(seqs)
         IN  /\ text \in Seq(Pieces)
             /\ Len(seqs[1]) <= Len(text)
             /\ \A k \in 1 .. Len(seqs[1]) : text[k] = seqs[1][k]
             /\ \A i \in DOMAIN seqs : ToSet(seqs[i]) \subseteq ToSet(text)
<1> DEFINE L == Len(seqs)
           text == FlattenSeq(seqs)
           Good(t, n) == /\ t \in Seq(Pieces)
                         /\ Len(seqs[1]) <= Len(t)
                         /\ \A k \in 1 .. Len(seqs[1]) : t[k] = seqs[1][k]
                         /\ \A i \in 1 .. n : ToSet(seqs[i]) \subseteq ToSet(t)
<1>1. L \in Nat \ {0} /\ DOMAIN seqs = 1 .. L /\ \A i \in 1 .. L : seqs[i] \in Seq(Pieces)
  OBVIOUS
<1>2. PICK f : /\ f = [i \in 1 .. Len(seqs) |->
                         IF i = 1 THEN seqs[i] ELSE f[i - 1] \o seqs[i]]
               /\ FlattenSeq(seqs) = f[Len(seqs)]
  BY Flatten
<1> HIDE DEF text
<1>3. f[1] = seqs[1] /\ \A i \in 2 .. L : f[i] = f[i - 1] \o seqs[i]
  <2>1. f = [i \in 1 .. L |-> IF i = 1 THEN seqs[i] ELSE f[i - 1] \o seqs[i]]
    BY <1>2
  <2> HIDE DEF L
  <2>2. 1 \in 1 .. L /\ \A i \in 2 .. L : i \in 1 .. L /\ i # 1
    BY <1>1
  <2>3. \A i \in 1 .. L : f[i] = IF i = 1 THEN seqs[i] ELSE f[i - 1] \o seqs[i]
    BY <2>1
  <2>4. f[1] = seqs[1]
    BY <2>2, <2>3
  <2>5. ASSUME NEW i \in 2 .. L PROVE f[i] = f[i - 1] \o seqs[i]
    <3>1. i \in 1 .. L /\ i # 1
      BY <2>2
    <3>2. QED BY <2>3, <3>1
  <2>6. QED BY <2>4, <2>5
<1>4. text = f[L]
  BY <1>2 DEF text
<1> HIDE DEF L
<1> DEFINE Bad == {n \in 1 .. L : ~Good(f[n], n)}
<1>5. Bad = {}
  <2>1. SUFFICES ASSUME Bad # {} PROVE FALSE
    OBVIOUS
  <2>2. PICK n \in Bad : \A o \in Bad : n <= o
    <3>1. Bad \in SUBSET Nat
      BY <1>1
    <3> HIDE DEF Bad
    <3>2. QED BY <2>1, <3>1, Least
  <2>3. n \in 1 .. L /\ ~Good(f[n], n)
    <3> HIDE DEF Good
    <3>1. QED OBVIOUS
  <2>4. n # 1
    <3>1. seqs[1] \in Seq(Pieces)
      BY <1>1
    <3>2. Good(seqs[1], 1)
      BY <3>1
    <3> HIDE DEF Good
    <3>3. QED BY <1>3, <2>3, <3>2
  <2>5. Good(f[n - 1], n - 1)
    <3>1. n - 1 \in 1 .. L /\ ~ (n <= n - 1)
      BY <1>1, <2>3, <2>4
    <3>2. n - 1 \notin Bad
      <4> HIDE DEF Bad
      <4>1. QED BY <2>2, <3>1
    <3> HIDE DEF Good
    <3>3. QED BY <3>1, <3>2
  <2> DEFINE a == f[n - 1]
             b == seqs[n]
             first == seqs[1]
  <2>6. f[n] = a \o b /\ b \in Seq(Pieces) /\ first \in Seq(Pieces)
    <3>1. n \in 2 .. L /\ 1 \in 1 .. L
      BY <1>1, <2>3, <2>4
    <3>2. f[n] = a \o b
      BY <1>3, <3>1
    <3> HIDE DEF a
    <3>3. QED BY <1>1, <2>3, <3>1, <3>2
  <2>7. /\ a \in Seq(Pieces) /\ Len(first) <= Len(a)
        /\ \A k \in 1 .. Len(first) : a[k] = first[k]
        /\ \A i \in 1 .. n - 1 : ToSet(seqs[i]) \subseteq ToSet(a)
    BY <2>5
  <2> HIDE DEF a, b, first
  <2>8. /\ a \o b \in Seq(Pieces) /\ Len(a \o b) = Len(a) + Len(b)
        /\ Len(a) \in Nat /\ Len(b) \in Nat /\ Len(first) \in Nat
        /\ DOMAIN a = 1 .. Len(a) /\ DOMAIN b = 1 .. Len(b)
        /\ DOMAIN (a \o b) = 1 .. Len(a) + Len(b)
    BY <2>6, <2>7
  <2>9. /\ \A k \in 1 .. Len(a) : k \in 1 .. Len(a) + Len(b) /\ (a \o b)[k] = a[k]
        /\ \A k \in 1 .. Len(b) : /\ Len(a) + k \in 1 .. Len(a) + Len(b)
                                  /\ (a \o b)[Len(a) + k] = b[k]
    BY <2>6, <2>7, <2>8
  <2> DEFINE t == a \o b
  <2>10. ToSet(a) \subseteq ToSet(t) /\ ToSet(b) \subseteq ToSet(t)
    <3> HIDE DEF t
    <3>1. /\ \A k \in 1 .. Len(a) : k \in DOMAIN t /\ t[k] = a[k]
          /\ \A k \in 1 .. Len(b) : Len(a) + k \in DOMAIN t /\ t[Len(a) + k] = b[k]
      BY <2>8, <2>9 DEF t
    <3>2. QED BY <2>8, <3>1 DEF ToSet
  <2>11. \A i \in 1 .. n : ToSet(seqs[i]) \subseteq ToSet(t)
    <3>1. \A i \in 1 .. n : i = n \/ i \in 1 .. n - 1
      BY <2>3
    <3> HIDE DEF t
    <3>2. QED BY <2>7, <2>10, <3>1 DEF b
  <2>12. Len(first) <= Len(t) /\ \A k \in 1 .. Len(first) : t[k] = first[k]
    <3>1. \A k \in 1 .. Len(first) : k \in 1 .. Len(a)
      BY <2>7, <2>8
    <3>2. Len(first) <= Len(t)
      BY <2>7, <2>8
    <3> HIDE DEF t
    <3>3. \A k \in 1 .. Len(first) : t[k] = first[k]
      BY <2>7, <2>9, <3>1 DEF t
    <3>4. QED BY <3>2, <3>3
  <2>13. Good(t, n)
    <3>1. t \in Seq(Pieces)
      BY <2>8
    <3> HIDE DEF t
    <3>2. QED BY <2>11, <2>12, <3>1 DEF first
  <2>14. t = f[n]
    BY <2>6
  <2> HIDE DEF Good, t
  <2>15. QED BY <2>3, <2>13, <2>14
<1>6. Good(f[L], L)
  <2>1. L \in 1 .. L
    BY <1>1
  <2> HIDE DEF Good
  <2>2. QED BY <1>5, <2>1
<1>7. Good(text, L)
  <2> HIDE DEF Good
  <2>1. QED BY <1>4, <1>6
<1>8. QED BY <1>1, <1>7 DEF text

\* The lines of a block, each a piece of the notice.
LEMMA BlockPieces ==
  ASSUME NEW log \in Seq(Line), NEW n \in Marked(log)
  PROVE  LET block == Block(log, n)
             text == BlockText(log, block)
         IN  /\ text \in Seq(Pieces)
             /\ Len(text) = block.last - block.first + 1 /\ Len(text) \in Nat \ {0}
             /\ \A k \in 1 .. Len(text) :
                  text[k] = Piece(log, block.first + k - 1, block.first + k - 1 < block.last)
             /\ \A l \in block.first .. block.last :
                  \E k \in 1 .. Len(text) : text[k].line = l
<1> DEFINE block == Block(log, n)
           c == block.last - block.first + 1
           text == BlockText(log, block)
<1>1. /\ Len(log) \in Nat /\ block.first \in 1 .. Len(log) /\ block.last \in 1 .. Len(log)
      /\ block.first <= block.last
  BY BlockOf
<1> HIDE DEF block
<1>2. c \in Nat \ {0}
  BY <1>1
<1>3. text = [k \in 1 .. c |-> Piece(log, block.first + k - 1, block.first + k - 1 < block.last)]
  BY DEF BlockText
<1>4. \A l \in 1 .. Len(log) : log[l].size \in Nat
  <2>1. \A x \in Line : x.size \in Nat
    BY DEF Line
  <2>2. QED BY <2>1
<1>5. ASSUME NEW l \in 1 .. Len(log), NEW newline
      PROVE  Piece(log, l, newline) \in Pieces /\ Piece(log, l, newline).line = l
  BY <1>4 DEF Piece, Pieces
<1>6. \A k \in 1 .. c : block.first + k - 1 \in 1 .. Len(log)
  BY <1>1
<1> HIDE DEF text, c
<1>7. /\ \A k \in 1 .. c : text[k] = Piece(log, block.first + k - 1,
                                           block.first + k - 1 < block.last)
      /\ \A k \in 1 .. c : text[k] \in Pieces /\ text[k].line = block.first + k - 1
      /\ DOMAIN text = 1 .. c
  BY <1>3, <1>5, <1>6
<1>8. text \in [1 .. c -> Pieces]
  BY <1>3, <1>7
<1>9. text \in Seq(Pieces) /\ Len(text) = c
  BY <1>2, <1>8
<1>10. \A l \in block.first .. block.last :
         l - block.first + 1 \in 1 .. c /\ block.first + (l - block.first + 1) - 1 = l
  BY <1>1 DEF c
<1>11. \A l \in block.first .. block.last : \E k \in 1 .. c : text[k].line = l
  BY <1>7, <1>10
<1>12. QED BY <1>2, <1>7, <1>9, <1>11 DEF text, c, block

\* Blocks that are sent are sent whole, and the first right after the title.
LEMMA Extracted ==
  ASSUME NEW log \in Seq(Line), NEW w \in Nat \ {0}, NEW s,
         \A j \in 1 .. w : s[j] \in Marked(log)
  PROVE  LET text == Extract(log, [j \in 1 .. w |-> Block(log, s[j])])
             first == BlockText(log, Block(log, s[1]))
         IN  /\ text \in Text
             /\ Len(first) + 1 <= Len(text)
             /\ text[1] = Wording
             /\ \A k \in 1 .. Len(first) : text[k + 1] = first[k]
             /\ \A j \in 1 .. w :
                  Block(log, s[j]).first .. Block(log, s[j]).last
                    \subseteq {p.line : p \in ToSet(text)}
<1> DEFINE blocks == [j \in 1 .. w |-> Block(log, s[j])]
           seqs == [b \in DOMAIN blocks |-> (IF b = 1 THEN << >> ELSE << Wording >>)
                                              \o BlockText(log, blocks[b])]
           body == FlattenSeq(seqs)
           text == Extract(log, blocks)
           part(j) == BlockText(log, Block(log, s[j]))
<1>1. text = << Wording >> \o body
  BY DEF Extract
<1>2. Wording \in Pieces
  BY ReportAssumption DEF Wording, Pieces
<1>3. \A j \in 1 .. w : part(j) \in Seq(Pieces)
  BY BlockPieces
<1>4. \A j \in 1 .. w : seqs[j] = (IF j = 1 THEN << >> ELSE << Wording >>) \o part(j)
  OBVIOUS
<1>5. DOMAIN seqs = 1 .. w
  OBVIOUS
<1> HIDE DEF seqs, part, body, text
<1>6. 1 \in 1 .. w /\ seqs[1] = part(1)
  <2>1. 1 \in 1 .. w
    OBVIOUS
  <2>2. << >> \o part(1) = part(1)
    BY <1>3, <2>1
  <2>3. QED BY <1>4, <2>1, <2>2
<1>7. ASSUME NEW j \in 1 .. w
      PROVE  seqs[j] \in Seq(Pieces) /\ ToSet(part(j)) \subseteq ToSet(seqs[j])
  <2>1. CASE j = 1
    BY <1>3, <1>6, <2>1
  <2>2. CASE j # 1
    <3> DEFINE p == part(j)
               t == << Wording >> \o p
    <3>1. p \in Seq(Pieces) /\ seqs[j] = t
      BY <1>3, <1>4, <2>2
    <3> HIDE DEF p
    <3>2. /\ t \in Seq(Pieces) /\ Len(p) \in Nat /\ DOMAIN p = 1 .. Len(p)
          /\ DOMAIN t = 1 .. Len(p) + 1 /\ \A k \in 1 .. Len(p) : t[k + 1] = p[k]
      BY <1>2, <3>1
    <3> HIDE DEF t
    <3>3. \A k \in 1 .. Len(p) : k + 1 \in DOMAIN t
      BY <3>2
    <3>4. ToSet(p) \subseteq ToSet(t)
      BY <3>2, <3>3 DEF ToSet
    <3>5. QED BY <3>1, <3>2, <3>4 DEF p
  <2>3. QED BY <2>1, <2>2
<1>8. seqs \in Seq(Seq(Pieces)) /\ seqs # << >>
  <2>1. seqs = [j \in 1 .. w |-> seqs[j]]
    BY <1>5 DEF seqs
  <2>2. seqs \in [1 .. w -> Seq(Pieces)]
    BY <1>7, <2>1
  <2>3. Len(seqs) = w /\ seqs \in Seq(Seq(Pieces))
    BY <2>2
  <2>4. QED BY <2>3
<1>9. /\ body \in Seq(Pieces)
      /\ Len(part(1)) <= Len(body)
      /\ \A k \in 1 .. Len(part(1)) : body[k] = part(1)[k]
      /\ \A j \in 1 .. w : ToSet(seqs[j]) \subseteq ToSet(body)
  BY <1>5, <1>6, <1>8, OneAfterTheOther DEF body
<1>10. /\ text \in Seq(Pieces) /\ Len(text) = Len(body) + 1 /\ Len(body) \in Nat
       /\ text[1] = Wording /\ \A k \in 1 .. Len(body) : text[k + 1] = body[k]
       /\ DOMAIN text = 1 .. Len(body) + 1 /\ DOMAIN body = 1 .. Len(body)
  BY <1>1, <1>2, <1>9
<1>11. Len(part(1)) + 1 <= Len(text) /\ \A k \in 1 .. Len(part(1)) : text[k + 1] = part(1)[k]
  <2>1. Len(part(1)) \in Nat
    BY <1>3, <1>6
  <2>2. QED BY <1>9, <1>10, <2>1
<1>12. ToSet(body) \subseteq ToSet(text)
  <2>1. \A k \in 1 .. Len(body) : k + 1 \in DOMAIN text
    BY <1>10
  <2>2. QED BY <1>10, <2>1 DEF ToSet
<1>13. ASSUME NEW j \in 1 .. w, NEW l \in Block(log, s[j]).first .. Block(log, s[j]).last
       PROVE  l \in {p.line : p \in ToSet(text)}
  <2>1. PICK k \in 1 .. Len(part(j)) : part(j)[k].line = l
    BY BlockPieces DEF part
  <2>2. part(j)[k] \in ToSet(part(j))
    <3>1. DOMAIN part(j) = 1 .. Len(part(j))
      BY <1>3
    <3>2. QED BY <3>1 DEF ToSet
  <2>3. part(j)[k] \in ToSet(text)
    BY <1>7, <1>9, <1>12, <2>2
  <2>4. QED BY <2>1, <2>3
<1>14. text \in Text
  BY <1>10 DEF Text
<1>15. QED BY <1>10, <1>11, <1>13, <1>14 DEF text, part

\* The whole log, line by line.
LEMMA WholeLog ==
  ASSUME NEW log \in Seq(Line)
  PROVE  /\ Whole(log) \in Seq(Pieces) /\ Len(Whole(log)) = Len(log) /\ Len(log) \in Nat
         /\ \A n \in 1 .. Len(log) : n \in {p.line : p \in ToSet(Whole(log))}
<1> DEFINE text == Whole(log)
<1>1. Len(log) \in Nat /\ DOMAIN log = 1 .. Len(log) /\ \A n \in 1 .. Len(log) : log[n].size \in Nat
  <2>1. \A x \in Line : x.size \in Nat
    BY DEF Line
  <2>2. QED BY <2>1
<1>2. text = [n \in 1 .. Len(log) |-> Piece(log, n, TRUE)]
  BY <1>1 DEF Whole
<1>3. \A n \in 1 .. Len(log) : Piece(log, n, TRUE) \in Pieces /\ Piece(log, n, TRUE).line = n
  BY <1>1 DEF Piece, Pieces
<1> HIDE DEF text
<1>4. text \in [1 .. Len(log) -> Pieces] /\ DOMAIN text = 1 .. Len(log)
      /\ \A n \in 1 .. Len(log) : text[n].line = n
  BY <1>2, <1>3
<1>5. text \in Seq(Pieces) /\ Len(text) = Len(log)
  BY <1>1, <1>4
<1>6. \A n \in 1 .. Len(log) : text[n] \in ToSet(text)
  BY <1>4 DEF ToSet
<1>7. \A n \in 1 .. Len(log) : n \in {p.line : p \in ToSet(text)}
  BY <1>4, <1>6
<1>8. QED BY <1>1, <1>5, <1>7 DEF text

\* What readTestOutput sends of a log with a mark: of a short log everything, of
\* a long one the blocks around a chain of marked lines, the first and then as
\* many as are sent.
LEMMA OutputOfMarked ==
  ASSUME NEW log \in Seq(Line), Marked(log) # {}, Len(log) > Threshold
  PROVE  \E m, s : /\ Chain(log, 1, m, s) /\ m # 0
                   /\ TestOutput(log) =
                        Extract(log, [j \in 1 .. (IF MaxBlocks <= m THEN MaxBlocks ELSE m)
                                        |-> Block(log, s[j])])
<1>1. PICK m, s : /\ Chain(log, 1, m, s)
                  /\ FailureBlocks(log) =
                       [j \in 1 .. (IF MaxBlocks <= m THEN MaxBlocks ELSE m)
                          |-> Block(log, s[j])]
  BY BlocksFound
<1> DEFINE w == IF MaxBlocks <= m THEN MaxBlocks ELSE m
<1>2. m \in Nat /\ m # 0
  <2>1. PICK n \in Marked(log) : TRUE
    OBVIOUS
  <2>2. n >= 1
    BY DEF Marked
  <2>3. PICK k \in 1 .. m : TRUE
    BY <1>1, <2>2 DEF Chain
  <2>4. QED BY <1>1, <2>3 DEF Chain
<1>3. w \in Nat \ {0}
  BY <1>2, ReportAssumption
<1> HIDE DEF w
<1>4. FailureBlocks(log) # << >>
  <2>1. 1 \in DOMAIN FailureBlocks(log)
    BY <1>1, <1>3 DEF w
  <2>2. QED BY <2>1
<1>5. ~ (Len(log) <= Threshold)
  <2>1. Len(log) \in Nat /\ Threshold \in Nat
    BY ReportAssumption
  <2>2. QED BY <2>1
<1>6. TestOutput(log) = Extract(log, FailureBlocks(log))
  BY <1>4, <1>5 DEF TestOutput
<1>7. TestOutput(log) = Extract(log, [j \in 1 .. (IF MaxBlocks <= m THEN MaxBlocks ELSE m)
                                        |-> Block(log, s[j])])
  BY <1>1, <1>6
<1>8. Chain(log, 1, m, s) /\ m # 0
  BY <1>1, <1>2
<1>9. QED BY <1>7, <1>8

\* Whatever is sent is a text.
LEMMA OutputIsText ==
  ASSUME NEW log \in Seq(Line)
  PROVE  TestOutput(log) \in Text
<1>1. Whole(log) \in Seq(Pieces) /\ Len(Whole(log)) = Len(log) /\ Len(log) \in Nat
  BY WholeLog
<1>2. Threshold \in Nat /\ FinalLines \in Nat \ {0} /\ Wording \in Pieces
  BY ReportAssumption DEF Wording, Pieces
<1>3. CASE Len(log) <= Threshold
  BY <1>1, <1>3 DEF TestOutput, Text
<1>4. CASE ~ (Len(log) <= Threshold)
  <2>1. CASE Marked(log) # {}
    <3>1. PICK m, s : /\ Chain(log, 1, m, s) /\ m # 0
                      /\ TestOutput(log) =
                           Extract(log, [j \in 1 .. (IF MaxBlocks <= m THEN MaxBlocks ELSE m)
                                           |-> Block(log, s[j])])
      <4>1. Len(log) > Threshold
        BY <1>1, <1>2, <1>4
      <4>2. QED BY <2>1, <4>1, OutputOfMarked
    <3> DEFINE w == IF MaxBlocks <= m THEN MaxBlocks ELSE m
    <3>2. w \in Nat \ {0} /\ \A j \in 1 .. w : s[j] \in Marked(log)
      <4>1. m \in Nat \ {0} /\ s \in [1 .. m -> Marked(log)] /\ MaxBlocks \in Nat \ {0}
        BY <3>1, ReportAssumption DEF Chain
      <4>2. w \in Nat \ {0} /\ w <= m
        BY <4>1
      <4> HIDE DEF w
      <4>3. QED BY <4>1, <4>2
    <3> HIDE DEF w
    <3>3. Extract(log, [j \in 1 .. w |-> Block(log, s[j])]) \in Text
      BY <3>2, Extracted
    <3>4. QED BY <3>1, <3>3 DEF w
  <2>2. CASE Marked(log) = {}
    <3>1. FailureBlocks(log) = << >>
      <4>1. PICK m, s : /\ Chain(log, 1, m, s)
                        /\ FailureBlocks(log) =
                             [j \in 1 .. (IF MaxBlocks <= m THEN MaxBlocks ELSE m)
                                |-> Block(log, s[j])]
        BY BlocksFound
      <4>2. m = 0
        <5>1. m \in Nat /\ \A j \in 1 .. m : s[j] \in Marked(log)
          BY <4>1 DEF Chain
        <5>2. QED BY <2>2, <5>1
      <4>3. ~ (MaxBlocks <= 0)
        BY ReportAssumption
      <4>4. QED BY <4>1, <4>2, <4>3
    <3> DEFINE from == Max({1, Len(log) - FinalLines + 1})
               rest == SubSeq(Whole(log), from, Len(log))
    <3>2. from = (IF Len(log) - FinalLines + 1 <= 1 THEN 1 ELSE Len(log) - FinalLines + 1)
      BY <1>1, <1>2, MaxOfTwo
    <3>3. from \in 1 .. Len(log) + 1
      BY <1>1, <1>2, <3>2
    <3> HIDE DEF from
    <3>4. rest \in Seq(Pieces)
      <4> DEFINE all == Whole(log)
      <4>1. all \in Seq(Pieces) /\ Len(all) = Len(log) /\ Len(log) \in Nat
        BY <1>1
      <4> HIDE DEF all
      <4>2. SubSeq(all, from, Len(log)) \in Seq(Pieces)
        BY <3>3, <4>1
      <4>3. QED BY <4>2 DEF all
    <3> HIDE DEF rest
    <3>5. << Wording >> \o rest \in Seq(Pieces)
      BY <1>2, <3>4
    <3>6. TestOutput(log) = << Wording >> \o rest
      BY <1>4, <3>1 DEF TestOutput, FinalOutput, rest, from
    <3>7. QED BY <3>5, <3>6 DEF Text
  <2>3. QED BY <2>1, <2>2
<1>5. QED BY <1>3, <1>4

Shown(text) == {p.line : p \in ToSet(text)}

\* A marked line that is not sent is behind MaxBlocks others, each BlockLines or
\* more before the next.
LEMMA LeftOut ==
  ASSUME NEW log \in Seq(Line), NEW n \in Marked(log) \ Shown(TestOutput(log))
  PROVE  \E others \in kSubset(MaxBlocks, {m \in Marked(log) : m + BlockLines <= n}) :
           \A l, m \in others : l < m => l + BlockLines <= m
<1>1. Len(log) \in Nat /\ n \in 1 .. Len(log) /\ Marked(log) \subseteq 1 .. Len(log)
  BY DEF Marked
<1>2. MaxBlocks \in Nat \ {0} /\ BlockLines \in Nat \ {0} /\ Threshold \in Nat
  BY ReportAssumption
<1>3. Len(log) > Threshold
  <2>1. SUFFICES ASSUME Len(log) <= Threshold PROVE FALSE
    BY <1>1, <1>2
  <2>2. n \in {p.line : p \in ToSet(Whole(log))}
    BY <1>1, WholeLog
  <2>3. QED BY <2>1, <2>2 DEF TestOutput, Shown
<1>4. PICK m, s : /\ Chain(log, 1, m, s) /\ m # 0
                  /\ TestOutput(log) =
                       Extract(log, [j \in 1 .. (IF MaxBlocks <= m THEN MaxBlocks ELSE m)
                                       |-> Block(log, s[j])])
  BY <1>3, OutputOfMarked
<1> DEFINE w == IF MaxBlocks <= m THEN MaxBlocks ELSE m
<1>5. /\ m \in Nat /\ \A j \in 1 .. m : s[j] \in Marked(log)
      /\ \A j, k \in 1 .. m : j < k => s[j] + BlockLines <= s[k]
      /\ \E k \in 1 .. m : s[k] <= n /\ n <= Block(log, s[k]).last
  BY <1>1, <1>4 DEF Chain
<1>6. PICK k \in 1 .. m : s[k] <= n /\ n <= Block(log, s[k]).last
  BY <1>5
<1>7. \A j \in 1 .. m : s[j] \in 1 .. Len(log)
  BY <1>1, <1>5
<1>8. w \in Nat \ {0} /\ w <= m /\ 1 .. w \subseteq 1 .. m
  BY <1>2, <1>4, <1>5
<1>9. w < k
  <2>1. SUFFICES ASSUME k <= w PROVE FALSE
    BY <1>5, <1>6, <1>8
  <2>2. k \in 1 .. w
    BY <1>5, <1>6, <1>8, <2>1
  <2> HIDE DEF w
  <2>3. Block(log, s[k]).first .. Block(log, s[k]).last
          \subseteq Shown(Extract(log, [j \in 1 .. w |-> Block(log, s[j])]))
    <3>1. \A j \in 1 .. w : s[j] \in Marked(log)
      BY <1>5, <1>8
    <3>2. QED BY <1>8, <2>2, <3>1, Extracted DEF Shown
  <2>4. Block(log, s[k]).first \in 1 .. s[k] /\ Block(log, s[k]).last \in s[k] .. Len(log)
    BY <1>5, BlockOf
  <2>5. n \in Block(log, s[k]).first .. Block(log, s[k]).last
    BY <1>1, <1>6, <1>7, <2>4
  <2>6. n \in Shown(TestOutput(log))
    BY <1>4, <2>3, <2>5 DEF w
  <2>7. QED BY <2>6
<1>10. w = MaxBlocks
  BY <1>2, <1>5, <1>9
<1> DEFINE others == {s[j] : j \in 1 .. w}
           before == {l \in Marked(log) : l + BlockLines <= n}
<1>11. others \subseteq before
  <2> SUFFICES ASSUME NEW j \in 1 .. w PROVE s[j] \in before
    OBVIOUS
  <2>1. j \in 1 .. m /\ j < k
    BY <1>8, <1>9
  <2>2. s[j] + BlockLines <= s[k] /\ s[j] \in Marked(log)
    BY <1>5, <2>1
  <2>3. s[j] \in Nat /\ s[k] \in Nat /\ n \in Nat
    BY <1>1, <1>7, <2>1
  <2>4. s[j] + BlockLines <= n
    BY <1>2, <1>6, <2>2, <2>3
  <2>5. QED BY <2>2, <2>4
<1>12. ASSUME NEW i \in 1 .. w, NEW j \in 1 .. w
       PROVE  /\ i < j => s[i] + BlockLines <= s[j]
              /\ s[i] < s[j] => i < j
              /\ s[i] = s[j] => i = j
  <2>1. i \in 1 .. m /\ j \in 1 .. m /\ s[i] \in Nat /\ s[j] \in Nat
    BY <1>7, <1>8
  <2>2. /\ i < j => s[i] + BlockLines <= s[j]
        /\ j < i => s[j] + BlockLines <= s[i]
    BY <1>5, <2>1
  <2> HIDE DEF w
  <2>3. QED BY <1>2, <2>1, <2>2
<1>13. \A l, o \in others : l < o => l + BlockLines <= o
  <2> HIDE DEF w
  <2>1. QED BY <1>12
<1>14. Cardinality(others) = MaxBlocks
  <2>1. IsFiniteSet(1 .. MaxBlocks) /\ Cardinality(1 .. MaxBlocks) = MaxBlocks
    BY <1>2, FS_Interval
  <2>2. Cardinality({s[j] : j \in 1 .. w}) = Cardinality(1 .. w)
    <3> HIDE DEF w
    <3>1. IsFiniteSet(1 .. w)
      BY <1>10, <2>1
    <3>2. \A i, j \in 1 .. w : s[i] = s[j] => i = j
      BY <1>12
    <3> DEFINE J == 1 .. w
    <3>3. IsFiniteSet(J) /\ \A i, j \in J : s[i] = s[j] => i = j
      BY <3>1, <3>2
    <3> HIDE DEF J
    <3>4. Cardinality({s[j] : j \in J}) = Cardinality(J)
      BY <3>3, Carried
    <3>5. QED BY <3>4 DEF J
  <2>3. QED BY <1>10, <2>1, <2>2
<1> HIDE DEF others, before
<1>15. others \in kSubset(MaxBlocks, before)
  BY <1>11, <1>14 DEF kSubset
<1>16. QED BY <1>13, <1>15 DEF before

\* The first marked line of a long log is sent, whatever is cut, if it and the
\* lines before it in its block fit (enforceFieldLimit).
LEMMA FirstSent ==
  ASSUME NEW log \in Seq(Line), Len(log) > Threshold,
         NEW n \in Marked(log), \A l \in Marked(log) : n <= l,
         NEW lines \in Nat \ {0}, lines <= n, n - lines + 1 = Block(log, n).first,
         NEW before \in Text, Len(before) = lines,
         \A k \in 1 .. lines : before[k] = Piece(log, n - lines + k, TRUE),
         WordingSize + Size(before) <= Limit - Reserve
  PROVE  n \in Shown(EnforceFieldLimit(TestOutput(log)).text)
<1> DEFINE text == TestOutput(log)
           block == Block(log, n)
           first == BlockText(log, block)
<1>1. /\ Len(log) \in Nat /\ Marked(log) \subseteq 1 .. Len(log)
      /\ {ContextLines, Reserve} \subseteq Nat
      /\ {MaxBlocks, BlockLines, Limit, WordingSize} \subseteq Nat \ {0}
  BY ReportAssumption DEF Marked
<1>2. n \in Marked(log) /\ n \in 1 .. Len(log) /\ \A l \in Marked(log) : n <= l
  BY <1>1
<1>3. /\ Len(text) \in Nat /\ text \in Text
      /\ Len(first) + 1 <= Len(text) /\ text[1] = Wording
      /\ \A k \in 1 .. Len(first) : text[k + 1] = first[k]
      /\ block.first .. block.last \subseteq Shown(text)
  <2>1. PICK m, s : /\ Chain(log, 1, m, s) /\ m # 0
                    /\ TestOutput(log) =
                         Extract(log, [j \in 1 .. (IF MaxBlocks <= m THEN MaxBlocks ELSE m)
                                         |-> Block(log, s[j])])
    BY OutputOfMarked
  <2>2. s[1] = n
    <3>1. m \in Nat \ {0} /\ 1 \in 1 .. m /\ s[1] \in Marked(log)
      BY <2>1 DEF Chain
    <3>2. \A l \in Marked(log) : s[1] <= l
      BY <1>1, <2>1 DEF Chain
    <3>3. s[1] <= n /\ n <= s[1] /\ s[1] \in Nat /\ n \in Nat
      BY <1>1, <1>2, <3>1, <3>2
    <3>4. QED BY <3>3
  <2> DEFINE w == IF MaxBlocks <= m THEN MaxBlocks ELSE m
             e == Extract(log, [j \in 1 .. w |-> Block(log, s[j])])
  <2>3. w \in Nat \ {0} /\ \A j \in 1 .. w : s[j] \in Marked(log)
    <3>1. m \in Nat \ {0} /\ s \in [1 .. m -> Marked(log)]
      BY <2>1 DEF Chain
    <3>2. w \in Nat \ {0} /\ w <= m
      BY <1>1, <3>1
    <3> HIDE DEF w
    <3>3. QED BY <3>1, <3>2
  <2>4. e = text
    BY <2>1
  <2> HIDE DEF w
  <2>5. /\ e \in Text
        /\ Len(BlockText(log, Block(log, s[1]))) + 1 <= Len(e)
        /\ e[1] = Wording
        /\ \A k \in 1 .. Len(BlockText(log, Block(log, s[1]))) :
             e[k + 1] = BlockText(log, Block(log, s[1]))[k]
        /\ \A j \in 1 .. w :
             Block(log, s[j]).first .. Block(log, s[j]).last
               \subseteq {p.line : p \in ToSet(e)}
    BY <2>3, Extracted
  <2>6. 1 \in 1 .. w
    BY <2>3
  <2> HIDE DEF e, text
  <2>7. Len(text) \in Nat
    BY <2>4, <2>5, PiecesOf
  <2>8. QED BY <2>2, <2>4, <2>5, <2>6, <2>7 DEF Shown
<1>4. /\ block.first = (IF n - ContextLines <= 1 THEN 1 ELSE n - ContextLines)
      /\ block.first \in 1 .. n /\ block.last \in n .. Len(log)
  BY <1>2, BlockOf
<1>5. lines \in Nat \ {0} /\ n - lines + 1 = block.first /\ lines <= n
  OBVIOUS
<1>6. /\ Len(first) = block.last - block.first + 1
      /\ \A k \in 1 .. Len(first) :
           first[k] = Piece(log, block.first + k - 1, block.first + k - 1 < block.last)
  BY <1>2, BlockPieces
<1> HIDE DEF first, block, text
<1>7. lines <= Len(first) /\ Len(first) \in Nat
  BY <1>1, <1>2, <1>4, <1>5, <1>6
<1>8. \A l \in 1 .. Len(log) : log[l].size \in Nat
  <2>1. \A x \in Line : x.size \in Nat
    BY DEF Line
  <2>2. QED BY <2>1
<1>9. \A k \in 1 .. lines : /\ n - lines + k \in 1 .. Len(log)
                            /\ block.first + k - 1 = n - lines + k
  BY <1>1, <1>2, <1>5
<1>10. before \in Text /\ Len(before) = lines
  OBVIOUS
<1> DEFINE sub == SubSeq(text, 1, lines + 1)
<1>11. /\ sub \in Text /\ Len(sub) = lines + 1 /\ lines + 1 \in 1 .. Len(text)
       /\ \A k \in 1 .. lines + 1 : sub[k] = text[k]
  <2>1. text \in Seq(Pieces) /\ lines + 1 \in 1 .. Len(text)
    <3>1. text \in Seq(Pieces)
      BY <1>3 DEF Text
    <3>2. QED BY <1>3, <1>5, <1>7, <3>1
  <2> HIDE DEF text
  <2>2. sub \in Seq(Pieces) /\ Len(sub) = lines + 1 /\ \A k \in 1 .. lines + 1 : sub[k] = text[k]
    BY <2>1
  <2>3. QED BY <2>1, <2>2 DEF Text
<1> HIDE DEF sub
<1>12. \A k \in 1 .. lines : /\ text[k + 1].line = n - lines + k
                             /\ text[k + 1].size <= before[k].size
  <2> SUFFICES ASSUME NEW k \in 1 .. lines
               PROVE  /\ text[k + 1].line = n - lines + k
                      /\ text[k + 1].size <= before[k].size
    OBVIOUS
  <2> DEFINE l == n - lines + k
  <2>1. k \in 1 .. Len(first)
    BY <1>5, <1>7
  <2>2. text[k + 1] = Piece(log, l, l < block.last)
    BY <1>3, <1>6, <1>9, <2>1
  <2>3. before[k] = Piece(log, l, TRUE)
    OBVIOUS
  <2>4. l \in 1 .. Len(log) /\ log[l].size \in Nat
    BY <1>8, <1>9
  <2> HIDE DEF l
  <2>5. text[k + 1].line = l /\ text[k + 1].size <= before[k].size
    BY <2>2, <2>3, <2>4 DEF Piece
  <2>6. QED BY <2>5 DEF l
<1>13. Size(sub) <= Limit - Reserve
  <2>1. PICK u : Lengths(u, sub) /\ Size(sub) = u[Len(sub)]
    BY <1>11, SizeOf
  <2>2. PICK v : Lengths(v, before) /\ Size(before) = v[Len(before)]
    BY <1>10, SizeOf
  <2>3. \A k \in 1 .. lines : sub[1 + k].size <= before[k].size
    <3>1. \A k \in 1 .. lines : k + 1 \in 1 .. lines + 1 /\ 1 + k = k + 1
      BY <1>5
    <3>2. QED BY <1>11, <1>12, <3>1
  <2>4. 1 + Len(before) <= Len(sub) /\ lines \in 0 .. Len(before) /\ 1 + lines = lines + 1
    BY <1>5, <1>10, <1>11
  <2>5. \A k \in 0 .. Len(before) : u[1 + k] <= u[1] + v[k]
    <3>1. \A k \in 1 .. Len(before) : sub[1 + k].size <= before[k].size
      BY <1>10, <2>3
    <3>2. QED BY <1>10, <1>11, <2>1, <2>2, <2>4, <3>1, SizeOfBeginning
  <2>6. u[lines + 1] <= u[1] + v[lines]
    BY <2>4, <2>5
  <2>7. u[1] = WordingSize
    <3>1. 1 \in 1 .. lines + 1 /\ 1 - 1 = 0
      BY <1>5
    <3>2. sub[1].size = WordingSize
      BY <1>3, <1>11, <3>1 DEF Wording
    <3>3. u[1] = u[1 - 1] + sub[1].size /\ u[0] = 0
      BY <1>11, <2>1, <3>1 DEF Lengths
    <3>4. QED BY <1>1, <3>1, <3>2, <3>3
  <2>8. u[lines + 1] = Size(sub) /\ v[lines] = Size(before)
    BY <1>10, <1>11, <2>1, <2>2
  <2>9. Size(sub) \in Nat /\ Size(before) \in Nat
    <3>1. lines + 1 \in 0 .. Len(sub) /\ lines \in 0 .. Len(before)
      BY <1>5, <1>10, <1>11
    <3>2. u[lines + 1] \in Nat /\ v[lines] \in Nat
      BY <2>1, <2>2, <3>1 DEF Lengths
    <3>3. QED BY <2>8, <3>2
  <2>10. Size(sub) <= WordingSize + Size(before)
    BY <2>6, <2>7, <2>8
  <2>11. QED BY <1>1, <2>9, <2>10
<1>14. text[lines + 1].line = n
  <2>1. lines \in 1 .. lines /\ n - lines + lines = n
    BY <1>2, <1>5
  <2>2. QED BY <1>12, <2>1
<1>15. CASE Size(text) <= Limit
  <2>1. EnforceFieldLimit(text).text = text
    BY <1>15 DEF EnforceFieldLimit
  <2>2. n \in block.first .. block.last
    BY <1>1, <1>2, <1>4
  <2>3. QED BY <1>3, <2>1, <2>2 DEF text
<1>16. CASE ~ (Size(text) <= Limit)
  <2> DEFINE kept == {k \in 0 .. Len(text) : Size(SubSeq(text, 1, k)) <= Limit - Reserve}
             cut == SubSeq(text, 1, Max(kept))
  <2>1. EnforceFieldLimit(text).text = cut
    BY <1>16 DEF EnforceFieldLimit
  <2>2. lines + 1 \in kept
    BY <1>3, <1>5, <1>11, <1>13 DEF sub
  <2>3. kept \in SUBSET Int /\ IsFiniteSet(kept) /\ kept # {} /\ kept \subseteq 0 .. Len(text)
    <3>1. kept \subseteq 0 .. Len(text)
      OBVIOUS
    <3> HIDE DEF kept
    <3>2. IsFiniteSet(0 .. Len(text))
      BY <1>3, FS_Interval
    <3>3. IsFiniteSet(kept)
      BY <3>1, <3>2, FS_Subset
    <3>4. kept \in SUBSET Int /\ kept # {}
      BY <2>2, <3>1
    <3>5. QED BY <3>1, <3>3, <3>4
  <2> HIDE DEF kept
  <2>4. Max(kept) \in kept /\ lines + 1 <= Max(kept)
    BY <2>2, <2>3, MaxOf
  <2> DEFINE M == Max(kept)
  <2>5. M \in 0 .. Len(text) /\ lines + 1 <= M
    BY <2>3, <2>4
  <2> HIDE DEF M
  <2>6. text \in Seq(Pieces)
    BY <1>3 DEF Text
  <2>7. DOMAIN SubSeq(text, 1, M) = 1 .. M /\ \A k \in 1 .. M : SubSeq(text, 1, M)[k] = text[k]
    BY <1>3, <2>5, <2>6
  <2>8. lines + 1 \in 1 .. M
    BY <1>3, <1>5, <2>5
  <2>9. text[lines + 1] \in ToSet(SubSeq(text, 1, M))
    BY <2>7, <2>8 DEF ToSet
  <2>10. n \in Shown(SubSeq(text, 1, M))
    BY <1>14, <2>9 DEF Shown
  <2>11. QED BY <2>1, <2>10 DEF M, text
<1>17. QED BY <1>15, <1>16

\* In the words of the property.
LEMMA FirstShown ==
  ASSUME NEW log \in Seq(Line), Marked(log) # {}, Len(log) > Threshold
  PROVE  LET n == Min(Marked(log))
             lines == Min({ContextLines + 1, n})
             before == [k \in 1 .. lines |-> Piece(log, n - lines + k, TRUE)]
         IN  WordingSize + Size(before) <= Limit - Reserve
               => n \in Shown(EnforceFieldLimit(TestOutput(log)).text)
<1> DEFINE n == Min(Marked(log))
           lines == Min({ContextLines + 1, n})
           before == [k \in 1 .. lines |-> Piece(log, n - lines + k, TRUE)]
<1>1. Len(log) \in Nat /\ Marked(log) \subseteq 1 .. Len(log) /\ ContextLines \in Nat
  BY ReportAssumption DEF Marked
<1>2. n \in Marked(log) /\ \A l \in Marked(log) : n <= l
  <2> DEFINE T == Marked(log)
  <2>1. T \in SUBSET Nat /\ T # {}
    BY <1>1
  <2> HIDE DEF T
  <2>2. Min(T) \in T /\ \A x \in T : Min(T) <= x
    BY <2>1, MinOf
  <2>3. QED BY <2>2 DEF T
<1> HIDE DEF n
<1>3. n \in 1 .. Len(log)
  BY <1>1, <1>2
<1>4. lines = IF ContextLines + 1 <= n THEN ContextLines + 1 ELSE n
  BY <1>1, <1>3, MinOfTwo
<1> HIDE DEF lines
<1>5. lines \in Nat \ {0} /\ lines <= n
  BY <1>1, <1>3, <1>4
<1>6. n - lines + 1 = Block(log, n).first
  <2>1. Block(log, n).first = (IF n - ContextLines <= 1 THEN 1 ELSE n - ContextLines)
    BY <1>2, BlockOf
  <2>2. QED BY <1>1, <1>3, <1>4, <2>1
<1>7. \A l \in 1 .. Len(log) : log[l].size \in Nat
  <2>1. \A x \in Line : x.size \in Nat
    BY DEF Line
  <2>2. QED BY <2>1
<1>8. \A k \in 1 .. lines : before[k] = Piece(log, n - lines + k, TRUE)
  OBVIOUS
<1>9. \A k \in 1 .. lines : before[k] \in Pieces
  <2>1. \A k \in 1 .. lines : n - lines + k \in 1 .. Len(log)
    BY <1>1, <1>3, <1>5
  <2>2. \A l \in 1 .. Len(log) : Piece(log, l, TRUE) \in Pieces
    BY <1>7 DEF Piece, Pieces
  <2> HIDE DEF before
  <2>3. QED BY <1>8, <2>1, <2>2
<1>10. before \in [1 .. lines -> Pieces]
  <2>1. before = [k \in 1 .. lines |-> before[k]]
    OBVIOUS
  <2> HIDE DEF before
  <2>2. QED BY <1>9, <2>1
<1> HIDE DEF before
<1>11. before \in Seq(Pieces) /\ Len(before) = lines
  BY <1>5, <1>10
<1>12. before \in Text
  BY <1>11 DEF Text
<1>13. WordingSize + Size(before) <= Limit - Reserve
         => n \in Shown(EnforceFieldLimit(TestOutput(log)).text)
  BY <1>2, <1>5, <1>6, <1>8, <1>11, <1>12, FirstSent
<1>14. QED BY <1>13 DEF n, lines, before

\* The notice carries what the artifacts call for, whatever else goes wrong.
NoticeInv ==
  /\ config \in Configs
  /\ message.of = "notice" => message.logs = Logs

\* The log in a notice, if it carries one, shows where it failed.
LEMMA NoticeShows == NoticeInv => FailuresShown
<1> SUFFICES ASSUME NoticeInv, message.of = "notice", message.logs = "log"
             PROVE  FailuresShown
  BY DEF FailuresShown
<1> DEFINE log == File(CHOOSE path \in TestOutputLog : TRUE).lines
           field == LogField
           shown == {p.line : p \in ToSet(field.text)}
           n == Min(Marked(log))
           lines == Min({ContextLines + 1, n})
           before == [k \in 1 .. lines |-> Piece(log, n - lines + k, TRUE)]
<1>1. log \in Seq(Line)
  <2>1. TestOutputLog # {}
    BY DEF NoticeInv, Logs
  <2>2. PICK path \in TestOutputLog : path = CHOOSE x \in TestOutputLog : TRUE
    BY <2>1
  <2>3. config \in Config
    BY AnalysisAssumption DEF NoticeInv
  <2>4. config.listing \in Seq(Paths) /\ config.disk \in [Paths -> Entry]
    BY <2>3 DEF Config
  <2>5. path \in Paths
    <3>1. path \in ToSet(config.listing)
      BY DEF TestOutputLog
    <3>2. QED BY <2>4, <3>1 DEF ToSet
  <2>6. File(path) \in Entry
    BY <2>4, <2>5 DEF File
  <2>7. File(path).lines \in Seq(Line)
    BY <2>6 DEF Entry
  <2>8. QED BY <2>2, <2>7
<1>2. field = EnforceFieldLimit(TestOutput(log))
  BY DEF LogField
<1> HIDE DEF log, field
<1>3. field.size <= Limit
  <2>1. Reserve \in Nat /\ Limit \in Nat /\ WordingSize \in Nat /\ WordingSize <= Reserve
    BY ReportAssumption
  <2>2. CASE Size(TestOutput(log)) <= Limit
    BY <1>2, <2>2 DEF EnforceFieldLimit
  <2>3. CASE ~ (Size(TestOutput(log)) <= Limit)
    BY <1>2, <2>1, <2>3 DEF EnforceFieldLimit
  <2>4. QED BY <2>2, <2>3
<1>4. ASSUME ~field.cut, NEW l \in Marked(log) \ shown
      PROVE  \E others \in kSubset(MaxBlocks, {m \in Marked(log) : m + BlockLines <= l}) :
               \A k, m \in others : k < m => k + BlockLines <= m
  <2>1. field.text = TestOutput(log)
    <3>1. CASE Size(TestOutput(log)) <= Limit
      BY <1>2, <3>1 DEF EnforceFieldLimit
    <3>2. CASE ~ (Size(TestOutput(log)) <= Limit)
      BY <1>2, <1>4, <3>2 DEF EnforceFieldLimit
    <3>3. QED BY <3>1, <3>2
  <2>2. l \in Marked(log) \ Shown(TestOutput(log))
    BY <1>4, <2>1 DEF Shown
  <2>3. QED BY <1>1, <2>2, LeftOut
<1>5. ASSUME Marked(log) # {}, Len(log) > Threshold,
             WordingSize + Size(before) <= Limit - Reserve
      PROVE  n \in shown
  <2>1. n \in Shown(EnforceFieldLimit(TestOutput(log)).text)
    BY <1>1, <1>5, FirstShown
  <2>2. QED BY <1>2, <2>1 DEF Shown
<1>6. QED BY <1>3, <1>4, <1>5 DEF FailuresShown, log, field

\* No step takes it back.
LEMMA NoticeStep == NoticeInv /\ [Next]_vars => NoticeInv'
<1> SUFFICES ASSUME NoticeInv, [Next]_vars
             PROVE  NoticeInv'
  OBVIOUS
<1>1. config' = config
  BY DEF Next, vars, NewEngine, CollectTests, CollectKrkn, NoDirectory, ParseJUnit, Finish,
         Receive, AllReceived, Analyze, GenerateContent, HandleToolCall, CallsHandled,
         WriteSummary, Report
<1>2. Logs' = Logs
  BY <1>1 DEF Logs, TestOutputLog, File
<1>3. message' = message \/ message' = BuildWorkflowPayload
  BY DEF Next, vars, NewEngine, CollectTests, CollectKrkn, NoDirectory, ParseJUnit, Finish,
         Receive, AllReceived, Analyze, GenerateContent, HandleToolCall, CallsHandled,
         WriteSummary, Report
<1>4. BuildWorkflowPayload.logs = Logs
  BY DEF BuildWorkflowPayload
<1>5. QED BY <1>1, <1>2, <1>3, <1>4 DEF NoticeInv

\* Whatever the log and the limits: what the notice shows of it fits, leaves out
\* a marked line only behind as many others as are sent, and keeps the first one
\* even when it is cut (readTestOutput, extractFailureBlocks, enforceFieldLimit).
THEOREM NoticeTells == Spec => []FailuresShown
<1>1. Init => NoticeInv
  BY DEF Init, NoticeInv, Nothing
<1>2. NoticeInv /\ [Next]_vars => NoticeInv'
  BY NoticeStep
<1>3. NoticeInv => FailuresShown
  BY NoticeShows
<1>4. QED BY <1>1, <1>2, <1>3, PTL DEF Spec
=============================================================================
