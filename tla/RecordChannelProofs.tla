------------------------ MODULE RecordChannelProofs ------------------------
(***************************************************************************)
(* Theorems about one direction of a v5 connection, for every word size,   *)
(* every number of words and every length of the connection: no packet     *)
(* number is used twice, no record is opened twice, and the bitmap stays   *)
(* exact through every shift across its words.                             *)
(***************************************************************************)
EXTENDS RecordChannel, TLAPS

Words == [WordIndex -> SUBSET Bits]

\* The bit of the packet that is d below the highest one.
Marked(words, d) == d % WordBits \in words[d \div WordBits]

\* Every attempt burns one number, so an attempt and its record's number go
\* together.
Numbering ==
    /\ nextPacket = attempts
    /\ \A r \in wire : r.attempt = r.number + 1 /\ r.number < nextPacket

\* What the window remembers: nothing is opened above the highest number, and
\* at or below it the bits are the records opened.
Memory ==
    /\ \A a \in 1 .. MaxAttempts : opened[a] \in {0, 1}
    /\ \A a \in 1 .. MaxAttempts : opened[a] = 1 => a - 1 <= replay.highest
    /\ \A a \in 1 .. MaxAttempts : replay.highest - (a - 1) \in 0 .. (WindowBits - 1) =>
         (Marked(replay.words, replay.highest - (a - 1)) <=> opened[a] = 1)
    /\ replay.highest = NoPacket => \A i \in WordIndex : replay.words[i] = {}

IInv == TypeOK /\ Numbering /\ Memory

\* Division by the word size, as the code splits a distance.
LEMMA DivMod ==
    ASSUME NEW d \in Nat
    PROVE  /\ d \div WordBits \in Nat /\ d % WordBits \in Bits
           /\ d = (d \div WordBits) * WordBits + (d % WordBits)
BY WordAssumption DEF Bits

\* Multiples of the word size are a word apart.
LEMMA Product ==
    ASSUME NEW q \in Nat, NEW r \in Nat, q < r
    PROVE  q * WordBits + WordBits <= r * WordBits
<1>1. WordBits \in Nat /\ WordBits > 0
  BY WordAssumption
<1>2. PICK k \in Nat : r = q + 1 + k
  <2>1. r - q - 1 \in Nat /\ r = q + 1 + (r - q - 1)
    OBVIOUS
  <2> QED BY <2>1
<1>3. r * WordBits = q * WordBits + WordBits + k * WordBits
  BY <1>1, <1>2
<1>4. k * WordBits >= 0 /\ k * WordBits \in Int /\ q * WordBits \in Int
  BY <1>1
<1> QED
  BY <1>1, <1>3, <1>4

\* The window holds at least one packet.
LEMMA WindowPositive == WindowBits \in Nat /\ WindowBits > 0
<1>1. WordBits \in Nat /\ WordCount \in Nat /\ 0 < WordCount /\ WordBits > 0
  BY WordAssumption
<1>2. 0 * WordBits + WordBits <= WordCount * WordBits
  BY <1>1, Product
<1> QED
  BY <1>1, <1>2 DEF WindowBits

\* A distance is put together from a word and a bit in one way only.
LEMMA Split ==
    ASSUME NEW q \in Nat, NEW b \in Bits
    PROVE  /\ q * WordBits + b \in Nat
           /\ (q * WordBits + b) \div WordBits = q
           /\ (q * WordBits + b) % WordBits = b
<1> DEFINE d == q * WordBits + b
           r == d \div WordBits
           c == d % WordBits
<1>1. WordBits \in Nat /\ WordBits > 0 /\ b \in Nat /\ b < WordBits
  BY WordAssumption DEF Bits
<1>2. q * WordBits \in Nat
  BY <1>1
<1>3. d \in Nat
  BY <1>1, <1>2
<1>4. r \in Nat /\ c \in Nat /\ c < WordBits /\ d = r * WordBits + c
  BY <1>1, <1>3, DivMod DEF Bits
<1>5. r * WordBits \in Nat
  BY <1>1, <1>4
<1> HIDE DEF r, c
<1>6. ~(r < q) /\ ~(q < r)
  BY <1>1, <1>2, <1>4, <1>5, Product
<1>7. r = q
  BY <1>4, <1>6
<1>8. c = b
  BY <1>1, <1>2, <1>4, <1>7
<1> QED
  BY <1>3, <1>7, <1>8 DEF r, c

\* A distance inside the window falls into one of its words.
LEMMA InWindow ==
    ASSUME NEW d \in 0 .. (WindowBits - 1)
    PROVE  d \in Nat /\ d \div WordBits \in WordIndex /\ d % WordBits \in Bits
<1>1. WordBits \in Nat /\ WordBits > 0 /\ WordCount \in Nat /\ WordCount > 0
  BY WordAssumption
<1>2. WordBits * WordCount \in Int /\ WordBits * WordCount = WordCount * WordBits
  BY <1>1
<1>3. d \in Nat /\ d < WordCount * WordBits
  BY <1>2 DEF WindowBits
<1> DEFINE q == d \div WordBits
<1>4. q \in Nat /\ d % WordBits \in Bits /\ d = q * WordBits + (d % WordBits)
  BY <1>3, DivMod
<1>5. d >= q * WordBits /\ q * WordBits \in Nat
  BY <1>1, <1>4 DEF Bits
<1> HIDE DEF q
<1>6. ~(WordCount < q)
  BY <1>1, <1>2, <1>3, <1>4, <1>5, Product
<1>7. q # WordCount
  BY <1>2, <1>3, <1>5
<1>8. q \in WordIndex
  BY <1>1, <1>4, <1>6, <1>7 DEF WordIndex
<1> QED
  BY <1>3, <1>4, <1>8 DEF q

\* commit() sets one bit and no other.
LEMMA WithBitMarks ==
    ASSUME NEW words \in Words, NEW e \in 0 .. (WindowBits - 1)
    PROVE  /\ WithBit(words, e) \in Words
           /\ \A d \in 0 .. (WindowBits - 1) :
                Marked(WithBit(words, e), d) <=> d = e \/ Marked(words, d)
<1>1. e \in Nat /\ e \div WordBits \in WordIndex /\ e % WordBits \in Bits
  BY InWindow
<1>2. WithBit(words, e) \in Words
  BY <1>1 DEF WithBit, Words
<1>3. ASSUME NEW d \in 0 .. (WindowBits - 1)
      PROVE  Marked(WithBit(words, e), d) <=> d = e \/ Marked(words, d)
  <2>1. d \in Nat /\ d \div WordBits \in WordIndex /\ d % WordBits \in Bits
    BY InWindow
  <2>2. d = e <=> d \div WordBits = e \div WordBits /\ d % WordBits = e % WordBits
    <3>1. d = (d \div WordBits) * WordBits + (d % WordBits)
      BY <2>1, DivMod
    <3>2. e = (e \div WordBits) * WordBits + (e % WordBits)
      BY <1>1, DivMod
    <3> QED
      BY <3>1, <3>2
  <2> QED
    BY <1>1, <2>1, <2>2 DEF WithBit, Marked, Words
<1> QED
  BY <1>2, <1>3

\* shift(): a bit moves from its distance to the distance plus the shift, over
\* word boundaries too; bits that move out of the window are lost, and the
\* distances that come in are clear.
LEMMA ShiftMoves ==
    ASSUME NEW words \in Words, NEW s \in 1 .. (WindowBits - 1)
    PROVE  /\ ShiftedWords(words, s) \in Words
           /\ \A d \in 0 .. (WindowBits - 1) :
                Marked(ShiftedWords(words, s), d) <=> d >= s /\ Marked(words, d - s)
<1> DEFINE W == WordBits
           ws == s \div W
           bs == s % W
           shifted == ShiftedWords(words, s)
           Low(i) == ShiftLeft(words[i - ws], bs)
           High(i) == IF bs # 0 /\ i > ws THEN ShiftRight(words[i - ws - 1], W - bs) ELSE {}
<1>1. W \in Nat /\ W > 0 /\ WordCount \in Nat /\ WordCount > 0
  BY WordAssumption
<1>2. s \in Nat /\ ws \in WordIndex /\ bs \in Bits /\ ws \in Nat /\ bs \in Nat /\ bs < W
  BY <1>1, InWindow DEF Bits, WordIndex
<1>3. s = ws * W + bs
  BY <1>2, DivMod
<1>4. shifted = [i \in WordIndex |-> IF i < ws THEN {} ELSE Low(i) \cup High(i)]
  BY DEF ShiftedWords
<1> HIDE DEF W, ws, bs, shifted, Low, High
<1>low. ASSUME NEW i \in WordIndex, i >= ws, NEW b \in Bits
        PROVE  b \in Low(i) <=> b >= bs /\ b - bs \in words[i - ws]
  <2>1. i - ws \in WordIndex
    BY <1>1, <1>2, <1>low DEF WordIndex
  <2>2. words[i - ws] \subseteq Bits
    BY <2>1 DEF Words
  <2>3. b \in Low(i) <=> \E c \in words[i - ws] : c + bs < W /\ b = c + bs
    BY DEF Low, ShiftLeft, W
  <2>4. ASSUME NEW c \in words[i - ws], c + bs < W, b = c + bs
        PROVE  b >= bs /\ b - bs \in words[i - ws]
    <3>1. c \in Nat /\ b - bs = c
      BY <1>1, <1>2, <2>2, <2>4 DEF Bits
    <3> QED
      BY <1>2, <2>4, <3>1
  <2>5. ASSUME b >= bs, b - bs \in words[i - ws]
        PROVE  \E c \in words[i - ws] : c + bs < W /\ b = c + bs
    <3>1. (b - bs) + bs < W /\ b = (b - bs) + bs
      BY <1>1, <1>2, <2>5 DEF Bits, W
    <3> QED
      BY <2>5, <3>1
  <2> QED
    BY <2>3, <2>4, <2>5
<1>high. ASSUME NEW i \in WordIndex, i > ws, NEW b \in Bits
         PROVE  b \in High(i) <=> bs # 0 /\ b < bs /\ b - bs + W \in words[i - ws - 1]
  <2>1. i - ws - 1 \in WordIndex
    BY <1>1, <1>2, <1>high DEF WordIndex
  <2>2. words[i - ws - 1] \subseteq Bits
    BY <2>1 DEF Words
  <2>3. b \in High(i) <=> bs # 0 /\ \E c \in words[i - ws - 1] : c >= W - bs /\ b = c - (W - bs)
    BY <1>high DEF High, ShiftRight
  <2>4. ASSUME NEW c \in words[i - ws - 1], c >= W - bs, b = c - (W - bs)
        PROVE  b < bs /\ b - bs + W \in words[i - ws - 1]
    <3>1. c \in Nat /\ c < W /\ b - bs + W = c
      BY <1>1, <1>2, <2>2, <2>4 DEF Bits, W
    <3> QED
      BY <1>1, <1>2, <2>4, <3>1
  <2>5. ASSUME b < bs, b - bs + W \in words[i - ws - 1]
        PROVE  \E c \in words[i - ws - 1] : c >= W - bs /\ b = c - (W - bs)
    <3>1. (b - bs + W) >= W - bs /\ b = (b - bs + W) - (W - bs)
      BY <1>1, <1>2, <2>5 DEF Bits, W
    <3> QED
      BY <2>5, <3>1
  <2> QED
    BY <2>3, <2>4, <2>5
<1>5. shifted \in Words
  <2>1. ASSUME NEW i \in WordIndex, i >= ws PROVE Low(i) \subseteq Bits
    <3>1. words[i - ws] \subseteq Bits
      BY <1>1, <1>2, <2>1 DEF WordIndex, Words
    <3> QED
      BY <1>1, <1>2, <3>1 DEF Low, ShiftLeft, Bits, W
  <2>2. ASSUME NEW i \in WordIndex, i >= ws PROVE High(i) \subseteq Bits
    <3>1. CASE i > ws
      <4>1. words[i - ws - 1] \subseteq Bits
        BY <1>1, <1>2, <3>1 DEF WordIndex, Words
      <4> QED
        BY <1>1, <1>2, <4>1 DEF High, ShiftRight, Bits, W
    <3>2. CASE ~(i > ws)
      BY <3>2 DEF High
    <3> QED
      BY <3>1, <3>2
  <2>3. \A i \in WordIndex : i \in Nat /\ ws \in Nat
    BY <1>2 DEF WordIndex
  <2> QED
    BY <1>4, <2>1, <2>2, <2>3 DEF Words
<1>6. ASSUME NEW d \in 0 .. (WindowBits - 1)
      PROVE  Marked(shifted, d) <=> d >= s /\ Marked(words, d - s)
  <2> DEFINE q == d \div W
             b == d % W
  <2>1. /\ d \in Nat /\ q \in WordIndex /\ b \in Bits
        /\ d = q * W + b
    BY InWindow, DivMod DEF W
  <2>2. q \in Nat /\ b \in Nat /\ b < W
    BY <1>1, <2>1 DEF WordIndex, Bits, W
  <2>3. Marked(shifted, d) <=> q >= ws /\ (b \in Low(q) \/ b \in High(q))
    BY <1>2, <1>4, <2>1, <2>2 DEF Marked, W
  <2>4. q * W \in Nat /\ ws * W \in Nat
    BY <1>1, <1>2, <2>2
  <2> HIDE DEF q, b
  <2>5. CASE q < ws
    <3>1. q * W + W <= ws * W
      BY <1>2, <2>2, <2>5, Product DEF W
    <3>2. ~(d >= s)
      BY <1>1, <1>2, <1>3, <2>1, <2>2, <2>4, <3>1
    <3> QED
      BY <1>2, <2>2, <2>3, <2>5, <3>2
  <2>6. CASE q >= ws /\ b >= bs
    <3>1. q - ws \in Nat /\ b - bs \in Bits
      BY <1>1, <1>2, <2>2, <2>6 DEF Bits, W
    <3>2. (q - ws) * W = q * W - ws * W
      BY <1>1, <1>2, <2>2
    <3>3. d - s = (q - ws) * W + (b - bs)
      BY <1>1, <1>2, <1>3, <2>1, <2>2, <2>4, <3>2
    <3>4. (d - s) \div W = q - ws /\ (d - s) % W = b - bs /\ d - s \in Nat
      BY <3>1, <3>3, Split DEF W
    <3>5. Marked(words, d - s) <=> b - bs \in words[q - ws]
      BY <3>4 DEF Marked, W
    <3>6. b \in Low(q) <=> b - bs \in words[q - ws]
      BY <1>low, <2>1, <2>6
    <3>7. b \notin High(q)
      <4>1. CASE q > ws
        BY <1>2, <1>high, <2>1, <2>2, <2>6, <4>1
      <4>2. CASE ~(q > ws)
        BY <4>2 DEF High
      <4> QED
        BY <4>1, <4>2
    <3>8. d >= s
      BY <1>2, <2>1, <3>4
    <3> QED
      BY <2>3, <2>6, <3>5, <3>6, <3>7, <3>8
  <2>7. CASE q = ws /\ b < bs
    <3>1. ~(d >= s)
      BY <1>2, <1>3, <2>1, <2>2, <2>4, <2>7
    <3>2. b \notin Low(q)
      BY <1>2, <1>low, <2>1, <2>2, <2>7
    <3>3. b \notin High(q)
      BY <1>2, <2>7 DEF High
    <3> QED
      BY <2>3, <3>1, <3>2, <3>3
  <2>8. CASE q > ws /\ b < bs
    <3>1. q - ws - 1 \in Nat /\ b - bs + W \in Bits
      BY <1>1, <1>2, <2>2, <2>8 DEF Bits, W
    <3>2. (q - ws - 1) * W = q * W - ws * W - W
      BY <1>1, <1>2, <2>2
    <3>3. d - s = (q - ws - 1) * W + (b - bs + W)
      BY <1>1, <1>2, <1>3, <2>1, <2>2, <2>4, <3>2
    <3>4. (d - s) \div W = q - ws - 1 /\ (d - s) % W = b - bs + W /\ d - s \in Nat
      BY <3>1, <3>3, Split DEF W
    <3>5. Marked(words, d - s) <=> b - bs + W \in words[q - ws - 1]
      BY <3>4 DEF Marked, W
    <3>6. b \in High(q) <=> b - bs + W \in words[q - ws - 1]
      BY <1>2, <1>high, <2>1, <2>2, <2>8
    <3>7. b \notin Low(q)
      BY <1>2, <1>low, <2>1, <2>2, <2>8
    <3>8. d >= s
      BY <1>2, <2>1, <3>4
    <3>9. q >= ws
      BY <1>2, <2>2, <2>8
    <3> QED
      BY <2>3, <3>5, <3>6, <3>7, <3>8, <3>9
  <2> QED
    BY <1>2, <2>2, <2>5, <2>6, <2>7, <2>8
<1> QED
  BY <1>5, <1>6 DEF shifted

\* The invariant in the form a proof uses: packet n is attempt n + 1.
LEMMA Exactness ==
    ASSUME IInv, NEW r \in wire
    PROVE  WouldAccept(replay, r.number) <=>
             opened[r.attempt] = 0 /\ replay.highest - r.number < WindowBits
<1> DEFINE n == r.number
           a == r.attempt
           high == replay.highest
<1>1. n \in Nat /\ a \in 1 .. MaxAttempts /\ a - 1 = n
  BY PacketAssumption DEF IInv, TypeOK, Numbering
<1>2. WindowBits \in Nat /\ WindowBits > 0
  BY WindowPositive
<1>3. high \in Int /\ (high = NoPacket \/ high \in Nat)
  BY PacketAssumption DEF IInv, TypeOK, NoPacket
<1>4. opened[a] \in {0, 1} /\ (opened[a] = 1 => n <= high)
  BY <1>1 DEF IInv, Memory
<1>5. high - n \in 0 .. (WindowBits - 1) => (Marked(replay.words, high - n) <=> opened[a] = 1)
  BY <1>1 DEF IInv, Memory
<1> HIDE DEF n, a, high
<1>6. CASE high = NoPacket \/ n > high
  <2>1. WouldAccept(replay, n)
    BY <1>6 DEF WouldAccept, high
  <2>2. ~(n <= high) /\ high - n < WindowBits
    BY <1>1, <1>2, <1>3, <1>6 DEF NoPacket
  <2> QED
    BY <1>4, <2>1, <2>2 DEF n, a, high
<1>7. CASE high # NoPacket /\ n <= high
  <2>1. WouldAccept(replay, n) <=> high - n < WindowBits /\ ~Marked(replay.words, high - n)
    BY <1>1, <1>3, <1>7 DEF WouldAccept, Marked, high
  <2>2. high - n < WindowBits => high - n \in 0 .. (WindowBits - 1)
    BY <1>1, <1>2, <1>3, <1>7
  <2> QED
    BY <1>4, <1>5, <2>1, <2>2 DEF n, a, high
<1> QED
  BY <1>1, <1>3, <1>6, <1>7

\* commit() of an acceptable packet: the highest number is the larger one, the
\* packet's own bit is set, and the bits of all others follow them to their
\* new distances.
LEMMA CommitMarks ==
    ASSUME NEW w, w.highest \in Nat, w.words \in Words,
           w = [highest |-> w.highest, words |-> w.words],
           NEW n \in Nat, w.highest - n < WindowBits
    PROVE  LET c == Commit(w, n) IN
           /\ c \in [highest : {w.highest, n}, words : Words]
           /\ c.highest >= w.highest /\ c.highest >= n
           /\ \A m \in Nat : c.highest - m \in 0 .. (WindowBits - 1) =>
                (Marked(c.words, c.highest - m) <=>
                   m = n \/ (w.highest - m \in 0 .. (WindowBits - 1)
                             /\ Marked(w.words, w.highest - m)))
<1> DEFINE h == w.highest
           c == Commit(w, n)
<1>1. h \in Nat /\ h # NoPacket
  BY DEF NoPacket
<1>2. WindowBits \in Nat /\ WindowBits > 0
  BY WindowPositive
<1>3. CASE n > h
  <2> DEFINE s == n - h
             moved == Shifted(w.words, s)
  <2>1. s \in Nat /\ s >= 1
    BY <1>1, <1>3
  <2>2. c = [highest |-> n, words |-> WithBit(moved, 0)]
    BY <1>1, <1>3 DEF Commit
  <2>3. /\ moved \in Words
        /\ \A d \in 0 .. (WindowBits - 1) :
             Marked(moved, d) <=> d >= s /\ Marked(w.words, d - s)
    <3>1. CASE s >= WindowBits
      <4>1. moved = [i \in WordIndex |-> {}]
        BY <3>1 DEF Shifted
      <4>2. \A d \in 0 .. (WindowBits - 1) : ~Marked(moved, d)
        BY <4>1, InWindow DEF Marked
      <4>3. \A d \in 0 .. (WindowBits - 1) : ~(d >= s)
        BY <1>2, <2>1, <3>1
      <4> QED
        BY <4>1, <4>2, <4>3 DEF Words
    <3>2. CASE ~(s >= WindowBits)
      <4>1. s \in 1 .. (WindowBits - 1) /\ moved = ShiftedWords(w.words, s)
        BY <1>2, <2>1, <3>2 DEF Shifted
      <4> HIDE DEF s
      <4> QED
        BY <4>1, ShiftMoves
    <3> QED
      BY <3>1, <3>2
  <2> HIDE DEF moved
  <2>4. 0 \in 0 .. (WindowBits - 1)
    BY <1>2
  <2>5. /\ WithBit(moved, 0) \in Words
        /\ \A d \in 0 .. (WindowBits - 1) :
             Marked(WithBit(moved, 0), d) <=> d = 0 \/ Marked(moved, d)
    BY <2>3, <2>4, WithBitMarks
  <2>6. ASSUME NEW m \in Nat, n - m \in 0 .. (WindowBits - 1)
        PROVE  Marked(WithBit(moved, 0), n - m) <=>
                 m = n \/ (h - m \in 0 .. (WindowBits - 1) /\ Marked(w.words, h - m))
    <3>1. /\ n - m = 0 <=> m = n
          /\ (n - m) - s = h - m
          /\ n - m >= s <=> h - m \in 0 .. (WindowBits - 1)
      BY <1>1, <1>2, <1>3, <2>6
    <3>2. Marked(WithBit(moved, 0), n - m) <=> n - m = 0 \/ Marked(moved, n - m)
      BY <2>5, <2>6
    <3>3. Marked(moved, n - m) <=> n - m >= s /\ Marked(w.words, (n - m) - s)
      BY <2>3, <2>6
    <3> HIDE DEF s
    <3> QED
      BY <3>1, <3>2, <3>3
  <2> HIDE DEF c, h
  <2>7. c.highest = n /\ c.words = WithBit(moved, 0) /\ c \in [highest : {h, n}, words : Words]
    BY <2>2, <2>5
  <2>8. n >= h
    BY <1>1, <1>3
  <2> QED
    BY <2>6, <2>7, <2>8 DEF c, h
<1>4. CASE ~(n > h)
  <2>1. h - n \in 0 .. (WindowBits - 1)
    BY <1>1, <1>2, <1>4
  <2>2. c = [highest |-> h, words |-> WithBit(w.words, h - n)]
    BY <1>1, <1>4 DEF Commit
  <2> DEFINE e == h - n
  <2>3. /\ WithBit(w.words, e) \in Words
        /\ \A d \in 0 .. (WindowBits - 1) :
             Marked(WithBit(w.words, e), d) <=> d = e \/ Marked(w.words, d)
    <3> HIDE DEF e
    <3>1. e \in 0 .. (WindowBits - 1)
      BY <2>1 DEF e
    <3> QED
      BY <3>1, WithBitMarks
  <2>4. ASSUME NEW m \in Nat, h - m \in 0 .. (WindowBits - 1)
        PROVE  Marked(WithBit(w.words, e), h - m) <=> m = n \/ Marked(w.words, h - m)
    <3>1. h - m = h - n <=> m = n
      BY <1>1
    <3> QED
      BY <2>3, <2>4, <3>1
  <2>5. h >= n /\ h >= h
    BY <1>1, <1>4
  <2> HIDE DEF c, h, e
  <2>6. c.highest = h /\ c.words = WithBit(w.words, e) /\ c \in [highest : {h, n}, words : Words]
    BY <2>2, <2>3 DEF e
  <2> QED
    BY <2>4, <2>5, <2>6 DEF c, h
<1> QED
  BY <1>3, <1>4

\* An open connection starts with an empty window.
LEMMA IInvInit == Init => IInv
<1> SUFFICES ASSUME Init PROVE IInv
  OBVIOUS
<1>1. TypeOK
  BY PacketAssumption DEF Init, TypeOK, NewReplay
<1>2. Numbering
  BY DEF Init, Numbering
<1>3. Memory
  <2>1. replay.highest = -1 /\ \A i \in WordIndex : replay.words[i] = {}
    BY DEF Init, NewReplay, NoPacket
  <2>2. \A a \in 1 .. MaxAttempts : opened[a] = 0
    BY DEF Init
  <2>3. \A a \in 1 .. MaxAttempts : replay.highest - (a - 1) < 0
    BY <2>1
  <2> QED
    BY <2>1, <2>2, <2>3 DEF Memory
<1> QED
  BY <1>1, <1>2, <1>3 DEF IInv

\* Sealing burns a number; opening moves the window exactly.
LEMMA IInvNext == IInv /\ [Next]_vars => IInv'
<1> SUFFICES ASSUME IInv, [Next]_vars PROVE IInv'
  OBVIOUS
<1> USE PacketAssumption
<1>1. ASSUME Seal PROVE IInv'
  <2>1. /\ nextPacket \in Nat /\ attempts \in Nat /\ nextPacket = attempts
        /\ nextPacket' = nextPacket + 1 /\ attempts' = attempts + 1
        /\ nextPacket < LastPacket /\ attempts < MaxAttempts
        /\ UNCHANGED <<replay, opened>>
    BY <1>1 DEF Seal, IInv, TypeOK, Numbering
  <2>2. wire' \subseteq wire \cup {[number |-> nextPacket, attempt |-> attempts + 1]}
    BY <1>1 DEF Seal
  <2>3. TypeOK'
    <3>1. [number |-> nextPacket, attempt |-> attempts + 1]
            \in [number : 0 .. (LastPacket - 1), attempt : 1 .. MaxAttempts]
      BY <2>1
    <3>2. wire' \subseteq [number : 0 .. (LastPacket - 1), attempt : 1 .. MaxAttempts]
      BY <2>2, <3>1 DEF IInv, TypeOK
    <3> QED
      BY <2>1, <3>2 DEF IInv, TypeOK
  <2>4. Numbering'
    <3> SUFFICES ASSUME NEW r \in wire'
                 PROVE  r.attempt = r.number + 1 /\ r.number < nextPacket'
      BY <2>1 DEF Numbering
    <3>1. CASE r \in wire
      <4>1. r.number \in Nat
        BY <3>1 DEF IInv, TypeOK
      <4> QED
        BY <2>1, <3>1, <4>1 DEF IInv, Numbering
    <3>2. CASE r = [number |-> nextPacket, attempt |-> attempts + 1]
      BY <2>1, <3>2
    <3> QED
      BY <2>2, <3>1, <3>2
  <2>5. Memory'
    BY <2>1 DEF IInv, Memory
  <2> QED
    BY <2>3, <2>4, <2>5 DEF IInv
<1>2. ASSUME NEW r \in wire, Open(r, TRUE) PROVE IInv'
  <2> DEFINE n == r.number
             high == replay.highest
             next == Commit(replay, n)
  <2>1. /\ n \in 0 .. (LastPacket - 1) /\ r.attempt = n + 1 /\ n + 1 \in 1 .. MaxAttempts
        /\ n \in Nat
    BY DEF IInv, TypeOK, Numbering
  <2>2. /\ replay' = next /\ opened' = [opened EXCEPT ![n + 1] = @ + 1]
        /\ UNCHANGED <<nextPacket, attempts, wire>>
    BY <1>2, <2>1 DEF Open
  <2>3. opened[n + 1] = 0 /\ high - n < WindowBits
    <3>1. WouldAccept(replay, r.number)
      BY <1>2 DEF Open
    <3> QED
      BY <2>1, <3>1, Exactness
  <2>4. \A a \in 1 .. MaxAttempts : opened'[a] = IF a = n + 1 THEN 1 ELSE opened[a]
    BY <2>1, <2>2, <2>3 DEF IInv, TypeOK
  <2>5. /\ replay.words \in Words
        /\ replay = [highest |-> replay.highest, words |-> replay.words]
        /\ high \in Int /\ (high = NoPacket \/ high \in Nat)
        /\ high \in {NoPacket} \cup (0 .. (LastPacket - 1))
    BY DEF IInv, TypeOK, Words, NoPacket
  <2>6. WindowBits \in Nat
    BY WordAssumption DEF WindowBits
  <2>7. /\ next.words \in Words /\ next.highest \in 0 .. (LastPacket - 1)
        /\ next = [highest |-> next.highest, words |-> next.words]
        /\ next.highest >= high /\ next.highest >= n
        /\ \A m \in Nat : next.highest - m \in 0 .. (WindowBits - 1) =>
             (Marked(next.words, next.highest - m) <=>
                m = n \/ (high - m \in 0 .. (WindowBits - 1) /\ Marked(replay.words, high - m)))
    <3>1. CASE high = NoPacket
      <4>1. next = [highest |-> n, words |-> [replay.words EXCEPT ![0] = {0}]]
        BY <3>1 DEF Commit
      <4>2. \A i \in WordIndex : replay.words[i] = {}
        BY <3>1 DEF IInv, Memory
      <4>3. 0 \in WordIndex /\ 0 \in Bits
        BY WordAssumption DEF WordIndex, Bits
      <4>4. next.words \in Words /\ \A i \in WordIndex : next.words[i] = IF i = 0 THEN {0} ELSE {}
        BY <2>5, <4>1, <4>2, <4>3 DEF Words
      <4>5. ASSUME NEW d \in 0 .. (WindowBits - 1) PROVE Marked(next.words, d) <=> d = 0
        <5>1. d \in Nat /\ d \div WordBits \in WordIndex
          BY InWindow
        <5>2. d = (d \div WordBits) * WordBits + (d % WordBits)
          BY <5>1, DivMod
        <5>3. d = 0 <=> d \div WordBits = 0 /\ d % WordBits = 0
          <6>1. 0 * WordBits + 0 = 0 /\ 0 \in Nat
            BY WordAssumption
          <6>2. 0 \div WordBits = 0 /\ 0 % WordBits = 0
            BY <4>3, <6>1, Split
          <6> QED
            BY <5>2, <6>1, <6>2
        <5> QED
          BY <4>4, <5>1, <5>3 DEF Marked
      <4>6. next.highest = n /\ n >= high /\ high = -1
        BY <2>1, <3>1, <4>1 DEF NoPacket
      <4>7. \A m \in Nat : (n - m = 0 <=> m = n) /\ high - m \notin 0 .. (WindowBits - 1)
        BY <2>1, <2>6, <4>6
      <4> HIDE DEF next, n, high
      <4>8. next = [highest |-> next.highest, words |-> next.words]
        BY <4>1
      <4>9. next.highest >= high /\ next.highest >= n /\ next.highest \in 0 .. (LastPacket - 1)
        BY <2>1, <4>6
      <4>10. ASSUME NEW m \in Nat, next.highest - m \in 0 .. (WindowBits - 1)
             PROVE  Marked(next.words, next.highest - m) <=>
                      m = n \/ (high - m \in 0 .. (WindowBits - 1)
                                /\ Marked(replay.words, high - m))
        <5>1. Marked(next.words, next.highest - m) <=> next.highest - m = 0
          BY <4>5, <4>10
        <5> QED
          BY <4>6, <4>7, <5>1
      <4> QED
        BY <4>4, <4>8, <4>9, <4>10
    <3>2. CASE high \in Nat
      <4> HIDE DEF n
      <4>1. /\ next \in [highest : {high, n}, words : Words]
            /\ next.highest >= high /\ next.highest >= n
            /\ \A m \in Nat : next.highest - m \in 0 .. (WindowBits - 1) =>
                 (Marked(next.words, next.highest - m) <=>
                    m = n \/ (high - m \in 0 .. (WindowBits - 1)
                              /\ Marked(replay.words, high - m)))
        BY <2>1, <2>3, <2>5, <3>2, CommitMarks
      <4>2. high \in 0 .. (LastPacket - 1)
        BY <2>5, <3>2 DEF NoPacket
      <4> HIDE DEF next, high
      <4> QED
        BY <2>1, <4>1, <4>2
    <3> QED
      BY <2>5, <3>1, <3>2
  <2> HIDE DEF next, n
  <2>8. TypeOK'
    <3>1. replay' \in [highest : {NoPacket} \cup (0 .. (LastPacket - 1)),
                       words : [WordIndex -> SUBSET Bits]]
      BY <2>2, <2>7 DEF Words
    <3>2. opened' \in [1 .. MaxAttempts -> Nat]
      BY <2>1, <2>2 DEF IInv, TypeOK
    <3> QED
      BY <2>2, <3>1, <3>2 DEF IInv, TypeOK
  <2>9. Numbering'
    BY <2>2 DEF IInv, Numbering
  <2>10. Memory'
    <3>1. \A a \in 1 .. MaxAttempts : opened'[a] \in {0, 1}
      BY <2>4 DEF IInv, Memory
    <3>2. ASSUME NEW a \in 1 .. MaxAttempts, opened'[a] = 1 PROVE a - 1 <= replay'.highest
      <4>1. a = n + 1 \/ a - 1 <= high
        BY <2>4, <3>2 DEF IInv, Memory
      <4> QED
        BY <2>1, <2>2, <2>5, <2>7, <4>1
    <3>3. ASSUME NEW a \in 1 .. MaxAttempts,
                 replay'.highest - (a - 1) \in 0 .. (WindowBits - 1)
          PROVE  Marked(replay'.words, replay'.highest - (a - 1)) <=> opened'[a] = 1
      <4>1. a - 1 \in Nat /\ (a - 1 = n <=> a = n + 1)
        BY <2>1
      <4>2. Marked(replay'.words, replay'.highest - (a - 1)) <=>
              \/ a = n + 1
              \/ /\ high - (a - 1) \in 0 .. (WindowBits - 1)
                 /\ Marked(replay.words, high - (a - 1))
        BY <2>2, <2>7, <3>3, <4>1
      <4>3. high - (a - 1) \in 0 .. (WindowBits - 1) =>
              (Marked(replay.words, high - (a - 1)) <=> opened[a] = 1)
        BY DEF IInv, Memory
      <4>4. opened[a] = 1 => high - (a - 1) \in 0 .. (WindowBits - 1)
        <5>1. opened[a] = 1 => a - 1 <= high
          BY DEF IInv, Memory
        <5>2. high - (a - 1) < WindowBits
          BY <2>2, <2>5, <2>6, <2>7, <3>3, <4>1
        <5> QED
          BY <2>5, <2>6, <4>1, <5>1, <5>2
      <4> QED
        BY <2>4, <4>2, <4>3, <4>4
    <3>4. replay'.highest # NoPacket
      BY <2>2, <2>7 DEF NoPacket
    <3> QED
      BY <3>1, <3>2, <3>3, <3>4 DEF Memory
  <2> QED
    BY <2>8, <2>9, <2>10 DEF IInv
<1>3. CASE UNCHANGED vars
  BY <1>3 DEF vars, IInv, TypeOK, Numbering, Memory
<1> QED
  <2>1. ASSUME NEW r \in wire, NEW intact \in BOOLEAN, Open(r, intact) PROVE Open(r, TRUE)
    BY <2>1 DEF Open
  <2> QED
    BY <1>1, <1>2, <1>3, <2>1 DEF Next

\* The invariant holds in every reachable state.
THEOREM Invariance == Spec => []IInv
BY IInvInit, IInvNext, PTL DEF Spec

\* Types; seal_into() stops before the last packet number, so its counter
\* never wraps, however long the connection lives.
THEOREM TypeCorrect == Spec => []TypeOK
<1>1. IInv => TypeOK
  BY DEF IInv
<1> QED
  BY <1>1, Invariance, PTL

\* No nonce is used twice under a key, whichever attempts of seal_into() fail.
THEOREM FreshNonces == Spec => []NonceIsFresh
<1>1. ASSUME IInv PROVE NonceIsFresh
  <2> SUFFICES ASSUME NEW r \in wire, NEW s \in wire, r.number = s.number PROVE r = s
    BY DEF NonceIsFresh
  <2>1. r.attempt = s.attempt
    BY <1>1 DEF IInv, Numbering
  <2> QED
    BY <1>1, <2>1 DEF IInv, TypeOK
<1> QED
  BY <1>1, Invariance, PTL

\* open_in_place() opens no record twice, however the path repeats, delays
\* and reorders datagrams.
THEOREM NeverTwice == Spec => []OpenedOnce
<1>1. IInv => OpenedOnce
  BY DEF IInv, Memory, OpenedOnce
<1> QED
  BY <1>1, Invariance, PTL

\* The bitmap refuses exactly what was opened and what is too old to tell, for
\* every word size, every number of words and every sequence of arrivals.
THEOREM ExactWindow == Spec => []WindowIsExact
<1>1. IInv => WindowIsExact
  BY Exactness DEF WindowIsExact
<1> QED
  BY <1>1, Invariance, PTL
=============================================================================
