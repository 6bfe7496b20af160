--------------------------- MODULE TextInputProofs ---------------------------
(* Every line of a text file is read by exactly one partition, for any file  *)
(* and any number of partitions asked for. A span reads exactly the lines    *)
(* that begin in it, whatever byte it begins at (SpanLines), and the chunks  *)
(* of splitTextFile tile the file (ChunksTile).                              *)
EXTENDS TextInput, DataTheorems

(* Natural numbers.                                                          *)
LEMMA DivBounds ==
    ASSUME NEW a \in Nat, NEW n \in Nat \ {0}
    PROVE  /\ a \div n \in Nat
           /\ n * (a \div n) <= a
           /\ a < n * (a \div n) + n
BY SMTT(30)

(* Multiples of q are at least q apart.                                      *)
LEMMA TimesMono ==
    ASSUME NEW i \in Nat, NEW j \in Nat, NEW q \in Nat, i < j
    PROVE  i * q + q <= j * q
BY SMTT(30)

-----------------------------------------------------------------------------
(* newTextFileIteratorFS returns the lines that begin within its span: it    *)
(* skips the line the span begins in the middle of, and only that.           *)
LEMMA SpanLines ==
    ASSUME NEW content \in Seq(Nat), NEW offset \in Nat, NEW length \in Nat
    PROVE  LinesRead(content, offset, length)
              = {s \in LineStarts(content) : offset <= s /\ s < offset + length}
<1> DEFINE A == AfterNewline(content, offset)
<1>0. Len(content) \in Nat BY SMTT(30)
<1>1. \A s \in A : s \in Nat /\ offset < s /\ s <= Len(content) /\ content[s] = NL
  BY SMTT(30), <1>0 DEF AfterNewline
<1>2. \A s \in Nat : offset < s /\ s <= Len(content) /\ content[s] = NL => s \in A
  BY SMTT(30), <1>0 DEF AfterNewline
<1> HIDE DEF A
<1>3. ASSUME NEW s \in LinesRead(content, offset, length)
      PROVE  s \in LineStarts(content) /\ offset <= s /\ s < offset + length
  <2>1. s \in 0..(Len(content) - 1) /\ s < offset + length BY DEF LinesRead
  <2>2. PICK p \in offset..Len(content) :
            /\ BeginsAt(content, offset, p)
            /\ s = p \/ (s > p /\ content[s] = NL)
    BY DEF LinesRead
  <2>3. offset <= s BY SMTT(30), <1>0, <2>1, <2>2
  <2>4. s = 0 \/ content[s] = NL
    <3>1. CASE s > p /\ content[s] = NL BY <3>1
    <3>2. CASE s = p /\ SkipFirst(content, offset)
      <4>1. p \in A BY <2>2, <3>2 DEF BeginsAt, A
      <4> QED BY <1>1, <3>2, <4>1
    <3>3. CASE s = p /\ ~SkipFirst(content, offset)
      <4>1. s = offset BY <2>2, <3>3 DEF BeginsAt
      <4>2. ~(offset > 0) \/ content[offset] = NL BY <3>3 DEF SkipFirst
      <4>3. ~(offset > 0) => offset = 0 BY SMTT(30)
      <4> QED BY <4>1, <4>2, <4>3
    <3> QED BY <2>2, <3>1, <3>2, <3>3
  <2>5. s \in LineStarts(content) BY <2>1, <2>4 DEF LineStarts
  <2> QED BY <2>1, <2>3, <2>5
<1>4. ASSUME NEW s \in LineStarts(content), offset <= s, s < offset + length
      PROVE  s \in LinesRead(content, offset, length)
  <2>1. s \in 0..(Len(content) - 1) /\ (s = 0 \/ content[s] = NL) BY DEF LineStarts
  <2>2. s \in Nat /\ s <= Len(content) /\ length > 0 BY SMTT(30), <1>0, <1>4, <2>1
  <2>3. \E p \in offset..Len(content) :
            /\ BeginsAt(content, offset, p)
            /\ s = p \/ (s > p /\ content[s] = NL)
    <3>1. CASE SkipFirst(content, offset)
      <4>1. s # offset /\ s # 0
        <5>1. offset > 0 /\ content[offset] # NL BY <3>1 DEF SkipFirst
        <5>2. s # 0 BY SMTT(30), <1>4, <2>2, <5>1
        <5> QED BY <2>1, <5>1, <5>2
      <4>2. offset < s BY SMTT(30), <1>4, <2>2, <4>1
      <4>3. s \in A BY <1>2, <2>1, <2>2, <4>1, <4>2
      <4>4. A \subseteq Nat BY <1>1
      <4>5. PICK p \in A : \A y \in A : p <= y BY <4>3, <4>4, NatMin
      <4>6. BeginsAt(content, offset, p) BY <3>1, <4>5 DEF BeginsAt, A
      <4>7. p \in Nat /\ offset < p /\ p <= Len(content) BY <1>1
      <4>8. p \in offset..Len(content) BY SMTT(30), <1>0, <4>7
      <4>9. p <= s BY <4>3, <4>5
      <4>10. s = p \/ s > p BY SMTT(30), <2>2, <4>7, <4>9
      <4> QED BY <2>1, <4>1, <4>6, <4>8, <4>10
    <3>2. CASE ~SkipFirst(content, offset)
      <4>1. BeginsAt(content, offset, offset) BY <3>2 DEF BeginsAt
      <4>2. offset \in offset..Len(content) BY SMTT(30), <1>0, <1>4, <2>2
      <4>3. s = offset \/ (s > offset /\ s # 0) BY SMTT(30), <1>4, <2>2
      <4> QED BY <2>1, <4>1, <4>2, <4>3
    <3> QED BY <3>1, <3>2
  <2> QED BY <1>4, <2>1, <2>2, <2>3 DEF LinesRead
<1>5. LinesRead(content, offset, length) \subseteq LineStarts(content) BY <1>3
<1> QED BY <1>3, <1>4, <1>5

-----------------------------------------------------------------------------
(* The bytes of chunk i when a file of the given size is cut into n chunks.  *)
InChunk(b, size, n, i) ==
    /\ ChunkOffset(size, n, i) <= b
    /\ b < ChunkOffset(size, n, i) + ChunkLength(size, n, i)

(* There is at least one chunk, and chunks are not empty.                    *)
LEMMA CountType ==
    ASSUME NEW size \in Nat \ {0}, NEW asked \in Int
    PROVE  /\ ChunkCount(size, asked) \in Nat \ {0}
           /\ size \div ChunkCount(size, asked) \in Nat \ {0}
<1> DEFINE n == IF asked <= 0 THEN 1 ELSE asked
<1>1. n \in Nat \ {0} BY SMTT(30)
<1>2. size \div 1 = size BY SMTT(30)
<1>3. size \div n \in Nat BY <1>1, DivBounds
<1>4. ChunkCount(size, asked) = IF size \div n = 0 THEN 1 ELSE n BY DEF ChunkCount
<1> HIDE DEF n
<1>5. CASE size \div n = 0 BY SMTT(30), <1>2, <1>4, <1>5
<1>6. CASE size \div n # 0 BY <1>1, <1>3, <1>4, <1>6
<1> QED BY <1>5, <1>6

(* splitTextFile's chunks tile the file: a byte is in one of them and in no  *)
(* other, the last one taking what the division leaves over.                 *)
LEMMA ChunksTile ==
    ASSUME NEW size \in Nat \ {0}, NEW n \in Nat \ {0}, size \div n \in Nat \ {0},
           NEW b \in 0..(size - 1)
    PROVE  \E i \in 0..(n - 1) :
              InChunk(b, size, n, i) /\ \A j \in 0..(n - 1) : InChunk(b, size, n, j) => j = i
<1> DEFINE q == size \div n
<1>1. q \in Nat \ {0} /\ n * q <= size BY DivBounds
<1>2. b \in Nat /\ b < size BY SMTT(30)
<1>3. ASSUME NEW i \in 0..(n - 1)
      PROVE  InChunk(b, size, n, i) <=> i * q <= b /\ (i = n - 1 \/ b < i * q + q)
  <2>1. ChunkOffset(size, n, i) = i * q BY DEF ChunkOffset
  <2>2. ChunkLength(size, n, i) = IF i = n - 1 THEN size - i * q ELSE q BY <2>1 DEF ChunkLength
  <2>3. i \in Nat /\ i * q \in Nat
    <3> HIDE DEF q
    <3> QED BY SMTT(30), <1>1
  <2> HIDE DEF q
  <2>4. CASE i = n - 1
    <3>1. i * q + (size - i * q) = size BY SMTT(30), <2>3
    <3> QED BY <1>2, <2>1, <2>2, <2>4, <3>1 DEF InChunk
  <2>5. CASE i # n - 1 BY <2>1, <2>2, <2>5 DEF InChunk
  <2> QED BY <2>4, <2>5
<1>4. /\ b \div q \in Nat /\ q * (b \div q) <= b /\ b < q * (b \div q) + q
  <2> HIDE DEF q
  <2> QED BY <1>1, <1>2, DivBounds
<1> DEFINE d == b \div q
           i == IF d <= n - 1 THEN d ELSE n - 1
<1> HIDE DEF q
<1>5. d \in Nat /\ d * q <= b /\ b < d * q + q
  <2>1. q * d = d * q
    <3> HIDE DEF d
    <3> QED BY SMTT(30), <1>1, <1>4 DEF d
  <2> QED BY <1>4, <2>1
<1> HIDE DEF d
<1>6. i \in 0..(n - 1) BY SMTT(30), <1>5
<1>7. i * q <= b
  <2>1. CASE d <= n - 1 BY <1>5, <2>1
  <2>2. CASE ~(d <= n - 1)
    <3>1. n - 1 \in Nat /\ n - 1 < d BY SMTT(30), <1>5, <2>2
    <3>2. (n - 1) * q + q <= d * q BY <1>1, <1>5, <3>1, TimesMono
    <3>3. (n - 1) * q \in Nat /\ d * q \in Nat BY SMTT(30), <1>1, <1>5, <3>1
    <3>4. (n - 1) * q <= b BY SMTT(30), <1>1, <1>2, <1>5, <3>2, <3>3
    <3> QED BY <2>2, <3>4
  <2> QED BY <2>1, <2>2
<1>8. i = n - 1 \/ b < i * q + q BY <1>5
<1> HIDE DEF i
<1>9. InChunk(b, size, n, i) BY <1>3, <1>6, <1>7, <1>8
<1>10. ASSUME NEW j \in 0..(n - 1), NEW k \in 0..(n - 1), j < k,
              InChunk(b, size, n, j), InChunk(b, size, n, k)
       PROVE FALSE
  <2>1. j \in Nat /\ k \in Nat /\ j # n - 1 BY SMTT(30), <1>10
  <2>2. b < j * q + q /\ k * q <= b BY <1>3, <1>10, <2>1
  <2>3. j * q + q <= k * q BY <1>1, <1>10, <2>1, TimesMono
  <2>4. j * q \in Nat /\ k * q \in Nat BY SMTT(30), <1>1, <2>1
  <2> QED BY SMTT(30), <1>1, <1>2, <2>2, <2>3, <2>4
<1>11. ASSUME NEW j \in 0..(n - 1), InChunk(b, size, n, j) PROVE j = i
  <2>1. ~(j < i) BY <1>6, <1>9, <1>10, <1>11
  <2>2. ~(i < j) BY <1>6, <1>9, <1>10, <1>11
  <2> QED BY SMTT(30), <1>6, <2>1, <2>2
<1> QED BY <1>6, <1>9, <1>11

-----------------------------------------------------------------------------
(* The lines partition i of a single file reads.                             *)
Reads(content, asked, i) ==
    LET n == ChunkCount(Len(content), asked)
    IN  LinesRead(content, ChunkOffset(Len(content), n, i), ChunkLength(Len(content), n, i))

(* splitTextFile and newTextFileIteratorFS together: whatever the bytes of a *)
(* file and the number of partitions asked for, each line is read by exactly *)
(* one partition, and no partition reads anything else.                      *)
THEOREM LineOnce ==
    ASSUME NEW content \in Seq(Nat), content # <<>>, NEW asked \in Int
    PROVE  LET n == ChunkCount(Len(content), asked)
           IN  /\ \A i \in 0..(n - 1) : Reads(content, asked, i) \subseteq LineStarts(content)
               /\ \A s \in LineStarts(content) : \E i \in 0..(n - 1) :
                     /\ s \in Reads(content, asked, i)
                     /\ \A j \in 0..(n - 1) : s \in Reads(content, asked, j) => j = i
<1> DEFINE size == Len(content)
           n == ChunkCount(size, asked)
<1>1. size \in Nat \ {0} BY SMTT(30)
<1>2. n \in Nat \ {0} /\ size \div n \in Nat \ {0} BY <1>1, CountType
<1>3. ASSUME NEW i \in 0..(n - 1)
      PROVE  Reads(content, asked, i) = {s \in LineStarts(content) : InChunk(s, size, n, i)}
  <2> DEFINE o == ChunkOffset(size, n, i)
             l == ChunkLength(size, n, i)
             q == size \div n
  <2>1. o \in Nat /\ l \in Nat
    <3>1. o = i * q /\ l = IF i = n - 1 THEN size - i * q ELSE q BY DEF ChunkOffset, ChunkLength
    <3>2. n * q <= size BY <1>1, <1>2, DivBounds
    <3>3. q \in Nat /\ i \in Nat /\ n \in Nat /\ i < n
      <4> HIDE DEF q, n
      <4> QED BY SMTT(30), <1>2 DEF q
    <3> HIDE DEF q, n, size, o, l
    <3>4. i * q + q <= n * q BY <3>3, TimesMono
    <3>5. i * q \in Nat /\ n * q \in Nat BY SMTT(30), <3>3
    <3>6. i * q <= size BY SMTT(30), <1>1, <3>2, <3>3, <3>4, <3>5
    <3>7. size - i * q \in Nat BY SMTT(30), <1>1, <3>5, <3>6
    <3> QED BY <3>1, <3>3, <3>5, <3>7
  <2>2. Reads(content, asked, i) = LinesRead(content, o, l) BY DEF Reads
  <2> HIDE DEF o, l, n, size
  <2>3. LinesRead(content, o, l) = {s \in LineStarts(content) : o <= s /\ s < o + l}
    BY <2>1, SpanLines
  <2> QED BY <2>2, <2>3 DEF InChunk, o, l
<1>4. LineStarts(content) \subseteq 0..(size - 1) BY DEF LineStarts
<1> HIDE DEF n, size
<1>5. \A i \in 0..(n - 1) : Reads(content, asked, i) \subseteq LineStarts(content) BY <1>3
<1>6. ASSUME NEW s \in LineStarts(content)
      PROVE  \E i \in 0..(n - 1) : /\ s \in Reads(content, asked, i)
                                   /\ \A j \in 0..(n - 1) : s \in Reads(content, asked, j) => j = i
  <2>1. s \in 0..(size - 1) BY <1>4
  <2>2. PICK i \in 0..(n - 1) :
           InChunk(s, size, n, i) /\ \A j \in 0..(n - 1) : InChunk(s, size, n, j) => j = i
    BY <1>1, <1>2, <2>1, ChunksTile
  <2> QED BY <1>3, <2>2
<1> QED BY <1>5, <1>6 DEF n, size
==============================================================================
