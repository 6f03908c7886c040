---------------------------- MODULE CodecProofs ----------------------------
(***************************************************************************)
(* Proofs about Codec: what the conversions return for every learned code  *)
(* and everything typed, and the properties of CodecInv that follow.       *)
(***************************************************************************)
EXTENDS Codec, StreamLemmas

-----------------------------------------------------------------------------
(* The sum of bytes *)

\* One byte is added.
AddByte == [p \in Byte \X Byte |-> (p[1] + p[2]) % 256]

\* Its value is a byte.
LEMMA AddByteType ==
    ASSUME NEW x \in Byte, NEW y \in Byte
    PROVE  /\ (x + y) % 256 \in Byte /\ AddByte[<<x, y>>] = (x + y) % 256
           /\ 0 \in Byte /\ x \in Nat
BY DEF Byte, AddByte

\* It is a step.
LEMMA AddByteStep == IsStep(AddByte, Byte, Byte) /\ 0 \in Byte
<1>1. ASSUME NEW p \in Byte \X Byte PROVE (p[1] + p[2]) % 256 \in Byte
  <2>1. p[1] \in Byte /\ p[2] \in Byte
    OBVIOUS
  <2> QED BY <2>1, AddByteType
<1>2. 0 \in Byte
  BY DEF Byte
<1> QED BY <1>1, <1>2 DEF IsStep, AddByte

\* The pairs of the halvings of 0 .. n.
Pairs(n) == (0 .. n) \X (0 .. n)

\* What is half way between two numbers that are not next to each other.
LEMMA HalfBetween ==
    ASSUME NEW n \in Nat, NEW p \in Pairs(n), ~(p[2] < p[1] + 2)
    PROVE  /\ p[1] \in 0 .. n /\ p[2] \in 0 .. n /\ Half(p) \in 0 .. n
           /\ p[1] < Half(p) /\ Half(p) < p[2]
           /\ <<p[1], Half(p)>> \in Pairs(n) /\ <<Half(p), p[2]>> \in Pairs(n)
BY DEF Pairs, Half

\* Two functions agree on neighbours, and on a pair if they do on its halves.
AgreeByHalves(f, g, n) ==
    \A p \in Pairs(n) :
        /\ p[2] < p[1] + 2 => f[p] = g[p]
        /\ /\ ~(p[2] < p[1] + 2)
           /\ f[<<p[1], Half(p)>>] = g[<<p[1], Half(p)>>]
           /\ f[<<Half(p), p[2]>>] = g[<<Half(p), p[2]>>]
           => f[p] = g[p]

\* Then they agree.
LEMMA HalvesAgree ==
    ASSUME NEW n \in Nat, NEW f, NEW g,
           AgreeByHalves(f, g, n)
    PROVE  \A p \in Pairs(n) : f[p] = g[p]
<1> DEFINE S == {w \in Nat : \A p \in Pairs(n) : p[2] - p[1] <= w => f[p] = g[p]}
<1>1. 0 \in S
  <2>1. ASSUME NEW p \in Pairs(n), p[2] - p[1] <= 0 PROVE f[p] = g[p]
    <3>1. p[2] < p[1] + 2
      BY <2>1 DEF Pairs
    <3> QED BY <3>1 DEF AgreeByHalves
  <2> QED BY <2>1
<1>2. ASSUME NEW w \in S PROVE w + 1 \in S
  <2>1. SUFFICES ASSUME NEW p \in Pairs(n), p[2] - p[1] <= w + 1
                 PROVE  f[p] = g[p]
    OBVIOUS
  <2>2. CASE p[2] < p[1] + 2
    BY <2>2 DEF AgreeByHalves
  <2>3. CASE ~(p[2] < p[1] + 2)
    <3> DEFINE a == <<p[1], Half(p)>>
               b == <<Half(p), p[2]>>
    <3>1. a \in Pairs(n) /\ b \in Pairs(n)
      BY <2>3, HalfBetween
    <3>2. a[2] - a[1] <= w /\ b[2] - b[1] <= w
      <4> DEFINE i == p[1]
                 j == p[2]
                 h == Half(p)
      <4>1. /\ i \in 0 .. n /\ j \in 0 .. n /\ h \in 0 .. n
            /\ i < h /\ h < j /\ j - i <= w + 1 /\ w \in Nat
        BY <2>1, <2>3, HalfBetween
      <4>2. a[1] = i /\ a[2] = h /\ b[1] = h /\ b[2] = j
        OBVIOUS
      <4> HIDE DEF i, j, h
      <4>3. h - i <= w /\ j - h <= w
        BY <4>1
      <4> HIDE DEF a, b
      <4> QED BY <4>2, <4>3
    <3> HIDE DEF a, b
    <3>3. f[a] = g[a] /\ f[b] = g[b]
      BY <3>1, <3>2
    <3> QED BY <2>3, <3>3 DEF a, b, AgreeByHalves
  <2> QED BY <2>2, <2>3
<1>3. S = Nat
  <2>1. S \in SUBSET Nat
    OBVIOUS
  <2> HIDE DEF S
  <2> QED BY <1>1, <1>2, <2>1, SetInduction
<1>4. ASSUME NEW p \in Pairs(n) PROVE f[p] = g[p]
  <2>1. n \in S
    <3> HIDE DEF S
    <3> QED BY <1>3
  <2>2. p[2] - p[1] <= n
    BY DEF Pairs
  <2> QED BY <2>1, <2>2
<1> QED BY <1>4

\* The recursive definition of the sum, by halves.
SumsByHalves(sum, buf) ==
    sum = [p \in Pairs(Len(buf)) |->
              IF p[2] < p[1] + 2
              THEN IF p[2] = p[1] + 1 THEN buf[p[2]] ELSE 0
              ELSE (sum[<<p[1], Half(p)>>] + sum[<<Half(p), p[2]>>]) % 256]

\* The sum of one byte is what it adds to the sum of those in front,
LEMMA SumOfOne ==
    ASSUME NEW x \in Byte, NEW y \in Byte
    PROVE  (((x + y) % 256) - x) % 256 = y /\ (x - x) % 256 = 0 /\ (x - 0) % 256 = x
BY SMT DEF Byte

\* and sums add up.
LEMMA SumOfTwo ==
    ASSUME NEW x \in Byte, NEW y \in Byte, NEW z \in Byte
    PROVE  (((y - x) % 256) + ((z - y) % 256)) % 256 = (z - x) % 256
BY SMT DEF Byte

\* What r adds up to behind byte i and up to byte j.
SumBetween(r, p) == IF p[1] < p[2] THEN (r[p[2]] - r[p[1]]) % 256 ELSE 0

\* The sums of steps of one byte have that recursive definition.
LEMMA SumExists ==
    ASSUME NEW buf \in Seq(Byte), NEW r, NEW n, n = Len(buf),
           Steps(r, AddByte, 0, buf, n), Same(Byte, r, r, n)
    PROVE  SumsByHalves([p \in Pairs(n) |-> SumBetween(r, p)], buf)
<1> DEFINE f == [p \in Pairs(n) |-> SumBetween(r, p)]
<1>1. n \in Nat /\ \A k \in 1 .. n : buf[k] \in Byte
  OBVIOUS
<1>2. /\ \A k \in 0 .. n : r[k] \in Byte
      /\ r[0] = 0 /\ \A k \in 1 .. n : r[k] = AddByte[<<r[k - 1], buf[k]>>]
  BY DEF Same, Steps
<1>3. ASSUME NEW p \in Pairs(n)
      PROVE  f[p] = IF p[2] < p[1] + 2
                    THEN IF p[2] = p[1] + 1 THEN buf[p[2]] ELSE 0
                    ELSE (f[<<p[1], Half(p)>>] + f[<<Half(p), p[2]>>]) % 256
  <2> DEFINE i == p[1]
             j == p[2]
  <2>1. i \in 0 .. n /\ j \in 0 .. n /\ f[p] = SumBetween(r, p)
    BY DEF Pairs
  <2>2. r[i] \in Byte /\ r[j] \in Byte
    BY <1>2, <2>1
  <2>3. CASE j = i + 1
    <3>1. j \in 1 .. n /\ j - 1 = i
      BY <1>1, <2>1, <2>3
    <3>2. r[j] = AddByte[<<r[i], buf[j]>>] /\ buf[j] \in Byte
      BY <1>1, <1>2, <3>1
    <3>3. r[j] = (r[i] + buf[j]) % 256
      BY <2>2, <3>2, AddByteType
    <3>4. (r[j] - r[i]) % 256 = buf[j]
      BY <2>2, <3>2, <3>3, SumOfOne
    <3>5. SumBetween(r, p) = (r[j] - r[i]) % 256
      BY <1>1, <2>1, <2>3 DEF SumBetween
    <3> QED BY <1>1, <2>1, <2>3, <3>4, <3>5
  <2>4. CASE j < i + 2 /\ j # i + 1
    <3>1. SumBetween(r, p) = 0
      BY <1>1, <2>1, <2>4 DEF SumBetween
    <3> QED BY <2>1, <2>4, <3>1
  <2>5. CASE ~(j < i + 2)
    <3> DEFINE h == Half(p)
               a == <<p[1], Half(p)>>
               b == <<Half(p), p[2]>>
    <3>1. /\ h \in 0 .. n /\ i < h /\ h < j /\ i < j
          /\ a \in Pairs(n) /\ b \in Pairs(n)
      BY <1>1, <2>1, <2>5, HalfBetween
    <3>2. r[h] \in Byte
      BY <1>2, <3>1
    <3>3. /\ f[p] = (r[j] - r[i]) % 256
          /\ f[a] = (r[h] - r[i]) % 256 /\ f[b] = (r[j] - r[h]) % 256
      BY <3>1 DEF SumBetween
    <3> HIDE DEF f, h, i, j
    <3>4. (((r[h] - r[i]) % 256) + ((r[j] - r[h]) % 256)) % 256 = (r[j] - r[i]) % 256
      BY <2>2, <3>2, SumOfTwo
    <3>5. f[p] = (f[a] + f[b]) % 256
      BY <3>3, <3>4, Zenon
    <3> QED BY <2>5, <3>5 DEF i, j
  <2> QED BY <1>1, <2>1, <2>3, <2>4, <2>5
<1>4. f = [p \in Pairs(n) |-> f[p]]
  OBVIOUS
<1> HIDE DEF f
<1>5. SumsByHalves(f, buf)
  BY <1>3, <1>4 DEF SumsByHalves
<1> QED BY <1>5 DEF f

\* The sum of a buffer is where steps of one byte lead.
LEMMA ByteSumSteps ==
    ASSUME NEW buf \in Seq(Byte)
    PROVE  StepsTo(AddByte, 0, buf, ByteSum(buf))
<1> DEFINE n == Len(buf)
           sum == CHOOSE sum : SumsByHalves(sum, buf)
<1>1. n \in Nat /\ \A k \in 1 .. n : buf[k] \in Byte
  OBVIOUS
<1>2. ByteSum(buf) = sum[<<0, n>>]
  BY DEF ByteSum, SumsByHalves, Pairs
<1> HIDE DEF n
<1>3. PICK r : Stepped(r, AddByte, 0, buf, n)
  BY <1>1, StepsExist
<1>4. Steps(r, AddByte, 0, buf, n)
  <2>1. \A k \in 0 .. n : r[k] = IF k = 0 THEN 0 ELSE AddByte[<<r[k - 1], buf[k]>>]
    BY <1>3 DEF Stepped
  <2>2. 0 \in 0 .. n
    BY <1>1
  <2>3. ASSUME NEW k \in 1 .. n PROVE k \in 0 .. n /\ k # 0
    BY <1>1
  <2> QED BY <2>1, <2>2, <2>3, Zenon DEF Steps
<1>5. Same(Byte, r, r, n)
  <2>1. Common(Byte, buf, buf, n)
    BY <1>1 DEF Common
  <2> QED BY <1>1, <1>4, <2>1, AddByteStep, StepsAgree
<1> DEFINE f == [p \in Pairs(n) |-> SumBetween(r, p)]
<1>6. SumsByHalves(f, buf)
  BY <1>4, <1>5, SumExists DEF n
<1>7. SumsByHalves(sum, buf)
  <2> HIDE DEF f
  <2> QED BY <1>6
<1> HIDE DEF sum
<1>8. f[<<0, n>>] = sum[<<0, n>>]
  <2>1. /\ \A p \in Pairs(n) :
              f[p] = IF p[2] < p[1] + 2
                     THEN IF p[2] = p[1] + 1 THEN buf[p[2]] ELSE 0
                     ELSE (f[<<p[1], Half(p)>>] + f[<<Half(p), p[2]>>]) % 256
        /\ \A p \in Pairs(n) :
              sum[p] = IF p[2] < p[1] + 2
                       THEN IF p[2] = p[1] + 1 THEN buf[p[2]] ELSE 0
                       ELSE (sum[<<p[1], Half(p)>>] + sum[<<Half(p), p[2]>>]) % 256
    <3> HIDE DEF f
    <3> QED BY <1>6, <1>7, ZenonT(30) DEF SumsByHalves, n
  <2> HIDE DEF f
  <2>2. AgreeByHalves(f, sum, n)
    <3>1. SUFFICES ASSUME NEW p \in Pairs(n)
                   PROVE  /\ p[2] < p[1] + 2 => f[p] = sum[p]
                          /\ /\ ~(p[2] < p[1] + 2)
                             /\ f[<<p[1], Half(p)>>] = sum[<<p[1], Half(p)>>]
                             /\ f[<<Half(p), p[2]>>] = sum[<<Half(p), p[2]>>]
                             => f[p] = sum[p]
      BY DEF AgreeByHalves
    <3> QED BY <2>1
  <2>4. \A p \in Pairs(n) : f[p] = sum[p]
    BY <1>1, <2>2, HalvesAgree
  <2>5. <<0, n>> \in Pairs(n)
    BY <1>1 DEF Pairs
  <2> QED BY <2>4, <2>5
<1>9. f[<<0, n>>] = r[n]
  <2>1. <<0, n>> \in Pairs(n) /\ n \in 0 .. n /\ 0 \in 0 .. n
    BY <1>1 DEF Pairs
  <2>2. r[n] \in Byte /\ r[0] = 0
    BY <1>4, <1>5, <2>1 DEF Same, Steps
  <2>3. f[<<0, n>>] = IF 0 < n THEN (r[n] - r[0]) % 256 ELSE 0
    BY <2>1 DEF SumBetween
  <2>4. (r[n] - 0) % 256 = r[n]
    BY <2>2, SumOfOne
  <2>5. n = 0 \/ 0 < n
    BY <1>1
  <2> HIDE DEF f
  <2> QED BY <2>2, <2>3, <2>4, <2>5
<1> QED BY <1>2, <1>4, <1>8, <1>9 DEF StepsTo, n

\* The sum is a byte; another byte is added to it.
LEMMA ByteSumAppend ==
    ASSUME NEW buf \in Seq(Byte), NEW x \in Byte
    PROVE  /\ ByteSum(buf) \in Byte
           /\ ByteSum(Append(buf, x)) = (ByteSum(buf) + x) % 256
<1>1. StepsTo(AddByte, 0, buf, ByteSum(buf))
  BY ByteSumSteps
<1>2. ByteSum(buf) \in Byte
  BY <1>1, AddByteStep, StepsToUnique
<1>3. StepsTo(AddByte, 0, Append(buf, x), AddByte[<<ByteSum(buf), x>>])
  BY <1>1, AddByteStep, StepsToAppend
<1> DEFINE more == Append(buf, x)
           sum == AddByte[<<ByteSum(buf), x>>]
<1>4. more \in Seq(Byte)
  OBVIOUS
<1>5. StepsTo(AddByte, 0, more, sum)
  BY <1>3
<1> HIDE DEF more, sum
<1>6. StepsTo(AddByte, 0, more, ByteSum(more))
  BY <1>4, ByteSumSteps
<1>7. ByteSum(more) = sum
  BY <1>4, <1>5, <1>6, AddByteStep, StepsToUnique
<1> QED BY <1>2, <1>7, AddByteType DEF more, sum
-----------------------------------------------------------------------------
(* The data bytes of a transmission *)

\* The bytes of each duration.
Chunks(times) == [i \in 1 .. Len(times) |-> DurationBytes(times[i])]

\* A duration takes one or two bytes; they say the time, cut to 15 bits.
LEMMA DurationByteType ==
    ASSUME NEW t \in Nat
    PROVE  /\ IsLong(t) => /\ 128 + ((t \div 256) % 128) \in Byte /\ t % 256 \in Byte
                           /\ IsLong(128 + ((t \div 256) % 128))
                           /\ 256 * ((128 + ((t \div 256) % 128)) - 128) + (t % 256)
                                 = t % 32768
           /\ ~IsLong(t) => t \in Byte /\ t = t % 32768
BY SMT DEF IsLong, Byte

\* So do its bytes.
LEMMA DurationBytesType ==
    ASSUME NEW t \in Nat
    PROVE  /\ DurationBytes(t) \in Seq(Byte)
           /\ Len(DurationBytes(t)) = IF IsLong(t) THEN 2 ELSE 1
<1>1. CASE IsLong(t)
  <2> DEFINE x == 128 + ((t \div 256) % 128)
             y == t % 256
  <2>1. x \in Byte /\ y \in Byte /\ DurationBytes(t) = <<x, y>>
    BY <1>1, DurationByteType DEF DurationBytes
  <2> HIDE DEF x, y
  <2> QED BY <1>1, <2>1
<1>2. CASE ~IsLong(t)
  <2>1. t \in Byte /\ DurationBytes(t) = <<t>>
    BY <1>2, DurationByteType DEF DurationBytes
  <2> QED BY <1>2, <2>1
<1> QED BY <1>1, <1>2

\* The chunks of durations are sequences of bytes.
LEMMA ChunksType ==
    ASSUME NEW times \in Seq(Nat)
    PROVE  /\ Chunks(times) \in Seq(Seq(Byte)) /\ Len(Chunks(times)) = Len(times)
           /\ \A i \in 1 .. Len(times) : Chunks(times)[i] = DurationBytes(times[i])
<1> DEFINE n == Len(times)
<1>1. n \in Nat
  OBVIOUS
<1>2. ASSUME NEW i \in 1 .. n PROVE DurationBytes(times[i]) \in Seq(Byte)
  <2>1. times[i] \in Nat
    OBVIOUS
  <2> QED BY <2>1, DurationBytesType
<1>3. Chunks(times) = [i \in 1 .. n |-> DurationBytes(times[i])]
  BY DEF Chunks
<1> HIDE DEF n
<1>4. Chunks(times) \in [1 .. n -> Seq(Byte)]
  BY <1>2, <1>3
<1>5. Chunks(times) \in Seq(Seq(Byte)) /\ Len(Chunks(times)) = n
  BY <1>1, <1>4, FunctionSequence
<1> QED BY <1>3, <1>5 DEF n

\* The piece of s behind i and up to j is in two pieces.
TwoPieces(S, s, i, h, j) ==
    /\ SubSeq(s, i + 1, h) \in Seq(S) /\ SubSeq(s, h + 1, j) \in Seq(S)
    /\ SubSeq(s, i + 1, h) \o SubSeq(s, h + 1, j) = SubSeq(s, i + 1, j)

\* It is wherever it is cut.
LEMMA PieceOfTwo ==
    ASSUME NEW S, NEW s \in Seq(S), NEW i \in 0 .. Len(s), NEW h \in 0 .. Len(s),
           NEW j \in 0 .. Len(s), i < h, h < j
    PROVE  TwoPieces(S, s, i, h, j)
BY DEF TwoPieces

\* A piece of one member, and one of none.
LEMMA PieceOfOne ==
    ASSUME NEW S, NEW s \in Seq(S), NEW i \in 0 .. Len(s), NEW j \in 0 .. Len(s)
    PROVE  /\ j = i + 1 => SubSeq(s, i + 1, j) = <<s[j]>> /\ s[j] \in S
           /\ j <= i => SubSeq(s, i + 1, j) = <<>>
<1>1. ASSUME j = i + 1 PROVE SubSeq(s, i + 1, j) = <<s[j]>> /\ s[j] \in S
  <2>1. j \in 1 .. Len(s) /\ i + 1 = j
    BY <1>1
  <2> DEFINE u == SubSeq(s, j, j)
  <2>2. u \in Seq(S) /\ Len(u) = 1 /\ u[1] = s[j] /\ s[j] \in S
    BY <2>1
  <2>3. u = SubSeq(s, i + 1, j)
    BY <2>1
  <2> HIDE DEF u
  <2>4. u = <<u[1]>>
    BY <2>2
  <2> QED BY <2>2, <2>3, <2>4
<1>2. ASSUME j <= i PROVE SubSeq(s, i + 1, j) = <<>>
  <2>1. i + 1 > j /\ Len(s) \in Nat
    BY <1>2
  <2> QED BY <2>1
<1> QED BY <1>1, <1>2

\* The recursive definition of the data bytes, by halves.
DataByHalves(data, times) ==
    data = [p \in Pairs(Len(times)) |->
               IF p[2] < p[1] + 2
               THEN IF p[2] = p[1] + 1 THEN DurationBytes(times[p[2]]) ELSE <<>>
               ELSE data[<<p[1], Half(p)>>] \o data[<<Half(p), p[2]>>]]

\* The bytes of the chunks from i + 1 to j.
DataBetween(chunks, p) == FlattenSeq(SubSeq(chunks, p[1] + 1, p[2]))

\* They have that definition.
LEMMA DataExists ==
    ASSUME NEW times \in Seq(Nat)
    PROVE  DataByHalves([p \in Pairs(Len(times)) |-> DataBetween(Chunks(times), p)], times)
<1> DEFINE n == Len(times)
           c == Chunks(times)
           f == [p \in Pairs(n) |-> DataBetween(c, p)]
<1>1. /\ n \in Nat /\ c \in Seq(Seq(Byte)) /\ Len(c) = n
      /\ \A k \in 1 .. n : c[k] = DurationBytes(times[k])
  BY ChunksType
<1> HIDE DEF n, c
<1>2. ASSUME NEW p \in Pairs(n)
      PROVE  f[p] = IF p[2] < p[1] + 2
                    THEN IF p[2] = p[1] + 1 THEN DurationBytes(times[p[2]]) ELSE <<>>
                    ELSE f[<<p[1], Half(p)>>] \o f[<<Half(p), p[2]>>]
  <2> DEFINE i == p[1]
             j == p[2]
             h == Half(p)
  <2>1. i \in 0 .. Len(c) /\ j \in 0 .. Len(c) /\ i \in Nat /\ j \in Nat
    BY <1>1 DEF Pairs
  <2>2. f[p] = FlattenSeq(SubSeq(c, i + 1, j))
    BY DEF DataBetween
  <2>3. CASE j = i + 1
    <3>1. SubSeq(c, i + 1, j) = <<c[j]>> /\ c[j] \in Seq(Byte)
      BY <1>1, <2>1, <2>3, PieceOfOne
    <3>2. FlattenSeq(<<c[j]>>) = c[j]
      BY <3>1, FlattenSingle
    <3>3. c[j] = DurationBytes(times[j])
      BY <1>1, <2>1, <2>3
    <3> HIDE DEF f, i, j
    <3>4. f[p] = DurationBytes(times[j])
      BY <2>2, <3>1, <3>2, <3>3
    <3>5. j < i + 2
      BY <2>1, <2>3
    <3> QED BY <2>3, <3>4, <3>5 DEF i, j
  <2>4. CASE j < i + 2 /\ j # i + 1
    <3>1. SubSeq(c, i + 1, j) = <<>>
      BY <1>1, <2>1, <2>4, PieceOfOne, SMTT(30)
    <3> HIDE DEF f, i, j
    <3>2. f[p] = <<>>
      BY <2>2, <3>1, FlattenEmpty
    <3> QED BY <2>4, <3>2 DEF i, j
  <2>5. CASE ~(j < i + 2)
    <3> DEFINE a == <<p[1], Half(p)>>
               b == <<Half(p), p[2]>>
    <3>1. /\ h \in 0 .. Len(c) /\ i < h /\ h < j
          /\ a \in Pairs(n) /\ b \in Pairs(n)
      BY <1>1, <2>5, HalfBetween
    <3>2. /\ f[a] = FlattenSeq(SubSeq(c, i + 1, h))
          /\ f[b] = FlattenSeq(SubSeq(c, h + 1, j))
      BY <3>1 DEF DataBetween
    <3> HIDE DEF f, h, i, j
    <3>3. /\ SubSeq(c, i + 1, h) \in Seq(Seq(Byte)) /\ SubSeq(c, h + 1, j) \in Seq(Seq(Byte))
          /\ SubSeq(c, i + 1, h) \o SubSeq(c, h + 1, j) = SubSeq(c, i + 1, j)
      <4> DEFINE B == Seq(Byte)
      <4>1. c \in Seq(B)
        BY <1>1
      <4> HIDE DEF B
      <4>2. TwoPieces(B, c, i, h, j)
        <5>1. i \in 0 .. Len(c) /\ h \in 0 .. Len(c) /\ j \in 0 .. Len(c)
          BY <2>1, <3>1
        <5>2. i < h /\ h < j
          BY <3>1
        <5> QED BY <4>1, <5>1, <5>2, PieceOfTwo
      <4> QED BY <4>2 DEF B, TwoPieces
    <3>4. FlattenSeq(SubSeq(c, i + 1, h) \o SubSeq(c, h + 1, j))
             = FlattenSeq(SubSeq(c, i + 1, h)) \o FlattenSeq(SubSeq(c, h + 1, j))
      BY <3>3, FlattenConcat
    <3>5. f[p] = f[a] \o f[b]
      BY <2>2, <3>2, <3>3, <3>4, Zenon
    <3> QED BY <2>5, <3>5 DEF i, j
  <2> QED BY <2>3, <2>4, <2>5
<1>3. f = [p \in Pairs(n) |-> f[p]]
  OBVIOUS
<1> HIDE DEF f
<1>4. DataByHalves(f, times)
  BY <1>2, <1>3 DEF DataByHalves, n
<1> QED BY <1>4 DEF f, n, c

\* The data bytes are those of all chunks.
LEMMA DataBytesFlatten ==
    ASSUME NEW times \in Seq(Nat)
    PROVE  DataBytes(times) = FlattenSeq(Chunks(times))
<1> DEFINE n == Len(times)
           data == CHOOSE data : DataByHalves(data, times)
           f == [p \in Pairs(n) |-> DataBetween(Chunks(times), p)]
<1>1. n \in Nat /\ Chunks(times) \in Seq(Seq(Byte)) /\ Len(Chunks(times)) = n
  BY ChunksType
<1>2. DataBytes(times) = data[<<0, n>>]
  BY DEF DataBytes, DataByHalves, Pairs
<1>3. DataByHalves(f, times)
  BY DataExists
<1> HIDE DEF f, n
<1>4. DataByHalves(data, times)
  BY <1>3
<1> HIDE DEF data
<1>5. /\ \A p \in Pairs(n) :
            f[p] = IF p[2] < p[1] + 2
                   THEN IF p[2] = p[1] + 1 THEN DurationBytes(times[p[2]]) ELSE <<>>
                   ELSE f[<<p[1], Half(p)>>] \o f[<<Half(p), p[2]>>]
      /\ \A p \in Pairs(n) :
            data[p] = IF p[2] < p[1] + 2
                      THEN IF p[2] = p[1] + 1 THEN DurationBytes(times[p[2]]) ELSE <<>>
                      ELSE data[<<p[1], Half(p)>>] \o data[<<Half(p), p[2]>>]
  BY <1>3, <1>4, Zenon DEF DataByHalves, n
<1>6. AgreeByHalves(f, data, n)
  <2>1. SUFFICES ASSUME NEW p \in Pairs(n)
                 PROVE  /\ p[2] < p[1] + 2 => f[p] = data[p]
                        /\ /\ ~(p[2] < p[1] + 2)
                           /\ f[<<p[1], Half(p)>>] = data[<<p[1], Half(p)>>]
                           /\ f[<<Half(p), p[2]>>] = data[<<Half(p), p[2]>>]
                           => f[p] = data[p]
    BY DEF AgreeByHalves
  <2> QED BY <1>5
<1>7. <<0, n>> \in Pairs(n)
  BY <1>1 DEF Pairs
<1>8. data[<<0, n>>] = f[<<0, n>>]
  BY <1>1, <1>6, <1>7, HalvesAgree
<1>9. f[<<0, n>>] = FlattenSeq(SubSeq(Chunks(times), 1, n))
  BY <1>7 DEF f, DataBetween
<1>10. SubSeq(Chunks(times), 1, n) = Chunks(times)
  <2> DEFINE c == Chunks(times)
  <2>1. c \in Seq(Seq(Byte)) /\ Len(c) = n
    BY <1>1
  <2> HIDE DEF c
  <2>2. SubSeq(c, 1, n) = c
    BY <2>1
  <2> QED BY <2>2 DEF c
<1> QED BY <1>2, <1>8, <1>9, <1>10

\* The long ones of the first m durations, and how many they are.
LongOnes(times, m) == {i \in 1 .. m : IsLong(times[i])}
NofLong(times, m) == Cardinality(LongOnes(times, m))

\* There is no long one of none; of one more there is one more, or not.
LEMMA NofLongStep ==
    ASSUME NEW times, NEW m \in Nat
    PROVE  /\ NofLong(times, m) \in Nat /\ NofLong(times, 0) = 0
           /\ NofLong(times, m + 1)
                 = NofLong(times, m) + IF IsLong(times[m + 1]) THEN 1 ELSE 0
<1>1. IsFiniteSet(LongOnes(times, m))
  <2>1. IsFiniteSet(1 .. m)
    BY FS_Interval
  <2>2. LongOnes(times, m) \in SUBSET (1 .. m)
    BY DEF LongOnes
  <2> QED BY <2>1, <2>2, FS_Subset
<1>2. NofLong(times, m) \in Nat
  BY <1>1, FS_CardinalityType DEF NofLong
<1>3. NofLong(times, 0) = 0
  <2>1. LongOnes(times, 0) = {}
    BY DEF LongOnes
  <2> QED BY <2>1, FS_EmptySet DEF NofLong
<1>4. CASE IsLong(times[m + 1])
  <2>1. LongOnes(times, m + 1) = LongOnes(times, m) \cup {m + 1}
    BY <1>4 DEF LongOnes
  <2>2. m + 1 \notin LongOnes(times, m)
    BY DEF LongOnes
  <2>3. Cardinality(LongOnes(times, m) \cup {m + 1})
           = Cardinality(LongOnes(times, m)) + 1
    BY <1>1, <2>2, FS_AddElement
  <2> QED BY <1>2, <1>3, <1>4, <2>1, <2>3 DEF NofLong
<1>5. CASE ~IsLong(times[m + 1])
  <2>1. LongOnes(times, m + 1) = LongOnes(times, m)
    BY <1>5 DEF LongOnes
  <2> QED BY <1>2, <1>3, <1>5, <2>1 DEF NofLong
<1> QED BY <1>4, <1>5

\* The members of two sequences, one after the other.
LEMMA ConcatMembers ==
    ASSUME NEW S, NEW a \in Seq(S), NEW b \in Seq(S)
    PROVE  /\ a \o b \in Seq(S) /\ Len(a \o b) = Len(a) + Len(b)
           /\ \A k \in 1 .. Len(a) + Len(b) :
                 (a \o b)[k] = IF k <= Len(a) THEN a[k] ELSE b[k - Len(a)]
OBVIOUS

\* A sequence up to one of its members, and from there on.
LEMMA UpTo ==
    ASSUME NEW S, NEW s \in Seq(S), NEW n \in 1 .. Len(s)
    PROVE  /\ SubSeq(s, 1, n - 1) \in Seq(S) /\ s[n] \in S
           /\ SubSeq(s, 1, n) \in Seq(S) /\ SubSeq(s, n + 1, Len(s)) \in Seq(S)
           /\ SubSeq(s, 1, n) = Append(SubSeq(s, 1, n - 1), s[n])
           /\ s = SubSeq(s, 1, n) \o SubSeq(s, n + 1, Len(s))
<1> DEFINE a == SubSeq(s, 1, n - 1)
           b == SubSeq(s, 1, n)
           c == SubSeq(s, n + 1, Len(s))
<1>1. n \in Nat /\ Len(s) \in Nat /\ 1 <= n /\ n <= Len(s)
  OBVIOUS
<1>2. /\ a \in Seq(S) /\ Len(a) = n - 1 /\ \A k \in 1 .. n - 1 : a[k] = s[k]
      /\ s[n] \in S
  BY <1>1
<1>3. b \in Seq(S) /\ Len(b) = n /\ \A k \in 1 .. n : b[k] = s[k]
  BY <1>1
<1>4. c \in Seq(S) /\ Len(c) = Len(s) - n /\ \A k \in 1 .. Len(s) - n : c[k] = s[n + k]
  BY <1>1
<1> HIDE DEF a, b, c
<1>5. b = Append(a, s[n])
  <2> DEFINE t == Append(a, s[n])
  <2>1. t \in Seq(S) /\ Len(t) = n /\ t[n] = s[n] /\ \A k \in 1 .. n - 1 : t[k] = a[k]
    BY <1>1, <1>2
  <2> HIDE DEF t
  <2>2. \A k \in 1 .. n : b[k] = t[k]
    BY <1>1, <1>2, <1>3, <2>1
  <2>3. b = t
    BY <1>3, <2>1, <2>2, SeqEqual
  <2> QED BY <2>3 DEF t
<1>6. s = b \o c
  <2> DEFINE t == b \o c
  <2>1. /\ t \in Seq(S) /\ Len(t) = Len(s)
        /\ \A k \in 1 .. Len(s) : t[k] = IF k <= n THEN b[k] ELSE c[k - n]
    <3>1. /\ t \in Seq(S) /\ Len(t) = Len(b) + Len(c)
          /\ \A k \in 1 .. Len(b) + Len(c) :
                t[k] = IF k <= Len(b) THEN b[k] ELSE c[k - Len(b)]
      BY <1>3, <1>4, ConcatMembers
    <3>2. Len(b) + Len(c) = Len(s) /\ Len(b) = n
      BY <1>1, <1>3, <1>4
    <3> HIDE DEF t
    <3> QED BY <3>1, <3>2
  <2> HIDE DEF t
  <2>2. ASSUME NEW k \in 1 .. Len(s) PROVE s[k] = t[k]
    <3>1. CASE k <= n
      BY <1>1, <1>3, <2>1, <3>1
    <3>2. CASE k > n
      <4>1. k - n \in 1 .. Len(s) - n /\ n + (k - n) = k
        BY <1>1, <3>2
      <4>2. t[k] = c[k - n]
        BY <1>1, <2>1, <3>2
      <4> QED BY <1>4, <4>1, <4>2
    <3> QED BY <1>1, <3>1, <3>2
  <2>3. s = t
    BY <2>1, <2>2, SeqEqual
  <2> QED BY <2>3 DEF t
<1> QED BY <1>2, <1>3, <1>4, <1>5, <1>6 DEF a, b, c

\* The first m durations take m bytes, and one more for each long one.
LEMMA PrefixBytes ==
    ASSUME NEW times \in Seq(Nat), NEW m \in 0 .. Len(times)
    PROVE  /\ FlattenSeq(SubSeq(Chunks(times), 1, m)) \in Seq(Byte)
           /\ Len(FlattenSeq(SubSeq(Chunks(times), 1, m))) = m + NofLong(times, m)
<1> DEFINE c == Chunks(times)
           d(k) == FlattenSeq(SubSeq(c, 1, k))
           n == Len(times)
           B == Seq(Byte)
           P(k) == d(k) \in Seq(Byte) /\ Len(d(k)) = k + NofLong(times, k)
           S == {k \in Nat : k <= n => P(k)}
<1>1. /\ n \in Nat /\ c \in Seq(B) /\ Len(c) = n
      /\ \A k \in 1 .. n : c[k] = DurationBytes(times[k]) /\ times[k] \in Nat
  BY ChunksType
<1> HIDE DEF c, n
<1>2. 0 \in S
  <2>1. SubSeq(c, 1, 0) = <<>> /\ <<>> \in Seq(Byte) /\ Len(<<>>) = 0
    BY <1>1
  <2>2. d(0) = <<>>
    BY <2>1, FlattenEmpty
  <2>3. NofLong(times, 0) = 0
    BY NofLongStep
  <2>4. P(0)
    <3> HIDE DEF d
    <3>1. d(0) \in Seq(Byte)
      BY <2>1, <2>2
    <3>2. Len(d(0)) = 0 + NofLong(times, 0)
      BY <2>1, <2>2, <2>3
    <3> QED BY <3>1, <3>2
  <2> HIDE DEF P
  <2> QED BY <2>4
<1>3. ASSUME NEW k \in S PROVE k + 1 \in S
  <2> HIDE DEF P
  <2>1. SUFFICES ASSUME k + 1 <= n PROVE P(k + 1)
    OBVIOUS
  <2>2. k \in Nat /\ k + 1 \in 1 .. Len(c) /\ k + 1 \in 1 .. n /\ (k + 1) - 1 = k /\ k <= n
    BY <1>1, <2>1
  <2>3. P(k)
    BY <2>2
  <2>10. d(k) \in Seq(Byte) /\ Len(d(k)) = k + NofLong(times, k)
    BY <2>3 DEF P
  <2> HIDE DEF B
  <2>4. SubSeq(c, 1, k) \in Seq(B) /\ c[k + 1] \in B
        /\ SubSeq(c, 1, k + 1) = Append(SubSeq(c, 1, k), c[k + 1])
    <3> DEFINE j == k + 1
    <3>1. j \in 1 .. Len(c) /\ j - 1 = k
      BY <2>2
    <3> HIDE DEF j
    <3>2. SubSeq(c, 1, j - 1) \in Seq(B) /\ c[j] \in B
          /\ SubSeq(c, 1, j) = Append(SubSeq(c, 1, j - 1), c[j])
      BY <1>1, <3>1, UpTo
    <3> QED BY <3>1, <3>2 DEF j
  <2>5. FlattenSeq(Append(SubSeq(c, 1, k), c[k + 1])) = FlattenSeq(SubSeq(c, 1, k)) \o c[k + 1]
    BY <2>4, FlattenAppend DEF B
  <2>6. d(k + 1) = d(k) \o c[k + 1]
    BY <2>4, <2>5, Zenon
  <2>7. /\ c[k + 1] \in Seq(Byte)
        /\ Len(c[k + 1]) = IF IsLong(times[k + 1]) THEN 2 ELSE 1
    BY <1>1, <2>2, DurationBytesType
  <2>8. /\ NofLong(times, k) \in Nat
        /\ NofLong(times, k + 1) = NofLong(times, k) + IF IsLong(times[k + 1]) THEN 1 ELSE 0
    BY <2>2, NofLongStep
  <2> HIDE DEF d
  <2>9. d(k) \o c[k + 1] \in Seq(Byte) /\ Len(d(k) \o c[k + 1]) = Len(d(k)) + Len(c[k + 1])
    BY <2>7, <2>10
  <2>11. Len(d(k) \o c[k + 1]) = (k + 1) + NofLong(times, k + 1)
    BY <2>2, <2>7, <2>8, <2>9, <2>10
  <2> QED BY <2>6, <2>9, <2>11 DEF P
<1>4. S = Nat
  <2>1. S \in SUBSET Nat
    OBVIOUS
  <2> HIDE DEF S
  <2> QED BY <1>2, <1>3, <2>1, SetInduction
<1> HIDE DEF P
<1>5. m \in S /\ m <= n
  <2>1. m \in Nat /\ m <= n
    BY <1>1 DEF n
  <2> HIDE DEF S
  <2> QED BY <1>4, <2>1
<1>6. P(m)
  BY <1>5
<1> QED BY <1>6 DEF c, P

\* The bytes in the middle of three pieces.
LEMMA MiddleBytes ==
    ASSUME NEW S, NEW a \in Seq(S), NEW b \in Seq(S), NEW c \in Seq(S)
    PROVE  \A i \in 1 .. Len(b) : ((a \o b) \o c)[Len(a) + i] = b[i]
OBVIOUS

\* The data bytes of the durations: how many there are, and where those of
\* one are.
LEMMA DataBytesAt ==
    ASSUME NEW times \in Seq(Nat)
    PROVE  /\ DataBytes(times) \in Seq(Byte)
           /\ Len(DataBytes(times)) = Len(times) + NofLong(times, Len(times))
           /\ \A n \in 1 .. Len(times) : \A i \in 1 .. Len(DurationBytes(times[n])) :
                 DataBytes(times)[(n - 1) + NofLong(times, n - 1) + i]
                    = DurationBytes(times[n])[i]
<1> DEFINE c == Chunks(times)
           B == Seq(Byte)
<1>1. /\ Len(times) \in Nat /\ c \in Seq(B) /\ Len(c) = Len(times)
      /\ \A k \in 1 .. Len(times) : c[k] = DurationBytes(times[k])
  BY ChunksType
<1>2. DataBytes(times) = FlattenSeq(c)
  BY DataBytesFlatten
<1>3. SubSeq(c, 1, Len(times)) = c
  <2> HIDE DEF c, B
  <2> QED BY <1>1
<1>4. /\ DataBytes(times) \in Seq(Byte)
      /\ Len(DataBytes(times)) = Len(times) + NofLong(times, Len(times))
  <2>1. Len(times) \in 0 .. Len(times)
    BY <1>1
  <2> QED BY <1>2, <1>3, <2>1, PrefixBytes
<1>5. ASSUME NEW n \in 1 .. Len(times), NEW i \in 1 .. Len(DurationBytes(times[n]))
      PROVE  DataBytes(times)[(n - 1) + NofLong(times, n - 1) + i] = DurationBytes(times[n])[i]
  <2> DEFINE x == SubSeq(c, 1, n - 1)
             y == SubSeq(c, 1, n)
             z == SubSeq(c, n + 1, Len(c))
  <2>1. /\ x \in Seq(B) /\ c[n] \in B /\ y \in Seq(B) /\ z \in Seq(B)
        /\ y = Append(x, c[n]) /\ c = y \o z
    <3>1. n \in 1 .. Len(c)
      BY <1>1
    <3> HIDE DEF B, c
    <3> QED BY <1>1, <3>1, UpTo
  <2>2. FlattenSeq(x) \in Seq(Byte) /\ Len(FlattenSeq(x)) = (n - 1) + NofLong(times, n - 1)
    <3>1. n - 1 \in 0 .. Len(times)
      BY <1>1
    <3> QED BY <3>1, PrefixBytes
  <2>3. c[n] = DurationBytes(times[n])
    BY <1>1
  <2> HIDE DEF x, y, z, c
  <2>4. FlattenSeq(y) = FlattenSeq(x) \o c[n]
    BY <2>1, FlattenAppend
  <2>5. FlattenSeq(c) = FlattenSeq(y) \o FlattenSeq(z) /\ FlattenSeq(z) \in Seq(Byte)
    <3>1. FlattenSeq(y \o z) = FlattenSeq(y) \o FlattenSeq(z)
      BY <2>1, FlattenConcat
    <3>2. FlattenSeq(z) \in Seq(Byte)
      BY <2>1, FlattenType
    <3> QED BY <2>1, <3>1, <3>2
  <2>6. FlattenSeq(c) = (FlattenSeq(x) \o c[n]) \o FlattenSeq(z)
    BY <2>4, <2>5
  <2>7. ((FlattenSeq(x) \o c[n]) \o FlattenSeq(z))[Len(FlattenSeq(x)) + i] = c[n][i]
    <3> DEFINE u == FlattenSeq(x)
               v == c[n]
               w == FlattenSeq(z)
    <3>1. u \in Seq(Byte) /\ v \in Seq(Byte) /\ w \in Seq(Byte) /\ i \in 1 .. Len(v)
      <4>1. i \in 1 .. Len(v)
        BY <2>3, Zenon
      <4>2. u \in Seq(Byte) /\ v \in Seq(Byte) /\ w \in Seq(Byte)
        BY <2>1, <2>2, <2>5, Zenon
      <4> QED BY <4>1, <4>2
    <3> HIDE DEF u, v, w
    <3>2. \A k \in 1 .. Len(v) : ((u \o v) \o w)[Len(u) + k] = v[k]
      BY <3>1, MiddleBytes
    <3>3. ((u \o v) \o w)[Len(u) + i] = v[i]
      BY <3>1, <3>2
    <3> QED BY <3>3 DEF u, v, w
  <2> QED BY <1>2, <2>2, <2>3, <2>6, <2>7
<1> QED BY <1>4, <1>5

-----------------------------------------------------------------------------
(* Hexadecimal digits and bytes *)

\* A byte is two digits.
LEMMA TwoDigits ==
    ASSUME NEW x \in Byte
    PROVE  /\ x \div 16 \in 0 .. 15 /\ x % 16 \in 0 .. 15
           /\ 16 * UHex2Val(x \div 16) + UHex2Val(x % 16) = x
BY SMT DEF Byte, UHex2Val

\* Two digits are a byte.
LEMMA DigitsByte ==
    ASSUME NEW x \in Characters, NEW y \in Characters
    PROVE  16 * UHex2Val(x) + UHex2Val(y) \in Byte
BY SMT DEF Byte, Characters, UHex2Val

\* The digits that are shown, twice as many as there are bytes.
LEMMA UBuf2HexType ==
    ASSUME NEW buf \in Seq(Byte)
    PROVE  /\ UBuf2Hex(buf) \in Seq(Characters) /\ Len(UBuf2Hex(buf)) = 2 * Len(buf)
           /\ \A i \in 1 .. Len(buf) : /\ UBuf2Hex(buf)[2 * i - 1] = buf[i] \div 16
                                       /\ UBuf2Hex(buf)[2 * i] = buf[i] % 16
<1> DEFINE n == Len(buf)
           hex == UBuf2Hex(buf)
           e(i) == IF i % 2 = 1 THEN buf[(i + 1) \div 2] \div 16 ELSE buf[i \div 2] % 16
<1>1. n \in Nat /\ \A i \in 1 .. n : buf[i] \in Byte
  OBVIOUS
<1>2. hex = [i \in 1 .. 2 * n |-> e(i)]
  BY DEF UBuf2Hex
<1> HIDE DEF n
<1>3. ASSUME NEW i \in 1 .. 2 * n PROVE e(i) \in Characters
  <2>1. CASE i % 2 = 1
    <3>1. (i + 1) \div 2 \in 1 .. n
      BY <1>1, <2>1
    <3>2. buf[(i + 1) \div 2] \in Byte
      BY <1>1, <3>1
    <3>3. buf[(i + 1) \div 2] \div 16 \in 0 .. 15
      BY <3>2, TwoDigits
    <3> QED BY <2>1, <3>3 DEF Characters
  <2>2. CASE i % 2 # 1
    <3>1. i \div 2 \in 1 .. n
      BY <1>1, <2>2
    <3>2. buf[i \div 2] \in Byte
      BY <1>1, <3>1
    <3>3. buf[i \div 2] % 16 \in 0 .. 15
      BY <3>2, TwoDigits
    <3> QED BY <2>2, <3>3 DEF Characters
  <2> QED BY <2>1, <2>2
<1>4. hex \in Seq(Characters) /\ Len(hex) = 2 * n
  <2>1. 2 * n \in Nat
    BY <1>1
  <2> HIDE DEF e, hex
  <2>2. hex \in [1 .. 2 * n -> Characters]
    BY <1>2, <1>3
  <2> QED BY <2>1, <2>2, FunctionSequence
<1>5. ASSUME NEW i \in 1 .. n
      PROVE  hex[2 * i - 1] = buf[i] \div 16 /\ hex[2 * i] = buf[i] % 16
  <2>1. /\ 2 * i - 1 \in 1 .. 2 * n /\ 2 * i \in 1 .. 2 * n
        /\ (2 * i - 1) % 2 = 1 /\ (2 * i) % 2 = 0
        /\ ((2 * i - 1) + 1) \div 2 = i /\ (2 * i) \div 2 = i
    BY <1>1
  <2> HIDE DEF hex
  <2>2. hex[2 * i - 1] = e(2 * i - 1) /\ hex[2 * i] = e(2 * i)
    BY <1>2, <2>1
  <2>3. e(2 * i - 1) = buf[i] \div 16 /\ e(2 * i) = buf[i] % 16
    BY <2>1
  <2> HIDE DEF e
  <2> QED BY <2>2, <2>3
<1> QED BY <1>4, <1>5 DEF n

\* The bytes of what is typed, half as many as there are characters.
LEMMA UHex2BufType ==
    ASSUME NEW hex \in Seq(Characters)
    PROVE  UHex2Buf(hex) \in Seq(Byte) /\ Len(UHex2Buf(hex)) = Len(hex) \div 2
<1> DEFINE n == Len(hex) \div 2
           e(i) == 16 * UHex2Val(hex[2 * i - 1]) + UHex2Val(hex[2 * i])
<1>1. n \in Nat /\ UHex2Buf(hex) = [i \in 1 .. n |-> e(i)]
  BY DEF UHex2Buf
<1>2. ASSUME NEW i \in 1 .. n PROVE e(i) \in Byte
  <2>1. 2 * i - 1 \in 1 .. Len(hex) /\ 2 * i \in 1 .. Len(hex)
    OBVIOUS
  <2>2. hex[2 * i - 1] \in Characters /\ hex[2 * i] \in Characters
    BY <2>1
  <2> QED BY <2>2, DigitsByte
<1> HIDE DEF n, e
<1>3. UHex2Buf(hex) \in [1 .. n -> Byte]
  BY <1>1, <1>2
<1> QED BY <1>1, <1>3, FunctionSequence DEF n

\* What is shown is typed back as the same bytes.
LEMMA TypedBack ==
    ASSUME NEW buf \in Seq(Byte)
    PROVE  UHex2Buf(UBuf2Hex(buf)) = buf
<1> DEFINE hex == UBuf2Hex(buf)
<1>1. /\ Len(buf) \in Nat /\ Len(hex) = 2 * Len(buf)
      /\ \A i \in 1 .. Len(buf) : /\ hex[2 * i - 1] = buf[i] \div 16
                                  /\ hex[2 * i] = buf[i] % 16
  BY UBuf2HexType
<1> HIDE DEF hex
<1>2. Len(hex) \div 2 = Len(buf)
  BY <1>1
<1>3. ASSUME NEW i \in 1 .. Len(buf)
      PROVE  16 * UHex2Val(hex[2 * i - 1]) + UHex2Val(hex[2 * i]) = buf[i]
  <2>1. buf[i] \in Byte
    OBVIOUS
  <2> QED BY <1>1, <2>1, TwoDigits
<1>4. UHex2Buf(hex) = [i \in 1 .. Len(buf) |-> buf[i]]
  BY <1>2, <1>3 DEF UHex2Buf
<1>5. buf = [i \in 1 .. Len(buf) |-> buf[i]]
  OBVIOUS
<1> QED BY <1>4, <1>5 DEF hex

\* A group of four and its space take five characters.
LEMMA FiveCharacters ==
    ASSUME NEW n \in Nat
    PROVE  /\ n + n \div 4 \in Nat /\ (n + n \div 4) - (n + n \div 4) \div 5 = n
           /\ \A i \in 1 .. n + n \div 4 : i % 5 # 0 => i - i \div 5 \in 1 .. n
           /\ \A i \in 1 .. n :
                 LET j == i + (i - 1) \div 4
                 IN  j \in 1 .. n + n \div 4 /\ j % 5 # 0 /\ j - j \div 5 = i
OBVIOUS

\* What is printed, digits and spaces.
LEMMA PrintedType ==
    ASSUME NEW d \in Seq(Characters)
    PROVE  /\ Printed(d) \in Seq(Characters \cup {Space})
           /\ Len(Printed(d)) = Len(d) + Len(d) \div 4
           /\ \A i \in 1 .. Len(Printed(d)) :
                 i % 5 # 0 => Printed(d)[i] = d[i - i \div 5] /\ Printed(d)[i] \in Characters
<1> DEFINE n == Len(d)
           m == n + n \div 4
           e(i) == IF i % 5 = 0 THEN Space ELSE d[i - i \div 5]
<1>1. n \in Nat /\ \A i \in 1 .. n : d[i] \in Characters
  OBVIOUS
<1>2. Printed(d) = [i \in 1 .. m |-> e(i)]
  BY DEF Printed
<1> HIDE DEF n
<1>3. m \in Nat /\ \A i \in 1 .. m : i % 5 # 0 => i - i \div 5 \in 1 .. n
  BY <1>1, FiveCharacters
<1> HIDE DEF m
<1>4. \A i \in 1 .. m : i % 5 # 0 => e(i) = d[i - i \div 5] /\ e(i) \in Characters
  BY <1>1, <1>3
<1>5. \A i \in 1 .. m : e(i) \in Characters \cup {Space}
  <2> SUFFICES ASSUME NEW i \in 1 .. m PROVE e(i) \in Characters \cup {Space}
    OBVIOUS
  <2>1. CASE i % 5 = 0
    BY <2>1
  <2>2. CASE i % 5 # 0
    BY <1>4, <2>2
  <2> QED BY <2>1, <2>2
<1> HIDE DEF e
<1>6. Printed(d) \in [1 .. m -> Characters \cup {Space}]
  BY <1>2, <1>5
<1>7. Printed(d) \in Seq(Characters \cup {Space}) /\ Len(Printed(d)) = m
  BY <1>3, <1>6, FunctionSequence
<1>8. \A i \in 1 .. m : Printed(d)[i] = e(i)
  BY <1>2
<1> QED BY <1>4, <1>7, <1>8 DEF m, n, e

\* Without the spaces it is the digits again.
LEMMA UnspacedPrinted ==
    ASSUME NEW d \in Seq(Characters)
    PROVE  Unspaced(Printed(d)) = d
<1> DEFINE n == Len(d)
           text == Printed(d)
<1>1. n \in Nat /\ Len(text) = n + n \div 4
      /\ \A i \in 1 .. Len(text) : i % 5 # 0 => text[i] = d[i - i \div 5]
  <2>1. n \in Nat
    OBVIOUS
  <2> QED BY <2>1, PrintedType, Zenon
<1>2. d = [i \in 1 .. n |-> d[i]]
  OBVIOUS
<1> HIDE DEF n, text
<1>3. Len(text) - Len(text) \div 5 = n
  BY <1>1, FiveCharacters
<1>4. \A i \in 1 .. n : text[i + (i - 1) \div 4] = d[i]
  BY <1>1, FiveCharacters
<1>5. Unspaced(text) = [i \in 1 .. n |-> d[i]]
  BY <1>3, <1>4 DEF Unspaced
<1> QED BY <1>2, <1>5 DEF text

\* A group between two spaces is four digits.
LEMMA PrintedGroup ==
    ASSUME NEW d \in Seq(Characters), NEW g \in 1 .. Len(Printed(d)) \div 5
    PROVE  LET group == SubSeq(Printed(d), 5 * g - 4, 5 * g - 1)
           IN  group \in Seq(Characters) /\ Len(group) = 4
<1> DEFINE text == Printed(d)
           n == Len(text)
           i == 5 * g - 4
<1>1. text \in Seq(Characters \cup {Space}) /\ n \in Nat
      /\ \A k \in 1 .. n : k % 5 # 0 => text[k] \in Characters
  <2>1. /\ text \in Seq(Characters \cup {Space})
        /\ \A k \in 1 .. n : k % 5 # 0 => text[k] \in Characters
    BY PrintedType, Zenon
  <2> HIDE DEF text
  <2>2. Len(text) \in Nat
    BY <2>1
  <2> QED BY <2>1, <2>2
<1> HIDE DEF text
<1>2. g \in Nat /\ g \in 1 .. n \div 5
  BY <1>1 DEF text
<1> HIDE DEF n
<1>3. i \in 1 .. n /\ i + 3 \in 1 .. n /\ i % 5 = 1
  BY <1>1, <1>2
<1>4. 5 * g - 1 = i + 3
  BY <1>2
<1> HIDE DEF i
<1>5. \A k \in 1 .. 4 : i + k - 1 \in 1 .. n /\ (i + k - 1) % 5 # 0
  BY <1>1, <1>3
<1>6. SubSeq(text, i, i + 3) = [k \in 1 .. 4 |-> text[i + k - 1]]
  BY <1>1, <1>3 DEF n
<1>7. SubSeq(text, i, i + 3) \in [1 .. 4 -> Characters]
  BY <1>1, <1>5, <1>6
<1>8. SubSeq(text, i, i + 3) \in Seq(Characters) /\ Len(SubSeq(text, i, i + 3)) = 4
  BY <1>7, FunctionSequence
<1> QED BY <1>4, <1>8 DEF text, i

\* A word is two bytes, and they are the word.
LEMMA TwoBytes ==
    ASSUME NEW w \in Word
    PROVE  w \div 256 \in Byte /\ w % 256 \in Byte
<1>1. LastWord = 65535
  BY DEF LastWord
<1>2. w \in Nat /\ w <= LastWord
  <2>1. LastWord \in Nat
    BY SMT DEF LastWord
  <2> QED BY <2>1 DEF Word
<1> QED BY <1>1, <1>2, SMT DEF Byte

\* The bytes of words.
LEMMA WordBytesType ==
    ASSUME NEW words \in Seq(Word)
    PROVE  /\ WordBytes(words) \in Seq(Byte) /\ Len(WordBytes(words)) = 2 * Len(words)
           /\ \A i \in 1 .. Len(words) : /\ WordBytes(words)[2 * i - 1] = words[i] \div 256
                                         /\ WordBytes(words)[2 * i] = words[i] % 256
<1> DEFINE n == Len(words)
           b == WordBytes(words)
           e(i) == IF i % 2 = 1 THEN words[(i + 1) \div 2] \div 256 ELSE words[i \div 2] % 256
<1>1. n \in Nat /\ \A i \in 1 .. n : words[i] \in Word
  BY ElementOfSeq
<1>2. b = [i \in 1 .. 2 * n |-> e(i)]
  BY DEF WordBytes
<1> HIDE DEF n
<1>3. ASSUME NEW i \in 1 .. 2 * n PROVE e(i) \in Byte
  <2>1. CASE i % 2 = 1
    <3>1. (i + 1) \div 2 \in 1 .. n
      BY <1>1, <2>1
    <3>2. words[(i + 1) \div 2] \in Word
      BY <1>1, <3>1
    <3>3. words[(i + 1) \div 2] \div 256 \in Byte
      BY <3>2, TwoBytes
    <3> QED BY <2>1, <3>3
  <2>2. CASE i % 2 # 1
    <3>1. i \div 2 \in 1 .. n
      BY <1>1, <2>2
    <3>2. words[i \div 2] \in Word
      BY <1>1, <3>1
    <3>3. words[i \div 2] % 256 \in Byte
      BY <3>2, TwoBytes
    <3> QED BY <2>2, <3>3
  <2> QED BY <2>1, <2>2
<1>4. b \in Seq(Byte) /\ Len(b) = 2 * n
  <2>1. 2 * n \in Nat
    BY <1>1
  <2> HIDE DEF e, b
  <2>2. b \in [1 .. 2 * n -> Byte]
    BY <1>2, <1>3
  <2> QED BY <2>1, <2>2, FunctionSequence
<1>5. ASSUME NEW i \in 1 .. n
      PROVE  b[2 * i - 1] = words[i] \div 256 /\ b[2 * i] = words[i] % 256
  <2>1. /\ 2 * i - 1 \in 1 .. 2 * n /\ 2 * i \in 1 .. 2 * n
        /\ (2 * i - 1) % 2 = 1 /\ (2 * i) % 2 = 0
        /\ ((2 * i - 1) + 1) \div 2 = i /\ (2 * i) \div 2 = i
    BY <1>1
  <2> HIDE DEF b
  <2>2. b[2 * i - 1] = e(2 * i - 1) /\ b[2 * i] = e(2 * i)
    BY <1>2, <2>1
  <2>3. e(2 * i - 1) = words[i] \div 256 /\ e(2 * i) = words[i] % 256
    BY <2>1
  <2> HIDE DEF e
  <2> QED BY <2>2, <2>3
<1> QED BY <1>4, <1>5 DEF n

-----------------------------------------------------------------------------
(* From a Pronto code to a command *)

\* Two bytes are a word; it is zero if both are.
LEMMA BytesWord ==
    ASSUME NEW x \in Byte, NEW y \in Byte
    PROVE  /\ 256 * x + y \in Nat /\ 256 * x + y <= 65535
           /\ x + y # 0 => 256 * x + y # 0
BY SMT DEF Byte

\* The durations of a Pronto code.
RpTimes(buf) == [i \in 1 .. RpCount(buf) |-> ProntoWord(buf, i + ProntoHead \div 2)]

\* They are as many as there are whole words behind the head.
LEMMA RpTimesType ==
    ASSUME NEW buf \in Seq(Byte), RpParseDefined(buf)
    PROVE  /\ RpCount(buf) \in Nat /\ RpTimes(buf) \in Seq(Nat)
           /\ Len(RpTimes(buf)) = RpCount(buf)
           /\ \A i \in 1 .. RpCount(buf) :
                 ProntoWord(buf, i + ProntoHead \div 2) \in Nat
           /\ RpCount(buf) # 0 => 2 * RpCount(buf) = Len(buf) - 8
<1> DEFINE n == Len(buf)
           m == RpCount(buf)
<1>1. n \in Nat /\ m = IF n <= 8 THEN 0 ELSE (n - 8 + 1) \div 2
  BY DEF RpCount, ProntoHead
<1>2. n > 8 => n % 2 = 0
  BY DEF RpParseDefined, ProntoHead
<1> HIDE DEF m, n
<1>3. m \in Nat /\ (m # 0 => 2 * m = n - 8)
  BY <1>1, <1>2
<1>4. ASSUME NEW i \in 1 .. m PROVE ProntoWord(buf, i + ProntoHead \div 2) \in Nat
  <2>1. /\ ProntoHead \div 2 = 4 /\ i + 4 \in Nat
        /\ 2 * (i + 4) - 1 \in 1 .. n /\ 2 * (i + 4) \in 1 .. n
    BY <1>1, <1>3 DEF ProntoHead
  <2>2. buf[2 * (i + 4) - 1] \in Byte /\ buf[2 * (i + 4)] \in Byte
    BY <2>1, ElementOfSeq DEF n
  <2>3. ProntoWord(buf, i + 4) = 256 * buf[2 * (i + 4) - 1] + buf[2 * (i + 4)]
    BY DEF ProntoWord
  <2>4. ProntoWord(buf, i + 4) \in Nat
    <3> DEFINE x == buf[2 * (i + 4) - 1]
               y == buf[2 * (i + 4)]
    <3>1. x \in Byte /\ y \in Byte /\ ProntoWord(buf, i + 4) = 256 * x + y
      BY <2>2, <2>3
    <3> HIDE DEF x, y
    <3> QED BY <3>1, BytesWord, SMT
  <2> QED BY <2>1, <2>4
<1>5. RpTimes(buf) = [i \in 1 .. m |-> ProntoWord(buf, i + ProntoHead \div 2)]
  BY DEF RpTimes, m
<1>6. RpTimes(buf) \in [1 .. m -> Nat]
  BY <1>4, <1>5
<1>7. RpTimes(buf) \in Seq(Nat) /\ Len(RpTimes(buf)) = m
  BY <1>3, <1>6, FunctionSequence
<1> QED BY <1>3, <1>4, <1>7 DEF m, n

\* Of a sequence, the members with odd numbers and those with even ones.
Odds(t) == [i \in 1 .. (Len(t) + 1) \div 2 |-> t[2 * i - 1]]
Evens(t) == [i \in 1 .. Len(t) \div 2 |-> t[2 * i]]

\* They come in turn again.
LEMMA AlternateOddsEvens ==
    ASSUME NEW t \in Seq(Nat)
    PROVE  Alternate(Odds(t), Evens(t)) = t
<1> DEFINE n == Len(t)
           p == Odds(t)
           s == Evens(t)
<1>1. n \in Nat /\ \A i \in 1 .. n : t[i] \in Nat
  OBVIOUS
<1>2. p \in Seq(Nat) /\ Len(p) = (n + 1) \div 2
  <2>1. \A i \in 1 .. (n + 1) \div 2 : 2 * i - 1 \in 1 .. n
    BY <1>1
  <2>2. p = [i \in 1 .. (n + 1) \div 2 |-> t[2 * i - 1]] /\ (n + 1) \div 2 \in Nat
    BY <1>1 DEF Odds
  <2> HIDE DEF p, n
  <2>3. p \in [1 .. (n + 1) \div 2 -> Nat]
    BY <1>1, <2>1, <2>2
  <2> QED BY <2>2, <2>3, FunctionSequence, ZenonT(30)
<1>3. s \in Seq(Nat) /\ Len(s) = n \div 2
  <2>1. \A i \in 1 .. n \div 2 : 2 * i \in 1 .. n
    BY <1>1
  <2>2. s = [i \in 1 .. n \div 2 |-> t[2 * i]] /\ n \div 2 \in Nat
    BY <1>1 DEF Evens
  <2> HIDE DEF s, n
  <2>3. s \in [1 .. n \div 2 -> Nat]
    BY <1>1, <2>1, <2>2
  <2> QED BY <2>2, <2>3, FunctionSequence
<1>4. Len(p) + Len(s) = n /\ (Len(p) = Len(s) \/ Len(p) = Len(s) + 1)
  BY <1>1, <1>2, <1>3
<1>5. /\ \A i \in 1 .. (n + 1) \div 2 : p[i] = t[2 * i - 1]
      /\ \A i \in 1 .. n \div 2 : s[i] = t[2 * i]
  BY DEF Odds, Evens
<1> HIDE DEF n, p, s
<1>6. Alternate(p, s) \in Seq(Nat) /\ Len(Alternate(p, s)) = n
  BY <1>2, <1>3, <1>4, AlternateType
<1>7. ASSUME NEW i \in 1 .. n PROVE Alternate(p, s)[i] = t[i]
  <2>1. Alternate(p, s)[i] = IF i % 2 = 1 THEN p[(i + 1) \div 2] ELSE s[i \div 2]
    <3>1. i \in 1 .. Len(p) + Len(s)
      BY <1>4
    <3>2. p \in Seq(Nat) /\ s \in Seq(Nat)
      BY <1>2, <1>3
    <3>3. Len(p) = Len(s) \/ Len(p) = Len(s) + 1
      BY <1>4
    <3> QED BY <3>1, <3>2, <3>3, AlternateTurns, Zenon
  <2>2. CASE i % 2 = 1
    <3>1. (i + 1) \div 2 \in 1 .. (n + 1) \div 2 /\ 2 * ((i + 1) \div 2) - 1 = i
      BY <1>1, <2>2
    <3> QED BY <1>5, <2>1, <2>2, <3>1
  <2>3. CASE i % 2 # 1
    <3>1. i \div 2 \in 1 .. n \div 2 /\ 2 * (i \div 2) = i
      BY <1>1, <2>3
    <3> QED BY <1>5, <2>1, <2>3, <3>1
  <2> QED BY <2>2, <2>3
<1>8. t \in Seq(Nat) /\ Len(t) = n
  BY DEF n
<1>9. Alternate(p, s) = t
  <2> DEFINE u == Alternate(p, s)
  <2>1. u \in Seq(Nat) /\ Len(u) = n /\ \A i \in 1 .. n : u[i] = t[i]
    BY <1>6, <1>7
  <2> HIDE DEF u
  <2>2. u = t
    BY <1>8, <2>1, SeqEqual
  <2> QED BY <2>2 DEF u
<1> QED BY <1>9 DEF p, s

\* rp_output alternates what rp_parse told apart.
LEMMA RpParseTimes ==
    ASSUME NEW buf \in Seq(Byte), RpParseDefined(buf)
    PROVE  Alternate(RpParse(buf).pulse, RpParse(buf).space) = RpTimes(buf)
<1> DEFINE m == RpCount(buf)
           t == RpTimes(buf)
<1>1. m \in Nat /\ t \in Seq(Nat) /\ Len(t) = m
  BY RpTimesType
<1>2. t = [i \in 1 .. m |-> ProntoWord(buf, i + ProntoHead \div 2)]
  BY DEF RpTimes
<1> HIDE DEF m, t
<1>3. RpParse(buf).pulse = Odds(t)
  <2>1. RpParse(buf).pulse
           = [i \in 1 .. (m + 1) \div 2 |-> ProntoWord(buf, (2 * i - 1) + ProntoHead \div 2)]
    BY DEF RpParse, m
  <2>2. ASSUME NEW i \in 1 .. (m + 1) \div 2
        PROVE  t[2 * i - 1] = ProntoWord(buf, (2 * i - 1) + ProntoHead \div 2)
    <3>1. 2 * i - 1 \in 1 .. m
      BY <1>1
    <3> QED BY <1>2, <3>1
  <2> QED BY <1>1, <2>1, <2>2 DEF Odds
<1>4. RpParse(buf).space = Evens(t)
  <2>1. RpParse(buf).space
           = [i \in 1 .. m \div 2 |-> ProntoWord(buf, 2 * i + ProntoHead \div 2)]
    BY DEF RpParse, m
  <2>2. ASSUME NEW i \in 1 .. m \div 2
        PROVE  t[2 * i] = ProntoWord(buf, 2 * i + ProntoHead \div 2)
    <3>1. 2 * i \in 1 .. m
      BY <1>1
    <3> QED BY <1>2, <3>1
  <2> QED BY <1>1, <2>1, <2>2 DEF Evens
<1> QED BY <1>1, <1>3, <1>4, AlternateOddsEvens DEF t

\* c has a head of seven, with x1, x2, x3 and x7, and d behind it.
Headed(S, c, x1, x2, x3, x7, d) ==
    /\ c \in Seq(S) /\ Len(c) = 7 + Len(d)
    /\ c[1] = x1 /\ c[2] = x2 /\ c[3] = x3 /\ c[7] = x7
    /\ \A k \in 1 .. Len(d) : c[7 + k] = d[k]

\* A head of seven and what is put behind it.
LEMMA SevenFirst ==
    ASSUME NEW S, NEW x1 \in S, NEW x2 \in S, NEW x3 \in S, NEW x4 \in S,
           NEW x5 \in S, NEW x6 \in S, NEW x7 \in S, NEW d \in Seq(S)
    PROVE  Headed(S, <<x1, x2, x3, x4, x5, x6, x7>> \o d, x1, x2, x3, x7, d)
<1> DEFINE h == <<x1, x2, x3, x4, x5, x6, x7>>
<1>1. /\ h \in Seq(S) /\ Len(h) = 7
      /\ h[1] = x1 /\ h[2] = x2 /\ h[3] = x3 /\ h[7] = x7
  OBVIOUS
<1> HIDE DEF h
<1>2. /\ h \o d \in Seq(S) /\ Len(h \o d) = Len(h) + Len(d)
      /\ \A k \in 1 .. Len(h) + Len(d) :
            (h \o d)[k] = IF k <= Len(h) THEN h[k] ELSE d[k - Len(h)]
  BY <1>1, ConcatMembers
<1> DEFINE c == h \o d
<1> HIDE DEF c
<1>3. Len(d) \in Nat
  OBVIOUS
<1>4. /\ c \in Seq(S) /\ Len(c) = 7 + Len(d)
      /\ \A k \in 1 .. 7 + Len(d) : c[k] = IF k <= 7 THEN h[k] ELSE d[k - 7]
  BY <1>1, <1>2 DEF c
<1>5. c[1] = x1 /\ c[2] = x2 /\ c[3] = x3 /\ c[7] = x7
  BY <1>1, <1>3, <1>4
<1>6. ASSUME NEW k \in 1 .. Len(d) PROVE c[7 + k] = d[k]
  <2>1. 7 + k \in 1 .. 7 + Len(d) /\ ~(7 + k <= 7) /\ (7 + k) - 7 = k
    BY <1>3
  <2> QED BY <1>4, <2>1
<1> QED BY <1>4, <1>5, <1>6 DEF c, h, Headed

\* The frequency a word says, and the byte a frequency is said with.
RpFrequency(w) == 4145146 \div w
UnitByte(freq) == (2500000 \div freq) % 256

\* A frequency that comes of a word is none that divides by zero.
LEMMA HeadBytes ==
    ASSUME NEW w \in Nat \ {0}, w <= 65535
    PROVE  UnitByte(RpFrequency(w)) \in Byte
<1> DEFINE k == 4145146
           l == 2500000
           f == k \div w
<1>1. k \in Nat /\ k > 65535 /\ l \in Nat
  BY SMT
<1>6. RpFrequency(w) = f /\ UnitByte(f) = (l \div f) % 256
  BY SMT DEF RpFrequency, UnitByte
<1> HIDE DEF k, l
<1>2. f \in Nat /\ (f = 0 => k < w)
  BY <1>1
<1>3. f \in Nat \ {0}
  BY <1>1, <1>2
<1> HIDE DEF f
<1>4. l \div f \in Nat
  BY <1>1, <1>3
<1>5. (l \div f) % 256 \in Byte
  BY <1>4 DEF Byte
<1> QED BY <1>5, <1>6

\* A number cut to eight bits is a byte.
LEMMA CutToByte ==
    ASSUME NEW x \in Nat
    PROVE  x % 256 \in Byte
BY DEF Byte

\* The command that a Pronto code is made: a head with two lengths, and the
\* bytes of the durations.
LEMMA RpOutputBytes ==
    ASSUME NEW buf \in Seq(Byte), RpParseDefined(buf)
    PROVE  LET c == RpOutput(RpParse(buf))
               t == RpTimes(buf)
               n == Len(t) + NofLong(t, Len(t))
           IN  /\ c \in Seq(Byte) /\ Len(c) = 7 + n
               /\ c[1] = 54 /\ c[2] = (6 + n) % 256 /\ c[7] = n % 256
               /\ c[3] = UnitByte(RpFrequency(ProntoWord(buf, 2)))
               /\ \A k \in 1 .. Len(DataBytes(t)) : c[7 + k] = DataBytes(t)[k]
               /\ Len(DataBytes(t)) = n /\ n \in Nat
<1> DEFINE c == RpOutput(RpParse(buf))
           t == RpTimes(buf)
           d == DataBytes(t)
           l == NofLong(t, Len(t))
           w == ProntoWord(buf, 2)
           x == UnitByte(RpFrequency(w))
<1>1. t \in Seq(Nat) /\ Len(t) \in Nat
  BY RpTimesType
<1>2. d \in Seq(Byte) /\ Len(d) = Len(t) + l /\ l \in Nat
  <2> HIDE DEF t
  <2>1. l \in Nat
    BY <1>1, NofLongStep
  <2> QED BY <1>1, <2>1, DataBytesAt
<1>3. w \in Nat /\ w # 0 /\ w <= 65535
  <2> DEFINE a == buf[3]
             b == buf[4]
  <2>1. a \in Byte /\ b \in Byte
    BY DEF RpParseDefined
  <2>2. w = 256 * a + b
    BY DEF ProntoWord
  <2>3. w # 0
    BY DEF RpParseDefined
  <2> HIDE DEF a, b, w
  <2> QED BY <2>1, <2>2, <2>3, BytesWord, SMT
<1>4. x \in Byte
  <2> HIDE DEF w
  <2>1. w \in Nat \ {0}
    BY <1>3
  <2> QED BY <1>3, <2>1, HeadBytes, SMT
<1>5. c = <<54, (6 + Len(t) + l) % 256, x, 1, (0 \div 256) % 256, 0 % 256,
            (Len(t) + l) % 256>> \o d
  <2> DEFINE times == Alternate(RpParse(buf).pulse, RpParse(buf).space)
             fudge == Cardinality({i \in DOMAIN times : IsLong(times[i])})
  <2>1. times = t
    BY RpParseTimes
  <2>2. c = <<54, (6 + Len(times) + fudge) % 256, UnitByte(RpParse(buf).freq),
              RpParse(buf).repeat_count, (RpParse(buf).interspace \div 256) % 256,
              RpParse(buf).interspace % 256, (Len(times) + fudge) % 256>> \o DataBytes(times)
    BY SMT DEF RpOutput, UnitByte
  <2>3. /\ RpParse(buf).freq = RpFrequency(w)
        /\ RpParse(buf).repeat_count = 1 /\ RpParse(buf).interspace = 0
    BY SMT DEF RpParse, RpFrequency
  <2> HIDE DEF t
  <2>4. fudge = l
    <3>1. DOMAIN t = 1 .. Len(t)
      BY <1>1
    <3> QED BY <2>1, <3>1 DEF NofLong, LongOnes
  <2> HIDE DEF times, fudge, c, l, w
  <2>5. c = <<54, (6 + Len(t) + l) % 256, UnitByte(RpParse(buf).freq),
              RpParse(buf).repeat_count, (RpParse(buf).interspace \div 256) % 256,
              RpParse(buf).interspace % 256, (Len(t) + l) % 256>> \o DataBytes(t)
    BY <2>1, <2>2, <2>4, Zenon
  <2> DEFINE f == RpParse(buf).freq
             r == RpParse(buf).repeat_count
             i == RpParse(buf).interspace
  <2>6. c = <<54, (6 + Len(t) + l) % 256, UnitByte(f), r, (i \div 256) % 256, i % 256,
              (Len(t) + l) % 256>> \o d
    BY <2>5
  <2>7. UnitByte(f) = x /\ r = 1 /\ i = 0
    BY <2>3
  <2> HIDE DEF f, r, i, x, d
  <2> QED BY <2>6, <2>7, Zenon
<1> HIDE DEF c, t, d, l, w, x
<1> DEFINE x2 == (6 + Len(t) + l) % 256
           x7 == (Len(t) + l) % 256
           x5 == (0 \div 256) % 256
           x6 == 0 % 256
<1>6. x2 \in Byte /\ x7 \in Byte /\ x5 \in Byte /\ x6 \in Byte
  <2>1. 6 + Len(t) + l \in Nat /\ Len(t) + l \in Nat
    BY <1>1, <1>2
  <2>2. 0 \div 256 \in Nat /\ 0 \in Nat
    BY SMT
  <2>3. x2 \in Byte /\ x7 \in Byte
    BY <2>1, CutToByte
  <2>4. x5 \in Byte /\ x6 \in Byte
    BY <2>2, CutToByte
  <2> QED BY <2>3, <2>4
<1>7. 54 \in Byte /\ 1 \in Byte
  BY DEF Byte
<1>8. c = <<54, x2, x, 1, x5, x6, x7>> \o d
  BY <1>5
<1> HIDE DEF x2, x5, x6, x7
<1>9. /\ c \in Seq(Byte) /\ Len(c) = 7 + Len(d)
      /\ c[1] = 54 /\ c[2] = x2 /\ c[3] = x /\ c[7] = x7
      /\ \A k \in 1 .. Len(d) : c[7 + k] = d[k]
  <2> DEFINE y1 == 54
             y4 == 1
  <2>1. y1 \in Byte /\ y4 \in Byte /\ c = <<y1, x2, x, y4, x5, x6, x7>> \o d
    BY <1>7, <1>8
  <2> HIDE DEF y1, y4
  <2>2. Headed(Byte, <<y1, x2, x, y4, x5, x6, x7>> \o d, y1, x2, x, x7, d)
    BY <1>2, <1>4, <1>6, <2>1, SevenFirst
  <2>3. Headed(Byte, c, y1, x2, x, x7, d)
    BY <2>1, <2>2, Zenon
  <2> QED BY <2>3 DEF y1, Headed
<1>10. 6 + (Len(t) + l) = 6 + Len(t) + l /\ Len(t) + l \in Nat
  BY <1>1, <1>2
<1> QED BY <1>2, <1>9, <1>10 DEF c, t, d, l, x2, x7, x, w

-----------------------------------------------------------------------------
(* Types, and what is sent *)

\* A learned code has the type CodecAssumption gives it.
LEMMA CodeType ==
    ASSUME NEW c \in Codes
    PROVE  /\ c.freq \in Nat \ {0} /\ c.pulse \in Seq(Nat) /\ c.space \in Seq(Nat)
BY CodecAssumption

\* A frequency word has a high byte of zero.
LEMMA FrequencyWordByte ==
    ASSUME NEW freq \in Nat \ {0}
    PROVE  /\ FrequencyWord(freq) \in Byte
           /\ FrequencyWord(freq) \div 256 = 0
           /\ FrequencyWord(freq) % 256 = FrequencyWord(freq)
<1> DEFINE k == 4145146
           w == FrequencyWord(freq)
<1>1. k \in Nat /\ w = (k \div freq) % 256
  BY SMT DEF FrequencyWord
<1> HIDE DEF k, w
<1>2. k \div freq \in Nat
  BY <1>1
<1>3. w \in Byte
  BY <1>1, <1>2, CutToByte
<1>4. w \div 256 = 0 /\ w % 256 = w
  BY <1>3 DEF Byte
<1> QED BY <1>3, <1>4 DEF w

\* The bytes of a learned code: two of each of its five words and durations;
\* the first is zero, the third and fourth are the frequency word.
LEMMA OutputProntoBytes ==
    ASSUME NEW c \in Codes
    PROVE  LET b == OutputPronto(c)
           IN  /\ b \in Seq(Byte) /\ Len(b) = 2 * (5 + Len(c.pulse) + Len(c.space))
               /\ b[1] = 0 /\ b[3] = 0 /\ b[4] = FrequencyWord(c.freq)
<1> DEFINE scale == IF c.unit = RawUnit THEN 78000 ELSE 560
           words == ProntoWords(scale, c.freq, c.pulse, c.space)
           b == WordBytes(words)
<1>1. /\ c.freq \in Nat \ {0} /\ c.pulse \in Seq(Nat) /\ c.space \in Seq(Nat)
      /\ Len(c.pulse) \in Nat /\ Len(c.space) \in Nat
  BY CodeType
<1>2. scale \in Nat
  BY SMT
<1>3. OutputPronto(c) = b
  BY SMT DEF OutputPronto
<1> HIDE DEF scale
<1> DEFINE f == c.freq
           p == c.pulse
           s == c.space
           n == 5 + Len(p) + Len(s)
<1>4. f \in Nat \ {0} /\ p \in Seq(Nat) /\ s \in Seq(Nat) /\ n \in Nat /\ n >= 5
  <2>1. f \in Nat \ {0} /\ p \in Seq(Nat) /\ s \in Seq(Nat)
    BY <1>1
  <2>2. Len(p) \in Nat /\ Len(s) \in Nat
    BY <1>1
  <2> HIDE DEF f, p, s
  <2>3. n \in Nat /\ n >= 5
    BY <2>2
  <2> QED BY <2>1, <2>3
<1>41. words = ProntoWords(scale, f, p, s)
  OBVIOUS
<1> HIDE DEF words, f, p, s
<1>42. /\ words \in Seq(Word) /\ Len(words) = n
      /\ words[1] = 0 /\ words[2] = FrequencyWord(f)
  <2> DEFINE q == ProntoWords(scale, f, p, s)
  <2>1. q \in Seq(Word) /\ Len(q) = 5 + Len(p) + Len(s) /\ q[1] = 0 /\ q[2] = FrequencyWord(f)
    BY <1>2, <1>4, ProntoWordsSize, ZenonT(60)
  <2> HIDE DEF q
  <2> QED BY <1>41, <2>1 DEF q
<1> HIDE DEF n
<1>5. /\ b \in Seq(Byte) /\ Len(b) = 2 * n
      /\ \A i \in 1 .. n : /\ b[2 * i - 1] = words[i] \div 256
                           /\ b[2 * i] = words[i] % 256
  BY <1>42, WordBytesType, ZenonT(30)
<1> HIDE DEF b
<1>6. 1 \in 1 .. n /\ 2 \in 1 .. n
  BY <1>4
<1>7. b[1] = words[1] \div 256 /\ b[3] = words[2] \div 256 /\ b[4] = words[2] % 256
  <2>1. 2 * 1 - 1 = 1 /\ 2 * 2 - 1 = 3 /\ 2 * 2 = 4
    OBVIOUS
  <2> QED BY <1>5, <1>6, <2>1
<1>8. b[1] = 0
  BY <1>42, <1>7
<1>9. b[3] = 0 /\ b[4] = FrequencyWord(f)
  BY <1>4, <1>42, <1>7, FrequencyWordByte
<1> QED BY <1>3, <1>5, <1>8, <1>9 DEF n, f, p, s

\* A byte and what completes it add up to zero.
LEMMA Completed ==
    ASSUME NEW b \in Byte
    PROVE  (256 - b) % 256 \in Byte /\ (b + ((256 - b) % 256)) % 256 = 0
BY SMT DEF Byte

\* A checksum makes bytes of bytes: but for a full buffer one more, and then
\* their sum is zero.
LEMMA UsmChecksumBytes ==
    ASSUME NEW buf \in Seq(Byte)
    PROVE  /\ UsmChecksum(buf) \in Seq(Byte)
           /\ Len(buf) # OUT_MAX => /\ Len(UsmChecksum(buf)) = Len(buf) + 1
                                    /\ Front(UsmChecksum(buf)) = buf
                                    /\ ByteSum(UsmChecksum(buf)) = 0
<1> DEFINE x == (256 - ByteSum(buf)) % 256
<1>1. ByteSum(buf) \in Byte
  <2>1. 0 \in Byte
    BY DEF Byte
  <2> QED BY <2>1, ByteSumAppend
<1>2. x \in Byte /\ (ByteSum(buf) + x) % 256 = 0
  BY <1>1, Completed
<1>3. UsmChecksum(buf) = IF Len(buf) = OUT_MAX THEN buf ELSE Append(buf, x)
  BY DEF UsmChecksum
<1> HIDE DEF x
<1>4. Append(buf, x) \in Seq(Byte) /\ Len(Append(buf, x)) = Len(buf) + 1
  BY <1>2
<1>5. ByteSum(Append(buf, x)) = 0
  BY <1>2, ByteSumAppend
<1>6. Front(Append(buf, x)) = buf
  <2> DEFINE t == Append(buf, x)
             u == SubSeq(t, 1, Len(t) - 1)
  <2>1. /\ u \in Seq(Byte) /\ Len(u) = Len(buf)
        /\ \A k \in 1 .. Len(buf) : u[k] = buf[k]
    BY <1>2
  <2>2. Front(t) = u
    BY DEF Front
  <2> HIDE DEF u, t
  <2>3. u = buf
    BY <2>1, SeqEqual
  <2> QED BY <2>2, <2>3 DEF t
<1> QED BY <1>3, <1>4, <1>5, <1>6

\* What is sent is bytes, and with a Pronto code the command UIRT_CMD_TX_RAW.
LEMMA CommandBytes ==
    ASSUME NEW buf \in Seq(Byte), UsmProcessUserDefined(buf)
    PROVE  /\ Command(buf) \in Seq(Byte)
           /\ IsPronto(buf) => Command(buf)[1] = 54 /\ Len(Command(buf)) \in Nat
<1>1. CASE IsPronto(buf)
  <2>1. RpParseDefined(buf) /\ Command(buf) = RpOutput(RpParse(buf))
    BY <1>1 DEF UsmProcessUserDefined, Command
  <2>2. RpOutput(RpParse(buf)) \in Seq(Byte) /\ RpOutput(RpParse(buf))[1] = 54
    BY <2>1, RpOutputBytes
  <2> QED BY <1>1, <2>1, <2>2
<1>2. CASE ~IsPronto(buf)
  BY <1>2 DEF Command
<1> QED BY <1>1, <1>2

\* Every variable has its type, what is shown are the digits of the line, and
\* what is sent is the command with its checksum.
SentInv ==
    /\ TypeOK
    /\ at = "shown" => word = Printed(UBuf2Hex(line))
    /\ at = "sent" /\ interp =>
          UsmProcessUserDefined(raw) /\ sent = UsmChecksum(Command(raw))

\* SentInv is an invariant: each action writes what the conversions return.
LEMMA SentInvariant == Spec => []SentInv
<1>1. Init => SentInv
  <2> SUFFICES ASSUME Init PROVE SentInv
    OBVIOUS
  <2>1. <<>> \in Seq(Byte) /\ <<>> \in Seq(Characters \cup {Space})
    OBVIOUS
  <2> QED BY <2>1 DEF Init, SentInv, TypeOK
<1>2. SentInv /\ [Next]_vars => SentInv'
  <2> SUFFICES ASSUME SentInv, [Next]_vars PROVE SentInv'
    OBVIOUS
  <2>1. TypeOK
    BY DEF SentInv
  <2>2. CASE RibsuCallback
    <3>1. PICK c \in Codes : code' = c /\ line' = OutputPronto(c)
      BY <2>2 DEF RibsuCallback
    <3>2. line' \in Seq(Byte)
      BY <3>1, OutputProntoBytes
    <3>3. at' \in {"line", "undefined"} /\ UNCHANGED <<word, raw, sent, interp>>
      BY <2>2 DEF RibsuCallback, Reach
    <3> QED BY <2>1, <3>1, <3>2, <3>3 DEF SentInv, TypeOK
  <2>3. CASE RibsuReadCallback
    <3>1. word' = Printed(UBuf2Hex(line))
      BY <2>3 DEF RibsuReadCallback
    <3>2. word' \in Seq(Characters \cup {Space})
      BY <2>1, <3>1, UBuf2HexType, PrintedType DEF TypeOK
    <3>3. at' \in {"shown", "undefined"} /\ UNCHANGED <<code, line, raw, sent, interp>>
      BY <2>3 DEF RibsuReadCallback, Reach
    <3> QED BY <2>1, <3>1, <3>2, <3>3 DEF SentInv, TypeOK
  <2>4. CASE PasteLine \/ TypeBack \/ TypeWord
    <3>1. at' = "word" /\ UNCHANGED <<code, line, raw, sent, interp>>
      BY <2>4 DEF PasteLine, TypeBack, TypeWord
    <3>2. word' \in Seq(Characters)
      <4>1. UBuf2Hex(line) \in Seq(Characters)
        BY <2>1, UBuf2HexType DEF TypeOK
      <4>2. CASE PasteLine
        BY <4>1, <4>2, PrintedGroup DEF PasteLine, SentInv
      <4>3. CASE TypeBack
        BY <4>1, <4>3, UnspacedPrinted DEF TypeBack, SentInv
      <4>4. CASE TypeWord
        BY <4>4, CodecAssumption DEF TypeWord
      <4> QED BY <2>4, <4>2, <4>3, <4>4
    <3>3. word' \in Seq(Characters \cup {Space})
      BY <3>2
    <3> QED BY <2>1, <3>1, <3>2, <3>3 DEF SentInv, TypeOK
  <2>5. CASE StdinReadCallback
    <3>1. UNCHANGED <<word, code, line, sent, interp>>
      BY <2>5 DEF StdinReadCallback
    <3>2. at = "word" /\ at' \in {"start", "raw", "undefined"}
      BY <2>5 DEF StdinReadCallback, Reach
    <3>3. raw' \in Seq(Byte)
      <4>1. raw \in Seq(Byte) /\ UHex2Buf(word) \in Seq(Byte)
        BY <2>1, <3>2, UHex2BufType DEF TypeOK
      <4>2. raw' = raw \/ raw' = UHex2Buf(word)
        BY <2>5 DEF StdinReadCallback
      <4> QED BY <4>1, <4>2
    <3> QED BY <2>1, <3>1, <3>2, <3>3 DEF SentInv, TypeOK
  <2>6. CASE RibsuWrite
    <3>1. /\ UNCHANGED <<code, line, word, raw, interp>>
          /\ at' = IF interp /\ ~UsmProcessUserDefined(raw) THEN "undefined" ELSE "sent"
          /\ sent' = CASE at' = "undefined" -> sent
                       [] at' = "sent" /\ interp -> UsmChecksum(Command(raw))
                       [] at' = "sent" /\ ~interp -> raw
      BY <2>6 DEF RibsuWrite, Reach
    <3>2. raw \in Seq(Byte) /\ sent \in Seq(Byte) /\ interp \in BOOLEAN
      BY <2>1 DEF TypeOK
    <3>3. CASE interp /\ ~UsmProcessUserDefined(raw)
      <4>1. at' = "undefined" /\ sent' = sent
        BY <3>1, <3>3
      <4> QED BY <2>1, <3>1, <4>1 DEF SentInv, TypeOK
    <3>4. CASE interp /\ UsmProcessUserDefined(raw)
      <4>1. at' = "sent" /\ sent' = UsmChecksum(Command(raw))
        BY <3>1, <3>4
      <4>2. sent' \in Seq(Byte)
        BY <3>2, <3>4, <4>1, CommandBytes, UsmChecksumBytes
      <4>3. UsmProcessUserDefined(raw)' /\ UsmChecksum(Command(raw))' = UsmChecksum(Command(raw))
        BY <3>1, <3>4 DEF UsmProcessUserDefined, Command, UsmChecksum, IsPronto
      <4>4. TypeOK'
        BY <2>1, <3>1, <4>1, <4>2 DEF TypeOK
      <4> QED BY <4>1, <4>3, <4>4 DEF SentInv
    <3>5. CASE ~interp
      <4>1. at' = "sent" /\ sent' = raw /\ ~interp'
        BY <3>1, <3>5
      <4> QED BY <2>1, <3>1, <3>2, <4>1 DEF SentInv, TypeOK
    <3> QED BY <3>3, <3>4, <3>5
  <2>7. CASE Ended \/ UNCHANGED vars
    <3>1. UNCHANGED <<at, code, line, word, raw, sent, interp>>
      BY <2>7 DEF Ended, vars
    <3>2. TypeOK'
      BY <2>1, <3>1 DEF TypeOK
    <3>3. CASE at = "sent" /\ interp
      <4>1. UsmProcessUserDefined(raw) /\ sent = UsmChecksum(Command(raw))
        BY <3>3 DEF SentInv
      <4>2. UsmProcessUserDefined(raw)' /\ UsmChecksum(Command(raw))' = UsmChecksum(Command(raw))
        BY <3>1, <4>1, SMT DEF UsmProcessUserDefined, Command, UsmChecksum, IsPronto
      <4> QED BY <3>1, <3>2, <4>1, <4>2 DEF SentInv
    <3>4. CASE ~(at = "sent" /\ interp)
      <4>1. at = "shown" => word = Printed(UBuf2Hex(line))
        BY DEF SentInv
      <4> QED BY <3>1, <3>2, <3>4, <4>1 DEF SentInv
    <3> QED BY <3>3, <3>4
  <2> QED BY <2>2, <2>3, <2>4, <2>5, <2>6, <2>7 DEF Next
<1> QED BY <1>1, <1>2, PTL DEF Spec

\* Every variable has its type whatever was learned and typed: what is
\* called a byte is one (the casts and masks of rr_output_pronto, u_buf2hex,
\* u_hex2buf, rp_output and usm_checksum).
THEOREM CodecTypesHold == Spec => []TypeOK
<1>1. SentInv => TypeOK
  BY DEF SentInv
<1> QED BY <1>1, SentInvariant, PTL

\* Every command that is not a full buffer adds up to zero with its checksum,
\* which is the last byte of it (usm_checksum).
THEOREM CheckedHolds == Spec => []Checked
<1>1. SentInv => Checked
  <2> SUFFICES ASSUME SentInv, at = "sent", interp, Len(Command(raw)) < OUT_MAX
               PROVE  Front(sent) = Command(raw) /\ ByteSum(sent) = 0
    BY DEF Checked
  <2>1. /\ UsmProcessUserDefined(raw) /\ sent = UsmChecksum(Command(raw))
        /\ raw \in Seq(Byte)
    BY DEF SentInv, TypeOK
  <2>2. Command(raw) \in Seq(Byte)
    BY <2>1, CommandBytes
  <2>3. Len(Command(raw)) # OUT_MAX
    <3>1. Len(Command(raw)) \in Nat /\ OUT_MAX \in Nat
      BY <2>2, CodecAssumption
    <3> QED BY <3>1
  <2> QED BY <2>1, <2>2, <2>3, UsmChecksumBytes
<1> QED BY <1>1, SentInvariant, PTL

\* The command a Pronto code was made can be typed in its place (ribsu.rtf:38):
\* u_hex2buf undoes u_buf2hex, and usm_process_user copies what is no Pronto
\* code.
THEOREM PastedAgainHolds == Spec => []PastedAgain
<1>1. SentInv => PastedAgain
  <2> SUFFICES ASSUME SentInv, Transmitted
               PROVE  UsmChecksum(Command(UHex2Buf(UBuf2Hex(Command(raw))))) = sent
    BY DEF PastedAgain
  <2>1. /\ UsmProcessUserDefined(raw) /\ sent = UsmChecksum(Command(raw))
        /\ raw \in Seq(Byte) /\ IsPronto(raw)
    BY DEF SentInv, TypeOK, Transmitted
  <2>2. Command(raw) \in Seq(Byte) /\ Command(raw)[1] = 54
    BY <2>1, CommandBytes
  <2>3. UHex2Buf(UBuf2Hex(Command(raw))) = Command(raw)
    BY <2>2, TypedBack
  <2>4. Command(Command(raw)) = Command(raw)
    <3> DEFINE c == Command(raw)
    <3>1. c[1] # 0
      BY <2>2
    <3> HIDE DEF c
    <3>2. Command(c) = c
      BY <3>1 DEF Command, IsPronto
    <3> QED BY <3>2 DEF c
  <2> QED BY <2>1, <2>3, <2>4
<1> QED BY <1>1, SentInvariant, PTL

-----------------------------------------------------------------------------
(* What the device reads *)

\* There are no more long ones among fewer.
LEMMA NofLongGrows ==
    ASSUME NEW times, NEW m \in Nat, NEW k \in 0 .. m
    PROVE  NofLong(times, k) \in Nat /\ NofLong(times, m) \in Nat
           /\ NofLong(times, k) <= NofLong(times, m)
<1>1. LongOnes(times, k) \subseteq LongOnes(times, m)
  BY DEF LongOnes
<1>2. IsFiniteSet(LongOnes(times, m))
  <2>1. IsFiniteSet(1 .. m)
    BY FS_Interval
  <2>2. LongOnes(times, m) \subseteq 1 .. m
    BY DEF LongOnes
  <2> QED BY <2>1, <2>2, FS_Subset
<1>3. k \in Nat
  OBVIOUS
<1>4. NofLong(times, k) \in Nat /\ NofLong(times, m) \in Nat
  BY <1>3, NofLongStep
<1>5. Cardinality(LongOnes(times, k)) <= Cardinality(LongOnes(times, m))
  BY <1>1, <1>2, FS_Subset
<1> QED BY <1>4, <1>5 DEF NofLong

\* A duration and where it starts, of a buffer.
LEMMA StartAt ==
    ASSUME NEW t, t = RpTimes(raw), RpCount(raw) \in Nat
    PROVE  /\ \A n \in 1 .. RpCount(raw) : Duration(n) = t[n]
           /\ \A n \in 1 .. RpCount(raw) + 1 : Start(n) = 7 + n + NofLong(t, n - 1)
<1>1. \A n \in 1 .. RpCount(raw) : Duration(n) = t[n]
  BY DEF RpTimes, Duration
<1>2. ASSUME NEW n \in 1 .. RpCount(raw) + 1
      PROVE  Start(n) = 7 + n + NofLong(t, n - 1)
  <2>1. {i \in 1 .. n - 1 : IsLong(Duration(i))} = LongOnes(t, n - 1)
    <3>1. \A i \in 1 .. n - 1 : Duration(i) = t[i]
      BY <1>1
    <3> QED BY <3>1, Zenon DEF LongOnes
  <2> QED BY <2>1, Zenon DEF Start, NofLong
<1> QED BY <1>1, <1>2

\* The bytes of one duration in the data.
LEMMA DataOfOne ==
    ASSUME NEW t \in Seq(Nat), NEW n \in 1 .. Len(t)
    PROVE  LET d == DataBytes(t)
               q == n + NofLong(t, n - 1)
           IN  /\ q \in 1 .. Len(d)
               /\ IsLong(t[n]) => /\ q + 1 \in 1 .. Len(d)
                                  /\ d[q] = 128 + ((t[n] \div 256) % 128)
                                  /\ d[q + 1] = t[n] % 256
               /\ ~IsLong(t[n]) => d[q] = t[n]
               /\ NofLong(t, n) = NofLong(t, n - 1) + IF IsLong(t[n]) THEN 1 ELSE 0
               /\ NofLong(t, n - 1) \in Nat
<1> DEFINE d == DataBytes(t)
           m == Len(t)
           l(k) == NofLong(t, k)
           b == DurationBytes(t[n])
           x == 128 + ((t[n] \div 256) % 128)
           y == t[n] % 256
<1>1. m \in Nat /\ n \in Nat /\ n - 1 \in Nat /\ (n - 1) + 1 = n /\ n \in 0 .. m
  OBVIOUS
<1>2. /\ l(n - 1) \in Nat /\ l(n) \in Nat /\ l(m) \in Nat
      /\ l(n) = l(n - 1) + IF IsLong(t[n]) THEN 1 ELSE 0
      /\ l(n) <= l(m)
  BY <1>1, NofLongStep, NofLongGrows
<1>3. /\ Len(d) = m + l(m)
      /\ \A i \in 1 .. Len(b) : d[((n - 1) + l(n - 1)) + i] = b[i]
  BY DataBytesAt
<1>4. b = IF IsLong(t[n]) THEN <<x, y>> ELSE <<t[n]>>
  BY DEF DurationBytes
<1> HIDE DEF d, l, b, x, y, m
<1>5. CASE IsLong(t[n])
  <2>1. b = <<x, y>>
    BY <1>4, <1>5
  <2>2. Len(b) = 2 /\ b[1] = x /\ b[2] = y
    BY <2>1
  <2>3. /\ d[((n - 1) + l(n - 1)) + 1] = x /\ d[((n - 1) + l(n - 1)) + 2] = y
    BY <1>3, <2>2
  <2>4. /\ ((n - 1) + l(n - 1)) + 1 = n + l(n - 1)
        /\ ((n - 1) + l(n - 1)) + 2 = (n + l(n - 1)) + 1
    BY <1>1, <1>2
  <2>5. /\ n + l(n - 1) \in 1 .. Len(d) /\ (n + l(n - 1)) + 1 \in 1 .. Len(d)
    BY <1>1, <1>2, <1>3, <1>5, SMTT(30)
  <2>6. d[n + l(n - 1)] = x /\ d[(n + l(n - 1)) + 1] = y
    BY <2>3, <2>4
  <2> QED BY <1>2, <1>5, <2>5, <2>6 DEF d, l, x, y
<1>6. CASE ~IsLong(t[n])
  <2>1. b = <<t[n]>>
    BY <1>4, <1>6
  <2>2. Len(b) = 1 /\ b[1] = t[n]
    BY <2>1
  <2>3. d[((n - 1) + l(n - 1)) + 1] = t[n]
    BY <1>3, <2>2
  <2>4. ((n - 1) + l(n - 1)) + 1 = n + l(n - 1)
    BY <1>1, <1>2
  <2>5. n + l(n - 1) \in 1 .. Len(d)
    BY <1>1, <1>2, <1>3, <1>6
  <2>6. d[n + l(n - 1)] = t[n]
    BY <2>3, <2>4
  <2> QED BY <1>2, <1>6, <2>5, <2>6 DEF d, l
<1> QED BY <1>5, <1>6

\* What is read of two bytes, and of one.
LEMMA ReadLong ==
    ASSUME NEW k, NEW x, NEW y, NEW v, NEW z, sent[k] = x, sent[k + 1] = y, IsLong(x),
           256 * (x - 128) + y = v, z = k + 2
    PROVE  ReadAt(k) = [time |-> v, next |-> z]
<1>1. ReadAt(k) = [time |-> 256 * (sent[k] - 128) + sent[k + 1], next |-> k + 2]
  BY DEF ReadAt
<1> QED BY <1>1

\* Of one that is not long.
LEMMA ReadShort ==
    ASSUME NEW k, NEW v, NEW z, sent[k] = v, ~IsLong(v), z = k + 1
    PROVE  ReadAt(k) = [time |-> v, next |-> z]
<1>1. ReadAt(k) = [time |-> sent[k], next |-> k + 1]
  BY DEF ReadAt
<1> QED BY <1>1

\* Lengths that one byte can say.
LEMMA SmallLength ==
    ASSUME NEW n \in Nat, n <= 249
    PROVE  (6 + n) % 256 = 6 + n /\ n % 256 = n
OBVIOUS

\* A transmission made of a Pronto code says truly how long it is, and read
\* one after the other its durations are those of the code, up to the
\* checksum (rp_output, uirt-pronto.c:135).  OUT_MAX is 512.
THEOREM CommandTrueHolds ==
    ASSUME OUT_MAX > 257
    PROVE  Spec => []CommandTrue
<1>1. SentInv => CommandTrue
  <2> SUFFICES ASSUME SentInv, Transmitted, Fits
               PROVE  /\ sent[2] = Len(sent) - 2 /\ sent[7] = Len(sent) - 8
                      /\ Start(1) = 8 /\ Start(RpCount(raw) + 1) = Len(sent)
                      /\ \A n \in 1 .. RpCount(raw) :
                            ReadAt(Start(n)) = [time |-> Duration(n) % 32768,
                                                next |-> Start(n + 1)]
    BY DEF CommandTrue
  <2> DEFINE t == RpTimes(raw)
             m == Len(t)
             l(k) == NofLong(t, k)
             d == DataBytes(t)
             c == Command(raw)
             n0 == m + l(m)
  <2>1. /\ UsmProcessUserDefined(raw) /\ sent = UsmChecksum(c)
        /\ raw \in Seq(Byte) /\ IsPronto(raw) /\ RpParseDefined(raw)
        /\ c = RpOutput(RpParse(raw))
    BY DEF SentInv, TypeOK, Transmitted, UsmProcessUserDefined, Command
  <2>2. /\ t \in Seq(Nat) /\ m = RpCount(raw) /\ m \in Nat
    BY <2>1, RpTimesType
  <2>3. /\ c \in Seq(Byte) /\ Len(c) = 7 + n0 /\ n0 \in Nat
        /\ c[2] = (6 + n0) % 256 /\ c[7] = n0 % 256
        /\ Len(d) = n0
        /\ \A k \in 1 .. Len(d) : c[7 + k] = d[k]
    BY <2>1, RpOutputBytes, SMTT(30)
  <2>4. /\ \A n \in 1 .. m : Duration(n) = t[n]
        /\ \A n \in 1 .. m + 1 : Start(n) = 7 + n + l(n - 1)
    <3> HIDE DEF t
    <3>1. t = RpTimes(raw) /\ RpCount(raw) \in Nat
      BY <2>2 DEF t
    <3> QED BY <2>2, <3>1, StartAt
  <2> HIDE DEF t, d, c, l, n0
  <2>5. Len(sent) = 8 + n0 /\ \A k \in 1 .. 7 + n0 : sent[k] = c[k]
    <3>1. Len(sent) <= 257
      BY DEF Fits
    <3>2. PICK x : sent = IF Len(c) = OUT_MAX THEN c ELSE Append(c, x)
      BY <2>1 DEF UsmChecksum
    <3>3. Len(c) # OUT_MAX
      <4>1. CASE Len(c) = OUT_MAX
        <5>1. sent = c
          BY <3>2, <4>1
        <5>2. OUT_MAX \in Nat
          BY CodecAssumption
        <5> QED BY <3>1, <4>1, <5>1, <5>2
      <4> QED BY <4>1
    <3>4. sent = Append(c, x)
      BY <3>2, <3>3
    <3> QED BY <2>3, <3>4
  <2>6. n0 <= 249 /\ sent[2] = 6 + n0 /\ sent[7] = n0
    <3>1. n0 <= 249
      BY <2>3, <2>5 DEF Fits
    <3>2. (6 + n0) % 256 = 6 + n0 /\ n0 % 256 = n0
      BY <2>3, <3>1, SmallLength
    <3>3. 2 \in 1 .. 7 + n0 /\ 7 \in 1 .. 7 + n0
      BY <2>3
    <3> QED BY <2>3, <2>5, <3>1, <3>2, <3>3
  <2>7. Start(1) = 8
    <3>1. l(0) = 0
      BY NofLongStep DEF l
    <3>2. 1 \in 1 .. m + 1 /\ 1 - 1 = 0
      BY <2>2
    <3>3. Start(1) = 7 + 1 + l(0)
      BY <2>4, <3>2
    <3> QED BY <3>1, <3>3
  <2>8. Start(m + 1) = Len(sent)
    <3>1. m + 1 \in 1 .. m + 1 /\ (m + 1) - 1 = m
      BY <2>2
    <3>2. Start(m + 1) = 7 + (m + 1) + l(m)
      BY <2>4, <3>1
    <3>3. l(m) \in Nat
      BY <2>2, NofLongStep DEF l
    <3> QED BY <2>2, <2>5, <3>2, <3>3 DEF n0
  <2>9. ASSUME NEW n \in 1 .. m
        PROVE  ReadAt(Start(n)) = [time |-> Duration(n) % 32768, next |-> Start(n + 1)]
    <3> DEFINE q == n + l(n - 1)
               s == t[n]
    <3>1. /\ n \in 1 .. m + 1 /\ n + 1 \in 1 .. m + 1 /\ (n + 1) - 1 = n /\ n \in Nat
      BY <2>2
    <3>2. /\ Start(n) = 7 + n + l(n - 1) /\ Start(n + 1) = 7 + (n + 1) + l(n)
          /\ Duration(n) = s
      BY <2>4, <3>1
    <3>3. /\ q \in 1 .. Len(d) /\ l(n - 1) \in Nat
          /\ IsLong(s) => /\ q + 1 \in 1 .. Len(d) /\ d[q] = 128 + ((s \div 256) % 128)
                          /\ d[q + 1] = s % 256
          /\ ~IsLong(s) => d[q] = s
          /\ l(n) = l(n - 1) + IF IsLong(s) THEN 1 ELSE 0
      BY <2>2, DataOfOne, SMTT(30) DEF d, l
    <3>4. Start(n) = 7 + q
      BY <3>1, <3>2, <3>3
    <3>5. s \in Nat
      BY <2>2
    <3>6. \A k \in 1 .. Len(d) : sent[7 + k] = d[k]
      <4> SUFFICES ASSUME NEW k \in 1 .. Len(d) PROVE sent[7 + k] = d[k]
        OBVIOUS
      <4>1. 7 + k \in 1 .. 7 + n0
        BY <2>3
      <4> QED BY <2>3, <2>5, <4>1
    <3> HIDE DEF s
    <3>7. CASE IsLong(s)
      <4> DEFINE x == 128 + ((s \div 256) % 128)
                 y == s % 256
      <4>1. sent[7 + q] = x /\ sent[7 + (q + 1)] = y
        BY <3>3, <3>6, <3>7, ZenonT(30)
      <4>2. IsLong(x) /\ 256 * (x - 128) + y = s % 32768
        BY <3>5, <3>7, DurationByteType
      <4>3. 7 + (q + 1) = (7 + q) + 1 /\ Start(n + 1) = (7 + q) + 2
        <5> HIDE DEF x, y
        <5>1. l(n) = l(n - 1) + 1 /\ Start(n + 1) = 7 + (n + 1) + l(n)
          BY <3>2, <3>3, <3>7
        <5>2. n \in Nat /\ l(n - 1) \in Nat
          BY <3>1, <3>3
        <5> QED BY <5>1, <5>2
      <4> HIDE DEF x, y, q
      <4>4. /\ sent[Start(n)] = x /\ sent[Start(n) + 1] = y
            /\ Start(n + 1) = Start(n) + 2
        BY <3>4, <4>1, <4>3
      <4> DEFINE k == Start(n)
                 v == Duration(n) % 32768
                 z == Start(n + 1)
      <4>5. z = k + 2 /\ sent[k] = x /\ sent[k + 1] = y
        BY <4>4
      <4>6. v = s % 32768
        BY <3>2
      <4> HIDE DEF k, v, z
      <4>7. ReadAt(k) = [time |-> v, next |-> z]
        BY <4>2, <4>5, <4>6, ReadLong
      <4> QED BY <4>7 DEF k, v, z
    <3>8. CASE ~IsLong(s)
      <4>1. sent[7 + q] = s
        BY <3>3, <3>6, <3>8
      <4>2. s = s % 32768
        BY <3>5, <3>8, DurationByteType
      <4>3. Start(n + 1) = (7 + q) + 1
        BY <3>1, <3>2, <3>3, <3>8
      <4> HIDE DEF q
      <4>4. sent[Start(n)] = s /\ Start(n + 1) = Start(n) + 1
        BY <3>4, <4>1, <4>3
      <4> DEFINE k == Start(n)
                 v == Duration(n) % 32768
                 z == Start(n + 1)
      <4>5. z = k + 1 /\ sent[k] = s
        BY <4>4
      <4>6. v = s
        BY <3>2, <4>2
      <4> HIDE DEF k, v, z
      <4>7. ReadAt(k) = [time |-> v, next |-> z]
        BY <3>8, <4>5, <4>6, ReadShort
      <4> QED BY <4>7 DEF k, v, z
    <3> QED BY <3>7, <3>8
  <2>10. 6 + n0 = Len(sent) - 2 /\ n0 = Len(sent) - 8
    BY <2>3, <2>5
  <2> QED BY <2>2, <2>6, <2>7, <2>8, <2>9, <2>10
<1> QED BY <1>1, SentInvariant, PTL

-----------------------------------------------------------------------------
(* What is undefined *)

\* The sizes of the program.
Sizes == OUT_MAX = 512 /\ HEX_MAX = 1025 /\ DEBUG_MAX = 1024 /\ RP_MAX_PULSES = 128

\* A learned code begins and ends with a pulse, as RawPaired and Raw2Paired
\* say of the decoders.
PairedCodes == \A c \in Codes : Len(c.pulse) = Len(c.space) + 1

\* There are no more long durations than durations.
LEMMA NofLongBound ==
    ASSUME NEW times, NEW m \in Nat
    PROVE  NofLong(times, m) \in Nat /\ NofLong(times, m) <= m
<1>1. IsFiniteSet(1 .. m) /\ Cardinality(1 .. m) = m
  BY FS_Interval
<1>2. LongOnes(times, m) \subseteq 1 .. m
  BY DEF LongOnes
<1>3. Cardinality(LongOnes(times, m)) <= Cardinality(1 .. m)
  BY <1>1, <1>2, FS_Subset
<1>4. NofLong(times, m) \in Nat
  BY NofLongStep
<1> QED BY <1>1, <1>3, <1>4 DEF NofLong

\* The durations of a raw buffer fit the tables.
LEMMA RpCountBound ==
    ASSUME NEW buf \in Seq(Byte), Len(buf) <= 512
    PROVE  RpCount(buf) \in Nat /\ RpCount(buf) <= 252
<1> DEFINE n == Len(buf)
<1>1. n \in Nat /\ n <= 512
  OBVIOUS
<1>2. RpCount(buf) = IF n <= 8 THEN 0 ELSE (n - 8 + 1) \div 2
  BY DEF RpCount, ProntoHead
<1> HIDE DEF n
<1> QED BY <1>1, <1>2

\* Whole words with a frequency are made a command that fits its buffer.
LEMMA DefinedWords ==
    ASSUME Sizes, NEW buf \in Seq(Byte), Len(buf) <= 512, Len(buf) >= 4,
           Len(buf) % 2 = 0, buf[3] + buf[4] # 0
    PROVE  UsmProcessUserDefined(buf)
<1> SUFFICES ASSUME IsPronto(buf)
             PROVE  /\ RpParseDefined(buf)
                    /\ Len(Command(buf)) <= 512
                    /\ 2 * Len(Command(buf)) + 1 <= 1024
  BY DEF UsmProcessUserDefined, Sizes
<1>1. RpCount(buf) \in Nat /\ RpCount(buf) <= 252
  BY RpCountBound
<1>2. ProntoWord(buf, 2) # 0
  <2> DEFINE a == buf[3]
             b == buf[4]
  <2>1. a \in Byte /\ b \in Byte /\ a + b # 0
    OBVIOUS
  <2>2. ProntoWord(buf, 2) = 256 * a + b
    BY DEF ProntoWord
  <2> HIDE DEF a, b
  <2> QED BY <2>1, <2>2, BytesWord
<1>3. RpParseDefined(buf)
  <2>1. RpCount(buf) <= 2 * RP_MAX_PULSES
    BY <1>1 DEF Sizes
  <2> QED BY <1>2, <2>1 DEF RpParseDefined
<1> DEFINE t == RpTimes(buf)
           l == NofLong(t, Len(t))
           c == RpOutput(RpParse(buf))
<1>4. Len(t) = RpCount(buf) /\ l \in Nat /\ l <= Len(t)
  <2>1. Len(t) = RpCount(buf)
    BY <1>3, RpTimesType
  <2> HIDE DEF t
  <2>2. Len(t) \in Nat
    BY <1>1, <2>1
  <2>3. l \in Nat /\ l <= Len(t)
    BY <2>2, NofLongBound
  <2> QED BY <2>1, <2>3
<1>5. Len(c) = 7 + (Len(t) + l)
  BY <1>3, RpOutputBytes
<1>6. Command(buf) = c
  BY DEF Command
<1> HIDE DEF t, l, c
<1>7. Len(c) <= 512 /\ 2 * Len(c) + 1 <= 1024
  BY <1>1, <1>4, <1>5
<1> QED BY <1>3, <1>6, <1>7

\* The bytes a learned code is shown as: whole words, and four for every
\* pulse.
LEMMA ShownBytes ==
    ASSUME PairedCodes, NEW c \in Codes
    PROVE  /\ OutputPronto(c) \in Seq(Byte) /\ Len(c.pulse) \in Nat
           /\ Len(OutputPronto(c)) = 4 * Len(c.pulse) + 8
           /\ Len(c.pulse) >= 1
           /\ OutputPronto(c)[3] + OutputPronto(c)[4] = FrequencyWord(c.freq)
<1> DEFINE b == OutputPronto(c)
           p == Len(c.pulse)
           s == Len(c.space)
           f == FrequencyWord(c.freq)
<1>1. b \in Seq(Byte) /\ Len(b) = 2 * (5 + p + s) /\ b[3] = 0 /\ b[4] = f
  BY OutputProntoBytes
<1>2. p \in Nat /\ s \in Nat /\ p = s + 1
  BY CodeType DEF PairedCodes
<1>3. f \in Nat
  <2>1. f \in Byte
    BY CodeType, FrequencyWordByte
  <2> HIDE DEF f
  <2> QED BY <2>1 DEF Byte
<1> HIDE DEF b, p, s, f
<1>4. Len(b) = 4 * p + 8 /\ p >= 1 /\ b[3] + b[4] = f
  BY <1>1, <1>2, <1>3
<1> QED BY <1>1, <1>2, <1>4 DEF b, p, f

\* What is shown of a code that was learned, in a buffer of its own size.
Shown == code \in Codes /\ line = OutputPronto(code) /\ Len(line) <= OUT_MAX

\* Where a line comes from, at each of its stages.
StageInv ==
    /\ TypeOK
    /\ at \in {"start", "line"} => word = <<>>
    /\ at = "start" => ~Learned
    /\ at = "line" => Shown
    /\ at = "shown" => Shown /\ word = Printed(UBuf2Hex(line))
    /\ at = "word" /\ Learned => Shown /\ (Unbroken \/ Len(word) = 4)
    /\ at = "raw" => /\ Len(word) % 2 = 0 /\ raw = UHex2Buf(word) /\ Len(raw) <= OUT_MAX
                     /\ Learned => Shown
                     /\ Unbroken => raw = line
    /\ UndefinedOnly

\* ribsu_callback keeps it: what is too long for line has more than 126
\* pulses.
LEMMA StageCallback ==
    ASSUME Sizes, PairedCodes, StageInv, TypeOK', RibsuCallback
    PROVE  StageInv'
<1>1. PICK c \in Codes : code' = c /\ line' = OutputPronto(c)
  BY DEF RibsuCallback
<1> DEFINE b == OutputPronto(c)
<1>2. /\ at = "start" /\ word' = word
      /\ at' = IF Len(b) > OUT_MAX THEN "undefined" ELSE "line"
  BY <1>1 DEF RibsuCallback, Reach
<1>3. word' = <<>>
  BY <1>2 DEF StageInv
<1>4. /\ Len(b) = 4 * Len(c.pulse) + 8 /\ Len(c.pulse) \in Nat /\ Len(c.pulse) >= 1
  BY ShownBytes
<1>5. c # NoCode
  <2>1. c.pulse # <<>>
    BY <1>4
  <2>2. NoCode.pulse = <<>>
    BY DEF NoCode
  <2> QED BY <2>1, <2>2
<1>6. OUT_MAX = 512
  BY DEF Sizes
<1>7. CASE Len(b) > OUT_MAX
  <2>1. at' = "undefined"
    BY <1>2, <1>7
  <2>2. Len(c.pulse) > 126
    <3> HIDE DEF b
    <3> QED BY <1>4, <1>6, <1>7
  <2>3. Learned' /\ Len(code'.pulse) > 126
    BY <1>1, <1>5, <2>2 DEF Learned
  <2> QED BY <1>3, <2>1, <2>3 DEF StageInv, UndefinedOnly
<1>8. CASE ~(Len(b) > OUT_MAX)
  <2>1. at' = "line"
    BY <1>2, <1>8
  <2>2. Len(b) <= OUT_MAX
    <3> HIDE DEF b
    <3> QED BY <1>4, <1>6, <1>8
  <2>3. Shown'
    BY <1>1, <2>2 DEF Shown
  <2> QED BY <1>3, <2>1, <2>3 DEF StageInv, UndefinedOnly
<1> QED BY <1>7, <1>8

\* ribsu_read_callback keeps it: the digits of 512 bytes fit a hex buffer.
LEMMA StageReadCallback ==
    ASSUME Sizes, PairedCodes, StageInv, TypeOK', RibsuReadCallback
    PROVE  StageInv'
<1>1. /\ at = "line" /\ UNCHANGED <<code, line, raw, sent, interp>>
      /\ word' = Printed(UBuf2Hex(line))
      /\ at' = IF 2 * Len(line) + 1 > HEX_MAX THEN "undefined" ELSE "shown"
  BY DEF RibsuReadCallback, Reach
<1>2. Shown /\ line \in Seq(Byte)
  BY <1>1 DEF StageInv, TypeOK
<1>3. ~(2 * Len(line) + 1 > HEX_MAX)
  <2>1. Len(line) \in Nat /\ Len(line) <= 512
    BY <1>2 DEF Shown, Sizes
  <2> QED BY <2>1 DEF Sizes
<1>4. at' = "shown"
  BY <1>1, <1>3
<1>5. Shown' /\ word' = Printed(UBuf2Hex(line'))
  BY <1>1, <1>2 DEF Shown
<1> QED BY <1>4, <1>5 DEF StageInv, UndefinedOnly

\* Pasting gives a group of four, typing back all the digits.
LEMMA StageBack ==
    ASSUME StageInv, TypeOK', PasteLine \/ TypeBack
    PROVE  StageInv'
<1>1. at = "shown" /\ at' = "word" /\ UNCHANGED <<code, line, raw, sent, interp>>
  BY DEF PasteLine, TypeBack
<1>2. Shown /\ word = Printed(UBuf2Hex(line)) /\ UBuf2Hex(line) \in Seq(Characters)
  BY <1>1, UBuf2HexType DEF StageInv, TypeOK
<1>3. Learned' = Learned /\ Shown'
  BY <1>1, <1>2, Zenon DEF Learned, Shown
<1>4. CASE PasteLine
  <2>1. Len(word') = 4
    BY <1>2, <1>4, PrintedGroup DEF PasteLine
  <2> QED BY <1>1, <1>3, <2>1 DEF StageInv, UndefinedOnly
<1>5. CASE TypeBack
  <2>1. word' = UBuf2Hex(line')
    BY <1>1, <1>2, <1>5, UnspacedPrinted DEF TypeBack
  <2>2. Learned' => Unbroken'
    BY <2>1 DEF Unbroken
  <2> QED BY <1>1, <1>3, <2>2 DEF StageInv, UndefinedOnly
<1> QED BY <1>4, <1>5

\* So does stdin_read_callback: what is shown is typed back as it was or in
\* fours, and what is typed past the buffers is odd or longer than 1024 digits.
LEMMA StageStdin ==
    ASSUME Sizes, PairedCodes, StageInv, TypeOK', StdinReadCallback
    PROVE  StageInv'
<1>1. at = "word" /\ UNCHANGED <<code, line, sent, interp>> /\ word' = word
  BY DEF StdinReadCallback
<1>2. word \in Seq(Characters) /\ Len(word) \in Nat /\ line \in Seq(Byte)
  <2>1. word \in Seq(Characters) /\ line \in Seq(Byte)
    BY <1>1 DEF StageInv, TypeOK
  <2> QED BY <2>1
<1>3. Learned => Shown /\ (Unbroken \/ Len(word) = 4)
  BY <1>1 DEF StageInv
<1>4. Learned' = Learned /\ Shown' = Shown /\ Unbroken' = Unbroken
  BY <1>1, Zenon DEF Learned, Shown, Unbroken
<1>5. Unbroken => /\ Len(word) = 2 * Len(line) /\ Len(line) \in Nat /\ Len(line) <= 512
                  /\ Len(line) >= 12 /\ UHex2Buf(word) = line
  <2> SUFFICES ASSUME Unbroken
               PROVE  /\ Len(word) = 2 * Len(line) /\ Len(line) \in Nat /\ Len(line) <= 512
                      /\ Len(line) >= 12 /\ UHex2Buf(word) = line
    OBVIOUS
  <2>1. Shown /\ word = UBuf2Hex(line)
    BY <1>3 DEF Unbroken
  <2>2. Len(word) = 2 * Len(line)
    BY <1>2, <2>1, UBuf2HexType
  <2>3. UHex2Buf(word) = line
    BY <1>2, <2>1, TypedBack
  <2>4. Len(line) \in Nat /\ Len(line) <= 512
    BY <1>2, <2>1 DEF Shown, Sizes
  <2>5. Len(line) >= 12
    <3>1. PICK c \in Codes : c = code /\ line = OutputPronto(c)
      BY <2>1 DEF Shown
    <3>2. Len(line) = 4 * Len(c.pulse) + 8 /\ Len(c.pulse) \in Nat /\ Len(c.pulse) >= 1
      BY <3>1, ShownBytes
    <3> QED BY <3>2
  <2> QED BY <2>2, <2>3, <2>4, <2>5
<1>6. CASE word = <<>>
  <2>1. at' = "start"
    BY <1>6 DEF StdinReadCallback
  <2>2. ~Learned
    BY <1>2, <1>3, <1>5, <1>6
  <2> QED BY <1>1, <1>4, <1>6, <2>1, <2>2 DEF StageInv, UndefinedOnly
<1>7. CASE word # <<>>
  <2> DEFINE r == UHex2Buf(word)
             bad == \/ Len(word) >= HEX_MAX \/ Len(word) % 2 = 1 \/ Len(r) > OUT_MAX
  <2>1. raw' = r /\ at' = IF bad THEN "undefined" ELSE "raw"
    BY <1>7 DEF StdinReadCallback, Reach
  <2>2. r \in Seq(Byte) /\ Len(r) = Len(word) \div 2
    BY <1>2, UHex2BufType
  <2> HIDE DEF r
  <2>3. CASE bad
    <3>1. Len(word) > 1024 \/ Len(word) % 2 = 1
      BY <1>2, <2>2, <2>3 DEF Sizes
    <3>2. ~Learned
      <4> SUFFICES ASSUME Learned PROVE FALSE
        OBVIOUS
      <4>1. CASE Unbroken
        BY <1>5, <3>1, <4>1
      <4>2. CASE ~Unbroken
        <5>1. Len(word) = 4
          BY <1>3, <4>2, Zenon
        <5> HIDE DEF bad
        <5> QED BY <3>1, <5>1
      <4> QED BY <4>1, <4>2
    <3>3. at' = "undefined"
      BY <2>1, <2>3
    <3>4. UndefinedOnly'
      BY <1>1, <1>4, <3>1, <3>2 DEF UndefinedOnly
    <3> QED BY <3>3, <3>4 DEF StageInv
  <2>4. CASE ~bad
    <3>1. at' = "raw"
      BY <2>1, <2>4
    <3>2. Len(word) % 2 = 0 /\ Len(r) <= OUT_MAX
      BY <1>2, <2>2, <2>4 DEF Sizes
    <3>3. (Learned => Shown) /\ (Unbroken => r = line)
      BY <1>3, <1>5 DEF r
    <3>4. /\ Len(word') % 2 = 0 /\ raw' = UHex2Buf(word') /\ Len(raw') <= OUT_MAX
          /\ (Learned' => Shown') /\ (Unbroken' => raw' = line')
      BY <1>1, <1>4, <2>1, <3>2, <3>3 DEF r
    <3> QED BY <3>1, <3>4 DEF StageInv, UndefinedOnly
  <2> QED BY <2>3, <2>4
<1> QED BY <1>6, <1>7

\* Four bytes for every pulse are whole words.
LEMMA FourTimes ==
    ASSUME NEW p \in Nat
    PROVE  ~(4 * p + 8 < 4) /\ ~((4 * p + 8) % 2 = 1)
OBVIOUS

\* And ribsu_write: whole words with a frequency are made a command.
LEMMA StageWrite ==
    ASSUME Sizes, PairedCodes, StageInv, TypeOK', RibsuWrite
    PROVE  StageInv'
<1>1. /\ at = "raw" /\ UNCHANGED <<code, line, word, raw, interp>>
      /\ at' = IF interp /\ ~UsmProcessUserDefined(raw) THEN "undefined" ELSE "sent"
  BY DEF RibsuWrite, Reach
<1>2. /\ raw \in Seq(Byte) /\ Len(raw) \in Nat /\ Len(raw) <= 512
      /\ Unbroken => raw = line /\ Shown
  BY <1>1 DEF StageInv, TypeOK, Sizes, Unbroken
<1>3. CASE interp /\ ~UsmProcessUserDefined(raw)
  <2>1. at' = "undefined"
    BY <1>1, <1>3
  <2>2. raw[1] = 0
    BY <1>3 DEF UsmProcessUserDefined, IsPronto
  <2>3. Len(raw) < 4 \/ Len(raw) % 2 = 1 \/ raw[3] + raw[4] = 0
    BY <1>2, <1>3, DefinedWords
  <2>4. CASE Unbroken
    <3>1. PICK c \in Codes : c = code /\ raw = OutputPronto(c)
      BY <1>2, <2>4 DEF Shown
    <3>2. /\ Len(raw) = 4 * Len(c.pulse) + 8 /\ Len(c.pulse) \in Nat
          /\ raw[3] + raw[4] = FrequencyWord(c.freq)
      BY <3>1, ShownBytes
    <3>3. ~(Len(raw) < 4) /\ ~(Len(raw) % 2 = 1)
      <4> DEFINE p == Len(c.pulse)
                 n == Len(raw)
      <4>1. n = 4 * p + 8 /\ p \in Nat
        BY <3>2
      <4> HIDE DEF p, n
      <4>2. ~(n < 4) /\ ~(n % 2 = 1)
        BY <4>1, FourTimes
      <4> QED BY <4>2 DEF n
    <3>4. FrequencyWord(code.freq) = 0
      <4>1. raw[3] + raw[4] = 0
        BY <2>3, <3>3, Zenon
      <4> QED BY <3>1, <3>2, <4>1, Zenon
    <3>5. Unbroken' /\ interp' /\ FrequencyWord(code'.freq) = 0
      BY <1>1, <1>3, <2>4, <3>4 DEF Unbroken, Learned
    <3>6. UndefinedOnly'
      BY <3>5 DEF UndefinedOnly
    <3> QED BY <2>1, <3>6 DEF StageInv
  <2>5. CASE ~Unbroken
    <3>1. /\ ~Unbroken' /\ interp' /\ raw'[1] = 0
          /\ Len(raw') < 4 \/ Len(raw') % 2 = 1 \/ raw'[3] + raw'[4] = 0
      BY <1>1, <1>3, <2>2, <2>3, <2>5 DEF Unbroken, Learned
    <3>2. UndefinedOnly'
      BY <3>1 DEF UndefinedOnly
    <3> QED BY <2>1, <3>2 DEF StageInv
  <2> QED BY <2>4, <2>5
<1>4. CASE ~(interp /\ ~UsmProcessUserDefined(raw))
  <2>1. at' = "sent"
    BY <1>1, <1>4
  <2> QED BY <2>1 DEF StageInv, UndefinedOnly
<1> QED BY <1>3, <1>4

\* In buffers of their sizes nothing is stored past an end, read unwritten or
\* divided by zero but what UndefinedOnly excepts, whatever is learned, of any
\* carrier and of any durations, and whatever is typed.
THEOREM UndefinedOnlyHolds ==
    ASSUME Sizes, PairedCodes
    PROVE  Spec => []UndefinedOnly
<1>1. Init => StageInv
  <2> SUFFICES ASSUME Init PROVE StageInv
    OBVIOUS
  <2>1. TypeOK
    <3>1. <<>> \in Seq(Byte) /\ <<>> \in Seq(Characters \cup {Space})
      OBVIOUS
    <3> QED BY <3>1 DEF Init, TypeOK
  <2> QED BY <2>1 DEF Init, StageInv, Learned, UndefinedOnly
<1>2. StageInv /\ TypeOK' /\ [Next]_vars => StageInv'
  <2> SUFFICES ASSUME StageInv, TypeOK', [Next]_vars PROVE StageInv'
    OBVIOUS
  <2>1. CASE TypeWord
    <3>1. at = "start" /\ at' = "word" /\ code' = code
      BY <2>1 DEF TypeWord
    <3>2. ~Learned'
      BY <3>1 DEF StageInv, Learned
    <3> QED BY <3>1, <3>2 DEF StageInv, UndefinedOnly
  <2>2. CASE Ended \/ UNCHANGED vars
    <3>1. UNCHANGED <<at, code, line, word, raw, sent, interp>>
      BY <2>2 DEF Ended, vars
    <3>2. Learned' = Learned /\ Shown' = Shown /\ Unbroken' = Unbroken
      BY <3>1, Zenon DEF Learned, Shown, Unbroken
    <3>3. UndefinedOnly
      BY DEF StageInv
    <3>4. UndefinedOnly'
      BY <3>1, <3>2, <3>3 DEF UndefinedOnly
    <3> QED BY <3>1, <3>2, <3>4 DEF StageInv
  <2> QED BY <2>1, <2>2, StageCallback, StageReadCallback, StageBack, StageStdin,
                StageWrite DEF Next
<1>3. Spec => []TypeOK
  BY CodecTypesHold
<1>4. StageInv => UndefinedOnly
  BY DEF StageInv
<1> QED BY <1>1, <1>2, <1>3, <1>4, PTL DEF Spec
-----------------------------------------------------------------------------
(* The durations of a learned code *)

\* Quotients lie between what they were cut from.
LEMMA QuotientBounds ==
    ASSUME NEW k \in Nat, NEW f \in Nat \ {0}
    PROVE  /\ k \div f \in Nat
           /\ (k \div f) * f <= k /\ k < (k \div f) * f + f
OBVIOUS

\* A factor can be taken off both sides.
LEMMA CancelFactor ==
    ASSUME NEW x \in Int, NEW y \in Int, NEW f \in Nat \ {0}, x * f <= y * f
    PROVE  x <= y
<1>1. CASE x >= y + 1
  <2>1. (x - y - 1) * f >= 0
    BY <1>1
  <2>2. (x - y - 1) * f = x * f - y * f - f
    OBVIOUS
  <2> QED BY <2>1, <2>2
<1> QED BY <1>1

\* A factor can be put on both sides.
LEMMA TimesMonotone ==
    ASSUME NEW x \in Nat, NEW a \in Nat, NEW b \in Nat, a <= b
    PROVE  a * x <= b * x
<1>1. (b - a) * x >= 0
  OBVIOUS
<1>2. (b - a) * x = b * x - a * x
  OBVIOUS
<1> QED BY <1>1, <1>2

\* A constant S is right to a tenth for a unit of u ticks, on a carrier f with
\* cycles of c ticks.
Right(S, u, c, f) == 9 * (u * f) <= 10 * (S * c) /\ 10 * (S * c) <= 11 * (u * f)

\* A duration of t units becomes cycles with S over the frequency f, and these
\* are read as c ticks each: it is kept to a tenth and a cycle.
Kept(S, u, c, f, t) == Near(((S * t) \div f) * c, t * u, ((t * u) \div 10) + c)

\* A duration is kept if the constant is right.
LEMMA ScaledBack ==
    ASSUME NEW S \in Nat, NEW u \in Nat, NEW c \in Nat, NEW t \in Nat,
           NEW f \in Nat \ {0}, Right(S, u, c, f)
    PROVE  Kept(S, u, c, f, t)
<1> DEFINE q == (S * t) \div f
           x == t * u
           y == q * c
<1>1. /\ q \in Nat /\ q * f <= S * t /\ S * t < q * f + f
  <2>1. S * t \in Nat
    OBVIOUS
  <2> QED BY <2>1, QuotientBounds
<1> HIDE DEF q
<1>2. /\ (10 * (S * c)) * t <= (11 * (u * f)) * t
      /\ (9 * (u * f)) * t <= (10 * (S * c)) * t
  <2>1. 10 * (S * c) \in Nat /\ 11 * (u * f) \in Nat /\ 9 * (u * f) \in Nat
    OBVIOUS
  <2> QED BY <2>1, TimesMonotone DEF Right
<1>3. (10 * y) * f <= (11 * x) * f
  <2>1. (q * f) * (10 * c) <= (S * t) * (10 * c)
    <3>1. q * f \in Nat /\ S * t \in Nat /\ 10 * c \in Nat
      BY <1>1
    <3> QED BY <1>1, <3>1, TimesMonotone
  <2>2. (S * t) * (10 * c) = (10 * (S * c)) * t
    OBVIOUS
  <2>3. (q * f) * (10 * c) = (10 * y) * f
    BY <1>1
  <2>4. (11 * (u * f)) * t = (11 * x) * f
    OBVIOUS
  <2>5. /\ (q * f) * (10 * c) \in Nat /\ (S * t) * (10 * c) \in Nat
        /\ (11 * (u * f)) * t \in Nat
    BY <1>1
  <2> QED BY <1>2, <2>1, <2>2, <2>3, <2>4, <2>5
<1>4. (9 * x) * f <= (10 * (y + c)) * f
  <2>1. (S * t) * (10 * c) <= (q * f + f) * (10 * c)
    <3>1. q * f + f \in Nat /\ S * t \in Nat /\ 10 * c \in Nat /\ S * t <= q * f + f
      BY <1>1
    <3> QED BY <3>1, TimesMonotone
  <2>2. (S * t) * (10 * c) = (10 * (S * c)) * t
    OBVIOUS
  <2>3. (q * f + f) * (10 * c) = (10 * (y + c)) * f
    BY <1>1
  <2>4. (9 * (u * f)) * t = (9 * x) * f
    OBVIOUS
  <2>5. /\ (q * f + f) * (10 * c) \in Nat /\ (S * t) * (10 * c) \in Nat
        /\ (9 * (u * f)) * t \in Nat
    BY <1>1
  <2> QED BY <1>2, <2>1, <2>2, <2>3, <2>4, <2>5
<1>5. x \in Nat /\ y \in Nat
  BY <1>1
<1>6. 10 * y <= 11 * x /\ 9 * x <= 10 * (y + c)
  BY <1>3, <1>4, <1>5, CancelFactor
<1> HIDE DEF x, y
<1>7. Near(y, x, (x \div 10) + c)
  BY <1>5, <1>6 DEF Near
<1> QED BY <1>7 DEF x, y, q, Kept

\* The frequency a carrier is sent on, in ticks of 400 ns.
CycleOf(freq) == UnitByte(RpFrequency(FrequencyWord(freq)))

\* The carriers around 39 kHz, and those of one frequency word.
Carriers == {f \in Nat : 35500 <= f /\ f <= 41400}

CarrierOf(w, f) ==
    /\ FrequencyWord(f) = w /\ CycleOf(f) = UnitByte(RpFrequency(w))
    /\ w * f <= 4145146 /\ 4145146 < (w + 1) * f

\* Each carrier around 39 kHz has a frequency word of 100 to 116.
LEMMA WordCarriers ==
    ASSUME NEW f \in Carriers
    PROVE  \E w \in 100 .. 116 : CarrierOf(w, f)
<1> DEFINE k == 4145146
           w == k \div f
           v == w * f
<1>1. f \in Nat /\ f >= 35500 /\ f <= 41400 /\ k \in Nat
  BY SMT DEF Carriers
<1>2. w \in Nat /\ v <= k /\ k < v + f
  <2> HIDE DEF k
  <2> QED BY <1>1, QuotientBounds
<1>3. k = 4145146 /\ FrequencyWord(f) = w % 256
  BY SMT DEF FrequencyWord
<1> HIDE DEF k, w
<1>4. v \in Nat /\ v + f = (w + 1) * f
  BY <1>1, <1>2
<1>5. w >= 100
  <2>1. CASE w <= 99
    <3>1. v + f <= 100 * f
      BY <1>1, <1>2, <1>4, <2>1, TimesMonotone
    <3> HIDE DEF v
    <3>2. v + f <= 100 * 41400
      BY <1>1, <1>4, <3>1
    <3> QED BY <1>1, <1>2, <1>3, <1>4, <3>2
  <2> QED BY <1>2, <2>1
<1>6. w <= 116
  <2>1. CASE w >= 117
    <3>1. 117 * f <= v
      BY <1>1, <1>2, <2>1, TimesMonotone
    <3> HIDE DEF v
    <3>2. 117 * 35500 <= v
      BY <1>1, <1>4, <3>1
    <3> QED BY <1>1, <1>2, <1>3, <1>4, <3>2
  <2> QED BY <1>2, <2>1
<1>7. FrequencyWord(f) = w /\ w \in 100 .. 116
  BY <1>2, <1>3, <1>5, <1>6
<1>8. CycleOf(f) = UnitByte(RpFrequency(w))
  BY <1>7 DEF CycleOf
<1>9. CarrierOf(w, f)
  BY <1>2, <1>3, <1>4, <1>7, <1>8 DEF CarrierOf
<1> QED BY <1>7, <1>9

\* The cycles the carriers of these words are sent with.
LEMMA WordCycles ==
    /\ UnitByte(RpFrequency(100)) = 60 /\ UnitByte(RpFrequency(101)) = 60
    /\ UnitByte(RpFrequency(102)) = 61 /\ UnitByte(RpFrequency(103)) = 62
    /\ UnitByte(RpFrequency(104)) = 62 /\ UnitByte(RpFrequency(105)) = 63
    /\ UnitByte(RpFrequency(106)) = 63 /\ UnitByte(RpFrequency(107)) = 64
    /\ UnitByte(RpFrequency(108)) = 65 /\ UnitByte(RpFrequency(109)) = 65
    /\ UnitByte(RpFrequency(110)) = 66 /\ UnitByte(RpFrequency(111)) = 66
    /\ UnitByte(RpFrequency(112)) = 67 /\ UnitByte(RpFrequency(113)) = 68
    /\ UnitByte(RpFrequency(114)) = 68 /\ UnitByte(RpFrequency(115)) = 69
    /\ UnitByte(RpFrequency(116)) = 69
BY SMT DEF UnitByte, RpFrequency

\* On these carriers the constant of a mode is right to a tenth, and so is the
\* carrier to a twentieth.
LEMMA CarrierNear ==
    ASSUME NEW f \in Carriers
    PROVE  LET c == CycleOf(f)
           IN  /\ c \in 1 .. 255 /\ Near(c * f, 2500000, 125000)
               /\ f >= 37500 => 9 * (125 * f) <= 10 * (78000 * c) /\ 10 * (78000 * c) <= 11 * (125 * f)
               /\ f <= 39200 => 9 * (1 * f) <= 10 * (560 * c) /\ 10 * (560 * c) <= 11 * (1 * f)
<1> DEFINE Fine(w, c) ==
        w * f <= 4145146 /\ 4145146 < (w + 1) * f =>
            /\ Near(c * f, 2500000, 125000)
            /\ f >= 37500 => 9 * (125 * f) <= 10 * (78000 * c) /\ 10 * (78000 * c) <= 11 * (125 * f)
            /\ f <= 39200 => 9 * (1 * f) <= 10 * (560 * c) /\ 10 * (560 * c) <= 11 * (1 * f)
<1>1. /\ Fine(100, 60) /\ Fine(101, 60) /\ Fine(102, 61) /\ Fine(103, 62)
      /\ Fine(104, 62) /\ Fine(105, 63) /\ Fine(106, 63) /\ Fine(107, 64)
      /\ Fine(108, 65) /\ Fine(109, 65) /\ Fine(110, 66) /\ Fine(111, 66)
      /\ Fine(112, 67) /\ Fine(113, 68) /\ Fine(114, 68) /\ Fine(115, 69)
      /\ Fine(116, 69)
  BY SMT DEF Near, Carriers
<1>2. PICK w \in 100 .. 116 : CarrierOf(w, f)
  BY WordCarriers
<1> DEFINE c == CycleOf(f)
<1> HIDE DEF Fine, c
<1>3. Fine(w, c) /\ c \in 1 .. 255
  <2>1. c = UnitByte(RpFrequency(w))
    BY <1>2 DEF CarrierOf, c
  <2> QED BY <1>1, <2>1, WordCycles
<1> QED BY <1>2, <1>3 DEF Fine, c, CarrierOf

\* The durations of a Pronto code are in carrier cycles.
LEMMA ProntoWordsTimes ==
    ASSUME NEW scale \in Nat, NEW freq \in Nat \ {0},
           NEW p \in Seq(Nat), NEW s \in Seq(Nat), NEW i \in 1 .. Len(p) + Len(s)
    PROVE  /\ Alternate(p, s)[i] \in Nat
           /\ ProntoWords(scale, freq, p, s)[4 + i] =
                 ((scale * Alternate(p, s)[i]) \div freq) % 65536
<1> DEFINE times == Alternate(p, s)
           e(k) == ((scale * times[k]) \div freq) % 65536
           body == [k \in DOMAIN times |-> e(k)]
           w == FrequencyWord(freq)
           x == Len(p) % 65536
           y == (freq \div 100) % 65536
           n == Len(p) + Len(s)
<1>1. times \in Seq(Nat) /\ Len(times) = n /\ n \in Nat
  BY AlternateType
<1> DEFINE head == <<0, w, 0, x>>
           trailer == <<y>>
<1>2. ProntoWords(scale, freq, p, s) = (head \o body) \o trailer
  BY DEF ProntoWords
<1> HIDE DEF times, w, x, y
<1>3. \A k \in 1 .. n : times[k] \in Nat /\ e(k) \in Int
  <2> SUFFICES ASSUME NEW k \in 1 .. n PROVE times[k] \in Nat /\ e(k) \in Int
    OBVIOUS
  <2>1. times[k] \in Nat
    BY <1>1, ElementOfSeq
  <2>2. e(k) \in Word
    BY <2>1, ScaledType
  <2>3. \A z \in Word : z \in Int
    BY DEF Word
  <2> HIDE DEF e
  <2> QED BY <2>1, <2>2, <2>3
<1>4. DOMAIN times = 1 .. n
  BY <1>1
<1> HIDE DEF e
<1>5. body = [k \in 1 .. n |-> e(k)]
  BY <1>4
<1> HIDE DEF body, n
<1>6. Len(body) = n /\ body[i] = e(i) /\ i \in 1 .. n
  BY <1>1, <1>5 DEF n
<1>7. Len(head) = 4
  OBVIOUS
<1> HIDE DEF head, trailer
<1>8. ((head \o body) \o trailer)[4 + i] = body[i]
  <2>1. body \in Seq(Int)
    BY <1>1, <1>3, <1>5, FunctionSequence
  <2>2. head \in Seq({0, w, x}) /\ trailer \in Seq({y})
    BY DEF head, trailer
  <2> DEFINE S == Int \cup {0, w, x} \cup {y}
  <2>3. head \in Seq(S) /\ body \in Seq(S) /\ trailer \in Seq(S) /\ Len(trailer) = 1
    BY <1>1, <1>5, <1>3, <1>7, FunctionSequence DEF head, trailer
  <2> HIDE DEF S
  <2> DEFINE hb == head \o body
  <2>4. /\ hb \in Seq(S) /\ Len(hb) = 4 + n
        /\ \A k \in 1 .. 4 + n : hb[k] = IF k <= 4 THEN head[k] ELSE body[k - 4]
    <3>1. /\ hb \in Seq(S) /\ Len(hb) = Len(head) + Len(body)
          /\ \A k \in 1 .. Len(head) + Len(body) :
                hb[k] = IF k <= Len(head) THEN head[k] ELSE body[k - Len(head)]
      BY <2>3, ConcatMembers
    <3> HIDE DEF hb
    <3> QED BY <1>6, <1>7, <3>1
  <2> HIDE DEF hb
  <2>5. \A k \in 1 .. 4 + n + 1 :
           (hb \o trailer)[k] = IF k <= 4 + n THEN hb[k] ELSE trailer[k - (4 + n)]
    <3>1. \A k \in 1 .. Len(hb) + Len(trailer) :
             (hb \o trailer)[k] = IF k <= Len(hb) THEN hb[k] ELSE trailer[k - Len(hb)]
      BY <2>3, <2>4, ConcatMembers
    <3> QED BY <2>3, <2>4, <3>1
  <2>6. /\ 4 + i \in 1 .. 4 + n + 1 /\ 4 + i \in 1 .. 4 + n
        /\ 4 + i <= 4 + n /\ ~(4 + i <= 4) /\ (4 + i) - 4 = i
    BY <1>1, <1>6
  <2> QED BY <2>4, <2>5, <2>6 DEF hb
<1> QED BY <1>2, <1>3, <1>6, <1>8 DEF e, times

\* A word of 16 bits, put together from its two bytes.
LEMMA WordOfBytes ==
    ASSUME NEW w \in Word
    PROVE  256 * (w \div 256) + (w % 256) = w
<1>1. w \in Int
  BY DEF Word
<1> QED BY <1>1

\* The constant of a mode.
Scale(c) == IF c.unit = RawUnit THEN 78000 ELSE 560

\* What rp_parse finds in the bytes of a learned code: the frequency word and
\* the durations, and the trailer as one more.
LEMMA OutputProntoWords ==
    ASSUME NEW c \in Codes
    PROVE  LET b == OutputPronto(c)
               t == Alternate(c.pulse, c.space)
           IN  /\ Len(t) \in Nat /\ RpCount(b) = Len(t) + 1
               /\ ProntoWord(b, 2) = FrequencyWord(c.freq)
               /\ \A i \in 1 .. Len(t) :
                     /\ t[i] \in Nat
                     /\ ProntoWord(b, i + ProntoHead \div 2) =
                           ((Scale(c) * t[i]) \div c.freq) % 65536
<1> DEFINE scale == Scale(c)
           b == OutputPronto(c)
           f == c.freq
           p == c.pulse
           s == c.space
           t == Alternate(p, s)
           words == ProntoWords(scale, f, p, s)
<1>1. f \in Nat \ {0} /\ p \in Seq(Nat) /\ s \in Seq(Nat) /\ scale \in Nat
  <2>1. scale \in Nat
    BY SMT DEF Scale
  <2> QED BY <2>1, CodeType
<1>2. b = WordBytes(words)
  BY SMT DEF OutputPronto, Scale
<1> HIDE DEF scale, f, p, s
<1>3. Len(t) = Len(p) + Len(s) /\ Len(p) \in Nat /\ Len(s) \in Nat
  <2>1. Len(t) = Len(p) + Len(s)
    BY <1>1, AlternateType, Zenon
  <2>2. Len(p) \in Nat /\ Len(s) \in Nat
    BY <1>1
  <2> QED BY <2>1, <2>2
<1>4. /\ words \in Seq(Word) /\ Len(words) = 5 + Len(p) + Len(s)
      /\ words[2] = FrequencyWord(f)
  BY <1>1, ProntoWordsSize, ZenonT(60)
<1>5. \A i \in 1 .. Len(p) + Len(s) :
         t[i] \in Nat /\ words[4 + i] = ((scale * t[i]) \div f) % 65536
  BY <1>1, ProntoWordsTimes
<1> HIDE DEF words, t
<1>6. /\ Len(b) = 2 * Len(words)
      /\ \A i \in 1 .. Len(words) : /\ b[2 * i - 1] = words[i] \div 256
                                    /\ b[2 * i] = words[i] % 256
  <2>1. /\ Len(WordBytes(words)) = 2 * Len(words)
        /\ \A i \in 1 .. Len(words) : /\ WordBytes(words)[2 * i - 1] = words[i] \div 256
                                      /\ WordBytes(words)[2 * i] = words[i] % 256
    BY <1>4, WordBytesType, ZenonT(30)
  <2> HIDE DEF b
  <2> QED BY <1>2, <2>1, Zenon
<1> HIDE DEF b
<1>7. \A i \in 1 .. Len(words) : ProntoWord(b, i) = words[i]
  <2> SUFFICES ASSUME NEW i \in 1 .. Len(words) PROVE ProntoWord(b, i) = words[i]
    OBVIOUS
  <2>1. words[i] \in Word
    BY <1>4, ElementOfSeq
  <2>2. ProntoWord(b, i) = 256 * (words[i] \div 256) + (words[i] % 256)
    BY <1>6 DEF ProntoWord
  <2> QED BY <2>1, <2>2, WordOfBytes
<1>8. RpCount(b) = Len(t) + 1
  <2>1. Len(b) = 2 * (5 + Len(t)) /\ Len(t) \in Nat
    BY <1>3, <1>4, <1>6
  <2>2. RpCount(b) = IF Len(b) <= 8 THEN 0 ELSE (Len(b) - 8 + 1) \div 2
    BY DEF RpCount, ProntoHead
  <2> DEFINE m == Len(b)
             k == Len(t)
  <2>3. m = 2 * (5 + k) /\ k \in Nat /\ RpCount(b) = IF m <= 8 THEN 0 ELSE (m - 8 + 1) \div 2
    BY <2>1, <2>2
  <2> HIDE DEF m, k
  <2>4. RpCount(b) = k + 1
    BY <2>3
  <2> QED BY <2>4 DEF k
<1>9. ProntoWord(b, 2) = FrequencyWord(f)
  BY <1>3, <1>4, <1>7
<1>10. ASSUME NEW i \in 1 .. Len(t)
       PROVE  t[i] \in Nat /\ ProntoWord(b, i + ProntoHead \div 2) = ((scale * t[i]) \div f) % 65536
  <2>1. i + ProntoHead \div 2 = 4 + i /\ 4 + i \in 1 .. Len(words) /\ i \in 1 .. Len(p) + Len(s)
    BY <1>3, <1>4 DEF ProntoHead
  <2> QED BY <1>5, <1>7, <2>1
<1>11. Len(t) \in Nat
  BY <1>3
<1> DEFINE timed(i) ==
        t[i] \in Nat /\ ProntoWord(b, i + ProntoHead \div 2) = ((scale * t[i]) \div f) % 65536
<1>12. \A i \in 1 .. Len(t) : timed(i)
  BY <1>10
<1> HIDE DEF timed
<1>13. /\ Len(t) \in Nat /\ RpCount(b) = Len(t) + 1 /\ ProntoWord(b, 2) = FrequencyWord(f)
       /\ \A i \in 1 .. Len(t) : timed(i)
  BY <1>8, <1>9, <1>11, <1>12
<1> QED BY <1>13 DEF timed, b, t, f, p, s, scale

\* What is shown of the code that was learned.
ShownAs == code \in Codes /\ line = OutputPronto(code)

\* A learned code is what is shown, and what is typed is what arrives.
LearnedInv ==
    /\ Learned => ShownAs
    /\ at \in {"raw", "sent"} => raw = UHex2Buf(word)

\* LearnedInv is an invariant: a line is made of the code in code.
LEMMA LearnedInvariant == Spec => []LearnedInv
<1>1. Init => LearnedInv
  BY DEF Init, LearnedInv, Learned
<1>2. LearnedInv /\ [Next]_vars => LearnedInv'
  <2> SUFFICES ASSUME LearnedInv, [Next]_vars PROVE LearnedInv'
    OBVIOUS
  <2>1. CASE RibsuCallback
    <3>1. /\ code' \in Codes /\ line' = OutputPronto(code')
          /\ at' \in {"line", "undefined"}
      BY <2>1 DEF RibsuCallback, Reach
    <3> QED BY <3>1 DEF LearnedInv, ShownAs
  <2>2. CASE ~RibsuCallback
    <3>1. UNCHANGED <<code, line>>
      BY <2>2 DEF Next, RibsuReadCallback, PasteLine, TypeBack, TypeWord, StdinReadCallback,
                  RibsuWrite, Ended, vars
    <3>2. Learned' = Learned /\ ShownAs' = ShownAs
      BY <3>1, Zenon DEF Learned, ShownAs
    <3>3. ASSUME at' \in {"raw", "sent"} PROVE raw' = UHex2Buf(word')
      <4>1. CASE StdinReadCallback
        BY <3>3, <4>1 DEF StdinReadCallback
      <4>2. CASE ~StdinReadCallback
        <5>1. at \in {"raw", "sent"} /\ raw' = raw /\ word' = word
          BY <2>2, <3>3, <4>2 DEF Next, RibsuReadCallback, PasteLine, TypeBack, TypeWord, RibsuWrite,
                                  Ended, Reach, vars
        <5> QED BY <5>1 DEF LearnedInv
      <4> QED BY <4>1, <4>2
    <3> QED BY <3>2, <3>3 DEF LearnedInv
  <2> QED BY <2>1, <2>2
<1> QED BY <1>1, <1>2, PTL DEF Spec

\* The byte 3 of a command is the cycle of the carrier of its code
\* (uirt-pronto.c:74).
LEMMA CarrierByte ==
    ASSUME SentInv, Transmitted, Fits, OUT_MAX > 257
    PROVE  sent[3] = UnitByte(RpFrequency(ProntoWord(raw, 2)))
<1> DEFINE c == RpOutput(RpParse(raw))
<1>1. /\ sent = UsmChecksum(c) /\ raw \in Seq(Byte) /\ RpParseDefined(raw)
  BY DEF SentInv, TypeOK, Transmitted, UsmProcessUserDefined, Command
<1>2. PICK k \in Nat : /\ c \in Seq(Byte) /\ Len(c) = 7 + k
                       /\ c[3] = UnitByte(RpFrequency(ProntoWord(raw, 2)))
  BY <1>1, RpOutputBytes, SMTT(30)
<1> HIDE DEF c
<1>3. PICK x : sent = c \/ sent = Append(c, x)
  BY <1>1 DEF UsmChecksum
<1>4. sent[3] = c[3]
  BY <1>2, <1>3
<1> QED BY <1>2, <1>4

\* A number of cycles that is neither cut by a word nor by the two bytes of a
\* long duration.
Whole(q) == (q % 65536) % 32768 = q

\* A duration is short in cycles.
Short(S, t, f) == t \in Nat /\ S * t <= 2000 * f

\* A short duration is a number of cycles that is not cut.
LEMMA ShortQuotient ==
    ASSUME NEW S \in Nat, NEW t, NEW f \in Nat \ {0}, Short(S, t, f)
    PROVE  Whole((S * t) \div f)
<1> DEFINE x == S * t
           q == x \div f
<1>1. x \in Nat /\ x <= 2000 * f
  BY DEF Short
<1> HIDE DEF x
<1>2. q \in Nat /\ q * f <= x
  BY <1>1, QuotientBounds
<1> HIDE DEF q
<1>3. q * f <= 2000 * f
  <2>1. q * f \in Nat /\ 2000 * f \in Nat
    BY <1>2
  <2> QED BY <1>1, <1>2, <2>1
<1>4. q <= 2000
  BY <1>2, <1>3, CancelFactor
<1>5. (q % 65536) % 32768 = q
  BY <1>2, <1>4
<1> QED BY <1>5 DEF q, x, Whole

\* The carrier f is sent with cycles of y ticks.
SentOn(y, f) == y \in 1 .. 255 /\ Near(y * f, 2500000, 125000)

\* A code on a carrier that suits its mode.
Suits(c) ==
    LET y == CycleOf(c.freq)
        t == Alternate(c.pulse, c.space)
    IN  /\ SentOn(y, c.freq) /\ Right(Scale(c), c.unit, y, c.freq)
        /\ t \in Seq(Nat)
        /\ \A i \in 1 .. Len(t) : Short(Scale(c), t[i], c.freq)

\* The carriers and durations of RAW mode suit its constant.
LEMMA RawRight ==
    ASSUME NEW f \in RawCarriers
    PROVE  /\ SentOn(CycleOf(f), f) /\ Right(78000, 125, CycleOf(f), f)
           /\ \A t \in RawTimes : Short(78000, t, f)
<1>1. f \in Carriers /\ f \in Nat /\ f >= 37500
  BY SMT DEF RawCarriers, Carriers
<1>2. \A t \in RawTimes : Short(78000, t, f)
  BY <1>1, SMT DEF RawTimes, Short
<1> DEFINE y == CycleOf(f)
<1>3. /\ y \in 1 .. 255 /\ Near(y * f, 2500000, 125000)
      /\ 9 * (125 * f) <= 10 * (78000 * y) /\ 10 * (78000 * y) <= 11 * (125 * f)
  BY <1>1, CarrierNear, SMT
<1> HIDE DEF y
<1>4. SentOn(y, f)
  BY <1>3 DEF SentOn
<1>5. Right(78000, 125, y, f)
  BY <1>3 DEF Right
<1> QED BY <1>2, <1>4, <1>5 DEF y

\* Those of RAW2 mode suit its own.
LEMMA Raw2Right ==
    ASSUME NEW f \in Raw2Carriers
    PROVE  /\ SentOn(CycleOf(f), f) /\ Right(560, 1, CycleOf(f), f)
           /\ \A t \in Raw2Times : Short(560, t, f)
<1>1. f \in Carriers /\ f \in Nat /\ f >= 35500 /\ f <= 39200
  BY SMT DEF Raw2Carriers, Carriers
<1>2. \A t \in Raw2Times : Short(560, t, f)
  BY <1>1, SMT DEF Raw2Times, Short
<1> DEFINE y == CycleOf(f)
<1>3. /\ y \in 1 .. 255 /\ Near(y * f, 2500000, 125000)
      /\ 9 * (1 * f) <= 10 * (560 * y) /\ 10 * (560 * y) <= 11 * (1 * f)
  BY <1>1, CarrierNear, SMT
<1> HIDE DEF y
<1>4. SentOn(y, f)
  BY <1>3 DEF SentOn
<1>5. Right(560, 1, y, f)
  BY <1>3 DEF Right
<1> QED BY <1>2, <1>4, <1>5 DEF y

\* A code of suitable durations, on a suitable carrier, suits its mode.
LEMMA SuitsOf ==
    ASSUME NEW c, NEW T, c.pulse \in Seq(T), c.space \in Seq(T),
           SentOn(CycleOf(c.freq), c.freq), Right(Scale(c), c.unit, CycleOf(c.freq), c.freq),
           \A t \in T : Short(Scale(c), t, c.freq)
    PROVE  Suits(c)
<1> DEFINE t == Alternate(c.pulse, c.space)
<1>1. t \in Seq(T)
  BY AlternateType
<1> HIDE DEF t
<1>2. ASSUME NEW i \in 1 .. Len(t) PROVE t[i] \in T
  BY <1>1, ElementOfSeq
<1>3. \A x \in T : x \in Nat
  BY DEF Short
<1>4. t \in Seq(Nat)
  BY <1>1, <1>3
<1> QED BY <1>2, <1>4 DEF Suits, t

\* The codes DurationsKeptHolds assumes do, if they can be sent at all.
LEMMA UsualSuits ==
    ASSUME UsualCarriers(Codes), NEW c \in Codes, FrequencyWord(c.freq) # 0
    PROVE  Suits(c)
<1>1. CASE /\ c.unit = RawUnit /\ c.freq \in RawCarriers
           /\ c.pulse \in Seq(RawTimes) /\ c.space \in Seq(RawTimes)
  <2>1. Scale(c) = 78000 /\ c.unit = 125
    BY <1>1, SMT DEF Scale, RawUnit
  <2>2. /\ SentOn(CycleOf(c.freq), c.freq) /\ Right(Scale(c), c.unit, CycleOf(c.freq), c.freq)
        /\ \A t \in RawTimes : Short(Scale(c), t, c.freq)
    BY <1>1, <2>1, RawRight, SMT
  <2> QED BY <1>1, <2>2, SuitsOf
<1>2. CASE /\ c.unit = Raw2Unit /\ c.freq \in Raw2Carriers
           /\ c.pulse \in Seq(Raw2Times) /\ c.space \in Seq(Raw2Times)
  <2>1. Scale(c) = 560 /\ c.unit = 1
    BY <1>2, SMT DEF Scale, RawUnit, Raw2Unit
  <2>2. /\ SentOn(CycleOf(c.freq), c.freq) /\ Right(Scale(c), c.unit, CycleOf(c.freq), c.freq)
        /\ \A t \in Raw2Times : Short(Scale(c), t, c.freq)
    BY <1>2, <2>1, Raw2Right, SMT
  <2> QED BY <1>2, <2>2, SuitsOf
<1> QED BY <1>1, <1>2 DEF UsualCarriers

\* A learned code whose digits are given back as one word, without the spaces
\* of main.c:131, is sent on its carrier with the durations it had, to a tenth
\* and a cycle, on every carrier of the ranges of UsualCarriers: there the
\* constants of uirt-raw.c:128 and uirt-raw2.c:133 agree with the ticks of what
\* is sent.
THEOREM DurationsKeptHolds ==
    ASSUME OUT_MAX > 257, UsualCarriers(Codes)
    PROVE  Spec => []DurationsKept
<1>1. SentInv /\ LearnedInv /\ CommandTrue => DurationsKept
  <2> SUFFICES ASSUME SentInv, LearnedInv, CommandTrue, Transmitted, Unbroken, Fits
               PROVE  LET times == Alternate(code.pulse, code.space)
                          cycle == sent[3]
                      IN  /\ Near(cycle * code.freq, 2500000, 125000)
                          /\ RpCount(raw) = Len(times) + 1
                          /\ \A i \in DOMAIN times :
                                LET ticks == times[i] * code.unit
                                IN  Near(ReadAt(Start(i)).time * cycle, ticks, ticks \div 10 + cycle)
    BY DEF DurationsKept
  <2> DEFINE t == Alternate(code.pulse, code.space)
             f == code.freq
             u == code.unit
             S == Scale(code)
             y == sent[3]
  <2>1. code \in Codes /\ raw = OutputPronto(code)
    <3>1. code \in Codes /\ line = OutputPronto(code) /\ raw = UHex2Buf(UBuf2Hex(line))
      BY DEF LearnedInv, Transmitted, Unbroken, ShownAs
    <3>2. line \in Seq(Byte)
      BY DEF SentInv, TypeOK
    <3> QED BY <3>1, <3>2, TypedBack
  <2>2. /\ Len(t) \in Nat /\ RpCount(raw) = Len(t) + 1
        /\ ProntoWord(raw, 2) = FrequencyWord(f)
        /\ \A i \in 1 .. Len(t) :
              t[i] \in Nat /\ Duration(i) = ((S * t[i]) \div f) % 65536
    BY <2>1, OutputProntoWords DEF Duration
  <2>3. FrequencyWord(f) # 0
    BY <2>2 DEF SentInv, Transmitted, UsmProcessUserDefined, RpParseDefined
  <2>4. Suits(code)
    BY <2>1, <2>3, UsualSuits
  <2>5. y = CycleOf(f)
    BY <2>2, CarrierByte DEF CycleOf
  <2>6. f \in Nat \ {0} /\ u \in Nat /\ S \in Nat
    <3>1. u \in {RawUnit, Raw2Unit} /\ f \in Nat \ {0}
      BY <2>1, CodecAssumption
    <3>2. u \in Nat
      BY <3>1, SMT DEF RawUnit, Raw2Unit
    <3>3. S \in Nat
      BY SMT DEF Scale
    <3> QED BY <3>1, <3>2, <3>3
  <2>7. /\ SentOn(y, f) /\ Right(S, u, y, f) /\ t \in Seq(Nat)
        /\ \A i \in 1 .. Len(t) : Short(S, t[i], f)
    BY <2>4, <2>5 DEF Suits
  <2>8. \A i \in 1 .. RpCount(raw) : ReadAt(Start(i)).time = Duration(i) % 32768
    BY DEF CommandTrue
  <2> HIDE DEF t, f, u, S, y
  <2>9. DOMAIN t = 1 .. Len(t) /\ y \in Nat
    BY <2>7 DEF SentOn
  <2>10. ASSUME NEW i \in 1 .. Len(t)
         PROVE  Near(ReadAt(Start(i)).time * y, t[i] * u, (t[i] * u) \div 10 + y)
    <3> DEFINE x == t[i]
    <3>1. x \in Nat /\ S * x \in Nat /\ S * x <= 2000 * f
      BY <2>6, <2>7 DEF Short
    <3>2. i \in 1 .. RpCount(raw) /\ Duration(i) = ((S * x) \div f) % 65536
      BY <2>2
    <3> HIDE DEF x
    <3>3. (((S * x) \div f) % 65536) % 32768 = (S * x) \div f
      <4>1. Short(S, x, f)
        BY <2>7 DEF x
      <4>2. Whole((S * x) \div f)
        BY <2>6, <4>1, ShortQuotient
      <4> QED BY <4>2 DEF Whole
    <3>4. ReadAt(Start(i)).time = (S * x) \div f
      BY <2>8, <3>2, <3>3
    <3>5. Kept(S, u, y, f, x)
      BY <2>6, <2>7, <2>9, <3>1, ScaledBack
    <3> QED BY <3>4, <3>5 DEF Kept, x
  <2>11. /\ Near(y * f, 2500000, 125000) /\ RpCount(raw) = Len(t) + 1
         /\ \A i \in DOMAIN t :
               Near(ReadAt(Start(i)).time * y, t[i] * u, (t[i] * u) \div 10 + y)
    <3>1. Near(y * f, 2500000, 125000)
      BY <2>7 DEF SentOn
    <3> QED BY <2>2, <2>9, <2>10, <3>1
  <2> QED BY <2>11 DEF t, f, u, y
<1> QED BY <1>1, SentInvariant, LearnedInvariant, CommandTrueHolds, PTL
=============================================================================
