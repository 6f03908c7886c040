--------------------------- MODULE FormatProofs ----------------------------
(***************************************************************************)
(* The reader of UirtFormat, and what it has left to read: the bytes in    *)
(* the aggregation buffer and the cells on the wire.                       *)
(***************************************************************************)
EXTENDS RibsuProofs, UirtFormat

(***************************************************************************)
(* The reader of the wire.                                                 *)
(***************************************************************************)

\* The tables of a burst, their fields,
LEMMA TablesType ==
    ASSUME NEW t \in Tables
    PROVE  /\ t.pulse \in Seq(Nat) /\ t.space \in Seq(Nat)
           /\ t.total \in Nat /\ t.samples \in Nat /\ t.total >= t.samples
BY DEF Tables

\* the empty ones,
LEMMA NoTablesType == NoTables \in Tables
BY DEF NoTables, Tables

\* and tables given field by field.
LEMMA TablesOf ==
    ASSUME NEW p \in Seq(Nat), NEW s \in Seq(Nat), NEW x \in Nat, NEW k \in Nat, x >= k
    PROVE  [pulse |-> p, space |-> s, total |-> x, samples |-> k] \in Tables
BY DEF Tables

\* A pulse of two bytes or one.
LEMMA WithPulseType ==
    ASSUME NEW t \in Tables, NEW p \in Nat, p <= TickRate, NEW c \in Nat, c # 0 => p # 0
    PROVE  WithPulse(t, p, c) \in Tables
<1>1. /\ t.pulse \in Seq(Nat) /\ t.space \in Seq(Nat)
      /\ t.total \in Nat /\ t.samples \in Nat /\ t.total >= t.samples
  BY TablesType
<1> DEFINE x == IF c = 0 THEN t.total ELSE t.total + SampleFrequency(p, c)
           k == IF c = 0 THEN t.samples ELSE t.samples + 1
<1>2. c # 0 => SampleFrequency(p, c) \in Nat /\ SampleFrequency(p, c) >= 1
  BY SampleFrequencyType
<1>3. x \in Nat /\ k \in Nat /\ x >= k
  BY <1>1, <1>2
<1>4. Append(t.pulse, p) \in Seq(Nat)
  BY <1>1
<1>5. WithPulse(t, p, c) =
        [pulse |-> Append(t.pulse, p), space |-> t.space, total |-> x, samples |-> k]
  BY DEF WithPulse
<1> HIDE DEF x, k
<1> QED BY <1>1, <1>3, <1>4, <1>5, TablesOf

\* A space.
LEMMA WithSpaceType ==
    ASSUME NEW t \in Tables, NEW d \in Nat
    PROVE  WithSpace(t, d) \in Tables
<1>1. /\ t.pulse \in Seq(Nat) /\ t.space \in Seq(Nat)
      /\ t.total \in Nat /\ t.samples \in Nat /\ t.total >= t.samples
  BY TablesType
<1>2. Append(t.space, d) \in Seq(Nat)
  BY <1>1
<1> QED BY <1>1, <1>2, TablesOf DEF WithSpace

\* The fields of a reading, and that there are no others.
LEMMA ReadingType ==
    ASSUME NEW s \in Reading
    PROVE  /\ s.at \in Places /\ s.token \in Seq(Byte) /\ s.tables \in Tables
           /\ s.lines \in Seq(Line)
           /\ s = Reads(s.at, s.token, s.tables, s.lines)
BY DEF Reading, Reads

\* A reading given field by field.
LEMMA ReadsType ==
    ASSUME NEW at \in Places, NEW token \in Seq(Byte), NEW tables \in Tables,
           NEW lines \in Seq(Line)
    PROVE  Reads(at, token, tables, lines) \in Reading
BY DEF Reading, Reads

\* Its fields.
LEMMA ReadsFields ==
    ASSUME NEW at, NEW token, NEW tables, NEW lines
    PROVE  LET s == Reads(at, token, tables, lines)
           IN  s.at = at /\ s.token = token /\ s.tables = tables /\ s.lines = lines
BY DEF Reads

\* The three readings with nothing in them.
LEMMA EmptyReadings ==
    ASSUME NEW lines \in Seq(Line)
    PROVE  Between(lines) \in Reading /\ AfterGap(lines) \in Reading
           /\ Refused(lines) \in Reading
<1>1. <<>> \in Seq(Byte) /\ {"interspace", "pulse", "bad"} \subseteq Places
  BY DEF Places
<1> QED BY <1>1, NoTablesType, ReadsType DEF Between, AfterGap, Refused

\* The line of a burst is a line.
LEMMA BurstLineType ==
    ASSUME NEW m, NEW f \in Nat, NEW t \in Tables
    PROVE  BurstLine(m, f, t) \in Line
<1>1. /\ t.pulse \in Seq(Nat) /\ t.space \in Seq(Nat)
      /\ t.total \in Nat /\ t.samples \in Nat /\ t.total >= t.samples
  BY TablesType
<1> DEFINE k == 78000
           l == 560
           g == IF f = 0 THEN DefaultRrFrequency ELSE f
           h == IF t.samples = 0 THEN 1 ELSE t.total \div t.samples
<1>2. k \in Nat /\ l \in Nat /\ g \in Nat \ {0}
  BY DEF DefaultRrFrequency
<1>3. h \in Nat \ {0}
  <2> DEFINE a == t.total
             b == t.samples
  <2>1. a \in Nat /\ b \in Nat /\ a >= b
    BY <1>1
  <2>2. h = IF b = 0 THEN 1 ELSE a \div b
    OBVIOUS
  <2> HIDE DEF a, b, h
  <2>3. CASE b = 0
    BY <2>2, <2>3
  <2>4. CASE b # 0
    <3>1. a \div b \in Nat /\ a \div b >= 1
      BY <2>1, <2>4, DivAtLeastOne
    <3> QED BY <2>2, <2>4, <3>1
  <2> QED BY <2>3, <2>4
<1>4. BurstLine(m, f, t) = IF m = "USM_M_RAW" THEN ProntoWords(k, g, t.pulse, t.space)
                           ELSE ProntoWords(l, h, t.pulse, t.space)
  BY DEF BurstLine
<1> HIDE DEF k, l, g, h
<1>5. /\ ProntoWords(k, g, t.pulse, t.space) \in Seq(Nat)
      /\ ProntoWords(l, h, t.pulse, t.space) \in Seq(Nat)
  BY <1>1, <1>2, <1>3, ProntoWordsType
<1> QED BY <1>4, <1>5 DEF Line

\* A member of a sequence of bytes.
LEMMA ByteIn ==
    ASSUME NEW bytes \in Seq(Byte), NEW i \in 1 .. Len(bytes)
    PROVE  bytes[i] \in Nat /\ bytes[i] <= 255
<1>1. bytes[i] \in Byte
  BY ElementOfSeq
<1> QED BY <1>1, ByteIsNat, ByteBound

\* What a complete token says.
LEMMA TokenValues ==
    ASSUME NEW m, NEW bytes \in Seq(Byte), NEW at \in {"pulse", "space", "gap"},
           Len(bytes) >= TokenLength(m, at, bytes)
    PROVE  /\ Len(bytes) >= 1 /\ bytes[1] \in Nat
           /\ at = "pulse" \/ bytes[1] # 255 =>
                DurationOf(m, bytes) \in Nat /\ DurationOf(m, bytes) <= TickRate
           /\ at = "pulse" => CyclesOf(m, bytes) \in Nat
<1>1. Len(bytes) \in Nat
  OBVIOUS
<1>2. CASE m = "USM_M_RAW"
  <2>1. TokenLength(m, at, bytes) = 1
    BY <1>2 DEF TokenLength
  <2>2. 1 \in 1 .. Len(bytes)
    BY <1>1, <2>1
  <2>3. bytes[1] \in Nat /\ bytes[1] <= 255
    BY <2>2, ByteIn
  <2>4. DurationOf(m, bytes) = bytes[1] /\ CyclesOf(m, bytes) = 0
    BY <1>2 DEF DurationOf, CyclesOf
  <2> QED BY <2>2, <2>3, <2>4 DEF TickRate
<1>3. CASE m # "USM_M_RAW" /\ at = "pulse"
  <2>1. TokenLength(m, at, bytes) = IF Len(bytes) >= 3 /\ bytes[3] >= 128 THEN 4 ELSE 3
    BY <1>3 DEF TokenLength
  <2>2. Len(bytes) >= 3
    BY <1>1, <2>1
  <2>3. 1 \in 1 .. Len(bytes) /\ 2 \in 1 .. Len(bytes) /\ 3 \in 1 .. Len(bytes)
    BY <1>1, <2>2
  <2>4. /\ bytes[1] \in Nat /\ bytes[1] <= 255
        /\ bytes[2] \in Nat /\ bytes[2] <= 255 /\ bytes[3] \in Nat
    BY <2>3, ByteIn
  <2>5. bytes[3] >= 128 => bytes[4] \in Nat
    <3>1. SUFFICES ASSUME bytes[3] >= 128 PROVE bytes[4] \in Nat
      OBVIOUS
    <3>2. 4 \in 1 .. Len(bytes)
      BY <1>1, <2>1, <2>2, <3>1
    <3> QED BY <3>2, ByteIn
  <2>6. DurationOf(m, bytes) = 256 * bytes[1] + bytes[2]
    BY <1>3 DEF DurationOf
  <2>7. /\ bytes[3] < 128 => CyclesOf(m, bytes) = bytes[3]
        /\ bytes[3] >= 128 => CyclesOf(m, bytes) = 256 * (bytes[3] - 128) + bytes[4]
    BY <1>3, <2>4 DEF CyclesOf
  <2>8. CyclesOf(m, bytes) \in Nat
    BY <2>4, <2>5, <2>7
  <2> QED BY <2>2, <2>4, <2>6, <2>8 DEF TickRate
<1>4. CASE m # "USM_M_RAW" /\ at # "pulse"
  <2>1. TokenLength(m, at, bytes) = IF bytes[1] = 255 THEN 1 ELSE 2
    BY <1>4 DEF TokenLength
  <2>2. 1 \in 1 .. Len(bytes)
    BY <1>1, <2>1
  <2>3. bytes[1] \in Nat /\ bytes[1] <= 255
    BY <2>2, ByteIn
  <2>4. CASE bytes[1] = 255
    <3>1. Len(bytes) >= 1
      BY <1>1, <2>2
    <3> QED BY <1>4, <2>3, <2>4, <3>1
  <2>5. CASE bytes[1] # 255
    <3>1. 2 \in 1 .. Len(bytes)
      BY <1>1, <2>1, <2>5
    <3>2. bytes[2] \in Nat /\ bytes[2] <= 255
      BY <3>1, ByteIn
    <3>3. DurationOf(m, bytes) = 256 * bytes[1] + bytes[2]
      BY <1>4 DEF DurationOf
    <3> QED BY <1>1, <1>4, <2>2, <2>3, <3>2, <3>3 DEF TickRate
  <2> QED BY <2>4, <2>5
<1> QED BY <1>2, <1>3, <1>4

\* The same reading with lines before its own.
Prefixed(L, s) == Reads(s.at, s.token, s.tables, L \o s.lines)

\* Lines before one more.
LEMMA AppendAfter ==
    ASSUME NEW L \in Seq(Line), NEW lines \in Seq(Line), NEW x \in Line
    PROVE  /\ Append(lines, x) \in Seq(Line) /\ L \o lines \in Seq(Line)
           /\ Append(L \o lines, x) = L \o Append(lines, x)
<1> DEFINE S == Line
<1>1. L \in Seq(S) /\ lines \in Seq(S) /\ x \in S
  OBVIOUS
<1> HIDE DEF S
<1>2. /\ Append(lines, x) \in Seq(S) /\ L \o lines \in Seq(S)
      /\ Append(L \o lines, x) = L \o Append(lines, x)
  BY <1>1
<1> QED BY <1>2 DEF S

\* A reader that has other lines behind it reads the same.
LEMMA PrefixedFields ==
    ASSUME NEW L \in Seq(Line), NEW s \in Reading
    PROVE  /\ Prefixed(L, s) \in Reading
           /\ Prefixed(L, s).at = s.at /\ Prefixed(L, s).token = s.token
           /\ Prefixed(L, s).tables = s.tables /\ Prefixed(L, s).lines = L \o s.lines
<1>1. /\ s.at \in Places /\ s.token \in Seq(Byte) /\ s.tables \in Tables
      /\ s.lines \in Seq(Line)
  BY ReadingType
<1>2. L \o s.lines \in Seq(Line)
  BY <1>1, AppendAfter, ConcatProperties
<1>3. Prefixed(L, s) \in Reading
  BY <1>1, <1>2, ReadsType DEF Prefixed
<1>4. /\ Prefixed(L, s).at = s.at /\ Prefixed(L, s).token = s.token
      /\ Prefixed(L, s).tables = s.tables /\ Prefixed(L, s).lines = L \o s.lines
  BY DEF Prefixed, Reads
<1> QED BY <1>3, <1>4

\* A reading put together field by field, and the empty ones.
LEMMA PrefixedReads ==
    ASSUME NEW L \in Seq(Line), NEW lines \in Seq(Line), NEW at, NEW token, NEW tables
    PROVE  /\ Prefixed(L, Reads(at, token, tables, lines)) =
                Reads(at, token, tables, L \o lines)
           /\ Prefixed(L, Between(lines)) = Between(L \o lines)
           /\ Prefixed(L, AfterGap(lines)) = AfterGap(L \o lines)
           /\ Prefixed(L, Refused(lines)) = Refused(L \o lines)
BY ReadsFields DEF Prefixed, Between, AfterGap, Refused

\* The steps of the reader have a reading for their result, and do not look
\* at the lines behind it: a pulse,
LEMMA ReadPulseType ==
    ASSUME NEW m, NEW s \in Reading, NEW bytes \in Seq(Byte), NEW ends \in BOOLEAN,
           Len(bytes) >= TokenLength(m, "pulse", bytes)
    PROVE  /\ ReadPulse(m, s, bytes, ends) \in Reading
           /\ \A L \in Seq(Line) : ReadPulse(m, Prefixed(L, s), bytes, ends) =
                                    Prefixed(L, ReadPulse(m, s, bytes, ends))
<1> DEFINE p == DurationOf(m, bytes)
           c == CyclesOf(m, bytes)
           at == IF ends THEN "space" ELSE "gap"
           fits == Len(s.tables.pulse) < RR_MAX_PULSES /\ (c = 0 \/ p # 0)
           t == WithPulse(s.tables, p, c)
<1>1. s.tables \in Tables /\ s.lines \in Seq(Line)
  BY ReadingType
<1>2. p \in Nat /\ p <= TickRate /\ c \in Nat
  BY TokenValues
<1>3. ReadPulse(m, s, bytes, ends) =
        IF fits THEN Reads(at, <<>>, t, s.lines) ELSE Refused(s.lines)
  BY DEF ReadPulse
<1>4. at \in Places /\ <<>> \in Seq(Byte)
  BY DEF Places
<1>5. fits => t \in Tables
  BY <1>1, <1>2, WithPulseType
<1> HIDE DEF fits, t, at
<1>6. ReadPulse(m, s, bytes, ends) \in Reading
  BY <1>1, <1>3, <1>4, <1>5, ReadsType, EmptyReadings
<1>7. ASSUME NEW L \in Seq(Line)
      PROVE  ReadPulse(m, Prefixed(L, s), bytes, ends) =
             Prefixed(L, ReadPulse(m, s, bytes, ends))
  <2>1. Prefixed(L, s).tables = s.tables /\ Prefixed(L, s).lines = L \o s.lines
    BY PrefixedFields
  <2>2. ReadPulse(m, Prefixed(L, s), bytes, ends) =
          IF fits THEN Reads(at, <<>>, t, L \o s.lines) ELSE Refused(L \o s.lines)
    BY <2>1 DEF ReadPulse, fits, t, at
  <2>3. /\ Prefixed(L, Reads(at, <<>>, t, s.lines)) = Reads(at, <<>>, t, L \o s.lines)
        /\ Prefixed(L, Refused(s.lines)) = Refused(L \o s.lines)
    BY <1>1, PrefixedReads
  <2> QED BY <1>3, <2>2, <2>3
<1> QED BY <1>6, <1>7

\* a space or the end of a burst,
LEMMA ReadSpaceType ==
    ASSUME NEW m, NEW f \in Nat, NEW s \in Reading, s.at \in {"space", "gap"},
           NEW bytes \in Seq(Byte), Len(bytes) >= TokenLength(m, s.at, bytes)
    PROVE  /\ ReadSpace(m, f, s, bytes) \in Reading
           /\ \A L \in Seq(Line) : ReadSpace(m, f, Prefixed(L, s), bytes) =
                                    Prefixed(L, ReadSpace(m, f, s, bytes))
<1> DEFINE d == DurationOf(m, bytes)
           x == BurstLine(m, f, s.tables)
           t == WithSpace(s.tables, d)
           end == bytes[1] = 255
           gap == d > LongestSpace(m)
           cut == m = "USM_M_RAW" /\ s.at = "space"
           fits == Len(s.tables.space) < RR_MAX_PULSES
           Result(l) == IF end THEN Between(Append(l, x))
                        ELSE IF gap THEN IF cut THEN Refused(l) ELSE AfterGap(Append(l, x))
                        ELSE IF fits THEN Reads("pulse", <<>>, t, l) ELSE Refused(l)
<1>1. s.tables \in Tables /\ s.lines \in Seq(Line)
  BY ReadingType
<1>2. ReadSpace(m, f, s, bytes) = Result(s.lines)
  BY DEF ReadSpace
<1>3. ASSUME NEW L \in Seq(Line)
      PROVE  ReadSpace(m, f, Prefixed(L, s), bytes) = Result(L \o s.lines)
  <2>1. /\ Prefixed(L, s).tables = s.tables /\ Prefixed(L, s).lines = L \o s.lines
        /\ Prefixed(L, s).at = s.at
    BY PrefixedFields
  <2> QED BY <2>1 DEF ReadSpace
<1>4. "pulse" \in Places /\ <<>> \in Seq(Byte)
  BY DEF Places
<1>5. x \in Line
  BY <1>1, BurstLineType
<1>6. ~end => t \in Tables
  BY <1>1, TokenValues, WithSpaceType
<1> HIDE DEF x, t, gap, end, cut, fits
<1>7. Result(s.lines) \in Reading
  <2>1. Append(s.lines, x) \in Seq(Line)
    BY <1>1, <1>5
  <2>2. /\ Between(Append(s.lines, x)) \in Reading /\ AfterGap(Append(s.lines, x)) \in Reading
        /\ Refused(s.lines) \in Reading
    BY <1>1, <2>1, EmptyReadings
  <2>3. ~end => Reads("pulse", <<>>, t, s.lines) \in Reading
    BY <1>1, <1>4, <1>6, ReadsType
  <2> QED BY <2>2, <2>3
<1>8. ASSUME NEW L \in Seq(Line)
      PROVE  Result(L \o s.lines) = Prefixed(L, Result(s.lines))
  <2>1. /\ Append(s.lines, x) \in Seq(Line)
        /\ Append(L \o s.lines, x) = L \o Append(s.lines, x)
    BY <1>1, <1>5, AppendAfter
  <2>2. /\ Prefixed(L, Between(Append(s.lines, x))) = Between(L \o Append(s.lines, x))
        /\ Prefixed(L, AfterGap(Append(s.lines, x))) = AfterGap(L \o Append(s.lines, x))
    BY <2>1, PrefixedReads
  <2>3. /\ Prefixed(L, Refused(s.lines)) = Refused(L \o s.lines)
        /\ Prefixed(L, Reads("pulse", <<>>, t, s.lines)) = Reads("pulse", <<>>, t, L \o s.lines)
    BY <1>1, PrefixedReads
  <2> QED BY <2>1, <2>2, <2>3
<1> HIDE DEF Result
<1> QED BY <1>2, <1>3, <1>7, <1>8

\* a byte of a UIR code,
LEMMA ReadUirType ==
    ASSUME NEW s \in Reading, NEW bytes \in Seq(Byte)
    PROVE  /\ ReadUir(s, bytes) \in Reading
           /\ \A L \in Seq(Line) : ReadUir(Prefixed(L, s), bytes) =
                                    Prefixed(L, ReadUir(s, bytes))
<1> DEFINE short == Len(bytes) < UIRT_UIR_CODE_LEN
<1>1. s.at \in Places /\ s.tables \in Tables /\ s.lines \in Seq(Line)
  BY ReadingType
<1>2. bytes \in Line
  BY BytesAreLine
<1>3. Append(s.lines, bytes) \in Seq(Line)
  BY <1>1, <1>2, AppendAfter
<1>4. ReadUir(s, bytes) = IF short THEN Reads(s.at, bytes, s.tables, s.lines)
                          ELSE Between(Append(s.lines, bytes))
  BY DEF ReadUir
<1> HIDE DEF short
<1>5. ReadUir(s, bytes) \in Reading
  BY <1>1, <1>3, <1>4, ReadsType, EmptyReadings
<1>6. ASSUME NEW L \in Seq(Line)
      PROVE  ReadUir(Prefixed(L, s), bytes) = Prefixed(L, ReadUir(s, bytes))
  <2>1. /\ Prefixed(L, s).tables = s.tables /\ Prefixed(L, s).lines = L \o s.lines
        /\ Prefixed(L, s).at = s.at
    BY PrefixedFields
  <2>2. ReadUir(Prefixed(L, s), bytes) =
            IF short THEN Reads(s.at, bytes, s.tables, L \o s.lines)
            ELSE Between(Append(L \o s.lines, bytes))
    BY <2>1 DEF ReadUir, short
  <2>3. /\ Prefixed(L, Reads(s.at, bytes, s.tables, s.lines)) =
                Reads(s.at, bytes, s.tables, L \o s.lines)
        /\ Prefixed(L, Between(Append(s.lines, bytes))) = Between(L \o Append(s.lines, bytes))
    <3>1. Prefixed(L, Reads(s.at, bytes, s.tables, s.lines)) =
              Reads(s.at, bytes, s.tables, L \o s.lines)
      BY <1>1, PrefixedReads
    <3>2. \A ls \in Seq(Line) : Prefixed(L, Between(ls)) = Between(L \o ls)
      BY PrefixedReads
    <3> QED BY <1>3, <3>1, <3>2
  <2>4. Append(L \o s.lines, bytes) = L \o Append(s.lines, bytes)
    BY <1>1, <1>2, AppendAfter
  <2> QED BY <1>4, <2>2, <2>3, <2>4
<1> QED BY <1>5, <1>6

\* a complete token,
LEMMA ReadTokenType ==
    ASSUME NEW m, NEW f \in Nat, NEW s \in Reading, s.at # "bad",
           NEW bytes \in Seq(Byte), NEW ends \in BOOLEAN,
           Len(bytes) >= TokenLength(m, s.at, bytes)
    PROVE  /\ ReadToken(m, f, s, bytes, ends) \in Reading
           /\ \A L \in Seq(Line) : ReadToken(m, f, Prefixed(L, s), bytes, ends) =
                                    Prefixed(L, ReadToken(m, f, s, bytes, ends))
<1>1. /\ s.at \in Places /\ s.tables \in Tables /\ s.lines \in Seq(Line)
      /\ "pulse" \in Places /\ <<>> \in Seq(Byte)
  BY ReadingType DEF Places
<1>2. ASSUME NEW L \in Seq(Line)
      PROVE  /\ Prefixed(L, s).tables = s.tables /\ Prefixed(L, s).lines = L \o s.lines
             /\ Prefixed(L, s).at = s.at
  BY PrefixedFields
<1>3. CASE s.at = "interspace"
  <2>1. ReadToken(m, f, s, bytes, ends) = Reads("pulse", <<>>, s.tables, s.lines)
    BY <1>3 DEF ReadToken
  <2>2. ASSUME NEW L \in Seq(Line)
        PROVE  ReadToken(m, f, Prefixed(L, s), bytes, ends) =
               Reads("pulse", <<>>, s.tables, L \o s.lines)
    BY <1>2, <1>3 DEF ReadToken
  <2>3. Reads("pulse", <<>>, s.tables, s.lines) \in Reading
    BY <1>1, ReadsType
  <2> QED BY <1>1, <2>1, <2>2, <2>3, PrefixedReads
<1>4. CASE s.at = "pulse"
  <2>1. ReadToken(m, f, s, bytes, ends) = ReadPulse(m, s, bytes, ends)
    BY <1>4 DEF ReadToken
  <2>2. ASSUME NEW L \in Seq(Line)
        PROVE  ReadToken(m, f, Prefixed(L, s), bytes, ends) =
               ReadPulse(m, Prefixed(L, s), bytes, ends)
    BY <1>2, <1>4 DEF ReadToken
  <2> QED BY <1>4, <2>1, <2>2, ReadPulseType
<1>5. CASE s.at \in {"space", "gap"}
  <2>1. ReadToken(m, f, s, bytes, ends) = ReadSpace(m, f, s, bytes)
    BY <1>5 DEF ReadToken
  <2>2. ASSUME NEW L \in Seq(Line)
        PROVE  ReadToken(m, f, Prefixed(L, s), bytes, ends) =
               ReadSpace(m, f, Prefixed(L, s), bytes)
    BY <1>2, <1>5 DEF ReadToken
  <2> QED BY <1>5, <2>1, <2>2, ReadSpaceType
<1> QED BY <1>1, <1>3, <1>4, <1>5 DEF Places

\* a byte of a token,
LEMMA ReadRawType ==
    ASSUME NEW m, NEW f \in Nat, NEW s \in Reading, s.at # "bad",
           NEW bytes \in Seq(Byte), NEW ends \in BOOLEAN
    PROVE  /\ ReadRaw(m, f, s, bytes, ends) \in Reading
           /\ \A L \in Seq(Line) : ReadRaw(m, f, Prefixed(L, s), bytes, ends) =
                                    Prefixed(L, ReadRaw(m, f, s, bytes, ends))
<1> DEFINE full == Len(bytes) >= TokenLength(m, s.at, bytes)
<1>1. /\ s.at \in Places /\ s.tables \in Tables /\ s.lines \in Seq(Line)
  BY ReadingType
<1>2. ASSUME NEW L \in Seq(Line)
      PROVE  /\ Prefixed(L, s).tables = s.tables /\ Prefixed(L, s).lines = L \o s.lines
             /\ Prefixed(L, s).at = s.at
  BY PrefixedFields
<1>3. CASE full
  <2>1. ReadRaw(m, f, s, bytes, ends) = ReadToken(m, f, s, bytes, ends)
    BY <1>3 DEF ReadRaw
  <2>2. ASSUME NEW L \in Seq(Line)
        PROVE  ReadRaw(m, f, Prefixed(L, s), bytes, ends) =
               ReadToken(m, f, Prefixed(L, s), bytes, ends)
    BY <1>2, <1>3 DEF ReadRaw
  <2> QED BY <1>3, <2>1, <2>2, ReadTokenType
<1>4. CASE ~full
  <2> DEFINE Result(l) == IF ends THEN Refused(l) ELSE Reads(s.at, bytes, s.tables, l)
  <2>1. ReadRaw(m, f, s, bytes, ends) = Result(s.lines)
    BY <1>4 DEF ReadRaw
  <2>2. ASSUME NEW L \in Seq(Line)
        PROVE  ReadRaw(m, f, Prefixed(L, s), bytes, ends) = Result(L \o s.lines)
    BY <1>2, <1>4 DEF ReadRaw
  <2>3. Result(s.lines) \in Reading
    BY <1>1, ReadsType, EmptyReadings
  <2>4. ASSUME NEW L \in Seq(Line)
        PROVE  Result(L \o s.lines) = Prefixed(L, Result(s.lines))
    BY <1>1, PrefixedReads
  <2> HIDE DEF Result
  <2> QED BY <2>1, <2>2, <2>3, <2>4
<1> QED BY <1>3, <1>4

\* a cell.
LEMMA ReadCellType ==
    ASSUME NEW m, NEW f \in Nat, NEW s \in Reading, NEW cell \in Cell
    PROVE  /\ ReadCell(m, f, s, cell) \in Reading
           /\ \A L \in Seq(Line) : ReadCell(m, f, Prefixed(L, s), cell) =
                                    Prefixed(L, ReadCell(m, f, s, cell))
<1> DEFINE bytes == Append(s.token, cell.b)
<1>1. cell.b \in Byte /\ cell.ends \in BOOLEAN /\ s.token \in Seq(Byte)
  BY ReadingType DEF Cell
<1>2. bytes \in Seq(Byte)
  BY <1>1
<1>3. ASSUME NEW L \in Seq(Line)
      PROVE  /\ Prefixed(L, s).at = s.at
             /\ Append(Prefixed(L, s).token, cell.b) = bytes
  BY PrefixedFields
<1> HIDE DEF bytes
<1>4. CASE s.at = "bad"
  BY <1>3, <1>4 DEF ReadCell
<1>5. CASE s.at # "bad" /\ m = "USM_M_UIR"
  <2>1. ReadCell(m, f, s, cell) = ReadUir(s, bytes)
    BY <1>5 DEF ReadCell, bytes
  <2>2. ASSUME NEW L \in Seq(Line)
        PROVE  ReadCell(m, f, Prefixed(L, s), cell) = ReadUir(Prefixed(L, s), bytes)
    BY <1>3, <1>5 DEF ReadCell
  <2> QED BY <1>2, <2>1, <2>2, ReadUirType
<1>6. CASE s.at # "bad" /\ m # "USM_M_UIR"
  <2>1. ReadCell(m, f, s, cell) = ReadRaw(m, f, s, bytes, cell.ends)
    BY <1>6 DEF ReadCell, bytes
  <2>2. ASSUME NEW L \in Seq(Line)
        PROVE  ReadCell(m, f, Prefixed(L, s), cell) =
               ReadRaw(m, f, Prefixed(L, s), bytes, cell.ends)
    BY <1>3, <1>6 DEF ReadCell
  <2> QED BY <1>1, <1>2, <1>6, <2>1, <2>2, ReadRawType
<1> QED BY <1>4, <1>5, <1>6

\* A step of the reader.
LEMMA ReaderStep ==
    ASSUME NEW m, NEW f \in Nat
    PROVE  /\ IsStep(Reader(m, f), Reading, Cell)
           /\ \A s \in Reading, cell \in Cell :
                  Reader(m, f)[<<s, cell>>] = ReadCell(m, f, s, cell)
<1>1. ASSUME NEW p \in Reading \X Cell PROVE ReadCell(m, f, p[1], p[2]) \in Reading
  <2>1. p[1] \in Reading /\ p[2] \in Cell
    OBVIOUS
  <2> QED BY <2>1, ReadCellType
<1>2. Reader(m, f) \in [Reading \X Cell -> Reading]
  BY <1>1 DEF Reader
<1>3. ASSUME NEW s \in Reading, NEW cell \in Cell
      PROVE  Reader(m, f)[<<s, cell>>] = ReadCell(m, f, s, cell)
  BY DEF Reader
<1> QED BY <1>2, <1>3 DEF IsStep

\* What a reader has refused it does not go on with.
LEMMA RefusedForGood ==
    ASSUME NEW m, NEW f \in Nat, NEW s \in Reading, s.at = "bad",
           NEW u \in Seq(Cell), NEW v, StepsTo(Reader(m, f), s, u, v)
    PROVE  v.at = "bad"
<1> DEFINE F == Reader(m, f)
           I == {r \in Reading : r.at = "bad"}
<1>1. IsStep(F, Reading, Cell) /\ I \in SUBSET Reading /\ s \in I
  BY ReaderStep
<1>2. ASSUME NEW r \in I, NEW cell \in Cell PROVE F[<<r, cell>>] \in I
  <2>1. r \in Reading /\ r.at = "bad"
    OBVIOUS
  <2>2. F[<<r, cell>>] = ReadCell(m, f, r, cell)
    BY <2>1, ReaderStep
  <2>3. ReadCell(m, f, r, cell) = r
    BY <2>1 DEF ReadCell
  <2> QED BY <2>2, <2>3
<1>3. StepsTo(F, s, u, v)
  OBVIOUS
<1> HIDE DEF F
<1>4. v \in I
  <2> HIDE DEF I
  <2>1. \A t \in Seq(Cell) : \A w : StepsTo(F, s, t, w) => w \in I
    BY <1>1, <1>2, StepsToKeeps
  <2> QED BY <1>3, <2>1
<1> QED BY <1>4

\* A reader with other lines behind it ends with those lines before its own.
LEMMA ReadsOn ==
    ASSUME NEW m, NEW f \in Nat, NEW s \in Reading, NEW L \in Seq(Line),
           NEW u \in Seq(Cell), NEW v, StepsTo(Reader(m, f), s, u, v)
    PROVE  v \in Reading /\ StepsTo(Reader(m, f), Prefixed(L, s), u, Prefixed(L, v))
<1> DEFINE F == Reader(m, f)
           h == [r \in Reading |-> Prefixed(L, r)]
<1>1. IsStep(F, Reading, Cell)
  BY ReaderStep
<1>2. h \in [Reading -> Reading]
  BY PrefixedFields
<1>3. ASSUME NEW r \in Reading, NEW x \in Cell
      PROVE  F[<<h[r], x>>] = h[F[<<r, x>>]]
  <2>1. /\ F[<<r, x>>] = ReadCell(m, f, r, x)
        /\ Prefixed(L, r) \in Reading /\ ReadCell(m, f, r, x) \in Reading
    BY ReaderStep, PrefixedFields, ReadCellType
  <2>2. F[<<Prefixed(L, r), x>>] = ReadCell(m, f, Prefixed(L, r), x)
    BY <2>1, ReaderStep
  <2>3. ReadCell(m, f, Prefixed(L, r), x) = Prefixed(L, ReadCell(m, f, r, x))
    BY ReadCellType
  <2> HIDE DEF F
  <2> QED BY <2>1, <2>2, <2>3
<1>4. h[s] = Prefixed(L, s) /\ (v \in Reading => h[v] = Prefixed(L, v))
  OBVIOUS
<1>5. StepsTo(F, s, u, v)
  OBVIOUS
<1> HIDE DEF F, h
<1>6. v \in Reading
  BY <1>1, <1>5, StepsToUnique
<1>7. StepsTo(F, h[s], u, h[v])
  <2>1. \A t \in Seq(Cell) : \A w : StepsTo(F, s, t, w) => StepsTo(F, h[s], t, h[w])
    BY <1>1, <1>2, <1>3, StepsToMap
  <2> QED BY <1>5, <2>1
<1> QED BY <1>4, <1>6, <1>7 DEF F

(***************************************************************************)
(* What is buffered and what is on the wire.                               *)
(***************************************************************************)

\* u is bytes k + 1, k + 2, ... of the buffer a, as cells.
CellsFrom(u, a, k) ==
    u \in Seq(Cell) /\ Len(u) + k = Len(a) /\ \A i \in 1 .. Len(u) : u[i].b = a[k + i]

\* A reader at s reads on through the bytes of the buffer a after the k-th to
\* a place where a read may stop, and through the cells of w to the end of a
\* code with the lines L behind it.
Ahead(m, f, s, a, k, w, L) ==
    \E u, t :
        /\ CellsFrom(u, a, k)
        /\ StepsTo(Reader(m, f), s, u, t) /\ MayStop(m, t)
        /\ StepsTo(Reader(m, f), t, w, Between(L))

\* It has not refused anything.
LEMMA AheadNotRefused ==
    ASSUME NEW m, NEW f \in Nat, NEW s \in Reading, NEW a, NEW k, NEW w, NEW L,
           Ahead(m, f, s, a, k, w, L)
    PROVE  s.at # "bad"
<1>1. PICK u, t : /\ CellsFrom(u, a, k)
                  /\ StepsTo(Reader(m, f), s, u, t) /\ MayStop(m, t)
  BY DEF Ahead
<1>2. t.at # "bad"
  BY <1>1 DEF MayStop
<1>3. u \in Seq(Cell)
  BY <1>1 DEF CellsFrom
<1> QED BY <1>1, <1>2, <1>3, RefusedForGood

\* With nothing buffered a read may stop where it is.
LEMMA AheadNothing ==
    ASSUME NEW m, NEW f \in Nat, NEW s \in Reading, NEW a, NEW k \in Nat, NEW w, NEW L,
           Ahead(m, f, s, a, k, w, L), Len(a) = k
    PROVE  MayStop(m, s) /\ StepsTo(Reader(m, f), s, w, Between(L))
<1>1. PICK u, t : /\ CellsFrom(u, a, k)
                  /\ StepsTo(Reader(m, f), s, u, t) /\ MayStop(m, t)
                  /\ StepsTo(Reader(m, f), t, w, Between(L))
  BY DEF Ahead
<1>2. u \in Seq(Cell) /\ Len(u) + k = Len(a)
  BY <1>1 DEF CellsFrom
<1>3. u = <<>>
  <2>1. Len(u) = 0
    BY <1>2
  <2> QED BY <1>2, <2>1, EmptySeq
<1>4. t = s
  BY <1>1, <1>3, ReaderStep, StepsToNone
<1> QED BY <1>1, <1>4

\* The other way around.
LEMMA NothingAhead ==
    ASSUME NEW m, NEW f \in Nat, NEW s \in Reading, NEW a, NEW k \in Nat, NEW w, NEW L,
           MayStop(m, s), StepsTo(Reader(m, f), s, w, Between(L)), Len(a) = k
    PROVE  Ahead(m, f, s, a, k, w, L)
<1>1. CellsFrom(<<>>, a, k)
  BY DEF CellsFrom
<1>2. StepsTo(Reader(m, f), s, <<>>, s)
  BY ReaderStep, StepsToNone
<1> QED BY <1>1, <1>2 DEF Ahead

\* The bytes matter, not where they are.
LEMMA AheadMoved ==
    ASSUME NEW m, NEW f, NEW s, NEW a, NEW k \in Nat, NEW w, NEW L,
           Ahead(m, f, s, a, k, w, L),
           NEW b, NEW j \in Nat, Len(a) \in Nat, Len(b) \in Nat, Len(b) + k = Len(a) + j,
           \A i \in Nat : k < k + i /\ k + i <= Len(a) => b[j + i] = a[k + i]
    PROVE  Ahead(m, f, s, b, j, w, L)
<1>1. PICK u, t : /\ CellsFrom(u, a, k)
                  /\ StepsTo(Reader(m, f), s, u, t) /\ MayStop(m, t)
                  /\ StepsTo(Reader(m, f), t, w, Between(L))
  BY DEF Ahead
<1>2. u \in Seq(Cell) /\ Len(u) + k = Len(a) /\ \A i \in 1 .. Len(u) : u[i].b = a[k + i]
  BY <1>1 DEF CellsFrom
<1>3. Len(u) \in Nat /\ Len(u) + j = Len(b)
  BY <1>2
<1>4. \A i \in 1 .. Len(u) : u[i].b = b[j + i]
  BY <1>2, <1>3
<1>5. CellsFrom(u, b, j)
  BY <1>2, <1>3, <1>4 DEF CellsFrom
<1> QED BY <1>1, <1>5 DEF Ahead

\* The next byte.
LEMMA AheadCell ==
    ASSUME NEW m, NEW f \in Nat, NEW s \in Reading, NEW a, NEW k \in Nat, NEW w, NEW L,
           Ahead(m, f, s, a, k, w, L), Len(a) \in Nat, k < Len(a)
    PROVE  \E cell \in Cell :
              /\ cell.b = a[k + 1]
              /\ ReadCell(m, f, s, cell) \in Reading
              /\ Ahead(m, f, ReadCell(m, f, s, cell), a, k + 1, w, L)
<1> DEFINE F == Reader(m, f)
<1>1. PICK u, t : /\ CellsFrom(u, a, k)
                  /\ StepsTo(F, s, u, t) /\ MayStop(m, t)
                  /\ StepsTo(F, t, w, Between(L))
  BY DEF Ahead
<1>2. u \in Seq(Cell) /\ Len(u) + k = Len(a) /\ \A i \in 1 .. Len(u) : u[i].b = a[k + i]
  BY <1>1 DEF CellsFrom
<1>3. Len(u) \in Nat /\ Len(u) > 0
  BY <1>2
<1>4. IsStep(F, Reading, Cell) /\ \A v \in Reading, c \in Cell : F[<<v, c>>] = ReadCell(m, f, v, c)
  BY ReaderStep
<1> HIDE DEF F
<1>5. /\ u[1] \in Cell /\ Tail(u) \in Seq(Cell) /\ Len(Tail(u)) = Len(u) - 1
      /\ F[<<s, u[1]>>] \in Reading
      /\ StepsTo(F, F[<<s, u[1]>>], Tail(u), t)
  BY <1>1, <1>2, <1>3, <1>4, StepsToTail
<1>6. F[<<s, u[1]>>] = ReadCell(m, f, s, u[1])
  BY <1>4, <1>5
<1>7. CellsFrom(Tail(u), a, k + 1)
  <2>1. \A i \in 1 .. Len(Tail(u)) : Tail(u)[i] = u[i + 1] /\ i + 1 \in 1 .. Len(u)
    BY <1>2, <1>3, <1>5
  <2>2. \A i \in 1 .. Len(Tail(u)) : Tail(u)[i].b = a[(k + 1) + i]
    BY <1>2, <1>3, <1>5, <2>1
  <2>3. Len(Tail(u)) + (k + 1) = Len(a)
    BY <1>2, <1>3, <1>5
  <2> QED BY <1>5, <2>2, <2>3 DEF CellsFrom
<1>8. u[1].b = a[k + 1]
  BY <1>2, <1>3
<1>9. Ahead(m, f, ReadCell(m, f, s, u[1]), a, k + 1, w, L)
  BY <1>1, <1>5, <1>6, <1>7 DEF Ahead, F
<1> QED BY <1>5, <1>6, <1>8, <1>9

\* The next byte of a RAW or a RAW2 code: it ends a token,
FullAhead(m, f, s, bytes, a, k, w, L) ==
    /\ Len(bytes) >= TokenLength(m, s.at, bytes)
    /\ \E ends \in BOOLEAN :
          /\ ReadToken(m, f, s, bytes, ends) \in Reading
          /\ ReadToken(m, f, s, bytes, ends).at # "bad"
          /\ Ahead(m, f, ReadToken(m, f, s, bytes, ends), a, k, w, L)

\* or there is another one to it.
MoreAhead(m, f, s, bytes, a, k, w, L) ==
    /\ Len(bytes) < TokenLength(m, s.at, bytes)
    /\ k < Len(a)
    /\ Reads(s.at, bytes, s.tables, s.lines) \in Reading
    /\ Ahead(m, f, Reads(s.at, bytes, s.tables, s.lines), a, k, w, L)

\* The next byte of the buffer completes a token or not.
LEMMA AheadByte ==
    ASSUME NEW m, m # "USM_M_UIR", NEW f \in Nat, NEW s \in Reading,
           NEW a, NEW k \in Nat, NEW w, NEW L,
           Ahead(m, f, s, a, k, w, L), Len(a) \in Nat, k < Len(a)
    PROVE  LET bytes == Append(s.token, a[k + 1])
           IN  /\ bytes \in Seq(Byte) /\ a[k + 1] \in Byte
               /\ \/ FullAhead(m, f, s, bytes, a, k + 1, w, L)
                  \/ MoreAhead(m, f, s, bytes, a, k + 1, w, L)
<1> DEFINE bytes == Append(s.token, a[k + 1])
<1>1. PICK cell \in Cell :
          /\ cell.b = a[k + 1]
          /\ ReadCell(m, f, s, cell) \in Reading
          /\ Ahead(m, f, ReadCell(m, f, s, cell), a, k + 1, w, L)
  BY AheadCell
<1>2. cell.b \in Byte /\ cell.ends \in BOOLEAN
  BY DEF Cell
<1>3. s.token \in Seq(Byte) /\ s.at # "bad"
  BY ReadingType, AheadNotRefused
<1>4. a[k + 1] \in Byte /\ bytes \in Seq(Byte)
  BY <1>1, <1>2, <1>3
<1> DEFINE r == ReadRaw(m, f, s, bytes, cell.ends)
<1>5. ReadCell(m, f, s, cell) = r
  BY <1>1, <1>3 DEF ReadCell
<1>6. r \in Reading /\ Ahead(m, f, r, a, k + 1, w, L)
  BY <1>1, <1>5
<1>7. k + 1 \in Nat /\ r.at # "bad"
  <2>1. k + 1 \in Nat
    OBVIOUS
  <2> HIDE DEF r
  <2> QED BY <1>6, <2>1, AheadNotRefused
<1>8. CASE Len(bytes) >= TokenLength(m, s.at, bytes)
  <2>1. r = ReadToken(m, f, s, bytes, cell.ends)
    BY <1>8 DEF ReadRaw
  <2> HIDE DEF r, bytes
  <2>2. FullAhead(m, f, s, bytes, a, k + 1, w, L)
    BY <1>2, <1>6, <1>7, <1>8, <2>1 DEF FullAhead
  <2> QED BY <1>4, <2>2 DEF bytes
<1>9. CASE ~(Len(bytes) >= TokenLength(m, s.at, bytes))
  <2> DEFINE q == Reads(s.at, bytes, s.tables, s.lines)
  <2>1. r = IF cell.ends THEN Refused(s.lines) ELSE q
    BY <1>9 DEF ReadRaw
  <2>2. Refused(s.lines).at = "bad"
    BY ReadsFields DEF Refused
  <2>3. r = q
    BY <1>7, <2>1, <2>2
  <2>4. Len(bytes) < TokenLength(m, s.at, bytes)
    <3>1. Len(bytes) \in Nat /\ TokenLength(m, s.at, bytes) \in Nat
      <4> HIDE DEF bytes
      <4> QED BY <1>3, <1>4, ReadingType DEF TokenLength, Places
    <3> QED BY <1>9, <3>1
  <2>5. k + 1 < Len(a)
    <3> SUFFICES ASSUME Len(a) = k + 1 PROVE FALSE
      OBVIOUS
    <3>1. MayStop(m, q)
      <4> HIDE DEF q
      <4> QED BY <1>6, <1>7, <2>3, AheadNothing
    <3>2. q.token = bytes
      BY DEF Reads
    <3>3. bytes # <<>>
      <4> DEFINE x == s.token
                 y == a[k + 1]
      <4>1. x \in Seq(Byte) /\ y \in Byte
        BY <1>3, <1>4
      <4> HIDE DEF x, y
      <4>2. Len(Append(x, y)) = Len(x) + 1 /\ Len(x) \in Nat /\ Len(<<>>) = 0
        BY <4>1
      <4>3. Len(Append(x, y)) # Len(<<>>)
        BY <4>2
      <4>4. Append(x, y) # <<>>
        BY <4>3, Zenon
      <4> QED BY <4>4 DEF x, y
    <3> QED BY <3>1, <3>2, <3>3 DEF MayStop
  <2>6. MoreAhead(m, f, s, bytes, a, k + 1, w, L)
    <3> HIDE DEF bytes, r
    <3> QED BY <1>6, <2>3, <2>4, <2>5 DEF MoreAhead
  <2> QED BY <1>4, <2>6
<1> QED BY <1>8, <1>9

(***************************************************************************)
(* The wire moves: a read takes cells off its front, a code comes at its   *)
(* end.                                                                    *)
(***************************************************************************)

\* A read may stop after a token, unless the reader has refused it.
LEMMA EndsStop ==
    ASSUME NEW m, NEW f \in Nat, NEW s \in Reading, NEW cell \in Cell, cell.ends,
           m = "USM_M_UIR" => s.at # "gap"
    PROVE  LET r == ReadCell(m, f, s, cell)
           IN  r.at = "bad" \/ MayStop(m, r)
<1> DEFINE bytes == Append(s.token, cell.b)
           r == ReadCell(m, f, s, cell)
<1>1. s.at \in Places /\ cell.ends \in BOOLEAN
  BY ReadingType DEF Cell
<1>2. CASE s.at = "bad"
  BY <1>2 DEF ReadCell
<1>3. CASE s.at # "bad" /\ m = "USM_M_UIR"
  <2>1. r = ReadUir(s, bytes)
    BY <1>3 DEF ReadCell
  <2> HIDE DEF r, bytes
  <2>2. r.at = s.at \/ r.at = "interspace"
    BY <2>1 DEF ReadUir, Reads, Between
  <2>3. MayStop(m, r)
    BY <1>3, <2>2 DEF MayStop
  <2> QED BY <2>3 DEF r
<1>4. CASE s.at # "bad" /\ m # "USM_M_UIR"
  <2>1. r = ReadRaw(m, f, s, bytes, cell.ends)
    BY <1>4 DEF ReadCell
  <2>2. r = ReadToken(m, f, s, bytes, cell.ends) \/ r = Refused(s.lines)
    BY <1>1, <2>1 DEF ReadRaw
  <2> HIDE DEF r, bytes
  <2>3. ASSUME r = ReadToken(m, f, s, bytes, cell.ends)
        PROVE  r.token = <<>> /\ r.at # "gap"
    <3>1. CASE s.at = "interspace"
      BY <2>3, <3>1 DEF ReadToken, Reads
    <3>2. CASE s.at = "pulse"
      BY <2>3, <3>2 DEF ReadToken, ReadPulse, Reads, Refused
    <3>3. CASE s.at \in {"space", "gap"}
      <4>1. r = ReadSpace(m, f, s, bytes)
        BY <2>3, <3>3 DEF ReadToken
      <4> QED BY <4>1 DEF ReadSpace, Reads, Between, AfterGap, Refused
    <3> QED BY <1>1, <1>4, <3>1, <3>2, <3>3 DEF Places
  <2>4. Refused(s.lines).at = "bad"
    BY DEF Refused, Reads
  <2>5. r.at = "bad" \/ MayStop(m, r)
    BY <1>4, <2>2, <2>3, <2>4 DEF MayStop
  <2> QED BY <2>5 DEF r
<1> QED BY <1>2, <1>3, <1>4

\* A reader of UIR codes is never where a gap could come.
LEMMA UirNoGap ==
    ASSUME NEW f \in Nat, NEW s \in Reading, s.at # "gap",
           NEW u \in Seq(Cell), NEW v, StepsTo(Reader("USM_M_UIR", f), s, u, v)
    PROVE  v.at # "gap"
<1> DEFINE m == "USM_M_UIR"
           F == Reader(m, f)
           I == {r \in Reading : r.at # "gap"}
<1>1. IsStep(F, Reading, Cell) /\ I \in SUBSET Reading /\ s \in I
  BY ReaderStep
<1>2. ASSUME NEW r \in I, NEW cell \in Cell PROVE F[<<r, cell>>] \in I
  <2>1. r \in Reading /\ r.at # "gap"
    OBVIOUS
  <2>2. F[<<r, cell>>] = ReadCell(m, f, r, cell) /\ F[<<r, cell>>] \in Reading
    <3>1. F[<<r, cell>>] = ReadCell(m, f, r, cell)
      BY <2>1, ReaderStep
    <3> HIDE DEF F, m
    <3>2. ReadCell(m, f, r, cell) \in Reading
      BY <2>1, ReadCellType
    <3> QED BY <3>1, <3>2
  <2>3. ReadCell(m, f, r, cell) = r \/ ReadCell(m, f, r, cell) = ReadUir(r, Append(r.token, cell.b))
    BY DEF ReadCell
  <2>4. ReadUir(r, Append(r.token, cell.b)).at # "gap"
    BY <2>1 DEF ReadUir, Reads, Between
  <2>5. F[<<r, cell>>].at # "gap"
    BY <2>1, <2>2, <2>3, <2>4
  <2> HIDE DEF F
  <2> QED BY <2>2, <2>5
<1>3. StepsTo(F, s, u, v)
  OBVIOUS
<1> HIDE DEF F
<1>4. v \in I
  <2> HIDE DEF I
  <2>1. \A t \in Seq(Cell) : \A w : StepsTo(F, s, t, w) => w \in I
    BY <1>1, <1>2, StepsToKeeps
  <2> QED BY <1>3, <2>1
<1> QED BY <1>4

\* The first j cells of a sequence, and the others.
LEMMA CutCells ==
    ASSUME NEW w \in Seq(Cell), NEW j \in 1 .. Len(w)
    PROVE  LET x == SubSeq(w, 1, j - 1)
               y == SubSeq(w, 1, j)
               z == SubSeq(w, j + 1, Len(w))
           IN  /\ x \in Seq(Cell) /\ y \in Seq(Cell) /\ z \in Seq(Cell) /\ w[j] \in Cell
               /\ Len(y) = j /\ Len(z) = Len(w) - j
               /\ y = Append(x, w[j]) /\ w = y \o z
               /\ \A i \in 1 .. j : y[i] = w[i]
<1> DEFINE S == Cell
<1>1. w \in Seq(S) /\ j \in Nat /\ Len(w) \in Nat /\ 1 <= j /\ j <= Len(w)
  OBVIOUS
<1> HIDE DEF S
<1>2. SubSeq(w, 1, j - 1) \in Seq(S) /\ SubSeq(w, 1, j) \in Seq(S)
      /\ SubSeq(w, j + 1, Len(w)) \in Seq(S) /\ w[j] \in S
  BY <1>1
<1>3. /\ Len(SubSeq(w, 1, j)) = j /\ Len(SubSeq(w, j + 1, Len(w))) = Len(w) - j
      /\ \A i \in 1 .. j : SubSeq(w, 1, j)[i] = w[i]
  BY <1>1
<1>4. SubSeq(w, 1, j) = Append(SubSeq(w, 1, j - 1), w[j])
  BY <1>1
<1>5. w = SubSeq(w, 1, j) \o SubSeq(w, j + 1, Len(w))
  BY <1>1
<1> QED BY <1>2, <1>3, <1>4, <1>5 DEF S

\* The steps through the first j cells of w, the j-th of which ends a token.
LEMMA StopAfter ==
    ASSUME NEW m, NEW f \in Nat, NEW t \in Reading, MayStop(m, t),
           NEW w \in Seq(Cell), NEW j \in 1 .. Len(w), w[j].ends,
           NEW L, StepsTo(Reader(m, f), t, w, Between(L))
    PROVE  \E v \in Reading :
              /\ StepsTo(Reader(m, f), t, SubSeq(w, 1, j), v) /\ MayStop(m, v)
              /\ StepsTo(Reader(m, f), v, SubSeq(w, j + 1, Len(w)), Between(L))
<1> DEFINE F == Reader(m, f)
           x == SubSeq(w, 1, j - 1)
           y == SubSeq(w, 1, j)
           z == SubSeq(w, j + 1, Len(w))
<1>1. /\ x \in Seq(Cell) /\ y \in Seq(Cell) /\ z \in Seq(Cell) /\ w[j] \in Cell
      /\ y = Append(x, w[j]) /\ w = y \o z
  BY CutCells
<1>2. IsStep(F, Reading, Cell) /\ \A r \in Reading, c \in Cell : F[<<r, c>>] = ReadCell(m, f, r, c)
  BY ReaderStep
<1>3. StepsTo(F, t, w, Between(L)) /\ F = Reader(m, f)
  OBVIOUS
<1> HIDE DEF F, x, y, z
<1>4. PICK v \in Reading : StepsTo(F, t, y, v) /\ StepsTo(F, v, z, Between(L))
  BY <1>1, <1>2, <1>3, StepsToSplit
<1>5. PICK r \in Reading : StepsTo(F, t, x, r)
  BY <1>1, <1>2, StepsToSome
<1>6. StepsTo(F, t, y, F[<<r, w[j]>>])
  BY <1>1, <1>2, <1>5, StepsToAppend
<1>7. v = F[<<r, w[j]>>]
  <2> DEFINE q == F[<<r, w[j]>>]
  <2>1. StepsTo(F, t, y, q) /\ StepsTo(F, t, y, v)
    BY <1>4, <1>6
  <2>2. y \in Seq(Cell) /\ IsStep(F, Reading, Cell)
    BY <1>1, <1>2
  <2> HIDE DEF q
  <2>3. v = q
    BY <2>1, <2>2, StepsToOnly
  <2> QED BY <2>3 DEF q
<1>8. v = ReadCell(m, f, r, w[j])
  BY <1>1, <1>2, <1>7
<1>9. m = "USM_M_UIR" => r.at # "gap"
  <2> SUFFICES ASSUME m = "USM_M_UIR" PROVE r.at # "gap"
    OBVIOUS
  <2>1. t.at # "gap"
    BY DEF MayStop
  <2>2. StepsTo(Reader("USM_M_UIR", f), t, x, r)
    BY <1>3, <1>5
  <2> QED BY <1>1, <2>1, <2>2, UirNoGap
<1>10. v.at = "bad" \/ MayStop(m, v)
  BY <1>1, <1>8, <1>9, EndsStop
<1>11. v.at # "bad"
  <2> SUFFICES ASSUME v.at = "bad" PROVE FALSE
    OBVIOUS
  <2>1. Between(L).at = "bad"
    BY <1>1, <1>3, <1>4, RefusedForGood
  <2> QED BY <2>1 DEF Between, Reads
<1> QED BY <1>3, <1>4, <1>10, <1>11 DEF x, y, z

\* Two sequences one after the other, member by member.
LEMMA ConcatIndex ==
    ASSUME NEW S, NEW a \in Seq(S), NEW b \in Seq(S)
    PROVE  /\ a \o b \in Seq(S) /\ Len(a) \in Nat /\ Len(b) \in Nat
           /\ Len(a \o b) = Len(a) + Len(b)
           /\ \A i \in 1 .. Len(a) : (a \o b)[i] = a[i]
           /\ \A i \in 1 .. Len(b) : (a \o b)[Len(a) + i] = b[i]
           /\ \A i \in 1 .. Len(a \o b) :
                  i \in 1 .. Len(a) \/ \E h \in 1 .. Len(b) : i = Len(a) + h
<1>1. /\ a \o b \in Seq(S) /\ Len(a) \in Nat /\ Len(b) \in Nat
      /\ Len(a \o b) = Len(a) + Len(b)
      /\ \A i \in 1 .. Len(a) : (a \o b)[i] = a[i]
      /\ \A i \in 1 .. Len(b) : (a \o b)[Len(a) + i] = b[i]
  OBVIOUS
<1> DEFINE j == Len(a)
           k == Len(b)
<1>2. j \in Nat /\ k \in Nat /\ Len(a \o b) = j + k
  BY <1>1
<1> HIDE DEF j, k
<1>3. \A i \in 1 .. j + k : i \in 1 .. j \/ \E h \in 1 .. k : i = j + h
  <2> TAKE i \in 1 .. j + k
  <2>1. i > j => i - j \in 1 .. k /\ i = j + (i - j)
    BY <1>2
  <2> QED BY <1>2, <2>1
<1> QED BY <1>1, <1>2, <1>3 DEF j, k

\* Cells of two buffers one after the other.
LEMMA CellsConcat ==
    ASSUME NEW u \in Seq(Cell), NEW y \in Seq(Cell), NEW a \in Seq(Byte), NEW b \in Seq(Byte),
           CellsFrom(u, a, 0), CellsFrom(y, b, 0)
    PROVE  CellsFrom(u \o y, a \o b, 0)
<1>1. /\ Len(u) = Len(a) /\ \A i \in 1 .. Len(u) : u[i].b = a[i]
      /\ Len(y) = Len(b) /\ \A i \in 1 .. Len(y) : y[i].b = b[i]
  <2>1. /\ Len(u) + 0 = Len(a) /\ \A i \in 1 .. Len(u) : u[i].b = a[0 + i]
        /\ Len(y) + 0 = Len(b) /\ \A i \in 1 .. Len(y) : y[i].b = b[0 + i]
    BY DEF CellsFrom
  <2>2. Len(u) \in Nat /\ Len(y) \in Nat
    OBVIOUS
  <2> QED BY <2>1, <2>2
<1>2. /\ u \o y \in Seq(Cell) /\ Len(u) \in Nat /\ Len(y) \in Nat
      /\ Len(u \o y) = Len(u) + Len(y)
      /\ \A i \in 1 .. Len(u) : (u \o y)[i] = u[i]
      /\ \A i \in 1 .. Len(y) : (u \o y)[Len(u) + i] = y[i]
      /\ \A i \in 1 .. Len(u \o y) :
             i \in 1 .. Len(u) \/ \E h \in 1 .. Len(y) : i = Len(u) + h
  BY ConcatIndex
<1>3. /\ Len(a \o b) = Len(a) + Len(b)
      /\ \A i \in 1 .. Len(a) : (a \o b)[i] = a[i]
      /\ \A i \in 1 .. Len(b) : (a \o b)[Len(a) + i] = b[i]
  BY ConcatIndex
<1> DEFINE uy == u \o y
           ab == a \o b
<1> HIDE DEF uy, ab
<1>4. ASSUME NEW i \in 1 .. Len(u) PROVE uy[i].b = ab[i]
  <2>1. uy[i] = u[i] /\ ab[i] = a[i] /\ u[i].b = a[i]
    BY <1>1, <1>2, <1>3 DEF uy, ab
  <2> QED BY <2>1
<1>5. ASSUME NEW h \in 1 .. Len(y) PROVE uy[Len(u) + h].b = ab[Len(u) + h]
  <2>1. uy[Len(u) + h] = y[h] /\ ab[Len(a) + h] = b[h] /\ y[h].b = b[h]
    BY <1>1, <1>2, <1>3 DEF uy, ab
  <2> QED BY <1>1, <2>1
<1>6. \A i \in 1 .. Len(uy) : uy[i].b = ab[0 + i]
  <2> TAKE i \in 1 .. Len(uy)
  <2>1. i \in 1 .. Len(u) \/ \E h \in 1 .. Len(y) : i = Len(u) + h
    BY <1>2 DEF uy
  <2>2. uy[i].b = ab[i]
    BY <1>4, <1>5, <2>1
  <2>3. 0 + i = i
    BY <1>2 DEF uy
  <2> QED BY <2>2, <2>3
<1>7. Len(uy) + 0 = Len(ab) /\ uy \in Seq(Cell)
  BY <1>1, <1>2, <1>3 DEF uy, ab
<1> QED BY <1>6, <1>7 DEF CellsFrom, uy, ab

\* A read of j cells.
LEMMA AheadRead ==
    ASSUME NEW m, NEW f \in Nat, NEW s \in Reading, NEW a \in Seq(Byte),
           NEW w \in Seq(Cell), NEW L, Ahead(m, f, s, a, 0, w, L),
           NEW j \in 1 .. Len(w), w[j].ends,
           NEW b \in Seq(Byte), Len(b) = j, \A i \in 1 .. j : b[i] = w[i].b
    PROVE  Ahead(m, f, s, a \o b, 0, SubSeq(w, j + 1, Len(w)), L)
<1> DEFINE F == Reader(m, f)
           y == SubSeq(w, 1, j)
           z == SubSeq(w, j + 1, Len(w))
<1>1. PICK u, t : /\ CellsFrom(u, a, 0)
                  /\ StepsTo(F, s, u, t) /\ MayStop(m, t)
                  /\ StepsTo(F, t, w, Between(L))
  BY DEF Ahead
<1>2. u \in Seq(Cell) /\ Len(u) + 0 = Len(a) /\ \A i \in 1 .. Len(u) : u[i].b = a[0 + i]
  BY <1>1 DEF CellsFrom
<1>3. y \in Seq(Cell) /\ z \in Seq(Cell) /\ Len(y) = j /\ \A i \in 1 .. j : y[i] = w[i]
  BY CutCells
<1>4. IsStep(F, Reading, Cell)
  BY ReaderStep
<1>5. t \in Reading
  <2> HIDE DEF F
  <2> QED BY <1>1, <1>2, <1>4, StepsToUnique
<1>6. PICK v \in Reading : StepsTo(F, t, y, v) /\ MayStop(m, v) /\ StepsTo(F, v, z, Between(L))
  BY <1>1, <1>5, StopAfter
<1>7. StepsTo(F, s, u \o y, v)
  <2> HIDE DEF F, y
  <2> QED BY <1>1, <1>2, <1>3, <1>4, <1>5, <1>6, StepsToConcat
<1>8. CellsFrom(u \o y, a \o b, 0)
  <2> HIDE DEF y
  <2>1. \A i \in 1 .. j : y[i].b = b[0 + i]
    BY <1>3
  <2>2. Len(y) + 0 = Len(b)
    BY <1>3
  <2>3. CellsFrom(y, b, 0)
    BY <1>3, <2>1, <2>2 DEF CellsFrom
  <2> QED BY <1>1, <1>2, <1>3, <2>3, CellsConcat
<1> QED BY <1>6, <1>7, <1>8 DEF Ahead

\* A code that has the lines M comes at the end of the wire.
LEMMA AheadCode ==
    ASSUME NEW m, NEW f \in Nat, NEW s \in Reading, NEW a, NEW k, NEW w \in Seq(Cell),
           NEW L \in Seq(Line), Ahead(m, f, s, a, k, w, L),
           NEW c \in Seq(Cell), NEW M \in Seq(Line),
           StepsTo(Reader(m, f), Between(<<>>), c, Between(M))
    PROVE  Ahead(m, f, s, a, k, w \o c, L \o M)
<1> DEFINE F == Reader(m, f)
<1>1. PICK u, t : /\ CellsFrom(u, a, k)
                  /\ StepsTo(F, s, u, t) /\ MayStop(m, t)
                  /\ StepsTo(F, t, w, Between(L))
  BY DEF Ahead
<1>2. IsStep(F, Reading, Cell)
  BY ReaderStep
<1>3. u \in Seq(Cell)
  BY <1>1 DEF CellsFrom
<1>4. t \in Reading
  <2> HIDE DEF F
  <2> QED BY <1>1, <1>2, <1>3, StepsToUnique
<1>5. <<>> \in Seq(Line) /\ L \o <<>> = L
  BY ConcatEmptySeq
<1>6. Between(<<>>) \in Reading /\ Between(L) \in Reading
  BY <1>5, EmptyReadings
<1>7. /\ Prefixed(L, Between(<<>>)) = Between(L)
      /\ Prefixed(L, Between(M)) = Between(L \o M)
  BY <1>5, PrefixedReads
<1>8. StepsTo(F, Between(L), c, Between(L \o M))
  BY <1>6, <1>7, ReadsOn
<1>9. StepsTo(F, t, w \o c, Between(L \o M))
  <2> DEFINE p == Between(L)
             q == Between(L \o M)
  <2>1. StepsTo(F, t, w, p) /\ StepsTo(F, p, c, q) /\ p \in Reading
    BY <1>1, <1>6, <1>8
  <2> HIDE DEF F, p, q
  <2>2. StepsTo(F, t, w \o c, q)
    BY <1>2, <1>4, <2>1, StepsToConcat
  <2> QED BY <2>2 DEF q
<1> QED BY <1>1, <1>9 DEF Ahead

\* The lines ahead begin with those a reader has behind it.
LEMMA LinesGrow ==
    ASSUME NEW m, NEW f \in Nat, NEW s \in Reading, NEW u \in Seq(Cell), NEW v,
           StepsTo(Reader(m, f), s, u, v)
    PROVE  v \in Reading /\ \E M \in Seq(Line) : v.lines = s.lines \o M
<1> DEFINE F == Reader(m, f)
           s0 == Reads(s.at, s.token, s.tables, <<>>)
<1>1. /\ s.at \in Places /\ s.token \in Seq(Byte) /\ s.tables \in Tables
      /\ s.lines \in Seq(Line) /\ <<>> \in Seq(Line) /\ s.lines \o <<>> = s.lines
      /\ s = Reads(s.at, s.token, s.tables, s.lines)
  BY ReadingType, ConcatEmptySeq
<1>2. s0 \in Reading
  BY <1>1, ReadsType
<1>3. Prefixed(s.lines, s0) = s
  <2>1. Prefixed(s.lines, s0) = Reads(s.at, s.token, s.tables, s.lines \o <<>>)
    BY <1>1, PrefixedReads
  <2> QED BY <1>1, <2>1
<1>4. IsStep(F, Reading, Cell) /\ StepsTo(F, s, u, v)
  BY ReaderStep
<1>5. PICK v0 \in Reading : StepsTo(F, s0, u, v0)
  <2> HIDE DEF F, s0
  <2> QED BY <1>2, <1>4, StepsToSome
<1>6. StepsTo(F, s, u, Prefixed(s.lines, v0))
  <2> HIDE DEF s0
  <2>1. StepsTo(F, Prefixed(s.lines, s0), u, Prefixed(s.lines, v0))
    BY <1>1, <1>2, <1>5, ReadsOn
  <2> QED BY <1>3, <2>1
<1>7. v \in Reading /\ v = Prefixed(s.lines, v0)
  <2> DEFINE p == Prefixed(s.lines, v0)
  <2> HIDE DEF F, p
  <2>1. StepsTo(F, s, u, p)
    BY <1>6 DEF p
  <2>2. v \in Reading /\ p = v
    BY <1>4, <2>1, StepsToUnique
  <2> QED BY <2>2 DEF p
<1>8. v.lines = s.lines \o v0.lines /\ v0.lines \in Seq(Line)
  BY <1>1, <1>7, PrefixedFields, ReadingType
<1> QED BY <1>7, <1>8

\* And with those a reader of the buffer has.
LEMMA AheadLines ==
    ASSUME NEW m, NEW f \in Nat, NEW s \in Reading, NEW a, NEW k, NEW w \in Seq(Cell),
           NEW L \in Seq(Line), Ahead(m, f, s, a, k, w, L)
    PROVE  \E M \in Seq(Line) : L = s.lines \o M
<1> DEFINE F == Reader(m, f)
<1>1. PICK u, t : /\ CellsFrom(u, a, k)
                  /\ StepsTo(F, s, u, t) /\ StepsTo(F, t, w, Between(L))
  BY DEF Ahead
<1>2. u \in Seq(Cell)
  BY <1>1 DEF CellsFrom
<1>3. t \in Reading /\ \E M \in Seq(Line) : t.lines = s.lines \o M
  <2>1. StepsTo(Reader(m, f), s, u, t)
    BY <1>1
  <2>2. t \in Reading
    BY <1>2, <2>1, LinesGrow
  <2>3. \E M \in Seq(Line) : t.lines = s.lines \o M
    BY <1>2, <2>1, LinesGrow
  <2> QED BY <2>2, <2>3
<1>4. \E M \in Seq(Line) : Between(L).lines = t.lines \o M
  <2> DEFINE v == Between(L)
  <2>1. StepsTo(Reader(m, f), t, w, v) /\ t \in Reading
    BY <1>1, <1>3
  <2> HIDE DEF v
  <2>2. \E M \in Seq(Line) : v.lines = t.lines \o M
    BY <2>1, LinesGrow
  <2> QED BY <2>2 DEF v
<1> PICK M1 \in Seq(Line) : t.lines = s.lines \o M1
  BY <1>3
<1> PICK M2 \in Seq(Line) : Between(L).lines = t.lines \o M2
  BY <1>4
<1>5. L = (s.lines \o M1) \o M2
  BY DEF Between, Reads
<1>6. s.lines \in Seq(Line)
  BY ReadingType
<1> DEFINE S == Line
           l == s.lines
<1>7. l \in Seq(S) /\ M1 \in Seq(S) /\ M2 \in Seq(S)
  BY <1>6
<1> HIDE DEF S, l
<1>8. M1 \o M2 \in Seq(S) /\ (l \o M1) \o M2 = l \o (M1 \o M2)
  BY <1>7, ConcatAssociative, ConcatMember
<1> QED BY <1>5, <1>8 DEF S, l

\* A zero interspace in place of a gap.
LEMMA AheadGap ==
    ASSUME NEW m \in {"USM_M_RAW", "USM_M_RAW2"}, NEW f \in Nat, NEW lines \in Seq(Line),
           NEW a, NEW k \in Nat, NEW w, NEW L, Ahead(m, f, AfterGap(lines), a, k, w, L),
           NEW b, Len(a) \in Nat, Len(b) \in Nat, Len(b) + k = Len(a) + 2,
           b[1] = 0, b[2] = 0,
           \A i \in Nat : k < k + i /\ k + i <= Len(a) => b[2 + i] = a[k + i]
    PROVE  Ahead(m, f, Between(lines), b, 0, w, L)
<1> DEFINE F == Reader(m, f)
           c1 == [b |-> 0, kind |-> "code", ends |-> FALSE]
           c2 == [b |-> 0, kind |-> "code", ends |-> TRUE]
           s0 == Between(lines)
           s1 == Reads("interspace", <<0>>, NoTables, lines)
           s2 == AfterGap(lines)
<1>1. PICK u, t : /\ CellsFrom(u, a, k)
                  /\ StepsTo(F, s2, u, t) /\ MayStop(m, t)
                  /\ StepsTo(F, t, w, Between(L))
  BY DEF Ahead
<1>2. u \in Seq(Cell) /\ Len(u) + k = Len(a) /\ \A i \in 1 .. Len(u) : u[i].b = a[k + i]
  BY <1>1 DEF CellsFrom
<1>3. c1 \in Cell /\ c2 \in Cell /\ c1.b = 0 /\ c2.b = 0 /\ 0 \in Byte
  BY DEF Cell, Byte
<1>4. s0 \in Reading /\ s1 \in Reading /\ s2 \in Reading
  <2>1. <<0>> \in Seq(Byte) /\ "interspace" \in Places
    BY <1>3 DEF Places
  <2>2. s1 \in Reading
    BY <2>1, NoTablesType, ReadsType
  <2> QED BY <2>2, EmptyReadings
<1>5. /\ IsStep(F, Reading, Cell)
      /\ \A r \in Reading, c \in Cell : F[<<r, c>>] = ReadCell(m, f, r, c)
  BY ReaderStep
<1>6. ReadCell(m, f, s0, c1) = s1
  <2>1. /\ s0.at = "interspace" /\ s0.token = <<>> /\ s0.tables = NoTables
        /\ s0.lines = lines
    BY DEF Between, Reads
  <2>2. Append(s0.token, c1.b) = <<0>> /\ Len(<<0>>) = 1 /\ c1.ends = FALSE
    BY <1>3, <2>1
  <2> DEFINE z == <<0>>
  <2>3. TokenLength(m, s0.at, z) = 2 /\ Len(z) = 1 /\ Append(s0.token, c1.b) = z
    BY <2>1, <2>2 DEF TokenLength
  <2> HIDE DEF s0, c1, z
  <2>4. ~(Len(z) >= TokenLength(m, s0.at, z))
    BY <2>3
  <2>5. ReadCell(m, f, s0, c1) = ReadRaw(m, f, s0, z, FALSE)
    BY <2>1, <2>2, <2>3 DEF ReadCell
  <2>6. ReadRaw(m, f, s0, z, FALSE) = Reads("interspace", z, NoTables, lines)
    BY <2>1, <2>4 DEF ReadRaw
  <2> QED BY <2>5, <2>6 DEF z
<1>7. ReadCell(m, f, s1, c2) = s2
  <2>1. /\ s1.at = "interspace" /\ s1.token = <<0>> /\ s1.tables = NoTables
        /\ s1.lines = lines
    BY DEF Reads
  <2> DEFINE z == Append(<<0>>, 0)
  <2>2. c2.ends = TRUE /\ Append(s1.token, c2.b) = z
    BY <1>3, <2>1
  <2>8. Len(z) = 2
    OBVIOUS
  <2>3. TokenLength(m, s1.at, z) = 2
    BY <2>1 DEF TokenLength
  <2> HIDE DEF s1, c2, z
  <2>4. Len(z) >= TokenLength(m, s1.at, z)
    BY <2>3, <2>8
  <2>5. ReadCell(m, f, s1, c2) = ReadRaw(m, f, s1, z, TRUE)
    BY <2>1, <2>2 DEF ReadCell
  <2>6. ReadRaw(m, f, s1, z, TRUE) = ReadToken(m, f, s1, z, TRUE)
    BY <2>4 DEF ReadRaw
  <2>7. ReadToken(m, f, s1, z, TRUE) = Reads("pulse", <<>>, NoTables, lines)
    BY <2>1 DEF ReadToken
  <2> QED BY <2>5, <2>6, <2>7 DEF AfterGap, s2
<1> HIDE DEF F, c1, c2, s0, s1, s2
<1>8. F[<<s0, c1>>] = s1 /\ F[<<s1, c2>>] = s2
  BY <1>3, <1>4, <1>5, <1>6, <1>7
<1>9. StepsTo(F, s0, <<c1, c2>>, s2)
  <2>1. <<c1>> \in Seq(Cell) /\ <<c1, c2>> = Append(<<c1>>, c2)
    BY <1>3
  <2>2. StepsTo(F, s0, <<c1>>, s1)
    BY <1>3, <1>4, <1>5, <1>8, StepsToOne
  <2>3. StepsTo(F, s0, Append(<<c1>>, c2), F[<<s1, c2>>])
    BY <1>3, <1>4, <1>5, <2>1, <2>2, StepsToAppend
  <2> QED BY <1>8, <2>1, <2>3
<1> DEFINE x == <<c1, c2>>
<1>10. x \in Seq(Cell) /\ Len(x) = 2 /\ x[1] = c1 /\ x[2] = c2
  BY <1>3
<1> HIDE DEF x
<1>11. StepsTo(F, s0, x \o u, t)
  <2>1. StepsTo(F, s0, x, s2)
    BY <1>9 DEF x
  <2> QED BY <1>1, <1>2, <1>4, <1>5, <1>10, <2>1, StepsToConcat
<1>12. CellsFrom(x \o u, b, 0)
  <2>7. x \in Seq(Cell) /\ u \in Seq(Cell)
    BY <1>2, <1>10
  <2>0. /\ x \o u \in Seq(Cell) /\ Len(u) \in Nat
        /\ Len(x \o u) = Len(x) + Len(u)
        /\ \A i \in 1 .. Len(x) : (x \o u)[i] = x[i]
        /\ \A i \in 1 .. Len(u) : (x \o u)[Len(x) + i] = u[i]
        /\ \A i \in 1 .. Len(x \o u) :
               i \in 1 .. Len(x) \/ \E h \in 1 .. Len(u) : i = Len(x) + h
    BY <2>7, ConcatIndex
  <2>1. /\ x \o u \in Seq(Cell) /\ Len(u) \in Nat
        /\ Len(x \o u) = 2 + Len(u)
        /\ \A i \in 1 .. 2 : (x \o u)[i] = x[i]
        /\ \A i \in 1 .. Len(u) : (x \o u)[2 + i] = u[i]
        /\ \A i \in 1 .. Len(x \o u) :
               i \in 1 .. 2 \/ \E h \in 1 .. Len(u) : i = 2 + h
    <3> DEFINE j == Len(x)
               y == x \o u
    <3>1. j = 2
      BY <1>10
    <3>2. /\ y \in Seq(Cell) /\ Len(u) \in Nat
          /\ Len(y) = j + Len(u)
          /\ \A i \in 1 .. j : y[i] = x[i]
          /\ \A i \in 1 .. Len(u) : y[j + i] = u[i]
          /\ \A i \in 1 .. Len(y) :
                 i \in 1 .. j \/ \E h \in 1 .. Len(u) : i = j + h
      BY <2>0
    <3> HIDE DEF j, y
    <3>3. /\ y \in Seq(Cell) /\ Len(u) \in Nat
          /\ Len(y) = 2 + Len(u)
          /\ \A i \in 1 .. 2 : y[i] = x[i]
          /\ \A i \in 1 .. Len(u) : y[2 + i] = u[i]
          /\ \A i \in 1 .. Len(y) :
                 i \in 1 .. 2 \/ \E h \in 1 .. Len(u) : i = 2 + h
      BY <3>1, <3>2, Zenon
    <3> QED BY <3>3 DEF y
  <2>2. 1 \in 1 .. 2 /\ 2 \in 1 .. 2 /\ \A i \in 1 .. 2 : i = 1 \/ i = 2
    OBVIOUS
  <2>3. (x \o u)[1].b = 0 /\ (x \o u)[2].b = 0
    BY <1>3, <1>10, <2>1, <2>2
  <2>4. ASSUME NEW i \in 1 .. Len(u) PROVE (x \o u)[2 + i].b = b[2 + i]
    <3>1. i \in Nat /\ k < k + i /\ k + i <= Len(a)
      BY <1>2, <2>1
    <3> QED BY <1>2, <2>1, <3>1
  <2>5. \A i \in 1 .. Len(x \o u) : (x \o u)[i].b = b[0 + i]
    <3> TAKE i \in 1 .. Len(x \o u)
    <3>1. CASE i \in 1 .. 2
      BY <2>2, <2>3, <3>1
    <3>2. CASE \E h \in 1 .. Len(u) : i = 2 + h
      BY <2>4, <3>2
    <3> QED BY <2>1, <3>1, <3>2
  <2>6. Len(x \o u) + 0 = Len(b)
    BY <1>2, <2>1
  <2> QED BY <2>1, <2>5, <2>6 DEF CellsFrom
<1> QED BY <1>1, <1>11, <1>12 DEF Ahead, F, s0

\* With nothing buffered and nothing on the wire a reader is through.
LEMMA NothingMore ==
    ASSUME NEW m, NEW f \in Nat, NEW s \in Reading, NEW a, NEW k \in Nat, NEW L,
           Ahead(m, f, s, a, k, <<>>, L), Len(a) = k
    PROVE  s = Between(L)
<1>1. StepsTo(Reader(m, f), s, <<>>, Between(L))
  BY AheadNothing
<1> QED BY <1>1, ReaderStep, StepsToNone

\* What a code is read as, step by step.
LEMMA CodeSteps ==
    ASSUME CodesInFormat, NEW code \in IrCodes, NEW f \in Frequencies \cup {0}
    PROVE  \E M \in Seq(Line) :
              /\ StepsTo(Reader(code.mode, f), Between(<<>>), code.cells, Between(M))
              /\ CodesAsShown => M = Lines(code, f)
<1> DEFINE F == Reader(code.mode, f)
           base == Between(<<>>)
           s == code.cells
           n0 == Len(s)
           r == CHOOSE r : Stepped(r, F, base, s, n0)
           M == CodeRead(code, f).lines
<1>1. s \in Seq(Cell) /\ f \in Nat /\ n0 \in Nat
  BY CodeCells, RibsuAssumption
<1>2. IsStep(F, Reading, Cell) /\ base \in Reading
  <2>1. <<>> \in Seq(Line)
    OBVIOUS
  <2> QED BY <1>1, <2>1, ReaderStep, EmptyReadings
<1>3. CodeRead(code, f) = r[n0]
  BY DEF CodeRead, ReadTo, Stepped
<1>4. CodeRead(code, f) = Between(M)
  BY DEF CodesInFormat
<1>5. CodesAsShown => M = Lines(code, f)
  BY DEF CodesAsShown
<1> HIDE DEF F, base, s, M, n0
<1>6. Stepped(r, F, base, s, n0)
  <2>1. \E q : Stepped(q, F, base, s, n0)
    BY <1>1, StepsExist
  <2> QED BY <2>1
<1> HIDE DEF r
<1>7. Steps(r, F, base, s, n0)
  <2>1. r[0] = base
    BY <1>1, <1>6 DEF Stepped
  <2>2. ASSUME NEW k \in 1 .. n0 PROVE r[k] = F[<<r[k - 1], s[k]>>]
    <3>1. k \in 0 .. n0 /\ k # 0
      BY <1>1
    <3> QED BY <1>6, <3>1 DEF Stepped
  <2> QED BY <2>1, <2>2 DEF Steps
<1>8. StepsTo(F, base, s, r[n0])
  BY <1>7 DEF StepsTo, n0
<1>9. r[n0] \in Reading
  BY <1>1, <1>2, <1>8, StepsToUnique
<1>10. M \in Seq(Line)
  <2>1. CodeRead(code, f) \in Reading
    BY <1>3, <1>9
  <2> QED BY <2>1, ReadingType DEF M
<1>11. StepsTo(F, base, s, Between(M))
  BY <1>3, <1>4, <1>8
<1> QED BY <1>5, <1>10, <1>11 DEF F, base, s

(***************************************************************************)
(* The bytes of a UIR code.                                                *)
(***************************************************************************)

\* The bytes of cells.
BytesOf(u) == [i \in 1 .. Len(u) |-> u[i].b]

\* They are bytes,
LEMMA BytesOfType ==
    ASSUME NEW u \in Seq(Cell)
    PROVE  /\ BytesOf(u) \in Seq(Byte) /\ Len(BytesOf(u)) = Len(u)
           /\ \A i \in 1 .. Len(u) : BytesOf(u)[i] = u[i].b
<1>1. Len(u) \in Nat
  OBVIOUS
<1>2. ASSUME NEW i \in 1 .. Len(u) PROVE u[i].b \in Byte
  <2>1. u[i] \in Cell
    OBVIOUS
  <2> QED BY <2>1 DEF Cell
<1>3. BytesOf(u) \in [1 .. Len(u) -> Byte]
  BY <1>2 DEF BytesOf
<1> QED BY <1>1, <1>3, FunctionSequence DEF BytesOf

\* one for each cell.
LEMMA BytesOfAppend ==
    ASSUME NEW u \in Seq(Cell), NEW x \in Cell
    PROVE  BytesOf(Append(u, x)) = Append(BytesOf(u), x.b)
<1>1. /\ Append(u, x) \in Seq(Cell) /\ Len(Append(u, x)) = Len(u) + 1 /\ Len(u) \in Nat
      /\ x.b \in Byte
  BY DEF Cell
<1>2. /\ BytesOf(u) \in Seq(Byte) /\ Len(BytesOf(u)) = Len(u)
      /\ \A i \in 1 .. Len(u) : BytesOf(u)[i] = u[i].b
  BY BytesOfType
<1> DEFINE p == BytesOf(Append(u, x))
           q == Append(BytesOf(u), x.b)
<1>3. p \in Seq(Byte) /\ Len(p) = Len(u) + 1 /\ \A i \in 1 .. Len(u) + 1 : p[i] = Append(u, x)[i].b
  BY <1>1, BytesOfType
<1>4. /\ q \in Seq(Byte) /\ Len(q) = Len(u) + 1 /\ q[Len(u) + 1] = x.b
      /\ \A i \in 1 .. Len(u) : q[i] = BytesOf(u)[i]
  BY <1>1, <1>2
<1>5. \A i \in 1 .. Len(u) : Append(u, x)[i] = u[i]
  OBVIOUS
<1>6. Append(u, x)[Len(u) + 1] = x
  OBVIOUS
<1> HIDE DEF p, q
<1>7. \A i \in 1 .. Len(u) + 1 : p[i] = q[i]
  <2> TAKE i \in 1 .. Len(u) + 1
  <2>1. i \in 1 .. Len(u) \/ i = Len(u) + 1
    BY <1>1
  <2> QED BY <1>2, <1>3, <1>4, <1>5, <1>6, <2>1
<1>8. p = q
  BY <1>1, <1>3, <1>4, <1>7, SeqEqual
<1> QED BY <1>8 DEF p, q

\* Fewer bytes than a code has are held,
LEMMA UirHeld ==
    ASSUME NEW f \in Nat, NEW lines \in Seq(Line)
    PROVE  \A u \in Seq(Cell) : Len(u) < UIRT_UIR_CODE_LEN =>
              StepsTo(Reader("USM_M_UIR", f), Between(lines), u,
                      Reads("interspace", BytesOf(u), NoTables, lines))
<1> DEFINE m == "USM_M_UIR"
           F == Reader(m, f)
           held(u) == Reads("interspace", BytesOf(u), NoTables, lines)
           P(u) == Len(u) < UIRT_UIR_CODE_LEN => StepsTo(F, Between(lines), u, held(u))
           T == {u \in Seq(Cell) : P(u)}
<1>1. /\ IsStep(F, Reading, Cell) /\ Between(lines) \in Reading
      /\ \A v \in Reading, c \in Cell : F[<<v, c>>] = ReadCell(m, f, v, c)
  BY ReaderStep, EmptyReadings
<1>2. ASSUME NEW u \in Seq(Cell) PROVE held(u) \in Reading
  <2>1. BytesOf(u) \in Seq(Byte) /\ "interspace" \in Places
    BY BytesOfType DEF Places
  <2> QED BY <2>1, NoTablesType, ReadsType
<1>3. UIRT_UIR_CODE_LEN \in Nat
  BY CodeLenAssumption
<1>4. ASSUME NEW u \in Seq(Cell), NEW x \in Cell, Len(u) + 1 < UIRT_UIR_CODE_LEN
      PROVE  F[<<held(u), x>>] = held(Append(u, x))
  <2>1. /\ held(u).at = "interspace" /\ held(u).token = BytesOf(u)
        /\ held(u).tables = NoTables /\ held(u).lines = lines
    BY DEF Reads
  <2> DEFINE z == Append(BytesOf(u), x.b)
  <2>2. z = BytesOf(Append(u, x))
    BY BytesOfAppend
  <2>3. Len(z) = Len(u) + 1
    <3>1. Append(u, x) \in Seq(Cell) /\ Len(Append(u, x)) = Len(u) + 1
      OBVIOUS
    <3> QED BY <2>2, <3>1, BytesOfType
  <2>4. Len(z) < UIRT_UIR_CODE_LEN
    BY <1>4, <2>3
  <2>5. held(u) \in Reading
    BY <1>2
  <2> DEFINE v == held(u)
  <2> HIDE DEF z, v
  <2>6. ReadCell(m, f, v, x) = ReadUir(v, z)
    BY <2>1 DEF ReadCell, z, v
  <2>7. ReadUir(v, z) = Reads("interspace", z, NoTables, lines)
    BY <2>1, <2>4 DEF ReadUir, v
  <2>8. F[<<v, x>>] = ReadCell(m, f, v, x)
    BY <1>1, <2>5 DEF v
  <2> QED BY <2>2, <2>6, <2>7, <2>8 DEF v
<1>5. <<>> \in T
  <2>1. BytesOf(<<>>) = <<>>
    <3>1. <<>> \in Seq(Cell) /\ Len(<<>>) = 0
      OBVIOUS
    <3>2. BytesOf(<<>>) \in Seq(Byte) /\ Len(BytesOf(<<>>)) = 0
      BY <3>1, BytesOfType
    <3> QED BY <3>2, NoBytes
  <2>2. held(<<>>) = Between(lines)
    BY <2>1 DEF Between
  <2>3. StepsTo(F, Between(lines), <<>>, Between(lines))
    BY <1>1, StepsToNone
  <2> QED BY <2>2, <2>3
<1> HIDE DEF F, held
<1>6. ASSUME NEW u \in T, NEW x \in Cell PROVE Append(u, x) \in T
  <2>1. u \in Seq(Cell) /\ P(u) /\ Append(u, x) \in Seq(Cell) /\ Len(Append(u, x)) = Len(u) + 1
        /\ Len(u) \in Nat
    OBVIOUS
  <2>2. ASSUME Len(Append(u, x)) < UIRT_UIR_CODE_LEN
        PROVE  StepsTo(F, Between(lines), Append(u, x), held(Append(u, x)))
    <3>1. Len(u) < UIRT_UIR_CODE_LEN /\ Len(u) + 1 < UIRT_UIR_CODE_LEN
      BY <1>3, <2>1, <2>2
    <3>2. StepsTo(F, Between(lines), u, held(u))
      BY <2>1, <3>1
    <3>3. StepsTo(F, Between(lines), Append(u, x), F[<<held(u), x>>])
      <4> DEFINE p == Between(lines)
                 q == held(u)
      <4>1. IsStep(F, Reading, Cell) /\ p \in Reading /\ StepsTo(F, p, u, q) /\ u \in Seq(Cell)
        BY <1>1, <2>1, <3>2
      <4> HIDE DEF p, q
      <4>2. StepsTo(F, p, Append(u, x), F[<<q, x>>])
        BY <4>1, StepsToAppend
      <4> QED BY <4>2 DEF p, q
    <3>4. F[<<held(u), x>>] = held(Append(u, x))
      BY <1>4, <2>1, <3>1
    <3> QED BY <3>3, <3>4
  <2> QED BY <2>1, <2>2
<1>7. T = Seq(Cell)
  <2>1. T \in SUBSET Seq(Cell)
    OBVIOUS
  <2> HIDE DEF T
  <2> QED BY <1>5, <1>6, <2>1, AppendInduction
<1> HIDE DEF P
<1>8. \A u \in Seq(Cell) : P(u)
  BY <1>7
<1> QED BY <1>8 DEF P, F, held

\* and as many as it has are its line.
LEMMA UirWhole ==
    ASSUME NEW f \in Nat, NEW lines \in Seq(Line),
           NEW x \in Seq(Cell), NEW c \in Cell, Len(x) + 1 = UIRT_UIR_CODE_LEN
    PROVE  /\ BytesOf(Append(x, c)) \in Line
           /\ StepsTo(Reader("USM_M_UIR", f), Between(lines), Append(x, c),
                      Between(Append(lines, BytesOf(Append(x, c)))))
<1> DEFINE m == "USM_M_UIR"
           F == Reader(m, f)
           v == Reads("interspace", BytesOf(x), NoTables, lines)
           z == Append(BytesOf(x), c.b)
           base == Between(lines)
<1>1. /\ IsStep(F, Reading, Cell) /\ base \in Reading
      /\ \A r \in Reading, d \in Cell : F[<<r, d>>] = ReadCell(m, f, r, d)
  BY ReaderStep, EmptyReadings
<1>2. /\ BytesOf(x) \in Seq(Byte) /\ Len(BytesOf(x)) = Len(x) /\ Len(x) \in Nat
      /\ "interspace" \in Places
  BY BytesOfType DEF Places
<1>3. v \in Reading
  BY <1>2, NoTablesType, ReadsType
<1>4. z = BytesOf(Append(x, c)) /\ Append(x, c) \in Seq(Cell)
  BY BytesOfAppend
<1>5. Len(z) = UIRT_UIR_CODE_LEN /\ z \in Seq(Byte)
  <2>1. Len(z) = Len(x) + 1
    BY <1>2
  <2>2. z \in Seq(Byte)
    BY <1>4, BytesOfType
  <2> QED BY <2>1, <2>2
<1>6. Len(x) < UIRT_UIR_CODE_LEN
  BY <1>2, CodeLenAssumption
<1>7. StepsTo(F, base, x, v)
  BY <1>6, UirHeld
<1>8. /\ v.at = "interspace" /\ v.token = BytesOf(x) /\ v.tables = NoTables /\ v.lines = lines
  BY DEF Reads
<1> HIDE DEF F, v, z, base
<1>9. StepsTo(F, base, Append(x, c), F[<<v, c>>])
  BY <1>1, <1>7, StepsToAppend
<1>10. F[<<v, c>>] = ReadCell(m, f, v, c)
  BY <1>1, <1>3
<1>11. ReadCell(m, f, v, c) = ReadUir(v, z)
  BY <1>8 DEF ReadCell, z
<1>12. ReadUir(v, z) = Between(Append(lines, z))
  <2>1. ~(Len(z) < UIRT_UIR_CODE_LEN)
    BY <1>5, CodeLenAssumption
  <2> QED BY <1>8, <2>1 DEF ReadUir
<1>13. z \in Line
  BY <1>5, BytesAreLine
<1> QED BY <1>4, <1>9, <1>10, <1>11, <1>12, <1>13 DEF F, base

\* A code that is all there is taken out.
LEMMA AheadUir ==
    ASSUME NEW f \in Nat, NEW lines \in Seq(Line), NEW a \in Seq(Byte), NEW w, NEW L,
           Ahead("USM_M_UIR", f, Between(lines), a, 0, w, L), Len(a) >= UIRT_UIR_CODE_LEN
    PROVE  LET line == SubSeq(a, 1, UIRT_UIR_CODE_LEN)
               rest == SubSeq(a, UIRT_UIR_CODE_LEN + 1, Len(a))
           IN  /\ line \in Line /\ line # <<>>
               /\ Ahead("USM_M_UIR", f, Between(Append(lines, line)), rest, 0, w, L)
<1> DEFINE m == "USM_M_UIR"
           F == Reader(m, f)
           j == UIRT_UIR_CODE_LEN
           line == SubSeq(a, 1, j)
           rest == SubSeq(a, j + 1, Len(a))
           base == Between(lines)
<1>1. PICK u, t : /\ CellsFrom(u, a, 0)
                  /\ StepsTo(F, base, u, t) /\ MayStop(m, t)
                  /\ StepsTo(F, t, w, Between(L))
  BY DEF Ahead
<1>2. u \in Seq(Cell) /\ Len(u) = Len(a) /\ \A i \in 1 .. Len(u) : u[i].b = a[i]
  <2>1. u \in Seq(Cell) /\ Len(u) + 0 = Len(a) /\ \A i \in 1 .. Len(u) : u[i].b = a[0 + i]
    BY <1>1 DEF CellsFrom
  <2> QED BY <2>1
<1>3. j \in Nat /\ j >= 1 /\ j <= Len(a) /\ Len(a) \in Nat /\ j \in 1 .. Len(u)
  BY <1>2, CodeLenAssumption
<1> DEFINE x == SubSeq(u, 1, j - 1)
           y == SubSeq(u, 1, j)
           z == SubSeq(u, j + 1, Len(u))
<1>4. /\ x \in Seq(Cell) /\ y \in Seq(Cell) /\ z \in Seq(Cell) /\ u[j] \in Cell
      /\ Len(y) = j /\ Len(z) = Len(u) - j
      /\ y = Append(x, u[j]) /\ u = y \o z
      /\ \A i \in 1 .. j : y[i] = u[i]
  BY <1>2, <1>3, CutCells
<1>5. Len(x) + 1 = j
  BY <1>2, <1>3
<1>6. \A i \in 1 .. Len(z) : z[i] = u[j + i]
  BY <1>2, <1>3
<1>7. /\ line \in Seq(Byte) /\ Len(line) = j /\ \A i \in 1 .. j : line[i] = a[i]
      /\ rest \in Seq(Byte) /\ Len(rest) = Len(a) - j
      /\ \A i \in 1 .. Len(rest) : rest[i] = a[j + i]
  <2>1. Len(line) = j /\ Len(rest) = Len(a) - j
    BY <1>3
  <2>2. line \in Seq(Byte) /\ \A i \in 1 .. j : line[i] = a[i]
    BY <1>3
  <2>3. rest \in Seq(Byte)
    BY <1>3
  <2>4. ASSUME NEW i \in 1 .. Len(rest) PROVE rest[i] = a[j + i]
    <3>1. i \in 1 .. (Len(a) - j) /\ j + 1 + i - 1 = j + i
      BY <1>3, <2>1
    <3> QED BY <1>3, <3>1
  <2> QED BY <2>1, <2>2, <2>3, <2>4
<1>8. IsStep(F, Reading, Cell) /\ base \in Reading
  BY ReaderStep, EmptyReadings
<1> HIDE DEF x, y, z, line, rest
<1>9. BytesOf(y) = line
  <2>1. /\ BytesOf(y) \in Seq(Byte) /\ Len(BytesOf(y)) = j
        /\ \A i \in 1 .. j : BytesOf(y)[i] = y[i].b
    BY <1>4, BytesOfType
  <2>2. \A i \in 1 .. j : i \in 1 .. Len(u)
    BY <1>3
  <2>3. \A i \in 1 .. j : BytesOf(y)[i] = line[i]
    BY <1>2, <1>4, <1>7, <2>1, <2>2
  <2> QED BY <1>7, <2>1, <2>3, SeqEqual
<1>10. line \in Line /\ StepsTo(F, base, y, Between(Append(lines, line)))
  <2> DEFINE c == u[j]
  <2>1. x \in Seq(Cell) /\ c \in Cell /\ y = Append(x, c)
    BY <1>4
  <2> HIDE DEF c, base
  <2>2. /\ BytesOf(Append(x, c)) \in Line
        /\ StepsTo(Reader("USM_M_UIR", f), Between(lines), Append(x, c),
                      Between(Append(lines, BytesOf(Append(x, c)))))
    BY <1>5, <2>1, UirWhole
  <2> QED BY <1>9, <2>1, <2>2 DEF base
<1> HIDE DEF F, base
<1>11. PICK b \in Reading : StepsTo(F, base, y, b) /\ StepsTo(F, b, z, t)
  BY <1>1, <1>2, <1>4, <1>8, StepsToSplit
<1>12. b = Between(Append(lines, line))
  <2> DEFINE q == Between(Append(lines, line))
  <2>1. StepsTo(F, base, y, q) /\ StepsTo(F, base, y, b) /\ y \in Seq(Cell)
    BY <1>4, <1>10, <1>11
  <2> HIDE DEF q
  <2>2. b = q
    BY <1>8, <2>1, StepsToOnly
  <2> QED BY <2>2 DEF q
<1>13. CellsFrom(z, rest, 0)
  <2>1. Len(z) + 0 = Len(rest)
    BY <1>2, <1>3, <1>4, <1>7
  <2>2. ASSUME NEW i \in 1 .. Len(z) PROVE z[i].b = rest[0 + i]
    <3>1. j + i \in 1 .. Len(u) /\ i \in 1 .. Len(rest) /\ 0 + i = i
      BY <1>2, <1>3, <1>4, <1>7
    <3>2. z[i] = u[j + i] /\ u[j + i].b = a[j + i] /\ rest[i] = a[j + i]
      BY <1>2, <1>6, <1>7, <3>1
    <3> QED BY <3>1, <3>2
  <2> QED BY <1>4, <2>1, <2>2 DEF CellsFrom
<1>14. line # <<>>
  <2>1. Len(<<>>) = 0
    OBVIOUS
  <2> QED BY <1>3, <1>7, <2>1
<1>15. StepsTo(F, Between(Append(lines, line)), z, t)
  BY <1>11, <1>12
<1>16. Ahead(m, f, Between(Append(lines, line)), rest, 0, w, L)
  BY <1>1, <1>13, <1>15 DEF Ahead, F
<1> QED BY <1>10, <1>14, <1>16 DEF line, rest

\* Bytes of a code that is not all there are not left over.
LEMMA AheadUirEnd ==
    ASSUME NEW f \in Nat, NEW lines \in Seq(Line), NEW a \in Seq(Byte), NEW L,
           Ahead("USM_M_UIR", f, Between(lines), a, 0, <<>>, L), Len(a) < UIRT_UIR_CODE_LEN
    PROVE  a = <<>> /\ L = lines
<1> DEFINE m == "USM_M_UIR"
           F == Reader(m, f)
           base == Between(lines)
<1>1. PICK u, t : /\ CellsFrom(u, a, 0)
                  /\ StepsTo(F, base, u, t)
                  /\ StepsTo(F, t, <<>>, Between(L))
  BY DEF Ahead
<1>2. u \in Seq(Cell) /\ Len(u) = Len(a)
  <2>1. u \in Seq(Cell) /\ Len(u) + 0 = Len(a)
    BY <1>1 DEF CellsFrom
  <2> QED BY <2>1
<1>3. IsStep(F, Reading, Cell) /\ base \in Reading
  BY ReaderStep, EmptyReadings
<1> DEFINE v == Reads("interspace", BytesOf(u), NoTables, lines)
<1>4. StepsTo(F, base, u, v)
  BY <1>2, UirHeld
<1> HIDE DEF F, base, v
<1>5. t = v
  BY <1>1, <1>2, <1>3, <1>4, StepsToOnly
<1>6. t \in Reading
  BY <1>1, <1>2, <1>3, StepsToUnique
<1>7. Between(L) = v
  BY <1>1, <1>3, <1>5, <1>6, StepsToNone
<1>8. BytesOf(u) = <<>> /\ L = lines
  BY <1>7 DEF v, Between, Reads
<1>9. Len(a) = 0
  BY <1>2, <1>8, BytesOfType
<1> QED BY <1>8, <1>9, NoBytes

(***************************************************************************)
(* The tokens of RAW and RAW2 codes in the buffer: what is buffered after  *)
(* a place between tokens is a token and more.                             *)
(***************************************************************************)

\* Tokens of one to four bytes.
LEMMA TokenBytes ==
    ASSUME NEW x, NEW y, NEW z, NEW t
    PROVE  /\ Len(<<x>>) = 1 /\ <<x>>[1] = x
           /\ Append(<<x>>, y) = <<x, y>> /\ Append(<<x, y>>, z) = <<x, y, z>>
           /\ Append(<<x, y, z>>, t) = <<x, y, z, t>>
           /\ Len(<<x, y>>) = 2 /\ <<x, y>>[1] = x
           /\ Len(<<x, y, z>>) = 3 /\ <<x, y, z>>[3] = z
           /\ Len(<<x, y, z, t>>) = 4 /\ <<x, y, z, t>>[3] = z
<1> DEFINE S == {x, y, z, t}
<1>1. x \in S /\ y \in S /\ z \in S /\ t \in S
  OBVIOUS
<1> HIDE DEF S
<1>2. /\ <<x>> \in Seq(S) /\ <<x, y>> \in Seq(S) /\ <<x, y, z>> \in Seq(S)
      /\ <<x, y, z, t>> \in Seq(S)
  BY <1>1
<1>3. Append(<<x>>, y) = <<x, y>>
  <2> DEFINE a == Append(<<x>>, y)
             b == <<x, y>>
  <2>1. a \in Seq(S) /\ b \in Seq(S) /\ Len(a) = 2 /\ Len(b) = 2
    BY <1>1, <1>2
  <2>2. a[1] = x /\ a[2] = y /\ b[1] = x /\ b[2] = y
    BY <1>1, <1>2
  <2>3. \A i \in 1 .. 2 : i = 1 \/ i = 2
    OBVIOUS
  <2> HIDE DEF a, b
  <2> QED BY <2>1, <2>2, <2>3, SeqEqual DEF a, b
<1>4. Append(<<x, y>>, z) = <<x, y, z>>
  <2> DEFINE a == Append(<<x, y>>, z)
             b == <<x, y, z>>
  <2>1. a \in Seq(S) /\ b \in Seq(S) /\ Len(a) = 3 /\ Len(b) = 3
    BY <1>1, <1>2
  <2>2. a[1] = x /\ a[2] = y /\ a[3] = z /\ b[1] = x /\ b[2] = y /\ b[3] = z
    BY <1>1, <1>2
  <2>3. \A i \in 1 .. 3 : i = 1 \/ i = 2 \/ i = 3
    OBVIOUS
  <2> HIDE DEF a, b
  <2> QED BY <2>1, <2>2, <2>3, SeqEqual DEF a, b
<1>5. Append(<<x, y, z>>, t) = <<x, y, z, t>>
  <2> DEFINE a == Append(<<x, y, z>>, t)
             b == <<x, y, z, t>>
  <2>1. a \in Seq(S) /\ b \in Seq(S) /\ Len(a) = 4 /\ Len(b) = 4
    BY <1>1, <1>2
  <2>2. /\ a[1] = x /\ a[2] = y /\ a[3] = z /\ a[4] = t
        /\ b[1] = x /\ b[2] = y /\ b[3] = z /\ b[4] = t
    BY <1>1, <1>2
  <2>3. \A i \in 1 .. 4 : i = 1 \/ i = 2 \/ i = 3 \/ i = 4
    OBVIOUS
  <2> HIDE DEF a, b
  <2> QED BY <2>1, <2>2, <2>3, SeqEqual DEF a, b
<1> QED BY <1>3, <1>4, <1>5

\* What a token says does not depend on the bytes a reader holds.
LEMMA TokenAlone ==
    ASSUME NEW m, NEW f, NEW s, NEW held, NEW bytes, NEW ends,
           s.at \in {"interspace", "pulse", "space", "gap"}
    PROVE  LET q == Reads(s.at, held, s.tables, s.lines)
           IN  /\ q.at = s.at /\ q.tables = s.tables /\ q.lines = s.lines
               /\ ReadToken(m, f, q, bytes, ends) = ReadToken(m, f, s, bytes, ends)
<1> DEFINE q == Reads(s.at, held, s.tables, s.lines)
<1>1. q.at = s.at /\ q.tables = s.tables /\ q.lines = s.lines
  BY ReadsFields
<1> HIDE DEF q
<1>2. CASE s.at = "interspace"
  BY <1>1, <1>2 DEF ReadToken, q
<1>3. CASE s.at = "pulse"
  <2>1. ReadPulse(m, q, bytes, ends) = ReadPulse(m, s, bytes, ends)
    BY <1>1 DEF ReadPulse
  <2>2. ReadToken(m, f, q, bytes, ends) = ReadPulse(m, q, bytes, ends)
    BY <1>1, <1>3 DEF ReadToken
  <2>3. ReadToken(m, f, s, bytes, ends) = ReadPulse(m, s, bytes, ends)
    BY <1>3 DEF ReadToken
  <2> QED BY <1>1, <2>1, <2>2, <2>3 DEF q
<1>4. CASE s.at \in {"space", "gap"}
  <2>1. ReadSpace(m, f, q, bytes) = ReadSpace(m, f, s, bytes)
    BY <1>1 DEF ReadSpace
  <2>2. ReadToken(m, f, q, bytes, ends) = ReadSpace(m, f, q, bytes)
    BY <1>1, <1>4 DEF ReadToken
  <2>3. ReadToken(m, f, s, bytes, ends) = ReadSpace(m, f, s, bytes)
    BY <1>4 DEF ReadToken
  <2> QED BY <1>1, <2>1, <2>2, <2>3 DEF q
<1> QED BY <1>2, <1>3, <1>4

\* The first byte of a token.
LEMMA FirstByte ==
    ASSUME NEW m, m # "USM_M_UIR", NEW f \in Nat, NEW s \in Reading, s.token = <<>>,
           NEW a, NEW k \in Nat, NEW w, NEW L,
           Ahead(m, f, s, a, k, w, L), Len(a) \in Nat, k < Len(a)
    PROVE  LET bytes == <<a[k + 1]>>
           IN  /\ bytes \in Seq(Byte) /\ a[k + 1] \in Byte
               /\ \/ FullAhead(m, f, s, bytes, a, k + 1, w, L)
                  \/ MoreAhead(m, f, s, bytes, a, k + 1, w, L)
<1>1. Append(s.token, a[k + 1]) = <<a[k + 1]>>
  OBVIOUS
<1>2. LET bytes == Append(s.token, a[k + 1])
      IN  /\ bytes \in Seq(Byte) /\ a[k + 1] \in Byte
          /\ \/ FullAhead(m, f, s, bytes, a, k + 1, w, L)
             \/ MoreAhead(m, f, s, bytes, a, k + 1, w, L)
  BY AheadByte
<1> QED BY <1>1, <1>2

\* Another byte of a token.
LEMMA AnotherByte ==
    ASSUME NEW m, m # "USM_M_UIR", NEW f \in Nat, NEW s \in Reading,
           NEW bytes \in Seq(Byte),
           NEW a, NEW k \in Nat, NEW w, NEW L,
           MoreAhead(m, f, s, bytes, a, k, w, L), Len(a) \in Nat
    PROVE  LET more == Append(bytes, a[k + 1])
           IN  /\ k < Len(a) /\ more \in Seq(Byte) /\ a[k + 1] \in Byte
               /\ \/ FullAhead(m, f, s, more, a, k + 1, w, L)
                  \/ MoreAhead(m, f, s, more, a, k + 1, w, L)
<1> DEFINE q == Reads(s.at, bytes, s.tables, s.lines)
           more == Append(bytes, a[k + 1])
<1>1. k < Len(a) /\ q \in Reading /\ Ahead(m, f, q, a, k, w, L)
  BY DEF MoreAhead
<1>2. q.at # "bad" /\ q.token = bytes /\ q.at = s.at /\ q.tables = s.tables /\ q.lines = s.lines
  <2>1. q.token = bytes /\ q.at = s.at /\ q.tables = s.tables /\ q.lines = s.lines
    BY ReadsFields
  <2> HIDE DEF q
  <2>2. q.at # "bad"
    BY <1>1, AheadNotRefused
  <2> QED BY <2>1, <2>2
<1>3. s.at \in {"interspace", "pulse", "space", "gap"}
  BY <1>2, ReadingType DEF Places
<1>4. \A ends : ReadToken(m, f, q, more, ends) = ReadToken(m, f, s, more, ends)
  <2> HIDE DEF more
  <2> QED BY <1>3, TokenAlone
<1>5. /\ more \in Seq(Byte) /\ a[k + 1] \in Byte
      /\ \/ FullAhead(m, f, q, more, a, k + 1, w, L)
         \/ MoreAhead(m, f, q, more, a, k + 1, w, L)
  <2> HIDE DEF q
  <2>1. LET b == Append(q.token, a[k + 1])
        IN  /\ b \in Seq(Byte) /\ a[k + 1] \in Byte
            /\ \/ FullAhead(m, f, q, b, a, k + 1, w, L)
               \/ MoreAhead(m, f, q, b, a, k + 1, w, L)
    BY <1>1, AheadByte
  <2>2. Append(q.token, a[k + 1]) = more
    BY <1>2
  <2> QED BY <2>1, <2>2
<1> HIDE DEF q, more
<1>6. FullAhead(m, f, q, more, a, k + 1, w, L) => FullAhead(m, f, s, more, a, k + 1, w, L)
  BY <1>2, <1>4, Zenon DEF FullAhead
<1>7. MoreAhead(m, f, q, more, a, k + 1, w, L) => MoreAhead(m, f, s, more, a, k + 1, w, L)
  BY <1>2, Zenon DEF MoreAhead
<1> QED BY <1>1, <1>5, <1>6, <1>7 DEF more

\* An interspace,
LEMMA InterspaceAhead ==
    ASSUME NEW m, m # "USM_M_UIR", NEW f \in Nat, NEW s \in Reading, s.token = <<>>,
           s.at = "interspace", NEW a, NEW k \in Nat, NEW w, NEW L,
           Ahead(m, f, s, a, k, w, L), Len(a) \in Nat, k < Len(a)
    PROVE  /\ k + 2 <= Len(a)
           /\ Reads("pulse", <<>>, s.tables, s.lines) \in Reading
           /\ Ahead(m, f, Reads("pulse", <<>>, s.tables, s.lines), a, k + 2, w, L)
<1> DEFINE b1 == <<a[k + 1]>>
           b2 == Append(b1, a[(k + 1) + 1])
<1>1. /\ b1 \in Seq(Byte)
      /\ \/ FullAhead(m, f, s, b1, a, k + 1, w, L)
         \/ MoreAhead(m, f, s, b1, a, k + 1, w, L)
  BY FirstByte
<1>2. Len(b1) = 1 /\ k + 1 \in Nat /\ (k + 1) + 1 = k + 2
  OBVIOUS
<1>3. \A b : TokenLength(m, s.at, b) = 2
  BY DEF TokenLength
<1> HIDE DEF b1
<1>4. MoreAhead(m, f, s, b1, a, k + 1, w, L)
  BY <1>1, <1>2, <1>3 DEF FullAhead
<1>5. /\ k + 1 < Len(a) /\ b2 \in Seq(Byte)
      /\ \/ FullAhead(m, f, s, b2, a, k + 2, w, L)
         \/ MoreAhead(m, f, s, b2, a, k + 2, w, L)
  <2>1. LET more == Append(b1, a[(k + 1) + 1])
        IN  /\ k + 1 < Len(a) /\ more \in Seq(Byte)
            /\ \/ FullAhead(m, f, s, more, a, (k + 1) + 1, w, L)
               \/ MoreAhead(m, f, s, more, a, (k + 1) + 1, w, L)
    BY <1>1, <1>2, <1>4, AnotherByte
  <2> QED BY <1>2, <2>1
<1>6. Len(b2) = 2
  BY TokenBytes DEF b1
<1> HIDE DEF b2
<1>7. FullAhead(m, f, s, b2, a, k + 2, w, L)
  BY <1>3, <1>5, <1>6 DEF MoreAhead
<1>8. \A ends : ReadToken(m, f, s, b2, ends) = Reads("pulse", <<>>, s.tables, s.lines)
  BY DEF ReadToken
<1>9. /\ Reads("pulse", <<>>, s.tables, s.lines) \in Reading
      /\ Ahead(m, f, Reads("pulse", <<>>, s.tables, s.lines), a, k + 2, w, L)
  BY <1>7, <1>8 DEF FullAhead
<1> QED BY <1>5, <1>9

\* a pulse or a space of a RAW code,
LEMMA RawTokenAhead ==
    ASSUME NEW f \in Nat, NEW s \in Reading, s.token = <<>>,
           s.at # "interspace", NEW a, NEW k \in Nat, NEW w, NEW L,
           Ahead("USM_M_RAW", f, s, a, k, w, L), Len(a) \in Nat, k < Len(a)
    PROVE  /\ a[k + 1] \in Byte
           /\ FullAhead("USM_M_RAW", f, s, <<a[k + 1]>>, a, k + 1, w, L)
<1> DEFINE b1 == <<a[k + 1]>>
           m == "USM_M_RAW"
<1>1. /\ b1 \in Seq(Byte) /\ a[k + 1] \in Byte
      /\ \/ FullAhead(m, f, s, b1, a, k + 1, w, L)
         \/ MoreAhead(m, f, s, b1, a, k + 1, w, L)
  BY FirstByte
<1>2. Len(b1) = 1
  OBVIOUS
<1>3. TokenLength(m, s.at, b1) = 1
  BY DEF TokenLength
<1> HIDE DEF b1, m
<1> QED BY <1>1, <1>2, <1>3 DEF MoreAhead, b1, m

\* a space of a RAW2 code,
LEMMA Raw2SpaceAhead ==
    ASSUME NEW f \in Nat, NEW s \in Reading, s.token = <<>>,
           s.at \in {"space", "gap"}, NEW a, NEW k \in Nat, NEW w, NEW L,
           Ahead("USM_M_RAW2", f, s, a, k, w, L), Len(a) \in Nat, k < Len(a)
    PROVE  /\ a[k + 1] \in Byte
           /\ \/ /\ a[k + 1] = 255
                 /\ FullAhead("USM_M_RAW2", f, s, <<a[k + 1]>>, a, k + 1, w, L)
              \/ /\ a[k + 1] # 255 /\ k + 2 <= Len(a) /\ a[k + 2] \in Byte
                 /\ FullAhead("USM_M_RAW2", f, s, <<a[k + 1], a[k + 2]>>, a, k + 2, w, L)
<1> DEFINE b1 == <<a[k + 1]>>
           b2 == Append(b1, a[(k + 1) + 1])
           m == "USM_M_RAW2"
<1>1. /\ b1 \in Seq(Byte) /\ a[k + 1] \in Byte
      /\ \/ FullAhead(m, f, s, b1, a, k + 1, w, L)
         \/ MoreAhead(m, f, s, b1, a, k + 1, w, L)
  BY FirstByte
<1>2. Len(b1) = 1 /\ b1[1] = a[k + 1] /\ k + 1 \in Nat /\ (k + 1) + 1 = k + 2
  OBVIOUS
<1>3. /\ \A b : b[1] = 255 => TokenLength(m, s.at, b) = 1
      /\ \A b : b[1] # 255 => TokenLength(m, s.at, b) = 2
  BY DEF TokenLength
<1>4. CASE a[k + 1] = 255
  <2> HIDE DEF m
  <2>1. TokenLength(m, s.at, b1) = 1
    BY <1>2, <1>3, <1>4
  <2> HIDE DEF b1
  <2>2. FullAhead(m, f, s, b1, a, k + 1, w, L)
    BY <1>1, <1>2, <2>1 DEF MoreAhead
  <2> QED BY <1>1, <1>4, <2>2 DEF b1, m
<1>5. CASE a[k + 1] # 255
  <2> HIDE DEF m
  <2>1. TokenLength(m, s.at, b1) = 2
    BY <1>2, <1>3, <1>5
  <2>2. m # "USM_M_UIR"
    BY DEF m
  <2>3. b2 = <<a[k + 1], a[k + 2]>> /\ Len(b2) = 2 /\ b2[1] = a[k + 1]
    <3> DEFINE x == a[k + 1]
               y == a[k + 2]
    <3>1. b2 = Append(<<x>>, y)
      BY <1>2
    <3> HIDE DEF x, y, b2
    <3>2. b2 = <<x, y>>
      BY <3>1, TokenBytes, Zenon
    <3>3. Len(b2) = 2 /\ b2[1] = x
      BY <3>2, TokenBytes
    <3> QED BY <3>2, <3>3 DEF x, y
  <2> HIDE DEF b1
  <2>4. MoreAhead(m, f, s, b1, a, k + 1, w, L)
    BY <1>1, <1>2, <2>1 DEF FullAhead
  <2>5. LET more == Append(b1, a[(k + 1) + 1])
        IN  /\ k + 1 < Len(a) /\ more \in Seq(Byte) /\ a[(k + 1) + 1] \in Byte
            /\ \/ FullAhead(m, f, s, more, a, (k + 1) + 1, w, L)
               \/ MoreAhead(m, f, s, more, a, (k + 1) + 1, w, L)
    BY <1>1, <1>2, <2>2, <2>4, AnotherByte
  <2>6. TokenLength(m, s.at, b2) = 2
    BY <1>3, <1>5, <2>3
  <2> HIDE DEF b2
  <2>7. FullAhead(m, f, s, b2, a, k + 2, w, L)
    BY <1>2, <2>3, <2>5, <2>6 DEF MoreAhead, b2
  <2>8. k + 2 <= Len(a) /\ a[k + 2] \in Byte
    BY <1>2, <2>5
  <2> QED BY <1>1, <1>5, <2>3, <2>7, <2>8 DEF m
<1> QED BY <1>4, <1>5

\* and a pulse of one.
LEMMA Raw2PulseAhead ==
    ASSUME NEW f \in Nat, NEW s \in Reading, s.token = <<>>,
           s.at = "pulse", NEW a, NEW k \in Nat, NEW w, NEW L,
           Ahead("USM_M_RAW2", f, s, a, k, w, L), Len(a) \in Nat, k < Len(a)
    PROVE  /\ k + 3 <= Len(a)
           /\ a[k + 1] \in Byte /\ a[k + 2] \in Byte /\ a[k + 3] \in Byte
           /\ \/ /\ a[k + 3] < 128
                 /\ FullAhead("USM_M_RAW2", f, s, <<a[k + 1], a[k + 2], a[k + 3]>>,
                              a, k + 3, w, L)
              \/ /\ a[k + 3] >= 128 /\ k + 4 <= Len(a) /\ a[k + 4] \in Byte
                 /\ FullAhead("USM_M_RAW2", f, s,
                              <<a[k + 1], a[k + 2], a[k + 3], a[k + 4]>>, a, k + 4, w, L)
<1> DEFINE b1 == <<a[k + 1]>>
           b2 == Append(b1, a[(k + 1) + 1])
           b3 == Append(b2, a[(k + 2) + 1])
           b4 == Append(b3, a[(k + 3) + 1])
           m == "USM_M_RAW2"
<1>0. /\ k + 1 \in Nat /\ k + 2 \in Nat /\ k + 3 \in Nat
      /\ (k + 1) + 1 = k + 2 /\ (k + 2) + 1 = k + 3 /\ (k + 3) + 1 = k + 4
  OBVIOUS
<1>1. /\ b1 \in Seq(Byte) /\ a[k + 1] \in Byte
      /\ \/ FullAhead(m, f, s, b1, a, k + 1, w, L)
         \/ MoreAhead(m, f, s, b1, a, k + 1, w, L)
  BY FirstByte
<1>2. /\ Len(b1) = 1 /\ Len(b2) = 2 /\ Len(b3) = 3 /\ Len(b4) = 4
      /\ b3[3] = a[k + 3] /\ b4[3] = a[k + 3]
      /\ b3 = <<a[k + 1], a[k + 2], a[k + 3]>>
      /\ b4 = <<a[k + 1], a[k + 2], a[k + 3], a[k + 4]>>
  <2> DEFINE x == a[k + 1]
             y == a[k + 2]
             z == a[k + 3]
             t == a[k + 4]
  <2>1. b1 = <<x>> /\ b2 = Append(b1, y) /\ b3 = Append(b2, z) /\ b4 = Append(b3, t)
    BY <1>0
  <2> HIDE DEF x, y, z, t, b1, b2, b3, b4
  <2>2. b2 = <<x, y>> /\ b3 = <<x, y, z>> /\ b4 = <<x, y, z, t>>
    <3>1. /\ Append(<<x>>, y) = <<x, y>> /\ Append(<<x, y>>, z) = <<x, y, z>>
          /\ Append(<<x, y, z>>, t) = <<x, y, z, t>>
      BY TokenBytes
    <3> QED BY <2>1, <3>1, Zenon
  <2>3. /\ Len(b1) = 1 /\ Len(b2) = 2 /\ Len(b3) = 3 /\ Len(b4) = 4
        /\ b3[3] = z /\ b4[3] = z
    BY <2>1, <2>2, TokenBytes
  <2> QED BY <2>2, <2>3 DEF x, y, z, t
<1>3. /\ \A b : Len(b) \in {1, 2} => TokenLength(m, s.at, b) = 3
      /\ \A b : Len(b) \in {3, 4} /\ b[3] >= 128 => TokenLength(m, s.at, b) = 4
      /\ \A b : Len(b) \in {3, 4} /\ ~(b[3] >= 128) => TokenLength(m, s.at, b) = 3
  <2>1. \A b : TokenLength(m, s.at, b) = IF Len(b) >= 3 /\ b[3] >= 128 THEN 4 ELSE 3
    BY DEF TokenLength
  <2> HIDE DEF m
  <2>2. \A b : Len(b) \in {1, 2} => ~(Len(b) >= 3)
    <3>1. ~(1 >= 3) /\ ~(2 >= 3)
      OBVIOUS
    <3> QED BY <3>1, Zenon
  <2>3. \A b : Len(b) \in {3, 4} => Len(b) >= 3
    <3>1. 3 >= 3 /\ 4 >= 3
      OBVIOUS
    <3> QED BY <3>1, Zenon
  <2> QED BY <2>1, <2>2, <2>3
<1> HIDE DEF b1, b2, b3, b4
<1>4. m # "USM_M_UIR"
  OBVIOUS
<1> HIDE DEF m
<1>5. MoreAhead(m, f, s, b1, a, k + 1, w, L)
  <2>1. TokenLength(m, s.at, b1) = 3
    BY <1>2, <1>3
  <2> QED BY <1>1, <1>2, <2>1 DEF FullAhead
<1>6. /\ b2 \in Seq(Byte) /\ a[k + 2] \in Byte
      /\ \/ FullAhead(m, f, s, b2, a, k + 2, w, L)
         \/ MoreAhead(m, f, s, b2, a, k + 2, w, L)
  <2>1. LET more == Append(b1, a[(k + 1) + 1])
        IN  /\ k + 1 < Len(a) /\ more \in Seq(Byte) /\ a[(k + 1) + 1] \in Byte
            /\ \/ FullAhead(m, f, s, more, a, (k + 1) + 1, w, L)
               \/ MoreAhead(m, f, s, more, a, (k + 1) + 1, w, L)
    BY <1>0, <1>1, <1>4, <1>5, AnotherByte
  <2> QED BY <1>0, <2>1 DEF b2
<1>7. MoreAhead(m, f, s, b2, a, k + 2, w, L)
  <2>1. TokenLength(m, s.at, b2) = 3
    BY <1>2, <1>3
  <2> QED BY <1>2, <1>6, <2>1 DEF FullAhead
<1>8. /\ b3 \in Seq(Byte) /\ a[k + 3] \in Byte /\ k + 2 < Len(a)
      /\ \/ FullAhead(m, f, s, b3, a, k + 3, w, L)
         \/ MoreAhead(m, f, s, b3, a, k + 3, w, L)
  <2>1. LET more == Append(b2, a[(k + 2) + 1])
        IN  /\ k + 2 < Len(a) /\ more \in Seq(Byte) /\ a[(k + 2) + 1] \in Byte
            /\ \/ FullAhead(m, f, s, more, a, (k + 2) + 1, w, L)
               \/ MoreAhead(m, f, s, more, a, (k + 2) + 1, w, L)
    BY <1>0, <1>4, <1>6, <1>7, AnotherByte
  <2> QED BY <1>0, <2>1 DEF b3
<1>9. k + 3 <= Len(a) /\ a[k + 3] \in Nat
  BY <1>8, ByteIsNat
<1>10. CASE a[k + 3] < 128
  <2>1. TokenLength(m, s.at, b3) = 3
    BY <1>2, <1>3, <1>9, <1>10
  <2>2. FullAhead(m, f, s, b3, a, k + 3, w, L)
    BY <1>2, <1>8, <2>1 DEF MoreAhead
  <2> QED BY <1>1, <1>2, <1>6, <1>8, <1>9, <1>10, <2>2 DEF m
<1>11. CASE a[k + 3] >= 128
  <2>1. TokenLength(m, s.at, b3) = 4 /\ TokenLength(m, s.at, b4) = 4
    BY <1>2, <1>3, <1>9, <1>11
  <2>2. MoreAhead(m, f, s, b3, a, k + 3, w, L)
    BY <1>2, <1>8, <2>1 DEF FullAhead
  <2>3. /\ k + 3 < Len(a) /\ a[k + 4] \in Byte
        /\ \/ FullAhead(m, f, s, b4, a, k + 4, w, L)
           \/ MoreAhead(m, f, s, b4, a, k + 4, w, L)
    <3>1. LET more == Append(b3, a[(k + 3) + 1])
          IN  /\ k + 3 < Len(a) /\ more \in Seq(Byte) /\ a[(k + 3) + 1] \in Byte
              /\ \/ FullAhead(m, f, s, more, a, (k + 3) + 1, w, L)
                 \/ MoreAhead(m, f, s, more, a, (k + 3) + 1, w, L)
      BY <1>0, <1>4, <1>8, <2>2, AnotherByte
    <3> QED BY <1>0, <3>1 DEF b4
  <2>4. FullAhead(m, f, s, b4, a, k + 4, w, L)
    BY <1>2, <2>1, <2>3 DEF MoreAhead
  <2>5. k + 4 <= Len(a)
    BY <2>3
  <2> QED BY <1>1, <1>2, <1>6, <1>8, <1>9, <1>11, <2>3, <2>4, <2>5 DEF m
<1> QED BY <1>9, <1>10, <1>11
=============================================================================
