---------------------------- MODULE LinkProofs -----------------------------
(***************************************************************************)
(* The decoders and a reader of the wire go through what is buffered and   *)
(* sent together.  LinkInv says so between any two steps of the library;   *)
(* from it nothing is undefined, pairs are whole, and every line that is   *)
(* sent is shown whole, once and in order.                                 *)
(***************************************************************************)
EXTENDS FormatProofs

(***************************************************************************)
(* Where a decoder is in a code, and where a reader of the wire is then.   *)
(***************************************************************************)

\* A decoder in state place has taken k bytes of the buffer and has the tables
\* t; the lines E came out before.  A finished burst is not among them yet.
ReaderAt(m, f, place, done, t, k, E, s) ==
    \/ done = 0 /\ place = "DDS_INIT" /\ s = Between(E)
    \/ done = 0 /\ place = "DDS_INTERSPACE" /\ t = NoTables /\ s = Between(E)
    \/ done = 0 /\ place = "DDS_PULSE" /\ s = Reads("pulse", <<>>, t, E)
    \/ done = 0 /\ place = "DDS_SPACE" /\ s = Reads("space", <<>>, t, E)
    \/ done = 0 /\ place = "DDS_SPACE" /\ k >= 1 /\ s = Reads("gap", <<>>, t, E)
    \/ done = 1 /\ k >= 2 /\ s = AfterGap(Append(E, BurstLine(m, f, t)))
    \/ done = 2 /\ s = Between(Append(E, BurstLine(m, f, t)))

\* From there it reads on to the lines L.
Onward(m, f, place, done, t, a, k, E, w, L) ==
    \E s \in Reading : ReaderAt(m, f, place, done, t, k, E, s) /\ Ahead(m, f, s, a, k, w, L)

\* Between codes.
Through(place, t) ==
    place = "DDS_INIT" \/ (place = "DDS_INTERSPACE" /\ t = NoTables)

RrTables(ctx) == [pulse |-> ctx.pulse, space |-> ctx.space, total |-> 0, samples |-> 0]

Rr2Tables(ctx) == [pulse |-> ctx.pulse, space |-> ctx.space,
                   total |-> ctx.freq_total, samples |-> ctx.nof_freq_samples]

\* What a reader takes a pulse for, unless it refuses it,
LEMMA PulseRead ==
    ASSUME NEW m, NEW f, NEW s, s.at = "pulse", NEW bytes, NEW ends \in BOOLEAN,
           ReadToken(m, f, s, bytes, ends).at # "bad"
    PROVE  LET p == DurationOf(m, bytes)
               c == CyclesOf(m, bytes)
               t == WithPulse(s.tables, p, c)
               r == ReadToken(m, f, s, bytes, ends)
           IN  /\ Len(s.tables.pulse) < RR_MAX_PULSES /\ (c = 0 \/ p # 0)
               /\ r = Reads("space", <<>>, t, s.lines) \/ r = Reads("gap", <<>>, t, s.lines)
<1> DEFINE p == DurationOf(m, bytes)
           c == CyclesOf(m, bytes)
           t == WithPulse(s.tables, p, c)
           r == ReadToken(m, f, s, bytes, ends)
           fits == Len(s.tables.pulse) < RR_MAX_PULSES /\ (c = 0 \/ p # 0)
<1>1. r = IF fits THEN Reads(IF ends THEN "space" ELSE "gap", <<>>, t, s.lines)
          ELSE Refused(s.lines)
  BY DEF ReadToken, ReadPulse
<1>2. Refused(s.lines).at = "bad"
  BY ReadsFields DEF Refused
<1>3. fits
  <2> HIDE DEF fits, t
  <2> QED BY <1>1, <1>2
<1>4. r = Reads("space", <<>>, t, s.lines) \/ r = Reads("gap", <<>>, t, s.lines)
  <2> HIDE DEF fits, t, r
  <2> QED BY <1>1, <1>3
<1> HIDE DEF p, c, t, r
<1> QED BY <1>3, <1>4 DEF p, c, t, r

\* and a space.
LEMMA SpaceRead ==
    ASSUME NEW m, NEW f, NEW s, s.at \in {"space", "gap"}, NEW bytes, NEW ends,
           ReadToken(m, f, s, bytes, ends).at # "bad"
    PROVE  LET d == DurationOf(m, bytes)
               lines == Append(s.lines, BurstLine(m, f, s.tables))
               r == ReadToken(m, f, s, bytes, ends)
           IN  /\ bytes[1] = 255 => r = Between(lines)
               /\ bytes[1] # 255 /\ d > LongestSpace(m) =>
                    r = AfterGap(lines) /\ ~(m = "USM_M_RAW" /\ s.at = "space")
               /\ bytes[1] # 255 /\ ~(d > LongestSpace(m)) =>
                    /\ Len(s.tables.space) < RR_MAX_PULSES
                    /\ r = Reads("pulse", <<>>, WithSpace(s.tables, d), s.lines)
<1> DEFINE d == DurationOf(m, bytes)
           lines == Append(s.lines, BurstLine(m, f, s.tables))
           r == ReadToken(m, f, s, bytes, ends)
           end == bytes[1] = 255
           gap == d > LongestSpace(m)
           cut == m = "USM_M_RAW" /\ s.at = "space"
           fits == Len(s.tables.space) < RR_MAX_PULSES
           t == WithSpace(s.tables, d)
<1>1. r = IF end THEN Between(lines)
          ELSE IF gap THEN IF cut THEN Refused(s.lines) ELSE AfterGap(lines)
          ELSE IF fits THEN Reads("pulse", <<>>, t, s.lines) ELSE Refused(s.lines)
  BY DEF ReadToken, ReadSpace
<1>2. Refused(s.lines).at = "bad"
  BY ReadsFields DEF Refused
<1>3. r.at # "bad"
  OBVIOUS
<1> HIDE DEF end, gap, cut, fits, t, r, lines
<1>4. /\ end => r = Between(lines)
      /\ ~end /\ gap => r = AfterGap(lines) /\ ~cut
      /\ ~end /\ ~gap => fits /\ r = Reads("pulse", <<>>, t, s.lines)
  BY <1>1, <1>2, <1>3
<1> QED BY <1>4, Zenon DEF end, gap, cut, fits, t, r, lines

\* The decoder clears its context.
LEMMA OnInit ==
    ASSUME NEW m, NEW f, NEW t, NEW a, NEW k, NEW E, NEW w, NEW L,
           Onward(m, f, "DDS_INIT", 0, t, a, k, E, w, L)
    PROVE  Onward(m, f, "DDS_INTERSPACE", 0, NoTables, a, k, E, w, L)
BY DEF Onward, ReaderAt

\* It takes the interspace.
LEMMA OnInterspace ==
    ASSUME NEW m, m # "USM_M_UIR", NEW f \in Nat, NEW t, NEW a, NEW k \in Nat,
           NEW E, NEW w, NEW L,
           Onward(m, f, "DDS_INTERSPACE", 0, t, a, k, E, w, L), Len(a) \in Nat, k < Len(a)
    PROVE  /\ k + 2 <= Len(a)
           /\ Onward(m, f, "DDS_PULSE", 0, t, a, k + 2, E, w, L)
<1>1. PICK s \in Reading : /\ ReaderAt(m, f, "DDS_INTERSPACE", 0, t, k, E, s)
                           /\ Ahead(m, f, s, a, k, w, L)
  BY DEF Onward
<1>2. t = NoTables /\ s = Between(E)
  BY <1>1 DEF ReaderAt
<1>3. s.at = "interspace" /\ s.token = <<>> /\ s.tables = t /\ s.lines = E
  BY <1>2, ReadsFields DEF Between
<1>4. /\ k + 2 <= Len(a)
      /\ Reads("pulse", <<>>, s.tables, s.lines) \in Reading
      /\ Ahead(m, f, Reads("pulse", <<>>, s.tables, s.lines), a, k + 2, w, L)
  BY <1>1, <1>3, InterspaceAhead
<1> DEFINE r == Reads("pulse", <<>>, t, E)
<1>5. r \in Reading /\ Ahead(m, f, r, a, k + 2, w, L)
  BY <1>3, <1>4
<1>6. ReaderAt(m, f, "DDS_PULSE", 0, t, k + 2, E, r)
  BY DEF ReaderAt
<1> HIDE DEF r
<1> QED BY <1>4, <1>5, <1>6 DEF Onward

\* A pulse fits its table,
LEMMA OnPulse ==
    ASSUME NEW m, NEW f, NEW t, NEW E, NEW s, s = Reads("pulse", <<>>, t, E), NEW bytes,
           NEW a, NEW k \in Nat, k >= 1, NEW w, NEW L, FullAhead(m, f, s, bytes, a, k, w, L)
    PROVE  LET p == DurationOf(m, bytes)
               c == CyclesOf(m, bytes)
           IN  /\ Len(t.pulse) < RR_MAX_PULSES /\ (c = 0 \/ p # 0)
               /\ Onward(m, f, "DDS_SPACE", 0, WithPulse(t, p, c), a, k, E, w, L)
<1> DEFINE p == DurationOf(m, bytes)
           c == CyclesOf(m, bytes)
           t2 == WithPulse(t, p, c)
<1>1. s.at = "pulse" /\ s.tables = t /\ s.lines = E
  BY ReadsFields
<1>2. PICK ends \in BOOLEAN :
          /\ ReadToken(m, f, s, bytes, ends) \in Reading
          /\ ReadToken(m, f, s, bytes, ends).at # "bad"
          /\ Ahead(m, f, ReadToken(m, f, s, bytes, ends), a, k, w, L)
  BY DEF FullAhead
<1> DEFINE r == ReadToken(m, f, s, bytes, ends)
<1>3. /\ Len(s.tables.pulse) < RR_MAX_PULSES /\ (c = 0 \/ p # 0)
      /\ \/ r = Reads("space", <<>>, WithPulse(s.tables, p, c), s.lines)
         \/ r = Reads("gap", <<>>, WithPulse(s.tables, p, c), s.lines)
  BY <1>1, <1>2, PulseRead
<1>4. r = Reads("space", <<>>, t2, E) \/ r = Reads("gap", <<>>, t2, E)
  BY <1>1, <1>3
<1>5. r \in Reading /\ Ahead(m, f, r, a, k, w, L)
  BY <1>2
<1>6. Len(t.pulse) < RR_MAX_PULSES /\ (c = 0 \/ p # 0)
  BY <1>1, <1>3
<1> HIDE DEF p, c, t2, r
<1>7. ReaderAt(m, f, "DDS_SPACE", 0, t2, k, E, r)
  BY <1>4, Zenon DEF ReaderAt
<1>8. Onward(m, f, "DDS_SPACE", 0, t2, a, k, E, w, L)
  BY <1>5, <1>7 DEF Onward
<1> QED BY <1>6, <1>8 DEF t2, p, c

\* a space fits its table or is the end of the burst.
LEMMA OnSpace ==
    ASSUME NEW m, NEW f, NEW t, NEW E, NEW s,
           s = Reads("space", <<>>, t, E) \/ s = Reads("gap", <<>>, t, E),
           NEW bytes, NEW a, NEW k \in Nat, NEW w, NEW L,
           FullAhead(m, f, s, bytes, a, k, w, L),
           bytes[1] # 255 /\ ~(m = "USM_M_RAW" /\ s = Reads("space", <<>>, t, E)) => k >= 2
    PROVE  LET d == DurationOf(m, bytes)
           IN  /\ bytes[1] = 255 => Onward(m, f, "DDS_PULSE", 2, t, a, k, E, w, L)
               /\ bytes[1] # 255 /\ d > LongestSpace(m) =>
                    Onward(m, f, "DDS_PULSE", 1, t, a, k, E, w, L)
               /\ bytes[1] # 255 /\ ~(d > LongestSpace(m)) =>
                    /\ Len(t.space) < RR_MAX_PULSES
                    /\ Onward(m, f, "DDS_PULSE", 0, WithSpace(t, d), a, k, E, w, L)
<1> DEFINE d == DurationOf(m, bytes)
           lines == Append(E, BurstLine(m, f, t))
<1>1. s.at \in {"space", "gap"} /\ s.tables = t /\ s.lines = E
  BY ReadsFields
<1>2. s # Reads("space", <<>>, t, E) => s.at # "space"
  BY ReadsFields
<1>3. PICK ends \in BOOLEAN :
          /\ ReadToken(m, f, s, bytes, ends) \in Reading
          /\ ReadToken(m, f, s, bytes, ends).at # "bad"
          /\ Ahead(m, f, ReadToken(m, f, s, bytes, ends), a, k, w, L)
  BY DEF FullAhead
<1> DEFINE r == ReadToken(m, f, s, bytes, ends)
<1>4. /\ bytes[1] = 255 => r = Between(lines)
      /\ bytes[1] # 255 /\ d > LongestSpace(m) =>
            r = AfterGap(lines) /\ ~(m = "USM_M_RAW" /\ s.at = "space")
      /\ bytes[1] # 255 /\ ~(d > LongestSpace(m)) =>
            /\ Len(t.space) < RR_MAX_PULSES
            /\ r = Reads("pulse", <<>>, WithSpace(t, d), E)
  BY <1>1, <1>3, SpaceRead
<1>5. r \in Reading /\ Ahead(m, f, r, a, k, w, L)
  BY <1>3
<1>6. s = Reads("space", <<>>, t, E) => s.at = "space"
  BY ReadsFields
<1> HIDE DEF d, r
<1>7. CASE bytes[1] = 255
  <2>1. ReaderAt(m, f, "DDS_PULSE", 2, t, k, E, r)
    BY <1>4, <1>7 DEF ReaderAt
  <2> QED BY <1>5, <1>7, <2>1 DEF Onward
<1>8. CASE bytes[1] # 255 /\ d > LongestSpace(m)
  <2>1. r = AfterGap(lines) /\ ~(m = "USM_M_RAW" /\ s.at = "space")
    BY <1>4, <1>8
  <2>2. k >= 2
    BY <1>6, <1>8, <2>1
  <2>3. ReaderAt(m, f, "DDS_PULSE", 1, t, k, E, r)
    BY <2>1, <2>2 DEF ReaderAt
  <2> QED BY <1>5, <1>8, <2>3 DEF Onward, d
<1>9. CASE bytes[1] # 255 /\ ~(d > LongestSpace(m))
  <2>1. Len(t.space) < RR_MAX_PULSES /\ r = Reads("pulse", <<>>, WithSpace(t, d), E)
    BY <1>4, <1>9
  <2> DEFINE t2 == WithSpace(t, d)
  <2>2. ReaderAt(m, f, "DDS_PULSE", 0, t2, k, E, r)
    <3>1. r = Reads("pulse", <<>>, t2, E)
      BY <2>1
    <3> HIDE DEF t2
    <3> QED BY <3>1, Zenon DEF ReaderAt
  <2> HIDE DEF t2
  <2>3. Onward(m, f, "DDS_PULSE", 0, t2, a, k, E, w, L)
    BY <1>5, <2>2 DEF Onward
  <2> QED BY <1>9, <2>1, <2>3 DEF t2, d
<1> QED BY <1>7, <1>8, <1>9

\* A decoder that waits for a pulse or a space, and the reader.
LEMMA FrontAtPulse ==
    ASSUME NEW m, NEW f, NEW t, NEW k, NEW E, NEW s,
           ReaderAt(m, f, "DDS_PULSE", 0, t, k, E, s)
    PROVE  /\ s = Reads("pulse", <<>>, t, E)
           /\ s.at = "pulse" /\ s.token = <<>>
<1>1. s = Reads("pulse", <<>>, t, E)
  BY DEF ReaderAt
<1> QED BY <1>1, ReadsFields

\* The same before a space.
LEMMA FrontAtSpace ==
    ASSUME NEW m, NEW f, NEW t, NEW k, NEW E, NEW s,
           ReaderAt(m, f, "DDS_SPACE", 0, t, k, E, s)
    PROVE  /\ s = Reads("space", <<>>, t, E) \/ (s = Reads("gap", <<>>, t, E) /\ k >= 1)
           /\ s.at \in {"space", "gap"} /\ s.token = <<>>
<1>1. s = Reads("space", <<>>, t, E) \/ (s = Reads("gap", <<>>, t, E) /\ k >= 1)
  BY DEF ReaderAt
<1> QED BY <1>1, ReadsFields

\* The pulses and spaces of RAW codes,
LEMMA OnRawPulse ==
    ASSUME NEW f \in Nat, NEW t, NEW a, NEW k \in Nat, NEW E, NEW w, NEW L,
           Onward("USM_M_RAW", f, "DDS_PULSE", 0, t, a, k, E, w, L), Len(a) \in Nat, k < Len(a)
    PROVE  /\ Len(t.pulse) < RR_MAX_PULSES
           /\ Onward("USM_M_RAW", f, "DDS_SPACE", 0, WithPulse(t, a[k + 1], 0),
                     a, k + 1, E, w, L)
<1> DEFINE m == "USM_M_RAW"
           b == <<a[k + 1]>>
<1>1. PICK s \in Reading : ReaderAt(m, f, "DDS_PULSE", 0, t, k, E, s) /\ Ahead(m, f, s, a, k, w, L)
  BY DEF Onward
<1>2. s = Reads("pulse", <<>>, t, E) /\ s.at = "pulse" /\ s.token = <<>>
  BY <1>1, FrontAtPulse
<1>3. FullAhead(m, f, s, b, a, k + 1, w, L)
  BY <1>1, <1>2, RawTokenAhead
<1>4. DurationOf(m, b) = a[k + 1] /\ CyclesOf(m, b) = 0
  BY TokenBytes DEF DurationOf, CyclesOf
<1>5. k + 1 \in Nat /\ k + 1 >= 1
  OBVIOUS
<1> HIDE DEF m, b
<1>6. /\ Len(t.pulse) < RR_MAX_PULSES
      /\ Onward(m, f, "DDS_SPACE", 0, WithPulse(t, DurationOf(m, b), CyclesOf(m, b)),
                a, k + 1, E, w, L)
  BY <1>2, <1>3, <1>5, OnPulse
<1> QED BY <1>4, <1>6 DEF m

\* A RAW space, gap or end is taken.
LEMMA OnRawSpace ==
    ASSUME NEW f \in Nat, NEW t, NEW a, NEW k \in Nat, NEW E, NEW w, NEW L,
           Onward("USM_M_RAW", f, "DDS_SPACE", 0, t, a, k, E, w, L), Len(a) \in Nat, k < Len(a)
    PROVE  LET d == a[k + 1]
           IN  /\ d = 255 => Onward("USM_M_RAW", f, "DDS_PULSE", 2, t, a, k + 1, E, w, L)
               /\ d # 255 /\ d > 128 =>
                    Onward("USM_M_RAW", f, "DDS_PULSE", 1, t, a, k + 1, E, w, L)
               /\ ~(d > 128) =>
                    /\ Len(t.space) < RR_MAX_PULSES
                    /\ Onward("USM_M_RAW", f, "DDS_PULSE", 0, WithSpace(t, d),
                              a, k + 1, E, w, L)
<1> DEFINE m == "USM_M_RAW"
           b == <<a[k + 1]>>
           d == a[k + 1]
<1>1. PICK s \in Reading : ReaderAt(m, f, "DDS_SPACE", 0, t, k, E, s) /\ Ahead(m, f, s, a, k, w, L)
  BY DEF Onward
<1>2. /\ s = Reads("space", <<>>, t, E) \/ (s = Reads("gap", <<>>, t, E) /\ k >= 1)
      /\ s.at \in {"space", "gap"} /\ s.token = <<>>
  BY <1>1, FrontAtSpace
<1>3. FullAhead(m, f, s, b, a, k + 1, w, L) /\ d \in Byte
  <2>1. s.at # "interspace"
    BY <1>2
  <2> QED BY <1>1, <1>2, <2>1, RawTokenAhead
<1>4. DurationOf(m, b) = d /\ b[1] = d /\ LongestSpace(m) = 128
  BY TokenBytes DEF DurationOf, LongestSpace
<1>5. k + 1 \in Nat /\ d \in Nat
  BY <1>3, ByteIsNat
<1>6. b[1] # 255 /\ ~(m = "USM_M_RAW" /\ s = Reads("space", <<>>, t, E)) => k + 1 >= 2
  BY <1>2
<1> HIDE DEF m, b
<1>7. /\ b[1] = 255 => Onward(m, f, "DDS_PULSE", 2, t, a, k + 1, E, w, L)
      /\ b[1] # 255 /\ DurationOf(m, b) > LongestSpace(m) =>
           Onward(m, f, "DDS_PULSE", 1, t, a, k + 1, E, w, L)
      /\ b[1] # 255 /\ ~(DurationOf(m, b) > LongestSpace(m)) =>
           /\ Len(t.space) < RR_MAX_PULSES
           /\ Onward(m, f, "DDS_PULSE", 0, WithSpace(t, DurationOf(m, b)), a, k + 1, E, w, L)
  BY <1>2, <1>3, <1>5, <1>6, OnSpace
<1>8. ~(d > 128) => d # 255
  BY <1>5
<1> QED BY <1>4, <1>7, <1>8 DEF m

\* and those of RAW2 codes.
LEMMA OnRaw2Pulse ==
    ASSUME NEW f \in Nat, NEW t, NEW a, NEW k \in Nat, NEW E, NEW w, NEW L,
           Onward("USM_M_RAW2", f, "DDS_PULSE", 0, t, a, k, E, w, L), Len(a) \in Nat, k < Len(a)
    PROVE  LET p == 256 * a[k + 1] + a[k + 2]
               d == a[k + 3]
               c == 256 * (d - 128) + a[k + 4]
           IN  /\ k + 3 <= Len(a) /\ Len(t.pulse) < RR_MAX_PULSES
               /\ \/ /\ d < 128 /\ (d = 0 \/ p # 0)
                     /\ Onward("USM_M_RAW2", f, "DDS_SPACE", 0, WithPulse(t, p, d),
                               a, k + 3, E, w, L)
                  \/ /\ d >= 128 /\ k + 4 <= Len(a) /\ (c = 0 \/ p # 0)
                     /\ Onward("USM_M_RAW2", f, "DDS_SPACE", 0, WithPulse(t, p, c),
                               a, k + 4, E, w, L)
<1> DEFINE m == "USM_M_RAW2"
           b3 == <<a[k + 1], a[k + 2], a[k + 3]>>
           b4 == <<a[k + 1], a[k + 2], a[k + 3], a[k + 4]>>
           p == 256 * a[k + 1] + a[k + 2]
           d == a[k + 3]
           c == 256 * (d - 128) + a[k + 4]
<1>1. PICK s \in Reading : ReaderAt(m, f, "DDS_PULSE", 0, t, k, E, s) /\ Ahead(m, f, s, a, k, w, L)
  BY DEF Onward
<1>2. s = Reads("pulse", <<>>, t, E) /\ s.at = "pulse" /\ s.token = <<>>
  BY <1>1, FrontAtPulse
<1>3. /\ k + 3 <= Len(a) /\ d \in Byte
      /\ \/ d < 128 /\ FullAhead(m, f, s, b3, a, k + 3, w, L)
         \/ d >= 128 /\ k + 4 <= Len(a) /\ FullAhead(m, f, s, b4, a, k + 4, w, L)
  BY <1>1, <1>2, Raw2PulseAhead
<1>4. DurationOf(m, b3) = p /\ DurationOf(m, b4) = p
  <2>1. b3[1] = a[k + 1] /\ b3[2] = a[k + 2] /\ b4[1] = a[k + 1] /\ b4[2] = a[k + 2]
    OBVIOUS
  <2> HIDE DEF b3, b4
  <2> QED BY <2>1 DEF DurationOf
<1>5. /\ d < 128 => CyclesOf(m, b3) = d
      /\ d >= 128 => CyclesOf(m, b4) = c
  <2>1. b3[3] = d /\ b4[3] = d /\ b4[4] = a[k + 4]
    OBVIOUS
  <2> HIDE DEF b3, b4, d
  <2>3. d \in Nat
    BY <1>3, ByteIsNat
  <2>2. d < 128 => CyclesOf(m, b3) = d
    <3> SUFFICES ASSUME d < 128 PROVE CyclesOf(m, b3) = d
      OBVIOUS
    <3>1. ~(d >= 128)
      BY <2>3
    <3> QED BY <2>1, <3>1 DEF CyclesOf
  <2>4. d >= 128 => CyclesOf(m, b4) = c
    <3> SUFFICES ASSUME d >= 128 PROVE CyclesOf(m, b4) = c
      OBVIOUS
    <3>1. ~(d < 128)
      BY <2>3
    <3> QED BY <2>1, <3>1 DEF CyclesOf
  <2> QED BY <2>2, <2>4
<1>6. k + 3 \in Nat /\ k + 3 >= 1 /\ k + 4 \in Nat /\ k + 4 >= 1
  OBVIOUS
<1> HIDE DEF m, b3, b4, p, c, d
<1>7. CASE d < 128 /\ FullAhead(m, f, s, b3, a, k + 3, w, L)
  <2>1. /\ Len(t.pulse) < RR_MAX_PULSES
        /\ CyclesOf(m, b3) = 0 \/ DurationOf(m, b3) # 0
        /\ Onward(m, f, "DDS_SPACE", 0, WithPulse(t, DurationOf(m, b3), CyclesOf(m, b3)),
                  a, k + 3, E, w, L)
    BY <1>2, <1>6, <1>7, OnPulse
  <2> QED BY <1>3, <1>4, <1>5, <1>7, <2>1, Zenon DEF m, p, d
<1>8. CASE d >= 128 /\ k + 4 <= Len(a) /\ FullAhead(m, f, s, b4, a, k + 4, w, L)
  <2>1. /\ Len(t.pulse) < RR_MAX_PULSES
        /\ CyclesOf(m, b4) = 0 \/ DurationOf(m, b4) # 0
        /\ Onward(m, f, "DDS_SPACE", 0, WithPulse(t, DurationOf(m, b4), CyclesOf(m, b4)),
                  a, k + 4, E, w, L)
    BY <1>2, <1>6, <1>8, OnPulse
  <2> QED BY <1>3, <1>4, <1>5, <1>8, <2>1, Zenon DEF m, p, c, d
<1> QED BY <1>3, <1>7, <1>8

\* A RAW2 space, gap or end is taken.
LEMMA OnRaw2Space ==
    ASSUME NEW f \in Nat, NEW t, NEW a, NEW k \in Nat, NEW E, NEW w, NEW L,
           Onward("USM_M_RAW2", f, "DDS_SPACE", 0, t, a, k, E, w, L), Len(a) \in Nat, k < Len(a)
    PROVE  LET d == 256 * a[k + 1] + a[k + 2]
           IN  /\ a[k + 1] = 255 =>
                    Onward("USM_M_RAW2", f, "DDS_PULSE", 2, t, a, k + 1, E, w, L)
               /\ a[k + 1] # 255 => k + 2 <= Len(a)
               /\ a[k + 1] # 255 /\ d > 16000 =>
                    Onward("USM_M_RAW2", f, "DDS_PULSE", 1, t, a, k + 2, E, w, L)
               /\ a[k + 1] # 255 /\ ~(d > 16000) =>
                    /\ Len(t.space) < RR_MAX_PULSES
                    /\ Onward("USM_M_RAW2", f, "DDS_PULSE", 0, WithSpace(t, d),
                              a, k + 2, E, w, L)
<1> DEFINE m == "USM_M_RAW2"
           b1 == <<a[k + 1]>>
           b2 == <<a[k + 1], a[k + 2]>>
           x == a[k + 1]
           d == 256 * a[k + 1] + a[k + 2]
<1>1. PICK s \in Reading : ReaderAt(m, f, "DDS_SPACE", 0, t, k, E, s) /\ Ahead(m, f, s, a, k, w, L)
  BY DEF Onward
<1>2. /\ s = Reads("space", <<>>, t, E) \/ s = Reads("gap", <<>>, t, E)
      /\ s.at \in {"space", "gap"} /\ s.token = <<>>
  BY <1>1, FrontAtSpace
<1>3. \/ x = 255 /\ FullAhead(m, f, s, b1, a, k + 1, w, L)
      \/ x # 255 /\ k + 2 <= Len(a) /\ FullAhead(m, f, s, b2, a, k + 2, w, L)
  BY <1>1, <1>2, Raw2SpaceAhead
<1>4. DurationOf(m, b2) = d /\ b1[1] = x /\ b2[1] = x /\ LongestSpace(m) = 16000
  <2>1. b2[1] = a[k + 1] /\ b2[2] = a[k + 2] /\ b1[1] = x
    OBVIOUS
  <2> HIDE DEF b1, b2
  <2> QED BY <2>1 DEF DurationOf, LongestSpace
<1>5. k + 1 \in Nat /\ k + 2 \in Nat /\ k + 2 >= 2
  OBVIOUS
<1> HIDE DEF m, b1, b2, x, d
<1>6. CASE x = 255 /\ FullAhead(m, f, s, b1, a, k + 1, w, L)
  <2>1. b1[1] # 255 /\ ~(m = "USM_M_RAW" /\ s = Reads("space", <<>>, t, E)) => k + 1 >= 2
    BY <1>4, <1>6
  <2>2. b1[1] = 255 => Onward(m, f, "DDS_PULSE", 2, t, a, k + 1, E, w, L)
    <3> DEFINE j == k + 1
    <3>1. j \in Nat /\ FullAhead(m, f, s, b1, a, j, w, L)
      BY <1>5, <1>6
    <3>2. b1[1] # 255 /\ ~(m = "USM_M_RAW" /\ s = Reads("space", <<>>, t, E)) => j >= 2
      BY <2>1
    <3> HIDE DEF j
    <3>3. LET g == DurationOf(m, b1)
          IN  /\ b1[1] = 255 => Onward(m, f, "DDS_PULSE", 2, t, a, j, E, w, L)
              /\ b1[1] # 255 /\ g > LongestSpace(m) =>
                    Onward(m, f, "DDS_PULSE", 1, t, a, j, E, w, L)
              /\ b1[1] # 255 /\ ~(g > LongestSpace(m)) =>
                    /\ Len(t.space) < RR_MAX_PULSES
                    /\ Onward(m, f, "DDS_PULSE", 0, WithSpace(t, g), a, j, E, w, L)
      BY <1>2, <3>1, <3>2, OnSpace
    <3> QED BY <3>3 DEF j
  <2>3. Onward(m, f, "DDS_PULSE", 2, t, a, k + 1, E, w, L)
    BY <1>4, <1>6, <2>2
  <2> QED BY <1>6, <2>3 DEF m, x
<1>7. CASE x # 255 /\ k + 2 <= Len(a) /\ FullAhead(m, f, s, b2, a, k + 2, w, L)
  <2>1. /\ b2[1] # 255 /\ DurationOf(m, b2) > LongestSpace(m) =>
           Onward(m, f, "DDS_PULSE", 1, t, a, k + 2, E, w, L)
        /\ b2[1] # 255 /\ ~(DurationOf(m, b2) > LongestSpace(m)) =>
           /\ Len(t.space) < RR_MAX_PULSES
           /\ Onward(m, f, "DDS_PULSE", 0, WithSpace(t, DurationOf(m, b2)), a, k + 2, E, w, L)
    BY <1>2, <1>5, <1>7, OnSpace
  <2>2. /\ d > 16000 => Onward(m, f, "DDS_PULSE", 1, t, a, k + 2, E, w, L)
        /\ ~(d > 16000) =>
           /\ Len(t.space) < RR_MAX_PULSES
           /\ Onward(m, f, "DDS_PULSE", 0, WithSpace(t, d), a, k + 2, E, w, L)
    BY <1>4, <1>7, <2>1
  <2> QED BY <1>7, <2>2 DEF m, x, d
<1> QED BY <1>3, <1>6, <1>7

\* With nothing buffered it does not matter where the buffer ends.
LEMMA OnNothing ==
    ASSUME NEW m, NEW f \in Nat, NEW place, NEW t, NEW a, NEW k \in Nat, NEW E, NEW w, NEW L,
           Onward(m, f, place, 0, t, a, k, E, w, L), Len(a) = k,
           NEW b, NEW j \in Nat, Len(b) = j
    PROVE  Onward(m, f, place, 0, t, b, j, E, w, L)
<1>1. PICK s \in Reading : ReaderAt(m, f, place, 0, t, k, E, s) /\ Ahead(m, f, s, a, k, w, L)
  BY DEF Onward
<1>2. MayStop(m, s) /\ StepsTo(Reader(m, f), s, w, Between(L))
  BY <1>1, AheadNothing
<1>3. Ahead(m, f, s, b, j, w, L)
  BY <1>2, NothingAhead
<1>4. s # Reads("gap", <<>>, t, E)
  BY <1>2, ReadsFields DEF MayStop
<1>5. ReaderAt(m, f, place, 0, t, j, E, s)
  <2>1. 0 # 1 /\ 0 # 2
    OBVIOUS
  <2> QED BY <1>1, <1>4, <2>1, Zenon DEF ReaderAt
<1> QED BY <1>3, <1>5 DEF Onward

\* A read of j cells.
LEMMA OnRead ==
    ASSUME NEW m, NEW f \in Nat, NEW place, NEW done, NEW t, NEW a \in Seq(Byte),
           NEW E, NEW w \in Seq(Cell), NEW L, Onward(m, f, place, done, t, a, 0, E, w, L),
           NEW j \in 1 .. Len(w), w[j].ends,
           NEW b \in Seq(Byte), Len(b) = j, \A i \in 1 .. j : b[i] = w[i].b
    PROVE  Onward(m, f, place, done, t, a \o b, 0, E, SubSeq(w, j + 1, Len(w)), L)
<1>1. PICK s \in Reading : ReaderAt(m, f, place, done, t, 0, E, s) /\ Ahead(m, f, s, a, 0, w, L)
  BY DEF Onward
<1>2. Ahead(m, f, s, a \o b, 0, SubSeq(w, j + 1, Len(w)), L)
  BY <1>1, AheadRead
<1> QED BY <1>1, <1>2 DEF Onward

\* A code that has the lines M comes at the end of the wire.
LEMMA OnCode ==
    ASSUME NEW m, NEW f \in Nat, NEW place, NEW done, NEW t, NEW a, NEW k, NEW E,
           NEW w \in Seq(Cell), NEW L \in Seq(Line),
           Onward(m, f, place, done, t, a, k, E, w, L),
           NEW c \in Seq(Cell), NEW M \in Seq(Line),
           StepsTo(Reader(m, f), Between(<<>>), c, Between(M))
    PROVE  Onward(m, f, place, done, t, a, k, E, w \o c, L \o M)
<1>1. PICK s \in Reading : ReaderAt(m, f, place, done, t, k, E, s) /\ Ahead(m, f, s, a, k, w, L)
  BY DEF Onward
<1>2. Ahead(m, f, s, a, k, w \o c, L \o M)
  BY <1>1, AheadCode
<1> QED BY <1>1, <1>2 DEF Onward

\* The lines L begin with the lines E.
Begin(L, E) == \E M \in Seq(Line) : L = E \o M

\* The lines ahead begin with those that came out.
LEMMA OnLines ==
    ASSUME NEW m, NEW f \in Nat, NEW place, NEW t, NEW a, NEW k, NEW E,
           NEW w \in Seq(Cell), NEW L \in Seq(Line),
           Onward(m, f, place, 0, t, a, k, E, w, L)
    PROVE  Begin(L, E)
<1>1. PICK s \in Reading : ReaderAt(m, f, place, 0, t, k, E, s) /\ Ahead(m, f, s, a, k, w, L)
  BY DEF Onward
<1>2. \E M \in Seq(Line) : L = s.lines \o M
  BY <1>1, AheadLines
<1>3. s.lines = E
  BY <1>1, ReadsFields DEF ReaderAt, Between
<1> QED BY <1>2, <1>3 DEF Begin

\* The end of a burst that has a gap behind it: the gap becomes an interspace,
LEMMA OnGap ==
    ASSUME NEW m \in {"USM_M_RAW", "USM_M_RAW2"}, NEW f \in Nat, NEW place, NEW t, NEW a,
           NEW k \in Nat, NEW E, NEW w, NEW L, Onward(m, f, place, 1, t, a, k, E, w, L),
           NEW b, Len(a) \in Nat, Len(b) \in Nat,
           k >= 2 => /\ Len(b) + k = Len(a) + 2 /\ b[1] = 0 /\ b[2] = 0
                     /\ \A i \in Nat : k < k + i /\ k + i <= Len(a) => b[2 + i] = a[k + i],
           NEW t2, Append(E, BurstLine(m, f, t)) \in Seq(Line)
    PROVE  Onward(m, f, "DDS_INIT", 0, t2, b, 0, Append(E, BurstLine(m, f, t)), w, L)
<1> DEFINE lines == Append(E, BurstLine(m, f, t))
<1>1. PICK s \in Reading : ReaderAt(m, f, place, 1, t, k, E, s) /\ Ahead(m, f, s, a, k, w, L)
  BY DEF Onward
<1>2. k >= 2 /\ s = AfterGap(lines)
  BY <1>1 DEF ReaderAt
<1> HIDE DEF lines
<1>3. Ahead(m, f, Between(lines), b, 0, w, L)
  <2>1. lines \in Seq(Line) /\ Ahead(m, f, AfterGap(lines), a, k, w, L)
    BY <1>1, <1>2 DEF lines
  <2>2. /\ Len(b) + k = Len(a) + 2 /\ b[1] = 0 /\ b[2] = 0
        /\ \A i \in Nat : k < k + i /\ k + i <= Len(a) => b[2 + i] = a[k + i]
    BY <1>2
  <2> QED BY <2>1, <2>2, AheadGap
<1>4. ReaderAt(m, f, "DDS_INIT", 0, t2, 0, lines, Between(lines))
  BY DEF ReaderAt
<1>5. Between(lines) \in Reading
  BY EmptyReadings DEF lines
<1>6. Onward(m, f, "DDS_INIT", 0, t2, b, 0, lines, w, L)
  BY <1>3, <1>4, <1>5 DEF Onward
<1> QED BY <1>6 DEF lines

\* and one that ends a transmission.
LEMMA OnEnd ==
    ASSUME NEW m, NEW f \in Nat, NEW place, NEW t, NEW a,
           NEW k \in Nat, NEW E, NEW w, NEW L, Onward(m, f, place, 2, t, a, k, E, w, L),
           NEW b, Len(a) \in Nat, Len(b) \in Nat, Len(b) + k = Len(a),
           \A i \in Nat : k < k + i /\ k + i <= Len(a) => b[i] = a[k + i],
           NEW t2, Append(E, BurstLine(m, f, t)) \in Seq(Line)
    PROVE  Onward(m, f, "DDS_INIT", 0, t2, b, 0, Append(E, BurstLine(m, f, t)), w, L)
<1> DEFINE lines == Append(E, BurstLine(m, f, t))
<1>1. PICK s \in Reading : ReaderAt(m, f, place, 2, t, k, E, s) /\ Ahead(m, f, s, a, k, w, L)
  BY DEF Onward
<1>2. s = Between(lines)
  BY <1>1 DEF ReaderAt
<1> HIDE DEF lines
<1>3. Ahead(m, f, s, b, 0, w, L)
  <2> DEFINE j == 0
  <2>1. Len(b) + k = Len(a) + j /\ j \in Nat
    OBVIOUS
  <2>2. \A i \in Nat : k < k + i /\ k + i <= Len(a) => b[j + i] = a[k + i]
    OBVIOUS
  <2> HIDE DEF j
  <2>3. Ahead(m, f, s, b, j, w, L)
    BY <1>1, <2>1, <2>2, AheadMoved
  <2> QED BY <2>3 DEF j
<1>4. ReaderAt(m, f, "DDS_INIT", 0, t2, 0, lines, s)
  BY <1>2 DEF ReaderAt
<1>5. Onward(m, f, "DDS_INIT", 0, t2, b, 0, lines, w, L)
  BY <1>3, <1>4 DEF Onward
<1> QED BY <1>5 DEF lines

\* With nothing buffered and nothing on the wire a decoder is between codes,
LEMMA OnThrough ==
    ASSUME NEW m, NEW f \in Nat, NEW place, NEW t, NEW a, NEW k \in Nat, NEW E, NEW L,
           Onward(m, f, place, 0, t, a, k, E, <<>>, L), Len(a) = k
    PROVE  Through(place, t) /\ L = E
<1>1. PICK s \in Reading : ReaderAt(m, f, place, 0, t, k, E, s) /\ Ahead(m, f, s, a, k, <<>>, L)
  BY DEF Onward
<1>2. s = Between(L)
  BY <1>1, NothingMore
<1>3. s.at = "interspace" /\ s.lines = L
  BY <1>2, ReadsFields DEF Between
<1>4. s # Reads("pulse", <<>>, t, E) /\ s # Reads("space", <<>>, t, E) /\ s # Reads("gap", <<>>, t, E)
  BY <1>3, ReadsFields
<1>5. s = Between(E) /\ Through(place, t)
  BY <1>1, <1>4 DEF ReaderAt, Through
<1> QED BY <1>3, <1>5, ReadsFields DEF Between

\* and the other way around.
LEMMA ThroughOn ==
    ASSUME NEW m, NEW f \in Nat, NEW place, NEW t, NEW a, NEW k \in Nat, NEW E \in Seq(Line),
           Through(place, t), Len(a) = k
    PROVE  Onward(m, f, place, 0, t, a, k, E, <<>>, E)
<1> DEFINE s == Between(E)
<1>1. s \in Reading
  BY EmptyReadings
<1>2. MayStop(m, s)
  BY ReadsFields DEF MayStop, Between
<1> HIDE DEF s
<1>3. StepsTo(Reader(m, f), s, <<>>, s)
  BY <1>1, ReaderStep, StepsToNone
<1>4. Ahead(m, f, s, a, k, <<>>, E)
  BY <1>1, <1>2, <1>3, NothingAhead DEF s
<1>5. ReaderAt(m, f, place, 0, t, k, E, s)
  BY DEF ReaderAt, Through, s
<1> QED BY <1>1, <1>4, <1>5 DEF Onward

(***************************************************************************)
(* The decoders and the reader go through the buffer together.             *)
(***************************************************************************)

\* The bytes a token handler looks at.
LEMMA Looks ==
    ASSUME n \in Nat
    PROVE  /\ D(0) = agg[n + 1] /\ D(1) = agg[n + 2]
           /\ D(2) = agg[n + 3] /\ D(3) = agg[n + 4]
<1>1. n + 1 + 0 = n + 1 /\ n + 1 + 1 = n + 2 /\ n + 1 + 2 = n + 3 /\ n + 1 + 3 = n + 4
  OBVIOUS
<1> QED BY <1>1 DEF D

\* A turn of the RAW decoder: a token is whole and fits.
LEMMA RawTurn ==
    ASSUME LibInv, RrParse, NEW E, NEW w, NEW L,
           Onward("USM_M_RAW", default_frequency, rr.state, rr.done, RrTables(rr),
                  agg, n, E, w, L)
    PROVE  /\ agg' = agg /\ pc' = pc
           /\ Onward("USM_M_RAW", default_frequency, rr'.state, rr'.done, RrTables(rr'),
                     agg, n', E, w, L)
<1> DEFINE m == "USM_M_RAW"
           f == default_frequency
           t == RrTables(rr)
           On(place, done, tables, k) == Onward(m, f, place, done, tables, agg, k, E, w, L)
<1>1. /\ rr \in RrCtx /\ agg \in Seq(Byte) /\ n \in 0 .. Len(agg) /\ n \in Nat
      /\ Len(agg) \in Nat /\ f \in Nat
  BY DEF LibInv, LibTypeOK
<1>2. rr.done = 0 /\ Left > 0 /\ pc = "rr_parse" /\ n < Len(agg)
  <2>1. rr.done = 0 /\ Left > 0 /\ pc = "rr_parse"
    BY DEF RrParse, RrInit, RrInterspace, RrPulse, RrSpace, RrLoop
  <2> QED BY <1>1, <2>1 DEF Left
<1>3. D(0) = agg[n + 1] /\ D(1) = agg[n + 2]
  BY <1>1, Looks
<1>4. t.pulse = rr.pulse /\ t.space = rr.space
  BY DEF RrTables
<1>5. On(rr.state, 0, t, n)
  BY <1>2
<1> HIDE DEF t
<1>6. CASE RrInit
  <2>1. /\ rr' = [RrZero EXCEPT !.state = "DDS_INTERSPACE"] /\ n' = n + 0
        /\ agg' = agg /\ pc' = pc /\ rr.state = "DDS_INIT"
    BY <1>6 DEF RrInit, RrLoop, RrTurn
  <2>2. rr'.state = "DDS_INTERSPACE" /\ rr'.done = 0 /\ RrTables(rr') = NoTables
    BY <2>1 DEF RrZero, RrTables, NoTables
  <2>3. On("DDS_INTERSPACE", 0, NoTables, n)
    BY <1>5, <2>1, OnInit
  <2>4. n' = n
    BY <1>1, <2>1
  <2> QED BY <2>1, <2>2, <2>3, <2>4
<1>7. CASE RrInterspace
  <2>1. rr.state = "DDS_INTERSPACE"
    BY <1>7 DEF RrInterspace, RrLoop
  <2>2. n + 2 <= Len(agg) /\ On("DDS_PULSE", 0, t, n + 2)
    BY <1>1, <1>2, <1>5, <2>1, OnInterspace
  <2> DEFINE v == 256 * D(0) + D(1)
  <2>3. RrTurn(2, [rr EXCEPT !.interspace = v], "DDS_PULSE")
    BY <1>1, <1>7, <2>2 DEF RrInterspace, Left
  <2> HIDE DEF v
  <2>4. /\ rr' = [[rr EXCEPT !.interspace = v] EXCEPT !.state = "DDS_PULSE"]
        /\ n' = n + 2 /\ agg' = agg /\ pc' = pc
    BY <2>3 DEF RrTurn
  <2>5. rr'.state = "DDS_PULSE" /\ rr'.done = rr.done /\ RrTables(rr') = t
    <3>1. /\ rr'.state = "DDS_PULSE" /\ rr'.done = rr.done
          /\ rr'.pulse = rr.pulse /\ rr'.space = rr.space
      BY <1>1, <2>4, RrFields
    <3> QED BY <3>1 DEF RrTables, t
  <2> QED BY <1>2, <2>2, <2>4, <2>5
<1>8. CASE RrPulse
  <2>1. rr.state = "DDS_PULSE"
    BY <1>8 DEF RrPulse, RrLoop
  <2>2. Len(t.pulse) < RR_MAX_PULSES /\ On("DDS_SPACE", 0, WithPulse(t, agg[n + 1], 0), n + 1)
    BY <1>1, <1>2, <1>5, <2>1, OnRawPulse
  <2> DEFINE v == D(0)
  <2>3. RrTurn(1, [rr EXCEPT !.pulse = Append(@, v)], "DDS_SPACE")
    <3>1. ~(Len(rr.pulse) = RR_MAX_PULSES)
      BY <1>4, <2>2, BuffersAssumption
    <3> QED BY <1>8, <3>1 DEF RrPulse
  <2>4. On("DDS_SPACE", 0, WithPulse(t, v, 0), n + 1)
    BY <1>3, <2>2
  <2> HIDE DEF v
  <2>5. /\ rr' = [[rr EXCEPT !.pulse = Append(@, v)] EXCEPT !.state = "DDS_SPACE"]
        /\ n' = n + 1 /\ agg' = agg /\ pc' = pc
    BY <2>3 DEF RrTurn
  <2>6. rr'.state = "DDS_SPACE" /\ rr'.done = rr.done /\ RrTables(rr') = WithPulse(t, v, 0)
    <3> DEFINE q == Append(rr.pulse, v)
    <3>1. rr' = [[rr EXCEPT !.pulse = q] EXCEPT !.state = "DDS_SPACE"]
      BY <2>5
    <3> HIDE DEF q
    <3>2. /\ rr'.state = "DDS_SPACE" /\ rr'.done = rr.done
          /\ rr'.pulse = q /\ rr'.space = rr.space
      BY <1>1, <3>1, RrFields
    <3>3. RrTables(rr') = WithPulse(t, v, 0)
      BY <1>4, <3>2 DEF RrTables, WithPulse, t, q
    <3> QED BY <3>2, <3>3
  <2> QED BY <1>2, <2>4, <2>5, <2>6
<1>9. CASE RrSpace
  <2>1. rr.state = "DDS_SPACE"
    BY <1>9 DEF RrSpace, RrLoop
  <2> DEFINE d == D(0)
  <2>2. /\ d = 255 => On("DDS_PULSE", 2, t, n + 1)
        /\ d # 255 /\ d > 128 => On("DDS_PULSE", 1, t, n + 1)
        /\ ~(d > 128) => Len(t.space) < RR_MAX_PULSES /\ On("DDS_PULSE", 0, WithSpace(t, d), n + 1)
    <3> DEFINE e == agg[n + 1]
    <3>1. /\ e = 255 => On("DDS_PULSE", 2, t, n + 1)
          /\ e # 255 /\ e > 128 => On("DDS_PULSE", 1, t, n + 1)
          /\ ~(e > 128) => Len(t.space) < RR_MAX_PULSES /\ On("DDS_PULSE", 0, WithSpace(t, e), n + 1)
      BY <1>1, <1>2, <1>5, <2>1, OnRawSpace
    <3> HIDE DEF e
    <3>2. d = e
      BY <1>3 DEF e
    <3> QED BY <3>1, <3>2
  <2>3. d \in Nat
    BY <1>1, <1>2, ByteAt
  <2>4. \/ d = 255 /\ RrTurn(1, [rr EXCEPT !.done = 2], "DDS_PULSE")
        \/ d \in 129 .. 254 /\ RrTurn(1, [rr EXCEPT !.done = 1], "DDS_PULSE")
        \/ d <= 128 /\ RrTurn(1, [rr EXCEPT !.space = Append(@, d)], "DDS_PULSE")
        \/ d <= 128 /\ Len(rr.space) = RR_MAX_PULSES
    BY <1>9 DEF RrSpace
  <2> HIDE DEF d
  <2>5. ASSUME NEW done, RrTurn(1, [rr EXCEPT !.done = done], "DDS_PULSE"),
               On("DDS_PULSE", done, t, n + 1)
        PROVE  agg' = agg /\ pc' = pc /\ On(rr'.state, rr'.done, RrTables(rr'), n')
    <3>1. /\ rr' = [[rr EXCEPT !.done = done] EXCEPT !.state = "DDS_PULSE"]
          /\ n' = n + 1 /\ agg' = agg /\ pc' = pc
      BY <2>5 DEF RrTurn
    <3>2. rr'.state = "DDS_PULSE" /\ rr'.done = done /\ RrTables(rr') = t
      <4>1. /\ rr'.state = "DDS_PULSE" /\ rr'.done = done
            /\ rr'.pulse = rr.pulse /\ rr'.space = rr.space
        BY <1>1, <3>1, RrFields
      <4> QED BY <4>1 DEF RrTables, t
    <3> QED BY <2>5, <3>1, <3>2
  <2>6. CASE d = 255 /\ RrTurn(1, [rr EXCEPT !.done = 2], "DDS_PULSE")
    BY <2>2, <2>5, <2>6
  <2>7. CASE d \in 129 .. 254 /\ RrTurn(1, [rr EXCEPT !.done = 1], "DDS_PULSE")
    <3>1. d # 255 /\ d > 128
      BY <2>3, <2>7
    <3> QED BY <2>2, <2>5, <2>7, <3>1
  <2>8. CASE d <= 128 /\ RrTurn(1, [rr EXCEPT !.space = Append(@, d)], "DDS_PULSE")
    <3>1. On("DDS_PULSE", 0, WithSpace(t, d), n + 1)
      BY <2>2, <2>3, <2>8
    <3>2. /\ rr' = [[rr EXCEPT !.space = Append(@, d)] EXCEPT !.state = "DDS_PULSE"]
          /\ n' = n + 1 /\ agg' = agg /\ pc' = pc
      BY <2>8 DEF RrTurn
    <3>3. rr'.state = "DDS_PULSE" /\ rr'.done = rr.done /\ RrTables(rr') = WithSpace(t, d)
      <4> DEFINE q == Append(rr.space, d)
      <4>1. rr' = [[rr EXCEPT !.space = q] EXCEPT !.state = "DDS_PULSE"]
        BY <3>2
      <4> HIDE DEF q
      <4>2. /\ rr'.state = "DDS_PULSE" /\ rr'.done = rr.done
            /\ rr'.pulse = rr.pulse /\ rr'.space = q
        BY <1>1, <4>1, RrFields
      <4>3. RrTables(rr') = WithSpace(t, d)
        BY <1>4, <4>2 DEF RrTables, WithSpace, t, q
      <4> QED BY <4>2, <4>3
    <3> QED BY <1>2, <3>1, <3>2, <3>3
  <2>9. CASE d <= 128 /\ Len(rr.space) = RR_MAX_PULSES
    BY <1>4, <2>2, <2>3, <2>9, BuffersAssumption
  <2> QED BY <2>4, <2>6, <2>7, <2>8, <2>9
<1> QED BY <1>6, <1>7, <1>8, <1>9 DEF RrParse

\* The fields of a RAW2 context of which others were written.
LEMMA Rr2Written ==
    ASSUME NEW ctx \in Rr2Ctx, NEW f, NEW k, NEW v, NEW x
    PROVE  /\ LET c == [[ctx EXCEPT !.interspace = v] EXCEPT !.state = x]
              IN  /\ c.pulse = ctx.pulse /\ c.space = ctx.space
                  /\ c.freq_total = ctx.freq_total
                  /\ c.nof_freq_samples = ctx.nof_freq_samples
           /\ LET c == [[ctx EXCEPT !.freq_total = f, !.nof_freq_samples = k,
                                    !.pulse = v] EXCEPT !.state = x]
              IN  /\ c.pulse = v /\ c.space = ctx.space
                  /\ c.freq_total = f /\ c.nof_freq_samples = k
           /\ LET c == [[ctx EXCEPT !.space = v] EXCEPT !.state = x]
              IN  /\ c.pulse = ctx.pulse /\ c.space = v
                  /\ c.freq_total = ctx.freq_total
                  /\ c.nof_freq_samples = ctx.nof_freq_samples
           /\ LET c == [[ctx EXCEPT !.done = v] EXCEPT !.state = x]
              IN  /\ c.done = v /\ c.pulse = ctx.pulse /\ c.space = ctx.space
                  /\ c.freq_total = ctx.freq_total
                  /\ c.nof_freq_samples = ctx.nof_freq_samples
BY DEF Rr2Ctx

\* Where the RAW2 decoder is, its tables have a space for every pulse, but for
\* the last one where a space is due.
Rr2Pairs ==
    /\ rr2.state = "DDS_INTERSPACE" => rr2.pulse = <<>> /\ rr2.space = <<>>
    /\ rr2.state = "DDS_PULSE" /\ rr2.done = 0 => Len(rr2.pulse) = Len(rr2.space)
    /\ rr2.state = "DDS_SPACE" => Len(rr2.pulse) = Len(rr2.space) + 1
    /\ rr2.done # 0 => Len(rr2.pulse) = Len(rr2.space) + 1

\* The RAW2 decoder takes a pulse that fits and that it can take for a sample.
LEMMA Raw2PulseTaken ==
    ASSUME LibInv, NEW m, NEW p \in Nat, NEW c, Rr2RecordPulse(m, p, c),
           rr2.state = "DDS_PULSE", rr2.done = 0,
           Len(rr2.pulse) < RR_MAX_PULSES, c = 0 \/ p # 0
    PROVE  /\ agg' = agg /\ pc' = pc /\ n' = n + m
           /\ rr2'.state = "DDS_SPACE" /\ rr2'.done = 0
           /\ Rr2Tables(rr2') = WithPulse(Rr2Tables(rr2), p, c)
           /\ Rr2Pairs => Rr2Pairs'
<1> DEFINE f == IF c = 0 THEN rr2.freq_total ELSE rr2.freq_total + SampleFrequency(p, c)
           k == IF c = 0 THEN rr2.nof_freq_samples ELSE rr2.nof_freq_samples + 1
           v == Append(rr2.pulse, p)
           new == [[rr2 EXCEPT !.freq_total = f, !.nof_freq_samples = k, !.pulse = v]
                    EXCEPT !.state = "DDS_SPACE"]
<1>1. rr2 \in Rr2Ctx /\ rr2.pulse \in Seq(Nat) /\ rr2.space \in Seq(Nat)
  BY DEF LibInv, LibTypeOK, Rr2Ctx
<1>2. ~(Len(rr2.pulse) = RR_MAX_PULSES)
  BY <1>1, BuffersAssumption
<1>3. rr2' = new /\ n' = n + m /\ agg' = agg /\ pc' = pc
  BY <1>2 DEF Rr2RecordPulse, Rr2Turn
<1>4. /\ new.state = "DDS_SPACE" /\ new.done = 0
      /\ new.pulse = v /\ new.space = rr2.space
      /\ new.freq_total = f /\ new.nof_freq_samples = k
  <2> HIDE DEF f, k, v
  <2> QED BY <1>1, Rr2Fields, Rr2Written
<1>5. Len(v) = Len(rr2.pulse) + 1
  BY <1>1, OneMore
<1> HIDE DEF new
<1>6. Rr2Tables(rr2') = WithPulse(Rr2Tables(rr2), p, c)
  BY <1>3, <1>4 DEF Rr2Tables, WithPulse
<1>7. Rr2Pairs => Rr2Pairs'
  <2> HIDE DEF v, f, k
  <2>1. /\ rr2'.state = "DDS_SPACE" /\ rr2'.done = 0
        /\ Len(rr2'.pulse) = Len(rr2.pulse) + 1 /\ rr2'.space = rr2.space
    BY <1>3, <1>4, <1>5
  <2> QED BY <2>1 DEF Rr2Pairs
<1> QED BY <1>3, <1>4, <1>6, <1>7

\* A turn of the RAW2 decoder: a token is whole, fits and can be a sample.
LEMMA Raw2Turn ==
    ASSUME LibInv, Rr2Parse, NEW E, NEW w, NEW L,
           Onward("USM_M_RAW2", default_frequency, rr2.state, rr2.done, Rr2Tables(rr2),
                  agg, n, E, w, L)
    PROVE  /\ agg' = agg /\ pc' = pc
           /\ Onward("USM_M_RAW2", default_frequency, rr2'.state, rr2'.done, Rr2Tables(rr2'),
                     agg, n', E, w, L)
           /\ Rr2Pairs => Rr2Pairs'
<1> DEFINE m == "USM_M_RAW2"
           f == default_frequency
           t == Rr2Tables(rr2)
           On(place, done, tables, k) == Onward(m, f, place, done, tables, agg, k, E, w, L)
           Taken == /\ agg' = agg /\ pc' = pc
                    /\ On(rr2'.state, rr2'.done, Rr2Tables(rr2'), n')
                    /\ Rr2Pairs => Rr2Pairs'
<1>1. /\ rr2 \in Rr2Ctx /\ agg \in Seq(Byte) /\ n \in 0 .. Len(agg) /\ n \in Nat
      /\ Len(agg) \in Nat /\ f \in Nat
      /\ rr2.pulse \in Seq(Nat) /\ rr2.space \in Seq(Nat)
  BY DEF LibInv, LibTypeOK, Rr2Ctx
<1>2. rr2.done = 0 /\ Left > 0 /\ pc = "rr2_parse" /\ n < Len(agg)
  <2>1. rr2.done = 0 /\ Left > 0 /\ pc = "rr2_parse"
    BY DEF Rr2Parse, Rr2Init, Rr2Interspace, Rr2Pulse, Rr2Space, Rr2Loop
  <2> QED BY <1>1, <2>1 DEF Left
<1>3. D(0) = agg[n + 1] /\ D(1) = agg[n + 2] /\ D(2) = agg[n + 3] /\ D(3) = agg[n + 4]
  BY <1>1, Looks
<1>4. t.pulse = rr2.pulse /\ t.space = rr2.space
  BY DEF Rr2Tables
<1>5. On(rr2.state, 0, t, n)
  BY <1>2
<1>6. Left = Len(agg) - n
  BY DEF Left
<1> HIDE DEF t
<1>7. CASE Rr2Init
  <2>1. /\ rr2' = [Rr2Zero EXCEPT !.state = "DDS_INTERSPACE"] /\ n' = n + 0
        /\ agg' = agg /\ pc' = pc /\ rr2.state = "DDS_INIT"
    BY <1>7 DEF Rr2Init, Rr2Loop, Rr2Turn
  <2>2. /\ rr2'.state = "DDS_INTERSPACE" /\ rr2'.done = 0 /\ Rr2Tables(rr2') = NoTables
        /\ rr2'.pulse = <<>> /\ rr2'.space = <<>>
    BY <2>1 DEF Rr2Zero, Rr2Tables, NoTables
  <2>3. On("DDS_INTERSPACE", 0, NoTables, n)
    BY <1>5, <2>1, OnInit
  <2>4. n' = n
    BY <1>1, <2>1
  <2>5. Rr2Pairs'
    BY <2>2 DEF Rr2Pairs
  <2> QED BY <2>1, <2>2, <2>3, <2>4, <2>5
<1>8. CASE Rr2Interspace
  <2>1. rr2.state = "DDS_INTERSPACE"
    BY <1>8 DEF Rr2Interspace, Rr2Loop
  <2>2. n + 2 <= Len(agg) /\ On("DDS_PULSE", 0, t, n + 2)
    BY <1>1, <1>2, <1>5, <2>1, OnInterspace
  <2> DEFINE v == ((256 * D(0) + D(1)) * 500) \div 512
  <2>3. Rr2Turn(2, [rr2 EXCEPT !.interspace = v], "DDS_PULSE")
    BY <1>1, <1>8, <2>2 DEF Rr2Interspace, Left
  <2> HIDE DEF v
  <2>4. /\ rr2' = [[rr2 EXCEPT !.interspace = v] EXCEPT !.state = "DDS_PULSE"]
        /\ n' = n + 2 /\ agg' = agg /\ pc' = pc
    BY <2>3 DEF Rr2Turn
  <2>5. /\ rr2'.state = "DDS_PULSE" /\ rr2'.done = rr2.done
        /\ rr2'.pulse = rr2.pulse /\ rr2'.space = rr2.space
        /\ rr2'.freq_total = rr2.freq_total
        /\ rr2'.nof_freq_samples = rr2.nof_freq_samples
    BY <1>1, <2>4, Rr2Fields, Rr2Written
  <2>6. Rr2Tables(rr2') = t
    BY <2>5 DEF Rr2Tables, t
  <2>7. Rr2Pairs => Rr2Pairs'
    BY <1>2, <2>1, <2>5 DEF Rr2Pairs
  <2> QED BY <1>2, <2>2, <2>4, <2>5, <2>6, <2>7
<1>9. CASE Rr2Pulse
  <2> DEFINE p == 256 * D(0) + D(1)
             d == D(2)
             c == 256 * (D(2) - 128) + D(3)
  <2>1. rr2.state = "DDS_PULSE"
    BY <1>9 DEF Rr2Pulse, Rr2Loop
  <2>2. /\ n + 3 <= Len(agg) /\ Len(t.pulse) < RR_MAX_PULSES
        /\ \/ d < 128 /\ (d = 0 \/ p # 0) /\ On("DDS_SPACE", 0, WithPulse(t, p, d), n + 3)
           \/ /\ d >= 128 /\ n + 4 <= Len(agg) /\ (c = 0 \/ p # 0)
              /\ On("DDS_SPACE", 0, WithPulse(t, p, c), n + 4)
    <3> DEFINE p1 == 256 * agg[n + 1] + agg[n + 2]
               d1 == agg[n + 3]
               c1 == 256 * (agg[n + 3] - 128) + agg[n + 4]
    <3>1. /\ n + 3 <= Len(agg) /\ Len(t.pulse) < RR_MAX_PULSES
          /\ \/ /\ d1 < 128 /\ (d1 = 0 \/ p1 # 0)
                /\ On("DDS_SPACE", 0, WithPulse(t, p1, d1), n + 3)
             \/ /\ d1 >= 128 /\ n + 4 <= Len(agg) /\ (c1 = 0 \/ p1 # 0)
                /\ On("DDS_SPACE", 0, WithPulse(t, p1, c1), n + 4)
      <4> DEFINE k == n
      <4>1. /\ Onward("USM_M_RAW2", f, "DDS_PULSE", 0, t, agg, k, E, w, L)
            /\ f \in Nat /\ k \in Nat /\ Len(agg) \in Nat /\ k < Len(agg)
        BY <1>1, <1>2, <1>5, <2>1
      <4> HIDE DEF k, f
      <4>2. LET p2 == 256 * agg[k + 1] + agg[k + 2]
                d2 == agg[k + 3]
                c2 == 256 * (d2 - 128) + agg[k + 4]
            IN  /\ k + 3 <= Len(agg) /\ Len(t.pulse) < RR_MAX_PULSES
                /\ \/ /\ d2 < 128 /\ (d2 = 0 \/ p2 # 0)
                      /\ Onward("USM_M_RAW2", f, "DDS_SPACE", 0, WithPulse(t, p2, d2),
                                agg, k + 3, E, w, L)
                   \/ /\ d2 >= 128 /\ k + 4 <= Len(agg) /\ (c2 = 0 \/ p2 # 0)
                      /\ Onward("USM_M_RAW2", f, "DDS_SPACE", 0, WithPulse(t, p2, c2),
                                agg, k + 4, E, w, L)
        BY <4>1, OnRaw2Pulse
      <4> QED BY <4>2 DEF k
    <3>2. p1 = p /\ d1 = d /\ c1 = c
      BY <1>3
    <3> HIDE DEF p1, d1, c1, p, d, c
    <3> QED BY <3>1, <3>2
  <2>3. p \in Nat /\ d \in Nat
    <3>1. D(0) \in Nat /\ D(1) \in Nat /\ D(2) \in Nat
      <4>1. agg[n + 1] \in Byte /\ agg[n + 2] \in Byte /\ agg[n + 3] \in Byte
        BY <1>1, <2>2
      <4> QED BY <1>3, <4>1 DEF Byte
    <3> QED BY <3>1
  <2>4. \/ Left < 3 \/ (Left = 3 /\ d >= 128)
        \/ d < 128 /\ Rr2RecordPulse(3, p, d)
        \/ d >= 128 /\ Rr2RecordPulse(4, p, c)
    BY <1>9 DEF Rr2Pulse
  <2> HIDE DEF p, d, c
  <2>5. CASE d < 128 /\ Rr2RecordPulse(3, p, d)
    <3>1. (d = 0 \/ p # 0) /\ On("DDS_SPACE", 0, WithPulse(t, p, d), n + 3)
      BY <2>2, <2>3, <2>5
    <3>2. /\ agg' = agg /\ pc' = pc /\ n' = n + 3
          /\ rr2'.state = "DDS_SPACE" /\ rr2'.done = 0
          /\ Rr2Tables(rr2') = WithPulse(Rr2Tables(rr2), p, d)
          /\ Rr2Pairs => Rr2Pairs'
      BY <1>2, <1>4, <2>1, <2>2, <2>3, <2>5, <3>1, Raw2PulseTaken
    <3> QED BY <3>1, <3>2 DEF t
  <2>6. CASE d >= 128 /\ Rr2RecordPulse(4, p, c)
    <3>1. (c = 0 \/ p # 0) /\ On("DDS_SPACE", 0, WithPulse(t, p, c), n + 4)
      BY <2>2, <2>3, <2>6
    <3>2. /\ agg' = agg /\ pc' = pc /\ n' = n + 4
          /\ rr2'.state = "DDS_SPACE" /\ rr2'.done = 0
          /\ Rr2Tables(rr2') = WithPulse(Rr2Tables(rr2), p, c)
          /\ Rr2Pairs => Rr2Pairs'
      BY <1>2, <1>4, <2>1, <2>2, <2>3, <2>6, <3>1, Raw2PulseTaken
    <3> QED BY <3>1, <3>2 DEF t
  <2>7. ~(Left < 3 \/ (Left = 3 /\ d >= 128))
    BY <1>1, <1>6, <2>2, <2>3
  <2> QED BY <2>4, <2>5, <2>6, <2>7
<1>10. CASE Rr2Space
  <2> DEFINE x == D(0)
             d == 256 * D(0) + D(1)
  <2>1. rr2.state = "DDS_SPACE"
    BY <1>10 DEF Rr2Space, Rr2Loop
  <2>2. /\ x = 255 => On("DDS_PULSE", 2, t, n + 1)
        /\ x # 255 => n + 2 <= Len(agg)
        /\ x # 255 /\ d > 16000 => On("DDS_PULSE", 1, t, n + 2)
        /\ x # 255 /\ ~(d > 16000) =>
             Len(t.space) < RR_MAX_PULSES /\ On("DDS_PULSE", 0, WithSpace(t, d), n + 2)
    <3> DEFINE x1 == agg[n + 1]
               d1 == 256 * agg[n + 1] + agg[n + 2]
    <3>1. /\ x1 = 255 => On("DDS_PULSE", 2, t, n + 1)
          /\ x1 # 255 => n + 2 <= Len(agg)
          /\ x1 # 255 /\ d1 > 16000 => On("DDS_PULSE", 1, t, n + 2)
          /\ x1 # 255 /\ ~(d1 > 16000) =>
               Len(t.space) < RR_MAX_PULSES /\ On("DDS_PULSE", 0, WithSpace(t, d1), n + 2)
      <4> DEFINE k == n
      <4>1. /\ Onward("USM_M_RAW2", f, "DDS_SPACE", 0, t, agg, k, E, w, L)
            /\ f \in Nat /\ k \in Nat /\ Len(agg) \in Nat /\ k < Len(agg)
        BY <1>1, <1>2, <1>5, <2>1
      <4> HIDE DEF k, f
      <4> QED BY <4>1, OnRaw2Space DEF k
    <3>2. x1 = x /\ d1 = d
      BY <1>3
    <3> HIDE DEF x1, d1, x, d
    <3> QED BY <3>1, <3>2
  <2>3. x # 255 => d \in Nat /\ ~(Left < 2)
    <3> SUFFICES ASSUME x # 255 PROVE d \in Nat /\ ~(Left < 2)
      OBVIOUS
    <3>1. n + 2 <= Len(agg)
      BY <2>2
    <3>2. agg[n + 1] \in Byte /\ agg[n + 2] \in Byte
      BY <1>1, <3>1
    <3>3. D(0) \in Nat /\ D(1) \in Nat
      BY <1>3, <3>2 DEF Byte
    <3> QED BY <1>1, <1>6, <3>1, <3>3
  <2>4. \/ x = 255 /\ Rr2Turn(1, [rr2 EXCEPT !.done = 2], "DDS_PULSE")
        \/ x # 255 /\ Left < 2
        \/ x # 255 /\ d > 16000 /\ Rr2Turn(2, [rr2 EXCEPT !.done = 1], "DDS_PULSE")
        \/ x # 255 /\ d <= 16000 /\ Rr2Turn(2, [rr2 EXCEPT !.space = Append(@, d)], "DDS_PULSE")
        \/ x # 255 /\ d <= 16000 /\ Len(rr2.space) = RR_MAX_PULSES
    BY <1>10 DEF Rr2Space
  <2> HIDE DEF x, d
  <2>5. ASSUME NEW k, NEW done, done \in {1, 2},
               Rr2Turn(k, [rr2 EXCEPT !.done = done], "DDS_PULSE"),
               On("DDS_PULSE", done, t, n + k)
        PROVE  Taken
    <3>1. /\ rr2' = [[rr2 EXCEPT !.done = done] EXCEPT !.state = "DDS_PULSE"]
          /\ n' = n + k /\ agg' = agg /\ pc' = pc
      BY <2>5 DEF Rr2Turn
    <3>2. /\ rr2'.state = "DDS_PULSE" /\ rr2'.done = done
          /\ rr2'.pulse = rr2.pulse /\ rr2'.space = rr2.space
          /\ rr2'.freq_total = rr2.freq_total
          /\ rr2'.nof_freq_samples = rr2.nof_freq_samples
      BY <1>1, <3>1, Rr2Fields, Rr2Written
    <3>3. Rr2Tables(rr2') = t
      BY <3>2 DEF Rr2Tables, t
    <3>4. Rr2Pairs => Rr2Pairs'
      BY <2>1, <2>5, <3>2 DEF Rr2Pairs
    <3> QED BY <2>5, <3>1, <3>2, <3>3, <3>4
  <2>6. CASE x = 255 /\ Rr2Turn(1, [rr2 EXCEPT !.done = 2], "DDS_PULSE")
    BY <2>2, <2>5, <2>6
  <2>7. CASE x # 255 /\ d > 16000 /\ Rr2Turn(2, [rr2 EXCEPT !.done = 1], "DDS_PULSE")
    BY <2>2, <2>5, <2>7
  <2>8. CASE x # 255 /\ d <= 16000 /\ Rr2Turn(2, [rr2 EXCEPT !.space = Append(@, d)], "DDS_PULSE")
    <3>1. On("DDS_PULSE", 0, WithSpace(t, d), n + 2)
      BY <2>2, <2>3, <2>8
    <3> DEFINE q == Append(rr2.space, d)
    <3>2. /\ rr2' = [[rr2 EXCEPT !.space = q] EXCEPT !.state = "DDS_PULSE"]
          /\ n' = n + 2 /\ agg' = agg /\ pc' = pc
      BY <2>8 DEF Rr2Turn
    <3>3. Len(q) = Len(rr2.space) + 1
      BY <1>1, <2>3, <2>8, OneMore
    <3> HIDE DEF q
    <3>4. /\ rr2'.state = "DDS_PULSE" /\ rr2'.done = rr2.done
          /\ rr2'.pulse = rr2.pulse /\ rr2'.space = q
          /\ rr2'.freq_total = rr2.freq_total
          /\ rr2'.nof_freq_samples = rr2.nof_freq_samples
      BY <1>1, <3>2, Rr2Fields, Rr2Written
    <3>5. Rr2Tables(rr2') = WithSpace(t, d)
      BY <1>4, <3>4 DEF Rr2Tables, WithSpace, t, q
    <3>6. Rr2Pairs => Rr2Pairs'
      BY <1>1, <1>2, <2>1, <3>3, <3>4 DEF Rr2Pairs
    <3> QED BY <1>2, <3>1, <3>2, <3>4, <3>5, <3>6
  <2>9. CASE x # 255 /\ d <= 16000 /\ Len(rr2.space) = RR_MAX_PULSES
    BY <1>4, <2>2, <2>3, <2>9, BuffersAssumption
  <2> QED BY <2>3, <2>4, <2>6, <2>7, <2>8, <2>9
<1> QED BY <1>7, <1>8, <1>9, <1>10 DEF Rr2Parse

(***************************************************************************)
(* The library and the wire: an invariant of a quiet user.                 *)
(***************************************************************************)

\* The hypotheses: the user knows the commands and waits, codes keep apart from
\* replies, nothing fails, reads do not cut a token, and a read fits in the
\* buffer behind what is kept.
QuietUser ==
    /\ Quiet /\ Apart /\ ~AnyCut /\ ~Toggle /\ Faults = {}
    /\ Commands \subseteq KnownCommands
    /\ MaxRead + UIRT_UIR_CODE_LEN - 1 <= USM_AGG_MAX
    /\ MaxRead + 3 <= USM_AGG_MAX

\* The lines E came out; the state machine, in mode m with the contexts c and
\* c2, is at byte k of a and will take w for the rest of the lines L.
Decodes(m, f, c, c2, a, k, E, w, L) ==
    \/ m = "USM_M_UIR" /\ Ahead("USM_M_UIR", f, Between(E), a, 0, w, L)
    \/ /\ m = "USM_M_RAW"
       /\ Onward("USM_M_RAW", f, c.state, c.done, RrTables(c), a, k, E, w, L)
    \/ /\ m = "USM_M_RAW2"
       /\ Onward("USM_M_RAW2", f, c2.state, c2.done, Rr2Tables(c2), a, k, E, w, L)

\* Its decoder is between codes.
Rests(m, c, c2) ==
    \/ m = "USM_M_UIR"
    \/ m = "USM_M_RAW" /\ Through(c.state, RrTables(c))
    \/ m = "USM_M_RAW2" /\ Through(c2.state, Rr2Tables(c2))

\* With nothing buffered and nothing on the wire it has decoded all there is,
LEMMA DecodesThrough ==
    ASSUME NEW m, NEW f \in Nat, NEW c, NEW c2, NEW a \in Seq(Byte), NEW k \in Nat,
           NEW E \in Seq(Line), NEW L, Decodes(m, f, c, c2, a, k, E, <<>>, L),
           m = "USM_M_RAW" => c.done = 0, m = "USM_M_RAW2" => c2.done = 0,
           m = "USM_M_UIR" => Len(a) < UIRT_UIR_CODE_LEN,
           m # "USM_M_UIR" => Len(a) = k
    PROVE  Rests(m, c, c2) /\ L = E /\ (m = "USM_M_UIR" => a = <<>>)
<1>1. CASE m = "USM_M_UIR"
  <2>1. Ahead("USM_M_UIR", f, Between(E), a, 0, <<>>, L)
    BY <1>1 DEF Decodes
  <2>2. a = <<>> /\ L = E
    BY <1>1, <2>1, AheadUirEnd
  <2> QED BY <1>1, <2>2 DEF Rests
<1>2. CASE m = "USM_M_RAW"
  <2> DEFINE t == RrTables(c)
  <2>1. Onward("USM_M_RAW", f, c.state, 0, t, a, k, E, <<>>, L)
    BY <1>2 DEF Decodes
  <2> HIDE DEF t
  <2>2. Through(c.state, t) /\ L = E
    BY <1>2, <2>1, OnThrough
  <2> QED BY <1>2, <2>2 DEF Rests, t
<1>3. CASE m = "USM_M_RAW2"
  <2> DEFINE t == Rr2Tables(c2)
  <2>1. Onward("USM_M_RAW2", f, c2.state, 0, t, a, k, E, <<>>, L)
    BY <1>3 DEF Decodes
  <2> HIDE DEF t
  <2>2. Through(c2.state, t) /\ L = E
    BY <1>3, <2>1, OnThrough
  <2> QED BY <1>3, <2>2 DEF Rests, t
<1> QED BY <1>1, <1>2, <1>3 DEF Decodes

\* and the other way around.
LEMMA RestsDecodes ==
    ASSUME NEW m, NEW f \in Nat, NEW c, NEW c2, NEW E \in Seq(Line),
           Rests(m, c, c2),
           m = "USM_M_RAW" => c.done = 0, m = "USM_M_RAW2" => c2.done = 0
    PROVE  Decodes(m, f, c, c2, <<>>, 0, E, <<>>, E)
<1> DEFINE a == <<>>
           k == 0
<1>0. Len(a) = k /\ k \in Nat
  OBVIOUS
<1> HIDE DEF a, k
<1>1. CASE m = "USM_M_UIR"
  <2> DEFINE s == Between(E)
  <2>1. s \in Reading /\ MayStop("USM_M_UIR", s)
    BY EmptyReadings, ReadsFields DEF MayStop, Between
  <2> HIDE DEF s
  <2>2. StepsTo(Reader("USM_M_UIR", f), s, <<>>, s)
    BY <2>1, ReaderStep, StepsToNone
  <2>3. Ahead("USM_M_UIR", f, s, a, k, <<>>, E)
    BY <1>0, <2>1, <2>2, NothingAhead DEF s
  <2> QED BY <1>1, <2>3, Zenon DEF Decodes, s, k, a
<1>2. CASE m = "USM_M_RAW"
  <2> DEFINE t == RrTables(c)
  <2>1. Through(c.state, t)
    BY <1>2 DEF Rests
  <2> HIDE DEF t
  <2>2. Onward("USM_M_RAW", f, c.state, 0, t, a, k, E, <<>>, E)
    BY <1>0, <2>1, ThroughOn
  <2> QED BY <1>2, <2>2 DEF Decodes, t, k, a
<1>3. CASE m = "USM_M_RAW2"
  <2> DEFINE t == Rr2Tables(c2)
  <2>1. Through(c2.state, t)
    BY <1>3 DEF Rests
  <2> HIDE DEF t
  <2>2. Onward("USM_M_RAW2", f, c2.state, 0, t, a, k, E, <<>>, E)
    BY <1>0, <2>1, ThroughOn
  <2> QED BY <1>3, <2>2 DEF Decodes, t, k, a
<1> QED BY <1>1, <1>2, <1>3 DEF Rests

\* What the device's mode will be once it has answered the command c.
DeviceModeAfter(c) ==
    CASE c = UIRT_CMD_MODE_UIR  -> "USM_M_UIR"
      [] c = UIRT_CMD_MODE_RAW  -> "USM_M_RAW"
      [] c = UIRT_CMD_MODE_RAW2 -> "USM_M_RAW2"
      [] OTHER                  -> devMode

\* The state machine is in the mode the device is in, or will be in once it
\* has answered; the frequency is one that can be chosen; a decoder that has
\* begun a code has the default frequency.
SettingsInv ==
    /\ mode # "USM_M_ECHO"
    /\ mode = IF toDev = <<>> THEN devMode ELSE DeviceModeAfter(Head(toDev))
    /\ default_frequency \in Frequencies \cup {0}
    /\ rr.state # "DDS_INIT" \/ rr.done # 0 => rr.freq = DefaultRrFrequency

\* A known command.
LEMMA CommandMode ==
    ASSUME NEW c \in KnownCommands, mode = devMode
    PROVE  ModeAfter(c) = DeviceModeAfter(CommandSent(c))
           /\ (mode # "USM_M_ECHO" => ModeAfter(c) # "USM_M_ECHO")
<1>1. /\ UIRT_CMD_MODE_UIR = 32 /\ UIRT_CMD_MODE_RAW = 33 /\ UIRT_CMD_MODE_RAW2 = 36
      /\ UIRT_CMD_TX_PRONTO = 0 /\ UIRT_CMD_TX_RAW = 54
  BY DEF UIRT_CMD_MODE_UIR, UIRT_CMD_MODE_RAW, UIRT_CMD_MODE_RAW2,
         UIRT_CMD_TX_PRONTO, UIRT_CMD_TX_RAW
<1>2. CASE c = 32
  BY <1>1, <1>2 DEF ModeAfter, DeviceModeAfter, CommandSent
<1>3. CASE c = 33
  BY <1>1, <1>3 DEF ModeAfter, DeviceModeAfter, CommandSent
<1>4. CASE c = 36
  BY <1>1, <1>4 DEF ModeAfter, DeviceModeAfter, CommandSent
<1>5. CASE c # 32 /\ c # 33 /\ c # 36
  <2>1. ModeAfter(c) = mode
    BY <1>1, <1>5 DEF ModeAfter
  <2>2. LET d == CommandSent(c) IN d # 32 /\ d # 33 /\ d # 36
    BY <1>1, <1>5 DEF CommandSent
  <2>3. DeviceModeAfter(CommandSent(c)) = devMode
    BY <1>1, <2>2 DEF DeviceModeAfter
  <2> QED BY <2>1, <2>3
<1> QED BY <1>2, <1>3, <1>4, <1>5

\* The frequency of a RAW context of which others were written.
LEMMA RrFreqKept ==
    ASSUME NEW ctx \in RrCtx, NEW v, NEW x
    PROVE  /\ LET c == [ctx EXCEPT !.state = x] IN c.freq = ctx.freq
           /\ LET c == [[ctx EXCEPT !.interspace = v] EXCEPT !.state = x] IN c.freq = ctx.freq
           /\ LET c == [[ctx EXCEPT !.pulse = v] EXCEPT !.state = x] IN c.freq = ctx.freq
           /\ LET c == [[ctx EXCEPT !.space = v] EXCEPT !.state = x] IN c.freq = ctx.freq
           /\ LET c == [[ctx EXCEPT !.done = v] EXCEPT !.state = x] IN c.freq = ctx.freq
BY DEF RrCtx

\* The RAW decoder does not choose a frequency.
LEMMA RrParseFreq ==
    ASSUME LibInv, RrParse, rr.state # "DDS_INIT" => rr.freq = DefaultRrFrequency
    PROVE  rr'.freq = DefaultRrFrequency
<1>1. rr \in RrCtx
  BY DEF LibInv, LibTypeOK
<1>2. CASE RrInit
  <2>1. rr' = [RrZero EXCEPT !.state = "DDS_INTERSPACE"]
    BY <1>2 DEF RrInit, RrTurn
  <2> QED BY <2>1 DEF RrZero
<1>3. CASE ~RrInit
  <2>1. rr.freq = DefaultRrFrequency
    BY <1>3 DEF RrParse, RrInterspace, RrPulse, RrSpace, RrLoop
  <2>2. rr'.freq = rr.freq
    <3>1. CASE RrInterspace
      <4> DEFINE v == 256 * D(0) + D(1)
      <4>1. \/ rr' = [rr EXCEPT !.state = "DDS_PULSE"]
            \/ rr' = [[rr EXCEPT !.interspace = v] EXCEPT !.state = "DDS_PULSE"]
        BY <3>1 DEF RrInterspace, RrTurn, RrShort
      <4> HIDE DEF v
      <4>2. CASE rr' = [rr EXCEPT !.state = "DDS_PULSE"]
        BY <1>1, <4>2, RrFreqKept
      <4>3. CASE rr' = [[rr EXCEPT !.interspace = v] EXCEPT !.state = "DDS_PULSE"]
        BY <1>1, <4>3, RrFreqKept
      <4> QED BY <4>1, <4>2, <4>3
    <3>2. CASE RrPulse
      <4> DEFINE v == Append(rr.pulse, D(0))
      <4>1. \/ rr' = rr
            \/ rr' = [[rr EXCEPT !.pulse = v] EXCEPT !.state = "DDS_SPACE"]
        BY <3>2 DEF RrPulse, RrTurn
      <4> HIDE DEF v
      <4>2. CASE rr' = [[rr EXCEPT !.pulse = v] EXCEPT !.state = "DDS_SPACE"]
        BY <1>1, <4>2, RrFreqKept
      <4> QED BY <4>1, <4>2
    <3>3. CASE RrSpace
      <4> DEFINE v == Append(rr.space, D(0))
      <4>1. \/ rr' = rr
            \/ \E d \in {1, 2} : rr' = [[rr EXCEPT !.done = d] EXCEPT !.state = "DDS_PULSE"]
            \/ rr' = [[rr EXCEPT !.space = v] EXCEPT !.state = "DDS_PULSE"]
        BY <3>3 DEF RrSpace, RrTurn
      <4> HIDE DEF v
      <4>2. ASSUME NEW d, rr' = [[rr EXCEPT !.done = d] EXCEPT !.state = "DDS_PULSE"]
            PROVE  rr'.freq = rr.freq
        BY <1>1, <4>2, RrFreqKept
      <4>3. CASE rr' = [[rr EXCEPT !.space = v] EXCEPT !.state = "DDS_PULSE"]
        BY <1>1, <4>3, RrFreqKept
      <4> QED BY <4>1, <4>2, <4>3
    <3> QED BY <1>3, <3>1, <3>2, <3>3 DEF RrParse
  <2> QED BY <2>1, <2>2
<1> QED BY <1>2, <1>3

\* Only a command changes the mode, only the application the frequency.
LEMMA ModeChanges ==
    ASSUME [Next]_vars
    PROVE  /\ mode' = mode \/ RibsuWrite
           /\ default_frequency' = default_frequency \/ RibsuSetDefaultFrequency
<1>1. CASE DriverRead
  BY <1>1 DEF DriverRead, RibsuCallback, usmVars, UsmProcessUirt, UsmProcessThru,
              UsmProcessUir, UsmEnterParse
<1>2. CASE Callback
  <2>1. CASE Propagate
    BY <2>1 DEF Propagate, UsmProcessUirtMore, UsmProcessThru, UsmProcessUir, UsmEnterParse
  <2>2. CASE Parse
    BY <2>2 DEF Parse, UsmParse, UsmProcessRawTail, UsmProcessRaw2Tail
  <2> QED BY <1>2, <2>1, <2>2 DEF Callback
<1>3. CASE RibsuWrite
  BY <1>3 DEF RibsuWrite, UsmProcessUser, UserSwitch, usmVars
<1>4. CASE RibsuToggleInterpretation \/ RibsuSetDefaultFrequency \/ Device
           \/ Waiting \/ Undefined \/ UNCHANGED vars
  BY <1>4 DEF RibsuToggleInterpretation, RibsuSetDefaultFrequency, Device, Waiting,
              Undefined, vars, usmVars
<1> QED BY <1>1, <1>2, <1>3, <1>4 DEF Next

\* SettingsInv is inductive.
LEMMA SettingsKept ==
    ASSUME QuietUser, RibsuInv, QuietInv, SettingsInv, [Next]_vars
    PROVE  SettingsInv'
<1>0. LibInv /\ interp /\ toDev \in Seq(Byte)
  BY DEF RibsuInv, LinkTypeOK, QuietInv
<1>1. rr'.state # "DDS_INIT" \/ rr'.done # 0 => rr'.freq = DefaultRrFrequency
  BY <1>0, RrChanges, RrParseFreq DEF SettingsInv
<1>2. default_frequency' \in Frequencies \cup {0}
  BY ModeChanges DEF SettingsInv, RibsuSetDefaultFrequency
<1>3. CASE RibsuWrite
  <2>1. toDev = <<>> /\ devMode' = devMode
    BY <1>3 DEF RibsuWrite, Call, QuietUser
  <2>2. PICK c \in Commands :
          UsmProcessUser(c) /\ toDev' = Append(toDev, CommandSent(c))
    BY <1>0, <1>3 DEF RibsuWrite, QuietUser
  <2>3. mode' = ModeAfter(c) /\ mode = devMode /\ mode # "USM_M_ECHO"
    BY <2>1, <2>2 DEF UsmProcessUser, UserSwitch, SettingsInv
  <2>4. c \in KnownCommands
    BY DEF QuietUser
  <2>5. toDev' # <<>> /\ Head(toDev') = CommandSent(c)
    <3> DEFINE d == CommandSent(c)
    <3>1. toDev' = <<d>>
      BY <2>1, <2>2
    <3> HIDE DEF d
    <3>2. Head(toDev') = d /\ toDev' # <<>>
      BY <3>1
    <3> QED BY <3>2 DEF d
  <2>6. mode' = DeviceModeAfter(CommandSent(c)) /\ mode' # "USM_M_ECHO"
    BY <2>3, <2>4, CommandMode
  <2>7. DeviceModeAfter(CommandSent(c))' = DeviceModeAfter(CommandSent(c))
    BY <2>1 DEF DeviceModeAfter
  <2>8. mode' = IF toDev' = <<>> THEN devMode' ELSE DeviceModeAfter(Head(toDev))'
    <3>1. DeviceModeAfter(Head(toDev))' = DeviceModeAfter(CommandSent(c))
      BY <2>1, <2>5 DEF DeviceModeAfter
    <3> QED BY <2>5, <2>6, <3>1
  <2> QED BY <1>1, <1>2, <2>6, <2>8 DEF SettingsInv
<1>4. CASE Device /\ DeviceAnswer
  <2>1. toDev # <<>> /\ mode' = mode
    BY <1>4 DEF DeviceAnswer, Device, usmVars
  <2>2. mode = DeviceModeAfter(Head(toDev))
    BY <2>1 DEF SettingsInv
  <2>3. devMode' = DeviceModeAfter(Head(toDev))
    BY <1>4 DEF DeviceAnswer, DeviceModeAfter
  <2>4. toDev' = <<>>
    <3>1. Len(toDev) = 1
      BY <2>1 DEF QuietInv
    <3> QED BY <1>0, <1>4, <3>1, OnlyCommand DEF DeviceAnswer
  <2> QED BY <1>1, <1>2, <2>1, <2>2, <2>3, <2>4 DEF SettingsInv
<1>5. CASE ~RibsuWrite /\ UNCHANGED <<toDev, devMode>>
  BY <1>1, <1>2, <1>5, ModeChanges DEF SettingsInv, DeviceModeAfter
<1>6. \/ RibsuWrite \/ (Device /\ DeviceAnswer) \/ UNCHANGED <<toDev, devMode>>
  BY DEF Next, RibsuToggleInterpretation, RibsuSetDefaultFrequency, DriverRead, Callback,
         Propagate, Parse, Device, DeviceCode, Waiting, Undefined, vars, deviceVars
<1> QED BY <1>3, <1>4, <1>5, <1>6

\* What is left of a buffer whose first m bytes were dropped and whose then
\* first j were cleared.
LEMMA SlideAndClear ==
    ASSUME NEW a \in Seq(Byte), NEW m \in 0 .. Len(a), NEW j \in Nat
    PROVE  LET b == ZeroFront(BufSlide(a, m), j)
           IN  /\ Len(b) \in Nat /\ Len(b) + m = Len(a)
               /\ \A i \in Nat : 1 <= i /\ i <= Len(a) - m =>
                     (i <= j => b[i] = 0) /\ (~(i <= j) => b[i] = a[m + i])
<1> DEFINE r == BufSlide(a, m)
           b == ZeroFront(r, j)
<1>1. Len(a) \in Nat /\ m \in Nat /\ m <= Len(a)
  OBVIOUS
<1>2. r \in Seq(Byte) /\ Len(r) = Len(a) - m
  BY BufSlideType
<1>3. b \in Seq(Byte) /\ Len(b) = Len(r)
  <2> HIDE DEF r
  <2>1. j \in Int
    OBVIOUS
  <2> QED BY <1>2, <2>1, ZeroFrontType
<1>4. ASSUME NEW i \in Nat, 1 <= i, i <= Len(a) - m
      PROVE  r[i] = a[m + i]
  <2>1. ~(m >= Len(a))
    BY <1>1, <1>4
  <2>2. r = SubSeq(a, m + 1, Len(a))
    BY <2>1 DEF BufSlide
  <2>3. m + 1 \in Int /\ Len(a) \in Int
    BY <1>1
  <2> HIDE DEF r
  <2>4. r[i] = a[m + 1 + i - 1]
    BY <1>1, <1>4, <2>2, <2>3, SubSeqProperties
  <2>5. m + 1 + i - 1 = m + i
    BY <1>1
  <2> QED BY <2>4, <2>5
<1>5. b = [i \in 1 .. Len(r) |-> IF i <= j THEN 0 ELSE r[i]]
  BY DEF ZeroFront
<1> HIDE DEF r, b
<1>6. ASSUME NEW i \in Nat, 1 <= i, i <= Len(a) - m
      PROVE  (i <= j => b[i] = 0) /\ (~(i <= j) => b[i] = a[m + i])
  <2>1. i \in 1 .. Len(r)
    BY <1>1, <1>2, <1>6
  <2>2. b[i] = IF i <= j THEN 0 ELSE r[i]
    BY <1>5, <2>1
  <2> QED BY <1>4, <1>6, <2>2
<1>7. Len(b) \in Nat /\ Len(b) + m = Len(a)
  BY <1>1, <1>2, <1>3
<1> QED BY <1>6, <1>7 DEF b, r

\* The buffer after a parse that has not ended at a gap,
LEMMA AfterParse ==
    ASSUME agg \in Seq(Byte), n \in 0 .. Len(agg), NEW done, done # 1
    PROVE  LET b == AggAfterParse(done)
           IN  /\ Len(b) \in Nat /\ Len(b) + n = Len(agg)
               /\ \A i \in Nat : n < n + i /\ n + i <= Len(agg) => b[i] = agg[n + i]
<1> DEFINE b == AggAfterParse(done)
<1>1. Len(agg) \in Nat /\ n \in Nat /\ n - n = 0 /\ n - n \in Nat
  OBVIOUS
<1>2. b = ZeroFront(BufSlide(agg, n), n - n)
  BY DEF AggAfterParse, ParseConsumed
<1> HIDE DEF b
<1> DEFINE j == n - n
<1>3. /\ Len(b) \in Nat /\ Len(b) + n = Len(agg)
      /\ \A i \in Nat : 1 <= i /\ i <= Len(agg) - n =>
            (i <= j => b[i] = 0) /\ (~(i <= j) => b[i] = agg[n + i])
  <2>1. j \in Nat /\ b = ZeroFront(BufSlide(agg, n), j)
    BY <1>1, <1>2
  <2> HIDE DEF j
  <2>2. LET z == ZeroFront(BufSlide(agg, n), j)
        IN  /\ Len(z) \in Nat /\ Len(z) + n = Len(agg)
            /\ \A i \in Nat : 1 <= i /\ i <= Len(agg) - n =>
                  (i <= j => z[i] = 0) /\ (~(i <= j) => z[i] = agg[n + i])
    BY <2>1, SlideAndClear
  <2> QED BY <2>1, <2>2
<1>4. ASSUME NEW i \in Nat, n < n + i, n + i <= Len(agg)
      PROVE  b[i] = agg[n + i]
  <2>1. 1 <= i /\ i <= Len(agg) - n /\ ~(i <= j)
    BY <1>1, <1>4
  <2> QED BY <1>3, <2>1
<1> QED BY <1>3, <1>4 DEF b

\* and one that has: the gap has become an interspace of zero.
LEMMA AfterParseAtGap ==
    ASSUME agg \in Seq(Byte), n \in 0 .. Len(agg), n >= 2
    PROVE  LET b == AggAfterParse(1)
           IN  /\ Len(b) \in Nat /\ Len(b) + n = Len(agg) + 2 /\ b[1] = 0 /\ b[2] = 0
               /\ \A i \in Nat : n < n + i /\ n + i <= Len(agg) => b[2 + i] = agg[n + i]
<1> DEFINE b == AggAfterParse(1)
           m == n - 2
<1>1. Len(agg) \in Nat /\ n \in Nat /\ m \in 0 .. Len(agg) /\ m \in Nat /\ n = m + 2
      /\ n - m = 2 /\ n <= Len(agg)
  OBVIOUS
<1>2. b = ZeroFront(BufSlide(agg, m), n - m)
  BY DEF AggAfterParse, ParseConsumed
<1> HIDE DEF b, m
<1>3. /\ Len(b) \in Nat /\ Len(b) + m = Len(agg)
      /\ \A i \in Nat : 1 <= i /\ i <= Len(agg) - m =>
            (i <= 2 => b[i] = 0) /\ (~(i <= 2) => b[i] = agg[m + i])
  <2> DEFINE j == 2
  <2>0. m \in 0 .. Len(agg)
    BY <1>1
  <2>1. j \in Nat /\ b = ZeroFront(BufSlide(agg, m), j)
    BY <1>1, <1>2
  <2> HIDE DEF j
  <2>2. LET z == ZeroFront(BufSlide(agg, m), j)
        IN  Len(z) \in Nat /\ Len(z) + m = Len(agg)
    BY <2>0, <2>1, SlideAndClear
  <2>3. LET z == ZeroFront(BufSlide(agg, m), j)
        IN  \A i \in Nat : 1 <= i /\ i <= Len(agg) - m =>
                  (i <= j => z[i] = 0) /\ (~(i <= j) => z[i] = agg[m + i])
    BY <2>0, <2>1, SlideAndClear
  <2> QED BY <2>1, <2>2, <2>3 DEF j
<1>4. ASSUME NEW i \in Nat, n < n + i, n + i <= Len(agg)
      PROVE  b[2 + i] = agg[n + i]
  <2>1. 2 + i \in Nat /\ 1 <= 2 + i /\ 2 + i <= Len(agg) - m /\ ~(2 + i <= 2)
    BY <1>1, <1>4
  <2>2. m + (2 + i) = n + i
    BY <1>1
  <2>3. b[2 + i] = agg[m + (2 + i)]
    BY <1>3, <2>1
  <2> QED BY <2>2, <2>3
<1>5. b[1] = 0 /\ b[2] = 0
  BY <1>1, <1>3
<1>6. Len(b) + n = Len(agg) + 2
  <2>1. Len(b) \in Nat /\ Len(b) + m = Len(agg)
    BY <1>3
  <2> QED BY <1>1, <2>1
<1> QED BY <1>3, <1>4, <1>5, <1>6 DEF b

(***************************************************************************)
(* The invariant.                                                          *)
(***************************************************************************)

\* A token is never short, nothing is undefined; only a UIR code is kept
\* between callbacks.
NoTrouble ==
    /\ pc \notin {"rr_tail", "rr2_tail", "undefined"}
    /\ pc = "runloop" /\ mode # "USM_M_UIR" => agg = <<>>

\* What the wire has for the decoders.
CodesAhead == IF state = "USM_W_CODE" THEN wire ELSE <<>>

\* The lines E came out, the last of them is perhaps still in out.
Shows(E) ==
    Len(shown) < MaxShown =>
        E = IF pc = "propagate" /\ out # <<>> THEN Append(shown, out) ELSE shown

\* The lines L are those to be shown, but for a reply on the wire.
Expects(L) ==
    \/ (state = "USM_W_CODE" \/ toDev # <<>>) /\ expected = L
    \/ /\ state # "USM_W_CODE" /\ toDev = <<>>
       /\ \E c \in Byte : /\ wire = Token("reply", Reply(c))
                          /\ expected = Append(L, Reply(c))

Links(E, L) ==
    /\ Shows(E)
    /\ Decodes(mode, default_frequency, rr, rr2, agg, n, E, CodesAhead, L)
    /\ CodesAsShown => Expects(L)

LinkInv == NoTrouble /\ \E E \in Seq(Line), L \in Seq(Line) : Links(E, L)

\* What the other invariants say that the steps below need.
LinkFacts ==
    /\ RibsuInv /\ QuietInv /\ SettingsInv /\ NoTrouble

\* With nothing on the wire nothing is buffered and no decoder has begun.
LEMMA LinkThrough ==
    ASSUME LinkFacts, pc = "runloop", NEW E \in Seq(Line), NEW L,
           Decodes(mode, default_frequency, rr, rr2, agg, n, E, <<>>, L)
    PROVE  Rests(mode, rr, rr2) /\ L = E /\ agg = <<>> /\ n = 0
<1>1. /\ agg \in Seq(Byte) /\ default_frequency \in Nat /\ n = 0
      /\ rr.done = 0 /\ rr2.done = 0 /\ Len(agg) <= Residue /\ Len(agg) \in Nat
  BY DEF LinkFacts, RibsuInv, LibInv, LibTypeOK, PassInv, AggResidue
<1>2. mode # "USM_M_UIR" => agg = <<>> /\ Len(agg) = n
  <2>1. Len(<<>>) = 0
    OBVIOUS
  <2> QED BY <1>1, <2>1 DEF LinkFacts, NoTrouble
<1>3. mode = "USM_M_UIR" => Len(agg) < UIRT_UIR_CODE_LEN
  BY <1>1, CodeLenAssumption DEF Residue
<1>4. n \in Nat
  BY <1>1
<1>5. Rests(mode, rr, rr2) /\ L = E /\ (mode = "USM_M_UIR" => agg = <<>>)
  BY <1>1, <1>2, <1>3, <1>4, DecodesThrough
<1> QED BY <1>1, <1>2, <1>5

\* Nothing is on the wire, so all lines to be shown have been.
LEMMA NothingAwaited ==
    ASSUME QuietInv, wire = <<>>, NEW L, Expects(L)
    PROVE  expected = L
<1>1. ASSUME NEW c, wire = Token("reply", Reply(c)) PROVE FALSE
  <2>1. Len(wire) > 0
    BY <1>1, ReplyToken
  <2>2. Len(wire) = 0
    OBVIOUS
  <2> QED BY <2>1, <2>2
<1> QED BY <1>1 DEF Expects

\* A command.
LEMMA LinkWrite ==
    ASSUME QuietUser, LinkFacts, LinkInv, SettingsInv', RibsuWrite
    PROVE  LinkInv'
<1>1. PICK E \in Seq(Line), L \in Seq(Line) : Links(E, L)
  BY DEF LinkInv
<1>2. /\ toDev = <<>> /\ wire = <<>> /\ pc = "runloop" /\ interp
      /\ UNCHANGED <<pc, first, n, out, wire, expected, shown>>
  BY DEF RibsuWrite, Call, QuietUser, LinkFacts, QuietInv, callbackVars
<1>3. PICK c \in Commands :
          UsmProcessUser(c) /\ toDev' = Append(toDev, CommandSent(c))
  BY <1>2 DEF RibsuWrite, QuietUser
<1>4. /\ mode' = ModeAfter(c) /\ state' # "USM_W_CODE" /\ agg' = <<>>
      /\ rr' = (IF c = UIRT_CMD_MODE_RAW THEN RrZero ELSE rr)
      /\ rr2' = (IF c = UIRT_CMD_MODE_RAW2 THEN Rr2Zero ELSE rr2)
      /\ default_frequency' = default_frequency
  BY <1>3 DEF UsmProcessUser, UserSwitch
<1>5. Decodes(mode, default_frequency, rr, rr2, agg, n, E, <<>>, L)
  BY <1>1, <1>2 DEF Links, CodesAhead
<1>6. Rests(mode, rr, rr2) /\ L = E /\ n = 0
  BY <1>2, <1>5, LinkThrough
<1>7. rr'.done = 0 /\ rr2'.done = 0
  BY <1>2, <1>4 DEF RrZero, Rr2Zero, LinkFacts, RibsuInv, LibInv, PassInv
<1>8. Rests(mode', rr', rr2')
  <2>1. /\ UIRT_CMD_MODE_UIR = 32 /\ UIRT_CMD_MODE_RAW = 33 /\ UIRT_CMD_MODE_RAW2 = 36
    BY DEF UIRT_CMD_MODE_UIR, UIRT_CMD_MODE_RAW, UIRT_CMD_MODE_RAW2
  <2>2. c \in KnownCommands
    BY DEF QuietUser
  <2>6. CASE c = 32
    <3>1. mode' = "USM_M_UIR"
      BY <1>4, <2>1, <2>2, <2>6 DEF ModeAfter
    <3> QED BY <3>1 DEF Rests
  <2>3. CASE c = 33
    <3>1. mode' = "USM_M_RAW" /\ rr'.state = "DDS_INIT"
      BY <1>4, <2>1, <2>3, <2>2 DEF ModeAfter, RrZero
    <3> QED BY <3>1 DEF Rests, Through
  <2>4. CASE c = 36
    <3>1. mode' = "USM_M_RAW2" /\ rr2'.state = "DDS_INIT"
      BY <1>4, <2>1, <2>4, <2>2 DEF ModeAfter, Rr2Zero
    <3> QED BY <3>1 DEF Rests, Through
  <2>5. CASE c # 32 /\ c # 33 /\ c # 36
    <3>1. mode' = mode /\ rr' = rr /\ rr2' = rr2
      BY <1>4, <2>1, <2>5, <2>2 DEF ModeAfter
    <3> QED BY <1>6, <3>1
  <2> QED BY <2>3, <2>4, <2>5, <2>6
<1>9. Decodes(mode', default_frequency', rr', rr2', agg', n', E, <<>>, E)
  <2>1. default_frequency' \in Nat /\ agg' = <<>> /\ n' = 0
    BY <1>2, <1>4, <1>6 DEF LinkFacts, RibsuInv, LibInv, LibTypeOK
  <2>2. Decodes(mode', default_frequency', rr', rr2', <<>>, 0, E, <<>>, E)
    BY <1>7, <1>8, <2>1, RestsDecodes
  <2> QED BY <2>1, <2>2
<1>10. CodesAhead' = <<>> /\ Shows(E)'
  BY <1>1, <1>2, <1>4 DEF CodesAhead, Links, Shows
<1>11. CodesAsShown => Expects(E)'
  <2>1. toDev' # <<>>
    BY <1>2, <1>3
  <2>2. CodesAsShown => expected = L
    BY <1>1, <1>2, NothingAwaited DEF Links, LinkFacts
  <2> QED BY <1>2, <1>6, <2>1, <2>2 DEF Expects
<1>12. NoTrouble'
  BY <1>2, <1>4 DEF NoTrouble
<1> QED BY <1>9, <1>10, <1>11, <1>12 DEF LinkInv, Links

\* A default frequency: no decoder has begun a code it would be for.
LEMMA LinkFrequency ==
    ASSUME QuietUser, LinkFacts, LinkInv, SettingsInv', RibsuSetDefaultFrequency
    PROVE  LinkInv'
<1>1. PICK E \in Seq(Line), L \in Seq(Line) : Links(E, L)
  BY DEF LinkInv
<1>2. /\ toDev = <<>> /\ wire = <<>> /\ pc = "runloop"
      /\ UNCHANGED <<pc, first, n, out, toDev, wire, expected, shown>>
      /\ UNCHANGED <<mode, state, agg, rr, rr2>>
      /\ default_frequency' \in Frequencies
  BY DEF RibsuSetDefaultFrequency, Call, QuietUser, callbackVars, deviceVars
<1>3. Decodes(mode, default_frequency, rr, rr2, agg, n, E, <<>>, L)
  BY <1>1, <1>2 DEF Links, CodesAhead
<1>4. Rests(mode, rr, rr2) /\ L = E /\ agg = <<>> /\ n = 0
  BY <1>2, <1>3, LinkThrough
<1>5. rr.done = 0 /\ rr2.done = 0
  BY <1>2 DEF LinkFacts, RibsuInv, LibInv, PassInv
<1>6. Decodes(mode', default_frequency', rr', rr2', agg', n', E, <<>>, E)
  <2>1. default_frequency' \in Nat
    BY <1>2, RibsuAssumption
  <2>2. Decodes(mode, default_frequency', rr, rr2, <<>>, 0, E, <<>>, E)
    BY <1>4, <1>5, <2>1, RestsDecodes
  <2> QED BY <1>2, <1>4, <2>2
<1>7. CodesAhead' = <<>> /\ Shows(E)'
  BY <1>1, <1>2 DEF CodesAhead, Links, Shows
<1>8. CodesAsShown => Expects(E)'
  BY <1>1, <1>2, <1>4 DEF Links, Expects
<1>9. NoTrouble'
  BY <1>2 DEF NoTrouble, LinkFacts
<1> QED BY <1>6, <1>7, <1>8, <1>9 DEF LinkInv, Links

\* The device answers.
LEMMA LinkAnswer ==
    ASSUME QuietUser, LinkFacts, LinkInv, Device, DeviceAnswer
    PROVE  LinkInv'
<1>1. PICK E \in Seq(Line), L \in Seq(Line) : Links(E, L)
  BY DEF LinkInv
<1>2. /\ UNCHANGED <<pc, first, n, out, shown>>
      /\ UNCHANGED <<mode, state, agg, rr, rr2, default_frequency>>
  BY DEF Device, callbackVars, usmVars
<1>3. toDev # <<>> /\ state # "USM_W_CODE" /\ Len(toDev) = 1 /\ wire = <<>>
  BY DEF DeviceAnswer, LinkFacts, QuietInv
<1> DEFINE c == Head(toDev)
           t == Token("reply", Reply(c))
<1>4. c \in Byte /\ toDev' = <<>>
  BY <1>3, OnlyCommand DEF DeviceAnswer, LinkFacts, RibsuInv, LinkTypeOK
<1>5. wire' = t
  <2>1. wire' = <<>> \o t /\ t \in Seq(Cell)
    BY <1>3, ReplyToken DEF DeviceAnswer
  <2> HIDE DEF t
  <2> QED BY <2>1
<1>6. expected' = Append(expected, Reply(c))
  BY DEF DeviceAnswer
<1> HIDE DEF c
<1>7. Decodes(mode', default_frequency', rr', rr2', agg', n', E, CodesAhead', L)
  <2>1. CodesAhead' = <<>> /\ CodesAhead = <<>>
    BY <1>2, <1>3 DEF CodesAhead
  <2> QED BY <1>1, <1>2, <2>1 DEF Links
<1>8. Shows(E)'
  BY <1>1, <1>2 DEF Links, Shows
<1>9. CodesAsShown => Expects(L)'
  <2>1. CodesAsShown => expected = L
    BY <1>1, <1>3 DEF Links, Expects
  <2>2. state' # "USM_W_CODE"
    BY <1>2, <1>3
  <2> QED BY <1>4, <1>5, <1>6, <2>1, <2>2 DEF Expects
<1>10. NoTrouble'
  BY <1>2 DEF NoTrouble, LinkFacts
<1> QED BY <1>7, <1>8, <1>9, <1>10 DEF LinkInv, Links

\* A code that has the lines M comes behind what the decoders are to take.
LEMMA DecodesCode ==
    ASSUME NEW m, NEW f \in Nat, NEW c, NEW c2, NEW a, NEW k, NEW E \in Seq(Line),
           NEW w \in Seq(Cell), NEW L \in Seq(Line), Decodes(m, f, c, c2, a, k, E, w, L),
           NEW x \in Seq(Cell), NEW M \in Seq(Line),
           StepsTo(Reader(m, f), Between(<<>>), x, Between(M))
    PROVE  Decodes(m, f, c, c2, a, k, E, w \o x, L \o M)
<1>1. CASE m = "USM_M_UIR"
  <2>1. Ahead("USM_M_UIR", f, Between(E), a, 0, w \o x, L \o M)
    BY <1>1, EmptyReadings, AheadCode DEF Decodes
  <2> QED BY <1>1, <2>1 DEF Decodes
<1>2. CASE m = "USM_M_RAW"
  <2> DEFINE t == RrTables(c)
             p == c.state
             d == c.done
  <2>1. Onward("USM_M_RAW", f, p, d, t, a, k, E, w, L)
    BY <1>2 DEF Decodes
  <2> HIDE DEF t, p, d
  <2>2. Onward("USM_M_RAW", f, p, d, t, a, k, E, w \o x, L \o M)
    BY <1>2, <2>1, OnCode
  <2> QED BY <1>2, <2>2 DEF Decodes, t, p, d
<1>3. CASE m = "USM_M_RAW2"
  <2> DEFINE t == Rr2Tables(c2)
             p == c2.state
             d == c2.done
  <2>1. Onward("USM_M_RAW2", f, p, d, t, a, k, E, w, L)
    BY <1>3 DEF Decodes
  <2> HIDE DEF t, p, d
  <2>2. Onward("USM_M_RAW2", f, p, d, t, a, k, E, w \o x, L \o M)
    BY <1>3, <2>1, OnCode
  <2> QED BY <1>3, <2>2 DEF Decodes, t, p, d
<1> QED BY <1>1, <1>2, <1>3 DEF Decodes

\* The device receives a code.
LEMMA LinkCode ==
    ASSUME QuietUser, CodesInFormat, LinkFacts, LinkInv, Device, DeviceCode
    PROVE  LinkInv'
<1>1. PICK E \in Seq(Line), L \in Seq(Line) : Links(E, L)
  BY DEF LinkInv
<1>2. /\ UNCHANGED <<pc, first, n, out, shown>>
      /\ UNCHANGED <<mode, state, agg, rr, rr2, default_frequency>>
  BY DEF Device, callbackVars, usmVars
<1>3. PICK code \in IrCodes : /\ code.mode = devMode
                              /\ wire' = wire \o code.cells
                              /\ expected' = expected \o Lines(code, default_frequency)
  BY DEF DeviceCode
<1>4. toDev = <<>> /\ ~ReplyOnWire
  BY DEF DeviceCode, QuietUser
<1>5. state = "USM_W_CODE"
  <2>1. ReplyAhead => ReplyOnWire
    BY ReplySeen DEF LinkFacts, RibsuInv, LinkTypeOK
  <2>2. Len(<<>>) = 0
    OBVIOUS
  <2> QED BY <1>4, <2>1, <2>2 DEF LinkFacts, QuietInv
<1>6. mode = devMode
  BY <1>4 DEF LinkFacts, SettingsInv
<1>7. /\ default_frequency \in Nat /\ wire \in Seq(Cell) /\ code.cells \in Seq(Cell)
      /\ default_frequency \in Frequencies \cup {0}
  BY CodeCells DEF LinkFacts, SettingsInv, RibsuInv, LibInv, LibTypeOK, LinkTypeOK
<1>8. PICK M \in Seq(Line) :
          /\ StepsTo(Reader(code.mode, default_frequency), Between(<<>>), code.cells, Between(M))
          /\ CodesAsShown => M = Lines(code, default_frequency)
  BY <1>7, CodeSteps
<1>9. Decodes(mode, default_frequency, rr, rr2, agg, n, E, wire, L)
  BY <1>1, <1>5 DEF Links, CodesAhead
<1>10. Decodes(mode, default_frequency, rr, rr2, agg, n, E, wire \o code.cells, L \o M)
  <2> DEFINE x == code.cells
  <2>1. /\ x \in Seq(Cell)
        /\ StepsTo(Reader(mode, default_frequency), Between(<<>>), x, Between(M))
    BY <1>3, <1>6, <1>7, <1>8
  <2> HIDE DEF x
  <2>2. Decodes(mode, default_frequency, rr, rr2, agg, n, E, wire \o x, L \o M)
    BY <1>7, <1>9, <2>1, DecodesCode
  <2> QED BY <2>2 DEF x
<1>11. CodesAhead' = wire \o code.cells
  BY <1>2, <1>3, <1>5 DEF CodesAhead
<1>12. Shows(E)'
  BY <1>1, <1>2 DEF Links, Shows
<1>13. CodesAsShown => Expects(L \o M)'
  <2>1. CodesAsShown => expected = L
    BY <1>1, <1>5 DEF Links, Expects
  <2> QED BY <1>2, <1>3, <1>5, <1>8, <2>1 DEF Expects
<1>14. NoTrouble'
  BY <1>2 DEF NoTrouble, LinkFacts
<1>15. L \o M \in Seq(Line)
  OBVIOUS
<1>16. Links(E, L \o M)'
  BY <1>2, <1>10, <1>11, <1>12, <1>13 DEF Links
<1> QED BY <1>14, <1>15, <1>16 DEF LinkInv

\* A turn of a parse loop.
LEMMA LinkParse ==
    ASSUME QuietUser, LinkFacts, LinkInv,
           \/ RrParse  /\ UNCHANGED <<rr2, mode, state, default_frequency, first, out>>
           \/ Rr2Parse /\ UNCHANGED <<rr, mode, state, default_frequency, first, out>>,
           UNCHANGED <<deviceVars, interp, shown, nCmds>>
    PROVE  LinkInv' /\ (Rr2Parse => (Rr2Pairs => Rr2Pairs'))
<1>1. PICK E \in Seq(Line), L \in Seq(Line) : Links(E, L)
  BY DEF LinkInv
<1>2. /\ UNCHANGED <<mode, state, default_frequency, first, out, shown>>
      /\ UNCHANGED <<toDev, wire, expected>>
  BY DEF deviceVars
<1>3. LibInv
  BY DEF LinkFacts, RibsuInv
<1>4. Decodes(mode, default_frequency, rr, rr2, agg, n, E, CodesAhead, L)
  BY <1>1 DEF Links
<1>5. CASE RrParse /\ UNCHANGED rr2
  <2>1. pc = "rr_parse"
    BY <1>5 DEF RrParse, RrInit, RrInterspace, RrPulse, RrSpace, RrLoop
  <2>2. mode = "USM_M_RAW"
    BY <1>3, <2>1 DEF LibInv, PassInv
  <2>3. Onward("USM_M_RAW", default_frequency, rr.state, rr.done, RrTables(rr),
               agg, n, E, CodesAhead, L)
    BY <1>4, <2>2 DEF Decodes
  <2>4. /\ agg' = agg /\ pc' = pc
        /\ Onward("USM_M_RAW", default_frequency, rr'.state, rr'.done, RrTables(rr'),
                  agg, n', E, CodesAhead, L)
    BY <1>3, <1>5, <2>3, RawTurn
  <2>5. Decodes(mode', default_frequency', rr', rr2', agg', n', E, CodesAhead', L)
    BY <1>2, <2>2, <2>4 DEF Decodes, CodesAhead
  <2>6. ~Rr2Parse
    BY <2>1 DEF Rr2Parse, Rr2Init, Rr2Interspace, Rr2Pulse, Rr2Space, Rr2Loop
  <2>7. Shows(E)' /\ NoTrouble' /\ (CodesAsShown => Expects(L)')
    BY <1>1, <1>2, <2>1, <2>4 DEF Links, Shows, NoTrouble, Expects
  <2> QED BY <2>5, <2>6, <2>7 DEF LinkInv, Links
<1>6. CASE Rr2Parse /\ UNCHANGED rr
  <2>1. pc = "rr2_parse"
    BY <1>6 DEF Rr2Parse, Rr2Init, Rr2Interspace, Rr2Pulse, Rr2Space, Rr2Loop
  <2>2. mode = "USM_M_RAW2"
    BY <1>3, <2>1 DEF LibInv, PassInv
  <2>3. Onward("USM_M_RAW2", default_frequency, rr2.state, rr2.done, Rr2Tables(rr2),
               agg, n, E, CodesAhead, L)
    BY <1>4, <2>2 DEF Decodes
  <2>4. /\ agg' = agg /\ pc' = pc /\ (Rr2Pairs => Rr2Pairs')
        /\ Onward("USM_M_RAW2", default_frequency, rr2'.state, rr2'.done, Rr2Tables(rr2'),
                  agg, n', E, CodesAhead, L)
    BY <1>3, <1>6, <2>3, Raw2Turn
  <2>5. Decodes(mode', default_frequency', rr', rr2', agg', n', E, CodesAhead', L)
    BY <1>2, <2>2, <2>4 DEF Decodes, CodesAhead
  <2>7. Shows(E)' /\ NoTrouble' /\ (CodesAsShown => Expects(L)')
    BY <1>1, <1>2, <2>1, <2>4 DEF Links, Shows, NoTrouble, Expects
  <2> QED BY <2>4, <2>5, <2>7 DEF LinkInv, Links
<1> QED BY <1>5, <1>6

\* The line of a finished RAW code,
LEMMA RawLine ==
    ASSUME NEW ctx \in RrCtx, ctx.freq = DefaultRrFrequency, NEW f \in Nat
    PROVE  RrOutputPronto(RrSetFrequency(ctx, f)) = BurstLine("USM_M_RAW", f, RrTables(ctx))
<1> DEFINE g == IF f = 0 THEN DefaultRrFrequency ELSE f
           c == RrSetFrequency(ctx, f)
           t == RrTables(ctx)
           k == 78000
<1>1. c.freq = g /\ c.pulse = ctx.pulse /\ c.space = ctx.space
  <2>1. [ctx EXCEPT !.freq = f].freq = f /\ [ctx EXCEPT !.freq = f].pulse = ctx.pulse
        /\ [ctx EXCEPT !.freq = f].space = ctx.space
    BY DEF RrCtx
  <2> QED BY <2>1 DEF RrSetFrequency
<1>2. t.pulse = ctx.pulse /\ t.space = ctx.space
  BY DEF RrTables
<1>3. RrOutputPronto(c) = ProntoWords(k, c.freq, c.pulse, c.space)
  BY DEF RrOutputPronto
<1>4. BurstLine("USM_M_RAW", f, t) = ProntoWords(k, g, t.pulse, t.space)
  BY DEF BurstLine
<1> HIDE DEF c, t, g, k
<1> QED BY <1>1, <1>2, <1>3, <1>4 DEF c, t

\* and of a RAW2 code.
LEMMA Raw2Line ==
    ASSUME NEW ctx \in Rr2Ctx, NEW f \in Nat
    PROVE  Rr2OutputPronto(Rr2Final(ctx)) = BurstLine("USM_M_RAW2", f, Rr2Tables(ctx))
<1> DEFINE total == ctx.freq_total
           samples == ctx.nof_freq_samples
           g == IF samples = 0 THEN 1 ELSE total \div samples
           c == Rr2Final(ctx)
           t == Rr2Tables(ctx)
           k == 560
<1>1. c.calc_freq = g /\ c.pulse = ctx.pulse /\ c.space = ctx.space
  <2> DEFINE h == IF ctx.nof_freq_samples # 0
                  THEN ctx.freq_total \div ctx.nof_freq_samples ELSE 1
  <2>1. h = g /\ c = [ctx EXCEPT !.calc_freq = h]
    BY DEF Rr2Final
  <2> HIDE DEF h, g, c
  <2>2. LET d == [ctx EXCEPT !.calc_freq = h]
        IN  d.calc_freq = h /\ d.pulse = ctx.pulse /\ d.space = ctx.space
    BY DEF Rr2Ctx
  <2> QED BY <2>1, <2>2
<1>2. /\ t.pulse = ctx.pulse /\ t.space = ctx.space
      /\ t.total = total /\ t.samples = samples
  BY DEF Rr2Tables
<1> DEFINE h == IF t.samples = 0 THEN 1 ELSE t.total \div t.samples
<1>3. Rr2OutputPronto(c) = ProntoWords(k, c.calc_freq, c.pulse, c.space)
  BY DEF Rr2OutputPronto
<1>4. BurstLine("USM_M_RAW2", f, t) = ProntoWords(k, h, t.pulse, t.space)
  BY DEF BurstLine
<1>5. h = g
  BY <1>2
<1> HIDE DEF c, t, g, h, k
<1> QED BY <1>1, <1>2, <1>3, <1>4, <1>5 DEF c, t

\* A parse that has taken all bytes leaves none.
LEMMA AllTaken ==
    ASSUME agg \in Seq(Byte), n \in 0 .. Len(agg), Left = 0,
           NEW m, NEW f \in Nat, NEW p, NEW t, NEW E, NEW w, NEW L,
           Onward(m, f, p, 0, t, agg, n, E, w, L)
    PROVE  /\ AggAfterParse(0) = <<>>
           /\ Onward(m, f, p, 0, t, AggAfterParse(0), 0, E, w, L)
<1> DEFINE b == AggAfterParse(0)
           j == 0
<1>1. Len(agg) = n /\ n \in Nat /\ Len(agg) \in Nat
  BY DEF Left
<1>2. b \in Seq(Byte) /\ Len(b) = Len(agg) - n
  <2>1. ParseConsumed(0, n) = n
    BY DEF ParseConsumed
  <2> QED BY <2>1, AggAfterParseType
<1> HIDE DEF b
<1>3. Len(b) = j /\ j \in Nat
  BY <1>1, <1>2
<1>4. b = <<>>
  BY <1>2, <1>3, NoBytes
<1> HIDE DEF j
<1>5. Onward(m, f, p, 0, t, b, j, E, w, L)
  BY <1>1, <1>3, OnNothing
<1> QED BY <1>4, <1>5 DEF j, b

\* A parse that has reached the end of a burst is then between codes.
LEMMA BurstTaken ==
    ASSUME agg \in Seq(Byte), n \in 0 .. Len(agg), NEW done \in {1, 2},
           NEW m \in {"USM_M_RAW", "USM_M_RAW2"}, NEW f \in Nat,
           NEW p, NEW t, NEW E, NEW w, NEW L,
           Onward(m, f, p, done, t, agg, n, E, w, L),
           NEW t2, Append(E, BurstLine(m, f, t)) \in Seq(Line)
    PROVE  Onward(m, f, "DDS_INIT", 0, t2, AggAfterParse(done), 0,
                  Append(E, BurstLine(m, f, t)), w, L)
<1> DEFINE b == AggAfterParse(done)
           k == n
           a == agg
<1>1. a \in Seq(Byte) /\ k \in Nat /\ Len(a) \in Nat /\ k \in 0 .. Len(a)
      /\ Onward(m, f, p, done, t, a, k, E, w, L)
  OBVIOUS
<1>2. CASE done = 1
  <2>1. k >= 2 => /\ Len(b) \in Nat /\ Len(b) + k = Len(a) + 2 /\ b[1] = 0 /\ b[2] = 0
                  /\ \A i \in Nat : k < k + i /\ k + i <= Len(a) => b[2 + i] = a[k + i]
    BY <1>2, AfterParseAtGap
  <2>2. Len(b) \in Nat
    BY <1>2, AggAfterParseType
  <2> HIDE DEF b, k, a
  <2>3. Onward(m, f, p, 1, t, a, k, E, w, L)
    BY <1>1, <1>2
  <2>4. Onward(m, f, "DDS_INIT", 0, t2, b, 0, Append(E, BurstLine(m, f, t)), w, L)
    BY <1>1, <2>1, <2>2, <2>3, OnGap
  <2> QED BY <2>4 DEF b
<1>3. CASE done = 2
  <2>1. /\ Len(b) \in Nat /\ Len(b) + k = Len(a)
        /\ \A i \in Nat : k < k + i /\ k + i <= Len(a) => b[i] = a[k + i]
    BY <1>3, AfterParse
  <2> HIDE DEF b, k, a
  <2>2. Onward(m, f, p, 2, t, a, k, E, w, L)
    BY <1>1, <1>3
  <2>3. Onward(m, f, "DDS_INIT", 0, t2, b, 0, Append(E, BurstLine(m, f, t)), w, L)
    BY <1>1, <2>1, <2>2, OnEnd
  <2> QED BY <2>3 DEF b
<1> QED BY <1>2, <1>3

\* The end of a RAW parse: of a burst, or of what was buffered.
LEMMA LinkRawTail ==
    ASSUME QuietUser, LinkFacts, LinkInv, UsmProcessRawTail,
           UNCHANGED <<deviceVars, interp, shown, nCmds>>
    PROVE  LinkInv'
<1>1. PICK E \in Seq(Line), L \in Seq(Line) : Links(E, L)
  BY DEF LinkInv
<1> DEFINE m == "USM_M_RAW"
           f == default_frequency
           line == BurstLine(m, f, RrTables(rr))
<1>2. /\ UNCHANGED <<mode, state, default_frequency, first, shown, toDev, wire, expected, rr2>>
      /\ n' = 0 /\ agg' = AggAfterParse(rr.done) /\ pc' = AfterPass(first, out')
  BY DEF deviceVars, UsmProcessRawTail
<1>3. LibInv /\ LibTypeOK /\ rr \in RrCtx /\ f \in Nat /\ agg \in Seq(Byte)
      /\ n \in 0 .. Len(agg) /\ n \in Nat /\ Len(agg) \in Nat /\ rr.done \in 0 .. 2
      /\ shown \in Seq(Line)
  BY DEF LinkFacts, RibsuInv, LibInv, LibTypeOK, RrCtx, LinkTypeOK
<1>4. pc = "rr_parse" /\ mode = m /\ (Left = 0 \/ rr.done # 0)
  BY <1>3 DEF UsmProcessRawTail, RrLoopOver, LinkFacts, NoTrouble, LibInv, PassInv
<1>5. Onward(m, f, rr.state, rr.done, RrTables(rr), agg, n, E, CodesAhead, L)
  BY <1>1, <1>4 DEF Links, Decodes
<1>6. CodesAhead' = CodesAhead
  BY <1>2 DEF CodesAhead
<1>7. (CodesAsShown => Expects(L)') /\ (Len(shown) < MaxShown => E = shown)
  BY <1>1, <1>2, <1>4 DEF Links, Expects, Shows
<1> SUFFICES ASSUME NEW E2 \in Seq(Line),
                    Onward(m, f, rr'.state, rr'.done, RrTables(rr'), agg', 0, E2, CodesAhead, L),
                    Shows(E2)', NoTrouble'
             PROVE  LinkInv'
  <2>1. CASE rr.done = 0
    <3>1. rr' = rr /\ out' = <<>> /\ Left = 0
      BY <1>4, <2>1 DEF UsmProcessRawTail
    <3>2. agg' = <<>> /\ Onward(m, f, rr.state, 0, RrTables(rr), agg', 0, E, CodesAhead, L)
      <4> DEFINE t == RrTables(rr)
                 p == rr.state
                 w == CodesAhead
      <4>1. Onward(m, f, p, 0, t, agg, n, E, w, L) /\ agg' = AggAfterParse(0)
        BY <1>2, <1>5, <2>1
      <4> HIDE DEF t, p, w, m, f
      <4>2. AggAfterParse(0) = <<>> /\ Onward(m, f, p, 0, t, AggAfterParse(0), 0, E, w, L)
        BY <1>3, <3>1, <4>1, AllTaken
      <4> QED BY <4>1, <4>2 DEF t, p, w
    <3>3. Onward(m, f, rr'.state, rr'.done, RrTables(rr'), agg', 0, E, CodesAhead, L)
      BY <2>1, <3>1, <3>2
    <3>4. Shows(E)'
      BY <1>2, <1>7, <3>1 DEF Shows
    <3>5. NoTrouble'
      BY <1>2, <3>2 DEF NoTrouble, AfterPass
    <3> QED BY <3>3, <3>4, <3>5
  <2>2. CASE rr.done # 0
    <3> DEFINE ctx == RrSetFrequency(rr, f)
    <3>1. ctx \in RrCtx
      BY <1>3, RrSetFrequencyType
    <3>2. rr.freq = DefaultRrFrequency
      BY <2>2 DEF LinkFacts, SettingsInv
    <3>3. /\ out' = RrOutputPronto(ctx)
          /\ rr' = [ctx EXCEPT !.state = "DDS_INIT", !.done = 0]
      BY <2>2 DEF UsmProcessRawTail
    <3>4. out' = line
      BY <1>3, <3>2, <3>3, RawLine
    <3>5. line \in Line /\ line # <<>>
      BY <3>1, <3>3, <3>4, RrOutputType
    <3>6. rr'.state = "DDS_INIT" /\ rr'.done = 0
      <4> HIDE DEF ctx
      <4> QED BY <3>1, <3>3 DEF RrCtx
    <3>7. PICK E2 \in Seq(Line) : E2 = Append(E, line)
      <4> HIDE DEF line
      <4>1. Append(E, line) \in Seq(Line)
        BY <3>5
      <4> QED BY <4>1
    <3>8. Onward(m, f, "DDS_INIT", 0, RrTables(rr'), agg', 0, E2, CodesAhead, L)
      <4> DEFINE t == RrTables(rr)
                 p == rr.state
                 t2 == RrTables(rr')
                 w == CodesAhead
                 done == rr.done
      <4>1. Onward(m, f, p, done, t, agg, n, E, w, L) /\ agg' = AggAfterParse(done)
            /\ done \in {1, 2} /\ m \in {"USM_M_RAW", "USM_M_RAW2"}
        BY <1>2, <1>3, <1>5, <2>2
      <4>2. E2 = Append(E, BurstLine(m, f, t))
        BY <3>7
      <4> HIDE DEF t, p, t2, w, done, m, f
      <4>3. Onward(m, f, "DDS_INIT", 0, t2, AggAfterParse(done), 0,
                   Append(E, BurstLine(m, f, t)), w, L)
        BY <1>3, <3>7, <4>1, <4>2, BurstTaken
      <4> QED BY <4>1, <4>2, <4>3 DEF t2, w
    <3>9. pc' = "propagate"
      BY <1>2, <3>4, <3>5 DEF AfterPass
    <3>10. Shows(E2)'
      <4> HIDE DEF line
      <4>1. Len(shown) < MaxShown => E2 = Append(shown, line)
        BY <1>7, <3>7
      <4>2. pc' = "propagate" /\ out' = line /\ line # <<>> /\ shown' = shown
        BY <1>2, <3>4, <3>5, <3>9
      <4> QED BY <4>1, <4>2 DEF Shows
    <3>11. NoTrouble'
      BY <3>9 DEF NoTrouble
    <3>12. Onward(m, f, rr'.state, rr'.done, RrTables(rr'), agg', 0, E2, CodesAhead, L)
      BY <3>6, <3>8
    <3> QED BY <3>7, <3>10, <3>11, <3>12
  <2> QED BY <2>1, <2>2
<1>8. Decodes(m, f, rr', rr2', agg', 0, E2, CodesAhead, L)
  BY DEF Decodes
<1>9. Decodes(mode, default_frequency, rr, rr2, agg, n, E2, CodesAhead, L)'
  BY <1>2, <1>4, <1>6, <1>8
<1>10. Links(E2, L)'
  BY <1>7, <1>9 DEF Links
<1> QED BY <1>10 DEF LinkInv

\* The end of a RAW2 parse.
LEMMA LinkRaw2Tail ==
    ASSUME QuietUser, LinkFacts, LinkInv, UsmProcessRaw2Tail,
           UNCHANGED <<deviceVars, interp, shown, nCmds>>
    PROVE  LinkInv'
<1>1. PICK E \in Seq(Line), L \in Seq(Line) : Links(E, L)
  BY DEF LinkInv
<1> DEFINE m == "USM_M_RAW2"
           f == default_frequency
           line == BurstLine(m, f, Rr2Tables(rr2))
<1>2. /\ UNCHANGED <<mode, state, default_frequency, first, shown, toDev, wire, expected, rr>>
      /\ n' = 0 /\ agg' = AggAfterParse(rr2.done) /\ pc' = AfterPass(first, out')
  BY DEF deviceVars, UsmProcessRaw2Tail
<1>3. LibInv /\ LibTypeOK /\ rr2 \in Rr2Ctx /\ f \in Nat /\ agg \in Seq(Byte)
      /\ n \in 0 .. Len(agg) /\ n \in Nat /\ Len(agg) \in Nat /\ rr2.done \in 0 .. 2
      /\ shown \in Seq(Line)
  BY DEF LinkFacts, RibsuInv, LibInv, LibTypeOK, Rr2Ctx, LinkTypeOK
<1>4. pc = "rr2_parse" /\ mode = m /\ (Left = 0 \/ rr2.done # 0)
  BY <1>3 DEF UsmProcessRaw2Tail, Rr2LoopOver, LinkFacts, NoTrouble, LibInv, PassInv
<1>5. Onward(m, f, rr2.state, rr2.done, Rr2Tables(rr2), agg, n, E, CodesAhead, L)
  BY <1>1, <1>4 DEF Links, Decodes
<1>6. CodesAhead' = CodesAhead
  BY <1>2 DEF CodesAhead
<1>7. (CodesAsShown => Expects(L)') /\ (Len(shown) < MaxShown => E = shown)
  BY <1>1, <1>2, <1>4 DEF Links, Expects, Shows
<1> SUFFICES ASSUME NEW E2 \in Seq(Line),
                    Onward(m, f, rr2'.state, rr2'.done, Rr2Tables(rr2'), agg', 0, E2, CodesAhead, L),
                    Shows(E2)', NoTrouble'
             PROVE  LinkInv'
  <2>1. CASE rr2.done = 0
    <3>1. rr2' = rr2 /\ out' = <<>> /\ Left = 0
      BY <1>4, <2>1 DEF UsmProcessRaw2Tail
    <3>2. agg' = <<>> /\ Onward(m, f, rr2.state, 0, Rr2Tables(rr2), agg', 0, E, CodesAhead, L)
      <4> DEFINE t == Rr2Tables(rr2)
                 p == rr2.state
                 w == CodesAhead
      <4>1. Onward(m, f, p, 0, t, agg, n, E, w, L) /\ agg' = AggAfterParse(0)
        BY <1>2, <1>5, <2>1
      <4> HIDE DEF t, p, w, m, f
      <4>2. AggAfterParse(0) = <<>> /\ Onward(m, f, p, 0, t, AggAfterParse(0), 0, E, w, L)
        BY <1>3, <3>1, <4>1, AllTaken
      <4> QED BY <4>1, <4>2 DEF t, p, w
    <3>3. Onward(m, f, rr2'.state, rr2'.done, Rr2Tables(rr2'), agg', 0, E, CodesAhead, L)
      BY <2>1, <3>1, <3>2
    <3>4. Shows(E)'
      BY <1>2, <1>7, <3>1 DEF Shows
    <3>5. NoTrouble'
      BY <1>2, <3>2 DEF NoTrouble, AfterPass
    <3> QED BY <3>3, <3>4, <3>5
  <2>2. CASE rr2.done # 0
    <3> DEFINE ctx == Rr2Final(rr2)
    <3>1. ctx \in Rr2Ctx /\ ctx.calc_freq # 0
      <4>1. rr2.freq_total >= rr2.nof_freq_samples
        BY <1>3 DEF LibInv, PassInv
      <4> QED BY <1>3, <4>1, Rr2FinalType
    <3>3. /\ out' = Rr2OutputPronto(ctx)
          /\ rr2' = [ctx EXCEPT !.state = "DDS_INIT", !.done = 0]
      BY <2>2 DEF UsmProcessRaw2Tail
    <3>4. out' = line
      BY <1>3, <3>3, Raw2Line
    <3>5. line \in Line /\ line # <<>>
      BY <3>1, <3>3, <3>4, Rr2OutputType
    <3>6. rr2'.state = "DDS_INIT" /\ rr2'.done = 0
      <4> HIDE DEF ctx
      <4> QED BY <3>1, <3>3 DEF Rr2Ctx
    <3>7. PICK E2 \in Seq(Line) : E2 = Append(E, line)
      <4> HIDE DEF line
      <4>1. Append(E, line) \in Seq(Line)
        BY <3>5
      <4> QED BY <4>1
    <3>8. Onward(m, f, "DDS_INIT", 0, Rr2Tables(rr2'), agg', 0, E2, CodesAhead, L)
      <4> DEFINE t == Rr2Tables(rr2)
                 p == rr2.state
                 t2 == Rr2Tables(rr2')
                 w == CodesAhead
                 done == rr2.done
      <4>1. Onward(m, f, p, done, t, agg, n, E, w, L) /\ agg' = AggAfterParse(done)
            /\ done \in {1, 2} /\ m \in {"USM_M_RAW", "USM_M_RAW2"}
        BY <1>2, <1>3, <1>5, <2>2
      <4>2. E2 = Append(E, BurstLine(m, f, t))
        BY <3>7
      <4> HIDE DEF t, p, t2, w, done, m, f
      <4>3. Onward(m, f, "DDS_INIT", 0, t2, AggAfterParse(done), 0,
                   Append(E, BurstLine(m, f, t)), w, L)
        BY <1>3, <3>7, <4>1, <4>2, BurstTaken
      <4> QED BY <4>1, <4>2, <4>3 DEF t2, w
    <3>9. pc' = "propagate"
      BY <1>2, <3>4, <3>5 DEF AfterPass
    <3>10. Shows(E2)'
      <4> HIDE DEF line
      <4>1. Len(shown) < MaxShown => E2 = Append(shown, line)
        BY <1>7, <3>7
      <4>2. pc' = "propagate" /\ out' = line /\ line # <<>> /\ shown' = shown
        BY <1>2, <3>4, <3>5, <3>9
      <4> QED BY <4>1, <4>2 DEF Shows
    <3>11. NoTrouble'
      BY <3>9 DEF NoTrouble
    <3>12. Onward(m, f, rr2'.state, rr2'.done, Rr2Tables(rr2'), agg', 0, E2, CodesAhead, L)
      BY <3>6, <3>8
    <3> QED BY <3>7, <3>10, <3>11, <3>12
  <2> QED BY <2>1, <2>2
<1>8. Decodes(m, f, rr', rr2', agg', 0, E2, CodesAhead, L)
  BY DEF Decodes
<1>9. Decodes(mode, default_frequency, rr, rr2, agg, n, E2, CodesAhead, L)'
  BY <1>2, <1>4, <1>6, <1>8
<1>10. Links(E2, L)'
  BY <1>7, <1>9 DEF Links
<1> QED BY <1>10 DEF LinkInv

\* A pass through UIR codes takes one out if it is all there.
LEMMA UirPass ==
    ASSUME NEW isFirst \in BOOLEAN, NEW a \in Seq(Byte), UsmProcessUir(isFirst, a),
           NEW f \in Nat, NEW E \in Seq(Line), NEW w, NEW L,
           Ahead("USM_M_UIR", f, Between(E), a, 0, w, L)
    PROVE  \E E2 \in Seq(Line) :
              /\ Ahead("USM_M_UIR", f, Between(E2), agg', 0, w, L)
              /\ \/ out' = <<>> /\ E2 = E
                 \/ out' # <<>> /\ E2 = Append(E, out') /\ pc' = "propagate"
<1>1. Len(a) \in Nat /\ UIRT_UIR_CODE_LEN \in Nat
  BY CodeLenAssumption
<1>2. CASE Len(a) >= UIRT_UIR_CODE_LEN
  <2> DEFINE line == SubSeq(a, 1, UIRT_UIR_CODE_LEN)
             rest == SubSeq(a, UIRT_UIR_CODE_LEN + 1, Len(a))
  <2>1. /\ line \in Line /\ line # <<>>
        /\ Ahead("USM_M_UIR", f, Between(Append(E, line)), rest, 0, w, L)
    BY <1>2, AheadUir
  <2>2. out' = line /\ agg' = rest /\ pc' = AfterPass(isFirst, out')
    BY <1>1, <1>2 DEF UsmProcessUir
  <2> HIDE DEF line, rest
  <2>3. pc' = "propagate"
    BY <2>1, <2>2 DEF AfterPass
  <2>4. Append(E, line) \in Seq(Line)
    BY <2>1
  <2> QED BY <2>1, <2>2, <2>3, <2>4
<1>3. CASE ~(Len(a) >= UIRT_UIR_CODE_LEN)
  BY <1>3 DEF UsmProcessUir
<1> QED BY <1>2, <1>3

\* What a pass of the callback in a mode other than echo does to the buffer a.
Pass(isFirst, a) ==
    \/ mode = "USM_M_UIR"  /\ UsmProcessUir(isFirst, a)
    \/ mode = "USM_M_RAW"  /\ UsmEnterParse(a, "rr_parse")
    \/ mode = "USM_M_RAW2" /\ UsmEnterParse(a, "rr2_parse")

\* A pass, once all lines that came out before it have been shown.
LEMMA LinkPass ==
    ASSUME LinkFacts, n = 0, state = "USM_W_CODE", NEW isFirst \in BOOLEAN,
           NEW a \in Seq(Byte), Pass(isFirst, a), default_frequency' = default_frequency,
           NEW E \in Seq(Line), NEW L \in Seq(Line),
           Decodes(mode, default_frequency, rr, rr2, a, 0, E, wire', L),
           Len(shown') < MaxShown => E = shown', CodesAsShown => Expects(L)'
    PROVE  LinkInv'
<1> DEFINE f == default_frequency
           w == wire'
<1>1. /\ UNCHANGED <<mode, state, rr, rr2, default_frequency>> /\ n' = 0
      /\ CodesAhead' = w
  BY DEF Pass, UsmProcessUir, UsmEnterParse, CodesAhead
<1>2. f \in Nat
  BY DEF LinkFacts, RibsuInv, LibInv, LibTypeOK
<1> SUFFICES ASSUME NEW E2 \in Seq(Line), Decodes(mode, f, rr, rr2, agg', 0, E2, w, L),
                    Shows(E2)', NoTrouble'
             PROVE  LinkInv'
  <2>1. CASE mode = "USM_M_UIR"
    <3>1. UsmProcessUir(isFirst, a) /\ Ahead("USM_M_UIR", f, Between(E), a, 0, w, L)
      BY <2>1 DEF Pass, Decodes
    <3> HIDE DEF f, w
    <3>2. PICK E2 \in Seq(Line) :
              /\ Ahead("USM_M_UIR", f, Between(E2), agg', 0, w, L)
              /\ \/ out' = <<>> /\ E2 = E
                 \/ out' # <<>> /\ E2 = Append(E, out') /\ pc' = "propagate"
      BY <1>2, <3>1, UirPass
    <3>3. Decodes(mode, f, rr, rr2, agg', 0, E2, w, L)
      BY <2>1, <3>2 DEF Decodes
    <3>4. Shows(E2)'
      BY <3>2 DEF Shows
    <3>5. NoTrouble'
      BY <1>1, <2>1, <3>1 DEF NoTrouble, UsmProcessUir, AfterPass
    <3> QED BY <3>3, <3>4, <3>5
  <2>2. CASE mode # "USM_M_UIR"
    <3>1. agg' = a /\ pc' \in {"rr_parse", "rr2_parse"}
      BY <2>2 DEF Pass, UsmEnterParse
    <3>2. Shows(E)'
      BY <3>1 DEF Shows
    <3>3. NoTrouble'
      BY <3>1 DEF NoTrouble
    <3> QED BY <3>1, <3>2, <3>3
  <2> QED BY <2>1, <2>2
<1>3. Decodes(mode, default_frequency, rr, rr2, agg, n, E2, CodesAhead, L)'
  BY <1>1
<1>4. Links(E2, L)'
  BY <1>3 DEF Links
<1> QED BY <1>4 DEF LinkInv

\* The line of a turn of the loop is shown.
LEMMA LineShown ==
    ASSUME shown \in Seq(Line), out \in Line, pc = "propagate", NEW E, Shows(E), ShowLine(out)
    PROVE  Len(shown') < MaxShown => E = shown'
<1>1. CASE out # <<>> /\ Len(shown) < MaxShown
  BY <1>1 DEF Shows, ShowLine
<1>2. CASE ~(out # <<>> /\ Len(shown) < MaxShown)
  BY <1>2 DEF Shows, ShowLine
<1> QED BY <1>1, <1>2

\* A turn of the loop of the callback.
LEMMA LinkPropagate ==
    ASSUME QuietUser, LinkFacts, LinkInv, Propagate
    PROVE  LinkInv'
<1>1. PICK E \in Seq(Line), L \in Seq(Line) : Links(E, L)
  BY DEF LinkInv
<1>2. /\ pc = "propagate" /\ ShowLine(out) /\ UsmProcessUirtMore
      /\ UNCHANGED <<toDev, wire, expected>>
  BY DEF Propagate, deviceVars
<1>3. /\ n = 0 /\ agg \in Seq(Byte) /\ shown \in Seq(Line) /\ out \in Line
      /\ mode # "USM_M_ECHO" /\ state = "USM_W_CODE"
  BY <1>2 DEF LinkFacts, RibsuInv, LibInv, LibTypeOK, LinkTypeOK, PassInv, SettingsInv, QuietInv
<1>4. Pass(FALSE, agg) /\ default_frequency' = default_frequency
  BY <1>2, <1>3 DEF Pass, UsmProcessUirtMore
<1>5. Len(shown') < MaxShown => E = shown'
  BY <1>1, <1>2, <1>3, LineShown DEF Links
<1>6. Decodes(mode, default_frequency, rr, rr2, agg, 0, E, wire', L)
  BY <1>1, <1>2, <1>3 DEF Links, CodesAhead
<1>7. CodesAsShown => Expects(L)'
  <2>1. state' = state
    BY <1>4 DEF Pass, UsmProcessUir, UsmEnterParse
  <2> QED BY <1>1, <1>2, <1>3, <2>1 DEF Links, Expects
<1> QED BY <1>3, <1>4, <1>5, <1>6, <1>7, LinkPass

\* A read of j cells that cuts no token moves them from the wire to the buffer.
LEMMA DecodesRead ==
    ASSUME NEW m, NEW f \in Nat, NEW c, NEW c2, NEW a \in Seq(Byte), NEW E \in Seq(Line),
           NEW w \in Seq(Cell), NEW L, Decodes(m, f, c, c2, a, 0, E, w, L),
           NEW j \in 1 .. Len(w), w[j].ends,
           NEW b \in Seq(Byte), Len(b) = j, \A i \in 1 .. j : b[i] = w[i].b
    PROVE  Decodes(m, f, c, c2, a \o b, 0, E, SubSeq(w, j + 1, Len(w)), L)
<1> DEFINE z == SubSeq(w, j + 1, Len(w))
<1>1. CASE m = "USM_M_UIR"
  <2> DEFINE s == Between(E)
  <2>1. s \in Reading /\ Ahead("USM_M_UIR", f, s, a, 0, w, L)
    BY <1>1, EmptyReadings DEF Decodes
  <2> HIDE DEF s
  <2>2. Ahead("USM_M_UIR", f, s, a \o b, 0, z, L)
    BY <2>1, AheadRead
  <2> QED BY <1>1, <2>2 DEF Decodes, s
<1>2. CASE m = "USM_M_RAW"
  <2> DEFINE t == RrTables(c)
             p == c.state
             d == c.done
  <2>1. Onward("USM_M_RAW", f, p, d, t, a, 0, E, w, L)
    BY <1>2 DEF Decodes
  <2> HIDE DEF t, p, d
  <2>2. Onward("USM_M_RAW", f, p, d, t, a \o b, 0, E, z, L)
    BY <1>2, <2>1, OnRead
  <2> QED BY <1>2, <2>2 DEF Decodes, t, p, d
<1>3. CASE m = "USM_M_RAW2"
  <2> DEFINE t == Rr2Tables(c2)
             p == c2.state
             d == c2.done
  <2>1. Onward("USM_M_RAW2", f, p, d, t, a, 0, E, w, L)
    BY <1>3 DEF Decodes
  <2> HIDE DEF t, p, d
  <2>2. Onward("USM_M_RAW2", f, p, d, t, a \o b, 0, E, z, L)
    BY <1>3, <2>1, OnRead
  <2> QED BY <1>3, <2>2 DEF Decodes, t, p, d
<1> QED BY <1>1, <1>2, <1>3 DEF Decodes

\* A read of the cells of a reply has its bytes.
LEMMA ReplyRead ==
    ASSUME NEW c
    PROVE  LET w == Token("reply", Reply(c))
           IN  [i \in 1 .. Len(w) |-> w[i].b] = Reply(c)
<1> DEFINE r == Reply(c)
           w == Token("reply", r)
           b == [i \in 1 .. Len(w) |-> w[i].b]
<1>1. r \in Seq(Byte)
  BY ReplyType
<1> HIDE DEF r
<1>2. w = [i \in 1 .. Len(r) |-> [b |-> r[i], kind |-> "reply", ends |-> i = Len(r)]]
  BY <1>1 DEF Token
<1>3. Len(w) = Len(r)
  BY <1>1, <1>2
<1>4. \A i \in 1 .. Len(r) : w[i].b = r[i]
  BY <1>2
<1> HIDE DEF w
<1>5. b = [i \in 1 .. Len(r) |-> r[i]]
  BY <1>3, <1>4
<1>6. r = [i \in 1 .. Len(r) |-> r[i]]
  BY <1>1
<1> QED BY <1>5, <1>6 DEF r, w

\* The bytes of a read.
LEMMA LinkRead ==
    ASSUME QuietUser, LinkFacts, LinkInv, DriverRead
    PROVE  LinkInv'
<1>1. PICK E \in Seq(Line), L \in Seq(Line) : Links(E, L)
  BY DEF LinkInv
<1>2. /\ pc = "runloop" /\ interp /\ n = 0 /\ wire \in Seq(Cell) /\ agg \in Seq(Byte)
      /\ shown \in Seq(Line) /\ MaxRead \in Nat /\ default_frequency \in Nat
      /\ mode # "USM_M_ECHO" /\ toDev' = toDev /\ expected' = expected
  BY RibsuAssumption
     DEF DriverRead, LinkFacts, RibsuInv, LibInv, LibTypeOK, LinkTypeOK, PassInv,
         SettingsInv, QuietInv
<1>3. PICK k \in 1 .. MaxRead :
          /\ k <= Len(wire) /\ wire[k].ends
          /\ UsmProcessUirt([i \in 1 .. k |-> wire[i].b]) /\ shown' = shown
          /\ wire' = SubSeq(wire, k + 1, Len(wire))
  BY <1>2 DEF DriverRead, RibsuCallback, QuietUser
<1> DEFINE b == [i \in 1 .. k |-> wire[i].b]
<1>4. k \in 1 .. Len(wire) /\ k <= MaxRead /\ Len(wire) \in Nat
  BY <1>2, <1>3
<1>5. b \in Seq(Byte) /\ Len(b) = k /\ \A i \in 1 .. k : b[i] = wire[i].b
  <2>1. \A i \in 1 .. k : wire[i] \in Cell
    BY <1>2, <1>4
  <2>2. \A i \in 1 .. k : wire[i].b \in Byte
    BY <2>1 DEF Cell
  <2> QED BY <1>4, <2>2
<1>6. default_frequency' = default_frequency
  BY <1>3 DEF UsmProcessUirt
<1>7. Len(shown) < MaxShown => E = shown
  BY <1>1, <1>2 DEF Links, Shows
<1>8. CASE state = "USM_W_CODE"
  <2>1. BufAppend(agg, b, USM_AGG_MAX) = agg \o b
    <3>1. Len(agg) + MaxRead <= USM_AGG_MAX
      BY <1>2, RoomForRead DEF QuietUser, LinkFacts
    <3>2. Len(agg) \in Nat /\ USM_AGG_MAX \in Nat
      BY <1>2, BuffersAssumption
    <3> HIDE DEF b
    <3>3. ~(Len(agg) + Len(b) > USM_AGG_MAX)
      BY <1>2, <1>4, <1>5, <3>1, <3>2
    <3> QED BY <3>3 DEF BufAppend
  <2>2. Pass(TRUE, agg \o b)
    BY <1>2, <1>3, <1>8, <2>1 DEF UsmProcessUirt, Pass
  <2> HIDE DEF b
  <2>3. agg \o b \in Seq(Byte)
    BY <1>2, <1>5
  <2>4. Decodes(mode, default_frequency, rr, rr2, agg \o b, 0, E, wire', L)
    <3> DEFINE m == mode
               f == default_frequency
               a == agg
               w == wire
    <3>1. /\ Decodes(m, f, rr, rr2, a, 0, E, w, L) /\ f \in Nat /\ a \in Seq(Byte)
          /\ w \in Seq(Cell) /\ k \in 1 .. Len(w) /\ w[k].ends
          /\ \A i \in 1 .. k : b[i] = w[i].b
      BY <1>1, <1>2, <1>3, <1>4, <1>5, <1>8 DEF Links, CodesAhead
    <3> HIDE DEF m, f, a, w
    <3>2. Decodes(m, f, rr, rr2, a \o b, 0, E, SubSeq(w, k + 1, Len(w)), L)
      BY <1>5, <3>1, DecodesRead
    <3> QED BY <1>3, <3>2 DEF m, f, a, w
  <2>5. CodesAsShown => Expects(L)'
    <3>1. state' = state
      BY <2>2 DEF Pass, UsmProcessUir, UsmEnterParse
    <3> QED BY <1>1, <1>2, <1>8, <3>1 DEF Links, Expects
  <2>6. Len(shown') < MaxShown => E = shown'
    BY <1>3, <1>7
  <2> QED BY <1>2, <1>6, <1>8, <2>2, <2>3, <2>4, <2>5, <2>6, LinkPass
<1>9. CASE state # "USM_W_CODE"
  <2>1. toDev = <<>> /\ \E c \in Byte : wire = Token("reply", Reply(c))
    <3>1. wire # <<>>
      BY <1>4
    <3> QED BY <1>9, <3>1 DEF LinkFacts, QuietInv, QuietUser, ReplyAlone
  <2>2. k = Len(wire)
    BY <1>3, <1>4, <2>1, ReplyToken
  <2>3. \A c : wire = Token("reply", Reply(c)) => b = Reply(c)
    BY <2>2, ReplyRead
  <2>4. wire' = <<>>
    <3>1. wire' \in Seq(Cell) /\ Len(wire') = 0
      BY <1>2, <1>3, <1>4, <2>2
    <3> QED BY <3>1, EmptySeq
  <2>5. /\ out' = b /\ state' = "USM_W_CODE" /\ pc' = AfterPass(TRUE, b)
        /\ UNCHANGED <<agg, n, rr, rr2, mode>>
    BY <1>3, <1>9 DEF UsmProcessUirt, UsmProcessThru
  <2> HIDE DEF b
  <2>6. pc' = "propagate" /\ out' # <<>>
    <3>1. Len(<<>>) = 0
      OBVIOUS
    <3> QED BY <1>4, <1>5, <2>5, <3>1 DEF AfterPass
  <2>7. PICK E2 \in Seq(Line) : E2 = Append(E, b)
    <3>1. b \in Line
      BY <1>5, BytesAreLine
    <3>2. Append(E, b) \in Seq(Line)
      BY <3>1
    <3> QED BY <3>2
  <2>8. Rests(mode, rr, rr2) /\ L = E /\ agg = <<>>
    <3>1. Decodes(mode, default_frequency, rr, rr2, agg, n, E, <<>>, L)
      BY <1>1, <1>9 DEF Links, CodesAhead
    <3> QED BY <1>2, <3>1, LinkThrough
  <2>9. Decodes(mode, default_frequency, rr, rr2, agg, n, E2, CodesAhead, E2)'
    <3>1. rr.done = 0 /\ rr2.done = 0
      BY <1>2 DEF LinkFacts, RibsuInv, LibInv, PassInv
    <3>2. Decodes(mode, default_frequency, rr, rr2, <<>>, 0, E2, <<>>, E2)
      BY <1>2, <2>8, <3>1, RestsDecodes
    <3>3. CodesAhead' = <<>> /\ agg' = <<>> /\ n' = 0
      BY <1>2, <2>4, <2>5, <2>8 DEF CodesAhead
    <3> QED BY <1>6, <2>5, <3>2, <3>3
  <2>10. Shows(E2)'
    BY <1>3, <1>7, <2>5, <2>6, <2>7 DEF Shows
  <2>11. CodesAsShown => Expects(E2)'
    <3>1. CodesAsShown => expected = Append(L, b)
      BY <1>1, <1>9, <2>1, <2>3 DEF Links, Expects
    <3> QED BY <1>2, <2>5, <2>7, <2>8, <3>1 DEF Expects
  <2>12. NoTrouble'
    BY <2>6 DEF NoTrouble
  <2>13. Links(E2, E2)'
    BY <2>9, <2>10, <2>11 DEF Links
  <2> QED BY <2>12, <2>13 DEF LinkInv
<1> QED BY <1>8, <1>9

\* LinkInv is inductive.
LEMMA LinkKept ==
    ASSUME QuietUser, CodesInFormat, RibsuInv, QuietInv, SettingsInv, LinkInv,
           SettingsInv', [Next]_vars
    PROVE  LinkInv'
<1>1. LinkFacts
  BY DEF LinkFacts, LinkInv
<1>2. CASE RibsuWrite
  BY <1>1, <1>2, LinkWrite
<1>3. CASE RibsuToggleInterpretation
  BY <1>3 DEF RibsuToggleInterpretation, QuietUser
<1>4. CASE RibsuSetDefaultFrequency
  BY <1>1, <1>4, LinkFrequency
<1>5. CASE DriverRead
  BY <1>1, <1>5, LinkRead
<1>6. CASE Propagate
  BY <1>1, <1>6, LinkPropagate
<1>7. CASE Parse
  BY <1>1, <1>7, LinkParse, LinkRawTail, LinkRaw2Tail DEF Parse, UsmParse
<1>8. CASE Device
  BY <1>1, <1>8, LinkAnswer, LinkCode DEF Device
<1>9. CASE UNCHANGED vars
  <2>1. /\ NoTrouble' /\ CodesAhead' = CodesAhead
        /\ UNCHANGED <<mode, default_frequency, rr, rr2, agg, n>>
    BY <1>1, <1>9 DEF LinkFacts, NoTrouble, CodesAhead, vars, usmVars, callbackVars, deviceVars
  <2>2. ASSUME NEW E, NEW L, Links(E, L)
        PROVE  Links(E, L)'
    <3>1. Decodes(mode, default_frequency, rr, rr2, agg, n, E, CodesAhead, L)'
      BY <2>1, <2>2 DEF Links
    <3>2. Shows(E)' /\ (CodesAsShown => Expects(L)')
      BY <1>9, <2>2 DEF Links, Shows, Expects, vars, usmVars, callbackVars, deviceVars
    <3> QED BY <3>1, <3>2 DEF Links
  <2> QED BY <2>1, <2>2 DEF LinkInv
<1> QED BY <1>2, <1>3, <1>4, <1>5, <1>6, <1>7, <1>8, <1>9
        DEF Next, Callback, Waiting, Undefined

\* and holds at first: nothing was sent.
LEMMA LinkInit == Init => SettingsInv /\ LinkInv
<1> SUFFICES ASSUME Init PROVE SettingsInv /\ LinkInv
  OBVIOUS
<1>1. /\ agg = <<>> /\ n = 0 /\ mode = "USM_M_UIR" /\ state = "USM_W_CODE"
      /\ rr = RrZero /\ default_frequency = 0 /\ pc = "runloop"
      /\ toDev = <<>> /\ wire = <<>> /\ devMode = "USM_M_UIR" /\ expected = <<>> /\ shown = <<>>
  BY DEF Init, UsmInit, DeviceInit
<1>2. SettingsInv
  BY <1>1 DEF SettingsInv, RrZero
<1> DEFINE E == <<>>
<1>3. E \in Seq(Line)
  OBVIOUS
<1>4. CodesAhead = <<>> /\ Shows(E) /\ Expects(E) /\ NoTrouble
  BY <1>1 DEF CodesAhead, Shows, Expects, NoTrouble
<1> HIDE DEF E
<1>5. Decodes(mode, default_frequency, rr, rr2, <<>>, 0, E, <<>>, E)
  <2>1. Rests(mode, rr, rr2) /\ default_frequency \in Nat
    BY <1>1 DEF Rests
  <2> QED BY <1>1, <1>3, <2>1, RestsDecodes
<1>6. Links(E, E)
  BY <1>1, <1>4, <1>5 DEF Links
<1> QED BY <1>2, <1>3, <1>4, <1>6 DEF LinkInv

\* So the library and the wire keep in step.
LEMMA LinkInvariant ==
    ASSUME QuietUser, CodesInFormat
    PROVE  Spec => [](RibsuInv /\ QuietInv /\ SettingsInv /\ LinkInv)
<1>1. Spec => []QuietInv
  BY QuietInvariant DEF QuietUser
<1>2. RibsuInv /\ QuietInv /\ SettingsInv /\ LinkInv /\ [Next]_vars => SettingsInv' /\ LinkInv'
  BY SettingsKept, LinkKept
<1> QED BY <1>1, <1>2, LinkInit, RibsuInvariant, PTL DEF Spec

\* Codes that are complete and fit their tables never make a decoder divide
\* by zero or write past a table.
THEOREM NothingUndefinedHolds ==
    ASSUME QuietUser, CodesInFormat
    PROVE  Spec => []NothingUndefined
<1>1. LinkInv => NothingUndefined
  BY DEF LinkInv, NoTrouble, NothingUndefined
<1> QED BY <1>1, LinkInvariant, PTL

\* What changes the RAW2 context.
LEMMA Rr2Changes ==
    ASSUME LibInv, [Next]_vars
    PROVE  \/ rr2' = rr2
           \/ rr2'.state = "DDS_INIT" /\ rr2'.done = 0
           \/ /\ Rr2Parse /\ UNCHANGED <<rr, mode, state, default_frequency, first, out>>
              /\ UNCHANGED <<deviceVars, interp, shown, nCmds>>
<1>1. CASE UsmProcessRaw2Tail
  <2> DEFINE ctx == Rr2Final(rr2)
  <2>1. ctx \in Rr2Ctx
    BY Rr2FinalType DEF LibInv, LibTypeOK, PassInv
  <2>2. rr2' = [ctx EXCEPT !.state = "DDS_INIT", !.done = 0] \/ rr2' = rr2
    BY <1>1 DEF UsmProcessRaw2Tail
  <2> HIDE DEF ctx
  <2> QED BY <2>1, <2>2 DEF Rr2Ctx
<1>2. CASE RibsuWrite
  <2>1. rr2' = rr2 \/ rr2' = Rr2Zero
    BY <1>2 DEF RibsuWrite, UsmProcessUser, UserSwitch, usmVars
  <2> QED BY <2>1 DEF Rr2Zero
<1>3. CASE DriverRead
  BY <1>3 DEF DriverRead, RibsuCallback, usmVars, UsmProcessUirt, UsmProcessThru,
              UsmProcessUir, UsmEnterParse
<1>4. CASE Callback
  <2>1. CASE Propagate
    BY <2>1 DEF Propagate, UsmProcessUirtMore, UsmProcessThru, UsmProcessUir, UsmEnterParse
  <2>2. CASE Parse
    BY <1>1, <2>2 DEF Parse, UsmParse, UsmProcessRawTail
  <2> QED BY <1>4, <2>1, <2>2 DEF Callback
<1>5. CASE RibsuToggleInterpretation \/ RibsuSetDefaultFrequency \/ Device
           \/ Waiting \/ Undefined \/ UNCHANGED vars
  BY <1>5 DEF RibsuToggleInterpretation, RibsuSetDefaultFrequency, Device, Waiting,
              Undefined, vars, usmVars
<1> QED BY <1>2, <1>3, <1>4, <1>5 DEF Next

\* Rr2Pairs is inductive where no token is short.
LEMMA Rr2PairsKept ==
    ASSUME QuietUser, LinkFacts, LinkInv, Rr2Pairs, [Next]_vars
    PROVE  Rr2Pairs'
<1>1. LibInv
  BY DEF LinkFacts, RibsuInv
<1>2. CASE rr2' = rr2
  BY <1>2 DEF Rr2Pairs
<1>3. CASE rr2'.state = "DDS_INIT" /\ rr2'.done = 0
  BY <1>3 DEF Rr2Pairs
<1>4. CASE /\ Rr2Parse /\ UNCHANGED <<rr, mode, state, default_frequency, first, out>>
           /\ UNCHANGED <<deviceVars, interp, shown, nCmds>>
  BY <1>4, LinkParse
<1> QED BY <1>1, <1>2, <1>3, <1>4, Rr2Changes

\* A finished RAW2 code has a space between every two of its pulses.
THEOREM Raw2PairedHolds ==
    ASSUME QuietUser, CodesInFormat
    PROVE  Spec => []Raw2Paired
<1>1. Init => Rr2Pairs
  BY DEF Init, UsmInit, Rr2Zero, Rr2Pairs
<1>2. RibsuInv /\ QuietInv /\ SettingsInv /\ LinkInv /\ Rr2Pairs /\ [Next]_vars => Rr2Pairs'
  BY Rr2PairsKept DEF LinkFacts, LinkInv
<1>3. Rr2Pairs => Raw2Paired
  BY DEF Rr2Pairs, Raw2Paired, Paired
<1> QED BY <1>1, <1>2, <1>3, LinkInvariant, PTL DEF Spec

\* The lines to be shown begin with those that came out.
LEMMA DecodesLines ==
    ASSUME NEW m, NEW f \in Nat, NEW c, NEW c2, NEW a, NEW k, NEW E \in Seq(Line),
           NEW w \in Seq(Cell), NEW L \in Seq(Line), Decodes(m, f, c, c2, a, k, E, w, L),
           c.done = 0, c2.done = 0
    PROVE  Begin(L, E)
<1>1. CASE m = "USM_M_UIR"
  <2> DEFINE s == Between(E)
  <2>1. s \in Reading /\ s.lines = E /\ Ahead("USM_M_UIR", f, s, a, 0, w, L)
    BY <1>1, EmptyReadings, ReadsFields DEF Decodes, Between
  <2> HIDE DEF s
  <2> QED BY <2>1, AheadLines DEF Begin
<1>2. CASE m = "USM_M_RAW"
  <2> DEFINE t == RrTables(c)
             p == c.state
  <2>1. Onward(m, f, p, 0, t, a, k, E, w, L)
    BY <1>2 DEF Decodes
  <2> HIDE DEF t, p
  <2> QED BY <2>1, OnLines
<1>3. CASE m = "USM_M_RAW2"
  <2> DEFINE t == Rr2Tables(c2)
             p == c2.state
  <2>1. Onward(m, f, p, 0, t, a, k, E, w, L)
    BY <1>3 DEF Decodes
  <2> HIDE DEF t, p
  <2> QED BY <2>1, OnLines
<1> QED BY <1>1, <1>2, <1>3 DEF Decodes

\* The line in out is the next to be shown.
LEMMA NextLine ==
    ASSUME CodesAsShown, LinkFacts, LinkInv, pc = "propagate", out # <<>>,
           Len(shown) < MaxShown
    PROVE  Len(shown) < Len(expected) /\ expected[Len(shown) + 1] = out
<1>1. PICK E \in Seq(Line), L \in Seq(Line) : Links(E, L)
  BY DEF LinkInv
<1>2. /\ state = "USM_W_CODE" /\ shown \in Seq(Line) /\ wire \in Seq(Cell)
      /\ default_frequency \in Nat /\ rr.done = 0 /\ rr2.done = 0 /\ out \in Line
  BY DEF LinkFacts, RibsuInv, LibInv, LibTypeOK, LinkTypeOK, PassInv, QuietInv
<1>3. E = Append(shown, out) /\ expected = L
  BY <1>1, <1>2 DEF Links, Shows, Expects
<1>4. PICK M \in Seq(Line) : L = E \o M
  <2>1. Decodes(mode, default_frequency, rr, rr2, agg, n, E, wire, L)
    BY <1>1, <1>2 DEF Links, CodesAhead
  <2> DEFINE m == mode
             f == default_frequency
             c == rr
             c2 == rr2
             a == agg
             k == n
             w == wire
  <2>2. /\ Decodes(m, f, c, c2, a, k, E, w, L) /\ f \in Nat /\ w \in Seq(Cell)
        /\ c.done = 0 /\ c2.done = 0
    BY <1>2, <2>1
  <2> HIDE DEF m, f, c, c2, a, k, w
  <2>3. Begin(L, E)
    BY <2>2, DecodesLines
  <2> QED BY <2>3 DEF Begin
<1> DEFINE S == Line
<1>5. expected = Append(shown, out) \o M /\ shown \in Seq(S) /\ out \in S /\ M \in Seq(S)
  BY <1>2, <1>3, <1>4
<1> HIDE DEF S
<1> QED BY <1>5

\* What the device sends is sent after what it sent before.
LEMMA DeviceSends ==
    ASSUME RibsuInv, Device
    PROVE  Link!Send \/ UNCHANGED <<expected, shown>>
<1>1. expected \in Seq(Line) /\ default_frequency \in Nat /\ shown' = shown
      /\ toDev \in Seq(Byte)
  BY DEF Device, RibsuInv, LibInv, LibTypeOK, LinkTypeOK
<1>2. PICK M \in Seq(Line) : expected' = expected \o M
  <2>1. CASE DeviceAnswer
    <3> DEFINE r == Reply(Head(toDev))
               S == Line
    <3>1. r \in S /\ expected \in Seq(S) /\ expected' = Append(expected, r)
      BY <1>1, <2>1, ReplyType, BytesAreLine DEF DeviceAnswer
    <3> HIDE DEF r, S
    <3>2. <<r>> \in Seq(S) /\ expected' = expected \o <<r>>
      BY <3>1
    <3> QED BY <3>2 DEF S
  <2>2. CASE DeviceCode
    BY <1>1, <2>2, LinesType DEF DeviceCode
  <2> QED BY <2>1, <2>2 DEF Device
<1> DEFINE S == Line
<1>3. expected \in Seq(S) /\ M \in Seq(S)
  BY <1>1
<1> HIDE DEF S
<1>4. CASE Len(M) = 0
  <2>1. expected' = expected
    BY <1>2, <1>3, <1>4
  <2> QED BY <1>1, <2>1
<1>5. CASE Len(M) # 0
  <2>1. /\ expected' \in Seq(S) /\ Len(expected') > Len(expected)
        /\ SubSeq(expected', 1, Len(expected)) = expected
    BY <1>2, <1>3, <1>5
  <2> QED BY <1>1, <2>1 DEF Link!Send, S
<1> QED BY <1>4, <1>5

\* Every step of the library is a step of what it promises, or none.
LEMMA LinkStep ==
    ASSUME QuietUser, CodesAsShown, LinkFacts, LinkInv, [Next]_vars
    PROVE  [Link!Next]_<<expected, shown>>
<1>1. CASE Device
  BY <1>1, DeviceSends DEF Link!Next, LinkFacts
<1>2. CASE Propagate
  <2>1. pc = "propagate" /\ ShowLine(out) /\ expected' = expected
    BY <1>2 DEF Propagate, deviceVars
  <2>2. CASE out # <<>> /\ Len(shown) < MaxShown
    <3>1. Len(shown) < Len(expected) /\ expected[Len(shown) + 1] = out
      BY <2>1, <2>2, NextLine
    <3>2. shown' = Append(shown, out)
      BY <2>1, <2>2 DEF ShowLine
    <3> QED BY <2>1, <3>1, <3>2 DEF Link!Next, Link!Show
  <2>3. CASE ~(out # <<>> /\ Len(shown) < MaxShown)
    BY <2>1, <2>3 DEF ShowLine
  <2> QED BY <2>2, <2>3
<1>3. CASE ~Device /\ ~Propagate
  <2>1. interp
    BY DEF LinkFacts, QuietInv
  <2>2. UNCHANGED <<expected, shown>>
    BY <1>3, <2>1 DEF Next, RibsuWrite, RibsuToggleInterpretation, RibsuSetDefaultFrequency,
       DriverRead, RibsuCallback, QuietUser, Callback, Parse, Waiting, Undefined, vars, deviceVars
  <2> QED BY <2>2
<1> QED BY <1>1, <1>2, <1>3

\* The library shows every reply and every code whole, once and in order.
THEOREM LinkImplementedHolds ==
    ASSUME QuietUser, CodesInFormat, CodesAsShown
    PROVE  Spec => LinkImplemented
<1>1. Init => Link!Init
  BY DEF Init, DeviceInit, Link!Init
<1>2. RibsuInv /\ QuietInv /\ SettingsInv /\ LinkInv /\ [Next]_vars
        => [Link!Next]_<<expected, shown>>
  BY LinkStep DEF LinkFacts, LinkInv
<1> QED BY <1>1, <1>2, LinkInvariant, PTL DEF Spec, LinkImplemented, Link!Safety
=============================================================================
