----------------------------- MODULE UirtFormat -----------------------------
(***************************************************************************)
(* External: the formats the USB-UIRT sends codes in, as a reader of the   *)
(* wire that takes one cell at a time.  It is no decoder: it refuses what  *)
(* is not a code (a table that overflows, a pulse of no length that has    *)
(* carrier cycles, a token a read could cut, a RAW gap a read could        *)
(* separate from its pulse), so that "every code can be read, as the lines *)
(* it should be shown as" says what the decoders may rely on.              *)
(***************************************************************************)
EXTENDS Ribsu

\* What comes next; "gap" is "space" where a gap may come as well.
Places == {"interspace", "pulse", "space", "gap", "bad"}

\* The durations of a burst and the samples of its carrier.
Tables ==
    {t \in [pulse: Seq(Nat), space: Seq(Nat), total: Nat, samples: Nat] :
        t.total >= t.samples}

NoTables == [pulse |-> <<>>, space |-> <<>>, total |-> 0, samples |-> 0]

WithPulse(t, p, c) ==
    [pulse |-> Append(t.pulse, p), space |-> t.space,
     total |-> IF c = 0 THEN t.total ELSE t.total + SampleFrequency(p, c),
     samples |-> IF c = 0 THEN t.samples ELSE t.samples + 1]

WithSpace(t, d) ==
    [pulse |-> t.pulse, space |-> Append(t.space, d),
     total |-> t.total, samples |-> t.samples]

\* The reader: the bytes of the token it is in, the tables of the burst it is
\* in, and the lines of the bursts it is through with.
Reading == [at: Places, token: Seq(Byte), tables: Tables, lines: Seq(Line)]

Reads(at, token, tables, lines) ==
    [at |-> at, token |-> token, tables |-> tables, lines |-> lines]

Between(lines)  == Reads("interspace", <<>>, NoTables, lines)
AfterGap(lines) == Reads("pulse", <<>>, NoTables, lines)
Refused(lines)  == Reads("bad", <<>>, NoTables, lines)

\* A read may stop here.
MayStop(m, s) == s.at \notin {"gap", "bad"} /\ (m = "USM_M_UIR" \/ s.token = <<>>)

\* The number of bytes of the token that begins with these.
TokenLength(m, at, bytes) ==
    CASE at = "interspace"                        -> 2
      [] at # "interspace" /\ m = "USM_M_RAW"     -> 1
      [] at = "pulse" /\ m # "USM_M_RAW"          ->
            IF Len(bytes) >= 3 /\ bytes[3] >= 128 THEN 4 ELSE 3
      [] at \in {"space", "gap"} /\ m # "USM_M_RAW" ->
            IF bytes[1] = 255 THEN 1 ELSE 2

\* The duration of a pulse or a space, the carrier cycles of a pulse.
DurationOf(m, bytes) ==
    IF m = "USM_M_RAW" THEN bytes[1] ELSE 256 * bytes[1] + bytes[2]

CyclesOf(m, bytes) ==
    CASE m = "USM_M_RAW"                         -> 0
      [] m # "USM_M_RAW" /\ bytes[3] < 128       -> bytes[3]
      [] m # "USM_M_RAW" /\ bytes[3] >= 128      -> 256 * (bytes[3] - 128) + bytes[4]

LongestSpace(m) == IF m = "USM_M_RAW" THEN 128 ELSE 16000

\* The line of a burst.
BurstLine(m, f, t) ==
    IF m = "USM_M_RAW"
    THEN ProntoWords(78000, IF f = 0 THEN DefaultRrFrequency ELSE f, t.pulse, t.space)
    ELSE ProntoWords(560, IF t.samples = 0 THEN 1 ELSE t.total \div t.samples,
                     t.pulse, t.space)

ReadPulse(m, s, bytes, ends) ==
    LET p == DurationOf(m, bytes)
        c == CyclesOf(m, bytes)
    IN  IF Len(s.tables.pulse) < RR_MAX_PULSES /\ (c = 0 \/ p # 0)
        THEN Reads(IF ends THEN "space" ELSE "gap", <<>>,
                   WithPulse(s.tables, p, c), s.lines)
        ELSE Refused(s.lines)

\* 0xff ends a transmission, a gap ends a burst.
ReadSpace(m, f, s, bytes) ==
    LET lines == Append(s.lines, BurstLine(m, f, s.tables))
    IN  IF bytes[1] = 255 THEN Between(lines)
        ELSE IF DurationOf(m, bytes) > LongestSpace(m)
        THEN IF m = "USM_M_RAW" /\ s.at = "space"
             THEN Refused(s.lines) ELSE AfterGap(lines)
        ELSE IF Len(s.tables.space) < RR_MAX_PULSES
        THEN Reads("pulse", <<>>, WithSpace(s.tables, DurationOf(m, bytes)), s.lines)
        ELSE Refused(s.lines)

ReadToken(m, f, s, bytes, ends) ==
    CASE s.at = "interspace"       -> Reads("pulse", <<>>, s.tables, s.lines)
      [] s.at = "pulse"            -> ReadPulse(m, s, bytes, ends)
      [] s.at \in {"space", "gap"} -> ReadSpace(m, f, s, bytes)

\* A byte of a UIR code, of a token of a RAW or a RAW2 code.
ReadUir(s, bytes) ==
    IF Len(bytes) < UIRT_UIR_CODE_LEN
    THEN Reads(s.at, bytes, s.tables, s.lines)
    ELSE Between(Append(s.lines, bytes))

ReadRaw(m, f, s, bytes, ends) ==
    IF Len(bytes) >= TokenLength(m, s.at, bytes) THEN ReadToken(m, f, s, bytes, ends)
    ELSE IF ends THEN Refused(s.lines)
    ELSE Reads(s.at, bytes, s.tables, s.lines)

ReadCell(m, f, s, cell) ==
    LET bytes == Append(s.token, cell.b)
    IN  CASE s.at = "bad"                     -> s
          [] s.at # "bad" /\ m = "USM_M_UIR"  -> ReadUir(s, bytes)
          [] s.at # "bad" /\ m # "USM_M_UIR"  -> ReadRaw(m, f, s, bytes, cell.ends)

Reader(m, f) == [p \in Reading \X Cell |-> ReadCell(m, f, p[1], p[2])]

\* Where the reader is after all cells of s.
ReadTo(F, base, s) ==
    LET r[k \in 0 .. Len(s)] == IF k = 0 THEN base ELSE F[<<r[k - 1], s[k]>>]
    IN  r[Len(s)]

CodeRead(code, f) == ReadTo(Reader(code.mode, f), Between(<<>>), code.cells)

\* Every code is one or more transmissions in the format of its mode,
CodesInFormat ==
    \A code \in IrCodes, f \in Frequencies \cup {0} :
        CodeRead(code, f) = Between(CodeRead(code, f).lines)

\* and is expected to be shown as the lines the format says it has.
CodesAsShown ==
    \A code \in IrCodes, f \in Frequencies \cup {0} :
        CodeRead(code, f).lines = Lines(code, f)
=============================================================================
