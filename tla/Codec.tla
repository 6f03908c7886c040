------------------------------- MODULE Codec -------------------------------
(***************************************************************************)
(* The way of a line through the conversions: a learned code becomes the   *)
(* bytes of a Pronto code (rr_output_pronto, rr2_output_pronto), the bytes *)
(* hexadecimal digits (u_buf2hex) in groups of four; what is typed or      *)
(* pasted becomes a word, which ends at a space                            *)
(* (stdin_read_callback), the word bytes (u_hex2buf), the bytes a command  *)
(* (usm_process_user, with rp_parse and rp_output for a Pronto code) with  *)
(* its checksum.  Sizes are those of the program, in bytes: a store past   *)
(* the end of a buffer, a read of bytes nobody wrote and a division by     *)
(* zero lead to "undefined".                                               *)
(***************************************************************************)
EXTENDS RibsuUtil, Pronto, SequencesExt

CONSTANTS
    Codes,            \* learned: [unit, freq, pulse, space]
    Words,            \* what is typed: sequences of Characters
    OUT_MAX,          \* capacity of raw and of the out buffers, 512
    HEX_MAX,          \* capacity of a hex buffer, 1025
    DEBUG_MAX,        \* capacity of bufbuf in usm_process_user, 1024
    RP_MAX_PULSES     \* entries in a table of rp_ctx, uirt-pronto.h

\* A hexadecimal digit by its value; 16 is any other character but a
\* separator and the letters of the metacommands.
Characters == 0 .. 16
Space == 17

\* The unit of a duration in ticks of 400 ns: 50 us in RAW mode, one tick in
\* RAW2 mode.
RawUnit == 125
Raw2Unit == 1

ASSUME CodecAssumption ==
    /\ \A c \in Codes :
          /\ c.unit \in {RawUnit, Raw2Unit} /\ c.freq \in Nat \ {0}
          /\ c.pulse \in Seq(Nat) /\ c.space \in Seq(Nat)
    /\ Words \subseteq Seq(Characters)
    /\ {OUT_MAX, HEX_MAX, DEBUG_MAX, RP_MAX_PULSES} \subseteq Nat

VARIABLES
    at,        \* how far the line has come, or "undefined"
    code,      \* the learned code, NoCode when a word is typed instead
    line,      \* out of ribsu_callback
    word,      \* the characters shown, then those of the word that is typed
    raw,       \* raw of stdin_read_callback
    sent,      \* what is given to drv_write
    interp     \* ribsu_ctx.interp

NoCode == [unit |-> RawUnit, freq |-> 1, pulse |-> <<>>, space |-> <<>>]

vars == <<at, code, line, word, raw, sent, interp>>

(***************************************************************************)
(* From a learned code to the digits that are shown.                       *)
(***************************************************************************)

\* Words as bytes, the high one first.
WordBytes(words) ==
    [i \in 1 .. 2 * Len(words) |->
        IF i % 2 = 1 THEN words[(i + 1) \div 2] \div 256 ELSE words[i \div 2] % 256]

\* Mutant: one scale for both modes.
OutputProntoOneScale(c) == WordBytes(ProntoWords(560, c.freq, c.pulse, c.space))

\* rr_output_pronto and rr2_output_pronto.
OutputPronto(c) ==
    LET scale == IF c.unit = RawUnit THEN 78000 ELSE 560
    IN  WordBytes(ProntoWords(scale, c.freq, c.pulse, c.space))

\* u_buf2hex: two digits a byte.
UBuf2Hex(buf) ==
    [i \in 1 .. 2 * Len(buf) |->
        IF i % 2 = 1 THEN buf[(i + 1) \div 2] \div 16 ELSE buf[i \div 2] % 16]

\* What ribsu_read_callback prints of the digits: a space after every four.
Printed(digits) ==
    [i \in 1 .. Len(digits) + Len(digits) \div 4 |->
        IF i % 5 = 0 THEN Space ELSE digits[i - i \div 5]]

(***************************************************************************)
(* From the digits that are typed to the bytes that are sent.              *)
(***************************************************************************)

\* Mutant: any other character at its value.
UHex2ValUnchecked(c) == c

UHex2Val(c) == IF c < 16 THEN c ELSE 0

\* u_hex2buf takes characters in twos: of an odd number the last goes with
\* the terminating zero, and what lies behind that is read as well.
UHex2Buf(hex) ==
    [i \in 1 .. Len(hex) \div 2 |->
        16 * UHex2Val(hex[2 * i - 1]) + UHex2Val(hex[2 * i])]

\* Word k of a Pronto code, from 1.
ProntoWord(buf, k) == 256 * buf[2 * k - 1] + buf[2 * k]

\* Bytes in front of the durations: header, frequency, two pair counts.
ProntoHead == 8

\* Durations that rp_parse finds, alternately pulses and spaces; an odd byte
\* at the end is taken for half of one.
RpCount(buf) == IF Len(buf) <= ProntoHead THEN 0 ELSE (Len(buf) - ProntoHead + 1) \div 2

\* There is a frequency, it is no zero divisor, the durations are whole and
\* fit their tables.
RpParseDefined(buf) ==
    /\ Len(buf) >= 4
    /\ ProntoWord(buf, 2) # 0
    /\ Len(buf) > ProntoHead => Len(buf) % 2 = 0
    /\ RpCount(buf) <= 2 * RP_MAX_PULSES

\* rp_init, rp_pulse and rp_space for all of a buffer.
RpParse(buf) ==
    LET t(k) == ProntoWord(buf, k + ProntoHead \div 2)
        m == RpCount(buf)
    IN  [repeat_count |-> 1, interspace |-> 0,
         freq  |-> 4145146 \div ProntoWord(buf, 2),
         pulse |-> [i \in 1 .. (m + 1) \div 2 |-> t(2 * i - 1)],
         space |-> [i \in 1 .. m \div 2 |-> t(2 * i)]]

\* A duration of a RAW command: two bytes from 0x80 on, the first with its
\* high bit set.
IsLong(t) == t >= 128

DurationBytes(t) ==
    IF IsLong(t) THEN <<128 + ((t \div 256) % 128), t % 256>> ELSE <<t>>

\* Half way between the two numbers of a pair.
Half(p) == (p[1] + p[2]) \div 2

\* The data bytes of a transmission; of times p[1] + 1 .. p[2], by halves.
DataBytes(times) ==
    LET data[p \in (0 .. Len(times)) \X (0 .. Len(times))] ==
            IF p[2] < p[1] + 2
            THEN IF p[2] = p[1] + 1 THEN DurationBytes(times[p[2]]) ELSE <<>>
            ELSE data[<<p[1], Half(p)>>] \o data[<<Half(p), p[2]>>]
    IN  data[<<0, Len(times)>>]

\* Mutant: the second bytes of long durations are left out of the lengths.
RpOutputWithoutFudge(ctx) ==
    LET times == Alternate(ctx.pulse, ctx.space)
    IN  <<54, (6 + Len(times)) % 256, (2500000 \div ctx.freq) % 256,
          ctx.repeat_count, (ctx.interspace \div 256) % 256, ctx.interspace % 256,
          Len(times) % 256>> \o DataBytes(times)

\* rp_output: the command UIRT_CMD_TX_RAW.  nof_fudge corrects the two length
\* bytes for the long durations; both are one byte.
RpOutput(ctx) ==
    LET times == Alternate(ctx.pulse, ctx.space)
        nof_fudge == Cardinality({i \in DOMAIN times : IsLong(times[i])})
    IN  <<54, (6 + Len(times) + nof_fudge) % 256, (2500000 \div ctx.freq) % 256,
          ctx.repeat_count, (ctx.interspace \div 256) % 256, ctx.interspace % 256,
          (Len(times) + nof_fudge) % 256>> \o DataBytes(times)

\* The sum of all bytes, as a byte; of bytes p[1] + 1 .. p[2], by halves.
ByteSum(buf) ==
    LET sum[p \in (0 .. Len(buf)) \X (0 .. Len(buf))] ==
            IF p[2] < p[1] + 2
            THEN IF p[2] = p[1] + 1 THEN buf[p[2]] ELSE 0
            ELSE (sum[<<p[1], Half(p)>>] + sum[<<Half(p), p[2]>>]) % 256
    IN  sum[<<0, Len(buf)>>]

\* Mutant: the sum is appended, not what completes it to zero.
UsmChecksumNotNegated(buf) ==
    IF Len(buf) = OUT_MAX THEN buf ELSE Append(buf, ByteSum(buf))

\* usm_checksum; its result is not looked at.
UsmChecksum(buf) ==
    IF Len(buf) = OUT_MAX THEN buf ELSE Append(buf, (256 - ByteSum(buf)) % 256)

\* usm_process_user: a Pronto code is made a RAW command, anything else is
\* copied; out has its checksum.
\* Mutant: both transmit commands go through the conversion.
IsProntoOrRaw(buf) == buf[1] \in {0, 54}

IsPronto(buf) == buf[1] = 0

Command(buf) == IF IsPronto(buf) THEN RpOutput(RpParse(buf)) ELSE buf

\* ... and in bufbuf its digits and a terminating zero.
UsmProcessUserDefined(buf) ==
    IsPronto(buf) =>
        /\ RpParseDefined(buf)
        /\ Len(Command(buf)) <= OUT_MAX
        /\ 2 * Len(Command(buf)) + 1 <= DEBUG_MAX

(***************************************************************************)
(* The stages.                                                             *)
(***************************************************************************)

Init ==
    /\ at = "start" /\ code = NoCode /\ line = <<>> /\ word = <<>>
    /\ raw = <<>> /\ sent = <<>> /\ interp \in BOOLEAN

Reach(stage, undefined) == at' = IF undefined THEN "undefined" ELSE stage

\* ribsu_callback, with a code that a decoder finished.
RibsuCallback ==
    /\ at = "start"
    /\ code' \in Codes
    /\ line' = OutputPronto(code')
    /\ Reach("line", Len(line') > OUT_MAX)
    /\ UNCHANGED <<word, raw, sent, interp>>

\* ribsu_read_callback.
RibsuReadCallback ==
    /\ at = "line"
    /\ word' = Printed(UBuf2Hex(line))
    /\ Reach("shown", 2 * Len(line) + 1 > HEX_MAX)
    /\ UNCHANGED <<code, line, raw, sent, interp>>

\* External: the user pastes the line as it was printed.  A space ends a word,
\* so that a group of digits is what stdin_read_callback gets, in any call.
PasteLine ==
    /\ at = "shown"
    /\ \E g \in 1 .. Len(word) \div 5 : word' = SubSeq(word, 5 * g - 4, 5 * g - 1)
    /\ at' = "word"
    /\ UNCHANGED <<code, line, raw, sent, interp>>

\* The printed line without its spaces.
Unspaced(text) ==
    [i \in 1 .. Len(text) - Len(text) \div 5 |-> text[i + (i - 1) \div 4]]

\* External: the user takes the spaces out first.
TypeBack ==
    /\ at = "shown"
    /\ word' = Unspaced(word)
    /\ at' = "word"
    /\ UNCHANGED <<code, line, raw, sent, interp>>

\* External: the user types something else.
TypeWord ==
    /\ at = "start"
    /\ word' \in Words
    /\ at' = "word"
    /\ UNCHANGED <<code, line, raw, sent, interp>>

\* Mutant: a buffer without room for the terminating zero.
StdinReadCallbackSmaller ==
    /\ at = "word"
    /\ \/ word = <<>> /\ at' = "start" /\ UNCHANGED <<word, raw>>
       \/ /\ word # <<>>
          /\ raw' = UHex2Buf(word)
          /\ Reach("raw", \/ Len(word) + 1 >= HEX_MAX \/ Len(word) % 2 = 1
                          \/ Len(raw') > OUT_MAX)
          /\ UNCHANGED word
    /\ UNCHANGED <<code, line, sent, interp>>

\* stdin_read_callback: the terminating zero goes behind the word.
StdinReadCallback ==
    /\ at = "word"
    /\ \/ word = <<>> /\ at' = "start" /\ UNCHANGED <<word, raw>>
       \/ /\ word # <<>>
          /\ raw' = UHex2Buf(word)
          /\ Reach("raw", \/ Len(word) >= HEX_MAX \/ Len(word) % 2 = 1
                          \/ Len(raw') > OUT_MAX)
          /\ UNCHANGED word
    /\ UNCHANGED <<code, line, sent, interp>>

\* ribsu_write.
RibsuWrite ==
    /\ at = "raw"
    /\ Reach("sent", interp /\ ~UsmProcessUserDefined(raw))
    /\ sent' = CASE at' = "undefined" -> sent
                 [] at' = "sent" /\ interp -> UsmChecksum(Command(raw))
                 [] at' = "sent" /\ ~interp -> raw
    /\ UNCHANGED <<code, line, word, raw, interp>>

Ended == at \in {"sent", "undefined"} /\ UNCHANGED vars

Next ==
    \/ RibsuCallback \/ RibsuReadCallback
    \/ PasteLine \/ TypeBack \/ TypeWord
    \/ StdinReadCallback \/ RibsuWrite \/ Ended

Spec == Init /\ [][Next]_vars

(***************************************************************************)
(* What should be true of the conversions.                                 *)
(***************************************************************************)

\* Every variable has its type: what is called a byte is one.
TypeOK ==
    /\ at \in {"start", "line", "shown", "word", "raw", "sent", "undefined"}
    /\ code \in Codes \cup {NoCode}
    /\ line \in Seq(Byte) /\ raw \in Seq(Byte) /\ sent \in Seq(Byte)
    /\ word \in Seq(Characters \cup {Space})
    /\ at = "word" => word \in Seq(Characters)
    /\ interp \in BOOLEAN

Learned == code # NoCode

\* The digits of a learned code were given back as one word.
Unbroken == Learned /\ word = UBuf2Hex(line)

\* Word 4 + n of the Pronto code is its duration n.
Duration(n) == ProntoWord(raw, n + ProntoHead \div 2)

\* Where duration n starts in the command: there are n - 1 in front of it,
\* the long ones of two bytes.
Start(n) == 7 + n + Cardinality({i \in 1 .. n - 1 : IsLong(Duration(i))})

\* What the device reads at byte k: a duration, and where the next one is.
ReadAt(k) ==
    IF IsLong(sent[k])
    THEN [time |-> 256 * (sent[k] - 128) + sent[k + 1], next |-> k + 2]
    ELSE [time |-> sent[k], next |-> k + 1]

\* The command is no longer than its length byte can say.
Fits == Len(sent) <= 257

Transmitted == at = "sent" /\ interp /\ IsPronto(raw)

\* Nothing goes past a buffer, reads what was not written or divides by zero
\* (rr_output_pronto, u_buf2hex, u_hex2buf, rp_parse, rp_output, each of which
\* takes no size) but for: a code of more than 126 pulses; a code whose
\* carrier has a frequency word with a low byte of zero, which is shown
\* without a frequency; an odd number of digits or more than 1024; and a
\* Pronto code without a frequency or of a broken number of words, like the
\* first group of a line that is pasted with its spaces.
UndefinedOnly ==
    at = "undefined" =>
        \/ Learned /\ Len(code.pulse) > 126 /\ word = <<>>
        \/ Unbroken /\ interp /\ FrequencyWord(code.freq) = 0
        \/ ~Learned /\ (Len(word) > 1024 \/ Len(word) % 2 = 1)
        \/ ~Unbroken /\ interp /\ raw[1] = 0
             /\ (Len(raw) < 4 \/ Len(raw) % 2 = 1 \/ raw[3] + raw[4] = 0)

\* A transmission that is made of a Pronto code says truly how long it is, and
\* a device that reads duration after duration finds those of the code, in
\* order and up to the checksum ("redo the length to take fudge into account",
\* uirt-pronto.c:135; "pulse/space data len", uirt.h:49).
CommandTrue ==
    Transmitted /\ Fits =>
        /\ sent[2] = Len(sent) - 2
        /\ sent[7] = Len(sent) - 8
        /\ Start(1) = 8 /\ Start(RpCount(raw) + 1) = Len(sent)
        /\ \A n \in 1 .. RpCount(raw) :
              ReadAt(Start(n)) = [time |-> Duration(n) % 32768, next |-> Start(n + 1)]

\* With the checksum, every command of less than 512 bytes adds up to zero
\* and is otherwise what was asked for (usm_checksum).
Checked ==
    at = "sent" /\ interp /\ Len(Command(raw)) < OUT_MAX =>
        /\ Front(sent) = Command(raw)
        /\ ByteSum(sent) = 0

\* The command a Pronto code was made, which -d prints without spaces
\* (uirt-sm.c:171), can be given back in place of the code: it is sent again
\* ("You should get a typically longer response, starting with 36", "copy the
\* 36 command line, paste it back", ribsu.rtf:38).
PastedAgain ==
    Transmitted =>
        LET again == UHex2Buf(UBuf2Hex(Command(raw)))
        IN  UsmChecksum(Command(again)) = sent

\* "USB-UIRT will output the learned IR sequence" (ribsu.rtf:38): a learned
\* code whose digits are given back as one word, without the spaces they were
\* printed with, is sent on its carrier, and every duration, now in cycles of
\* it, lasts what it lasted: to a tenth of it and a cycle.
Near(x, y, tolerance) == x - y <= tolerance /\ y - x <= tolerance

DurationsKept ==
    Transmitted /\ Unbroken /\ Fits =>
        LET times == Alternate(code.pulse, code.space)
            cycle == sent[3]       \* in ticks of 400 ns
        IN  /\ Near(cycle * code.freq, 2500000, 125000)
            /\ RpCount(raw) = Len(times) + 1
            /\ \A i \in DOMAIN times :
                  LET ticks == times[i] * code.unit
                  IN  Near(ReadAt(Start(i)).time * cycle, ticks, ticks \div 10 + cycle)

\* Learned codes of which it is true: durations as long as the formats allow,
\* on a carrier that suits the constant of the mode, or on one that is shown as
\* zero and cannot be sent.
RawTimes == 0 .. 255
Raw2Times == {t \in Nat : t < 65536}
RawCarriers == {f \in Nat : 37500 <= f /\ f <= 41400}
Raw2Carriers == {f \in Nat : 35500 <= f /\ f <= 39200}

UsualCarriers(codes) ==
    \A c \in codes : FrequencyWord(c.freq) # 0 =>
        \/ /\ c.unit = RawUnit /\ c.freq \in RawCarriers
           /\ c.pulse \in Seq(RawTimes) /\ c.space \in Seq(RawTimes)
        \/ /\ c.unit = Raw2Unit /\ c.freq \in Raw2Carriers
           /\ c.pulse \in Seq(Raw2Times) /\ c.space \in Seq(Raw2Times)
=============================================================================
