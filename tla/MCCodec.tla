------------------------------ MODULE MCCodec ------------------------------
(***************************************************************************)
(* Instances of Codec.  Learned codes of n pulses, up to what the tables   *)
(* hold, with short durations (one byte as cycles), long ones, or both.    *)
(***************************************************************************)
EXTENDS Codec

MCCode(unit, freq, n, p, s) ==
    [unit |-> unit, freq |-> freq, pulse |-> [i \in 1 .. n |-> p + (i % 3)],
     space |-> [i \in 1 .. n - 1 |-> s - (i % 2)]]

\* 6 + 2 n + (long ones) bytes: 62 and 63 long, 124 and 125 short pulses are
\* on the two sides of 255; 126 and 127 on those of the output buffer.
MCSizes == 1 .. 4 \cup {41, 42, 62, 63, 124, 125, 126, 127, 128}

MCCodesAt(rawFreq, raw2Freq) ==
    {MCCode(RawUnit, rawFreq, n, d[1], d[2]) :
        n \in MCSizes, d \in {<<4, 22>>, <<80, 128>>, <<11, 90>>}}
    \cup
    {MCCode(Raw2Unit, raw2Freq, n, d[1], d[2]) :
        n \in MCSizes, d \in {<<1400, 4200>>, <<22000, 16000>>, <<1400, 16000>>}}

\* The carriers of most remote controls, and one that is shown as zero.
MCCodes ==
    MCCodesAt(38461, 38000) \cup MCCodesAt(40000, 37500)
    \cup {MCCode(Raw2Unit, 16150, n, 1400, 4200) : n \in 1 .. 4}

MCOtherCarriers ==
    {MCCode(RawUnit, f, n, 11, 90) : n \in 1 .. 4, f \in {30000, 36000, 56000}}

\* What the proof of DurationsKept assumes of the carriers.
ASSUME CarriersAssumption == UsualCarriers(MCCodes)

\* A Pronto code as it is typed: a frequency word and durations.
MCTypedPronto(f, times) == UBuf2Hex(WordBytes(<<0, f, 0, 0>> \o times))

Repeat(x, k) == [i \in 1 .. k |-> x]

MCWords ==
    {<<>>, <<2, 3>>, <<2>>, <<16, 16>>, <<0, 0>>, <<3, 3, 0, 1, 16, 10>>,
     Repeat(0, 6), Repeat(0, 8), Repeat(0, 16), Repeat(5, 1022), Repeat(5, 1023),
     Repeat(5, 1024), Repeat(5, 1025),
     MCTypedPronto(108, <<>>), MCTypedPronto(108, <<20>>),
     MCTypedPronto(0, <<20, 40>>), MCTypedPronto(1, <<20, 40, 20>>),
     MCTypedPronto(65535, <<127, 128, 32767, 32768, 65535, 0>>),
     MCTypedPronto(70, Repeat(255, 252)),
     SubSeq(MCTypedPronto(108, <<20>>), 1, 18)}
=============================================================================
