------------------------------ MODULE UirtRaw2 ------------------------------
(***************************************************************************)
(* uirt-raw2.c: the RAW2 decoder, a loop like the one of UirtRaw over      *)
(* longer tokens: a pulse is PhPlCl or PhPlChCl, a space one or two bytes. *)
(* The totals are not reduced modulo 2^32 (TLC's integers end below it):   *)
(* the carrier frequencies the instances use stay far under that bound.    *)
(***************************************************************************)
EXTENDS Uirt

VARIABLE rr2    \* rr2_ctx

Rr2Ctx == [state: DecoderStates, done: 0 .. 2, interspace: Nat,
           freq_total: Nat, nof_freq_samples: Nat, calc_freq: Nat,
           pulse: Seq(Nat), space: Seq(Nat)]

Rr2Zero == [state |-> "DDS_INIT", done |-> 0, interspace |-> 0,
            freq_total |-> 0, nof_freq_samples |-> 0, calc_freq |-> 0,
            pulse |-> <<>>, space |-> <<>>]

Rr2Turn(m, ctx, nextState) ==
    /\ rr2' = [ctx EXCEPT !.state = nextState]
    /\ n' = n + m
    /\ UNCHANGED <<agg, pc>>

Rr2Short(nextState) ==
    /\ rr2' = [rr2 EXCEPT !.state = nextState]
    /\ pc' = "rr2_tail"
    /\ UNCHANGED <<agg, n>>

Rr2Undefined ==
    /\ pc' = "undefined"
    /\ UNCHANGED <<agg, n, rr2>>

Rr2Loop(s) == pc = "rr2_parse" /\ Left > 0 /\ rr2.done = 0 /\ rr2.state = s

\* Mutant: the space table is not cleared for a new code.
Rr2InitKeepsSpaces ==
    /\ Rr2Loop("DDS_INIT")
    /\ Rr2Turn(0, [Rr2Zero EXCEPT !.space = rr2.space], "DDS_INTERSPACE")

Rr2Init ==
    Rr2Loop("DDS_INIT") /\ Rr2Turn(0, Rr2Zero, "DDS_INTERSPACE")

Rr2Interspace ==
    /\ Rr2Loop("DDS_INTERSPACE")
    /\ \/ Left < 2 /\ Rr2Short("DDS_PULSE")
       \/ /\ Left >= 2
          /\ LET i == ((256 * D(0) + D(1)) * 500) \div 512
             IN  Rr2Turn(2, [rr2 EXCEPT !.interspace = i], "DDS_PULSE")

\* A tenth of the number of 400 ns ticks in a second.
TickRate == 250000

\* The carrier frequency of a pulse of p ticks with c carrier cycles.
SampleFrequency(p, c) == (TickRate \div p) * (10 * c - 5)

\* A pulse of m bytes.
Rr2RecordPulse(m, p, c) ==
    \/ c # 0 /\ p = 0 /\ Rr2Undefined
    \/ Len(rr2.pulse) = RR_MAX_PULSES /\ ~(c # 0 /\ p = 0) /\ Rr2Undefined
    \/ /\ c # 0 => p # 0
       /\ Len(rr2.pulse) < RR_MAX_PULSES
       /\ Rr2Turn(m,
            [rr2 EXCEPT
                !.freq_total = IF c = 0 THEN @ ELSE @ + SampleFrequency(p, c),
                !.nof_freq_samples = IF c = 0 THEN @ ELSE @ + 1,
                !.pulse = Append(@, p)],
            "DDS_SPACE")

Rr2Pulse ==
    /\ Rr2Loop("DDS_PULSE")
    /\ \/ Left < 3 /\ Rr2Short("DDS_SPACE")
       \/ Left = 3 /\ D(2) >= 128 /\ Rr2Short("DDS_SPACE")
       \/ /\ Left >= 3 /\ D(2) < 128
          /\ Rr2RecordPulse(3, 256 * D(0) + D(1), D(2))
       \/ /\ Left > 3 /\ D(2) >= 128
          /\ Rr2RecordPulse(4, 256 * D(0) + D(1), 256 * (D(2) - 128) + D(3))

\* 0xff ends a transmission, a space of more than 0x3e80 is a gap.
Rr2Space ==
    /\ Rr2Loop("DDS_SPACE")
    /\ LET s == 256 * D(0) + D(1)
       IN  \/ D(0) = 255 /\ Rr2Turn(1, [rr2 EXCEPT !.done = 2], "DDS_PULSE")
           \/ D(0) # 255 /\ Left < 2 /\ Rr2Short("DDS_PULSE")
           \/ /\ D(0) # 255 /\ Left >= 2 /\ s > 16000
              /\ Rr2Turn(2, [rr2 EXCEPT !.done = 1], "DDS_PULSE")
           \/ /\ D(0) # 255 /\ Left >= 2 /\ s <= 16000
              /\ Len(rr2.space) < RR_MAX_PULSES
              /\ Rr2Turn(2, [rr2 EXCEPT !.space = Append(@, s)], "DDS_PULSE")
           \/ /\ D(0) # 255 /\ Left >= 2 /\ s <= 16000
              /\ Len(rr2.space) = RR_MAX_PULSES
              /\ Rr2Undefined

Rr2Parse == Rr2Init \/ Rr2Interspace \/ Rr2Pulse \/ Rr2Space

Rr2LoopOver ==
    \/ pc = "rr2_tail"
    \/ pc = "rr2_parse" /\ (Left = 0 \/ rr2.done # 0)

\* rr2_final: the average of the samples, or 1 when there was none.
Rr2Final(ctx) ==
    [ctx EXCEPT !.calc_freq =
        IF ctx.nof_freq_samples # 0
        THEN ctx.freq_total \div ctx.nof_freq_samples ELSE 1]

Rr2OutputPronto(ctx) == ProntoWords(560, ctx.calc_freq, ctx.pulse, ctx.space)
=============================================================================
