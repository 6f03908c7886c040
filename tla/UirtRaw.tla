------------------------------ MODULE UirtRaw ------------------------------
(***************************************************************************)
(* uirt-raw.c: the RAW decoder.  One action is one turn of the loop in     *)
(* rr_parse, that is one call of the token handler of the current state.   *)
(* The code stores the next state before it looks whether the handler had  *)
(* enough bytes, so a short token moves the decoder on all the same.       *)
(***************************************************************************)
EXTENDS Uirt

VARIABLE rr     \* rr_ctx; the tables hold nof_pulses and nof_spaces entries

RrCtx == [state: DecoderStates, done: 0 .. 2, interspace: Nat,
          freq: Nat \ {0}, pulse: Seq(Nat), space: Seq(Nat)]

DefaultRrFrequency == 38461

RrZero == [state |-> "DDS_INIT", done |-> 0, interspace |-> 0,
           freq |-> DefaultRrFrequency, pulse |-> <<>>, space |-> <<>>]

\* Mutant: the loop moves one byte too far.
RrTurnTooFar(m, ctx, nextState) ==
    /\ rr' = [ctx EXCEPT !.state = nextState]
    /\ n' = n + m + 1
    /\ UNCHANGED <<agg, pc>>

\* The handler took m bytes and left the context ctx.
RrTurn(m, ctx, nextState) ==
    /\ rr' = [ctx EXCEPT !.state = nextState]
    /\ n' = n + m
    /\ UNCHANGED <<agg, pc>>

\* The handler had too few bytes: the loop breaks.
RrShort(nextState) ==
    /\ rr' = [rr EXCEPT !.state = nextState]
    /\ pc' = "rr_tail"
    /\ UNCHANGED <<agg, n>>

RrLoop(s) == pc = "rr_parse" /\ Left > 0 /\ rr.done = 0 /\ rr.state = s

\* Mutants: the context, or its space table, is not cleared for a new code.
RrInitKeepsCtx ==
    RrLoop("DDS_INIT") /\ RrTurn(0, rr, "DDS_INTERSPACE")

RrInitKeepsSpaces ==
    /\ RrLoop("DDS_INIT")
    /\ RrTurn(0, [RrZero EXCEPT !.space = rr.space], "DDS_INTERSPACE")

RrInit ==
    RrLoop("DDS_INIT") /\ RrTurn(0, RrZero, "DDS_INTERSPACE")

RrInterspace ==
    /\ RrLoop("DDS_INTERSPACE")
    /\ \/ Left < 2 /\ RrShort("DDS_PULSE")
       \/ /\ Left >= 2
          /\ RrTurn(2, [rr EXCEPT !.interspace = 256 * D(0) + D(1)], "DDS_PULSE")

\* nof_pulses is not compared with the size of the table.
RrPulse ==
    /\ RrLoop("DDS_PULSE")
    /\ \/ /\ Len(rr.pulse) < RR_MAX_PULSES
          /\ RrTurn(1, [rr EXCEPT !.pulse = Append(@, D(0))], "DDS_SPACE")
       \/ /\ Len(rr.pulse) = RR_MAX_PULSES
          /\ pc' = "undefined"
          /\ UNCHANGED <<agg, n, rr>>

\* 0xff ends a transmission, a longer space than 0x80 is the gap before the
\* next code.
RrSpace ==
    /\ RrLoop("DDS_SPACE")
    /\ \/ D(0) = 255 /\ RrTurn(1, [rr EXCEPT !.done = 2], "DDS_PULSE")
       \/ D(0) \in 129 .. 254 /\ RrTurn(1, [rr EXCEPT !.done = 1], "DDS_PULSE")
       \/ /\ D(0) <= 128
          /\ Len(rr.space) < RR_MAX_PULSES
          /\ RrTurn(1, [rr EXCEPT !.space = Append(@, D(0))], "DDS_PULSE")
       \/ /\ D(0) <= 128
          /\ Len(rr.space) = RR_MAX_PULSES
          /\ pc' = "undefined"
          /\ UNCHANGED <<agg, n, rr>>

RrParse == RrInit \/ RrInterspace \/ RrPulse \/ RrSpace

\* The loop is over: no byte left, a code is complete, or a token was short.
RrLoopOver ==
    \/ pc = "rr_tail"
    \/ pc = "rr_parse" /\ (Left = 0 \/ rr.done # 0)

\* rr_set_frequency, when a default frequency was chosen.
RrSetFrequency(ctx, f) == IF f = 0 THEN ctx ELSE [ctx EXCEPT !.freq = f]

RrOutputPronto(ctx) == ProntoWords(78000, ctx.freq, ctx.pulse, ctx.space)
=============================================================================
