-------------------------------- MODULE Uirt --------------------------------
(***************************************************************************)
(* What the RAW and the RAW2 parser share: the aggregation buffer they     *)
(* read, the position n of the parse loop in it, and where the receive     *)
(* callback is (pc).  Everything runs on one run loop thread: pc is        *)
(* "runloop" when no callback is active.                                   *)
(***************************************************************************)
EXTENDS RibsuUtil, Pronto

CONSTANTS
    USM_AGG_MAX,      \* capacity of the aggregation buffer, uirt-sm.h
    RR_MAX_PULSES     \* entries in a pulse or a space table, uirt-raw.h, uirt-raw2.h

ASSUME BuffersAssumption ==
    /\ USM_AGG_MAX \in Nat \ {0}
    /\ RR_MAX_PULSES \in Nat \ {0}

VARIABLES
    agg,    \* usm_ctx.agg: bytes received and not yet part of a line
    n,      \* offset of the parse loop in agg
    pc      \* position of the receive callback

\* rr_* and rr2_* are inside the parse loop or past its break; "propagate" is
\* the do of ribsu_callback.  In "undefined" the program has divided by zero
\* (a trap on i386, an undefined quotient on ppc) or written past a table:
\* the model follows it no further.
Positions == {"runloop", "rr_parse", "rr_tail", "rr2_parse", "rr2_tail",
              "propagate", "undefined"}

DecoderStates == {"DDS_INIT", "DDS_INTERSPACE", "DDS_PULSE", "DDS_SPACE"}

Left == Len(agg) - n          \* len - n of the parse loops
D(i) == agg[n + 1 + i]        \* d[i], as a token handler sees it

\* Mutant: no zero interspace is put in place of a gap.
ParseConsumedWithoutGap(done, k) == k

\* ret.m: how much of agg a finished parse gives up.  After a gap (done = 1)
\* two bytes stay, to be overwritten by a zero interspace.
ParseConsumed(done, k) == IF done = 1 /\ k >= 2 THEN k - 2 ELSE k

\* Mutant: a finished code stays in agg.
AggAfterParseWithoutSlide(done) ==
    IF done # 0 THEN agg ELSE BufSlide(agg, n)

\* The fix-up of agg after a parse.
AggAfterParse(done) ==
    LET m == ParseConsumed(done, n)
    IN  ZeroFront(BufSlide(agg, m), n - m)
=============================================================================
