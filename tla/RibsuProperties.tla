--------------------------- MODULE RibsuProperties ---------------------------
(***************************************************************************)
(* What should be true of the library.                                     *)
(***************************************************************************)
EXTENDS Ribsu

\* Every variable has its type.  A parse never moves past the bytes it was
\* given (rr_parse, rr2_parse: n against len).
LibTypeOK ==
    /\ agg \in Seq(Byte)
    /\ n \in 0 .. Len(agg)
    /\ pc \in Positions
    /\ rr \in RrCtx
    /\ rr2 \in Rr2Ctx
    /\ mode \in Modes
    /\ state \in States
    /\ default_frequency \in Nat
    /\ first \in BOOLEAN
    /\ out \in Line

LinkTypeOK ==
    /\ toDev \in Seq(Byte)
    /\ wire \in Seq(Cell)
    /\ devMode \in Modes
    /\ nCodes \in Nat
    /\ expected \in Seq(Line)
    /\ interp \in BOOLEAN
    /\ shown \in Seq(Line)
    /\ nCmds \in Nat

TypeOK == LibTypeOK /\ LinkTypeOK

\* The library does what UirtLink promises, when tokens are not cut, the user
\* waits for replies and no code comes before a reply was read: every reply and
\* every code is shown whole, once and in order (ribsu.c:190-233).  A code right
\* behind a reply in one read would be copied out with it, as one line
\* (uirt-sm.c:65-67, 292).
Link == INSTANCE UirtLink WITH sent <- expected
LinkImplemented == Link!Safety

\* Under the same conditions no line is kept back: what has been received is
\* shown sooner or later, whatever comes after it (ribsu.c:203-214).
EverythingShown == Link!Liveness

\* With a quiet user, the state machine waits for a reply exactly when one is
\* outstanding, so that a reply is never decoded as a code (uirt-sm.c:30-34);
\* whatever follows the reply in a read.
ReplyAwaited ==
    pc = "runloop" => ((state # "USM_W_CODE") <=> (toDev # <<>> \/ ReplyOnWire))

\* The state machine waits for a reply only when one is to come, or the next
\* code is taken for it ("waiting for UIRT to return status", uirt-sm.c:31).
WaitJustified ==
    pc = "runloop" /\ state # "USM_W_CODE" => toDev # <<>> \/ ReplyOnWire

\* What is passed through while a reply is awaited is that reply and nothing
\* else ("passthru response", uirt-sm.c:291).  It is not: the code passes through
\* all of the read, whether a code came before the reply or comes behind it.
ReplyPassedThrough ==
    [][(state # "USM_W_CODE" /\ state' = "USM_W_CODE") =>
        (\A i \in 1 .. Len(wire) - Len(wire') : wire[i].kind = "reply")]_vars

\* Codes that are complete and fit their tables never make a decoder divide
\* by zero or write past a table (rr_pulse, rr2_pulse).
NothingUndefined == pc # "undefined"

\* Between callbacks only the beginning of a code or of a token is kept, so
\* that the next read always fits in the aggregation buffer and the ERR
\* branches of usm_process_raw and usm_process_raw2 are dead.
Residue ==
    CASE mode = "USM_M_UIR"  -> UIRT_UIR_CODE_LEN - 1
      [] mode = "USM_M_RAW"  -> 1
      [] mode = "USM_M_RAW2" -> 3
      [] mode = "USM_M_ECHO" -> 0

AggResidue == pc = "runloop" => Len(agg) <= Residue

\* agg is empty while a reply is awaited (agg.len = 0 in usm_process_user, and
\* what is passed through does not go there).  A decoder that was in a code
\* keeps what it has taken of it.
AggEmptyWaiting == state # "USM_W_CODE" => agg = <<>>

\* The rest of the induction: between passes the parse position is at the
\* start and no decoder is done; a pass decodes in the format of the mode; a
\* short token leaves less than a token; a frequency sample is at least 1, so
\* their mean is no zero divisor.
PassInv ==
    /\ pc \in {"runloop", "propagate"} => n = 0
    /\ pc # "rr_parse" => rr.done = 0
    /\ pc # "rr2_parse" => rr2.done = 0
    /\ pc \in {"rr_parse", "rr_tail"} => mode = "USM_M_RAW"
    /\ pc \in {"rr2_parse", "rr2_tail"} => mode = "USM_M_RAW2"
    /\ pc = "rr_tail" => Left = 1
    /\ pc = "rr2_tail" => Left \in 1 .. 3
    /\ mode = "USM_M_ECHO" => agg = <<>>
    /\ rr2.freq_total >= rr2.nof_freq_samples

\* An inductive invariant of the library's own state, and with the types of
\* the wire one of the whole.
LibInv == LibTypeOK /\ PassInv /\ AggEmptyWaiting /\ AggResidue
RibsuInv == LibInv /\ LinkTypeOK

\* With a buffer large enough for a residue and a read, no byte is refused.
AggRoom == pc = "runloop" => Len(agg) + MaxRead <= USM_AGG_MAX

\* A Pronto line announces its pairs in its fourth word ("repeat burst-pair
\* count"): a finished code has a space between every two pulses, and the
\* trailer completes the last pair.
Paired(ctx) == ctx.done # 0 => Len(ctx.pulse) = Len(ctx.space) + 1
RawPaired  == pc # "undefined" => Paired(rr)
Raw2Paired == pc # "undefined" => Paired(rr2)

\* The loop of ribsu_callback has a variant: a line that comes out of bytes
\* which were already there when the one before came out uses some up.
LoopVariant ==
    [][(Callback /\ mode # "USM_M_ECHO"
        /\ out # <<>> /\ ~first' /\ pc' = "propagate")
        => Len(agg') < Len(agg)]_vars

\* What is passed through is passed through once: there are never more lines
\* shown than were sent ("passthru response", uirt-sm.c:291).
ShownOnce == Len(shown) <= Len(expected)

\* While no unknown command was sent, a callback returns to the run loop.
CallbackReturns == (pc # "runloop") ~> (pc \in {"runloop", "undefined"})
=============================================================================
