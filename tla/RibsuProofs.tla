----------------------------- MODULE RibsuProofs -----------------------------
(***************************************************************************)
(* Theorems about Ribsu for every value of its constants.  LibInv is       *)
(* inductive together with the types of the wire and the histories; it is  *)
(* shown one step of the library at a time.                                *)
(***************************************************************************)
EXTENDS RibsuProperties, StreamLemmas

(***************************************************************************)
(* The aggregation buffer.                                                 *)
(***************************************************************************)

\* buf_append keeps a buffer a buffer, and never passes its capacity.
LEMMA BufAppendType ==
    ASSUME NEW dst \in Seq(Byte), NEW src \in Seq(Byte), NEW max \in Nat
    PROVE  BufAppend(dst, src, max) \in Seq(Byte)
BY DEF BufAppend, Byte

\* What is left of a buffer after buf_slide.
LEMMA BufSlideType ==
    ASSUME NEW buf \in Seq(Byte), NEW k \in 0 .. Len(buf)
    PROVE  /\ BufSlide(buf, k) \in Seq(Byte)
           /\ Len(BufSlide(buf, k)) = Len(buf) - k
<1>1. CASE k >= Len(buf)
  BY <1>1 DEF BufSlide
<1>2. CASE k < Len(buf)
  <2>1. BufSlide(buf, k) = SubSeq(buf, k + 1, Len(buf))
    BY <1>2 DEF BufSlide
  <2>2. SubSeq(buf, k + 1, Len(buf)) \in Seq(Byte)
    BY <1>2, SubSeqProperties
  <2>3. Len(SubSeq(buf, k + 1, Len(buf))) = Len(buf) - k
    BY <1>2, SubSeqProperties
  <2> QED
    BY <2>1, <2>2, <2>3
<1> QED
  BY <1>1, <1>2

\* Zeroes over the front change no length.
LEMMA ZeroFrontType ==
    ASSUME NEW buf \in Seq(Byte), NEW k \in Int
    PROVE  /\ ZeroFront(buf, k) \in Seq(Byte)
           /\ Len(ZeroFront(buf, k)) = Len(buf)
<1>1. Len(buf) \in Nat
  OBVIOUS
<1>2. ASSUME NEW i \in 1 .. Len(buf)
      PROVE  (IF i <= k THEN 0 ELSE buf[i]) \in Byte
  <2>1. buf[i] \in Byte
    BY ElementOfSeq
  <2>2. 0 \in Byte
    BY DEF Byte
  <2> QED
    BY <2>1, <2>2
<1> QED
  BY <1>1, <1>2 DEF ZeroFront

\* A parse gives up no more than it went through.
LEMMA ParseConsumedType ==
    ASSUME NEW done \in 0 .. 2, NEW k \in Nat
    PROVE  ParseConsumed(done, k) \in 0 .. k
BY DEF ParseConsumed

\* What the fix-up of agg leaves.
LEMMA AggAfterParseType ==
    ASSUME agg \in Seq(Byte), n \in 0 .. Len(agg), NEW done \in 0 .. 2
    PROVE  /\ AggAfterParse(done) \in Seq(Byte)
           /\ Len(AggAfterParse(done)) = Len(agg) - ParseConsumed(done, n)
<1> DEFINE m == ParseConsumed(done, n)
<1>1. m \in 0 .. n /\ m \in 0 .. Len(agg)
  <2>1. n \in Nat /\ Len(agg) \in Nat /\ n <= Len(agg)
    OBVIOUS
  <2>2. ParseConsumed(done, n) \in 0 .. n
    BY <2>1, ParseConsumedType
  <2> QED
    BY <2>1, <2>2
<1>2. /\ BufSlide(agg, m) \in Seq(Byte)
      /\ Len(BufSlide(agg, m)) = Len(agg) - m
  BY <1>1, BufSlideType
<1>3. n - m \in Int
  BY <1>1
<1>4. AggAfterParse(done) = ZeroFront(BufSlide(agg, m), n - m)
  BY DEF AggAfterParse
<1> QED
  BY <1>2, <1>3, <1>4, ZeroFrontType

(***************************************************************************)
(* The parse loops.                                                        *)
(***************************************************************************)

\* A byte is a number.
LEMMA ByteIsNat == \A b \in Byte : b \in Nat
BY DEF Byte

\* A token handler that looks no further than it has bytes for sees a byte.
LEMMA ByteAt ==
    ASSUME agg \in Seq(Byte), n \in 0 .. Len(agg),
           NEW i \in Nat, i < Left
    PROVE  D(i) \in Byte /\ D(i) \in Nat
<1>1. n + 1 + i \in 1 .. Len(agg)
  BY DEF Left
<1>2. agg[n + 1 + i] \in Byte
  BY <1>1, ElementOfSeq
<1>3. D(i) \in Byte
  BY <1>2 DEF D
<1>4. \A b \in Byte : b \in Nat
  BY ByteIsNat
<1> QED
  BY <1>3, <1>4

\* The changes a token handler makes to its context.
LEMMA RrDoneType ==
    \A ctx \in RrCtx : \A d \in 0 .. 2 : [ctx EXCEPT !.done = d] \in RrCtx
BY DEF RrCtx

\* the interspace,
LEMMA RrInterspaceType ==
    \A ctx \in RrCtx : \A t \in Nat : [ctx EXCEPT !.interspace = t] \in RrCtx
BY DEF RrCtx

\* a pulse,
LEMMA RrPulseType ==
    ASSUME NEW ctx \in RrCtx, NEW t \in Nat
    PROVE  [ctx EXCEPT !.pulse = Append(@, t)] \in RrCtx
<1>1. ctx.pulse \in Seq(Nat)
  BY DEF RrCtx
<1>2. Append(ctx.pulse, t) \in Seq(Nat)
  BY <1>1
<1> QED
  BY <1>2 DEF RrCtx

\* a space.
LEMMA RrSpaceType ==
    ASSUME NEW ctx \in RrCtx, NEW t \in Nat
    PROVE  [ctx EXCEPT !.space = Append(@, t)] \in RrCtx
<1>1. ctx.space \in Seq(Nat)
  BY DEF RrCtx
<1>2. Append(ctx.space, t) \in Seq(Nat)
  BY <1>1
<1> QED
  BY <1>2 DEF RrCtx

\* A turn of the RAW loop that stays inside agg keeps the invariant.
LEMMA RrTurnInv ==
    ASSUME LibInv, pc = "rr_parse",
           NEW m \in Nat, m <= Left, NEW ctx \in RrCtx,
           NEW nextState \in DecoderStates,
           RrTurn(m, ctx, nextState),
           UNCHANGED <<rr2, mode, state, default_frequency, first, out>>
    PROVE  LibInv'
<1>1. LibTypeOK'
  <2>1. rr' \in RrCtx
    BY DEF RrTurn, RrCtx
  <2>2. n' \in 0 .. Len(agg')
    BY DEF RrTurn, LibInv, LibTypeOK, Left
  <2> QED
    BY <2>1, <2>2 DEF RrTurn, LibInv, LibTypeOK
<1>2. PassInv'
  BY DEF RrTurn, LibInv, PassInv, Left
<1>3. AggEmptyWaiting' /\ AggResidue'
  BY DEF RrTurn, LibInv, AggEmptyWaiting, AggResidue
<1> QED
  BY <1>1, <1>2, <1>3 DEF LibInv

\* A short RAW token keeps the invariant.
LEMMA RrShortInv ==
    ASSUME LibInv, pc = "rr_parse", Left = 1, rr.done = 0,
           NEW nextState \in DecoderStates,
           RrShort(nextState),
           UNCHANGED <<rr2, mode, state, default_frequency, first, out>>
    PROVE  LibInv'
<1>1. LibTypeOK'
  <2>1. rr' \in RrCtx
    BY DEF RrShort, RrCtx, LibInv, LibTypeOK
  <2> QED
    BY <2>1 DEF RrShort, LibInv, LibTypeOK, Positions
<1>2. PassInv'
  <2>1. rr'.done = 0
    BY DEF RrShort, RrCtx, LibInv, LibTypeOK
  <2> QED
    BY <2>1 DEF RrShort, LibInv, PassInv, Left
<1>3. AggEmptyWaiting' /\ AggResidue'
  BY DEF RrShort, LibInv, AggEmptyWaiting, AggResidue
<1> QED
  BY <1>1, <1>2, <1>3 DEF LibInv

\* So does a step into undefined behaviour.
LEMMA UndefinedInv ==
    ASSUME LibInv, pc \in {"rr_parse", "rr2_parse"},
           rr.done = 0, rr2.done = 0, pc' = "undefined",
           UNCHANGED <<agg, n, rr, rr2, mode, state, default_frequency, first, out>>
    PROVE  LibInv'
<1>1. LibTypeOK'
  BY DEF LibInv, LibTypeOK, Positions
<1>2. PassInv'
  BY DEF LibInv, PassInv
<1>3. AggEmptyWaiting' /\ AggResidue'
  BY DEF LibInv, AggEmptyWaiting, AggResidue
<1> QED
  BY <1>1, <1>2, <1>3 DEF LibInv

\* Every RAW token handler keeps the invariant.
LEMMA RrParseInv ==
    ASSUME LibInv, RrParse,
           UNCHANGED <<rr2, mode, state, default_frequency, first, out>>
    PROVE  LibInv'
<1>1. /\ agg \in Seq(Byte) /\ n \in 0 .. Len(agg) /\ rr \in RrCtx
      /\ pc = "rr_parse" /\ Left > 0 /\ Left \in Nat /\ rr.done = 0
      /\ rr2.done = 0
  BY DEF LibInv, LibTypeOK, PassInv, RrParse, RrInit, RrInterspace, RrPulse,
         RrSpace, RrLoop, Left
<1>2. D(0) \in Nat /\ (Left >= 2 => D(1) \in Nat)
  BY <1>1, ByteAt
<1>3. DecoderStates = {"DDS_INIT", "DDS_INTERSPACE", "DDS_PULSE", "DDS_SPACE"}
  BY DEF DecoderStates
<1>4. CASE RrInit
  <2>1. RrZero \in RrCtx
    BY <1>3 DEF RrZero, RrCtx, DefaultRrFrequency
  <2> QED
    BY <1>1, <1>3, <1>4, <2>1, RrTurnInv DEF RrInit
<1>5. CASE RrInterspace
  <2>1. CASE Left < 2 /\ RrShort("DDS_PULSE")
    BY <1>1, <1>3, <2>1, RrShortInv
  <2>2. CASE Left >= 2 /\ ~(Left < 2 /\ RrShort("DDS_PULSE"))
    <3> DEFINE ctx == [rr EXCEPT !.interspace = 256 * D(0) + D(1)]
    <3>0. 256 * D(0) + D(1) \in Nat
      BY <1>2, <2>2
    <3>1. ctx \in RrCtx
      BY <1>1, <3>0, RrInterspaceType
    <3>2. RrTurn(2, ctx, "DDS_PULSE")
      BY <1>5, <2>2 DEF RrInterspace
    <3> HIDE DEF ctx
    <3> QED
      BY <1>1, <1>3, <2>2, <3>1, <3>2, RrTurnInv
  <2> QED
    BY <1>1, <1>5, <2>1, <2>2 DEF RrInterspace
<1>6. CASE RrPulse
  <2>1. CASE pc' = "undefined" /\ UNCHANGED <<agg, n, rr>>
    BY <1>1, <2>1, UndefinedInv
  <2>2. CASE ~(pc' = "undefined" /\ UNCHANGED <<agg, n, rr>>)
    <3> DEFINE ctx == [rr EXCEPT !.pulse = Append(@, D(0))]
    <3>1. ctx \in RrCtx
      BY <1>1, <1>2, RrPulseType
    <3>2. RrTurn(1, ctx, "DDS_SPACE")
      BY <1>6, <2>2 DEF RrPulse
    <3> HIDE DEF ctx
    <3> QED
      BY <1>1, <1>3, <3>1, <3>2, RrTurnInv
  <2> QED
    BY <2>1, <2>2
<1>7. CASE RrSpace
  <2>1. CASE pc' = "undefined" /\ UNCHANGED <<agg, n, rr>>
    BY <1>1, <2>1, UndefinedInv
  <2>2. CASE RrTurn(1, [rr EXCEPT !.done = 2], "DDS_PULSE")
    <3> DEFINE ctx == [rr EXCEPT !.done = 2]
    <3>0. 2 \in 0 .. 2
      OBVIOUS
    <3>1. ctx \in RrCtx
      BY <1>1, <3>0, RrDoneType
    <3>2. RrTurn(1, ctx, "DDS_PULSE")
      BY <2>2
    <3> HIDE DEF ctx
    <3> QED
      BY <1>1, <1>3, <3>1, <3>2, RrTurnInv
  <2>3. CASE RrTurn(1, [rr EXCEPT !.done = 1], "DDS_PULSE")
    <3> DEFINE ctx == [rr EXCEPT !.done = 1]
    <3>0. 1 \in 0 .. 2
      OBVIOUS
    <3>1. ctx \in RrCtx
      BY <1>1, <3>0, RrDoneType
    <3>2. RrTurn(1, ctx, "DDS_PULSE")
      BY <2>3
    <3> HIDE DEF ctx
    <3> QED
      BY <1>1, <1>3, <3>1, <3>2, RrTurnInv
  <2>4. CASE RrTurn(1, [rr EXCEPT !.space = Append(@, D(0))], "DDS_PULSE")
    <3> DEFINE ctx == [rr EXCEPT !.space = Append(@, D(0))]
    <3>1. ctx \in RrCtx
      BY <1>1, <1>2, RrSpaceType
    <3>2. RrTurn(1, ctx, "DDS_PULSE")
      BY <2>4
    <3> HIDE DEF ctx
    <3> QED
      BY <1>1, <1>3, <3>1, <3>2, RrTurnInv
  <2> QED
    BY <1>7, <2>1, <2>2, <2>3, <2>4 DEF RrSpace
<1> QED
  BY <1>4, <1>5, <1>6, <1>7 DEF RrParse

(***************************************************************************)
(* The same for RAW2.                                                      *)
(***************************************************************************)

\* A quotient by no more than the dividend is at least 1.
LEMMA DivAtLeastOne ==
    ASSUME NEW x \in Nat, NEW p \in Nat \ {0}, p <= x
    PROVE  x \div p \in Nat /\ x \div p >= 1
OBVIOUS

\* A frequency sample of a pulse that is not empty is at least 1.
LEMMA SampleFrequencyType ==
    ASSUME NEW p \in Nat \ {0}, p <= TickRate, NEW c \in Nat \ {0}
    PROVE  SampleFrequency(p, c) \in Nat /\ SampleFrequency(p, c) >= 1
<1> DEFINE a == TickRate \div p
           b == 10 * c - 5
<1>1. TickRate \in Nat
  BY DEF TickRate
<1>2. b \in Nat /\ b >= 1
  OBVIOUS
<1> HIDE DEF b
<1>3. a \in Nat /\ a >= 1
  BY <1>1, DivAtLeastOne
<1>4. SampleFrequency(p, c) = a * b
  BY DEF SampleFrequency, b
<1> HIDE DEF a
<1>5. a * b \in Nat /\ a * b >= 1
  BY <1>2, <1>3
<1> QED
  BY <1>4, <1>5

\* The changes a token handler makes to its context.
LEMMA Rr2DoneType ==
    \A ctx \in Rr2Ctx : \A d \in 0 .. 2 :
        /\ [ctx EXCEPT !.done = d] \in Rr2Ctx
        /\ [ctx EXCEPT !.done = d].freq_total = ctx.freq_total
        /\ [ctx EXCEPT !.done = d].nof_freq_samples = ctx.nof_freq_samples
BY DEF Rr2Ctx

\* the interspace,
LEMMA Rr2InterspaceType ==
    \A ctx \in Rr2Ctx : \A t \in Nat :
        /\ [ctx EXCEPT !.interspace = t] \in Rr2Ctx
        /\ [ctx EXCEPT !.interspace = t].freq_total = ctx.freq_total
        /\ [ctx EXCEPT !.interspace = t].nof_freq_samples = ctx.nof_freq_samples
BY DEF Rr2Ctx

\* a space,
LEMMA Rr2SpaceType ==
    ASSUME NEW ctx \in Rr2Ctx, NEW t \in Nat
    PROVE  /\ [ctx EXCEPT !.space = Append(@, t)] \in Rr2Ctx
           /\ [ctx EXCEPT !.space = Append(@, t)].freq_total = ctx.freq_total
           /\ [ctx EXCEPT !.space = Append(@, t)].nof_freq_samples
                = ctx.nof_freq_samples
<1>1. ctx.space \in Seq(Nat)
  BY DEF Rr2Ctx
<1>2. Append(ctx.space, t) \in Seq(Nat)
  BY <1>1
<1> QED
  BY <1>2 DEF Rr2Ctx

\* a pulse with its sample.
LEMMA Rr2PulseType ==
    ASSUME NEW ctx \in Rr2Ctx, NEW p \in Nat, NEW f \in Nat, NEW k \in Nat
    PROVE  [ctx EXCEPT !.freq_total = f, !.nof_freq_samples = k,
                       !.pulse = Append(@, p)] \in Rr2Ctx
<1>1. ctx.pulse \in Seq(Nat)
  BY DEF Rr2Ctx
<1>2. Append(ctx.pulse, p) \in Seq(Nat)
  BY <1>1
<1> QED
  BY <1>2 DEF Rr2Ctx

\* A turn of the RAW2 loop that stays inside agg keeps the invariant.
LEMMA Rr2TurnInv ==
    ASSUME LibInv, pc = "rr2_parse",
           NEW m \in Nat, m <= Left, NEW ctx \in Rr2Ctx,
           ctx.freq_total >= ctx.nof_freq_samples,
           NEW nextState \in DecoderStates,
           Rr2Turn(m, ctx, nextState),
           UNCHANGED <<rr, mode, state, default_frequency, first, out>>
    PROVE  LibInv'
<1>1. LibTypeOK'
  <2>1. rr2' \in Rr2Ctx
    BY DEF Rr2Turn, Rr2Ctx
  <2>2. n' \in 0 .. Len(agg')
    BY DEF Rr2Turn, LibInv, LibTypeOK, Left
  <2> QED
    BY <2>1, <2>2 DEF Rr2Turn, LibInv, LibTypeOK
<1>2. PassInv'
  <2>1. rr2'.freq_total >= rr2'.nof_freq_samples
    BY DEF Rr2Turn, Rr2Ctx
  <2> QED
    BY <2>1 DEF Rr2Turn, LibInv, PassInv, Left
<1>3. AggEmptyWaiting' /\ AggResidue'
  BY DEF Rr2Turn, LibInv, AggEmptyWaiting, AggResidue
<1> QED
  BY <1>1, <1>2, <1>3 DEF LibInv

\* A short RAW2 token keeps the invariant.
LEMMA Rr2ShortInv ==
    ASSUME LibInv, pc = "rr2_parse", Left \in 1 .. 3, rr2.done = 0,
           NEW nextState \in DecoderStates,
           Rr2Short(nextState),
           UNCHANGED <<rr, mode, state, default_frequency, first, out>>
    PROVE  LibInv'
<1>1. LibTypeOK'
  <2>1. rr2' \in Rr2Ctx
    BY DEF Rr2Short, Rr2Ctx, LibInv, LibTypeOK
  <2> QED
    BY <2>1 DEF Rr2Short, LibInv, LibTypeOK, Positions
<1>2. PassInv'
  <2>1. /\ rr2'.done = 0
        /\ rr2'.freq_total >= rr2'.nof_freq_samples
    BY DEF Rr2Short, Rr2Ctx, LibInv, LibTypeOK, PassInv
  <2> QED
    BY <2>1 DEF Rr2Short, LibInv, PassInv, Left
<1>3. AggEmptyWaiting' /\ AggResidue'
  BY DEF Rr2Short, LibInv, AggEmptyWaiting, AggResidue
<1> QED
  BY <1>1, <1>2, <1>3 DEF LibInv

\* A RAW2 pulse keeps the invariant, undefined or not.
LEMMA Rr2RecordPulseInv ==
    ASSUME LibInv, pc = "rr2_parse", rr2.done = 0,
           NEW m \in Nat, m <= Left,
           NEW p \in Nat, p <= TickRate, NEW c \in Nat,
           Rr2RecordPulse(m, p, c),
           UNCHANGED <<rr, mode, state, default_frequency, first, out>>
    PROVE  LibInv'
<1>1. rr2 \in Rr2Ctx /\ rr.done = 0 /\ rr2.freq_total >= rr2.nof_freq_samples
  BY DEF LibInv, LibTypeOK, PassInv
<1>2. CASE Rr2Undefined
  BY <1>1, <1>2, UndefinedInv DEF Rr2Undefined
<1>3. CASE ~Rr2Undefined
  <2> DEFINE f == IF c = 0 THEN rr2.freq_total
                  ELSE rr2.freq_total + SampleFrequency(p, c)
             k == IF c = 0 THEN rr2.nof_freq_samples ELSE rr2.nof_freq_samples + 1
             ctx == [rr2 EXCEPT !.freq_total = f, !.nof_freq_samples = k,
                                !.pulse = Append(@, p)]
  <2>1. /\ c # 0 => p # 0
        /\ Rr2Turn(m, ctx, "DDS_SPACE")
    BY <1>3 DEF Rr2RecordPulse
  <2>2. rr2.freq_total \in Nat /\ rr2.nof_freq_samples \in Nat
    BY <1>1 DEF Rr2Ctx
  <2>3. c # 0 => SampleFrequency(p, c) \in Nat /\ SampleFrequency(p, c) >= 1
    BY <2>1, SampleFrequencyType
  <2>4. f \in Nat /\ k \in Nat /\ f >= k
    BY <1>1, <2>2, <2>3
  <2> HIDE DEF f, k
  <2>5. ctx \in Rr2Ctx
    BY <1>1, <2>4, Rr2PulseType
  <2>6. ctx.freq_total = f /\ ctx.nof_freq_samples = k
    BY <1>1 DEF Rr2Ctx
  <2>7. "DDS_SPACE" \in DecoderStates
    BY DEF DecoderStates
  <2> HIDE DEF ctx
  <2> QED
    BY <2>1, <2>4, <2>5, <2>6, <2>7, Rr2TurnInv
<1> QED
  BY <1>2, <1>3
\* A byte of agg is at most 255.
LEMMA ByteBound == \A b \in Byte : b <= 255
BY DEF Byte

\* Two bytes are a number of ticks small enough for SampleFrequency.
LEMMA TwoBytes ==
    ASSUME NEW x \in Byte, NEW y \in Byte
    PROVE  256 * x + y \in Nat /\ 256 * x + y <= TickRate
<1>1. x \in Nat /\ y \in Nat /\ x <= 255 /\ y <= 255
  BY DEF Byte
<1> QED
  BY <1>1, SMT DEF TickRate

\* Every RAW2 token handler keeps the invariant.
LEMMA Rr2ParseInv ==
    ASSUME LibInv, Rr2Parse,
           UNCHANGED <<rr, mode, state, default_frequency, first, out>>
    PROVE  LibInv'
<1>1. /\ agg \in Seq(Byte) /\ n \in 0 .. Len(agg) /\ rr2 \in Rr2Ctx
      /\ pc = "rr2_parse" /\ Left > 0 /\ Left \in Nat /\ rr2.done = 0
      /\ rr.done = 0 /\ rr2.freq_total >= rr2.nof_freq_samples
  BY DEF LibInv, LibTypeOK, PassInv, Rr2Parse, Rr2Init, Rr2Interspace,
         Rr2Pulse, Rr2Space, Rr2Loop, Left
<1>2. /\ D(0) \in Byte
      /\ Left >= 2 => D(1) \in Byte
      /\ Left >= 3 => D(2) \in Byte
      /\ Left > 3 => D(3) \in Byte
  BY <1>1, ByteAt
<1>3. DecoderStates = {"DDS_INIT", "DDS_INTERSPACE", "DDS_PULSE", "DDS_SPACE"}
  BY DEF DecoderStates
<1>4. CASE Rr2Init
  <2>1. Rr2Zero \in Rr2Ctx /\ Rr2Zero.freq_total >= Rr2Zero.nof_freq_samples
    BY <1>3 DEF Rr2Zero, Rr2Ctx
  <2> QED
    BY <1>1, <1>3, <1>4, <2>1, Rr2TurnInv DEF Rr2Init
<1>5. CASE Rr2Interspace
  <2>1. CASE Left < 2 /\ Rr2Short("DDS_PULSE")
    BY <1>1, <1>3, <2>1, Rr2ShortInv
  <2>2. CASE Left >= 2 /\ ~(Left < 2 /\ Rr2Short("DDS_PULSE"))
    <3> DEFINE i == ((256 * D(0) + D(1)) * 500) \div 512
               ctx == [rr2 EXCEPT !.interspace = i]
    <3>1. i \in Nat
      <4>1. 256 * D(0) + D(1) \in Nat
        BY <1>2, <2>2, TwoBytes
      <4> QED
        BY <4>1
    <3>2. Rr2Turn(2, ctx, "DDS_PULSE")
      BY <1>5, <2>2 DEF Rr2Interspace
    <3> HIDE DEF i
    <3>3. /\ ctx \in Rr2Ctx
          /\ ctx.freq_total = rr2.freq_total
          /\ ctx.nof_freq_samples = rr2.nof_freq_samples
      BY <1>1, <3>1, Rr2InterspaceType
    <3> HIDE DEF ctx
    <3> QED
      BY <1>1, <1>3, <2>2, <3>2, <3>3, Rr2TurnInv
  <2> QED
    BY <1>1, <1>5, <2>1, <2>2 DEF Rr2Interspace
<1>6. CASE Rr2Pulse
  <2>1. CASE Left < 3 /\ Rr2Short("DDS_SPACE")
    <3>1. Left \in 1 .. 3
      BY <1>1, <2>1
    <3> QED
      BY <1>1, <1>3, <2>1, <3>1, Rr2ShortInv
  <2>2. CASE Left = 3 /\ D(2) >= 128 /\ Rr2Short("DDS_SPACE")
    <3>1. Left \in 1 .. 3
      BY <1>1, <2>2
    <3> QED
      BY <1>1, <1>3, <2>2, <3>1, Rr2ShortInv
  <2>3. CASE /\ Left >= 3 /\ D(2) < 128
             /\ Rr2RecordPulse(3, 256 * D(0) + D(1), D(2))
    <3> DEFINE p == 256 * D(0) + D(1)
               c == D(2)
    <3>0. D(0) \in Byte /\ D(1) \in Byte /\ D(2) \in Byte
      BY <1>1, <1>2, <2>3
    <3>1. p \in Nat /\ p <= TickRate /\ c \in Nat
      BY <3>0, TwoBytes, ByteIsNat
    <3>2. Rr2RecordPulse(3, p, c)
      BY <2>3
    <3> HIDE DEF p, c
    <3> QED
      BY <1>1, <2>3, <3>1, <3>2, Rr2RecordPulseInv
  <2>4. CASE /\ Left > 3 /\ D(2) >= 128
             /\ Rr2RecordPulse(4, 256 * D(0) + D(1), 256 * (D(2) - 128) + D(3))
    <3> DEFINE p == 256 * D(0) + D(1)
               c == 256 * (D(2) - 128) + D(3)
    <3>1. p \in Nat /\ p <= TickRate
      BY <1>2, <2>4, <1>1, TwoBytes
    <3>2. c \in Nat
      <4>1. D(2) \in Nat /\ D(3) \in Nat
        BY <1>1, <1>2, <2>4, ByteIsNat
      <4> QED
        BY <2>4, <4>1
    <3>3. Rr2RecordPulse(4, p, c)
      BY <2>4
    <3>4. 4 \in Nat /\ 4 <= Left
      BY <1>1, <2>4
    <3> HIDE DEF p, c
    <3> QED
      BY <1>1, <3>1, <3>2, <3>3, <3>4, Rr2RecordPulseInv
  <2> QED
    BY <1>6, <2>1, <2>2, <2>3, <2>4 DEF Rr2Pulse
<1>7. CASE Rr2Space
  <2> DEFINE s == 256 * D(0) + D(1)
  <2>0. Left >= 2 => s \in Nat
    BY <1>2, TwoBytes
  <2>1. CASE Rr2Undefined
    BY <1>1, <2>1, UndefinedInv DEF Rr2Undefined
  <2>2. CASE Left < 2 /\ Rr2Short("DDS_PULSE")
    <3>1. Left \in 1 .. 3
      BY <1>1, <2>2
    <3> QED
      BY <1>1, <1>3, <2>2, <3>1, Rr2ShortInv
  <2>3. CASE Rr2Turn(1, [rr2 EXCEPT !.done = 2], "DDS_PULSE")
    <3> DEFINE ctx == [rr2 EXCEPT !.done = 2]
    <3>0. 2 \in 0 .. 2
      OBVIOUS
    <3>1. /\ ctx \in Rr2Ctx
          /\ ctx.freq_total = rr2.freq_total
          /\ ctx.nof_freq_samples = rr2.nof_freq_samples
      BY <1>1, <3>0, Rr2DoneType
    <3>2. Rr2Turn(1, ctx, "DDS_PULSE")
      BY <2>3
    <3> HIDE DEF ctx
    <3> QED
      BY <1>1, <1>3, <3>1, <3>2, Rr2TurnInv
  <2>4. CASE Left >= 2 /\ Rr2Turn(2, [rr2 EXCEPT !.done = 1], "DDS_PULSE")
    <3> DEFINE ctx == [rr2 EXCEPT !.done = 1]
    <3>0. 1 \in 0 .. 2
      OBVIOUS
    <3>1. /\ ctx \in Rr2Ctx
          /\ ctx.freq_total = rr2.freq_total
          /\ ctx.nof_freq_samples = rr2.nof_freq_samples
      BY <1>1, <3>0, Rr2DoneType
    <3>2. Rr2Turn(2, ctx, "DDS_PULSE")
      BY <2>4
    <3> HIDE DEF ctx
    <3> QED
      BY <1>1, <1>3, <2>4, <3>1, <3>2, Rr2TurnInv
  <2>5. CASE /\ Left >= 2
             /\ Rr2Turn(2, [rr2 EXCEPT !.space = Append(@, s)], "DDS_PULSE")
    <3> DEFINE ctx == [rr2 EXCEPT !.space = Append(@, s)]
    <3>1. Rr2Turn(2, ctx, "DDS_PULSE")
      BY <2>5
    <3>2. s \in Nat
      BY <2>0, <2>5
    <3> HIDE DEF s
    <3>3. /\ ctx \in Rr2Ctx
          /\ ctx.freq_total = rr2.freq_total
          /\ ctx.nof_freq_samples = rr2.nof_freq_samples
      BY <1>1, <3>2, Rr2SpaceType
    <3> HIDE DEF ctx
    <3> QED
      BY <1>1, <1>3, <2>5, <3>1, <3>3, Rr2TurnInv
  <2>6. \/ Rr2Undefined
        \/ Left < 2 /\ Rr2Short("DDS_PULSE")
        \/ Rr2Turn(1, [rr2 EXCEPT !.done = 2], "DDS_PULSE")
        \/ Left >= 2 /\ Rr2Turn(2, [rr2 EXCEPT !.done = 1], "DDS_PULSE")
        \/ Left >= 2 /\ Rr2Turn(2, [rr2 EXCEPT !.space = Append(@, s)], "DDS_PULSE")
    BY <1>7 DEF Rr2Space
  <2> QED
    BY <2>1, <2>2, <2>3, <2>4, <2>5, <2>6
<1> QED
  BY <1>4, <1>5, <1>6, <1>7 DEF Rr2Parse

(***************************************************************************)
(* The ends of the passes.                                                 *)
(***************************************************************************)

\* A buffer of no bytes is empty.
LEMMA NoBytes == \A s \in Seq(Byte) : Len(s) = 0 => s = <<>>
BY EmptySeq

\* Where the loop of ribsu_callback can be after a pass.
LEMMA AfterPassType ==
    ASSUME NEW isFirst \in BOOLEAN, NEW o
    PROVE  /\ AfterPass(isFirst, o) \in {"propagate", "runloop"}
           /\ AfterPass(isFirst, o) = "runloop" => o = <<>>
BY DEF AfterPass

\* rr_set_frequency keeps the context a context, its tables and its flag.
LEMMA RrSetFrequencyType ==
    ASSUME NEW ctx \in RrCtx, NEW f \in Nat
    PROVE  /\ RrSetFrequency(ctx, f) \in RrCtx
           /\ RrSetFrequency(ctx, f).done = ctx.done
BY DEF RrSetFrequency, RrCtx

\* A decoder that starts over.
Restarted(ctx) == [ctx EXCEPT !.state = "DDS_INIT", !.done = 0]

\* The reset after a RAW code.
LEMMA RrStartOverType ==
    ASSUME NEW ctx \in RrCtx
    PROVE  Restarted(ctx) \in RrCtx /\ Restarted(ctx).done = 0
<1>1. ASSUME NEW s \in DecoderStates, NEW d \in 0 .. 2
      PROVE  /\ [ctx EXCEPT !.state = s, !.done = d] \in RrCtx
             /\ [ctx EXCEPT !.state = s, !.done = d].done = d
  BY DEF RrCtx
<1>2. "DDS_INIT" \in DecoderStates /\ 0 \in 0 .. 2
  BY DEF DecoderStates
<1>3. /\ [ctx EXCEPT !.state = "DDS_INIT", !.done = 0] \in RrCtx
      /\ [ctx EXCEPT !.state = "DDS_INIT", !.done = 0].done = 0
  BY <1>1, <1>2
<1> QED BY <1>3 DEF Restarted

\* A RAW line is a line, and not an empty one.
LEMMA RrOutputType ==
    ASSUME NEW ctx \in RrCtx
    PROVE  RrOutputPronto(ctx) \in Line /\ RrOutputPronto(ctx) # <<>>
<1>1. /\ ctx.freq \in Nat \ {0}
      /\ ctx.pulse \in Seq(Nat) /\ ctx.space \in Seq(Nat)
  BY DEF RrCtx
<1> DEFINE k == 78000
<1>2. k \in Nat
  BY SMT
<1>3. RrOutputPronto(ctx) = ProntoWords(k, ctx.freq, ctx.pulse, ctx.space)
  BY DEF RrOutputPronto
<1> HIDE DEF k
<1> QED
  BY <1>1, <1>2, <1>3, ProntoWordsType DEF Line

\* The end of a RAW parse keeps the invariant.
LEMMA RawTailInv ==
    ASSUME LibInv, UsmProcessRawTail
    PROVE  LibInv'
<1>1. /\ agg \in Seq(Byte) /\ n \in 0 .. Len(agg) /\ Len(agg) \in Nat
      /\ rr \in RrCtx /\ rr.done \in 0 .. 2
      /\ pc \in {"rr_parse", "rr_tail"} /\ mode = "USM_M_RAW"
      /\ rr2.done = 0 /\ first \in BOOLEAN /\ default_frequency \in Nat
  BY DEF LibInv, LibTypeOK, PassInv, RrCtx, UsmProcessRawTail, RrLoopOver
<1>2. /\ agg' \in Seq(Byte)
      /\ Len(agg') = Len(agg) - ParseConsumed(rr.done, n)
      /\ n' = 0
  BY <1>1, AggAfterParseType DEF UsmProcessRawTail
<1>3. /\ rr' \in RrCtx /\ rr'.done = 0
      /\ out' \in Line
      /\ rr.done # 0 => out' # <<>>
  <2> DEFINE ctx == RrSetFrequency(rr, default_frequency)
  <2>1. ctx \in RrCtx
    BY <1>1, RrSetFrequencyType
  <2>2. \/ /\ rr.done # 0
           /\ out' = RrOutputPronto(ctx)
           /\ rr' = Restarted(ctx)
        \/ /\ rr.done = 0
           /\ out' = <<>>
           /\ UNCHANGED rr
    BY DEF UsmProcessRawTail, Restarted
  <2> HIDE DEF ctx
  <2>3. Restarted(ctx) \in RrCtx /\ Restarted(ctx).done = 0
    BY <2>1, RrStartOverType
  <2>4. RrOutputPronto(ctx) \in Line /\ RrOutputPronto(ctx) # <<>>
    BY <2>1, RrOutputType
  <2>5. <<>> \in Line
    BY DEF Line
  <2> QED
    BY <1>1, <2>2, <2>3, <2>4, <2>5
<1>4. /\ pc' \in {"propagate", "runloop"}
      /\ pc' = "runloop" => out' = <<>>
  BY <1>1, AfterPassType DEF UsmProcessRawTail
<1>5. UNCHANGED <<rr2, mode, state, default_frequency, first>>
  BY DEF UsmProcessRawTail
<1>6. LibTypeOK'
  BY <1>1, <1>2, <1>3, <1>4, <1>5 DEF LibInv, LibTypeOK, Positions
<1>7. PassInv'
  BY <1>1, <1>2, <1>3, <1>4, <1>5 DEF LibInv, PassInv
<1>8. AggEmptyWaiting'
  <2>1. CASE state = "USM_W_CODE"
    BY <1>5, <2>1 DEF AggEmptyWaiting
  <2>2. CASE state # "USM_W_CODE"
    <3>1. Len(agg) = 0 /\ n = 0
      BY <1>1, <2>2 DEF LibInv, AggEmptyWaiting
    <3>2. ParseConsumed(rr.done, n) = 0
      BY <3>1 DEF ParseConsumed
    <3> QED
      BY <1>2, <3>1, <3>2, NoBytes DEF AggEmptyWaiting
  <2> QED
    BY <2>1, <2>2
<1>9. AggResidue'
  <2> SUFFICES ASSUME pc' = "runloop" PROVE Len(agg') <= 1
    BY <1>1, <1>5 DEF AggResidue, Residue
  <2>1. rr.done = 0
    BY <1>3, <1>4
  <2>2. Left <= 1
    BY <1>1, <2>1 DEF UsmProcessRawTail, RrLoopOver, LibInv, PassInv
  <2>3. ParseConsumed(rr.done, n) = n
    BY <2>1 DEF ParseConsumed
  <2> QED
    BY <1>1, <1>2, <2>2, <2>3 DEF Left
<1> QED
  BY <1>6, <1>7, <1>8, <1>9 DEF LibInv

\* The reset after a RAW2 code.
LEMMA Rr2StartOverType ==
    ASSUME NEW ctx \in Rr2Ctx
    PROVE  /\ Restarted(ctx) \in Rr2Ctx /\ Restarted(ctx).done = 0
           /\ Restarted(ctx).freq_total = ctx.freq_total
           /\ Restarted(ctx).nof_freq_samples = ctx.nof_freq_samples
<1>1. ASSUME NEW s \in DecoderStates, NEW d \in 0 .. 2
      PROVE  LET c == [ctx EXCEPT !.state = s, !.done = d]
             IN  /\ c \in Rr2Ctx /\ c.done = d /\ c.freq_total = ctx.freq_total
                 /\ c.nof_freq_samples = ctx.nof_freq_samples
  BY DEF Rr2Ctx
<1>2. "DDS_INIT" \in DecoderStates /\ 0 \in 0 .. 2
  BY DEF DecoderStates
<1>3. LET c == [ctx EXCEPT !.state = "DDS_INIT", !.done = 0]
      IN  /\ c \in Rr2Ctx /\ c.done = 0 /\ c.freq_total = ctx.freq_total
          /\ c.nof_freq_samples = ctx.nof_freq_samples
  BY <1>1, <1>2
<1> QED BY <1>3 DEF Restarted

\* rr2_final writes the calculated frequency and nothing else.
LEMMA Rr2CalcFreqType ==
    \A ctx \in Rr2Ctx : \A f \in Nat :
        /\ [ctx EXCEPT !.calc_freq = f] \in Rr2Ctx
        /\ [ctx EXCEPT !.calc_freq = f].calc_freq = f
        /\ [ctx EXCEPT !.calc_freq = f].freq_total = ctx.freq_total
        /\ [ctx EXCEPT !.calc_freq = f].nof_freq_samples = ctx.nof_freq_samples
BY DEF Rr2Ctx

\* The mean of samples that are at least 1 is at least 1.
LEMMA Rr2FinalType ==
    ASSUME NEW ctx \in Rr2Ctx, ctx.freq_total >= ctx.nof_freq_samples
    PROVE  /\ Rr2Final(ctx) \in Rr2Ctx
           /\ Rr2Final(ctx).calc_freq # 0
           /\ Rr2Final(ctx).freq_total = ctx.freq_total
           /\ Rr2Final(ctx).nof_freq_samples = ctx.nof_freq_samples
<1> DEFINE f == IF ctx.nof_freq_samples # 0
                THEN ctx.freq_total \div ctx.nof_freq_samples ELSE 1
<1>1. f \in Nat /\ f # 0
  <2>1. ctx.freq_total \in Nat /\ ctx.nof_freq_samples \in Nat
    BY DEF Rr2Ctx
  <2>2. CASE ctx.nof_freq_samples # 0
    <3>1. f = ctx.freq_total \div ctx.nof_freq_samples
      BY <2>2
    <3> DEFINE x == ctx.freq_total
               p == ctx.nof_freq_samples
    <3>2. x \in Nat /\ p \in Nat \ {0} /\ p <= x
      BY <2>1, <2>2
    <3> HIDE DEF x, p
    <3>3. x \div p \in Nat /\ x \div p >= 1
      BY <3>2, DivAtLeastOne
    <3> QED
      BY <3>1, <3>3 DEF x, p
  <2>3. CASE ctx.nof_freq_samples = 0
    BY <2>3
  <2> QED
    BY <2>2, <2>3
<1>2. Rr2Final(ctx) = [ctx EXCEPT !.calc_freq = f]
  BY DEF Rr2Final
<1> HIDE DEF f
<1> QED
  BY <1>1, <1>2, Rr2CalcFreqType

\* A RAW2 line is a line, and not an empty one.
LEMMA Rr2OutputType ==
    ASSUME NEW ctx \in Rr2Ctx, ctx.calc_freq # 0
    PROVE  Rr2OutputPronto(ctx) \in Line /\ Rr2OutputPronto(ctx) # <<>>
<1>1. /\ ctx.calc_freq \in Nat \ {0}
      /\ ctx.pulse \in Seq(Nat) /\ ctx.space \in Seq(Nat)
  BY DEF Rr2Ctx
<1> DEFINE k == 560
<1>2. k \in Nat
  BY SMT
<1>3. Rr2OutputPronto(ctx) = ProntoWords(k, ctx.calc_freq, ctx.pulse, ctx.space)
  BY DEF Rr2OutputPronto
<1> HIDE DEF k
<1> QED
  BY <1>1, <1>2, <1>3, ProntoWordsType DEF Line

\* The end of a RAW2 parse keeps the invariant.
LEMMA Raw2TailInv ==
    ASSUME LibInv, UsmProcessRaw2Tail
    PROVE  LibInv'
<1>1. /\ agg \in Seq(Byte) /\ n \in 0 .. Len(agg) /\ Len(agg) \in Nat
      /\ rr2 \in Rr2Ctx /\ rr2.done \in 0 .. 2
      /\ pc \in {"rr2_parse", "rr2_tail"} /\ mode = "USM_M_RAW2"
      /\ rr.done = 0 /\ first \in BOOLEAN
      /\ rr2.freq_total >= rr2.nof_freq_samples
  BY DEF LibInv, LibTypeOK, PassInv, Rr2Ctx, UsmProcessRaw2Tail, Rr2LoopOver
<1>2. /\ agg' \in Seq(Byte)
      /\ Len(agg') = Len(agg) - ParseConsumed(rr2.done, n)
      /\ n' = 0
  BY <1>1, AggAfterParseType DEF UsmProcessRaw2Tail
<1>3. /\ rr2' \in Rr2Ctx /\ rr2'.done = 0
      /\ rr2'.freq_total >= rr2'.nof_freq_samples
      /\ out' \in Line
      /\ rr2.done # 0 => out' # <<>>
  <2> DEFINE ctx == Rr2Final(rr2)
  <2>1. /\ ctx \in Rr2Ctx /\ ctx.calc_freq # 0
        /\ ctx.freq_total >= ctx.nof_freq_samples
    BY <1>1, Rr2FinalType
  <2>2. \/ /\ rr2.done # 0
           /\ out' = Rr2OutputPronto(ctx)
           /\ rr2' = Restarted(ctx)
        \/ /\ rr2.done = 0
           /\ out' = <<>>
           /\ UNCHANGED rr2
    BY DEF UsmProcessRaw2Tail, Restarted
  <2> HIDE DEF ctx
  <2>3. /\ Restarted(ctx) \in Rr2Ctx /\ Restarted(ctx).done = 0
        /\ Restarted(ctx).freq_total >= Restarted(ctx).nof_freq_samples
    <3>1. ctx \in Rr2Ctx /\ ctx.freq_total >= ctx.nof_freq_samples
      BY <2>1
    <3> QED BY <3>1, Rr2StartOverType
  <2>4. Rr2OutputPronto(ctx) \in Line /\ Rr2OutputPronto(ctx) # <<>>
    BY <2>1, Rr2OutputType
  <2>5. <<>> \in Line
    BY DEF Line
  <2> QED
    BY <1>1, <2>2, <2>3, <2>4, <2>5
<1>4. /\ pc' \in {"propagate", "runloop"}
      /\ pc' = "runloop" => out' = <<>>
  BY <1>1, AfterPassType DEF UsmProcessRaw2Tail
<1>5. UNCHANGED <<rr, mode, state, default_frequency, first>>
  BY DEF UsmProcessRaw2Tail
<1>6. LibTypeOK'
  BY <1>1, <1>2, <1>3, <1>4, <1>5 DEF LibInv, LibTypeOK, Positions
<1>7. PassInv'
  BY <1>1, <1>2, <1>3, <1>4, <1>5 DEF LibInv, PassInv
<1>8. AggEmptyWaiting'
  <2>1. CASE state = "USM_W_CODE"
    BY <1>5, <2>1 DEF AggEmptyWaiting
  <2>2. CASE state # "USM_W_CODE"
    <3>1. Len(agg) = 0 /\ n = 0
      BY <1>1, <2>2 DEF LibInv, AggEmptyWaiting
    <3>2. ParseConsumed(rr2.done, n) = 0
      BY <3>1 DEF ParseConsumed
    <3> QED
      BY <1>2, <3>1, <3>2, NoBytes DEF AggEmptyWaiting
  <2> QED
    BY <2>1, <2>2
<1>9. AggResidue'
  <2> SUFFICES ASSUME pc' = "runloop" PROVE Len(agg') <= 3
    BY <1>1, <1>5 DEF AggResidue, Residue
  <2>1. rr2.done = 0
    BY <1>3, <1>4
  <2>2. Left <= 3
    BY <1>1, <2>1 DEF UsmProcessRaw2Tail, Rr2LoopOver, LibInv, PassInv
  <2>3. ParseConsumed(rr2.done, n) = n
    BY <2>1 DEF ParseConsumed
  <2> QED
    BY <1>1, <1>2, <2>2, <2>3 DEF Left
<1> QED
  BY <1>6, <1>7, <1>8, <1>9 DEF LibInv

\* No step of the decoders breaks the invariant.
LEMMA UsmParseInv ==
    ASSUME LibInv, UsmParse
    PROVE  LibInv'
BY RrParseInv, Rr2ParseInv, RawTailInv, Raw2TailInv DEF UsmParse

(***************************************************************************)
(* The passes themselves, and the calls of the application.                *)
(***************************************************************************)

\* Bytes make a line.
LEMMA BytesAreLine == ASSUME NEW s \in Seq(Byte) PROVE s \in Line
<1>1. \A i \in 1 .. Len(s) : s[i] \in Nat
  BY ElementOfSeq, ByteIsNat
<1> QED
  BY <1>1, SeqDef DEF Line

\* There is room for a residue in every mode.
LEMMA ResidueType == mode \in Modes => Residue \in Nat
BY CodeLenAssumption DEF Modes, Residue

\* A pass that hands its input through, with nothing buffered.
LEMMA ThruInv ==
    ASSUME LibInv, pc \in {"runloop", "propagate"}, agg = <<>>,
           NEW isFirst \in BOOLEAN, NEW o \in Line,
           UsmProcessThru(isFirst, o), first' \in BOOLEAN,
           UNCHANGED default_frequency
    PROVE  LibInv'
<1>1. pc' \in {"propagate", "runloop"}
  BY AfterPassType DEF UsmProcessThru
<1>2. LibTypeOK'
  BY <1>1 DEF UsmProcessThru, LibInv, LibTypeOK, Positions, States
<1>3. PassInv'
  BY <1>1 DEF UsmProcessThru, LibInv, PassInv
<1>4. AggEmptyWaiting'
  BY DEF UsmProcessThru, AggEmptyWaiting
<1>5. AggResidue'
  <2>1. Len(agg') = 0
    BY DEF UsmProcessThru
  <2>2. Residue' = Residue
    BY DEF UsmProcessThru, Residue
  <2>3. Residue \in Nat
    BY ResidueType DEF LibInv, LibTypeOK
  <2> QED
    BY <2>1, <2>2, <2>3 DEF AggResidue
<1> QED
  BY <1>2, <1>3, <1>4, <1>5 DEF LibInv

\* A pass that takes a UIR code out of the buffer a, if there is one.
LEMMA UirInv ==
    ASSUME LibInv, pc \in {"runloop", "propagate"}, mode = "USM_M_UIR",
           NEW isFirst \in BOOLEAN, NEW a \in Seq(Byte),
           state # "USM_W_CODE" => a = <<>>,
           UsmProcessUir(isFirst, a), first' \in BOOLEAN,
           UNCHANGED default_frequency
    PROVE  LibInv'
<1> DEFINE L == UIRT_UIR_CODE_LEN
<1>1. /\ L \in Nat \ {0} /\ Len(a) \in Nat
      /\ n = 0 /\ rr.done = 0 /\ rr2.done = 0
  BY CodeLenAssumption DEF LibInv, PassInv
<1>2. /\ pc' \in {"propagate", "runloop"}
      /\ pc' = "runloop" => out' = <<>>
  BY AfterPassType DEF UsmProcessUir
<1>3. UNCHANGED <<n, rr, rr2, mode, state>>
  BY DEF UsmProcessUir
<1>4. /\ agg' \in Seq(Byte) /\ out' \in Line
      /\ out' = <<>> => Len(agg') <= L - 1
      /\ a = <<>> => agg' = <<>>
  <2>1. CASE Len(a) >= L
    <3>1. /\ out' = SubSeq(a, 1, L)
          /\ agg' = SubSeq(a, L + 1, Len(a))
      BY <1>1, <2>1 DEF UsmProcessUir
    <3>2. out' \in Seq(Byte) /\ Len(out') = L
      BY <1>1, <2>1, <3>1, SubSeqProperties
    <3>3. agg' \in Seq(Byte)
      BY <1>1, <2>1, <3>1, SubSeqProperties
    <3>4. out' # <<>>
      BY <1>1, <3>2
    <3>5. a # <<>>
      BY <1>1, <2>1
    <3>6. out' \in Line
      BY <3>2, BytesAreLine
    <3> QED
      BY <3>3, <3>4, <3>5, <3>6
  <2>2. CASE Len(a) < L
    <3>1. out' = <<>> /\ agg' = a
      BY <1>1, <2>2 DEF UsmProcessUir
    <3> QED
      BY <1>1, <2>2, <3>1 DEF Line
  <2> QED
    BY <1>1, <2>1, <2>2
<1>5. LibTypeOK'
  <2>1. n' \in 0 .. Len(agg')
    BY <1>1, <1>3, <1>4
  <2>2. /\ rr \in RrCtx /\ rr2 \in Rr2Ctx /\ mode \in Modes
        /\ state \in States /\ default_frequency \in Nat
    BY DEF LibInv, LibTypeOK
  <2>3. pc' \in Positions
    BY <1>2 DEF Positions
  <2> QED
    BY <1>3, <1>4, <2>1, <2>2, <2>3 DEF LibTypeOK
<1>6. PassInv'
  BY <1>1, <1>2, <1>3 DEF LibInv, PassInv
<1>7. AggEmptyWaiting'
  BY <1>3, <1>4 DEF AggEmptyWaiting
<1>8. AggResidue'
  BY <1>2, <1>3, <1>4 DEF AggResidue, Residue
<1> QED
  BY <1>5, <1>6, <1>7, <1>8 DEF LibInv

\* The entry of a parse loop on the buffer a.
LEMMA EnterParseInv ==
    ASSUME LibInv, pc \in {"runloop", "propagate"},
           NEW a \in Seq(Byte), state # "USM_W_CODE" => a = <<>>,
           NEW loop,
           \/ mode = "USM_M_RAW" /\ loop = "rr_parse"
           \/ mode = "USM_M_RAW2" /\ loop = "rr2_parse",
           UsmEnterParse(a, loop), first' \in BOOLEAN,
           UNCHANGED default_frequency
    PROVE  LibInv'
<1>1. /\ agg' = a /\ n' = 0 /\ pc' = loop /\ loop \in {"rr_parse", "rr2_parse"}
      /\ UNCHANGED <<out, rr, rr2, mode, state>>
  BY DEF UsmEnterParse
<1>2. LibTypeOK'
  BY <1>1 DEF LibInv, LibTypeOK, Positions
<1>3. PassInv'
  BY <1>1 DEF LibInv, PassInv
<1>4. AggEmptyWaiting' /\ AggResidue'
  BY <1>1 DEF AggEmptyWaiting, AggResidue
<1> QED
  BY <1>2, <1>3, <1>4 DEF LibInv

\* usm_process_uirt keeps the invariant, for any bytes from the device.
LEMMA UsmProcessUirtInv ==
    ASSUME LibInv, pc = "runloop", NEW in \in Seq(Byte), UsmProcessUirt(in)
    PROVE  LibInv'
<1> DEFINE a == BufAppend(agg, in, USM_AGG_MAX)
<1>1. /\ agg \in Seq(Byte) /\ mode \in Modes
      /\ first' \in BOOLEAN /\ UNCHANGED default_frequency
  BY DEF LibInv, LibTypeOK, UsmProcessUirt
<1>2. a \in Seq(Byte)
  BY <1>1, BuffersAssumption, BufAppendType
<1>3. \/ /\ state # "USM_W_CODE" \/ mode = "USM_M_ECHO"
         /\ UsmProcessThru(TRUE, in)
      \/ /\ state = "USM_W_CODE"
         /\ \/ mode = "USM_M_UIR"  /\ UsmProcessUir(TRUE, a)
            \/ mode = "USM_M_RAW"  /\ UsmEnterParse(a, "rr_parse")
            \/ mode = "USM_M_RAW2" /\ UsmEnterParse(a, "rr2_parse")
  BY DEF UsmProcessUirt
<1> HIDE DEF a
<1>4. CASE /\ state # "USM_W_CODE" \/ mode = "USM_M_ECHO"
           /\ UsmProcessThru(TRUE, in)
  <2>1. agg = <<>>
    BY <1>4 DEF LibInv, AggEmptyWaiting, PassInv
  <2>2. in \in Line
    BY BytesAreLine
  <2> QED
    BY <1>1, <1>4, <2>1, <2>2, ThruInv
<1>5. CASE state = "USM_W_CODE" /\ mode = "USM_M_UIR" /\ UsmProcessUir(TRUE, a)
  BY <1>1, <1>2, <1>5, UirInv
<1>6. CASE state = "USM_W_CODE" /\ mode = "USM_M_RAW" /\ UsmEnterParse(a, "rr_parse")
  BY <1>1, <1>2, <1>6, EnterParseInv
<1>7. CASE state = "USM_W_CODE" /\ mode = "USM_M_RAW2" /\ UsmEnterParse(a, "rr2_parse")
  BY <1>1, <1>2, <1>7, EnterParseInv
<1> QED
  BY <1>3, <1>4, <1>5, <1>6, <1>7

\* So does usm_process_uirt_more.
LEMMA UsmProcessUirtMoreInv ==
    ASSUME LibInv, pc = "propagate", UsmProcessUirtMore
    PROVE  LibInv'
<1>1. /\ agg \in Seq(Byte) /\ out \in Line
      /\ state # "USM_W_CODE" => agg = <<>>
      /\ mode = "USM_M_ECHO" => agg = <<>>
      /\ first' \in BOOLEAN /\ UNCHANGED default_frequency
  BY DEF LibInv, LibTypeOK, AggEmptyWaiting, PassInv, UsmProcessUirtMore
<1>2. CASE mode = "USM_M_ECHO" /\ UsmProcessThru(FALSE, out)
  BY <1>1, <1>2, ThruInv
<1>3. CASE mode = "USM_M_UIR" /\ UsmProcessUir(FALSE, agg)
  BY <1>1, <1>3, UirInv
<1>4. CASE mode = "USM_M_RAW" /\ UsmEnterParse(agg, "rr_parse")
  BY <1>1, <1>4, EnterParseInv
<1>5. CASE mode = "USM_M_RAW2" /\ UsmEnterParse(agg, "rr2_parse")
  BY <1>1, <1>5, EnterParseInv
<1> QED
  BY <1>2, <1>3, <1>4, <1>5 DEF UsmProcessUirtMore

\* A command of the user empties the buffer and starts the decoders over.
LEMMA UsmProcessUserInv ==
    ASSUME LibInv, pc = "runloop", NEW c, UsmProcessUser(c),
           UNCHANGED callbackVars
    PROVE  LibInv'
<1>1. /\ agg' = <<>> /\ n = 0 /\ UNCHANGED <<pc, first, n, out, default_frequency>>
      /\ rr' = RrZero \/ rr' = rr
      /\ rr2' = Rr2Zero \/ rr2' = rr2
  BY DEF UsmProcessUser, UserSwitch, callbackVars, LibInv, PassInv
<1>2. mode' \in Modes /\ state' \in States
  BY DEF UsmProcessUser, UserSwitch, ModeAfter, Modes, States, LibInv, LibTypeOK
<1>3. /\ RrZero \in RrCtx /\ RrZero.done = 0
      /\ Rr2Zero \in Rr2Ctx /\ Rr2Zero.done = 0
      /\ Rr2Zero.freq_total >= Rr2Zero.nof_freq_samples
  BY DEF RrZero, RrCtx, DefaultRrFrequency, Rr2Zero, Rr2Ctx, DecoderStates
<1>4. LibTypeOK'
  BY <1>1, <1>2, <1>3 DEF LibInv, LibTypeOK
<1>5. PassInv'
  BY <1>1, <1>3 DEF LibInv, PassInv
<1>6. AggEmptyWaiting'
  BY <1>1 DEF AggEmptyWaiting
<1>7. AggResidue'
  <2>1. Residue' \in Nat
    BY <1>2, CodeLenAssumption DEF Modes, Residue
  <2> QED
    BY <1>1, <2>1 DEF AggResidue
<1> QED
  BY <1>4, <1>5, <1>6, <1>7 DEF LibInv

\* What the library does not touch does not matter.
LEMMA LibUnchangedInv ==
    ASSUME LibInv, UNCHANGED <<usmVars, callbackVars>>
    PROVE  LibInv'
<1>1. UNCHANGED <<agg, n, pc, rr, rr2, mode, state, default_frequency, first, out>>
  BY DEF usmVars, callbackVars
<1> QED
  BY <1>1 DEF LibInv, LibTypeOK, PassInv, AggEmptyWaiting, AggResidue, Residue, Left

(***************************************************************************)
(* The wire and the histories.                                             *)
(***************************************************************************)

\* What the device sends for the bytes of a token.
LEMMA TokenType ==
    ASSUME NEW kind \in {"reply", "code"}, NEW bytes \in Seq(Byte)
    PROVE  Token(kind, bytes) \in Seq(Cell)
<1> DEFINE cell(i) == [b |-> bytes[i], kind |-> kind, ends |-> i = Len(bytes)]
<1>1. Len(bytes) \in Nat /\ DOMAIN bytes = 1 .. Len(bytes)
  OBVIOUS
<1>2. ASSUME NEW i \in 1 .. Len(bytes)
      PROVE  cell(i) \in Cell
  <2>1. bytes[i] \in Byte
    BY ElementOfSeq
  <2>2. (i = Len(bytes)) \in BOOLEAN
    OBVIOUS
  <2> QED
    BY <2>1, <2>2 DEF Cell
<1>3. Token(kind, bytes) = [i \in DOMAIN bytes |-> cell(i)]
  BY DEF Token
<1> HIDE DEF cell
<1> QED
  BY <1>1, <1>2, <1>3

\* A reply is a few bytes.
LEMMA ReplyType == \A c : Reply(c) \in Seq(Byte)
<1>1. 1 \in Byte /\ 5 \in Byte /\ 130 \in Byte /\ 33 \in Byte
  BY SMT DEF Byte
<1>2. \A x, y \in Byte : <<x>> \in Seq(Byte) /\ <<x, y>> \in Seq(Byte)
  OBVIOUS
<1>3. <<1, 5>> \in Seq(Byte) /\ <<130>> \in Seq(Byte) /\ <<33>> \in Seq(Byte)
  BY <1>1, <1>2
<1> QED
  BY <1>3 DEF Reply

\* The lines a code should be shown as are lines.
LEMMA LinesType ==
    ASSUME NEW code \in IrCodes, NEW f \in Nat
    PROVE  Lines(code, f) \in Seq(Line)
<1>1. /\ code.mode \in Modes \ {"USM_M_ECHO"} /\ code.cells \in Seq(Cell)
      /\ code.bursts \in Seq(Burst)
      /\ Len(code.bursts) \in Nat
      /\ DOMAIN code.bursts = 1 .. Len(code.bursts)
  BY DeviceAssumption
<1>2. ASSUME NEW j \in 1 .. Len(code.bursts)
      PROVE  /\ code.bursts[j].freq \in Nat \ {0}
             /\ code.bursts[j].pulse \in Seq(Nat)
             /\ code.bursts[j].space \in Seq(Nat)
  <2>1. code.bursts[j] \in Burst
    BY <1>1, ElementOfSeq
  <2> QED
    BY <2>1 DEF Burst
<1>3. CASE code.mode = "USM_M_UIR"
  <2> DEFINE bytes == [i \in DOMAIN code.cells |-> code.cells[i].b]
  <2>1. DOMAIN code.cells = 1 .. Len(code.cells) /\ Len(code.cells) \in Nat
    BY <1>1
  <2>2. ASSUME NEW i \in 1 .. Len(code.cells)
        PROVE  code.cells[i].b \in Byte
    <3>1. code.cells[i] \in Cell
      BY <1>1, ElementOfSeq
    <3> QED
      BY <3>1 DEF Cell
  <2>3. bytes \in Seq(Byte)
    BY <2>1, <2>2
  <2>4. bytes \in Line
    BY <2>3, BytesAreLine
  <2>5. Lines(code, f) = <<bytes>>
    BY <1>3 DEF Lines
  <2> HIDE DEF bytes
  <2> QED
    BY <2>4, <2>5
<1>4. CASE code.mode = "USM_M_RAW"
  <2> DEFINE k == 78000
             g == IF f = 0 THEN DefaultRrFrequency ELSE f
             line(j) == ProntoWords(k, g, code.bursts[j].pulse, code.bursts[j].space)
  <2>1. k \in Nat /\ g \in Nat \ {0}
    BY SMT DEF DefaultRrFrequency
  <2>2. Lines(code, f) = [j \in DOMAIN code.bursts |-> line(j)]
    BY <1>4 DEF Lines
  <2> HIDE DEF k, g
  <2>3. \A j \in 1 .. Len(code.bursts) : line(j) \in Line
    BY <1>2, <2>1, ProntoWordsType DEF Line
  <2> HIDE DEF line
  <2> QED
    BY <1>1, <2>2, <2>3
<1>5. CASE code.mode = "USM_M_RAW2"
  <2> DEFINE k == 560
             line(j) == ProntoWords(k, code.bursts[j].freq,
                                    code.bursts[j].pulse, code.bursts[j].space)
  <2>1. k \in Nat
    BY SMT
  <2>2. Lines(code, f) = [j \in DOMAIN code.bursts |-> line(j)]
    BY <1>5 DEF Lines
  <2> HIDE DEF k
  <2>3. \A j \in 1 .. Len(code.bursts) : line(j) \in Line
    BY <1>2, <2>1, ProntoWordsType DEF Line
  <2> HIDE DEF line
  <2> QED
    BY <1>1, <2>2, <2>3
<1> QED
  BY <1>1, <1>3, <1>4, <1>5 DEF Modes

\* The parts of LinkTypeOK a read, an answer or a code change.
LEMMA ReadType ==
    ASSUME wire \in Seq(Cell), NEW k \in 1 .. Len(wire)
    PROVE  /\ [i \in 1 .. k |-> wire[i].b] \in Seq(Byte)
           /\ SubSeq(wire, k + 1, Len(wire)) \in Seq(Cell)
<1>1. k \in Nat /\ Len(wire) \in Nat
  OBVIOUS
<1>2. ASSUME NEW i \in 1 .. k PROVE wire[i].b \in Byte
  <2>1. wire[i] \in Cell
    BY <1>1, ElementOfSeq
  <2> QED
    BY <2>1 DEF Cell
<1>3. [i \in 1 .. k |-> wire[i].b] \in Seq(Byte)
  BY <1>1, <1>2
<1>4. SubSeq(wire, k + 1, Len(wire)) \in Seq(Cell)
  <2>1. CASE k = Len(wire)
    BY <2>1, SubSeqProperties
  <2>2. CASE k < Len(wire)
    BY <2>2, SubSeqProperties
  <2> QED
    BY <2>1, <2>2
<1> QED
  BY <1>3, <1>4

\* What the device does keeps the wire and the histories typed.
LEMMA DeviceType ==
    ASSUME LinkTypeOK, default_frequency \in Nat, DeviceAnswer \/ DeviceCode
    PROVE  /\ toDev' \in Seq(Byte) /\ wire' \in Seq(Cell)
           /\ devMode' \in Modes /\ nCodes' \in Nat
           /\ expected' \in Seq(Line)
<1>0. /\ toDev \in Seq(Byte) /\ wire \in Seq(Cell) /\ devMode \in Modes
      /\ nCodes \in Nat /\ expected \in Seq(Line)
  BY DEF LinkTypeOK
<1>1. CASE DeviceAnswer
  <2> DEFINE reply == Reply(Head(toDev))
             token == Token("reply", reply)
  <2>1. reply \in Seq(Byte)
    BY ReplyType
  <2>2. /\ wire' = wire \o token /\ expected' = Append(expected, reply)
        /\ toDev # <<>> /\ toDev' = Tail(toDev) /\ nCodes' = nCodes
    BY <1>1 DEF DeviceAnswer
  <2>3. devMode' \in Modes
    BY <1>0, <1>1 DEF DeviceAnswer, Modes
  <2> HIDE DEF reply
  <2>4. token \in Seq(Cell)
    BY <2>1, TokenType
  <2>5. reply \in Line
    BY <2>1, BytesAreLine
  <2> HIDE DEF token
  <2>6. Tail(toDev) \in Seq(Byte)
    BY <1>0, <2>2
  <2>7. Append(expected, reply) \in Seq(Line)
    BY <1>0, <2>5
  <2>8. wire \o token \in Seq(Cell)
    BY <1>0, <2>4
  <2> QED
    BY <1>0, <2>2, <2>3, <2>6, <2>7, <2>8
<1>2. CASE DeviceCode
  <2>1. PICK code \in IrCodes :
          /\ wire' = wire \o code.cells
          /\ expected' = expected \o Lines(code, default_frequency)
    BY <1>2 DEF DeviceCode
  <2>2. code.cells \in Seq(Cell)
    BY DeviceAssumption
  <2>3. Lines(code, default_frequency) \in Seq(Line)
    BY LinesType
  <2>4. wire \o code.cells \in Seq(Cell)
    BY <1>0, <2>2
  <2>5. expected \o Lines(code, default_frequency) \in Seq(Line)
    BY <1>0, <2>3
  <2>6. nCodes' = nCodes + 1 /\ UNCHANGED <<toDev, devMode>>
    BY <1>2 DEF DeviceCode
  <2> QED
    BY <1>0, <2>1, <2>4, <2>5, <2>6
<1> QED
  BY <1>1, <1>2

\* A line given to the application keeps the history a history.
LEMMA ShowLineType ==
    ASSUME shown \in Seq(Line), NEW line \in Line, ShowLine(line)
    PROVE  shown' \in Seq(Line)
<1>1. Append(shown, line) \in Seq(Line)
  OBVIOUS
<1> QED
  BY <1>1 DEF ShowLine

(***************************************************************************)
(* The induction: one lemma per action of Next.                            *)
(***************************************************************************)

\* The initial state.
LEMMA InitInv == Init => RibsuInv
<1> SUFFICES ASSUME Init PROVE RibsuInv
  OBVIOUS
<1>1. /\ RrZero \in RrCtx /\ RrZero.done = 0
      /\ Rr2Zero \in Rr2Ctx /\ Rr2Zero.done = 0
      /\ Rr2Zero.freq_total >= Rr2Zero.nof_freq_samples
  BY DEF RrZero, RrCtx, DefaultRrFrequency, Rr2Zero, Rr2Ctx, DecoderStates
<1>2. LibTypeOK
  <2>1. /\ <<>> \in Seq(Byte) /\ Len(<<>>) = 0 /\ 0 \in 0 .. 0
        /\ <<>> \in Line
    BY DEF Line
  <2>2. /\ "runloop" \in Positions /\ "USM_M_UIR" \in Modes
        /\ "USM_W_CODE" \in States
    BY DEF Positions, Modes, States
  <2> QED
    BY <1>1, <2>1, <2>2 DEF Init, UsmInit, LibTypeOK
<1>3. PassInv
  BY <1>1 DEF Init, UsmInit, PassInv
<1>4. AggEmptyWaiting
  BY DEF Init, UsmInit, AggEmptyWaiting
<1>5. AggResidue
  BY CodeLenAssumption DEF Init, UsmInit, AggResidue, Residue
<1>6. LinkTypeOK
  BY DEF Init, DeviceInit, LinkTypeOK, Modes
<1> QED
  BY <1>2, <1>3, <1>4, <1>5, <1>6 DEF RibsuInv, LibInv

\* ribsu_write.
LEMMA RibsuWriteInv == ASSUME RibsuInv, RibsuWrite PROVE RibsuInv'
<1>1. /\ LibInv /\ toDev \in Seq(Byte) /\ pc = "runloop"
      /\ UNCHANGED <<callbackVars, wire, devMode, nCodes, expected, interp, shown>>
      /\ nCmds \in Nat /\ nCmds' = nCmds + 1
  BY DEF RibsuInv, LinkTypeOK, RibsuWrite, Call
<1>2. PICK c \in Commands :
        \/ UNCHANGED <<usmVars, toDev>>
        \/ /\ UsmProcessUser(c) \/ UNCHANGED usmVars
           /\ toDev' = Append(toDev, CommandSent(c)) \/ toDev' = Append(toDev, c)
              \/ UNCHANGED toDev
  BY DEF RibsuWrite
<1>3. c \in Byte /\ CommandSent(c) \in Byte
  <2>1. UIRT_CMD_TX_RAW \in Byte
    BY SMT DEF UIRT_CMD_TX_RAW, Byte
  <2>2. c \in Byte
    BY RibsuAssumption
  <2> QED
    BY <2>1, <2>2 DEF CommandSent
<1>4. toDev' \in Seq(Byte)
  <2>1. Append(toDev, c) \in Seq(Byte) /\ Append(toDev, CommandSent(c)) \in Seq(Byte)
    BY <1>1, <1>3
  <2> QED
    BY <1>1, <1>2, <2>1
<1>5. LibInv'
  <2>1. CASE UsmProcessUser(c)
    BY <1>1, <2>1, UsmProcessUserInv
  <2>2. CASE UNCHANGED usmVars
    BY <1>1, <2>2, LibUnchangedInv
  <2> QED
    BY <1>2, <2>1, <2>2
<1>6. nCmds' \in Nat
  BY <1>1
<1> QED
  BY <1>1, <1>4, <1>5, <1>6 DEF RibsuInv, LinkTypeOK

\* ribsu_toggle_interpretation and ribsu_set_default_frequency.
LEMMA SettingInv ==
    ASSUME RibsuInv, RibsuToggleInterpretation \/ RibsuSetDefaultFrequency
    PROVE  RibsuInv'
<1>1. /\ LibInv /\ LinkTypeOK /\ nCmds' \in Nat
      /\ UNCHANGED <<callbackVars, deviceVars, shown>>
  BY DEF RibsuInv, LinkTypeOK, RibsuToggleInterpretation,
         RibsuSetDefaultFrequency, Call
<1>2. interp' \in BOOLEAN
  BY <1>1 DEF RibsuToggleInterpretation, RibsuSetDefaultFrequency, LinkTypeOK
<1>3. LinkTypeOK'
  BY <1>1, <1>2 DEF LinkTypeOK, deviceVars
<1>4. LibInv'
  <2>1. CASE RibsuToggleInterpretation
    BY <1>1, <2>1, LibUnchangedInv DEF RibsuToggleInterpretation
  <2>2. CASE RibsuSetDefaultFrequency
    <3>1. default_frequency' \in Nat
      BY <2>2, RibsuAssumption DEF RibsuSetDefaultFrequency
    <3>2. UNCHANGED <<agg, n, pc, rr, rr2, mode, state, first, out>>
      BY <2>2 DEF RibsuSetDefaultFrequency, callbackVars
    <3> QED
      BY <1>1, <3>1, <3>2
      DEF LibInv, LibTypeOK, PassInv, AggEmptyWaiting, AggResidue, Residue, Left
  <2> QED
    BY <2>1, <2>2
<1> QED
  BY <1>3, <1>4 DEF RibsuInv

\* A read and the beginning of ribsu_callback.
LEMMA DriverReadInv == ASSUME RibsuInv, DriverRead PROVE RibsuInv'
<1>1. /\ LibInv /\ LinkTypeOK /\ pc = "runloop"
      /\ wire \in Seq(Cell) /\ shown \in Seq(Line)
      /\ UNCHANGED <<toDev, devMode, nCodes, expected, interp, nCmds>>
  BY DEF RibsuInv, LinkTypeOK, DriverRead
<1>2. PICK k \in 1 .. MaxRead :
        /\ k <= Len(wire)
        /\ RibsuCallback([i \in 1 .. k |-> wire[i].b])
        /\ wire' = SubSeq(wire, k + 1, Len(wire))
  BY DEF DriverRead
<1> DEFINE buf == [i \in 1 .. k |-> wire[i].b]
<1>3. k \in 1 .. Len(wire)
  BY <1>1, <1>2, RibsuAssumption
<1>4. buf \in Seq(Byte) /\ wire' \in Seq(Cell)
  BY <1>1, <1>2, <1>3, ReadType
<1>5. RibsuCallback(buf)
  BY <1>2
<1> HIDE DEF buf
<1>6. shown' \in Seq(Line)
  BY <1>1, <1>4, <1>5, ShowLineType, BytesAreLine DEF RibsuCallback
<1>7. LibInv'
  <2>1. CASE UNCHANGED <<usmVars, callbackVars>>
    BY <1>1, <2>1, LibUnchangedInv
  <2>2. CASE UsmProcessUirt(buf)
    BY <1>1, <1>4, <2>2, UsmProcessUirtInv
  <2> QED
    BY <1>5, <2>1, <2>2 DEF RibsuCallback
<1> QED
  BY <1>1, <1>4, <1>6, <1>7 DEF RibsuInv, LinkTypeOK

\* The rest of a callback.
LEMMA CallbackInv == ASSUME RibsuInv, Callback PROVE RibsuInv'
<1>1. /\ LibInv /\ LinkTypeOK /\ shown \in Seq(Line) /\ out \in Line
      /\ UNCHANGED <<deviceVars, interp, nCmds>>
  BY DEF RibsuInv, LinkTypeOK, LibInv, LibTypeOK, Callback, Propagate, Parse
<1>2. shown' \in Seq(Line)
  BY <1>1, ShowLineType DEF Callback, Propagate, Parse
<1>3. LibInv'
  BY <1>1, UsmProcessUirtMoreInv, UsmParseInv DEF Callback, Propagate, Parse
<1> QED
  BY <1>1, <1>2, <1>3 DEF RibsuInv, LinkTypeOK, deviceVars

\* The device.
LEMMA DeviceInv == ASSUME RibsuInv, Device PROVE RibsuInv'
<1>1. /\ LibInv /\ LinkTypeOK /\ default_frequency \in Nat
      /\ DeviceAnswer \/ DeviceCode
      /\ UNCHANGED <<usmVars, callbackVars, interp, shown, nCmds>>
  BY DEF RibsuInv, LibInv, LibTypeOK, Device
<1>2. LibInv'
  BY <1>1, LibUnchangedInv
<1> QED
  BY <1>1, <1>2, DeviceType DEF RibsuInv, LinkTypeOK

\* A step that changes nothing.
LEMMA StutterInv == ASSUME RibsuInv, UNCHANGED vars PROVE RibsuInv'
<1>1. UNCHANGED <<usmVars, callbackVars, deviceVars, interp, shown, nCmds>>
  BY DEF vars
<1>2. LibInv'
  BY <1>1, LibUnchangedInv DEF RibsuInv
<1> QED
  BY <1>1, <1>2 DEF RibsuInv, LinkTypeOK, deviceVars

\* RibsuInv is inductive: whatever the bytes from the device, however they
\* are cut into reads, and whatever the application calls in between.
THEOREM RibsuInvariant == Spec => []RibsuInv
<1>1. Init => RibsuInv
  BY InitInv
<1>2. RibsuInv /\ [Next]_vars => RibsuInv'
  <2> SUFFICES ASSUME RibsuInv, [Next]_vars PROVE RibsuInv'
    OBVIOUS
  <2>1. CASE RibsuWrite
    BY <2>1, RibsuWriteInv
  <2>2. CASE RibsuToggleInterpretation \/ RibsuSetDefaultFrequency
    BY <2>2, SettingInv
  <2>3. CASE DriverRead
    BY <2>3, DriverReadInv
  <2>4. CASE Callback
    BY <2>4, CallbackInv
  <2>5. CASE Device
    BY <2>5, DeviceInv
  <2>6. CASE UNCHANGED vars
    BY <2>6, StutterInv
  <2> QED
    BY <2>1, <2>2, <2>3, <2>4, <2>5, <2>6 DEF Next, Waiting, Undefined
<1> QED
  BY <1>1, <1>2, PTL DEF Spec

\* Every variable keeps its type; in particular a decoder never looks past
\* the bytes it has (n <= Len(agg)), whatever the device sends.
THEOREM TypesHold == Spec => []TypeOK
<1>1. RibsuInv => TypeOK
  BY DEF RibsuInv, LibInv, TypeOK
<1> QED
  BY <1>1, RibsuInvariant, PTL

\* Between callbacks less than a code (UIR) or a token (RAW, RAW2) is kept.
THEOREM ResidueHolds == Spec => []AggResidue
<1>1. RibsuInv => AggResidue
  BY DEF RibsuInv, LibInv
<1> QED
  BY <1>1, RibsuInvariant, PTL

\* Between callbacks there is room for a read.
LEMMA RoomForRead ==
    ASSUME MaxRead + UIRT_UIR_CODE_LEN - 1 <= USM_AGG_MAX, MaxRead + 3 <= USM_AGG_MAX,
           RibsuInv, pc = "runloop"
    PROVE  Len(agg) + MaxRead <= USM_AGG_MAX
<1>1. /\ agg \in Seq(Byte) /\ mode \in Modes /\ Len(agg) <= Residue
      /\ Len(agg) \in Nat
  BY DEF RibsuInv, LibInv, LibTypeOK, AggResidue
<1>2. /\ MaxRead \in Nat /\ USM_AGG_MAX \in Nat /\ UIRT_UIR_CODE_LEN \in Nat \ {0}
  BY RibsuAssumption, BuffersAssumption, CodeLenAssumption
<1>3. Residue + MaxRead <= USM_AGG_MAX /\ Residue \in Nat
  BY <1>1, <1>2 DEF Residue, Modes
<1> QED BY <1>1, <1>2, <1>3

\* buf_append never refuses the bytes of a read when agg has room for a read
\* and the longest residue: 512 + 5 bytes of 4096 in the code (uirt-sm.h:14).
THEOREM AggHasRoom ==
    ASSUME MaxRead + UIRT_UIR_CODE_LEN - 1 <= USM_AGG_MAX,
           MaxRead + 3 <= USM_AGG_MAX
    PROVE  Spec => []AggRoom
<1>1. RibsuInv => AggRoom
  BY RoomForRead DEF AggRoom
<1> QED
  BY <1>1, RibsuInvariant, PTL

(***************************************************************************)
(* The pairs of a RAW code and the loop of ribsu_callback.                 *)
(***************************************************************************)

\* Where the RAW decoder is, its tables have a space for every pulse, but for
\* the last one where a space is due.
RrPairs ==
    /\ rr.state = "DDS_INTERSPACE" => rr.pulse = <<>> /\ rr.space = <<>>
    /\ rr.state = "DDS_PULSE" /\ rr.done = 0 => Len(rr.pulse) = Len(rr.space)
    /\ rr.state = "DDS_SPACE" => Len(rr.pulse) = Len(rr.space) + 1
    /\ rr.done # 0 => Len(rr.pulse) = Len(rr.space) + 1

\* A line that was not the answer to a command came from a decoder that has
\* started over; after such an answer nothing is buffered.
StartsOver ==
    pc = "propagate" /\ out # <<>> =>
        \/ agg = <<>>
        \/ mode = "USM_M_UIR"
        \/ mode = "USM_M_RAW" /\ rr.state = "DDS_INIT"
        \/ mode = "USM_M_RAW2" /\ rr2.state = "DDS_INIT"

\* A decoder that has started over in this pass has taken an interspace, a
\* pulse and a space when it is that far.
TakenBy(ctx) ==
    /\ ctx.state = "DDS_PULSE" => n >= 2
    /\ ctx.state = "DDS_SPACE" => n >= 3
    /\ ctx.done # 0 => n >= 4

PassTakes ==
    ~first /\ out # <<>> =>
        /\ pc = "rr_parse" => (Left = 0 /\ rr.done = 0) \/ TakenBy(rr)
        /\ pc = "rr2_parse" => (Left = 0 /\ rr2.done = 0) \/ TakenBy(rr2)

(***************************************************************************)
(* What a step of a decoder does to its context, as far as the tables have *)
(* to do with it.                                                          *)
(***************************************************************************)

\* The tables and the place in the code after a token, m bytes long.
Moves(ctx, ctxNew, s, t, m) ==
    /\ ctx.state = s /\ ctxNew.state = t
    /\ n' = n + m /\ pc' = pc

\* A table entry or the end of a code at a time.
RrMoves ==
    \/ /\ Moves(rr, rr', "DDS_INIT", "DDS_INTERSPACE", 0)
       /\ rr'.pulse = <<>> /\ rr'.space = <<>> /\ rr'.done = 0
    \/ /\ Moves(rr, rr', "DDS_INTERSPACE", "DDS_PULSE", 2)
       /\ rr'.pulse = rr.pulse /\ rr'.space = rr.space /\ rr'.done = 0
    \/ /\ Moves(rr, rr', "DDS_PULSE", "DDS_SPACE", 1)
       /\ Len(rr'.pulse) = Len(rr.pulse) + 1 /\ rr'.space = rr.space /\ rr'.done = 0
    \/ /\ Moves(rr, rr', "DDS_SPACE", "DDS_PULSE", 1)
       /\ rr'.pulse = rr.pulse /\ rr'.space = rr.space /\ rr'.done # 0
    \/ /\ Moves(rr, rr', "DDS_SPACE", "DDS_PULSE", 1)
       /\ rr'.pulse = rr.pulse /\ Len(rr'.space) = Len(rr.space) + 1 /\ rr'.done = 0
    \/ /\ rr.state = "DDS_INTERSPACE" /\ rr'.state = "DDS_PULSE" /\ pc' = "rr_tail"
       /\ rr'.pulse = rr.pulse /\ rr'.space = rr.space /\ rr'.done = 0
    \/ rr' = rr /\ pc' = "undefined"

\* One member more.
LEMMA OneMore ==
    ASSUME NEW s \in Seq(Nat), NEW t \in Nat
    PROVE  Len(Append(s, t)) = Len(s) + 1
OBVIOUS

\* The fields of a context of which two were written.
LEMMA RrFields ==
    ASSUME NEW ctx \in RrCtx, NEW v, NEW x
    PROVE  /\ LET c == [ctx EXCEPT !.state = x]
              IN  /\ c.state = x /\ c.pulse = ctx.pulse
                  /\ c.space = ctx.space /\ c.done = ctx.done
           /\ LET c == [[ctx EXCEPT !.interspace = v] EXCEPT !.state = x]
              IN  /\ c.state = x /\ c.pulse = ctx.pulse
                  /\ c.space = ctx.space /\ c.done = ctx.done
           /\ LET c == [[ctx EXCEPT !.pulse = v] EXCEPT !.state = x]
              IN  /\ c.state = x /\ c.pulse = v
                  /\ c.space = ctx.space /\ c.done = ctx.done
           /\ LET c == [[ctx EXCEPT !.space = v] EXCEPT !.state = x]
              IN  /\ c.state = x /\ c.pulse = ctx.pulse
                  /\ c.space = v /\ c.done = ctx.done
           /\ LET c == [[ctx EXCEPT !.done = v] EXCEPT !.state = x]
              IN  /\ c.state = x /\ c.pulse = ctx.pulse
                  /\ c.space = ctx.space /\ c.done = v
BY DEF RrCtx

\* These are all the steps of the RAW decoder.
LEMMA RrParseMoves ==
    ASSUME LibInv, RrParse
    PROVE  /\ RrMoves /\ rr.done = 0 /\ Left > 0 /\ pc = "rr_parse"
           /\ rr.state \in DecoderStates
<1>1. /\ rr \in RrCtx /\ rr.pulse \in Seq(Nat) /\ rr.space \in Seq(Nat)
      /\ agg \in Seq(Byte) /\ n \in 0 .. Len(agg) /\ rr.state \in DecoderStates
  BY DEF LibInv, LibTypeOK, RrCtx
<1>2. rr.done = 0 /\ Left > 0 /\ pc = "rr_parse"
  BY DEF RrParse, RrInit, RrInterspace, RrPulse, RrSpace, RrLoop
<1> SUFFICES RrMoves
  BY <1>1, <1>2
<1>4. CASE RrInit
  <2>1. /\ rr' = [RrZero EXCEPT !.state = "DDS_INTERSPACE"]
        /\ n' = n + 0 /\ pc' = pc /\ rr.state = "DDS_INIT"
    BY <1>4 DEF RrInit, RrLoop, RrTurn
  <2>2. /\ rr'.state = "DDS_INTERSPACE" /\ rr'.pulse = <<>>
        /\ rr'.space = <<>> /\ rr'.done = 0
    BY <2>1 DEF RrZero
  <2> QED BY <2>1, <2>2 DEF RrMoves, Moves
<1>5. CASE RrInterspace
  <2>1. CASE RrShort("DDS_PULSE")
    <3>1. rr' = [rr EXCEPT !.state = "DDS_PULSE"] /\ pc' = "rr_tail" /\ rr.state = "DDS_INTERSPACE"
      BY <1>5, <2>1 DEF RrInterspace, RrLoop, RrShort
    <3>2. /\ rr'.state = "DDS_PULSE" /\ rr'.pulse = rr.pulse /\ rr'.space = rr.space
          /\ rr'.done = rr.done
      BY <1>1, <3>1, RrFields
    <3> QED BY <1>2, <3>1, <3>2 DEF RrMoves
  <2>2. CASE RrTurn(2, [rr EXCEPT !.interspace = 256 * D(0) + D(1)], "DDS_PULSE")
    <3>1. /\ rr'.state = "DDS_PULSE" /\ rr'.pulse = rr.pulse /\ rr'.space = rr.space
          /\ rr'.done = rr.done
      BY <1>1, <2>2, RrFields DEF RrTurn
    <3> QED BY <1>2, <1>5, <2>2, <3>1 DEF RrInterspace, RrLoop, RrTurn, RrMoves, Moves
  <2> QED BY <1>5, <2>1, <2>2 DEF RrInterspace
<1>6. CASE RrPulse
  <2>1. CASE RrTurn(1, [rr EXCEPT !.pulse = Append(@, D(0))], "DDS_SPACE")
    <3>1. D(0) \in Nat
      BY <1>1, <1>2, ByteAt
    <3>2. /\ rr'.state = "DDS_SPACE" /\ rr'.pulse = Append(rr.pulse, D(0))
          /\ rr'.space = rr.space /\ rr'.done = rr.done
      BY <1>1, <2>1, RrFields DEF RrTurn
    <3>3. Len(rr'.pulse) = Len(rr.pulse) + 1
      BY <1>1, <3>1, <3>2, OneMore
    <3> QED BY <1>2, <1>6, <2>1, <3>2, <3>3 DEF RrPulse, RrLoop, RrTurn, RrMoves, Moves
  <2>2. CASE pc' = "undefined" /\ rr' = rr
    BY <2>2, Zenon DEF RrMoves
  <2> QED BY <1>6, <2>1, <2>2 DEF RrPulse
<1>7. CASE RrSpace
  <2>1. ASSUME NEW d \in {1, 2}, RrTurn(1, [rr EXCEPT !.done = d], "DDS_PULSE")
        PROVE  RrMoves
    <3>1. /\ rr'.state = "DDS_PULSE" /\ rr'.pulse = rr.pulse
          /\ rr'.space = rr.space /\ rr'.done = d
      BY <1>1, <2>1, RrFields DEF RrTurn
    <3> QED BY <1>2, <1>7, <2>1, <3>1 DEF RrSpace, RrLoop, RrTurn, RrMoves, Moves
  <2>2. CASE RrTurn(1, [rr EXCEPT !.space = Append(@, D(0))], "DDS_PULSE")
    <3>1. D(0) \in Nat
      BY <1>1, <1>2, ByteAt
    <3>2. /\ rr'.state = "DDS_PULSE" /\ rr'.space = Append(rr.space, D(0))
          /\ rr'.pulse = rr.pulse /\ rr'.done = rr.done
      BY <1>1, <2>2, RrFields DEF RrTurn
    <3>3. Len(rr'.space) = Len(rr.space) + 1
      BY <1>1, <3>1, <3>2, OneMore
    <3> QED BY <1>2, <1>7, <2>2, <3>2, <3>3 DEF RrSpace, RrLoop, RrTurn, RrMoves, Moves
  <2>3. CASE pc' = "undefined" /\ rr' = rr
    BY <2>3, Zenon DEF RrMoves
  <2> QED BY <1>7, <2>1, <2>2, <2>3 DEF RrSpace
<1> QED BY <1>1, <1>2, <1>4, <1>5, <1>6, <1>7 DEF RrParse

\* The context is not touched by anything but the decoder, the end of a code
\* and the command that chooses the mode.
LEMMA RrChanges ==
    ASSUME LibInv, [Next]_vars
    PROVE  \/ rr' = rr
           \/ RrParse
           \/ rr'.state = "DDS_INIT" /\ rr'.done = 0
<1>1. CASE UsmProcessRawTail
  <2> DEFINE ctx == RrSetFrequency(rr, default_frequency)
  <2>1. ctx \in RrCtx
    BY RrSetFrequencyType DEF LibInv, LibTypeOK
  <2>2. rr' = [ctx EXCEPT !.state = "DDS_INIT", !.done = 0] \/ rr' = rr
    BY <1>1 DEF UsmProcessRawTail
  <2> HIDE DEF ctx
  <2> QED BY <2>1, <2>2 DEF RrCtx
<1>2. CASE RibsuWrite
  <2>1. rr' = rr \/ rr' = RrZero
    BY <1>2 DEF RibsuWrite, UsmProcessUser, UserSwitch, usmVars
  <2> QED BY <2>1 DEF RrZero
<1>3. CASE DriverRead
  BY <1>3 DEF DriverRead, RibsuCallback, usmVars, UsmProcessUirt, UsmProcessThru,
              UsmProcessUir, UsmEnterParse
<1>4. CASE Callback
  <2>1. CASE Propagate
    BY <2>1 DEF Propagate, UsmProcessUirtMore, UsmProcessThru, UsmProcessUir, UsmEnterParse
  <2>2. CASE Parse
    BY <1>1, <2>2 DEF Parse, UsmParse, UsmProcessRaw2Tail
  <2> QED BY <1>4, <2>1, <2>2 DEF Callback
<1>5. CASE RibsuToggleInterpretation \/ RibsuSetDefaultFrequency \/ Device
           \/ Waiting \/ Undefined \/ UNCHANGED vars
  BY <1>5 DEF RibsuToggleInterpretation, RibsuSetDefaultFrequency, Device, Waiting,
              Undefined, vars, usmVars
<1> QED BY <1>2, <1>3, <1>4, <1>5 DEF Next

\* RrPairs is inductive.
LEMMA RrPairsKept == ASSUME LibInv, RrPairs, [Next]_vars PROVE RrPairs'
<1>1. CASE rr' = rr
  BY <1>1 DEF RrPairs
<1>2. CASE rr'.state = "DDS_INIT" /\ rr'.done = 0
  BY <1>2 DEF RrPairs
<1>3. CASE RrParse
  <2>1. RrMoves /\ rr.done = 0
    BY <1>3, RrParseMoves
  <2>2. Len(<<>>) = 0 /\ Len(rr.pulse) \in Nat /\ Len(rr.space) \in Nat
    BY DEF LibInv, LibTypeOK, RrCtx
  <2> QED BY <2>1, <2>2 DEF RrMoves, Moves, RrPairs
<1> QED BY <1>1, <1>2, <1>3, RrChanges

\* A finished RAW code has a space between every two of its pulses.
THEOREM RawPairedHolds == Spec => []RawPaired
<1>1. Init => RrPairs
  BY DEF Init, UsmInit, RrZero, RrPairs
<1>2. RibsuInv /\ RrPairs /\ [Next]_vars => RrPairs'
  BY RrPairsKept DEF RibsuInv
<1>3. RrPairs => RawPaired
  BY DEF RrPairs, RawPaired, Paired
<1> QED
  BY <1>1, <1>2, <1>3, RibsuInvariant, PTL DEF Spec

(***************************************************************************)
(* The loop of ribsu_callback: a pass that does not begin with new bytes   *)
(* and still ends in a line has used up bytes that were there.             *)
(***************************************************************************)

\* The same of the RAW2 decoder, as far as the loop has to do with it.
Rr2Moves ==
    \/ Moves(rr2, rr2', "DDS_INIT", "DDS_INTERSPACE", 0) /\ rr2'.done = 0
    \/ Moves(rr2, rr2', "DDS_INTERSPACE", "DDS_PULSE", 2) /\ rr2'.done = 0
    \/ \E m \in {3, 4} :
          Moves(rr2, rr2', "DDS_PULSE", "DDS_SPACE", m) /\ rr2'.done = 0
    \/ \E m \in {1, 2} : Moves(rr2, rr2', "DDS_SPACE", "DDS_PULSE", m)
    \/ pc' \in {"rr2_tail", "undefined"}

\* The fields of a context of which others were written.
LEMMA Rr2Fields ==
    ASSUME NEW ctx \in Rr2Ctx, NEW f, NEW k, NEW v, NEW x
    PROVE  /\ LET c == [[ctx EXCEPT !.interspace = v] EXCEPT !.state = x]
              IN  c.state = x /\ c.done = ctx.done
           /\ LET c == [[ctx EXCEPT !.freq_total = f, !.nof_freq_samples = k,
                                    !.pulse = v] EXCEPT !.state = x]
              IN  c.state = x /\ c.done = ctx.done
           /\ LET c == [[ctx EXCEPT !.space = v] EXCEPT !.state = x]
              IN  c.state = x /\ c.done = ctx.done
           /\ LET c == [[ctx EXCEPT !.done = v] EXCEPT !.state = x]
              IN  c.state = x
BY DEF Rr2Ctx

\* A pulse of m bytes.
LEMMA Rr2PulseMoves ==
    ASSUME rr2 \in Rr2Ctx, rr2.done = 0, rr2.state = "DDS_PULSE",
           NEW m \in {3, 4}, NEW p, NEW c, Rr2RecordPulse(m, p, c)
    PROVE  Rr2Moves
<1> DEFINE f == IF c = 0 THEN rr2.freq_total ELSE rr2.freq_total + SampleFrequency(p, c)
           k == IF c = 0 THEN rr2.nof_freq_samples ELSE rr2.nof_freq_samples + 1
           v == Append(rr2.pulse, p)
           new == [[rr2 EXCEPT !.freq_total = f, !.nof_freq_samples = k, !.pulse = v]
                    EXCEPT !.state = "DDS_SPACE"]
<1>1. \/ pc' = "undefined"
      \/ rr2' = new /\ n' = n + m /\ pc' = pc
  BY DEF Rr2RecordPulse, Rr2Undefined, Rr2Turn
<1>2. new.state = "DDS_SPACE" /\ new.done = 0
  <2> HIDE DEF f, k, v
  <2> QED BY Rr2Fields
<1> HIDE DEF new
<1> QED BY <1>1, <1>2 DEF Rr2Moves, Moves

\* These are all the steps of the RAW2 decoder.
LEMMA Rr2ParseMoves ==
    ASSUME LibInv, Rr2Parse
    PROVE  Rr2Moves /\ rr2.done = 0 /\ Left > 0 /\ pc = "rr2_parse"
<1>1. rr2 \in Rr2Ctx
  BY DEF LibInv, LibTypeOK
<1>2. rr2.done = 0 /\ Left > 0 /\ pc = "rr2_parse"
  BY DEF Rr2Parse, Rr2Init, Rr2Interspace, Rr2Pulse, Rr2Space, Rr2Loop
<1> SUFFICES Rr2Moves
  BY <1>2
<1>3. CASE Rr2Init
  <2>1. /\ rr2' = [Rr2Zero EXCEPT !.state = "DDS_INTERSPACE"]
        /\ n' = n + 0 /\ pc' = pc /\ rr2.state = "DDS_INIT"
    BY <1>3 DEF Rr2Init, Rr2Loop, Rr2Turn
  <2>2. rr2'.state = "DDS_INTERSPACE" /\ rr2'.done = 0
    BY <2>1 DEF Rr2Zero
  <2> QED BY <2>1, <2>2 DEF Rr2Moves, Moves
<1>4. CASE Rr2Interspace
  <2> DEFINE i == ((256 * D(0) + D(1)) * 500) \div 512
  <2>1. \/ Rr2Short("DDS_PULSE")
        \/ Rr2Turn(2, [rr2 EXCEPT !.interspace = i], "DDS_PULSE")
    BY <1>4 DEF Rr2Interspace
  <2> HIDE DEF i
  <2>2. CASE Rr2Turn(2, [rr2 EXCEPT !.interspace = i], "DDS_PULSE")
    <3>1. rr2'.state = "DDS_PULSE" /\ rr2'.done = rr2.done
      BY <1>1, <2>2, Rr2Fields DEF Rr2Turn
    <3> QED BY <1>2, <1>4, <2>2, <3>1 DEF Rr2Interspace, Rr2Loop, Rr2Turn, Rr2Moves, Moves
  <2> QED BY <2>1, <2>2 DEF Rr2Short, Rr2Moves
<1>5. CASE Rr2Pulse
  <2>1. rr2.state = "DDS_PULSE"
    BY <1>5 DEF Rr2Pulse, Rr2Loop
  <2>2. \/ Rr2Short("DDS_SPACE")
        \/ \E m \in {3, 4} : \E p, c : Rr2RecordPulse(m, p, c)
    BY <1>5, Zenon DEF Rr2Pulse
  <2> QED BY <1>1, <1>2, <2>1, <2>2, Rr2PulseMoves DEF Rr2Short, Rr2Moves
<1>6. CASE Rr2Space
  <2>1. rr2.state = "DDS_SPACE"
    BY <1>6 DEF Rr2Space, Rr2Loop
  <2> DEFINE s == 256 * D(0) + D(1)
  <2>2. \/ Rr2Short("DDS_PULSE") \/ Rr2Undefined
        \/ Rr2Turn(1, [rr2 EXCEPT !.done = 2], "DDS_PULSE")
        \/ Rr2Turn(2, [rr2 EXCEPT !.done = 1], "DDS_PULSE")
        \/ Rr2Turn(2, [rr2 EXCEPT !.space = Append(@, s)], "DDS_PULSE")
    BY <1>6 DEF Rr2Space
  <2> HIDE DEF s
  <2>3. ASSUME NEW m \in {1, 2}, NEW d, Rr2Turn(m, [rr2 EXCEPT !.done = d], "DDS_PULSE")
        PROVE  Rr2Moves
    <3>1. rr2'.state = "DDS_PULSE" /\ n' = n + m /\ pc' = pc
      BY <1>1, <2>3, Rr2Fields DEF Rr2Turn
    <3> QED BY <2>1, <3>1 DEF Rr2Moves, Moves
  <2>4. ASSUME Rr2Turn(2, [rr2 EXCEPT !.space = Append(@, s)], "DDS_PULSE")
        PROVE  Rr2Moves
    <3>1. rr2'.state = "DDS_PULSE" /\ n' = n + 2 /\ pc' = pc
      BY <1>1, <2>4, Rr2Fields DEF Rr2Turn
    <3> QED BY <2>1, <3>1 DEF Rr2Moves, Moves
  <2> QED BY <2>2, <2>3, <2>4 DEF Rr2Short, Rr2Undefined, Rr2Moves
<1> QED BY <1>3, <1>4, <1>5, <1>6 DEF Rr2Parse

\* The application, the device and a read either leave the callback alone or
\* begin it.
LEMMA OutsideCallback ==
    ASSUME [Next]_vars
    PROVE  \/ Callback
           \/ DriverRead
           \/ UNCHANGED <<pc, first, n, out>> /\ (UNCHANGED usmVars \/ pc = "runloop")
<1>1. CASE RibsuWrite \/ RibsuToggleInterpretation \/ RibsuSetDefaultFrequency
  BY <1>1 DEF RibsuWrite, RibsuToggleInterpretation, RibsuSetDefaultFrequency, Call,
              callbackVars
<1>2. CASE Device \/ Waiting \/ Undefined \/ UNCHANGED vars
  BY <1>2 DEF Device, Waiting, Undefined, vars, callbackVars
<1> QED BY <1>1, <1>2 DEF Next

\* After a line StartsOver holds.
LEMMA StartsOverKept ==
    ASSUME LibInv, StartsOver, [Next]_vars
    PROVE  StartsOver'
<1> SUFFICES ASSUME pc' = "propagate", out' # <<>>
             PROVE  \/ agg' = <<>>
                    \/ mode' = "USM_M_UIR"
                    \/ mode' = "USM_M_RAW" /\ rr'.state = "DDS_INIT"
                    \/ mode' = "USM_M_RAW2" /\ rr2'.state = "DDS_INIT"
  BY DEF StartsOver
<1>1. CASE UNCHANGED <<pc, first, n, out>> /\ (UNCHANGED usmVars \/ pc = "runloop")
  BY <1>1 DEF StartsOver, usmVars
<1>2. CASE DriverRead
  <2>1. /\ state # "USM_W_CODE" => agg = <<>>
        /\ mode = "USM_M_ECHO" => agg = <<>>
        /\ pc = "runloop"
    BY <1>2 DEF LibInv, AggEmptyWaiting, PassInv, DriverRead
  <2>2. PICK b : RibsuCallback(b)
    BY <1>2 DEF DriverRead
  <2>3. UsmProcessUirt(b)
    BY <2>1, <2>2 DEF RibsuCallback, callbackVars
  <2> QED BY <2>1, <2>3 DEF UsmProcessUirt, UsmProcessThru, UsmProcessUir, UsmEnterParse
<1>3. CASE Propagate
  <2>1. mode = "USM_M_ECHO" => agg = <<>>
    BY DEF LibInv, PassInv
  <2> QED BY <1>3, <2>1 DEF Propagate, UsmProcessUirtMore, UsmProcessThru,
                            UsmProcessUir, UsmEnterParse
<1>4. CASE RrParse \/ Rr2Parse
  BY <1>4, RrParseMoves, Rr2ParseMoves DEF RrMoves, Rr2Moves, Moves
<1>5. CASE UsmProcessRawTail
  <2> DEFINE ctx == RrSetFrequency(rr, default_frequency)
  <2>1. ctx \in RrCtx
    BY RrSetFrequencyType DEF LibInv, LibTypeOK
  <2>2. rr' = [ctx EXCEPT !.state = "DDS_INIT", !.done = 0]
    BY <1>5 DEF UsmProcessRawTail
  <2> HIDE DEF ctx
  <2>3. rr'.state = "DDS_INIT"
    BY <2>1, <2>2 DEF RrCtx
  <2>4. mode' = "USM_M_RAW"
    BY <1>5 DEF UsmProcessRawTail, RrLoopOver, LibInv, PassInv
  <2> QED BY <2>3, <2>4
<1>6. CASE UsmProcessRaw2Tail
  <2> DEFINE ctx == Rr2Final(rr2)
  <2>1. ctx \in Rr2Ctx
    BY Rr2FinalType DEF LibInv, LibTypeOK, PassInv
  <2>2. rr2' = [ctx EXCEPT !.state = "DDS_INIT", !.done = 0]
    BY <1>6 DEF UsmProcessRaw2Tail
  <2> HIDE DEF ctx
  <2>3. rr2'.state = "DDS_INIT"
    BY <2>1, <2>2 DEF Rr2Ctx
  <2>4. mode' = "USM_M_RAW2"
    BY <1>6 DEF UsmProcessRaw2Tail, Rr2LoopOver, LibInv, PassInv
  <2> QED BY <2>3, <2>4
<1>7. Callback => Propagate \/ RrParse \/ Rr2Parse \/ UsmProcessRawTail \/ UsmProcessRaw2Tail
  BY DEF Callback, Parse, UsmParse
<1> QED BY <1>1, <1>2, <1>3, <1>4, <1>5, <1>6, <1>7, OutsideCallback

\* PassTakes is inductive with it.
LEMMA PassTakesKept ==
    ASSUME LibInv, StartsOver, PassTakes, [Next]_vars
    PROVE  PassTakes'
<1>0. n \in Nat
  BY DEF LibInv, LibTypeOK
<1> SUFFICES ASSUME ~first', out' # <<>>
             PROVE  /\ pc' = "rr_parse" =>
                          (Left' = 0 /\ rr'.done = 0) \/ TakenBy(rr)'
                    /\ pc' = "rr2_parse" =>
                          (Left' = 0 /\ rr2'.done = 0) \/ TakenBy(rr2)'
  BY DEF PassTakes
<1>1. CASE UNCHANGED <<pc, first, n, out>> /\ (UNCHANGED usmVars \/ pc = "runloop")
  BY <1>1 DEF PassTakes, usmVars, Left, TakenBy
<1>2. CASE DriverRead
  <2>1. pc = "runloop"
    BY <1>2 DEF DriverRead
  <2>2. pc' = "runloop"
    BY <1>2, <2>1 DEF DriverRead, RibsuCallback, callbackVars, UsmProcessUirt
  <2> QED BY <2>2
<1>3. CASE Propagate
  <2>1. /\ pc = "propagate" /\ rr.done = 0 /\ rr2.done = 0
    BY <1>3 DEF Propagate, LibInv, PassInv
  <2>2. CASE mode = "USM_M_ECHO" \/ mode = "USM_M_UIR"
    <3>1. pc' \in {"propagate", "runloop"}
      BY <1>3, <2>2 DEF Propagate, UsmProcessUirtMore, UsmProcessThru, UsmProcessUir, AfterPass
    <3> QED BY <3>1
  <2>3. CASE mode = "USM_M_RAW" \/ mode = "USM_M_RAW2"
    <3>1. /\ agg' = agg /\ n' = 0 /\ UNCHANGED <<out, rr, rr2, mode>>
          /\ pc' = IF mode = "USM_M_RAW" THEN "rr_parse" ELSE "rr2_parse"
      BY <1>3, <2>3 DEF Propagate, UsmProcessUirtMore, UsmEnterParse
    <3>2. agg = <<>> => Left' = 0
      BY <3>1 DEF Left
    <3> QED BY <2>1, <2>3, <3>1, <3>2 DEF StartsOver, TakenBy
  <2> QED BY <1>3, <2>2, <2>3 DEF Propagate, UsmProcessUirtMore
<1>4. CASE Parse /\ RrParse
  <2>1. UNCHANGED <<first, out>>
    BY <1>4 DEF Parse, UsmParse, RrParse, RrInit, RrInterspace, RrPulse, RrSpace, RrLoop,
                Rr2Parse, Rr2Init, Rr2Interspace, Rr2Pulse, Rr2Space, Rr2Loop,
                UsmProcessRawTail, RrLoopOver, UsmProcessRaw2Tail, Rr2LoopOver
  <2>2. RrMoves /\ TakenBy(rr) /\ pc = "rr_parse"
    BY <1>4, <2>1, RrParseMoves DEF PassTakes
  <2> QED BY <1>0, <2>2 DEF RrMoves, Moves, TakenBy
<1>5. CASE Parse /\ Rr2Parse
  <2>1. UNCHANGED <<first, out>>
    BY <1>5 DEF Parse, UsmParse, RrParse, RrInit, RrInterspace, RrPulse, RrSpace, RrLoop,
                Rr2Parse, Rr2Init, Rr2Interspace, Rr2Pulse, Rr2Space, Rr2Loop,
                UsmProcessRawTail, RrLoopOver, UsmProcessRaw2Tail, Rr2LoopOver
  <2>2. Rr2Moves /\ TakenBy(rr2) /\ pc = "rr2_parse"
    BY <1>5, <2>1, Rr2ParseMoves DEF PassTakes
  <2> QED BY <1>0, <2>2 DEF Rr2Moves, Moves, TakenBy
<1>6. CASE UsmProcessRawTail \/ UsmProcessRaw2Tail
  <2>1. pc' \in {"propagate", "runloop"}
    BY <1>6 DEF UsmProcessRawTail, UsmProcessRaw2Tail, AfterPass
  <2> QED BY <2>1
<1>7. Callback => \/ Propagate
                  \/ Parse /\ RrParse
                  \/ Parse /\ Rr2Parse
                  \/ UsmProcessRawTail
                  \/ UsmProcessRaw2Tail
  BY DEF Callback, Parse, UsmParse
<1> QED BY <1>1, <1>2, <1>3, <1>4, <1>5, <1>6, <1>7, OutsideCallback

\* A turn of the loop uses up bytes.
LEMMA TurnUsesBytes ==
    ASSUME RibsuInv, StartsOver, PassTakes, Callback, mode # "USM_M_ECHO",
           out # <<>>, ~first', pc' = "propagate"
    PROVE  Len(agg') < Len(agg)
<1>1. /\ agg \in Seq(Byte) /\ Len(agg) \in Nat /\ n \in 0 .. Len(agg)
      /\ rr.done \in 0 .. 2 /\ rr2.done \in 0 .. 2
      /\ pc # "rr_parse" => rr.done = 0
      /\ pc # "rr2_parse" => rr2.done = 0
  BY DEF RibsuInv, LibInv, LibTypeOK, PassInv, RrCtx, Rr2Ctx
<1>2. CASE Propagate
  <2> DEFINE L == UIRT_UIR_CODE_LEN
  <2>1. L \in Nat \ {0}
    BY CodeLenAssumption
  <2>2. UsmProcessUir(FALSE, agg)
    BY <1>2 DEF Propagate, UsmProcessUirtMore, UsmEnterParse
  <2>3. out' # <<>>
    BY <2>2 DEF UsmProcessUir, AfterPass
  <2>4. Len(agg) >= L /\ agg' = SubSeq(agg, L + 1, Len(agg))
    BY <2>2, <2>3 DEF UsmProcessUir
  <2> HIDE DEF L
  <2>5. Len(agg') = Len(agg) - L
    BY <1>1, <2>1, <2>4
  <2> QED BY <1>1, <2>1, <2>5
<1>3. CASE RrParse \/ Rr2Parse
  BY <1>3, RrParseMoves, Rr2ParseMoves DEF RrMoves, Rr2Moves, Moves, RibsuInv
<1>4. CASE UsmProcessRawTail
  <2>1. ~first /\ out' # <<>>
    BY <1>4 DEF UsmProcessRawTail, AfterPass
  <2>2. rr.done # 0
    BY <1>4, <2>1 DEF UsmProcessRawTail
  <2>3. n >= 4
    BY <1>1, <2>1, <2>2 DEF PassTakes, TakenBy
  <2>4. Len(agg') = Len(agg) - ParseConsumed(rr.done, n)
    BY <1>1, <1>4, AggAfterParseType DEF UsmProcessRawTail
  <2> QED BY <1>1, <2>3, <2>4 DEF ParseConsumed
<1>5. CASE UsmProcessRaw2Tail
  <2>1. ~first /\ out' # <<>>
    BY <1>5 DEF UsmProcessRaw2Tail, AfterPass
  <2>2. rr2.done # 0
    BY <1>5, <2>1 DEF UsmProcessRaw2Tail
  <2>3. n >= 4
    BY <1>1, <2>1, <2>2 DEF PassTakes, TakenBy
  <2>4. Len(agg') = Len(agg) - ParseConsumed(rr2.done, n)
    BY <1>1, <1>5, AggAfterParseType DEF UsmProcessRaw2Tail
  <2> QED BY <1>1, <2>3, <2>4 DEF ParseConsumed
<1> QED BY <1>2, <1>3, <1>4, <1>5 DEF Callback, Parse, UsmParse

\* The loop of ribsu_callback ends: every turn after the first that leads to
\* another has used up bytes, and none are added.
THEOREM LoopVariantHolds == Spec => LoopVariant
<1> DEFINE Inv == StartsOver /\ PassTakes
<1>1. Init => Inv
  BY DEF Init, StartsOver, PassTakes
<1>2. RibsuInv /\ Inv /\ [Next]_vars => Inv'
  BY StartsOverKept, PassTakesKept DEF RibsuInv
<1>3. RibsuInv /\ Inv /\ [Next]_vars =>
        [(Callback /\ mode # "USM_M_ECHO"
          /\ out # <<>> /\ ~first' /\ pc' = "propagate")
            => Len(agg') < Len(agg)]_vars
  BY TurnUsesBytes
<1> QED
  BY <1>1, <1>2, <1>3, RibsuInvariant, PTL DEF Spec, LoopVariant

(***************************************************************************)
(* Commands and their replies.                                             *)
(***************************************************************************)

\* A reply is awaited only while one is to come; with interpretation on.
WaitInv ==
    /\ interp
    /\ state # "USM_W_CODE" => toDev # <<>> \/ ReplyOnWire

\* With a quiet user there is nothing on its way but codes, or one command,
\* or the reply to it with codes behind it; and none, if codes keep apart.
CodesOnWire == \A i \in DOMAIN wire : wire[i].kind = "code"

ReplyAhead ==
    \E m \in 1 .. Len(wire) :
        /\ \A i \in 1 .. m : wire[i].kind = "reply" /\ (wire[i].ends => i = m)
        /\ \A i \in m + 1 .. Len(wire) : wire[i].kind = "code"

ReplyAlone == \E c \in Byte : wire = Token("reply", Reply(c))

QuietInv ==
    /\ interp
    /\ \/ state = "USM_W_CODE" /\ toDev = <<>> /\ CodesOnWire
       \/ /\ state # "USM_W_CODE" /\ pc = "runloop"
          /\ \/ Len(toDev) = 1 /\ wire = <<>>
             \/ toDev = <<>> /\ ReplyAhead /\ (Apart => ReplyAlone)


\* A queue of one command.
LEMMA OnlyCommand ==
    ASSUME NEW s \in Seq(Byte), Len(s) = 1
    PROVE  Head(s) \in Byte /\ Tail(s) = <<>>
<1>1. s # <<>>
  <2>1. Len(<<>>) = 0
    OBVIOUS
  <2> QED BY <2>1
<1>2. Head(s) \in Byte
  BY <1>1
<1>3. Tail(s) \in Seq(Byte)
  BY <1>1
<1>4. Len(Tail(s)) = 0
  BY <1>1
<1> QED BY <1>2, <1>3, <1>4, NoBytes

\* What is on the wire once more has come.
LEMMA WireGrows ==
    ASSUME wire \in Seq(Cell), NEW t \in Seq(Cell), wire' = wire \o t
    PROVE  /\ ReplyOnWire => ReplyOnWire'
           /\ (\E i \in 1 .. Len(t) : t[i].kind = "reply") => ReplyOnWire'
           /\ CodesOnWire /\ (\A i \in 1 .. Len(t) : t[i].kind = "code") => CodesOnWire'
<1>1. /\ Len(wire) \in Nat /\ Len(t) \in Nat
      /\ DOMAIN wire = 1 .. Len(wire) /\ DOMAIN wire' = 1 .. Len(wire) + Len(t)
  OBVIOUS
<1>2. \A i \in 1 .. Len(wire) : wire'[i] = wire[i]
  OBVIOUS
<1>3. \A i \in 1 .. Len(t) : wire'[Len(wire) + i] = t[i]
  OBVIOUS
<1>4. \A i \in 1 .. Len(wire) + Len(t) :
         \/ i \in 1 .. Len(wire)
         \/ \E j \in 1 .. Len(t) : i = Len(wire) + j
  <2> TAKE i \in 1 .. Len(wire) + Len(t)
  <2>1. i > Len(wire) => i - Len(wire) \in 1 .. Len(t) /\ i = Len(wire) + (i - Len(wire))
    BY <1>1
  <2> QED BY <1>1, <2>1
<1>5. ReplyOnWire => ReplyOnWire'
  BY <1>1, <1>2 DEF ReplyOnWire
<1>6. ASSUME NEW i \in 1 .. Len(t), t[i].kind = "reply"
      PROVE  ReplyOnWire'
  <2>1. Len(wire) + i \in 1 .. Len(wire) + Len(t)
    BY <1>1
  <2> QED BY <1>1, <1>3, <1>6, <2>1 DEF ReplyOnWire
<1>7. ASSUME CodesOnWire, \A i \in 1 .. Len(t) : t[i].kind = "code"
      PROVE  CodesOnWire'
  BY <1>1, <1>2, <1>3, <1>4, <1>7 DEF CodesOnWire
<1> QED BY <1>5, <1>6, <1>7

\* A reply on the wire: it is not empty, all of it is reply, and it ends with
\* its last byte.
LEMMA ReplyToken ==
    ASSUME NEW c
    PROVE  LET t == Token("reply", Reply(c))
           IN  /\ t \in Seq(Cell) /\ Len(t) > 0
               /\ \A i \in 1 .. Len(t) : t[i].kind = "reply"
               /\ \A i \in 1 .. Len(t) : t[i].ends => i = Len(t)
<1> DEFINE bytes == Reply(c)
           t == Token("reply", bytes)
<1>1. bytes \in Seq(Byte) /\ t \in Seq(Cell)
  BY ReplyType, TokenType
<1>2. Len(bytes) > 0
  BY DEF Reply
<1> HIDE DEF bytes
<1>3. DOMAIN bytes = 1 .. Len(bytes) /\ Len(bytes) \in Nat
  BY <1>1
<1>4. t = [i \in 1 .. Len(bytes) |-> [b |-> bytes[i], kind |-> "reply",
                                      ends |-> i = Len(bytes)]]
  BY <1>3 DEF Token
<1> HIDE DEF t
<1>5. Len(t) = Len(bytes)
  <2>1. DOMAIN t = 1 .. Len(bytes) /\ DOMAIN t = 1 .. Len(t) /\ Len(t) \in Nat
    BY <1>1, <1>4
  <2> QED BY <1>3, <2>1
<1>6. \A i \in 1 .. Len(bytes) : t[i].kind = "reply" /\ (t[i].ends => i = Len(bytes))
  <2> TAKE i \in 1 .. Len(bytes)
  <2> DEFINE last == i = Len(bytes)
  <2>1. t[i] = [b |-> bytes[i], kind |-> "reply", ends |-> last]
    BY <1>4
  <2>2. t[i].kind = "reply" /\ t[i].ends = last
    <3> HIDE DEF last
    <3> QED BY <2>1
  <2> QED BY <2>2, Zenon
<1>7. t \in Seq(Cell) /\ Len(t) > 0
  BY <1>1, <1>2, <1>5
<1> QED BY <1>5, <1>6, <1>7 DEF t, bytes

\* The cells of a code on the wire.
LEMMA CodeCells ==
    ASSUME NEW code \in IrCodes
    PROVE  /\ code.cells \in Seq(Cell)
           /\ \A i \in 1 .. Len(code.cells) : code.cells[i].kind = "code"
<1>1. /\ code.cells \in Seq(Cell)
      /\ \A i \in DOMAIN code.cells : code.cells[i].kind = "code"
  BY DeviceAssumption
<1> QED BY <1>1

\* A pass ends the wait for a reply; nothing else on the host does, and only a
\* command begins it.
LEMMA ReadEndsWait ==
    ASSUME NEW in, UsmProcessUirt(in)
    PROVE  state' = "USM_W_CODE"
BY DEF UsmProcessUirt, UsmProcessThru, UsmProcessUir, UsmEnterParse

\* A callback ends it or leaves it.
LEMMA CallbackEndsWait ==
    ASSUME Callback
    PROVE  state' = state \/ state' = "USM_W_CODE"
<1>1. CASE Propagate
  BY <1>1 DEF Propagate, UsmProcessUirtMore, UsmProcessThru, UsmProcessUir, UsmEnterParse
<1>2. CASE Parse
  BY <1>2 DEF Parse, UsmParse, UsmProcessRawTail, UsmProcessRaw2Tail
<1> QED BY <1>1, <1>2 DEF Callback

\* WaitInv is inductive where every write and allocation succeeds.
LEMMA WaitInvKept ==
    ASSUME Faults = {}, ~Toggle, RibsuInv, WaitInv, [Next]_vars
    PROVE  WaitInv'
<1>0. wire \in Seq(Cell) /\ toDev \in Seq(Byte)
  BY DEF RibsuInv, LinkTypeOK
<1>1. CASE RibsuWrite
  <2>1. PICK c \in Commands :
          toDev' = Append(toDev, CommandSent(c)) \/ toDev' = Append(toDev, c)
    BY <1>1 DEF RibsuWrite, WaitInv
  <2>2. toDev' # <<>>
    BY <1>0, <2>1
  <2> QED BY <1>1, <2>2 DEF RibsuWrite, WaitInv
<1>2. CASE RibsuToggleInterpretation
  BY <1>2 DEF RibsuToggleInterpretation
<1>3. CASE RibsuSetDefaultFrequency \/ Waiting \/ Undefined \/ UNCHANGED vars
  BY <1>3 DEF RibsuSetDefaultFrequency, Waiting, Undefined, vars, usmVars, deviceVars,
              WaitInv, ReplyOnWire
<1>4. CASE DriverRead
  <2>1. PICK b : RibsuCallback(b)
    BY <1>4 DEF DriverRead
  <2>2. state' = "USM_W_CODE"
    BY <2>1, ReadEndsWait DEF RibsuCallback, WaitInv
  <2> QED BY <1>4, <2>2 DEF DriverRead, WaitInv
<1>5. CASE Callback
  <2>1. UNCHANGED <<deviceVars, interp>>
    BY <1>5 DEF Callback, Propagate, Parse
  <2> QED BY <1>5, <2>1, CallbackEndsWait DEF WaitInv, deviceVars, ReplyOnWire
<1>6. CASE Device
  <2>1. UNCHANGED <<state, interp>>
    BY <1>6 DEF Device, usmVars
  <2>2. CASE DeviceAnswer
    <3> DEFINE t == Token("reply", Reply(Head(toDev)))
    <3>1. wire' = wire \o t
      BY <2>2 DEF DeviceAnswer
    <3>2. /\ t \in Seq(Cell) /\ Len(t) > 0
          /\ \A i \in 1 .. Len(t) : t[i].kind = "reply"
      BY ReplyToken
    <3> HIDE DEF t
    <3>3. 1 \in 1 .. Len(t)
      BY <3>2
    <3>4. ReplyOnWire'
      BY <1>0, <3>1, <3>2, <3>3, WireGrows
    <3> QED BY <2>1, <3>4 DEF WaitInv
  <2>3. CASE DeviceCode
    <3>1. PICK code \in IrCodes : wire' = wire \o code.cells
      BY <2>3 DEF DeviceCode
    <3>2. ReplyOnWire => ReplyOnWire'
      BY <1>0, <3>1, CodeCells, WireGrows
    <3> QED BY <2>1, <2>3, <3>2 DEF WaitInv, DeviceCode
  <2> QED BY <1>6, <2>2, <2>3 DEF Device
<1> QED BY <1>1, <1>2, <1>3, <1>4, <1>5, <1>6 DEF Next

\* The state machine waits only for what is to come, unless a command was
\* lost after the machine had taken it, or interpretation was switched.
THEOREM WaitJustifiedHolds ==
    ASSUME Faults = {}, ~Toggle
    PROVE  Spec => []WaitJustified
<1>1. Init => WaitInv
  BY DEF Init, UsmInit, WaitInv
<1>2. RibsuInv /\ WaitInv /\ [Next]_vars => WaitInv'
  BY WaitInvKept
<1>3. WaitInv => WaitJustified
  BY DEF WaitInv, WaitJustified
<1> QED
  BY <1>1, <1>2, <1>3, RibsuInvariant, PTL DEF Spec

\* A reply at the head of the wire is on it, and stays there when a code comes.
LEMMA ReplySeen ==
    ASSUME wire \in Seq(Cell), ReplyAhead
    PROVE  ReplyOnWire
<1>1. PICK m \in 1 .. Len(wire) : \A i \in 1 .. m : wire[i].kind = "reply"
  BY DEF ReplyAhead
<1>2. 1 \in 1 .. m /\ 1 \in DOMAIN wire
  BY <1>1
<1> QED BY <1>1, <1>2 DEF ReplyOnWire

LEMMA AheadGrows ==
    ASSUME wire \in Seq(Cell), ReplyAhead, NEW t \in Seq(Cell), wire' = wire \o t,
           \A i \in 1 .. Len(t) : t[i].kind = "code"
    PROVE  ReplyAhead'
<1>1. PICK m \in 1 .. Len(wire) :
        /\ \A i \in 1 .. m : wire[i].kind = "reply" /\ (wire[i].ends => i = m)
        /\ \A i \in m + 1 .. Len(wire) : wire[i].kind = "code"
  BY DEF ReplyAhead
<1>2. /\ Len(wire) \in Nat /\ Len(t) \in Nat /\ Len(wire') = Len(wire) + Len(t)
      /\ \A i \in 1 .. Len(wire) : wire'[i] = wire[i]
      /\ \A i \in 1 .. Len(t) : wire'[Len(wire) + i] = t[i]
  OBVIOUS
<1>3. \A i \in m + 1 .. Len(wire') : wire'[i].kind = "code"
  <2> TAKE i \in m + 1 .. Len(wire')
  <2>1. CASE i <= Len(wire)
    BY <1>1, <1>2, <2>1
  <2>2. CASE i > Len(wire)
    <3>1. i - Len(wire) \in 1 .. Len(t) /\ i = Len(wire) + (i - Len(wire))
      BY <1>2, <2>2
    <3> QED BY <1>2, <3>1
  <2> QED BY <1>2, <2>1, <2>2
<1>4. m \in 1 .. Len(wire')
  BY <1>1, <1>2
<1>5. \A i \in 1 .. m : wire'[i].kind = "reply" /\ (wire'[i].ends => i = m)
  BY <1>1, <1>2
<1> QED BY <1>3, <1>4, <1>5 DEF ReplyAhead

\* QuietInv is inductive with a quiet user and reads that do not cut a token.
LEMMA QuietInvKept ==
    ASSUME Quiet, ~AnyCut, ~Toggle, Faults = {}, RibsuInv, QuietInv, [Next]_vars
    PROVE  QuietInv'
<1>0. wire \in Seq(Cell) /\ toDev \in Seq(Byte) /\ interp
  BY DEF RibsuInv, LinkTypeOK, QuietInv
<1>1. CASE RibsuWrite
  <2>1. toDev = <<>> /\ wire = <<>> /\ pc = "runloop"
    BY <1>1 DEF RibsuWrite, Call
  <2>2. PICK c \in Commands :
          UsmProcessUser(c) /\ toDev' = Append(toDev, CommandSent(c))
    BY <1>0, <1>1 DEF RibsuWrite
  <2>3. Len(toDev') = 1
    BY <2>1, <2>2
  <2>4. state' # "USM_W_CODE"
    BY <2>2 DEF UsmProcessUser, UserSwitch
  <2>5. pc' = "runloop" /\ wire' = <<>> /\ interp'
    BY <1>0, <1>1, <2>1 DEF RibsuWrite, callbackVars
  <2> QED BY <2>3, <2>4, <2>5 DEF QuietInv
<1>2. CASE RibsuToggleInterpretation
  BY <1>2 DEF RibsuToggleInterpretation
<1>3. CASE RibsuSetDefaultFrequency \/ Waiting \/ Undefined \/ UNCHANGED vars
  <2>1. UNCHANGED <<state, pc, toDev, wire, interp>>
    BY <1>3 DEF RibsuSetDefaultFrequency, Waiting, Undefined, vars, usmVars, deviceVars,
                callbackVars
  <2> QED BY <2>1 DEF QuietInv, CodesOnWire, ReplyAhead, ReplyAlone
<1>4. CASE DriverRead
  <2>1. PICK k \in 1 .. MaxRead :
          /\ k <= Len(wire) /\ wire[k].ends
          /\ RibsuCallback([i \in 1 .. k |-> wire[i].b])
          /\ wire' = SubSeq(wire, k + 1, Len(wire))
    BY <1>4 DEF DriverRead
  <2>2. state' = "USM_W_CODE"
    BY <1>0, <2>1, ReadEndsWait DEF RibsuCallback
  <2>3. toDev' = toDev /\ interp'
    BY <1>0, <1>4 DEF DriverRead
  <2>4. k \in 1 .. Len(wire) /\ Len(wire) \in Nat
    BY <1>0, <2>1, RibsuAssumption
  <2>5. CASE state = "USM_W_CODE" /\ toDev = <<>> /\ CodesOnWire
    <3>1. CodesOnWire'
      <4>1. \A i \in 1 .. Len(wire) : wire[i].kind = "code"
        BY <1>0, <2>5 DEF CodesOnWire
      <4>2. /\ DOMAIN wire' = 1 .. Len(wire) - k
            /\ \A i \in 1 .. Len(wire) - k : wire'[i] = wire[k + i]
        BY <1>0, <2>1, <2>4
      <4>3. \A i \in 1 .. Len(wire) - k : k + i \in 1 .. Len(wire)
        BY <2>4
      <4> QED BY <4>1, <4>2, <4>3 DEF CodesOnWire
    <3> QED BY <2>2, <2>3, <2>5, <3>1 DEF QuietInv
  <2>6. CASE state # "USM_W_CODE"
    <3>1. toDev = <<>> /\ ReplyAhead
      <4>1. Len(<<>>) = 0
        OBVIOUS
      <4> QED BY <2>4, <2>6, <4>1 DEF QuietInv
    <3>2. PICK m \in 1 .. Len(wire) :
            /\ \A i \in 1 .. m : wire[i].ends => i = m
            /\ \A i \in m + 1 .. Len(wire) : wire[i].kind = "code"
      BY <3>1 DEF ReplyAhead
    <3>3. k >= m
      <4>1. k \in 1 .. m => k = m
        BY <2>1, <3>2
      <4> QED BY <2>4, <4>1
    <3>4. CodesOnWire'
      <4>1. /\ DOMAIN wire' = 1 .. Len(wire) - k
            /\ \A i \in 1 .. Len(wire) - k : wire'[i] = wire[k + i]
        BY <1>0, <2>1, <2>4
      <4>2. \A i \in 1 .. Len(wire) - k : k + i \in m + 1 .. Len(wire)
        BY <2>4, <3>2, <3>3
      <4> QED BY <3>2, <4>1, <4>2 DEF CodesOnWire
    <3> QED BY <2>2, <2>3, <3>1, <3>4 DEF QuietInv
  <2> QED BY <2>5, <2>6 DEF QuietInv
<1>5. CASE Callback
  <2>1. UNCHANGED <<deviceVars, interp>> /\ pc # "runloop"
    BY <1>5 DEF Callback, Propagate, Parse, UsmParse, RrParse, RrInit, RrInterspace,
                RrPulse, RrSpace, RrLoop, Rr2Parse, Rr2Init, Rr2Interspace, Rr2Pulse,
                Rr2Space, Rr2Loop, UsmProcessRawTail, RrLoopOver, UsmProcessRaw2Tail,
                Rr2LoopOver
  <2>2. state = "USM_W_CODE" /\ toDev = <<>> /\ CodesOnWire
    BY <2>1 DEF QuietInv
  <2>3. CodesOnWire' /\ toDev' = <<>> /\ interp'
    BY <1>0, <2>1, <2>2 DEF CodesOnWire, deviceVars
  <2> QED BY <1>5, <2>2, <2>3, CallbackEndsWait DEF QuietInv
<1>6. CASE Device
  <2>1. UNCHANGED <<state, pc, interp>>
    BY <1>6 DEF Device, usmVars, callbackVars
  <2>2. CASE DeviceAnswer
    <3>1. state # "USM_W_CODE" /\ pc = "runloop" /\ Len(toDev) = 1 /\ wire = <<>>
      BY <2>2 DEF DeviceAnswer, QuietInv
    <3>2. Head(toDev) \in Byte /\ Tail(toDev) = <<>>
      BY <1>0, <3>1, OnlyCommand
    <3> DEFINE t == Token("reply", Reply(Head(toDev)))
    <3>3. t \in Seq(Cell)
      BY ReplyToken
    <3>5. wire' = wire \o t /\ toDev' = <<>>
      BY <2>2, <3>2 DEF DeviceAnswer
    <3>4. wire' = t
      <4> HIDE DEF t
      <4> QED BY <3>1, <3>3, <3>5
    <3>6. ReplyAlone'
      BY <3>2, <3>4 DEF ReplyAlone
    <3>7. ReplyAhead'
      <4>1. /\ Len(t) > 0 /\ Len(t) \in Nat
            /\ \A i \in 1 .. Len(t) : t[i].kind = "reply" /\ (t[i].ends => i = Len(t))
        BY <3>3, ReplyToken
      <4> HIDE DEF t
      <4>2. Len(t) \in 1 .. Len(wire') /\ \A i \in Len(t) + 1 .. Len(wire') : FALSE
        BY <3>4, <4>1
      <4>3. \A i \in 1 .. Len(t) : wire'[i].kind = "reply" /\ (wire'[i].ends => i = Len(t))
        BY <3>4, <4>1
      <4> QED BY <4>2, <4>3 DEF ReplyAhead
    <3> QED BY <1>0, <2>1, <3>1, <3>5, <3>6, <3>7 DEF QuietInv
  <2>3. CASE DeviceCode
    <3>1. PICK code \in IrCodes : wire' = wire \o code.cells
      BY <2>3 DEF DeviceCode
    <3>2. toDev = <<>> /\ toDev' = <<>> /\ (Apart => ~ReplyOnWire)
      BY <2>3 DEF DeviceCode
    <3>3. CASE state = "USM_W_CODE" /\ CodesOnWire
      <4>1. CodesOnWire'
        BY <1>0, <3>1, <3>3, CodeCells, WireGrows
      <4> QED BY <1>0, <2>1, <3>2, <3>3, <4>1 DEF QuietInv
    <3>4. CASE state # "USM_W_CODE" /\ pc = "runloop" /\ ReplyAhead
      <4>1. ReplyOnWire
        BY <1>0, <3>4, ReplySeen
      <4>2. ReplyAhead'
        BY <1>0, <3>1, <3>4, CodeCells, AheadGrows
      <4> QED BY <1>0, <2>1, <3>2, <3>4, <4>1, <4>2 DEF QuietInv
    <3>5. Len(<<>>) = 0
      OBVIOUS
    <3> QED BY <3>2, <3>3, <3>4, <3>5 DEF QuietInv
  <2> QED BY <1>6, <2>2, <2>3 DEF Device
<1> QED BY <1>1, <1>2, <1>3, <1>4, <1>5, <1>6 DEF Next

\* QuietInv always holds with a quiet user.
LEMMA QuietInvariant ==
    ASSUME Quiet, ~AnyCut, ~Toggle, Faults = {}
    PROVE  Spec => []QuietInv
<1>1. Init => QuietInv
  BY DEF Init, UsmInit, DeviceInit, QuietInv, CodesOnWire
<1>2. RibsuInv /\ QuietInv /\ [Next]_vars => QuietInv'
  BY QuietInvKept
<1> QED
  BY <1>1, <1>2, RibsuInvariant, PTL DEF Spec

\* With a quiet user the machine waits for a reply exactly when one is to
\* come, though codes may follow a reply in the same read: what is read while
\* one is awaited begins with it, and no reply is decoded as a code.
THEOREM ReplyAwaitedHolds ==
    ASSUME Quiet, ~AnyCut, ~Toggle, Faults = {}
    PROVE  Spec => []ReplyAwaited
<1>1. RibsuInv /\ QuietInv => ReplyAwaited
  <2> SUFFICES ASSUME RibsuInv, QuietInv PROVE ReplyAwaited
    OBVIOUS
  <2>1. wire \in Seq(Cell) /\ toDev \in Seq(Byte) /\ Len(<<>>) = 0
    BY DEF RibsuInv, LinkTypeOK
  <2>2. CodesOnWire => ~ReplyOnWire
    BY DEF CodesOnWire, ReplyOnWire
  <2>3. ReplyAhead => ReplyOnWire
    BY <2>1, ReplySeen
  <2>4. CASE state = "USM_W_CODE" /\ toDev = <<>> /\ CodesOnWire
    BY <2>2, <2>4 DEF ReplyAwaited
  <2>5. CASE state # "USM_W_CODE" /\ Len(toDev) = 1
    <3>1. toDev # <<>>
      BY <2>1, <2>5
    <3> QED BY <2>5, <3>1 DEF ReplyAwaited
  <2>6. CASE state # "USM_W_CODE" /\ ReplyAhead
    BY <2>3, <2>6 DEF ReplyAwaited
  <2> QED BY <2>4, <2>5, <2>6 DEF QuietInv
<1> QED
  BY <1>1, RibsuInvariant, QuietInvariant, PTL
=============================================================================
