------------------------------- MODULE UirtSm -------------------------------
(***************************************************************************)
(* uirt-sm.c: the state machine between the raw bytes of the USB-UIRT and  *)
(* the lines the application is shown.  It follows the commands the user   *)
(* sends to know what the next bytes from the device mean.                 *)
(***************************************************************************)
EXTENDS UirtRaw, UirtRaw2

CONSTANT UIRT_UIR_CODE_LEN       \* bytes in a UIR code, uirt.h

ASSUME CodeLenAssumption ==
    UIRT_UIR_CODE_LEN \in Nat \ {0} /\ UIRT_UIR_CODE_LEN <= USM_AGG_MAX

VARIABLES
    mode, state,          \* usm_ctx.mode and .state
    default_frequency,    \* usm_ctx.default_frequency, 0 when not chosen
    first,                \* this pass is usm_process_uirt, not ..._more
    out                   \* the callback's out buffer, <<>> when out.len is 0

Modes  == {"USM_M_ECHO", "USM_M_UIR", "USM_M_RAW", "USM_M_RAW2"}
States == {"USM_W_STATUS", "USM_W_CODE", "USM_W_VER"}

UIRT_CMD_TX_PRONTO   == 0
UIRT_CMD_MODE_UIR    == 32
UIRT_CMD_MODE_RAW    == 33
UIRT_CMD_GET_VERSION == 35
UIRT_CMD_MODE_RAW2   == 36
\* The GPIO commands 0x30 - 0x35, TX_RAW 0x36, TX_STRUCT 0x37, GET_CFG 0x38.
UIRT_CMD_TX_RAW      == 54
PlainCommands        == 48 .. 56
KnownCommands == PlainCommands \cup
    {UIRT_CMD_TX_PRONTO, UIRT_CMD_MODE_UIR, UIRT_CMD_MODE_RAW,
     UIRT_CMD_GET_VERSION, UIRT_CMD_MODE_RAW2}

UsmInit ==
    /\ agg = <<>> /\ mode = "USM_M_UIR" /\ state = "USM_W_CODE"
    /\ rr = RrZero /\ rr2 = Rr2Zero /\ default_frequency = 0

\* The mode after a command.
ModeAfter(c) ==
    CASE c = UIRT_CMD_MODE_UIR  -> "USM_M_UIR"
      [] c = UIRT_CMD_MODE_RAW  -> "USM_M_RAW"
      [] c = UIRT_CMD_MODE_RAW2 -> "USM_M_RAW2"
      [] c \notin KnownCommands -> "USM_M_ECHO"
      [] OTHER                  -> mode

\* What the switch of usm_process_user does.
UserSwitch(c) ==
    /\ mode' = ModeAfter(c)
    /\ state' = IF c = UIRT_CMD_GET_VERSION THEN "USM_W_VER" ELSE "USM_W_STATUS"
    /\ rr'  = IF c = UIRT_CMD_MODE_RAW THEN RrZero ELSE rr
    /\ rr2' = IF c = UIRT_CMD_MODE_RAW2 THEN Rr2Zero ELSE rr2
    /\ UNCHANGED default_frequency

\* Mutant: only a version request empties agg.
UsmProcessUserKeepsMode(c) ==
    /\ UserSwitch(c)
    /\ agg' = IF c = UIRT_CMD_GET_VERSION THEN <<>> ELSE agg

\* usm_process_user for a command c: what it does to the context.
UsmProcessUser(c) ==
    UserSwitch(c) /\ agg' = <<>>

\* ... and the command that goes to the device (the checksum left out): a
\* Pronto code becomes a RAW transmission.
CommandSent(c) == IF c = UIRT_CMD_TX_PRONTO THEN UIRT_CMD_TX_RAW ELSE c

\* Where the do-while of ribsu_callback is after a pass that left o in out:
\* the first pass enters the body whatever it produced.
AfterPass(isFirst, o) ==
    IF isFirst \/ o # <<>> THEN "propagate" ELSE "runloop"

\* Mutants: the state is not left after a reply; only not after a version.
UsmProcessThruStays(isFirst, o) ==
    /\ out' = o
    /\ pc' = AfterPass(isFirst, o)
    /\ UNCHANGED <<agg, n, rr, rr2, mode, state>>

UsmProcessThruStatusOnly(isFirst, o) ==
    /\ out' = o
    /\ state' = IF state = "USM_W_VER" THEN state ELSE "USM_W_CODE"
    /\ pc' = AfterPass(isFirst, o)
    /\ UNCHANGED <<agg, n, rr, rr2, mode>>

\* usm_process_thru; o is in, or the old contents of out when in is NULL.
UsmProcessThru(isFirst, o) ==
    /\ out' = o
    /\ state' = "USM_W_CODE"
    /\ pc' = AfterPass(isFirst, o)
    /\ UNCHANGED <<agg, n, rr, rr2, mode>>

\* Mutant: a code is taken out only when more follows.
UsmProcessUirTooLate(isFirst, a) ==
    /\ \/ /\ Len(a) > UIRT_UIR_CODE_LEN
          /\ out' = SubSeq(a, 1, UIRT_UIR_CODE_LEN)
          /\ agg' = SubSeq(a, UIRT_UIR_CODE_LEN + 1, Len(a))
       \/ /\ Len(a) <= UIRT_UIR_CODE_LEN
          /\ out' = <<>>
          /\ agg' = a
    /\ pc' = AfterPass(isFirst, out')
    /\ UNCHANGED <<n, rr, rr2, mode, state>>

\* usm_process_uir on the aggregation buffer a.
UsmProcessUir(isFirst, a) ==
    /\ \/ /\ Len(a) >= UIRT_UIR_CODE_LEN
          /\ out' = SubSeq(a, 1, UIRT_UIR_CODE_LEN)
          /\ agg' = SubSeq(a, UIRT_UIR_CODE_LEN + 1, Len(a))
       \/ /\ Len(a) < UIRT_UIR_CODE_LEN
          /\ out' = <<>>
          /\ agg' = a
    /\ pc' = AfterPass(isFirst, out')
    /\ UNCHANGED <<n, rr, rr2, mode, state>>

\* The head of usm_process_raw and usm_process_raw2: enter the parse loop.
UsmEnterParse(a, loop) ==
    /\ agg' = a
    /\ n' = 0
    /\ pc' = loop
    /\ UNCHANGED <<out, rr, rr2, mode, state>>

\* usm_process_uirt with the bytes in.
UsmProcessUirt(in) ==
    LET a == BufAppend(agg, in, USM_AGG_MAX)
    IN  /\ first' = TRUE
        /\ \/ /\ state # "USM_W_CODE" \/ mode = "USM_M_ECHO"
              /\ UsmProcessThru(TRUE, in)
           \/ /\ state = "USM_W_CODE"
              /\ \/ mode = "USM_M_UIR"  /\ UsmProcessUir(TRUE, a)
                 \/ mode = "USM_M_RAW"  /\ UsmEnterParse(a, "rr_parse")
                 \/ mode = "USM_M_RAW2" /\ UsmEnterParse(a, "rr2_parse")
        /\ UNCHANGED default_frequency

\* usm_process_uirt_more: by mode alone, with no new bytes.
UsmProcessUirtMore ==
    /\ first' = FALSE
    /\ \/ mode = "USM_M_ECHO" /\ UsmProcessThru(FALSE, out)
       \/ mode = "USM_M_UIR"  /\ UsmProcessUir(FALSE, agg)
       \/ mode = "USM_M_RAW"  /\ UsmEnterParse(agg, "rr_parse")
       \/ mode = "USM_M_RAW2" /\ UsmEnterParse(agg, "rr2_parse")
    /\ UNCHANGED default_frequency

\* The end of rr_parse and of usm_process_raw.
UsmProcessRawTail ==
    /\ RrLoopOver
    /\ LET ctx == RrSetFrequency(rr, default_frequency)
       IN  \/ /\ rr.done # 0
              /\ out' = RrOutputPronto(ctx)
              /\ rr' = [ctx EXCEPT !.state = "DDS_INIT", !.done = 0]
           \/ /\ rr.done = 0
              /\ out' = <<>>
              /\ UNCHANGED rr
    /\ agg' = AggAfterParse(rr.done)
    /\ n' = 0
    /\ pc' = AfterPass(first, out')
    /\ UNCHANGED <<rr2, mode, state, default_frequency, first>>

\* The end of rr2_parse and of usm_process_raw2.
UsmProcessRaw2Tail ==
    /\ Rr2LoopOver
    /\ LET ctx == Rr2Final(rr2)
       IN  \/ /\ rr2.done # 0
              /\ out' = Rr2OutputPronto(ctx)
              /\ rr2' = [ctx EXCEPT !.state = "DDS_INIT", !.done = 0]
           \/ /\ rr2.done = 0
              /\ out' = <<>>
              /\ UNCHANGED rr2
    /\ agg' = AggAfterParse(rr2.done)
    /\ n' = 0
    /\ pc' = AfterPass(first, out')
    /\ UNCHANGED <<rr, mode, state, default_frequency, first>>

\* One step of the decoders below the callback.
UsmParse ==
    \/ RrParse  /\ UNCHANGED <<rr2, mode, state, default_frequency, first, out>>
    \/ Rr2Parse /\ UNCHANGED <<rr, mode, state, default_frequency, first, out>>
    \/ UsmProcessRawTail
    \/ UsmProcessRaw2Tail
=============================================================================
