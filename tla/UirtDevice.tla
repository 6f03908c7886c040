----------------------------- MODULE UirtDevice -----------------------------
(***************************************************************************)
(* External: the USB-UIRT as the code in src/ uses it.  It answers every   *)
(* command in order and sends infrared codes in the format of its mode.    *)
(* The wire is a sequence of cells; a cell is a byte, whether it belongs   *)
(* to a reply or to a code, and whether a token of the format ends there,  *)
(* so that a read may stop after it without cutting a token.               *)
(***************************************************************************)
EXTENDS UirtSm, SequencesExt

CONSTANTS
    IrCodes,      \* infrared codes that can be received, see UirCode ... below
    MaxCodes,     \* bound: codes received in a behaviour
    Quiet,        \* the user waits, no code is sent between command and reply
    Apart         \* no code is sent until the reply before it has been read

VARIABLES
    toDev,        \* commands written and not yet answered
    wire,         \* cells sent and not yet read
    devMode,      \* the format codes are sent in
    nCodes,
    expected      \* history: the lines a user should be shown, in order

deviceVars == <<toDev, wire, devMode, nCodes, expected>>

Line == Seq(Nat)
Cell == [b: Byte, kind: {"reply", "code"}, ends: BOOLEAN]
Burst == [freq: Nat \ {0}, pulse: Seq(Nat), space: Seq(Nat)]

ASSUME DeviceAssumption ==
    /\ MaxCodes \in Nat
    /\ Quiet \in BOOLEAN /\ Apart \in BOOLEAN
    /\ \A code \in IrCodes :
          /\ code.mode \in Modes \ {"USM_M_ECHO"}
          /\ code.cells \in Seq(Cell)
          /\ \A i \in DOMAIN code.cells : code.cells[i].kind = "code"
          /\ code.bursts \in Seq(Burst)

Token(kind, bytes) ==
    [i \in DOMAIN bytes |-> [b |-> bytes[i], kind |-> kind,
                             ends |-> i = Len(bytes)]]

Cells(tokens) ==
    FlattenSeq([i \in DOMAIN tokens |-> Token("code", tokens[i])])

\* A UIR code: every byte is a token, the code is one line.
UirCode(bytes) ==
    [mode |-> "USM_M_UIR", bursts |-> <<>>,
     cells |-> Cells([i \in DOMAIN bytes |-> <<bytes[i]>>])]

\* The tokens of the bursts of a transmission: pulses and spaces in turn,
\* a gap after each burst but the last, 0xff after that one.
BurstTokens(bursts, pulseToken(_), spaceToken(_), gap) ==
    FlattenSeq([j \in DOMAIN bursts |->
        LET pulses == [i \in DOMAIN bursts[j].pulse |-> pulseToken(bursts[j].pulse[i])]
            spaces == [i \in DOMAIN bursts[j].space |-> spaceToken(bursts[j].space[i])]
            k == Len(pulses)
        IN  Alternate(SubSeq(pulses, 1, k - 1), spaces) \o
            CASE j = Len(bursts) -> <<pulses[k], <<255>>>>
              [] j < Len(bursts) /\ Len(gap) = 1 -> <<pulses[k] \o gap>>
              [] j < Len(bursts) /\ Len(gap) = 2 -> <<pulses[k], gap>>])

\* A RAW code: two bytes of interspace, one per pulse and space.  The last
\* pulse and a one-byte gap count as one token: rr_parse can put a zero
\* interspace in place of the gap only when a byte comes before it.
RawCode(interspace, bursts, gap) ==
    [mode |-> "USM_M_RAW",
     bursts |-> [j \in DOMAIN bursts |->
        [freq |-> 1, pulse |-> bursts[j].pulse, space |-> bursts[j].space]],
     cells |-> Cells(<<interspace>> \o
        BurstTokens(bursts, LAMBDA p : <<p>>, LAMBDA s : <<s>>, gap))]

\* A RAW2 pulse is a pair of a duration and a number of carrier cycles.
Raw2Pulse(pulse) ==
    LET p == pulse[1]
        c == pulse[2]
    IN  <<p \div 256, p % 256>> \o
        IF c < 128 THEN <<c>> ELSE <<128 + c \div 256, c % 256>>

\* The carrier of a burst: the mean of (c - 1/2) / (p * 400 ns).
Carrier(pulses) ==
    LET counted == SelectSeq(pulses, LAMBDA pulse : pulse[2] # 0)
        sum == FoldLeft(LAMBDA acc, pulse :
                    acc + (250000 * (10 * pulse[2] - 5)) \div pulse[1], 0, counted)
    IN  IF counted = <<>> THEN 1 ELSE sum \div Len(counted)

Raw2Code(interspace, bursts, gap) ==
    [mode |-> "USM_M_RAW2",
     bursts |-> [j \in DOMAIN bursts |->
        [freq |-> Carrier(bursts[j].pulse),
         pulse |-> [i \in DOMAIN bursts[j].pulse |-> bursts[j].pulse[i][1]],
         space |-> bursts[j].space]],
     cells |-> Cells(<<interspace>> \o
        BurstTokens(bursts, Raw2Pulse, LAMBDA s : <<s \div 256, s % 256>>, gap))]

\* The lines a code should be shown as, f being the default frequency.
Lines(code, f) ==
    CASE code.mode = "USM_M_UIR" -> <<[i \in DOMAIN code.cells |-> code.cells[i].b]>>
      [] code.mode = "USM_M_RAW" ->
            [j \in DOMAIN code.bursts |->
                ProntoWords(78000, IF f = 0 THEN DefaultRrFrequency ELSE f,
                            code.bursts[j].pulse, code.bursts[j].space)]
      [] code.mode = "USM_M_RAW2" ->
            [j \in DOMAIN code.bursts |->
                ProntoWords(560, code.bursts[j].freq,
                            code.bursts[j].pulse, code.bursts[j].space)]

\* UIRT_STATUS_OK, two bytes of version, UIRT_STATUS_CMD_ERROR.
Reply(c) ==
    CASE c = UIRT_CMD_GET_VERSION -> <<1, 5>>
      [] c \notin KnownCommands   -> <<130>>
      [] OTHER                    -> <<33>>

ReplyOnWire == \E i \in DOMAIN wire : wire[i].kind = "reply"

DeviceInit ==
    /\ toDev = <<>> /\ wire = <<>> /\ devMode = "USM_M_UIR"
    /\ nCodes = 0 /\ expected = <<>>

\* The device answers the oldest command, a mode command takes effect.
DeviceAnswer ==
    /\ toDev # <<>>
    /\ LET c == Head(toDev)
       IN  /\ devMode' = CASE c = UIRT_CMD_MODE_UIR  -> "USM_M_UIR"
                           [] c = UIRT_CMD_MODE_RAW  -> "USM_M_RAW"
                           [] c = UIRT_CMD_MODE_RAW2 -> "USM_M_RAW2"
                           [] OTHER                  -> devMode
           /\ wire' = wire \o Token("reply", Reply(c))
           /\ expected' = Append(expected, Reply(c))
    /\ toDev' = Tail(toDev)
    /\ UNCHANGED nCodes

\* The device receives an infrared code and sends it on.  Both conditions are
\* about time, and nothing in the code makes sure of them: Quiet, that no code
\* comes while a command is not answered; Apart, that none comes so soon after
\* a reply that one read brings both.
DeviceCode ==
    /\ nCodes < MaxCodes
    /\ Quiet => toDev = <<>>
    /\ Apart => ~ReplyOnWire
    /\ \E code \in IrCodes :
          /\ code.mode = devMode
          /\ wire' = wire \o code.cells
          /\ expected' = expected \o Lines(code, default_frequency)
    /\ nCodes' = nCodes + 1
    /\ UNCHANGED <<toDev, devMode>>
=============================================================================
