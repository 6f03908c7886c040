-------------------------------- MODULE Ribsu --------------------------------
(***************************************************************************)
(* ribsu.c: the library as its application drives it.  The application     *)
(* writes commands, switches interpretation on and off and chooses a       *)
(* default frequency; the driver reads bytes off the wire and calls        *)
(* ribsu_callback, which shows the application one line per turn of its    *)
(* loop.  All of them run on the run loop, so none starts while a callback *)
(* is active.                                                              *)
(***************************************************************************)
EXTENDS UirtDevice

CONSTANTS
    Commands,       \* command bytes the user can send
    Frequencies,    \* default frequencies the user can choose, 0 for none
    Faults,         \* of "alloc" (buf_alloc fails), "write" (drv_write fails)
    Toggle,         \* the user may switch interpretation
    AnyCut,         \* a read may stop inside a token
    MaxRead,        \* bytes in a read: 62 in usb.c, 512 in tty.c
    MaxCmds,        \* bound: calls of the application in a behaviour
    MaxShown        \* bound: lines the history keeps

ASSUME RibsuAssumption ==
    /\ Commands \subseteq Byte
    /\ Frequencies \subseteq Nat
    /\ Faults \subseteq {"alloc", "write"}
    /\ Toggle \in BOOLEAN /\ AnyCut \in BOOLEAN
    /\ MaxRead \in Nat \ {0} /\ MaxCmds \in Nat /\ MaxShown \in Nat

VARIABLES
    interp,         \* ribsu_ctx.interp
    shown,          \* history: the lines given to callback_fn
    nCmds

usmVars == <<mode, state, agg, rr, rr2, default_frequency>>
callbackVars == <<pc, first, n, out>>
vars == <<usmVars, callbackVars, deviceVars, interp, shown, nCmds>>

\* What ribsu_init leaves behind once a driver was found.
Init ==
    /\ UsmInit /\ DeviceInit
    /\ pc = "runloop" /\ first = FALSE /\ n = 0 /\ out = <<>>
    /\ interp = TRUE /\ shown = <<>> /\ nCmds = 0

\* callback_fn is called with a buffer that is not empty.
ShowLine(line) ==
    shown' = IF line # <<>> /\ Len(shown) < MaxShown
             THEN Append(shown, line) ELSE shown

\* A call of the application.  A quiet user waits for the answer and for
\* what is on its way.
Call ==
    /\ pc = "runloop"
    /\ nCmds < MaxCmds
    /\ Quiet => toDev = <<>> /\ wire = <<>>
    /\ nCmds' = nCmds + 1

\* ribsu_write: no buffer, no change; otherwise the state machine has taken
\* the command before the driver says whether it could be written.
RibsuWrite ==
    /\ Call
    /\ \E c \in Commands :
          \/ interp /\ "alloc" \in Faults /\ UNCHANGED <<usmVars, toDev>>
          \/ /\ interp /\ UsmProcessUser(c)
             /\ \/ toDev' = Append(toDev, CommandSent(c))
                \/ "write" \in Faults /\ UNCHANGED toDev
          \/ /\ ~interp /\ UNCHANGED usmVars
             /\ \/ toDev' = Append(toDev, c)
                \/ "write" \in Faults /\ UNCHANGED toDev
    /\ UNCHANGED <<callbackVars, wire, devMode, nCodes, expected, interp, shown>>

RibsuToggleInterpretation ==
    /\ Toggle /\ Call
    /\ interp' = ~interp
    /\ UNCHANGED <<usmVars, callbackVars, deviceVars, shown>>

RibsuSetDefaultFrequency ==
    /\ Call
    /\ default_frequency' \in Frequencies
    /\ UNCHANGED <<mode, state, agg, rr, rr2, callbackVars, deviceVars, interp, shown>>

\* ribsu_callback with the bytes of a read, up to the test of the loop.
RibsuCallback(buf) ==
    \/ interp /\ "alloc" \in Faults /\ UNCHANGED <<usmVars, callbackVars, shown>>
    \/ interp /\ UsmProcessUirt(buf) /\ UNCHANGED shown
    \/ ~interp /\ ShowLine(buf) /\ UNCHANGED <<usmVars, callbackVars>>

\* The driver has read k bytes.
DriverRead ==
    /\ pc = "runloop"
    /\ \E k \in 1 .. MaxRead :
          /\ k <= Len(wire)
          /\ AnyCut \/ wire[k].ends
          /\ RibsuCallback([i \in 1 .. k |-> wire[i].b])
          /\ wire' = SubSeq(wire, k + 1, Len(wire))
    /\ UNCHANGED <<toDev, devMode, nCodes, expected, interp, nCmds>>

\* The body of the loop: show the line there is and ask for another.
Propagate ==
    /\ pc = "propagate"
    /\ ShowLine(out)
    /\ UsmProcessUirtMore
    /\ UNCHANGED <<deviceVars, interp, nCmds>>

Parse == UsmParse /\ UNCHANGED <<deviceVars, interp, shown, nCmds>>

Callback == Propagate \/ Parse

Device ==
    /\ DeviceAnswer \/ DeviceCode
    /\ UNCHANGED <<usmVars, callbackVars, interp, shown, nCmds>>

\* Nothing to do: the run loop waits.  Undefined behaviour is not followed.
Waiting == pc = "runloop" /\ wire = <<>> /\ toDev = <<>> /\ UNCHANGED vars
Undefined == pc = "undefined" /\ UNCHANGED vars

Next ==
    \/ RibsuWrite
    \/ RibsuToggleInterpretation
    \/ RibsuSetDefaultFrequency
    \/ DriverRead
    \/ Callback
    \/ Device
    \/ Waiting
    \/ Undefined

Answering == DeviceAnswer /\ UNCHANGED <<usmVars, callbackVars, interp, shown, nCmds>>

\* A callback that has begun runs on; the run loop dispatches a read that is
\* ready; the device answers.  Nobody has to send anything.
Fairness == WF_vars(Callback) /\ WF_vars(DriverRead) /\ WF_vars(Answering)

Spec == Init /\ [][Next]_vars
FairSpec == Spec /\ Fairness
=============================================================================
