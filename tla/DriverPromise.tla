--------------------------- MODULE DriverPromise ---------------------------
(***************************************************************************)
(* What the library relies on in a driver, the USB or the TTY one: the     *)
(* bytes the device sends come to callback_fn in order and once, and what  *)
(* drv_write returns says whether the device was given the whole command.  *)
(***************************************************************************)
EXTENDS SequencesExt

VARIABLES
    sent,       \* bytes the device has sent
    given,      \* bytes callback_fn was given
    written     \* finished calls of drv_write: [cmd, taken, ok]

vars == <<sent, given, written>>

Init == sent = <<>> /\ given = <<>> /\ written = <<>>

\* The device sends some more.
Send == IsStrictPrefix(sent, sent') /\ UNCHANGED <<given, written>>

\* callback_fn is called with the next bytes.
Give ==
    /\ IsStrictPrefix(given, given') /\ IsPrefix(given', sent)
    /\ UNCHANGED <<sent, written>>

\* drv_write: the beginning of the command is taken, all of it exactly when
\* the result says so.
Whole(w) == IsPrefix(w.taken, w.cmd) /\ (w.ok <=> w.taken = w.cmd)

Write ==
    /\ Len(written') = Len(written) + 1 /\ IsPrefix(written, written')
    /\ Whole(Last(written'))
    /\ UNCHANGED <<sent, given>>

Next == Send \/ Give \/ Write

Spec == Init /\ [][Next]_vars
=============================================================================
