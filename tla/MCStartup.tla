----------------------------- MODULE MCStartup -----------------------------
(***************************************************************************)
(* Instances of Startup.                                                   *)
(***************************************************************************)
EXTENDS Startup

\* No option, -u, -t -, -t <device>, -u -t <device>.
MCInvocations ==
    {[usb |-> FALSE, tty |-> FALSE, named |-> FALSE],
     [usb |-> TRUE,  tty |-> FALSE, named |-> FALSE],
     [usb |-> FALSE, tty |-> TRUE,  named |-> FALSE],
     [usb |-> FALSE, tty |-> TRUE,  named |-> TRUE],
     [usb |-> TRUE,  tty |-> TRUE,  named |-> TRUE]}

\* A command that fits the output queue and one that does not.
MCCommands == {<<1, 2>>, <<1, 2, 3>>}
=============================================================================
