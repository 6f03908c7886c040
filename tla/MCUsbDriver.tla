----------------------------- MODULE MCUsbDriver -----------------------------
(***************************************************************************)
(* Instances of UsbDriver.                                                 *)
(***************************************************************************)
EXTENDS UsbDriver

\* A packet of status alone and two with data.
MCPackets == {<<>>, <<1>>, <<2, 3>>}

\* Commands of no, less than one, exactly one, exactly two and more chunks.
MCCommands == {<<>>, <<1>>, <<1, 2>>, <<1, 2, 3, 4>>, <<1, 2, 3, 4, 5>>}
=============================================================================
