------------------------------ MODULE UirtLink ------------------------------
(***************************************************************************)
(* What the library promises its application, with no bytes in it: the     *)
(* replies and the IR codes the USB-UIRT sends are shown one per callback, *)
(* whole, each once and in the order they were sent, and none is kept back *)
(* for ever.                                                               *)
(***************************************************************************)
EXTENDS Naturals, Sequences

CONSTANT Line

VARIABLES sent, shown      \* lines sent by the device, lines shown

Init == sent = <<>> /\ shown = <<>>

Send ==
    /\ sent' \in Seq(Line)
    /\ Len(sent') > Len(sent)
    /\ SubSeq(sent', 1, Len(sent)) = sent
    /\ UNCHANGED shown

Show ==
    /\ Len(shown) < Len(sent)
    /\ shown' = Append(shown, sent[Len(shown) + 1])
    /\ UNCHANGED sent

Next == Send \/ Show

Safety   == Init /\ [][Next]_<<sent, shown>>
Liveness == WF_<<sent, shown>>(Show)

=============================================================================
