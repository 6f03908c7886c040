---------------------------- MODULE CliProperties ----------------------------
(***************************************************************************)
(* What should be true of the command line.                                *)
(***************************************************************************)
EXTENDS Cli

\* The words of a text: the runs of characters between separators that are
\* ended by one; what follows the last separator is not a word yet.
None == [done |-> <<>>, word |-> <<>>]

AddCharacter(acc, c) ==
    CASE c \notin Separators -> [acc EXCEPT !.word = Append(@, c)]
      [] c \in Separators /\ acc.word = <<>> -> acc
      [] c \in Separators /\ acc.word # <<>> ->
            [done |-> Append(acc.done, acc.word), word |-> <<>>]

Scan(text) ==
    LET scan[n \in 0 .. Len(text)] ==
            IF n = 0 THEN None ELSE AddCharacter(scan[n - 1], text[n])
    IN  scan[Len(text)]

Words(text) == Scan(text).done

\* The words handled, and what is read of the next one.
Handled == [i \in DOMAIN calls |-> calls[i].word]

Reading == IF at = "fgetc" THEN hex ELSE <<>>

\* Every variable has its type, and the stream ends only for a program that
\* stops (main.c:176).
TypeOK ==
    /\ input \in Seq(STRING) /\ pipe \in Seq(STRING)
    /\ stdio \in Seq(STRING) /\ Len(stdio) <= StdioMax
    /\ hex \in Seq(STRING) /\ Len(hex) <= HexMax
    /\ at \in {"runloop", "fgetc", "stopped"}
    /\ closed \in BOOLEAN /\ stop \in BOOLEAN /\ sawEof \in BOOLEAN
    /\ dataReady \in BOOLEAN
    /\ calls \in Seq([fn: {"CFRunLoopStop", "ribsu_set_default_frequency",
                         "ribsu_toggle_interpretation", "ribsu_write"},
                    word: Seq(STRING)])
    /\ sawEof => stop

\* No word is longer than the HexMax characters that are kept of it.
WordsFit ==
    \A i \in DOMAIN input :
        i + HexMax \in DOMAIN input => \E k \in i .. i + HexMax : input[k] \in Separators

\* Words are handled once each and in the order they were written, however
\* they were cut into writes and reads: those handled, the one being read and
\* those waiting in the two buffers are all there are.
WordsKept ==
    at # "stopped" /\ WordsFit =>
        Words(input) = Handled \o Words(Reading \o stdio \o pipe)

\* A program fed through a pipe ("echo code | ribsu", ribsu.rtf:75) handles
\* every word before it ends for want of more.
EofAfterWords == sawEof /\ WordsFit => Handled = Words(input)

\* "signal an EOF with Ctrl-D" (ribsu.rtf:30): a closed stdin ends the program.
EofStops == closed ~> (at = "stopped")

\* Nobody stops typing in the middle of a word.
LineEnded == closed \/ input = <<>> \/ Last(input) \in Separators
WordsEnd == []<>LineEnded

\* "press Ctrl-C" (ribsu.rtf:30): a signal ends the program, though the run
\* loop it stops cannot return while stdin_read_callback waits in fgetc.
SignalStops == WordsEnd => (stop ~> (at = "stopped"))

\* What the device sends reaches the library, however words are cut and
\* whatever waits in the stdio buffer.
DeviceServed == WordsEnd => (dataReady ~> (~dataReady \/ at = "stopped"))

\* "If you copy the 36 command line, paste it back into ribsu and press enter,
\* USB-UIRT will output the learned IR sequence" (ribsu.rtf:38): of a line that
\* was pasted and entered everything is handled.  It is not: a line is printed
\* with spaces (main.c:131), a word ends at a space (main.c:171), and
\* stdin_read_callback takes one word and leaves the others in the stdio buffer,
\* which the run loop does not watch.
PastedIsHandled == (Handled # Words(input)) ~> (Handled = Words(input) \/ at = "stopped")
=============================================================================
