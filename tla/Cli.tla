--------------------------------- MODULE Cli ---------------------------------
(***************************************************************************)
(* main.c: the command line.  The run loop watches descriptor 0 and calls  *)
(* stdin_read_callback when it can be read; the callback reads through a   *)
(* stdio stream and handles one word.  While it waits in fgetc for the end *)
(* of a word the run loop does nothing else, the device is not served and  *)
(* a signal does not stop the program.                                     *)
(***************************************************************************)
EXTENDS Integers, Sequences, SequencesExt

CONSTANTS
    Chunks,       \* what can be written to stdin at once, sequences of characters
    StdioMax,     \* capacity of the stdio buffer
    HexMax,       \* characters of a word that are kept: hex->max, 1025
    MaxWrites,    \* bound: chunks written in a behaviour
    MaxData       \* bound: times data comes from the device

Separators == {" ", "\n"}

ASSUME CliAssumption ==
    /\ Chunks \subseteq Seq(STRING)
    /\ StdioMax \in Nat \ {0} /\ HexMax \in Nat \ {0}
    /\ MaxWrites \in Nat /\ MaxData \in Nat

VARIABLES
    input,        \* history: the characters written to stdin
    pipe,         \* those not yet read off the descriptor
    closed,       \* stdin was closed, or Ctrl-D typed
    stdio,        \* read off the descriptor, not yet through fgetc
    hex,          \* the word stdin_read_callback is reading
    at,           \* "runloop", "fgetc", "stopped"
    stop,         \* CFRunLoopStop was called
    sawEof,       \* ... because the stream ended
    calls,        \* history: what the words were handled as
    dataReady,    \* the driver has data for ribsu_callback
    nWrites, nData

stdinVars == <<input, pipe, closed, nWrites>>
deviceVars == <<dataReady, nData>>
vars == <<stdinVars, stdio, hex, at, stop, sawEof, calls, deviceVars>>

Init ==
    /\ input = <<>> /\ pipe = <<>> /\ closed = FALSE
    /\ stdio = <<>> /\ hex = <<>> /\ at = "runloop"
    /\ stop = FALSE /\ sawEof = FALSE /\ calls = <<>>
    /\ dataReady = FALSE /\ nWrites = 0 /\ nData = 0

\* The user types, or another program writes.
Type ==
    /\ ~closed /\ nWrites < MaxWrites
    /\ \E chunk \in Chunks :
          /\ input' = input \o chunk
          /\ pipe' = pipe \o chunk
    /\ nWrites' = nWrites + 1
    /\ UNCHANGED <<closed, stdio, hex, at, stop, sawEof, calls, deviceVars>>

CloseStdin ==
    /\ ~closed
    /\ closed' = TRUE
    /\ UNCHANGED <<input, pipe, nWrites, stdio, hex, at, stop, sawEof, calls, deviceVars>>

DataArrives ==
    /\ nData < MaxData
    /\ dataReady' = TRUE
    /\ nData' = nData + 1
    /\ UNCHANGED <<stdinVars, stdio, hex, at, stop, sawEof, calls>>

\* signal_handler: the run loop stops when the callback in it returns.
Signal ==
    /\ at # "stopped" /\ ~stop
    /\ stop' = TRUE
    /\ at' = IF at = "runloop" THEN "stopped" ELSE at
    /\ UNCHANGED <<stdinVars, stdio, hex, sawEof, calls, deviceVars>>

\* Mutant: the end of the stream does not make the descriptor ready.
StdinReadyWithBytes ==
    /\ at = "runloop"
    /\ pipe # <<>>
    /\ at' = "fgetc"
    /\ hex' = <<>>
    /\ UNCHANGED <<stdinVars, stdio, stop, sawEof, calls, deviceVars>>

\* The run loop sees the descriptor, not what stdio holds.  (A callback that
\* gets no buffer returns at once: a step that changes nothing.)
StdinReady ==
    /\ at = "runloop"
    /\ pipe # <<>> \/ closed
    /\ at' = "fgetc"
    /\ hex' = <<>>
    /\ UNCHANGED <<stdinVars, stdio, stop, sawEof, calls, deviceVars>>

\* The run loop calls the driver, and that calls the library.
DeviceReady ==
    /\ at = "runloop" /\ dataReady
    /\ dataReady' = FALSE
    /\ UNCHANGED <<stdinVars, stdio, hex, at, stop, sawEof, calls, nData>>

\* The function a word is given to.
Dispatch(word) ==
    CASE word[1] = "Q" -> "CFRunLoopStop"
      [] word[1] = "F" -> "ribsu_set_default_frequency"
      [] word[1] = "I" -> "ribsu_toggle_interpretation"
      [] OTHER         -> "ribsu_write"

\* Mutant: the callback goes back to the run loop whatever was called in it.
ReturnGoesOn == at' = "runloop"

Return == at' = IF stop' THEN "stopped" ELSE "runloop"

\* fgetc finds its buffer empty and reads the descriptor; it waits when there
\* is nothing.  A pipe gives all there is room for, a terminal no more than a
\* line.
FillStdio ==
    /\ at = "fgetc" /\ stdio = <<>>
    /\ \E k \in 1 .. Len(pipe) :
          /\ k <= StdioMax
          /\ k = StdioMax \/ k = Len(pipe) \/ pipe[k] = "\n"
          /\ stdio' = SubSeq(pipe, 1, k)
          /\ pipe' = SubSeq(pipe, k + 1, Len(pipe))
    /\ UNCHANGED <<input, closed, nWrites, hex, at, stop, sawEof, calls, deviceVars>>

\* Mutant: the end of a line does not end a word.
WordEndsAtSpace == stdio[1] = " " \/ Len(hex) >= HexMax

\* The loop of stdin_read_callback ends at this character, and takes it: of a
\* word longer than HexMax one character is lost and the rest is another word.
WordEnds == stdio[1] \in Separators \/ Len(hex) >= HexMax

\* fgetc returns a character of the word.
NextCharacter ==
    /\ at = "fgetc" /\ stdio # <<>> /\ ~WordEnds
    /\ hex' = Append(hex, stdio[1])
    /\ stdio' = Tail(stdio)
    /\ UNCHANGED <<stdinVars, at, stop, sawEof, calls, deviceVars>>

\* Mutant: what else is buffered is thrown away with the end of the word.
HandleWordFlushes ==
    /\ at = "fgetc" /\ stdio # <<>> /\ WordEnds
    /\ stdio' = <<>>
    /\ calls' = IF hex = <<>> THEN calls
                ELSE Append(calls, [fn |-> Dispatch(hex), word |-> hex])
    /\ stop' = (stop \/ (hex # <<>> /\ hex[1] = "Q"))
    /\ Return
    /\ UNCHANGED <<stdinVars, hex, sawEof, deviceVars>>

\* The end of a word: an empty one is skipped.
HandleWord ==
    /\ at = "fgetc" /\ stdio # <<>> /\ WordEnds
    /\ stdio' = Tail(stdio)
    /\ calls' = IF hex = <<>> THEN calls
                ELSE Append(calls, [fn |-> Dispatch(hex), word |-> hex])
    /\ stop' = (stop \/ (hex # <<>> /\ hex[1] = "Q"))
    /\ Return
    /\ UNCHANGED <<stdinVars, hex, sawEof, deviceVars>>

\* Mutants: the end of the stream is not a reason to stop; it is seen before
\* what was written is read.
HandleEofGoesOn ==
    /\ at = "fgetc" /\ stdio = <<>> /\ pipe = <<>> /\ closed
    /\ sawEof' = TRUE
    /\ UNCHANGED stop
    /\ Return
    /\ UNCHANGED <<stdinVars, stdio, hex, calls, deviceVars>>

HandleEofEarly ==
    /\ at = "fgetc" /\ stdio = <<>> /\ closed
    /\ stop' = TRUE /\ sawEof' = TRUE
    /\ Return
    /\ UNCHANGED <<stdinVars, stdio, hex, calls, deviceVars>>

\* The end of the stream: the word before it is dropped.
HandleEof ==
    /\ at = "fgetc" /\ stdio = <<>> /\ pipe = <<>> /\ closed
    /\ stop' = TRUE /\ sawEof' = TRUE
    /\ Return
    /\ UNCHANGED <<stdinVars, stdio, hex, calls, deviceVars>>

StdinReadCallback == FillStdio \/ NextCharacter \/ HandleWord \/ HandleEof

\* The run loop has nothing to do, fgetc waits, or the program has ended.
Idle ==
    /\ \/ at = "runloop" /\ pipe = <<>> /\ ~closed
       \/ at = "fgetc" /\ stdio = <<>> /\ pipe = <<>> /\ ~closed
       \/ at = "stopped"
    /\ UNCHANGED vars

Next ==
    \/ Type \/ CloseStdin \/ DataArrives \/ Signal
    \/ StdinReady \/ DeviceReady \/ StdinReadCallback
    \/ Idle

Spec == Init /\ [][Next]_vars

\* The run loop dispatches what is ready, each source in its turn; a callback
\* runs on.  Nobody has to type.
Fairness == SF_vars(StdinReady) /\ SF_vars(DeviceReady) /\ WF_vars(StdinReadCallback)

FairSpec == Spec /\ Fairness
=============================================================================
