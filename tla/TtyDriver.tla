----------------------------- MODULE TtyDriver -----------------------------
(***************************************************************************)
(* tty.c: a serial port, opened without blocking, read through a stdio     *)
(* stream and written directly.  The run loop watches the descriptor.      *)
(* Bytes from the device are numbered, so that their order can be seen.    *)
(* The module has the driver's steps; Startup runs them.                   *)
(***************************************************************************)
EXTENDS Integers, Sequences, SequencesExt

CONSTANTS
    Commands,       \* commands that can be written
    RAW_MAX,        \* capacity of raw in tty_read_callback: 512
    StdioMax,       \* capacity of the stream's buffer
    OutputMax,      \* capacity of the port's output queue
    MaxBytes, MaxWrites, MaxSerial      \* bounds

ASSUME TtyAssumption ==
    /\ Commands \subseteq Seq(Nat) \ {<<>>}    \* ribsu_write writes a byte or more
    /\ {RAW_MAX, StdioMax, OutputMax} \subseteq Nat \ {0}
    /\ {MaxBytes, MaxWrites, MaxSerial} \subseteq Nat

VARIABLES
    at,          \* where the program is; see Startup
    serial,      \* the serial services a search has yet to give
    port,        \* the serial port: the one named, later the one found
    fd, fp,      \* tty_ctx: "none", "open" or "closed"; fp "unset" before it is
    source,      \* the descriptor is a source of the run loop
    hungUp,      \* the device is gone
    queue,       \* bytes in the port's input queue
    stdio,       \* bytes in the stream's buffer
    output,      \* number of bytes in the port's output queue
    cmd,         \* the command tty_write is at
    nSent,       \* history: bytes 1 .. nSent were sent by the device
    given,       \* history: bytes callback_fn was given
    written      \* history: what became of each command

\* There is no port; it cannot be opened, or configured once it is open;
\* add_fd_source fails for it; all is well.
Ports == {"absent", "refuses", "unsettable", "unwatchable", "works"}

\* "other" is a service without a path, or with one that says nothing of
\* usbserial.
SerialServices == (Ports \ {"absent"}) \cup {"other"}

portVars == <<serial, port>>
openVars == <<portVars, fd, fp, source>>
inputVars == <<queue, stdio, nSent, given>>
outputVars == <<output, cmd, written>>
ttyVars == <<openVars, inputVars, outputVars, hungUp>>

TtyInit ==
    /\ fd = "none" /\ fp = "unset" /\ source = FALSE
    /\ hungUp = FALSE /\ queue = <<>> /\ stdio = <<>> /\ nSent = 0 /\ given = <<>>
    /\ output = 0 /\ cmd = <<>> /\ written = <<>>

(***************************************************************************)
(* Opening.                                                                *)
(***************************************************************************)

\* s has its first member that is not x at i.
FirstBut(x, s, i) == i \in DOMAIN s /\ s[i] # x /\ \A j \in 1 .. i - 1 : s[j] = x

\* GetModemPath goes through the services to the first that looks right.
Modem(i) == FirstBut("other", serial, i)

\* tty_find_device; when FindModems fails there are none.
TtyFindDevice(found, fails) ==
    /\ \/ \E i \in DOMAIN serial : Modem(i) /\ port' = serial[i] /\ at' = found
       \/ (\A i \in DOMAIN serial : ~Modem(i)) /\ at' = fails /\ UNCHANGED port
    /\ serial' = <<>>

SerialPortOpens == port \in {"unwatchable", "works"}

\* Mutant: a port that cannot be configured stays open.
OpenSerialPortLeavesOpen ==
    fd' = IF port \in {"absent", "refuses"} THEN "none" ELSE "open"

\* OpenSerialPort: opened, and closed again when an attribute cannot be set.
OpenSerialPort ==
    fd' = CASE port \in {"absent", "refuses"} -> "none"
            [] port = "unsettable"             -> "closed"
            [] SerialPortOpens                 -> "open"

\* Mutant: the stream is not stored.
TtyAddSourceForgetsStream(succeeds, fails) ==
    /\ OpenSerialPort
    /\ source' = (port = "works")
    /\ at' = IF SerialPortOpens THEN succeeds ELSE fails
    /\ UNCHANGED <<portVars, fp>>

\* tty_add_source succeeds when OpenSerialPort does: the result of
\* add_fd_source is not looked at, and without it fp stays unset.
TtyAddSource(succeeds, fails) ==
    /\ OpenSerialPort
    /\ source' = (port = "works")
    /\ fp' = IF port = "works" THEN "open" ELSE "unset"
    /\ at' = IF SerialPortOpens THEN succeeds ELSE fails
    /\ UNCHANGED portVars

(***************************************************************************)
(* Reading.                                                                *)
(***************************************************************************)

\* External: the device sends bytes, up to a few at once, or goes away.
DeviceSends(k) ==
    /\ fd = "open" /\ ~hungUp /\ nSent + k <= MaxBytes
    /\ queue' = queue \o [i \in 1 .. k |-> nSent + i]
    /\ nSent' = nSent + k
    /\ UNCHANGED <<at, openVars, stdio, given, outputVars, hungUp>>

HangUp ==
    /\ fd = "open" /\ ~hungUp
    /\ hungUp' = TRUE
    /\ UNCHANGED <<at, openVars, inputVars, outputVars>>

TtyReady == at = "runloop" /\ source /\ (queue # <<>> \/ hungUp)

\* Bytes that fread returns, at most all that are there.
FreadCount ==
    LET all == Len(stdio) + Len(queue) IN IF all < RAW_MAX THEN all ELSE RAW_MAX

\* Bytes that it moves to the stream's buffer for that: as many bufferfuls
\* as it takes, the last one with what is there.
FreadFetched ==
    LET need  == FreadCount - Len(stdio)
        whole == ((need + StdioMax - 1) \div StdioMax) * StdioMax
    IN  IF need <= 0 THEN 0 ELSE IF whole < Len(queue) THEN whole ELSE Len(queue)

\* Mutant: the source is not used again.
TtyReadCallbackOnce ==
    /\ TtyReady
    /\ given' = given \o SubSeq(stdio \o queue, 1, FreadCount)
    /\ stdio' = SubSeq(stdio \o queue, FreadCount + 1, Len(stdio) + FreadFetched)
    /\ queue' = SubSeq(queue, FreadFetched + 1, Len(queue))
    /\ source' = FALSE
    /\ UNCHANGED <<at, portVars, fd, fp, nSent, outputVars, hungUp>>

\* tty_read_callback: fread until raw is full or the port has no more, then
\* callback_fn.  With nothing to read (n < 1) it returns, to be called again.
TtyReadCallback ==
    /\ TtyReady
    /\ given' = given \o SubSeq(stdio \o queue, 1, FreadCount)
    /\ stdio' = SubSeq(stdio \o queue, FreadCount + 1, Len(stdio) + FreadFetched)
    /\ queue' = SubSeq(queue, FreadFetched + 1, Len(queue))
    /\ UNCHANGED <<at, openVars, nSent, outputVars, hungUp>>

(***************************************************************************)
(* Writing.                                                                *)
(***************************************************************************)

\* tty_write is called, by the command line's callback.
TtyWrite ==
    /\ at = "runloop" /\ Len(written) < MaxWrites
    /\ cmd' \in Commands
    /\ written' = Append(written, [cmd |-> cmd', taken |-> <<>>, ok |-> TRUE])
    /\ at' = "write"
    /\ UNCHANGED <<openVars, inputVars, output, hungUp>>

Sent == Len(Last(written).taken)      \* sent of tty_write

\* write takes some bytes, as far as there is room.
WriteSome ==
    /\ at = "write" /\ Sent < Len(cmd) /\ ~hungUp
    /\ \E k \in 1 .. OutputMax :
          /\ output + k <= OutputMax /\ Sent + k <= Len(cmd)
          /\ output' = output + k
          /\ written' = [written EXCEPT ![Len(written)].taken =
                            @ \o SubSeq(cmd, Sent + 1, Sent + k)]
    /\ UNCHANGED <<at, openVars, inputVars, cmd, hungUp>>

\* Mutant: an error of write ends the loop but is not returned.
WriteErrorUnreported ==
    /\ at = "write" /\ Sent < Len(cmd) /\ (hungUp \/ output = OutputMax)
    /\ at' = "runloop"
    /\ UNCHANGED <<openVars, inputVars, outputVars, hungUp>>

\* write fails: it would block, or nobody is there.
WriteError ==
    /\ at = "write" /\ Sent < Len(cmd) /\ (hungUp \/ output = OutputMax)
    /\ written' = [written EXCEPT ![Len(written)].ok = FALSE]
    /\ at' = "runloop"
    /\ UNCHANGED <<openVars, inputVars, output, cmd, hungUp>>

\* The loop has sent everything.
WriteReturns ==
    /\ at = "write" /\ Sent = Len(cmd)
    /\ at' = "runloop"
    /\ UNCHANGED <<openVars, inputVars, outputVars, hungUp>>

\* External: the port sends its output on, to the device.
PortDrains ==
    /\ output > 0 /\ ~hungUp
    /\ output' = output - 1
    /\ UNCHANGED <<at, openVars, inputVars, cmd, written, hungUp>>

(***************************************************************************)
(* Closing.                                                                *)
(***************************************************************************)

\* Mutant: tcdrain is called until it succeeds.
CloseSerialPortInsists ==
    /\ at = "tcdrain" /\ output = 0
    /\ fd' = "closed"
    /\ at' = "fclose"
    /\ UNCHANGED <<portVars, fp, source, inputVars, outputVars, hungUp>>

\* CloseSerialPort: tcdrain returns when the output is sent, or with an error.
CloseSerialPort ==
    /\ at = "tcdrain" /\ (output = 0 \/ hungUp)
    /\ fd' = "closed"
    /\ at' = "fclose"
    /\ UNCHANGED <<portVars, fp, source, inputVars, outputVars, hungUp>>

\* The rest of tty_shutdown: fclose, of whatever fp is.
TtyFclose(end) ==
    /\ at = "fclose"
    /\ at' = IF fp = "unset" THEN "undefined" ELSE end
    /\ fp' = IF fp = "unset" THEN fp ELSE "closed"
    /\ UNCHANGED <<portVars, fd, source, inputVars, outputVars, hungUp>>

(***************************************************************************)
(* What is promised.                                                       *)
(***************************************************************************)
Promise == INSTANCE DriverPromise WITH
    sent    <- [i \in 1 .. nSent |-> i],
    written <- IF at = "write" THEN Front(written) ELSE written
=============================================================================
