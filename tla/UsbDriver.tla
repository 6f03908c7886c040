------------------------------ MODULE UsbDriver ------------------------------
(***************************************************************************)
(* usb.c on the run loop: one read is posted at a time into the one buffer *)
(* of the context, and posted again when its data has been used; commands  *)
(* are written in chunks.  A packet is its data: the two status bytes every *)
(* packet starts with are left out, a packet of status alone is <<>>.      *)
(***************************************************************************)
EXTENDS Integers, Sequences, SequencesExt

CONSTANTS
    Packets,      \* packets the device can send
    Commands,     \* commands that can be written
    CHUNK,        \* bytes a WritePipe takes: 64
    Faults,       \* of "prime", "rearm" (ReadPipeAsync fails), "read", "write"
    MaxPackets, MaxWrites, MaxFailed      \* bounds

ASSUME UsbAssumption ==
    /\ Packets \subseteq Seq(Nat) /\ Commands \subseteq Seq(Nat)
    /\ CHUNK \in Nat \ {0}
    /\ Faults \subseteq {"prime", "rearm", "read", "write"}
    /\ MaxPackets \in Nat /\ MaxWrites \in Nat /\ MaxFailed \in Nat

VARIABLES
    pos,        \* "setup", "runloop", "callback", "write", "stopped"
    posted,     \* a read is posted
    done,       \* it has completed, usb_read_callback is to be called
    buf,        \* ctx->buf: what the last transfer left there, and its size
    queue,      \* packets in the device
    cmd, i,     \* the command usb_write is at, and how much of it is written
    sent,       \* history: packets the device has sent
    got,        \* history: what callback_fn was given
    written,    \* history: what became of each command
    nFailed

readVars == <<posted, done, buf, got>>
deviceVars == <<queue, sent>>
writeVars == <<cmd, i, written>>
vars == <<pos, readVars, deviceVars, writeVars, nFailed>>

Init ==
    /\ pos = "setup" /\ posted = FALSE /\ done = FALSE /\ buf = <<>>
    /\ queue = <<>> /\ sent = <<>> /\ got = <<>>
    /\ cmd = <<>> /\ i = 0 /\ written = <<>> /\ nFailed = 0

\* The end of initUIRT: the result of async_read is not looked at.
Prime ==
    /\ pos = "setup"
    /\ posted' \in {TRUE} \cup (IF "prime" \in Faults THEN {FALSE} ELSE {})
    /\ pos' = "runloop"
    /\ UNCHANGED <<done, buf, got, deviceVars, writeVars, nFailed>>

\* External: the device sends a packet.
Send ==
    /\ Len(sent) < MaxPackets
    /\ \E packet \in Packets :
          /\ queue' = Append(queue, packet)
          /\ sent' = Append(sent, packet)
    /\ UNCHANGED <<pos, readVars, writeVars, nFailed>>

\* External: a posted read is served, at any time, or fails.
Transfer ==
    /\ posted /\ queue # <<>>
    /\ buf' = Head(queue)
    /\ queue' = Tail(queue)
    /\ posted' = FALSE /\ done' = TRUE
    /\ UNCHANGED <<pos, got, sent, writeVars, nFailed>>

\* It fails with no data, or with that of a packet: the size is handed over
\* with an error as well.
TransferFails ==
    /\ "read" \in Faults /\ posted /\ nFailed < MaxFailed
    /\ \/ buf' = <<>> /\ UNCHANGED queue
       \/ queue # <<>> /\ buf' = Head(queue) /\ queue' = Tail(queue)
    /\ posted' = FALSE /\ done' = TRUE
    /\ nFailed' = nFailed + 1
    /\ UNCHANGED <<pos, got, sent, writeVars>>

\* The end of usb_read_callback: the read is posted again, or the run loop
\* is told to stop.
AsyncRead ==
    \/ posted' = TRUE /\ pos' = "runloop"
    \/ "rearm" \in Faults /\ UNCHANGED posted /\ pos' = "stopped"

\* Mutant: the read is posted again before callback_fn is called.
UsbReadCallbackPostsFirst ==
    /\ pos = "runloop" /\ done
    /\ done' = FALSE
    /\ posted' = TRUE
    /\ pos' = IF buf # <<>> THEN "callback" ELSE "runloop"
    /\ UNCHANGED <<buf, got, deviceVars, writeVars, nFailed>>

\* Mutant: the read is posted again only after data.
UsbReadCallbackWithData ==
    /\ pos = "runloop" /\ done
    /\ done' = FALSE
    /\ pos' = IF buf # <<>> THEN "callback" ELSE "runloop"
    /\ UNCHANGED <<posted, buf, got, deviceVars, writeVars, nFailed>>

\* usb_read_callback, to the call of callback_fn if there is data, whatever
\* result is.
UsbReadCallback ==
    /\ pos = "runloop" /\ done
    /\ done' = FALSE
    /\ \/ buf # <<>> /\ pos' = "callback" /\ UNCHANGED posted
       \/ buf = <<>> /\ AsyncRead
    /\ UNCHANGED <<buf, got, deviceVars, writeVars, nFailed>>

\* callback_fn has used the buffer and returns.
CallbackReturns ==
    /\ pos = "callback"
    /\ got' = Append(got, buf)
    /\ AsyncRead
    /\ UNCHANGED <<done, buf, deviceVars, writeVars, nFailed>>

\* usb_write is called, by the command line's callback.
UsbWrite ==
    /\ pos = "runloop" /\ Len(written) < MaxWrites
    /\ cmd' \in Commands
    /\ i' = 0
    /\ written' = Append(written, [cmd |-> cmd', taken |-> <<>>, ok |-> TRUE])
    /\ pos' = "write"
    /\ UNCHANGED <<readVars, deviceVars, nFailed>>

\* The next chunk of the loop of usb_write.
Chunk == SubSeq(cmd, i + 1, IF i + CHUNK <= Len(cmd) THEN i + CHUNK ELSE Len(cmd))

LastWritten == written[Len(written)]

WriteChunk ==
    /\ pos = "write" /\ i < Len(cmd)
    /\ written' = [written EXCEPT ![Len(written)].taken = @ \o Chunk]
    /\ i' = i + CHUNK
    /\ UNCHANGED <<pos, cmd, readVars, deviceVars, nFailed>>

\* Mutant: the loop goes on after a chunk that failed.
WriteFailsAndGoesOn ==
    /\ "write" \in Faults /\ nFailed < MaxFailed
    /\ pos = "write" /\ i < Len(cmd)
    /\ written' = [written EXCEPT ![Len(written)].ok = FALSE]
    /\ i' = i + CHUNK
    /\ nFailed' = nFailed + 1
    /\ UNCHANGED <<pos, cmd, readVars, deviceVars>>

\* The chunk is refused: the loop breaks.
WriteFails ==
    /\ "write" \in Faults /\ nFailed < MaxFailed
    /\ pos = "write" /\ i < Len(cmd)
    /\ written' = [written EXCEPT ![Len(written)].ok = FALSE]
    /\ pos' = "runloop"
    /\ nFailed' = nFailed + 1
    /\ UNCHANGED <<cmd, i, readVars, deviceVars>>

WriteReturns ==
    /\ pos = "write" /\ i >= Len(cmd)
    /\ pos' = "runloop"
    /\ UNCHANGED <<cmd, i, written, readVars, deviceVars, nFailed>>

Idle ==
    /\ \/ pos = "runloop" /\ ~done /\ (queue = <<>> \/ ~posted)
       \/ pos = "stopped"
    /\ UNCHANGED vars

UsbRead == UsbReadCallback \/ CallbackReturns
UsbWriting == WriteChunk \/ WriteFails \/ WriteReturns

Next ==
    \/ Prime \/ Send \/ Transfer \/ TransferFails
    \/ UsbRead \/ UsbWrite \/ UsbWriting \/ Idle

Spec == Init /\ [][Next]_vars

\* The bus serves a posted read, the run loop calls a completion, a write and
\* a callback run on, setting up ends.  A run loop source that is ready is
\* called however many commands are written.
Fairness ==
    /\ WF_vars(Prime) /\ WF_vars(Transfer)
    /\ SF_vars(UsbReadCallback) /\ WF_vars(CallbackReturns) /\ WF_vars(UsbWriting)

FairSpec == Spec /\ Fairness

(***************************************************************************)
(* What should be true of the driver.                                      *)
(***************************************************************************)

\* Every variable has its type; at most one read is out at a time.
TypeOK ==
    /\ pos \in {"setup", "runloop", "callback", "write", "stopped"}
    /\ posted \in BOOLEAN /\ done \in BOOLEAN /\ ~(posted /\ done)
    /\ buf \in Seq(Nat) /\ cmd \in Seq(Nat) /\ i \in Nat
    /\ queue \in Seq(Seq(Nat)) /\ sent \in Seq(Seq(Nat)) /\ got \in Seq(Seq(Nat))
    /\ written \in Seq([cmd: Seq(Nat), taken: Seq(Nat), ok: BOOLEAN])
    /\ nFailed \in Nat

\* The library is given the data the device sent, in order and once, though
\* there is one buffer and the device may write it while a read is posted
\* (ReadPipeAsync into ctx->buf, usb.c:582).
Data(packets) ==
    FlattenSeq([k \in DOMAIN packets |->
                   IF packets[k] = <<>> THEN <<>> ELSE <<packets[k]>>])
DataInOrder == IsPrefix(got, Data(sent))

Listening == posted \/ done \/ pos = "callback"

\* Once the driver listens it goes on listening, whatever a read brought,
\* until the run loop is stopped (the end of usb_read_callback).
ListensOn == [][Listening => Listening' \/ pos' = "stopped"]_vars

\* Data that was sent reaches the library, unless the run loop is stopped.
\* (The first read of initUIRT may fail unnoticed: then nothing listens.)
DataArrives ==
    <>Listening =>
        \A k \in 1 .. MaxPackets :
            (Len(Data(sent)) >= k) ~> (Len(got) >= k \/ pos = "stopped")

\* The device takes the beginning of every command, all of it exactly when
\* usb_write says so: nothing is left out, written twice or beyond its end.
WholeOrError ==
    pos # "write" =>
        \A k \in DOMAIN written :
            LET w == written[k]
            IN  IsPrefix(w.taken, w.cmd) /\ (w.ok <=> w.taken = w.cmd)

Promise == INSTANCE DriverPromise WITH
    sent    <- FlattenSeq(sent),
    given   <- FlattenSeq(got),
    written <- IF pos = "write" THEN Front(written) ELSE written

\* The USB driver keeps the promise of a driver, which the TTY driver keeps
\* too (the pointers drv, drv_write of ribsu_ctx): however reads and chunks
\* fall, the library sees a stream of bytes and commands whole or reported.
UsbKeepsPromise == Promise!Spec
=============================================================================
