----------------------------- MODULE UsbProofs ------------------------------
(***************************************************************************)
(* Proofs about UsbDriver, for every set of packets and commands, size of  *)
(* a chunk and set of faults.                                              *)
(***************************************************************************)
EXTENDS UsbDriver, StreamLemmas

\* A transfer whose data the library has not been given yet.
Pending == done \/ pos = "callback"

\* While callback_fn runs no read is posted: nothing can overwrite the buffer.
ReadInv ==
    /\ pos = "setup" => ~posted /\ ~done
    /\ pos = "callback" => ~posted /\ ~done /\ buf # <<>>

\* A packet is with the library, in the buffer, or in the device: as bytes,
StreamInv ==
    FlattenSeq(sent) =
        (FlattenSeq(got) \o (IF Pending THEN buf ELSE <<>>)) \o FlattenSeq(queue)

\* and as the packets that hold data.
DataInv == Data(sent) = (got \o Data(IF Pending THEN <<buf>> ELSE <<>>)) \o Data(queue)

WholeRecord(w) == IsPrefix(w.taken, w.cmd) /\ (w.ok <=> w.taken = w.cmd)

\* Finished commands were taken whole or are reported; of the one usb_write
\* is at, the device has the first i bytes.
WriteInv ==
    /\ \A k \in DOMAIN written :
          (pos = "write" => k # Len(written)) => WholeRecord(written[k])
    /\ pos = "write" =>
          /\ written # <<>>
          /\ LastWritten =
                [cmd |-> cmd, ok |-> TRUE,
                 taken |-> SubSeq(cmd, 1, IF i <= Len(cmd) THEN i ELSE Len(cmd))]

\* The inductive invariant.
UsbInv == TypeOK /\ ReadInv /\ StreamInv /\ DataInv /\ WriteInv

-----------------------------------------------------------------------------
(* Packets and their data *)

Kept(packets) ==
    [k \in DOMAIN packets |-> IF packets[k] = <<>> THEN <<>> ELSE <<packets[k]>>]

\* What Data flattens: a sequence of at most one packet for each packet.
LEMMA KeptType ==
    ASSUME NEW p \in Seq(Seq(Nat))
    PROVE  /\ Kept(p) \in Seq(Seq(Seq(Nat)))
           /\ Len(Kept(p)) = Len(p)
           /\ \A k \in 1 .. Len(p) :
                 Kept(p)[k] = IF p[k] = <<>> THEN <<>> ELSE <<p[k]>>
<1>1. \A k \in 1 .. Len(p) : p[k] \in Seq(Nat)
  OBVIOUS
<1>2. \A x \in Seq(Nat) : (IF x = <<>> THEN <<>> ELSE <<x>>) \in Seq(Seq(Nat))
  OBVIOUS
<1>3. Kept(p) = [k \in 1 .. Len(p) |-> IF p[k] = <<>> THEN <<>> ELSE <<p[k]>>]
  BY DEF Kept
<1>4. \A k \in 1 .. Len(p) :
         Kept(p)[k] = (IF p[k] = <<>> THEN <<>> ELSE <<p[k]>>) /\ Kept(p)[k] \in Seq(Seq(Nat))
  BY <1>1, <1>2, <1>3
<1>5. Kept(p) \in [1 .. Len(p) -> Seq(Seq(Nat))]
  BY <1>3, <1>4
<1> QED BY <1>4, <1>5

\* It is made packet by packet.
LEMMA KeptConcat ==
    ASSUME NEW p \in Seq(Seq(Nat)), NEW q \in Seq(Seq(Nat))
    PROVE  Kept(p \o q) = Kept(p) \o Kept(q)
<1>1. p \o q \in Seq(Seq(Nat)) /\ Len(p \o q) = Len(p) + Len(q)
  OBVIOUS
<1>2. /\ Kept(p) \in Seq(Seq(Seq(Nat))) /\ Kept(q) \in Seq(Seq(Seq(Nat)))
      /\ Kept(p \o q) \in Seq(Seq(Seq(Nat)))
      /\ Len(Kept(p)) = Len(p) /\ Len(Kept(q)) = Len(q)
      /\ Len(Kept(p \o q)) = Len(p) + Len(q)
  BY <1>1, KeptType
<1>3. ASSUME NEW k \in 1 .. Len(p) + Len(q)
      PROVE  Kept(p \o q)[k] = (Kept(p) \o Kept(q))[k]
  <2>1. Kept(p \o q)[k] = IF (p \o q)[k] = <<>> THEN <<>> ELSE <<(p \o q)[k]>>
    BY <1>1, KeptType
  <2>2. CASE k <= Len(p)
    <3>1. (p \o q)[k] = p[k] /\ k \in 1 .. Len(p)
      BY <2>2
    <3>2. Kept(p)[k] = IF p[k] = <<>> THEN <<>> ELSE <<p[k]>>
      BY <3>1, KeptType
    <3>3. (Kept(p) \o Kept(q))[k] = Kept(p)[k]
      BY <1>2, <3>1
    <3> QED BY <2>1, <3>1, <3>2, <3>3
  <2>3. CASE k > Len(p)
    <3>1. (p \o q)[k] = q[k - Len(p)] /\ k - Len(p) \in 1 .. Len(q)
      BY <2>3
    <3>2. Kept(q)[k - Len(p)] = IF q[k - Len(p)] = <<>> THEN <<>> ELSE <<q[k - Len(p)]>>
      BY <3>1, KeptType
    <3>3. (Kept(p) \o Kept(q))[k] = Kept(q)[k - Len(p)]
      BY <1>2, <2>3, <3>1, SMTT(60)
    <3> QED BY <2>1, <3>1, <3>2, <3>3
  <2>4. k <= Len(p) \/ k > Len(p)
    OBVIOUS
  <2> QED BY <2>2, <2>3, <2>4, Zenon
<1>4. /\ Kept(p) \o Kept(q) \in Seq(Seq(Seq(Nat)))
      /\ Len(Kept(p) \o Kept(q)) = Len(p) + Len(q)
  <2>1. ASSUME NEW u \in Seq(Seq(Seq(Nat))), NEW v \in Seq(Seq(Seq(Nat)))
        PROVE  u \o v \in Seq(Seq(Seq(Nat))) /\ Len(u \o v) = Len(u) + Len(v)
    OBVIOUS
  <2> QED BY <1>2, <2>1
<1> QED BY <1>2, <1>3, <1>4, SeqEqual

\* Data keeps packets,
LEMMA DataType == ASSUME NEW p \in Seq(Seq(Nat)) PROVE Data(p) \in Seq(Seq(Nat))
<1>1. Data(p) = FlattenSeq(Kept(p))
  BY DEF Data, Kept
<1> QED BY <1>1, KeptType, FlattenType

\* those of the first and then those of the second,
LEMMA DataConcat ==
    ASSUME NEW p \in Seq(Seq(Nat)), NEW q \in Seq(Seq(Nat))
    PROVE  Data(p \o q) = Data(p) \o Data(q)
<1>1. /\ Data(p) = FlattenSeq(Kept(p)) /\ Data(q) = FlattenSeq(Kept(q))
      /\ Data(p \o q) = FlattenSeq(Kept(p \o q))
  BY DEF Data, Kept
<1>2. FlattenSeq(Kept(p) \o Kept(q)) = FlattenSeq(Kept(p)) \o FlattenSeq(Kept(q))
  <2>1. Kept(p) \in Seq(Seq(Seq(Nat))) /\ Kept(q) \in Seq(Seq(Seq(Nat)))
    BY KeptType
  <2> QED BY <2>1, FlattenConcat
<1> QED BY <1>1, <1>2, KeptConcat

\* none of none,
LEMMA DataEmpty == Data(<<>>) = <<>>
<1>1. Kept(<<>>) = <<>>
  BY DEF Kept
<1> QED BY <1>1, FlattenEmpty DEF Data, Kept

\* a packet if it holds data,
LEMMA DataSingle ==
    ASSUME NEW x \in Seq(Nat)
    PROVE  Data(<<x>>) = IF x = <<>> THEN <<>> ELSE <<x>>
<1> DEFINE d == IF x = <<>> THEN <<>> ELSE <<x>>
<1>1. d \in Seq(Seq(Nat))
  OBVIOUS
<1>2. Kept(<<x>>) = <<d>>
  BY DEF Kept
<1>3. Data(<<x>>) = FlattenSeq(<<d>>)
  BY <1>2 DEF Data, Kept
<1> HIDE DEF d
<1>4. FlattenSeq(<<d>>) = d
  BY <1>1, FlattenSingle
<1> QED BY <1>3, <1>4 DEF d

\* none of a packet of status alone,
LEMMA NoData == Data(<< <<>> >>) = <<>>
<1>1. <<>> \in Seq(Nat)
  OBVIOUS
<1> QED BY <1>1, DataSingle

\* and as much more as the last packet holds.
LEMMA DataAppend ==
    ASSUME NEW p \in Seq(Seq(Nat)), NEW x \in Seq(Nat)
    PROVE  Data(Append(p, x)) = Data(p) \o Data(<<x>>)
<1>1. Append(p, x) = p \o <<x>> /\ <<x>> \in Seq(Seq(Nat))
  OBVIOUS
<1> QED BY <1>1, DataConcat

-----------------------------------------------------------------------------
(* The inductive invariant *)

\* The control variables keep their types, and no read is out during a callback.
LEMMA ControlTypes ==
    ASSUME ReadInv, [Next]_vars,
           pos \in {"setup", "runloop", "callback", "write", "stopped"},
           posted \in BOOLEAN, done \in BOOLEAN, ~(posted /\ done), nFailed \in Nat, i \in Nat
    PROVE  /\ pos' \in {"setup", "runloop", "callback", "write", "stopped"}
           /\ posted' \in BOOLEAN /\ done' \in BOOLEAN /\ ~(posted' /\ done')
           /\ nFailed' \in Nat /\ i' \in Nat
           /\ ReadInv'
<1> USE DEF ReadInv, readVars, deviceVars, writeVars
<1>1. CASE Prime
  BY <1>1 DEF Prime
<1>2. CASE Send
  BY <1>2 DEF Send
<1>3. CASE Transfer
  BY <1>3 DEF Transfer
<1>4. CASE TransferFails
  <2>1. pos' = pos /\ ~posted' /\ done' /\ pos \notin {"setup", "callback"}
    BY <1>4 DEF TransferFails
  <2>2. posted' = FALSE /\ done' = TRUE /\ nFailed' \in Nat /\ i' \in Nat
    BY <1>4 DEF TransferFails
  <2> QED BY <2>1, <2>2
<1>5. CASE UsbReadCallback
  <2>1. ~posted /\ done' = FALSE /\ UNCHANGED <<buf, nFailed, i>>
    BY <1>5 DEF UsbReadCallback
  <2>2. \/ buf # <<>> /\ pos' = "callback" /\ posted' = posted
        \/ pos' \in {"runloop", "stopped"} /\ posted' \in BOOLEAN
    BY <1>5 DEF UsbReadCallback, AsyncRead
  <2>3. CASE buf # <<>> /\ pos' = "callback" /\ posted' = posted
    <3>1. posted' = FALSE /\ buf' # <<>>
      BY <2>1, <2>3
    <3> QED BY <2>1, <2>3, <3>1
  <2>4. CASE pos' \in {"runloop", "stopped"} /\ posted' \in BOOLEAN
    BY <2>1, <2>4
  <2> QED BY <2>2, <2>3, <2>4
<1>6. CASE CallbackReturns
  BY <1>6 DEF CallbackReturns, AsyncRead
<1>7. CASE UsbWrite
  BY <1>7 DEF UsbWrite
<1>8. CASE WriteChunk
  BY <1>8, UsbAssumption DEF WriteChunk, UsbAssumption
<1>9. CASE WriteFails
  BY <1>9 DEF WriteFails
<1>10. CASE WriteReturns
  BY <1>10 DEF WriteReturns
<1>11. CASE UNCHANGED vars
  BY <1>11 DEF vars
<1> QED BY <1>1, <1>2, <1>3, <1>4, <1>5, <1>6, <1>7, <1>8, <1>9, <1>10, <1>11
        DEF Next, UsbRead, UsbWriting, Idle

\* A read that ends, well or not, takes a packet or brings nothing.
TakesPacket ==
    (Transfer \/ TransferFails) /\ queue # <<>> /\ buf' = Head(queue) /\ queue' = Tail(queue)

TakesNothing == TransferFails /\ buf' = <<>> /\ queue' = queue

LEMMA Transfers == Transfer \/ TransferFails => TakesPacket \/ TakesNothing
BY DEF Transfer, TransferFails, TakesPacket, TakesNothing

\* The buffer, the command and the packets in the device, sent and given are bytes.
LEMMA PacketTypes ==
    ASSUME [Next]_vars,
           buf \in Seq(Nat), cmd \in Seq(Nat),
           queue \in Seq(Seq(Nat)), sent \in Seq(Seq(Nat)), got \in Seq(Seq(Nat))
    PROVE  /\ buf' \in Seq(Nat) /\ cmd' \in Seq(Nat)
           /\ queue' \in Seq(Seq(Nat)) /\ sent' \in Seq(Seq(Nat)) /\ got' \in Seq(Seq(Nat))
<1> USE DEF readVars, deviceVars, writeVars
<1>1. CASE Prime \/ UsbReadCallback \/ UsbWriting \/ UNCHANGED vars
  BY <1>1 DEF Prime, UsbReadCallback, UsbWriting, WriteChunk, WriteFails, WriteReturns, vars
<1>2. CASE Send
  <2>1. PICK packet \in Packets : queue' = Append(queue, packet) /\ sent' = Append(sent, packet)
    BY <1>2 DEF Send
  <2>2. packet \in Seq(Nat)
    BY <2>1, UsbAssumption DEF UsbAssumption
  <2>3. queue' \in Seq(Seq(Nat)) /\ sent' \in Seq(Seq(Nat))
    BY <2>1, <2>2
  <2> QED BY <1>2, <2>3 DEF Send
<1>3. CASE TakesPacket
  <2>1. Head(queue) \in Seq(Nat) /\ Tail(queue) \in Seq(Seq(Nat))
    BY <1>3 DEF TakesPacket
  <2> QED BY <1>3, <2>1 DEF TakesPacket, Transfer, TransferFails
<1>4. CASE TakesNothing
  <2>1. <<>> \in Seq(Nat)
    OBVIOUS
  <2> QED BY <1>4, <2>1 DEF TakesNothing, TransferFails
<1>5. CASE CallbackReturns
  <2>1. got' \in Seq(Seq(Nat))
    BY <1>5 DEF CallbackReturns
  <2> QED BY <1>5, <2>1 DEF CallbackReturns
<1>6. CASE UsbWrite
  <2>1. cmd' \in Seq(Nat)
    BY <1>6, UsbAssumption DEF UsbWrite, UsbAssumption
  <2> QED BY <1>6, <2>1 DEF UsbWrite
<1> QED BY <1>1, <1>2, <1>3, <1>4, <1>5, <1>6, Transfers DEF Next, UsbRead, Idle

Records == [cmd : Seq(Nat), taken : Seq(Nat), ok : BOOLEAN]

\* A chunk is bytes of the command.
LEMMA ChunkType ==
    ASSUME cmd \in Seq(Nat), i \in Nat, i < Len(cmd)
    PROVE  Chunk \in Seq(Nat)
<1> DEFINE j == IF i + CHUNK <= Len(cmd) THEN i + CHUNK ELSE Len(cmd)
<1>1. j \in Nat /\ j <= Len(cmd)
  BY UsbAssumption DEF UsbAssumption
<1> HIDE DEF j
<1>2. \A k \in i + 1 .. j : cmd[k] \in Nat
  BY <1>1
<1>3. SubSeq(cmd, i + 1, j) \in Seq(Nat)
  BY <1>1, <1>2
<1> QED BY <1>3 DEF Chunk, j

\* What a step of usb_write makes of the record of its command.
LEMMA WrittenStep ==
    ASSUME cmd \in Seq(Nat), i \in Nat, written \in Seq(Records),
           written # <<>>, WriteChunk \/ WriteFails
    PROVE  /\ LastWritten \in Records
           /\ \E w \in Records :
                 /\ written' = [written EXCEPT ![Len(written)] = w]
                 /\ w.cmd = LastWritten.cmd
                 /\ WriteChunk => w.taken = LastWritten.taken \o Chunk /\ w.ok = LastWritten.ok
                 /\ WriteFails => w.taken = LastWritten.taken /\ w.ok = FALSE
<1> DEFINE l == LastWritten
<1>1. l \in Records
  BY LastMember DEF LastWritten
<1>2. ~(WriteChunk /\ WriteFails)
  BY UsbAssumption DEF WriteChunk, WriteFails, UsbAssumption
<1>3. CASE WriteChunk
  <2> DEFINE w == [l EXCEPT !.taken = @ \o Chunk]
  <2>1. Chunk \in Seq(Nat)
    BY <1>3, ChunkType DEF WriteChunk
  <2>2. l.taken \o Chunk \in Seq(Nat)
    BY <1>1, <2>1 DEF Records
  <2> HIDE DEF l
  <2>3. w \in Records /\ w.cmd = l.cmd /\ w.ok = l.ok /\ w.taken = l.taken \o Chunk
    BY <1>1, <2>2 DEF Records
  <2>4. written' = [written EXCEPT ![Len(written)] = w]
    BY <1>3 DEF WriteChunk, l, LastWritten
  <2> HIDE DEF w
  <2> QED BY <1>1, <1>2, <1>3, <2>3, <2>4 DEF l
<1>4. CASE WriteFails
  <2> DEFINE w == [l EXCEPT !.ok = FALSE]
  <2> HIDE DEF l
  <2>1. w \in Records /\ w.cmd = l.cmd /\ w.ok = FALSE /\ w.taken = l.taken
    BY <1>1 DEF Records
  <2>2. written' = [written EXCEPT ![Len(written)] = w]
    BY <1>4 DEF WriteFails, l, LastWritten
  <2> HIDE DEF w
  <2> QED BY <1>1, <1>2, <1>4, <2>1, <2>2 DEF l
<1> QED BY <1>3, <1>4

\* The history of commands holds records of them.
LEMMA WrittenType ==
    ASSUME cmd \in Seq(Nat), i \in Nat, written \in Seq(Records),
           pos = "write" => written # <<>>, [Next]_vars
    PROVE  written' \in Seq(Records)
<1>1. CASE UsbWrite
  <2>1. cmd' \in Seq(Nat)
    BY <1>1, UsbAssumption DEF UsbWrite, UsbAssumption
  <2>2. [cmd |-> cmd', taken |-> <<>>, ok |-> TRUE] \in Records
    BY <2>1 DEF Records
  <2> QED BY <1>1, <2>2 DEF UsbWrite
<1>2. CASE WriteChunk \/ WriteFails
  <2>1. written # <<>>
    BY <1>2 DEF WriteChunk, WriteFails
  <2>2. PICK w \in Records : written' = [written EXCEPT ![Len(written)] = w]
    BY <1>2, <2>1, WrittenStep
  <2> QED BY <2>1, <2>2, ReplaceLast
<1>3. CASE ~UsbWrite /\ ~WriteChunk /\ ~WriteFails
  BY <1>3 DEF Next, UsbRead, UsbWriting, Prime, Send, Transfer, TransferFails, UsbReadCallback,
              CallbackReturns, WriteReturns, Idle, vars, writeVars
<1> QED BY <1>1, <1>2, <1>3

\* The type invariant and ReadInv are preserved.
LEMMA UsbTypes ==
    ASSUME TypeOK, ReadInv, WriteInv, [Next]_vars
    PROVE  TypeOK' /\ ReadInv'
<1>1. /\ pos' \in {"setup", "runloop", "callback", "write", "stopped"}
      /\ posted' \in BOOLEAN /\ done' \in BOOLEAN /\ ~(posted' /\ done')
      /\ nFailed' \in Nat /\ i' \in Nat
      /\ ReadInv'
  BY ControlTypes DEF TypeOK
<1>2. /\ buf' \in Seq(Nat) /\ cmd' \in Seq(Nat)
      /\ queue' \in Seq(Seq(Nat)) /\ sent' \in Seq(Seq(Nat)) /\ got' \in Seq(Seq(Nat))
  BY PacketTypes DEF TypeOK
<1>3. written' \in Seq(Records)
  BY WrittenType DEF TypeOK, WriteInv, Records
<1> QED BY <1>1, <1>2, <1>3 DEF TypeOK, Records

\* A step that moves no packet leaves Pending as it is.
LEMMA PendingKept ==
    ASSUME ReadInv, Prime \/ UsbWrite \/ UsbWriting \/ UNCHANGED vars
    PROVE  Pending' = Pending /\ UNCHANGED <<buf, got, queue, sent>>
<1> USE DEF Pending, readVars, deviceVars, writeVars
<1>1. CASE Prime
  BY <1>1 DEF Prime
<1>2. CASE UsbWrite
  BY <1>2 DEF UsbWrite
<1>3. CASE UsbWriting
  BY <1>3 DEF UsbWriting, WriteChunk, WriteFails, WriteReturns
<1>4. CASE UNCHANGED vars
  BY <1>4 DEF vars
<1> QED BY <1>1, <1>2, <1>3, <1>4

\* No step loses, repeats or reorders a byte: StreamInv is preserved,
LEMMA StreamStep ==
    ASSUME TypeOK, ReadInv, StreamInv, [Next]_vars
    PROVE  StreamInv'
<1> DEFINE all == FlattenSeq(sent)
           had == FlattenSeq(got)
           left == FlattenSeq(queue)
           held == IF Pending THEN buf ELSE <<>>
<1>1. /\ IsStream(Nat, all) /\ IsStream(Nat, had)
      /\ IsStream(Nat, left) /\ IsStream(Nat, held)
  BY FlattenType DEF TypeOK, IsStream
<1>2. Parts(all, had, held, left)
  BY DEF StreamInv, Parts
<1>3. SUFFICES Parts(all', had', held', left')
  BY DEF StreamInv, Parts
<1>4. CASE Prime \/ UsbWrite \/ UsbWriting \/ UNCHANGED vars
  BY <1>2, <1>4, PendingKept
<1>5. CASE Send
  <2>1. PICK packet \in Packets : queue' = Append(queue, packet) /\ sent' = Append(sent, packet)
    BY <1>5 DEF Send
  <2>2. packet \in Seq(Nat)
    BY <2>1, UsbAssumption DEF UsbAssumption
  <2>3. left' = left \o packet /\ all' = all \o packet
    BY <2>1, <2>2, FlattenAppend DEF TypeOK
  <2>4. held' = held /\ had' = had
    BY <1>5 DEF Send, Pending, readVars
  <2>5. IsStream(Nat, packet)
    BY <2>2 DEF IsStream
  <2> HIDE DEF all, had, left, held
  <2>6. Parts(all \o packet, had, held, left \o packet)
    BY <1>1, <1>2, <2>5, StreamGrows
  <2> QED BY <2>3, <2>4, <2>6
<1>6. CASE TakesPacket
  <2> DEFINE h == Head(queue)
             r == FlattenSeq(Tail(queue))
  <2>1. held = <<>> /\ held' = h /\ left' = r /\ all' = all /\ had' = had
    BY <1>6 DEF TakesPacket, Transfer, TransferFails, ReadInv, TypeOK, Pending
  <2>2. h \in Seq(Nat) /\ Tail(queue) \in Seq(Seq(Nat)) /\ queue = <<h>> \o Tail(queue)
    BY <1>6 DEF TakesPacket, Transfer, TransferFails, TypeOK
  <2>3. IsStream(Nat, h) /\ IsStream(Nat, r)
    BY <2>2, FlattenType DEF IsStream
  <2>4. left = h \o r
    <3>1. <<h>> \in Seq(Seq(Nat))
      BY <2>2
    <3>2. FlattenSeq(<<h>>) = h
      BY <2>2, FlattenSingle
    <3>3. FlattenSeq(<<h>> \o Tail(queue)) = FlattenSeq(<<h>>) \o FlattenSeq(Tail(queue))
      BY <2>2, <3>1, FlattenConcat
    <3> QED BY <2>2, <3>2, <3>3
  <2> HIDE DEF all, had, left, held, h, r
  <2>5. Parts(all, had, <<>>, h \o r)
    BY <1>2, <2>1, <2>4
  <2>6. Parts(all, had, h, r)
    BY <1>1, <2>3, <2>5, StreamTaken
  <2> QED BY <2>1, <2>6
<1>7. CASE TakesNothing
  <2>1. held = <<>> /\ held' = <<>> /\ all' = all /\ had' = had /\ left' = left
    BY <1>7 DEF TakesNothing, TransferFails, ReadInv, TypeOK, Pending, deviceVars
  <2> QED BY <1>2, <2>1
<1>8. CASE UsbReadCallback
  <2>1. held' = held /\ all' = all /\ had' = had /\ left' = left
    BY <1>8 DEF UsbReadCallback, Pending, deviceVars
  <2> QED BY <1>2, <2>1
<1>9. CASE CallbackReturns
  <2>1. /\ held = buf /\ held' = <<>> /\ all' = all /\ left' = left
        /\ got' = Append(got, buf) /\ buf \in Seq(Nat)
    BY <1>9 DEF CallbackReturns, AsyncRead, Pending, ReadInv, deviceVars, TypeOK
  <2>2. had' = had \o held
    BY <2>1, FlattenAppend DEF TypeOK
  <2> HIDE DEF all, had, left, held
  <2>3. Parts(all, had \o held, <<>>, left)
    BY <1>1, <1>2, StreamGiven
  <2> QED BY <2>1, <2>2, <2>3
<1> QED BY <1>4, <1>5, <1>6, <1>7, <1>8, <1>9, Transfers DEF Next, UsbRead, Idle

\* and DataInv, the same of the packets with data.
LEMMA DataStep ==
    ASSUME TypeOK, ReadInv, DataInv, [Next]_vars
    PROVE  DataInv'
<1> DEFINE all == Data(sent)
           left == Data(queue)
           held == Data(IF Pending THEN <<buf>> ELSE <<>>)
<1>1. /\ IsStream(Seq(Nat), all) /\ IsStream(Seq(Nat), got)
      /\ IsStream(Seq(Nat), left) /\ IsStream(Seq(Nat), held)
  <2>1. (IF Pending THEN <<buf>> ELSE <<>>) \in Seq(Seq(Nat))
    BY DEF TypeOK
  <2> QED BY <2>1, DataType DEF TypeOK, IsStream
<1>2. Parts(all, got, held, left)
  BY DEF DataInv, Parts
<1>3. SUFFICES Parts(all', got', held', left')
  BY DEF DataInv, Parts
<1>4. CASE Prime \/ UsbWrite \/ UsbWriting \/ UNCHANGED vars
  BY <1>2, <1>4, PendingKept
<1>5. CASE Send
  <2>1. PICK packet \in Packets : queue' = Append(queue, packet) /\ sent' = Append(sent, packet)
    BY <1>5 DEF Send
  <2> DEFINE x == Data(<<packet>>)
  <2>2. packet \in Seq(Nat)
    BY <2>1, UsbAssumption DEF UsbAssumption
  <2>3. left' = left \o x /\ all' = all \o x
    BY <2>1, <2>2, DataAppend DEF TypeOK
  <2>4. held' = held /\ got' = got
    BY <1>5 DEF Send, Pending, readVars
  <2>5. IsStream(Seq(Nat), x)
    <3>1. <<packet>> \in Seq(Seq(Nat))
      BY <2>2
    <3> QED BY <3>1, DataType DEF IsStream
  <2> HIDE DEF all, left, held, x
  <2>6. Parts(all \o x, got, held, left \o x)
    BY <1>1, <1>2, <2>5, StreamGrows
  <2> QED BY <2>3, <2>4, <2>6
<1>6. CASE TakesPacket
  <2> DEFINE h == Data(<<Head(queue)>>)
             r == Data(Tail(queue))
  <2>1. held = <<>> /\ held' = h /\ left' = r /\ all' = all /\ got' = got
    BY <1>6, DataEmpty DEF TakesPacket, Transfer, TransferFails, ReadInv, TypeOK, Pending
  <2>2. /\ <<Head(queue)>> \in Seq(Seq(Nat)) /\ Tail(queue) \in Seq(Seq(Nat))
        /\ queue = <<Head(queue)>> \o Tail(queue)
    BY <1>6 DEF TakesPacket, Transfer, TransferFails, TypeOK
  <2>3. IsStream(Seq(Nat), h) /\ IsStream(Seq(Nat), r)
    BY <2>2, DataType DEF IsStream
  <2>4. left = h \o r
    BY <2>2, DataConcat
  <2> HIDE DEF all, left, held, h, r
  <2>5. Parts(all, got, <<>>, h \o r)
    BY <1>2, <2>1, <2>4
  <2>6. Parts(all, got, h, r)
    BY <1>1, <2>3, <2>5, StreamTaken
  <2> QED BY <2>1, <2>6
<1>7. CASE TakesNothing
  <2>1. /\ ~Pending /\ Pending' /\ buf' = <<>> /\ UNCHANGED <<got, sent, queue>>
    BY <1>7 DEF TakesNothing, TransferFails, ReadInv, TypeOK, Pending, deviceVars
  <2>2. Data(<< <<>> >>) = <<>>
    BY NoData
  <2> QED BY <1>2, <2>1, <2>2, DataEmpty
<1>8. CASE UsbReadCallback
  <2>1. /\ Pending /\ UNCHANGED <<buf, got, sent, queue>>
        /\ Pending' \/ buf = <<>>
    BY <1>8 DEF UsbReadCallback, Pending, deviceVars
  <2>2. Data(<< <<>> >>) = <<>>
    BY NoData
  <2>3. held' = held
    BY <2>1, <2>2, DataEmpty
  <2> QED BY <1>2, <2>1, <2>3
<1>9. CASE CallbackReturns
  <2>1. /\ Pending /\ ~Pending' /\ UNCHANGED <<sent, queue>>
        /\ got' = Append(got, buf) /\ buf \in Seq(Nat) /\ buf # <<>>
    BY <1>9 DEF CallbackReturns, AsyncRead, Pending, ReadInv, deviceVars, TypeOK
  <2>2. held = <<buf>> /\ held' = <<>> /\ all' = all /\ left' = left
    BY <2>1, DataSingle, DataEmpty
  <2>3. got' = got \o held
    <3>1. got \in Seq(Seq(Nat))
      BY DEF TypeOK
    <3>2. Append(got, buf) = got \o <<buf>>
      BY <2>1, <3>1, AppendIsConcat
    <3> HIDE DEF held
    <3> QED BY <2>1, <2>2, <3>2
  <2> HIDE DEF all, left, held
  <2>4. Parts(all, got \o held, <<>>, left)
    BY <1>1, <1>2, StreamGiven
  <2> QED BY <2>2, <2>3, <2>4
<1> QED BY <1>4, <1>5, <1>6, <1>7, <1>8, <1>9, Transfers DEF Next, UsbRead, Idle

\* How much of the command the device has been given.
Given == IF i <= Len(cmd) THEN i ELSE Len(cmd)

\* Every chunk extends what the device has by the bytes that follow: WriteInv is
\* preserved.
LEMMA WriteStep ==
    ASSUME cmd \in Seq(Nat), i \in Nat, written \in Seq(Records), WriteInv, [Next]_vars
    PROVE  WriteInv'
<1>1. CASE UsbWrite
  <2> DEFINE w == [cmd |-> cmd', taken |-> <<>>, ok |-> TRUE]
  <2>1. /\ cmd' \in Seq(Nat) /\ i' = 0 /\ pos = "runloop" /\ pos' = "write"
        /\ written' = Append(written, w)
    BY <1>1, UsbAssumption DEF UsbWrite, UsbAssumption
  <2>2. w \in Records
    BY <2>1 DEF Records
  <2>3. w = [cmd |-> cmd', ok |-> TRUE, taken |-> SubSeq(cmd', 1, Given')]
    <3>1. Given' = 0
      BY <2>1 DEF Given
    <3>2. SubSeq(cmd', 1, 0) = <<>>
      BY <2>1
    <3> QED BY <3>1, <3>2
  <2> HIDE DEF w
  <2>4. /\ Len(written') = Len(written) + 1 /\ Len(written) \in Nat
        /\ written'[Len(written')] = w /\ written' # <<>>
        /\ \A k \in 1 .. Len(written) : written'[k] = written[k]
        /\ DOMAIN written' = 1 .. Len(written) + 1 /\ DOMAIN written = 1 .. Len(written)
    BY <2>1, <2>2, AppendProperties, SMTT(30)
  <2>5. \A k \in DOMAIN written' : k # Len(written') => WholeRecord(written'[k])
    BY <2>1, <2>4 DEF WriteInv
  <2> QED BY <2>1, <2>3, <2>4, <2>5 DEF WriteInv, LastWritten, WholeRecord, Given
<1>2. CASE WriteChunk \/ WriteFails
  <2> DEFINE l == LastWritten
             n == Len(written)
  <2>1. /\ written # <<>> /\ pos = "write" /\ i < Len(cmd)
        /\ l = [cmd |-> cmd, ok |-> TRUE, taken |-> SubSeq(cmd, 1, Given)]
    BY <1>2 DEF WriteInv, Given, WriteChunk, WriteFails
  <2>2. PICK w \in Records :
            /\ written' = [written EXCEPT ![n] = w]
            /\ w.cmd = l.cmd
            /\ WriteChunk => w.taken = l.taken \o Chunk /\ w.ok = l.ok
            /\ WriteFails => w.taken = l.taken /\ w.ok = FALSE
    BY <1>2, <2>1, WrittenStep
  <2>3. /\ Len(written') = n /\ written'[n] = w /\ written' # <<>>
        /\ DOMAIN written' = 1 .. n /\ DOMAIN written = 1 .. n
        /\ \A k \in 1 .. n : k # n => written'[k] = written[k]
    BY <2>1, <2>2
  <2>4. \A k \in DOMAIN written' : k # Len(written') => WholeRecord(written'[k])
    BY <2>1, <2>3 DEF WriteInv
  <2>5. w.cmd = cmd /\ l.taken = SubSeq(cmd, 1, i) /\ l.ok = TRUE
    BY <2>1, <2>2 DEF Given
  <2>6. CASE WriteChunk
    <3>1. cmd' = cmd /\ i' = i + CHUNK /\ pos' = "write" /\ i' \in Nat
      BY <2>6, <2>1, UsbAssumption DEF WriteChunk, UsbAssumption
    <3>2. Chunk = SubSeq(cmd, i + 1, Given')
      BY <3>1 DEF Chunk, Given
    <3>3. i <= Given' /\ Given' <= Len(cmd) /\ Given' \in Nat
      BY <2>1, <3>1, UsbAssumption DEF Given, UsbAssumption
    <3>4. w.taken = SubSeq(cmd, 1, Given')
      BY <2>2, <2>5, <2>6, <3>2, <3>3, MoreMembers, ZenonT(30)
    <3>5. w = [cmd |-> cmd', ok |-> TRUE, taken |-> SubSeq(cmd', 1, Given')]
      BY <2>2, <2>5, <2>6, <3>1, <3>4 DEF Records
    <3> QED BY <2>3, <2>4, <3>1, <3>5 DEF WriteInv, LastWritten, WholeRecord, Given
  <2>7. CASE WriteFails
    <3>1. w.taken = SubSeq(cmd, 1, i) /\ w.ok = FALSE /\ pos' = "runloop"
      BY <2>2, <2>5, <2>7 DEF WriteFails
    <3>2. WholeRecord(w)
      BY <2>1, <2>5, <3>1, FirstMembers DEF WholeRecord
    <3> QED BY <2>3, <2>4, <3>1, <3>2 DEF WriteInv, WholeRecord
  <2> QED BY <1>2, <2>6, <2>7
<1>3. CASE WriteReturns
  <2> DEFINE l == LastWritten
  <2>1. /\ pos = "write" /\ pos' = "runloop" /\ written' = written
        /\ written # <<>> /\ Given = Len(cmd)
        /\ l = [cmd |-> cmd, ok |-> TRUE, taken |-> SubSeq(cmd, 1, Given)]
    BY <1>3 DEF WriteReturns, WriteInv, Given
  <2>2. WholeRecord(l)
    <3>1. l.cmd = cmd /\ l.ok = TRUE /\ l.taken = SubSeq(cmd, 1, Len(cmd))
      BY <2>1
    <3> HIDE DEF l
    <3> QED BY <3>1, FirstMembers DEF WholeRecord
  <2> QED BY <2>1, <2>2 DEF WriteInv, LastWritten, WholeRecord
<1>4. CASE ~UsbWrite /\ ~UsbWriting
  <2>1. /\ UNCHANGED <<cmd, i, written>>
        /\ pos' = "write" <=> pos = "write"
    BY <1>4 DEF Next, UsbRead, Prime, Send, Transfer, TransferFails, UsbReadCallback, AsyncRead,
                CallbackReturns, Idle, vars, writeVars
  <2> QED BY <2>1 DEF WriteInv, LastWritten, WholeRecord
<1> QED BY <1>1, <1>2, <1>3, <1>4 DEF UsbWriting

-----------------------------------------------------------------------------
(* The theorems *)

\* The inductive invariant holds of the initial state
LEMMA UsbInvInit == Init => UsbInv
<1> SUFFICES ASSUME Init PROVE UsbInv
  OBVIOUS
<1> USE DEF Init
<1>1. TypeOK
  <2>1. /\ <<>> \in Seq(Nat) /\ <<>> \in Seq(Seq(Nat))
        /\ <<>> \in Seq([cmd : Seq(Nat), taken : Seq(Nat), ok : BOOLEAN])
    BY EmptySeq
  <2> QED BY <2>1 DEF TypeOK
<1>2. ReadInv /\ ~Pending
  BY DEF ReadInv, Pending
<1>3. WriteInv
  BY DEF WriteInv
<1>4. <<>> = (<<>> \o <<>>) \o <<>>
  OBVIOUS
<1>5. StreamInv
  BY <1>2, <1>4, FlattenEmpty DEF StreamInv
<1>6. DataInv
  BY <1>2, <1>4, DataEmpty DEF DataInv
<1> QED BY <1>1, <1>2, <1>3, <1>5, <1>6 DEF UsbInv

\* and is preserved by every step.
LEMMA UsbInvStep == UsbInv /\ [Next]_vars => UsbInv'
<1> SUFFICES ASSUME UsbInv, [Next]_vars PROVE UsbInv'
  OBVIOUS
<1> USE DEF UsbInv
<1>1. TypeOK' /\ ReadInv'
  BY UsbTypes
<1>2. StreamInv' /\ DataInv'
  BY StreamStep, DataStep
<1>3. WriteInv'
  BY WriteStep DEF TypeOK, Records
<1> QED BY <1>1, <1>2, <1>3

\* The inductive invariant holds: every packet is in one place, and usb_write
\* and its loop agree on how far the command is written.
THEOREM UsbInvariant == Spec => []UsbInv
<1>1. Init => UsbInv
  BY UsbInvInit
<1>2. UsbInv /\ [Next]_vars => UsbInv'
  BY UsbInvStep
<1> QED BY <1>1, <1>2, PTL DEF Spec

\* Every variable keeps its type, and one read at most is out: a new one is
\* posted only after the data of the last is used (the end of usb_read_callback).
THEOREM UsbTypesHold == Spec => []TypeOK
<1>1. UsbInv => TypeOK
  BY DEF UsbInv
<1> QED BY <1>1, UsbInvariant, PTL

\* The library is given the device's data in order and once, whatever the
\* packets, their number, and the reads that fail (usb_read_callback).
THEOREM DataInOrderHolds == Spec => []DataInOrder
<1>1. UsbInv => DataInOrder
  <2> SUFFICES ASSUME UsbInv PROVE DataInOrder
    OBVIOUS
  <2> DEFINE held == Data(IF Pending THEN <<buf>> ELSE <<>>)
  <2>1. (IF Pending THEN <<buf>> ELSE <<>>) \in Seq(Seq(Nat))
    BY DEF UsbInv, TypeOK
  <2>2. /\ IsStream(Seq(Nat), got) /\ IsStream(Seq(Nat), held)
        /\ IsStream(Seq(Nat), Data(queue))
    BY <2>1, DataType DEF UsbInv, TypeOK, IsStream
  <2>3. Parts(Data(sent), got, held, Data(queue))
    BY DEF UsbInv, DataInv, Parts
  <2> HIDE DEF held
  <2> QED BY <2>2, <2>3, PartsPrefix DEF DataInOrder
<1> QED BY <1>1, UsbInvariant, PTL

\* A command that usb_write has returned from was taken whole, or a beginning
\* of it was and the result says so, for every command and size of a chunk.
THEOREM WholeOrErrorHolds == Spec => []WholeOrError
<1>1. UsbInv => WholeOrError
  BY DEF UsbInv, WriteInv, WholeOrError, WholeRecord
<1> QED BY <1>1, UsbInvariant, PTL

\* A step that leaves the driver without a read, a completion or a callback
\* stops the run loop.
THEOREM ListensOnHolds == Spec => ListensOn
<1>1. UsbInv /\ [Next]_vars => [Listening => Listening' \/ pos' = "stopped"]_vars
  <2> SUFFICES ASSUME UsbInv, Next, Listening PROVE Listening' \/ pos' = "stopped"
    OBVIOUS
  <2> USE DEF UsbInv, ReadInv, Listening, readVars, deviceVars, writeVars
  <2>1. CASE Prime
    BY <2>1 DEF Prime
  <2>2. CASE Send
    BY <2>2 DEF Send
  <2>3. CASE Transfer \/ TransferFails
    BY <2>3 DEF Transfer, TransferFails
  <2>4. CASE UsbReadCallback
    BY <2>4 DEF UsbReadCallback, AsyncRead
  <2>5. CASE CallbackReturns
    BY <2>5 DEF CallbackReturns, AsyncRead
  <2>6. CASE UsbWrite
    BY <2>6 DEF UsbWrite
  <2>7. CASE UsbWriting
    BY <2>7 DEF UsbWriting, WriteChunk, WriteFails, WriteReturns
  <2>8. CASE Idle
    BY <2>8 DEF Idle, vars
  <2> QED BY <2>1, <2>2, <2>3, <2>4, <2>5, <2>6, <2>7, <2>8 DEF Next, UsbRead
<1> QED BY <1>1, UsbInvariant, PTL DEF Spec, ListensOn

-----------------------------------------------------------------------------
(* The driver implements DriverPromise *)

Finished == IF pos = "write" THEN Front(written) ELSE written

\* DriverPromise has these operators from the same module.
LEMMA SameOperators ==
    /\ \A a, b : Promise!IsPrefix(a, b) <=> IsPrefix(a, b)
    /\ \A a, b : Promise!IsStrictPrefix(a, b) <=> IsStrictPrefix(a, b)
    /\ \A a : Promise!Last(a) = a[Len(a)]
BY DEF Promise!IsPrefix, Promise!IsStrictPrefix, Promise!Last, IsPrefix, IsStrictPrefix

\* The initial state of the driver is one of the promise.
LEMMA PromiseInit == Init => Promise!Init
<1> SUFFICES ASSUME Init PROVE Promise!Init
  OBVIOUS
<1> QED BY FlattenEmpty DEF Init, Promise!Init

\* The device's packets are bytes that were not sent before.
LEMMA PromiseSend ==
    ASSUME UsbInv, Send
    PROVE  Promise!Send \/ UNCHANGED Promise!vars
<1>1. PICK packet \in Packets : sent' = Append(sent, packet)
  BY DEF Send
<1>2. packet \in Seq(Nat) /\ FlattenSeq(sent) \in Seq(Nat)
  BY <1>1, UsbAssumption, FlattenType DEF UsbAssumption, UsbInv, TypeOK
<1>3. FlattenSeq(sent') = FlattenSeq(sent) \o packet
  BY <1>1, <1>2, FlattenAppend DEF UsbInv, TypeOK
<1>4. UNCHANGED <<FlattenSeq(got), Finished>>
  BY DEF Send, readVars, writeVars, Finished
<1>5. CASE packet = <<>>
  <2>1. FlattenSeq(sent) \o <<>> = FlattenSeq(sent)
    BY <1>2
  <2> QED BY <1>3, <1>4, <1>5, <2>1 DEF Promise!vars, Finished
<1>6. CASE packet # <<>>
  <2>1. IsStrictPrefix(FlattenSeq(sent), FlattenSeq(sent'))
    BY <1>2, <1>3, <1>6, StreamPrefix
  <2> QED BY <1>4, <2>1, SameOperators DEF Promise!Send, Finished
<1> QED BY <1>5, <1>6

\* callback_fn is given the bytes that follow the ones it has.
LEMMA PromiseGive ==
    ASSUME UsbInv, CallbackReturns
    PROVE  Promise!Give
<1>1. /\ got' = Append(got, buf) /\ UNCHANGED <<sent, Finished>>
      /\ Pending /\ buf # <<>>
  BY DEF CallbackReturns, AsyncRead, deviceVars, writeVars, Finished, UsbInv, ReadInv, Pending
<1>2. /\ buf \in Seq(Nat) /\ FlattenSeq(got) \in Seq(Nat)
      /\ FlattenSeq(queue) \in Seq(Nat)
  BY FlattenType DEF UsbInv, TypeOK
<1>3. FlattenSeq(got') = FlattenSeq(got) \o buf
  BY <1>1, <1>2, FlattenAppend DEF UsbInv, TypeOK
<1>4. IsStrictPrefix(FlattenSeq(got), FlattenSeq(got'))
  BY <1>1, <1>2, <1>3, StreamPrefix
<1>5. IsPrefix(FlattenSeq(got'), FlattenSeq(sent))
  <2>1. Parts(FlattenSeq(sent), FlattenSeq(got), buf, FlattenSeq(queue))
    BY <1>1 DEF UsbInv, StreamInv, Parts
  <2>2. /\ IsStream(Nat, FlattenSeq(got)) /\ IsStream(Nat, buf)
        /\ IsStream(Nat, FlattenSeq(queue))
    BY <1>2 DEF IsStream
  <2> QED BY <1>3, <2>1, <2>2, PartsPrefix
<1> QED BY <1>1, <1>4, <1>5, SameOperators DEF Promise!Give, Finished

\* usb_write returns: one more command is finished.
LEMMA PromiseWrite ==
    ASSUME UsbInv, UsbInv', WriteFails \/ WriteReturns
    PROVE  Promise!Write
<1>1. /\ pos = "write" /\ pos' = "runloop" /\ UNCHANGED <<sent, got>>
  BY DEF WriteFails, WriteReturns, readVars, deviceVars
<1>2. /\ written # <<>> /\ written \in Seq(Records)
      /\ written' \in Seq(Records)
  BY <1>1 DEF UsbInv, TypeOK, WriteInv, Records
<1>3. Len(written') = Len(written) /\ \A k \in 1 .. Len(written) - 1 : written'[k] = written[k]
  <2>1. CASE WriteFails
    <3>1. PICK w \in Records : written' = [written EXCEPT ![Len(written)] = w]
      BY <1>2, <2>1, WrittenStep DEF UsbInv, TypeOK, Records
    <3> QED BY <1>2, <3>1, ReplaceLast
  <2>2. CASE WriteReturns
    BY <2>2 DEF WriteReturns
  <2> QED BY <2>1, <2>2
<1>4. Finished = SubSeq(written, 1, Len(written) - 1) /\ Finished' = written'
  BY <1>1 DEF Finished, Front
<1>5. Len(Finished') = Len(Finished) + 1 /\ IsPrefix(Finished, Finished')
  <2> DEFINE n == Len(written) - 1
  <2>1. n \in Nat /\ n <= Len(written) /\ n <= Len(written')
    BY <1>2, <1>3
  <2>2. Len(Finished) = n /\ SubSeq(Finished, 1, n) = Finished
    <3>1. Finished \in Seq(Records) /\ Len(Finished) = n
      BY <1>2, <1>4, <2>1, FirstMembers
    <3> HIDE DEF n
    <3> QED BY <2>1, <3>1, FirstMembers
  <2>3. SubSeq(written', 1, n) = SubSeq(written, 1, n)
    BY <1>2, <1>3, <2>1
  <2>4. n + 1 = Len(written') /\ SubSeq(Finished', 1, n) = SubSeq(written, 1, n)
    BY <1>2, <1>3, <1>4, <2>3
  <2> HIDE DEF n
  <2> QED BY <1>4, <2>1, <2>2, <2>4 DEF IsPrefix, n
<1>6. WholeRecord(written'[Len(written')])
  BY <1>1, <1>2, <1>3 DEF UsbInv, WriteInv
<1>7. Promise!Whole(Promise!Last(Finished'))
  BY <1>4, <1>6, SameOperators DEF Promise!Whole, WholeRecord
<1>8. UNCHANGED <<FlattenSeq(sent), FlattenSeq(got)>>
  BY <1>1
<1> QED BY <1>5, <1>7, <1>8, SameOperators DEF Promise!Write, Finished

\* Every other step changes nothing the library or the device can see.
LEMMA PromiseStutter ==
    ASSUME UsbInv, UsbInv',
           Prime \/ Transfer \/ TransferFails \/ UsbReadCallback \/ UsbWrite \/ WriteChunk
             \/ UNCHANGED vars
    PROVE  UNCHANGED Promise!vars
<1> USE DEF readVars, deviceVars, writeVars
<1>1. UNCHANGED <<sent, got>>
  BY DEF Prime, Transfer, TransferFails, UsbReadCallback, UsbWrite, WriteChunk, vars
<1>2. UNCHANGED Finished
  <2>1. CASE Prime \/ Transfer \/ TransferFails \/ UsbReadCallback \/ UNCHANGED vars
    BY <2>1 DEF Prime, Transfer, TransferFails, UsbReadCallback, AsyncRead, vars, Finished
  <2>2. CASE UsbWrite
    <3>1. PICK w \in Records : written' = Append(written, w)
      <4>1. cmd' \in Seq(Nat)
        BY <2>2, UsbAssumption DEF UsbWrite, UsbAssumption
      <4>2. [cmd |-> cmd', taken |-> <<>>, ok |-> TRUE] \in Records
        BY <4>1 DEF Records
      <4> QED BY <2>2, <4>2 DEF UsbWrite
    <3>2. written \in Seq(Records)
      BY DEF UsbInv, TypeOK, Records
    <3>3. SubSeq(written', 1, Len(written') - 1) = written
      BY <3>1, <3>2, FrontOfAppend
    <3>4. pos = "runloop" /\ pos' = "write"
      BY <2>2 DEF UsbWrite
    <3> QED BY <3>3, <3>4 DEF Finished, Front
  <2>3. CASE WriteChunk
    <3>1. written # <<>> /\ written \in Seq(Records) /\ pos = "write" /\ pos' = "write"
      BY <2>3 DEF UsbInv, TypeOK, WriteInv, WriteChunk, Records
    <3>2. PICK w \in Records : written' = [written EXCEPT ![Len(written)] = w]
      BY <2>3, <3>1, WrittenStep DEF UsbInv, TypeOK
    <3>3. SubSeq(written', 1, Len(written') - 1) = SubSeq(written, 1, Len(written) - 1)
      BY <3>1, <3>2, FrontOfReplace
    <3> QED BY <3>1, <3>3 DEF Finished, Front
  <2> QED BY <2>1, <2>2, <2>3
<1> QED BY <1>1, <1>2 DEF Promise!vars, Finished

\* The USB driver implements the promise: each of its steps is a step of
\* DriverPromise or changes nothing the promise speaks of.
THEOREM UsbKeepsPromiseHolds == Spec => UsbKeepsPromise
<1>1. UsbInv /\ UsbInv' /\ [Next]_vars => [Promise!Next]_Promise!vars
  <2> SUFFICES ASSUME UsbInv, UsbInv', [Next]_vars PROVE [Promise!Next]_Promise!vars
    OBVIOUS
  <2>1. CASE Send
    BY <2>1, PromiseSend DEF Promise!Next
  <2>2. CASE CallbackReturns
    BY <2>2, PromiseGive DEF Promise!Next
  <2>3. CASE WriteFails \/ WriteReturns
    BY <2>3, PromiseWrite DEF Promise!Next
  <2>4. CASE Idle
    BY <2>4, PromiseStutter DEF Idle
  <2>5. CASE Prime \/ Transfer \/ TransferFails \/ UsbReadCallback \/ UsbWrite \/ WriteChunk
               \/ UNCHANGED vars
    BY <2>5, PromiseStutter
  <2> QED BY <2>1, <2>2, <2>3, <2>4, <2>5 DEF Next, UsbRead, UsbWriting
<1> QED BY <1>1, PromiseInit, UsbInvariant, PTL DEF Spec, UsbKeepsPromise, Promise!Spec
=============================================================================
