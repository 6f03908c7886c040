# ribsu in TLA+

ribsu lets a Mac talk to a USB-UIRT, an infrared transceiver on an FTDI serial
bridge. A user types commands in hexadecimal; the library `src/ribsu` writes
them to the device, follows what mode the device is in, cuts the stream of
bytes that comes back into replies and infrared codes, and shows every one as
a line. RAW and RAW2 codes are measurements of pulses and spaces, which the
library turns into Pronto codes.

Everything runs on one thread, in callbacks of one run loop. What makes the
program hard is not threads but *pieces*: bytes arrive cut anywhere, in the
middle of a code, a token or a reply; commands are written while codes are on
the wire; a callback must use what it can, keep the rest and come back for
more. The modules here are about that.

## 1. Inventory

| Part | Source | State | Operations |
|---|---|---|---|
| Buffers | `ribsu-util.c` | a length and bytes | `buf_append`, `buf_slide`, `buf_copy`, hex conversion |
| RAW decoder | `uirt-raw.c` | `rr_ctx`: state, done, pulse and space tables, frequency | `rr_parse` and its handlers, `rr_set_frequency`, `rr_output_pronto` |
| RAW2 decoder | `uirt-raw2.c` | `rr2_ctx`: the same and the frequency samples | `rr2_parse` and its handlers, `rr2_final`, `rr2_output_pronto` |
| State machine | `uirt-sm.c` | `usm_ctx`: mode, state, `agg`, the decoders, the default frequency | `usm_process_user`, `usm_process_uirt`, `usm_process_uirt_more` |
| Library core | `ribsu.c` | `ribsu_ctx`: `interp`, the driver and callback pointers | `ribsu_init`, `ribsu_write`, `ribsu_callback`, `ribsu_toggle_interpretation`, `ribsu_set_default_frequency`, `ribsu_deinit` |
| Pronto input | `uirt-pronto.c` | `rp_ctx` during a call | `rp_parse`, `rp_output` |
| USB driver | `usb.c` | the interface, one buffer, one read in flight | setting up, `usb_read_callback`, `usb_write`, `usb_shutdown` |
| TTY driver | `tty.c` | a descriptor and a stream on it | finding the port, `tty_read_callback`, `tty_write`, `tty_shutdown` |
| Command line | `ribsu_cli/main.c` | stdin as a descriptor and as a stream, the word being read | `stdin_read_callback`, `ribsu_read_callback`, `signal_handler` |
| Device | not in `src/` | its mode, commands it has, bytes on the wire | answers, sends codes |

How they meet. `main` adds stdin to the run loop, then `ribsu_init` adds a
driver. When stdin can be read, `stdin_read_callback` reads a word and calls
`ribsu_write` (or a metacommand's function); that runs the command through
`usm_process_user` and writes it with the driver's `drv_write`. When the driver
has bytes it calls `ribsu_callback`, whose do-while runs
`usm_process_uirt` once and `usm_process_uirt_more` until a pass has no output,
showing each output with the application's callback. User and device meet
only in the state machine: `state` says whether a reply is awaited, `mode` how
to read what is no reply, and `agg` what has been received of a code.

What is hard, by part, and what should be true of it:

- **State machine and core.** Replies and codes come on one wire and are told
  apart by `state` alone. A command clears `agg` but not always the decoders.
  It should wait for a reply exactly while one is to come; always have room for
  the next read; return to the run loop; and show everything once, whole and in
  order.
- **Decoders.** They are resumed wherever a read ended. They should keep less
  than a token, pair pulses and spaces, never divide by zero and never leave
  their tables.
- **Pronto input, hex conversion.** Pure, with lengths that wrap or exceed
  buffers by a few bytes, written by functions that are told no size. The
  digits that are shown should be accepted when they are typed, and a learned code
  that comes back should be sent as it was.
- **USB driver.** Reading continues only because every completion posts the
  next read, into the one buffer the library is just using. It should listen
  as long as it runs, and deliver in order.
- **TTY driver.** Partial writes and end of file on a descriptor that does not
  block, reads through a stream the run loop does not see, a `tcdrain` that
  waits. Either driver should give the library a stream of bytes and commands
  that are whole or reported.
- **Command line.** A blocking `fgetc` inside a callback, and a stdio buffer
  the run loop does not see. Words should be handled once, in order, when they
  are entered; the end of the stream and signals should end the program; the
  device should be served.
- **Start-up.** A dozen calls that can fail; `ribsu_init` should succeed only
  with a driver that it could set up.

`PROJECT.json` lists the hazards with their lines and the properties that are
about them.

## 2. Modules

| Module | Models |
|---|---|
| `RibsuUtil` | `buf_append`, `buf_slide`, the zero fill after a gap, on sequences |
| `Pronto` | the words of a Pronto code, shared by the two decoders and by `Codec` |
| `Uirt` | what the two decoders share: `agg`, the position `n`, the positions `pc` of a pass, consumption after a parse |
| `UirtRaw`, `UirtRaw2` | the decoders, one action a token |
| `UirtSm` | the state machine |
| `UirtDevice` | the device, external |
| `UirtFormat` | the formats of its codes as a reader of the wire, external |
| `Ribsu` | the library with its application, driver and device: the composition of all of the above |
| `RibsuProperties` | its properties and the inductive invariant |
| `UirtLink` | what the library promises, with no bytes in it; refined by `Ribsu` |
| `Codec` | a line's way through all conversions, with sizes in bytes |
| `DriverPromise` | what the library relies on in a driver; refined by `UsbDriver` and `TtyDriver` |
| `UsbDriver` | the USB driver on the run loop |
| `TtyDriver` | the steps of the TTY driver |
| `Startup` | options, `ribsu_init`, `ribsu_deinit`, the search for and the set-up of both drivers, composed with `TtyDriver` |
| `Cli`, `CliProperties` | the command line |
| `MCRibsu`, `MCCodec`, `MCUsbDriver`, `MCStartup`, `MCCli` | instances for TLC |
| `StreamLemmas` | what the helpers of a Pronto code return; facts about sequences that are cut, joined, flattened, filtered and taken step by step |
| `RibsuProofs` | proofs about the library, whatever bytes it gets |
| `FormatProofs`, `LinkProofs` | proofs about the library and the codes of the device: the reader of the wire; that the library shows what it reads |
| `UsbProofs`, `StartupProofs`, `CliProofs`, `CodecProofs` | proofs about the drivers, the command line and the conversions |

`UirtLink` above and `DriverPromise` below are the two sides of the library:
`Ribsu` implements the one for a device that `UirtDevice` describes, and gets
its bytes from a driver of which it is only assumed what the other says.

## 3. How the model corresponds to the code

### The library: `Ribsu`

Bytes are numbers 0 to 255, a line is a sequence of bytes or of the 16-bit
words of a Pronto code (how words become bytes is in `Codec`). Names are
the source's. The variables:

| Variable | Code |
|---|---|
| `agg` | `usm_ctx.agg`, bytes received and not yet used |
| `mode`, `state`, `default_frequency` | the fields of `usm_ctx` |
| `rr`, `rr2` | `usm_ctx.rr`, `.rr2` |
| `out` | the output buffer of `ribsu_callback`; `<<>>` when its length is 0 |
| `n` | the parse position in `rr_parse`/`rr2_parse` |
| `first` | whether the pass is `usm_process_uirt` or `..._more` |
| `pc` | where the callback is: `runloop` (none active), `rr_parse`, `rr2_parse` (in the loop), `rr_tail`, `rr2_tail` (left it on a short token), `propagate` (the body of the do-while), `undefined` |
| `interp` | `ribsu_ctx.interp` |
| `toDev`, `wire`, `devMode`, `nCodes` | external: commands under way, bytes under way, the device's mode |
| `expected`, `shown` | histories: lines that should be and were shown |

`RibsuWrite`, `RibsuToggleInterpretation` and `RibsuSetDefaultFrequency` are
the application's calls, `DriverRead` is a read of the driver with the call of
`ribsu_callback` that ends it, up to the first position at which the callback
loops; `RrParse` and `Rr2Parse` handle one token, `UsmProcessRawTail` and
`UsmProcessRaw2Tail` are the end of a parse and of the pass, `Propagate` is
the body of the do-while. Steps of a callback are separate actions so that its
loops can be asked about (`LoopVariant`, `CallbackReturns`), not because
anything could come between: calls and reads happen at `runloop` only.

Undefined behaviour ends a behaviour at `pc = "undefined"`: a division by a
pulse of zero length, or an entry past a table. The build is for ppc and i386,
where neither has an outcome to rely on; `NothingUndefined` is about the
inputs for which it cannot happen.

Left out: `repeat_count` (written, never used in an output the program makes),
`rr_output` and `rr2_output` (not called), reduction mod 2^32 of sums (128
pulses of 16 bits do not reach it), messages, the bytes of a command after
the first with its length and checksum (`Codec`).

### The device: `UirtDevice` (external)

What `src/` relies on and no more: a reply per command in order (one byte, or
two for a version, where the device sends eight: what matters is that it is
passed whole), a mode command takes effect with its reply, codes come in the
format of the mode at any time. A *cell* of the wire is a byte, its kind, and
whether a token ends there. With `AnyCut = FALSE` reads stop at the ends of
tokens only; with `AnyCut = TRUE` anywhere. Two more constants are about time.
`Quiet = TRUE` is a user who gives a command when nothing is under way, and a
device that sends no code while a command is not answered. `Apart = TRUE` is a
device that in addition sends no code until the reply has been read.

The manual makes the user's part of `Quiet` the user's duty ("does not enforce
USB-UIRT timing restrictions ... This is your responsibility",
`release/ribsu.rtf:59`). Nothing in `src/` makes sure of the device's part, nor of
`Apart`: they are about codes that come within milliseconds of a command.
Without the first, a code is taken for the reply (`reply_race`). Without the
second, a reply and a code behind it can come in one read, which
`usm_process_thru` copies out whole (`uirt-sm.c:65-67`, `292`): the code is shown
undecoded, in one line with the reply. So what is checked and proved of the
lines that are shown (`LinkImplemented`, `EverythingShown`) says nothing of a
code that close to a command.

### The formats: `UirtFormat` (external)

`UirtDevice` has codes that are made of tokens, and says with each code which lines
it should be shown as. `UirtFormat` says the same of any sequence of cells, with a
reader that takes one cell at a time, knows where in a code it is and has the
tables of the burst it is in. The formats are read off the decoders' handlers and
the comments on them (`uirt-raw.c`, `uirt-raw2.c`), but the reader is no decoder: it
has no buffer and no reads, is never short of a byte, and refuses what is not a
code: a table that overflows, a pulse of no length with carrier cycles, a token
that a read could cut, a RAW gap that a read could separate from its pulse.
`CodesInFormat` (every code can be read) and `CodesAsShown` (as the lines it has)
are what the proofs assume of codes; the runs of `MCRibsu` evaluate both.

### The command line: `Cli`

stdin is two buffers in a row, `pipe` (what the descriptor has) and `stdio`
(what `fgetc` has read ahead), and `hex`, the word being read. `fgetc` on an empty stream reads all that a pipe
has and the stream has room for, or at most a line from a terminal. `StdinReady` is
the run loop's callback, enabled by the descriptor; `FillStdio`,
`NextCharacter`, `HandleWord` and `HandleEof` are the loop of
`stdin_read_callback`, which is `at = "fgetc"` meanwhile. `calls` is a history
of the functions words were given to. Words are of characters whose identity
matters only for `Q`, `F`, `I` and the separators. Failed allocations return
before anything is read, which is a stutter.

### The conversions: `Codec`

One line on its way: `RibsuCallback` (a code a decoder finished becomes a
Pronto code), `RibsuReadCallback` (it is printed, with a space after every four
digits, `main.c:131-134`), `StdinReadCallback` (a word becomes bytes), `RibsuWrite` (the bytes become a command: a Pronto code is parsed by `rp_parse`
and written as a RAW command by `rp_output`; a checksum is added). A word
comes from the user in one of three ways: `PasteLine` is a line pasted as it was
printed, of which every group of four digits is a word (`main.c:171`), `TypeBack`
the line without its spaces, `TypeWord` anything else. Learned codes and typed
words are the inputs; sizes are the program's own, 512, 1025 and 1024
bytes and 128 table entries. A character is a digit by its value or *another*
one, or the space; metacommands are left out.

`at = "undefined"` stands for a store past a buffer or a table, a read of bytes
that nobody wrote, and a division by zero. None of them has an outcome to rely
on, so nothing is said of what follows.

### A driver: `DriverPromise`, `UsbDriver`, `TtyDriver`

`DriverPromise` has three variables: the bytes `sent` by the device, the bytes
`given` to `callback_fn`, and for every finished call of `drv_write` its command,
what the device took of it and whether success was returned. Bytes are given in
order and once; a prefix of a command is taken, all of it exactly when success
is returned. The mapping of both drivers hides the call that is in progress.

`UsbDriver`: `posted` and `done` are the read in flight and its completion,
`buf` the one buffer. A packet is its data without the two status bytes of the
FTDI chip. A read that fails brings nothing or a packet's data, which the code
hands on all the same (`usb.c:603`). `UsbReadCallback` strips them and calls `callback_fn`
(`pos = "callback"`), `CallbackReturns` posts the next read; `UsbWrite`,
`WriteChunk`, `WriteFails` and `WriteReturns` are the loop of `usb_write`.
`Prime` is the end of `initUIRT`.

`TtyDriver`: the descriptor `fd`, the stream `fp` on it, the port's input
`queue` and the stream's own buffer `stdio`, the port's output queue by its
length. `fread` of up to `RAW_MAX` bytes takes what the stream has, then fetches
bufferfuls of `StdioMax` until it has enough or the port has no more, as BSD's
does; the rest of the last bufferful stays in the stream. A port whose device is
gone is readable and gives nothing. Numbered bytes show the order. `write` takes
any number of bytes for which there is room and fails when there is none or the
device is gone. `tcdrain` returns when the output queue is empty or with an error.

### The life of the program: `Startup`

`Main` is `main` to the call of `ribsu_init`; `RibsuInit` to `TtyAdd` is
`ribsu_init` with the search for the USB interface (`UsbFindServices`,
`GetInterface` with the static `foundOnce`, `InitFTDI`, `InitUIRT`) and for the
serial port (`TtyFind`, `TtyAdd`), then the run loop, `Stop` (Q, the end of stdin
or a signal) and the two shutdowns. The environment decides at the start what
each search yields and at which step each interface or port fails; no step
fails by itself. `registry` and `serial` are what the two searches have yet to
give, and `registry` at the end is the interface that decided. `asked` and `able`
are histories of the options and of what can be set up, by which `drv` is judged:
a port that the run loop cannot watch counts as set up, as it does in the code
(`tty.c:111`).
With a USB driver the run loop is left to `UsbDriver` and does nothing here; with
a TTY driver `TtyDriver` runs.

## 4. Runs

| Run | Shows |
|---|---|
| `quiet` | uncut tokens, `Quiet` and `Apart`: types, `ReplyAwaited`, `NothingUndefined`, `Raw2Paired`, `CallbackReturns`, and that the library implements `UirtLink`: its safety (`LinkImplemented`) and its liveness (`EverythingShown`) |
| `cuts` | reads cut anywhere, codes racing with commands: `AggResidue`, `RawPaired`, `WaitJustified`, `LoopVariant` |
| `faults` | failed allocations and writes, unknown commands, interpretation switched: `AggResidue` |
| `cli_pieces` | pieces of lines, the end of the stream, signals and data at any time: `WordsKept`, `EofAfterWords`, `EofStops`, `SignalStops`, `DeviceServed` |
| `usb_faults` | reads, re-posted reads and writes that fail: `DataInOrder`, `ListensOn`, `WholeOrError`, `DataArrives`, and that the driver implements `DriverPromise` (`UsbKeepsPromise`) |
| `startup` | every combination of options and of interfaces and ports that fail at any step: `GivesUpForAReason`, `DriverChosen`, `Closed`, `Exits`; the TTY driver at work: it implements `DriverPromise` (`TtyKeepsPromise`), `TtyDataArrives` |
| `codec` | learned codes of 1 to 128 pulses, typed back or pasted in groups, and typed words of 0 to 1025 digits: `UndefinedOnly`, `CommandTrue`, `Checked`, `PastedAgain`, `DurationsKept` |
| `echo_repeats` `raw2_cut` `reply_race` `cli_pasted_line` `codec_carrier` | findings, section 6 |

`CallbackReturns` is checked with uncut tokens; for reads cut anywhere
`LoopVariant` says why the callback's loop ends: a line uses up bytes. (It does
not hold of ECHO mode, entered by an unknown command: finding 1.)
`SignalStops` and `DeviceServed` are conditional on `WordsEnd`, that no word is
left unfinished for ever: while `fgetc` waits for the rest of a word nothing
else runs. `ListensOn` and `DataArrives` are conditional on the first read
having been posted, which `initUIRT` does not look at. `TtyDataArrives` is
conditional on `ReadsKeepUp`, that never more waits than one read takes: bytes
that `fread` left in the stream are not seen until the device sends again.
`Exits` is conditional on `OutputTaken`, since `tcdrain` waits for the device.
`GivesUpForAReason` allows for an interface that somebody else has open, at
which the code exits with a message that names the other driver.
`ReplyAwaited` is checked with `Apart` and proved without it (section 5).
`CommandTrue` and `DurationsKept` are about commands that fit their length byte
(`Fits`). `DurationsKept` is about a code whose digits are given back as one word,
without the printed spaces (`Unbroken`): what the program makes of the line as it
is printed is finding 4. It is checked on the carriers of 37.5 to 40 kHz in `codec`
and fails on others in `codec_carrier`; it is proved for ranges of carriers
(section 5).

Bounds. Of the library: a UIR code is 3 bytes instead of 6, the tables hold 2
entries instead of 128, `agg` 12 or 32 bytes instead of 4096 (`uirt-sm.h:14`) and
a read at most 8 or 9 instead of 62 (USB) or 512 (TTY); the code compares these numbers, it does not compute
with them. The device sends 2 codes (`MaxCodes`), enough for one code to leave
something behind for the next, and a RAW or RAW2 code is itself one or two
transmissions with a gap between them; the application makes 1 to 3 calls
(`MaxCmds`), enough for every pair of modes and a frequency in between. 8 lines
(`MaxShown`) are more than 3 replies and 2 codes of 2 lines. Both sizes of a
RAW2 pulse, full tables, a single-pulse burst and durations that differ from
each other are among the codes. Of the command line: four
pieces, which end in a word, between words or in nothing, and a stdio buffer of
two characters so that words straddle it; `HexMax` is 3, and there are words that
are longer: of these the program loses characters (`main.c:171`), so `WordsKept`
and `EofAfterWords` are about words that fit (`WordsFit`). Of
the USB driver: packets without data and with; commands of 0, 1/2, 1, 2 and
2 1/2 chunks; three packets; two faults. Of the start: five combinations of
options, up to two interfaces and two serial services of every kind, so that
one that fails comes before or after one that works; `RAW_MAX` 2 against a
stream of 3 and 3 bytes from the device, so that a read leaves something in
the stream; an output queue of 2 against commands of 2 and 3 bytes, so that one
is taken in part. `Codec` has the real sizes, and lengths on both sides of every
limit: 62 and 63 long durations or 124 and 125 short ones at the length byte,
126 to 128 pulses at the buffer, 1022 to 1025 digits; and a carrier whose frequency
word has a low byte of zero.

Fairness. `Callback` is weakly fair: it is the program's own code running.
`DriverRead` is weakly fair: the run loop dispatches a source that is ready,
and nothing else of the library's can disable it. `Answering`: the device
answers commands it has. `StdinReady`, `DeviceReady` and `UsbReadCallback` are
strongly fair, for several sources compete for the run loop, each is disabled
while another's callback runs, and the run loop serves its ready sources in
turn; so is `TtyReading`. The steps of `ribsu_init`, of a write and of a shutdown
are weakly fair, being the program's own code running. No fairness is assumed
of the user, the device's codes, a port that sends its output on, or a fault.

Deadlock is checked everywhere; `Waiting`, `Undefined`, `Idle` and `Ended` are
the states in which the program rightly does nothing.

Every property of a passing run has a mutant: a named, plausible mistake in one
mapped definition (beside it in the module, marked *Mutant*) that makes the
property fail under the run's own configuration.

## 5. Proofs

Every safety property of the passing runs is a theorem, for all values
of the constants that satisfy the named assumptions (`...Assumption`, which TLC
evaluates in the runs) and the hypotheses in the third column.

| Theorem | Says | Given |
|---|---|---|
| `RibsuInvariant`, `TypesHold` | `[]RibsuInv`, `[]TypeOK` of `Ribsu` | |
| `ResidueHolds` | `[]AggResidue` | |
| `AggHasRoom` | `[]AggRoom`: no byte is ever refused | `agg` has room for a read and the longest residue |
| `RawPairedHolds` | `[]RawPaired` | |
| `LoopVariantHolds` | `LoopVariant` | |
| `WaitJustifiedHolds` | `[]WaitJustified` | no faults, interpretation is not switched |
| `ReplyAwaitedHolds` | `[]ReplyAwaited` | these, `Quiet` and tokens that are not cut; codes may follow the reply at once |
| `NothingUndefinedHolds`, `Raw2PairedHolds` | `[]NothingUndefined`, `[]Raw2Paired` | `QuietUser`: these, `Apart`, commands the library knows, and an `agg` with room for a read and what is kept; `CodesInFormat` |
| `LinkImplementedHolds` | the library implements the safety part of `UirtLink` | these and `CodesAsShown` |
| `UsbInvariant`, `UsbTypesHold` | `[]UsbInv`, `[]TypeOK` of `UsbDriver` | |
| `DataInOrderHolds`, `WholeOrErrorHolds`, `ListensOnHolds` | `[]DataInOrder`, `[]WholeOrError`, `ListensOn` | |
| `UsbKeepsPromiseHolds` | the USB driver implements `DriverPromise` | |
| `StartupInvariant`, `StartupTypesHold` | `[]StartupInv`, `[]TypeOK` of `Startup` | |
| `GivesUpForAReasonHolds`, `DriverChosenHolds`, `ClosedHolds` | `[]GivesUpForAReason`, `[]DriverChosen`, `[]Closed` | |
| `TtyKeepsPromiseHolds` | the TTY driver implements `DriverPromise` | |
| `CliInvariant`, `CliTypesHold` | `[]CliInv`, `[]TypeOK` of `Cli` | |
| `WordsKeptHolds`, `EofAfterWordsHolds` | `[]WordsKept`, `[]EofAfterWords` | |
| `CodecTypesHold`, `CheckedHolds`, `PastedAgainHolds` | `[]TypeOK` of `Codec`, `[]Checked`, `[]PastedAgain` | |
| `CommandTrueHolds` | `[]CommandTrue` | an output buffer of more than 257 bytes |
| `UndefinedOnlyHolds` | `[]UndefinedOnly` | the sizes of the program (`Sizes`); codes that begin and end with a pulse (`PairedCodes`, which is what `RawPaired` and `Raw2Paired` say of the decoders) |
| `DurationsKeptHolds` | `[]DurationsKept` | an output buffer of more than 257 bytes; `UsualCarriers`: durations as long as the formats allow, on a carrier of 37.5 to 41.4 kHz (RAW) or 35.5 to 39.2 kHz (RAW2), or on one that is shown as zero |

The hypotheses about the user and about faults are the constants of the runs
`quiet` and `cuts`, under which these properties are checked; without them the
properties are false (section 6).

**The library.** None of the properties is inductive. `AggResidue` at the run loop
depends on what the parse loop leaves when it stops, which depends on where it
was in `agg` and on the decoder not being `done`; types of the decoders depend
on the parse never moving past its bytes. `RibsuInv` therefore adds
`PassInv`: where `n` and `done` are at each position, that a pass decodes in the
format of the mode, that a short token leaves 1 byte (RAW) or 1 to 3 (RAW2),
that ECHO keeps nothing and that nothing is kept while a reply is awaited, and that a sum of frequency samples is at least their
number (the mean is then a number that can be divided by). The argument
follows the code: `RibsuProofs` has one lemma per handler and per parse loop, then
the ends of the parses, the passes, the application's calls, the
device, and one step for each disjunct of `Next`. The rest builds on
`RibsuInv`: `RawPaired` on `RrPairs` (the decoder's state says how many more
pulses than spaces there are), `LoopVariant` on `StartsOver` and `PassTakes` (a
decoder that starts a further pass starts over, and a pass that finishes a code
has moved), `WaitJustified` on `WaitInv` (a machine that waits has its command
with the device or the reply on the wire), `ReplyAwaited` on `QuietInv` (under way
is a command, or its reply with codes behind it, or codes).

Nothing is assumed about what the bytes of a code mean, so the theorems of
`RibsuProofs` hold for garbage on the wire as well. `DeviceAssumption` says what a code is made of:
cells of bytes, marked as a code's.

**The library and the device.** That a line is the code that was sent, and that a
decoder does nothing undefined, is true of codes only, and no invariant about the
decoders alone can say it: what they will do depends on bytes they have not seen.
`LinkInv` says it with the reader of `UirtFormat`. A decoder that is in a code
corresponds to a reader at some place (`ReaderAt`: the decoder's state and tables
are the place and tables of the reader), and this reader can go on through the
bytes left in `agg` to a place where a read may stop, and from there through the
cells on the wire to the end of a code (`Ahead`), with the lines `L` behind it.
Those are the lines that are expected (`Expects`), and the lines the decoder has
finished are those shown (`Shows`). The steps are then:

- a device that sends a code adds cells which a reader at its start can read
  (`CodesInFormat`);
- a read moves cells from the wire into `agg`, and stops where a reader may stop;
- a decoder's handler is a reader's step over the cells of one token: it finds a
  whole token, for a reader that stopped inside one would have refused it, and
  room in its tables, for a reader that has none refuses;
- the fix-up after a gap puts two zero bytes in front of what is left, and takes
  the reader to the interspace before the next burst;
- a command is written, and the mode and the frequency are changed, when nothing
  is on the wire and in `agg` and no decoder is in a code (`QuietInv`,
  `SettingsInv`).

So a decoder that could divide by zero, overflow or skip corresponds to a reader
that has refused, and from such a place no code can be read to its end
(`AheadNotRefused`). `NothingUndefined` is a part of `LinkInv`, `Raw2Paired`
follows with `Rr2Pairs` (as many spaces as pulses or one less), and a step of the
library with `LinkInv` before and after it is a line sent, the next line shown,
or leaves both histories as they were.

**The drivers.** `UsbInv` says where every packet is: given to the library, in the
one buffer, or in the device (`StreamInv`, `DataInv`); which of read, completion
and callback is going on (`ReadInv`); and how far a command is written
(`WriteInv`). `StartupInv` relates what a search has yet to give, what was asked
for and can be set up, what is open and where the program is (`ControlInv`), and for
the TTY driver the same two streams. Both refinements follow from these: a step
of a driver is a step of `DriverPromise` or changes nothing the promise speaks of.

**The command line.** `CliInv` names the text that has gone through `fgetc`: what was
written is that text, the stdio buffer and the pipe in a row, and, unless a word
was longer than `hex`, its words are those handled, with `hex` the word being
read.

**The conversions.** `SentInv` says that what is sent is the command with its
checksum, `StageInv` what each stage has of the one before. The properties then
follow from lemmas about the functions: that hexadecimal digits are read back as
the bytes they show (`TypedBack`), that pulses and spaces taken in turn are the
durations of a Pronto code (`AlternateOddsEvens`), where the bytes of each
duration are in a command (`DataBytesAt`), what a sum of bytes is after one
more (`ByteSumAppend`).

`DurationsKept` is about rounding. A code whose digits are given back as one word
arrives as it was shown (`LearnedInv`), so a duration of `t` units is in it as `S * t \div f` cycles, with
the constant `S` of its mode, and is sent with `c` ticks for each. It is kept to a
tenth and a cycle if `S * c` is within a tenth of `unit * f` (`ScaledBack`, with no
bound on any of them). A carrier `f` around 39 kHz is shown as one of the 17
frequency words from 100 to 116 (`WordCarriers`); for each of them the cycle `c` is
known (`WordCycles`), and the inequality is one in `f` alone (`CarrierNear`). The
ranges of `UsualCarriers` are where it is true of all frequencies; what happens
outside is in section 6. No duration the formats have is too long for a word there
(`ShortQuotient`).

**Induction over data.** What the functions of the models compute for every text,
stream or buffer is an induction over data. It is done here with sets: the
lengths up to which a fact holds are a set of numbers that has 0 and with every
number the next, hence all numbers. `StreamLemmas` has it for splitting a text into words,
for `FlattenSeq`, for filters, and for functions that take a sequence step by
step, with the uniqueness that makes a recursive definition one with its steps.
`DataBytes` and `ByteSum` of `Codec` are recursive functions by halves, whose
value is determined by an induction over the distance of two positions.

**Model-checked only.** Everything about fairness (`EverythingShown`,
`CallbackReturns`, `EofStops`, `SignalStops`, `DeviceServed`, `DataArrives`,
`TtyDataArrives`, `Exits`), which is beyond the prover.

## 6. What the runs found

1. `echo_repeats` - after a command the library does not know, the device's
   reply is shown for ever: `usm_process_thru` has no input in the further
   passes and leaves `out` as it was (`uirt-sm.c:292`). The callback never
   returns.
2. `raw2_cut` - `rr2_parse` advances before it knows that the token is complete
   (`uirt-raw2.c:74`); a read that ends in a token makes it take the rest of a
   pulse for a space.
3. `reply_race` - a command is written, and the device sends a code before it
   answers: the first byte of the code is passed through as the response, and the
   state machine stops waiting while the command is not answered (`uirt-sm.c:67`).
4. `cli_pasted_line` - a line is printed with a space after every four digits
   (`main.c:131`), at which a word ends when the line is pasted (`main.c:171`),
   though the manual says that pasting it sends the code (`release/ribsu.rtf:38`). The
   first group alone is given to `ribsu_write`; of a Pronto line it is `0000`, a Pronto
   code without a frequency. The rest stays in the stdio buffer, which the run
   loop does not watch, until something else is typed.
5. `codec_carrier` - durations are scaled to carrier cycles by a constant over
   the frequency (`uirt-raw.c:128`, `uirt-raw2.c:133`), where the number of cycles
   grows with the frequency. Near 39 kHz the two agree (`DurationsKeptHolds`); a code learned on 30, 36
   or 56 kHz is sent with durations that are wrong by the square of the ratio.

Seen while modelling, with no run of their own:

- a RAW gap that comes first in a read leaves no interspace for the next code
  (`uirt-raw.c:83`);
- a command that could not be written leaves the state machine waiting for its
  reply (`ribsu.c:161`), and on a TTY the part that was taken stays with the
  device (`tty.c:182`);
- a reply and a code right behind it in one read are shown as one line, and the
  code is not decoded (`uirt-sm.c:65-67`, `292`);
- commands that come together through a pipe are handled one for each time that
  the pipe is written to (`main.c:171`): the others wait in the stdio buffer;
- RAW mode shows Pronto codes, which start with 0000, where the manual announces
  36 commands (`uirt-sm.c:239`, `ribsu.rtf:38`);
- the length byte of a command wraps for a code of more than 249 bytes of
  durations (`uirt-pronto.c:85`); a code of 127 or 128 pulses is 4 or 8 bytes
  longer than the buffer it is shown from (`uirt-raw2.c:128`);
- a carrier of 16.2 kHz has a frequency word of 256, of which one byte is shown,
  a zero (`uirt-raw2.c:122`); typed back, it divides by zero (`uirt-pronto.c:159`);
- Ctrl-C does not end the program while a piece of a line waits for its rest
  (`main.c:229`);
- a first read that cannot be posted goes unnoticed (`usb.c:572`), and so does a
  port that the run loop cannot watch (`tty.c:111`), whose shutdown closes a
  stream that was never opened;
- when `initFTDI` fails the interface stays open (`usb.c:184`);
- a TTY whose device is gone is reported readable for ever, and nothing stops
  the program (`tty.c:156`).

## 7. Not modelled

`printInterpretedError.c` and `debug.h` only format messages. The build files
have no behaviour of the program. Of the options only those that choose a
driver matter to what follows; `rr_output` and `rr2_output` are not called.
Vendor and product numbers, line settings and the values of the requests to
the FTDI chip are data that nothing in the program depends on. Memory is not
modelled beyond allocations that fail. The command line, the library and a
driver are not composed in one module: each callback runs to its end before
another starts, so that what one part asks of another is stated between them
(`UirtLink`, `DriverPromise`, and `DeviceServed` of `Cli` for the delay).
