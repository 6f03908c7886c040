---------------------------- MODULE StartupProofs -----------------------------
(***************************************************************************)
(* Proofs about Startup and the TTY driver, for every set of options, of   *)
(* interfaces, ports and commands, and every size of a buffer.             *)
(***************************************************************************)
EXTENDS Startup, StreamLemmas

UsbSetUp == {"usb_add_source", "getInterface", "initFTDI", "initUIRT"}

\* The options say what was asked for, as long as they are looked at.
AskedInv ==
    /\ at = "main" => /\ "usb" \in asked <=> o.use_usb \/ ~o.use_tty
                      /\ "tty" \in asked <=> o.use_tty \/ ~o.use_usb
    /\ at \in {"ribsu_init"} \cup UsbSetUp => ("usb" \in asked <=> o.use_usb)
    /\ at \in UsbSetUp => o.use_usb
    /\ at \in {"ribsu_init", "tty", "tty_add_source"} \cup UsbSetUp =>
          ("tty" \in asked <=> o.use_tty)
    /\ at = "tty_add_source" => o.use_tty

\* What is left of a search says whether its driver can be set up.
UsbAbleInv ==
    /\ at \in {"main", "ribsu_init", "usb_add_source"} => ~foundOnce
    /\ at \in {"main", "ribsu_init", "usb_add_source"} => ("usb" \in able <=> UsbSetsUp)
    /\ at = "getInterface" => found /\ ("usb" \in able <=> ~foundOnce /\ UsbSetsUp)
    /\ at \in {"initFTDI", "initUIRT"} =>
          \E i \in Openable : /\ registry = <<i>>
                              /\ "usb" \in able <=> i = "works"
                              /\ at = "initUIRT" => i # "noftdi"

TtyAbleInv ==
    /\ at \in Initializing \ {"tty_add_source"} => ("tty" \in able <=> TtySetsUp)
    /\ at = "tty_add_source" => ("tty" \in able <=> SerialPortOpens)
    /\ o.named => serial = <<>>
    /\ ~o.named /\ at \in Initializing \ {"tty_add_source"} => port = "absent"

\* What is open, and which driver there is, at every step.
UsbOpenInv ==
    /\ at \in {"main", "ribsu_init", "usb_add_source", "getInterface"} => intf = "none"
    /\ at \in {"initFTDI", "initUIRT"} => intf = "open"
    /\ at \in Initializing => fd = "none" /\ fp = "unset"
    /\ at \in Initializing \ {"tty"} => drv = "none"
    /\ at = "tty" /\ o.use_usb => drv = "usb" /\ intf = "open" /\ "usb" \in asked \cap able
    /\ at \in {"tty", "tty_add_source"} /\ ~o.use_usb =>
          drv = "none" /\ "usb" \notin asked \cap able /\ (intf = "open" => Forgotten)
    /\ at = "tty_add_source" => ~o.use_usb

RunningInv ==
    /\ DriverChosen
    /\ at \in {"write", "tcdrain", "fclose"} => drv = "tty"
    /\ at = "usb_shutdown" => drv = "usb"
    /\ at = "fclose" => fd = "closed"
    /\ at \in Running /\ fp = "unset" /\ drv = "tty" => port = "unwatchable"

ControlInv == AskedInv /\ UsbAbleInv /\ TtyAbleInv /\ UsbOpenInv /\ RunningInv

AllSent == [i \in 1 .. nSent |-> i]

\* A byte is with the library, in the stream's buffer or in the port's queue.
StreamInv == AllSent = (given \o stdio) \o queue

WholeRecord(w) == IsPrefix(w.taken, w.cmd) /\ (w.ok <=> w.taken = w.cmd)

\* Finished commands were taken whole or are reported; of the one tty_write is
\* at, the port has the beginning.
WriteInv ==
    /\ \A k \in DOMAIN written :
          (at = "write" => k # Len(written)) => WholeRecord(written[k])
    /\ at = "write" =>
          /\ written # <<>>
          /\ Last(written).cmd = cmd /\ Last(written).ok = TRUE
          /\ IsPrefix(Last(written).taken, cmd)

\* The inductive invariant.
StartupInv ==
    TypeOK /\ ControlInv /\ GivesUpForAReason /\ Closed /\ StreamInv /\ WriteInv

-----------------------------------------------------------------------------
(* Searches *)

\* The first member that is not x is y.
Sought(x, y, s) == \E i \in DOMAIN s : FirstBut(x, s, i) /\ s[i] = y

\* The first member that is not x is at 1 if the first is not x,
LEMMA FirstButHead ==
    ASSUME NEW S, NEW x, NEW s \in Seq(S), s # <<>>, Head(s) # x
    PROVE  \A i \in DOMAIN s : FirstBut(x, s, i) <=> i = 1
BY DEF FirstBut

\* and otherwise it is the first of the others.
LEMMA FirstButTail ==
    ASSUME NEW S, NEW x, NEW s \in Seq(S), s # <<>>, Head(s) = x, NEW y
    PROVE  Sought(x, y, s) <=> Sought(x, y, Tail(s))
<1> DEFINE t == Tail(s)
<1>1. /\ DOMAIN s = 1 .. Len(t) + 1 /\ DOMAIN t = 1 .. Len(t) /\ Len(t) \in Nat
      /\ s[1] = x /\ \A i \in 1 .. Len(t) : t[i] = s[i + 1]
  OBVIOUS
<1> HIDE DEF t
<1>2. ASSUME NEW i \in DOMAIN s, FirstBut(x, s, i), s[i] = y
      PROVE  \E j \in DOMAIN t : FirstBut(x, t, j) /\ t[j] = y
  <2>1. i # 1 /\ i - 1 \in 1 .. Len(t) /\ t[i - 1] = s[i]
    BY <1>1, <1>2 DEF FirstBut
  <2>2. \A j \in 1 .. (i - 1) - 1 : t[j] = x
    BY <1>1, <1>2, <2>1 DEF FirstBut
  <2> QED BY <1>1, <1>2, <2>1, <2>2 DEF FirstBut
<1>3. ASSUME NEW i \in DOMAIN t, FirstBut(x, t, i), t[i] = y
      PROVE  \E j \in DOMAIN s : FirstBut(x, s, j) /\ s[j] = y
  <2>1. i + 1 \in 1 .. Len(t) + 1 /\ s[i + 1] = t[i]
    BY <1>1
  <2>2. \A j \in 1 .. (i + 1) - 1 : s[j] = x
    <3> SUFFICES ASSUME NEW j \in 1 .. i PROVE s[j] = x
      BY <1>1
    <3>1. CASE j = 1
      BY <1>1, <3>1
    <3>2. CASE j # 1
      <4>1. j - 1 \in 1 .. i - 1 /\ j - 1 \in 1 .. Len(t) /\ (j - 1) + 1 = j
        BY <1>1, <3>2
      <4>2. t[j - 1] = x /\ t[j - 1] = s[j]
        BY <1>1, <1>3, <4>1 DEF FirstBut
      <4> QED BY <4>2
    <3> QED BY <3>1, <3>2
  <2>3. s[i + 1] = y /\ s[i + 1] # x
    BY <1>3, <2>1 DEF FirstBut
  <2> QED BY <1>1, <2>1, <2>2, <2>3 DEF FirstBut
<1> QED BY <1>2, <1>3 DEF t, Sought

\* There is one first service that looks right.
LEMMA ModemUnique ==
    ASSUME serial \in Seq(SerialServices), NEW i \in DOMAIN serial, NEW j \in DOMAIN serial,
           Modem(i), Modem(j)
    PROVE  i = j
BY DEF Modem, FirstBut

\* A search for the interface that passes one without a plug-in,
LEMMA UsbSetsUpTail ==
    ASSUME registry \in Seq(Interfaces), registry # <<>>, Head(registry) = "noplugin",
           registry' = Tail(registry), found' = found
    PROVE  UsbSetsUp' <=> UsbSetsUp
<1>1. Sought("noplugin", "works", registry) <=> Sought("noplugin", "works", Tail(registry))
  BY FirstButTail
<1>2. /\ UsbSetsUp <=> found /\ Sought("noplugin", "works", registry)
      /\ UsbSetsUp' <=> found' /\ Sought("noplugin", "works", registry')
  BY DEF UsbSetsUp, Counts, Sought
<1> QED BY <1>1, <1>2

\* that is at one with a plug-in,
LEMMA UsbSetsUpHead ==
    ASSUME registry \in Seq(Interfaces), registry # <<>>, Head(registry) # "noplugin"
    PROVE  UsbSetsUp <=> found /\ Head(registry) = "works"
BY FirstButHead DEF UsbSetsUp, Counts

\* and that is at the end.
LEMMA UsbSetsUpNone == ASSUME registry = <<>> PROVE ~UsbSetsUp
BY DEF UsbSetsUp, Counts

-----------------------------------------------------------------------------
(* The search for a driver *)

Safe == ControlInv /\ GivesUpForAReason /\ Closed

\* ribsu_init keeps it, whichever step of either driver's set-up fails.
LEMMA InitializingSafe ==
    ASSUME o \in [use_usb: BOOLEAN, use_tty: BOOLEAN, named: BOOLEAN],
           registry \in Seq(Interfaces), serial \in Seq(SerialServices), port \in Ports, asked \subseteq {"usb", "tty"},
           Safe, RibsuInitializing
    PROVE  Safe'
<1> USE DEF Safe, ControlInv, AskedInv, UsbAbleInv, TtyAbleInv, UsbOpenInv, RunningInv,
            DriverChosen, GivesUpForAReason, Closed, Initializing, Running, Over, UsbSetUp,
            Forgotten, ttyVars, openVars, usbVars, historyVars
<1>1. CASE Main
  BY <1>1 DEF Main, portVars, UsbSetsUp, Counts, TtySetsUp, Modem, SerialPortOpens
<1>2. CASE RibsuInit
  BY <1>2 DEF RibsuInit, portVars, UsbSetsUp, Counts, TtySetsUp, Modem, SerialPortOpens
<1>3. CASE UsbFindServices
  BY <1>3 DEF UsbFindServices, UsbFailed, portVars, UsbSetsUp, Counts, TtySetsUp, Modem, SerialPortOpens
<1>4. CASE GetInterface
  BY <1>4, UsbSetsUpHead, UsbSetsUpTail DEF GetInterface, portVars, TtySetsUp, Modem, SerialPortOpens
<1>5. CASE GetInterfaceFails
  BY <1>5, UsbSetsUpNone DEF GetInterfaceFails, UsbFailed, portVars, TtySetsUp, Modem, SerialPortOpens
<1>6. CASE InitFTDI
  BY <1>6 DEF InitFTDI, UsbFailed, portVars, TtySetsUp, Modem, SerialPortOpens
<1>7. CASE InitUIRT
  BY <1>7 DEF InitUIRT, UsbFailed, portVars, TtySetsUp, Modem, SerialPortOpens
<1>8. CASE TtySkipped
  BY <1>8 DEF TtySkipped, portVars
<1>9. CASE TtyFind
  <2>1. serial = <<>> => (TtySetsUp <=> SerialPortOpens)
    BY DEF TtySetsUp, Modem
  <2>2. \A i \in DOMAIN serial :
           Modem(i) => (TtySetsUp <=> SerialPortOpens \/ serial[i] \in {"unwatchable", "works"})
    BY ModemUnique DEF TtySetsUp
  <2>3. (\A i \in DOMAIN serial : ~Modem(i)) => (TtySetsUp <=> SerialPortOpens)
    BY DEF TtySetsUp
  <2>4. at = "tty" /\ ~o.use_usb /\ o.use_tty /\ UNCHANGED <<fd, fp, o, usbVars, drv, historyVars, stdinWorks>>
    BY <1>9 DEF TtyFind
  <2>5. CASE at' = "tty_add_source" /\ o.named /\ UNCHANGED portVars
    BY <2>1, <2>4, <2>5 DEF portVars, SerialPortOpens
  <2>6. CASE ~o.named /\ at' = "tty_add_source" /\ serial' = <<>>
               /\ \E i \in DOMAIN serial : Modem(i) /\ port' = serial[i]
    <3>1. PICK i \in DOMAIN serial : Modem(i) /\ port' = serial[i]
      BY <2>6
    <3>2. TtySetsUp <=> SerialPortOpens'
      BY <2>2, <2>4, <2>6, <3>1 DEF SerialPortOpens
    <3> QED BY <2>4, <2>6, <3>2
  <2>7. CASE ~o.named /\ at' = "exit(1)" /\ serial' = <<>> /\ UNCHANGED port
               /\ \A i \in DOMAIN serial : ~Modem(i)
    BY <2>3, <2>4, <2>7 DEF SerialPortOpens
  <2> QED BY <1>9, <2>5, <2>6, <2>7 DEF TtyFind, TtyFindDevice
<1>10. CASE TtyAdd
  BY <1>10 DEF TtyAdd, TtyAddSource, OpenSerialPort, portVars, SerialPortOpens, Ports
<1> QED BY <1>1, <1>2, <1>3, <1>4, <1>5, <1>6, <1>7, <1>8, <1>9, <1>10 DEF RibsuInitializing

\* What the device and the user cannot change.
LEMMA EnvironmentFrame ==
    ASSUME Environment
    PROVE  /\ UNCHANGED <<openVars, startupVars>>
           /\ at' = at \/ (drv = "tty" /\ at = "runloop" /\ at' = "write")
<1>1. ASSUME NEW k \in 1 .. MaxBytes, DeviceSends(k) PROVE UNCHANGED <<at, openVars>>
  BY <1>1 DEF DeviceSends
<1>2. HangUp \/ PortDrains => UNCHANGED <<at, openVars>>
  BY DEF HangUp, PortDrains
<1>3. TtyWrite => UNCHANGED openVars /\ at = "runloop" /\ at' = "write"
  BY DEF TtyWrite
<1> QED BY <1>1, <1>2, <1>3 DEF Environment

\* So do the run loop and the end.
LEMMA RunningSafe ==
    ASSUME drv \in {"none", "usb", "tty"}, asked \subseteq {"usb", "tty"}, Safe,
           CFRunLoopRun \/ Stop \/ RibsuDeinit \/ TtyReading \/ TtyWriting \/ Environment
             \/ UNCHANGED vars
    PROVE  Safe'
<1> USE DEF Safe, ControlInv, AskedInv, UsbAbleInv, TtyAbleInv, UsbOpenInv, RunningInv,
            DriverChosen, GivesUpForAReason, Closed, Initializing, Running, Over, UsbSetUp,
            Forgotten, ttyVars, openVars, portVars, usbVars, historyVars, startupVars, vars
<1>1. CASE CFRunLoopRun
  BY <1>1 DEF CFRunLoopRun
<1>2. CASE Stop
  BY <1>2 DEF Stop
<1>3. CASE UsbShutdown
  BY <1>3 DEF UsbShutdown
<1>4. CASE CloseSerialPort /\ UNCHANGED startupVars
  BY <1>4 DEF CloseSerialPort
<1>5. CASE TtyFclose("exit(0)") /\ UNCHANGED startupVars
  BY <1>5 DEF TtyFclose
<1>6. CASE TtyReading
  BY <1>6 DEF TtyReading, TtyReadCallback, TtyReady
<1>7. CASE TtyWriting
  BY <1>7 DEF TtyWriting, WriteSome, WriteError, WriteReturns
<1>8. CASE Environment
  <2>1. /\ UNCHANGED <<openVars, startupVars>>
        /\ at' = at \/ (drv = "tty" /\ at = "runloop" /\ at' = "write")
    BY <1>8, EnvironmentFrame
  <2> QED BY <2>1 DEF UsbSetsUp, Counts, TtySetsUp, Modem, SerialPortOpens
<1>9. CASE UNCHANGED vars
  BY <1>9 DEF UsbSetsUp, Counts, TtySetsUp, Modem, SerialPortOpens
<1> QED BY <1>1, <1>2, <1>3, <1>4, <1>5, <1>6, <1>7, <1>8, <1>9 DEF RibsuDeinit

-----------------------------------------------------------------------------
(* Types *)

Places == Initializing \cup Running \cup Over

\* Where the program is and what is open.
OpenTypes ==
    /\ at \in Places /\ fd \in {"none", "open", "closed"} /\ fp \in {"unset", "open", "closed"}
    /\ source \in BOOLEAN /\ (source => fp # "unset") /\ hungUp \in BOOLEAN
    /\ intf \in {"none", "open", "closed"} /\ drv \in {"none", "usb", "tty"}

\* What was asked for, and what the searches have before them.
SearchTypes ==
    /\ serial \in Seq(SerialServices) /\ port \in Ports
    /\ o \in [use_usb: BOOLEAN, use_tty: BOOLEAN, named: BOOLEAN]
    /\ stdinWorks \in BOOLEAN /\ found \in BOOLEAN /\ foundOnce \in BOOLEAN
    /\ registry \in Seq(Interfaces)
    /\ asked \subseteq {"usb", "tty"} /\ able \subseteq {"usb", "tty"}

Options == [use_usb: BOOLEAN, use_tty: BOOLEAN, named: BOOLEAN]

\* The options stay options.
LEMMA OptionsType ==
    ASSUME o \in Options, RibsuInitializing
    PROVE  o' \in Options
<1>1. \A a \in BOOLEAN : [o EXCEPT !.use_usb = a] \in Options /\ [o EXCEPT !.use_tty = a] \in Options
  BY DEF Options
<1>2. CASE Main
  <2> DEFINE none == ~o.use_usb /\ ~o.use_tty
             p == [o EXCEPT !.use_usb = @ \/ none]
  <2>1. p \in Options
    BY DEF Options
  <2>2. o' = [p EXCEPT !.use_tty = o.use_tty \/ none] /\ (o.use_tty \/ none) \in BOOLEAN
    BY <1>2 DEF Main, Options
  <2> HIDE DEF p, none
  <2> QED BY <2>1, <2>2 DEF Options
<1>3. CASE TtyAdd
  BY <1>1, <1>3 DEF TtyAdd
<1>4. CASE UsbFindServices \/ GetInterfaceFails \/ InitFTDI \/ InitUIRT
  BY <1>1, <1>4 DEF UsbFindServices, GetInterfaceFails, InitFTDI, InitUIRT, UsbFailed
<1>5. CASE RibsuInit \/ GetInterface \/ TtySkipped \/ TtyFind
  BY <1>5 DEF RibsuInit, GetInterface, TtySkipped, TtyFind
<1> QED BY <1>2, <1>3, <1>4, <1>5 DEF RibsuInitializing

\* ribsu_init keeps these types,
LEMMA InitializingTypes ==
    ASSUME OpenTypes, SearchTypes, RibsuInitializing
    PROVE  OpenTypes' /\ SearchTypes'
<1>1. o' \in Options
  BY OptionsType DEF SearchTypes, Options
<1>2. OpenTypes'
  <2> USE DEF OpenTypes, ttyVars, openVars, portVars, usbVars, historyVars, Places, Initializing,
              Running, Over
  <2>1. CASE Main \/ RibsuInit \/ UsbFindServices \/ GetInterface \/ GetInterfaceFails
    BY <2>1 DEF Main, RibsuInit, UsbFindServices, GetInterface, GetInterfaceFails, UsbFailed
  <2>2. CASE InitFTDI \/ InitUIRT \/ TtySkipped
    BY <2>2 DEF InitFTDI, InitUIRT, TtySkipped, UsbFailed
  <2>3. CASE TtyFind
    BY <2>3 DEF TtyFind, TtyFindDevice
  <2>4. CASE TtyAdd
    BY <2>4 DEF TtyAdd, TtyAddSource, OpenSerialPort, SerialPortOpens, SearchTypes, Ports
  <2> QED BY <2>1, <2>2, <2>3, <2>4 DEF RibsuInitializing
<1>3. serial' \in Seq(SerialServices) /\ port' \in Ports
  <2>1. CASE TtyFind
    <3>1. \A i \in DOMAIN serial : serial[i] \in SerialServices
      BY DEF SearchTypes
    <3>2. \A i \in DOMAIN serial : Modem(i) => serial[i] \in Ports
      BY <3>1 DEF Modem, FirstBut, SerialServices
    <3>3. <<>> \in Seq(SerialServices)
      OBVIOUS
    <3> QED BY <2>1, <3>2, <3>3 DEF TtyFind, TtyFindDevice, SearchTypes, portVars
  <2>2. CASE ~TtyFind
    <3>1. UNCHANGED portVars
      BY <2>2 DEF RibsuInitializing, Main, RibsuInit, UsbFindServices, GetInterface, TtyAddSource,
             GetInterfaceFails, InitFTDI, InitUIRT, TtySkipped, TtyAdd, ttyVars, openVars
    <3> QED BY <3>1 DEF portVars, SearchTypes
  <2> QED BY <2>1, <2>2
<1>4. registry' \in Seq(Interfaces) /\ foundOnce' \in BOOLEAN /\ found' = found
  <2>1. CASE GetInterface
    <3>1. Tail(registry) \in Seq(Interfaces) /\ <<Head(registry)>> \in Seq(Interfaces)
      BY <2>1 DEF GetInterface, SearchTypes
    <3>2. registry' \in {registry, Tail(registry), <<Head(registry)>>}
      BY <2>1 DEF GetInterface
    <3>3. foundOnce' \in BOOLEAN /\ found' = found
      BY <2>1 DEF GetInterface
    <3> QED BY <3>1, <3>2, <3>3 DEF SearchTypes
  <2>2. CASE ~GetInterface
    <3>1. UNCHANGED <<registry, foundOnce, found>>
      BY <2>2 DEF RibsuInitializing, Main, RibsuInit, UsbFindServices, GetInterfaceFails, InitFTDI,
             InitUIRT, TtySkipped, TtyFind, TtyAdd, usbVars
    <3> QED BY <3>1 DEF SearchTypes
  <2> QED BY <2>1, <2>2
<1>5. UNCHANGED <<stdinWorks, asked, able>>
  BY DEF RibsuInitializing, Main, RibsuInit, UsbFindServices, GetInterface, GetInterfaceFails,
         InitFTDI, InitUIRT, TtySkipped, TtyFind, TtyAdd, historyVars
<1> QED BY <1>1, <1>2, <1>3, <1>4, <1>5 DEF SearchTypes, Options

\* and so does what follows it.
LEMMA RunningTypes ==
    ASSUME OpenTypes, SearchTypes,
           CFRunLoopRun \/ Stop \/ RibsuDeinit \/ TtyReading \/ TtyWriting \/ Environment
             \/ UNCHANGED vars
    PROVE  OpenTypes' /\ SearchTypes'
<1>1. UNCHANGED <<portVars, o, stdinWorks, registry, found, foundOnce, historyVars>>
  <2> USE DEF ttyVars, openVars, usbVars, startupVars
  <2>1. CASE CFRunLoopRun \/ Stop \/ UsbShutdown \/ UNCHANGED vars
    BY <2>1 DEF CFRunLoopRun, Stop, UsbShutdown, vars
  <2>2. CASE (CloseSerialPort \/ TtyFclose("exit(0)")) /\ UNCHANGED startupVars
    BY <2>2 DEF CloseSerialPort, TtyFclose
  <2>3. CASE TtyReading \/ TtyWriting
    BY <2>3 DEF TtyReading, TtyReadCallback, TtyWriting, WriteSome, WriteError, WriteReturns
  <2>4. CASE Environment
    BY <2>4, EnvironmentFrame
  <2> QED BY <2>1, <2>2, <2>3, <2>4 DEF RibsuDeinit
<1>2. SearchTypes'
  BY <1>1 DEF SearchTypes, portVars, historyVars
<1>3. OpenTypes'
  <2> USE DEF OpenTypes, Places, Initializing, Running, Over, ttyVars, openVars, usbVars, startupVars
  <2>1. CASE CFRunLoopRun \/ Stop \/ UsbShutdown \/ UNCHANGED vars
    BY <2>1 DEF CFRunLoopRun, Stop, UsbShutdown, vars
  <2>2. CASE (CloseSerialPort \/ TtyFclose("exit(0)")) /\ UNCHANGED startupVars
    BY <2>2 DEF CloseSerialPort, TtyFclose
  <2>3. CASE TtyReading \/ TtyWriting
    BY <2>3 DEF TtyReading, TtyReadCallback, TtyWriting, WriteSome, WriteError, WriteReturns
  <2>4. CASE Environment
    <3>1. hungUp' \in BOOLEAN
      BY <2>4 DEF Environment, DeviceSends, HangUp, PortDrains, TtyWrite
    <3> QED BY <2>4, <3>1, EnvironmentFrame
  <2> QED BY <2>1, <2>2, <2>3, <2>4 DEF RibsuDeinit
<1> QED BY <1>2, <1>3

-----------------------------------------------------------------------------
(* Reading *)

\* Nothing else touches the input.
LEMMA InputFrame ==
    ASSUME [Next]_vars
    PROVE  \/ \E k \in 1 .. MaxBytes : DeviceSends(k)
           \/ TtyReading
           \/ UNCHANGED inputVars
<1>1. CASE RibsuInitializing
  BY <1>1 DEF RibsuInitializing, Main, RibsuInit, UsbFindServices, GetInterface, GetInterfaceFails,
              InitFTDI, InitUIRT, TtySkipped, TtyFind, TtyAdd, ttyVars
<1>2. CASE CFRunLoopRun \/ Stop \/ UsbShutdown \/ UNCHANGED vars
  BY <1>2 DEF CFRunLoopRun, Stop, UsbShutdown, ttyVars, vars
<1>3. CASE CloseSerialPort \/ TtyFclose("exit(0)")
  BY <1>3 DEF CloseSerialPort, TtyFclose
<1>4. CASE TtyWriting
  BY <1>4 DEF TtyWriting, WriteSome, WriteError, WriteReturns
<1>5. CASE HangUp \/ PortDrains \/ TtyWrite
  BY <1>5 DEF HangUp, PortDrains, TtyWrite
<1> QED BY <1>1, <1>2, <1>3, <1>4, <1>5 DEF Next, RibsuDeinit, Environment, Ended

\* The sizes are numbers.
LEMMA Sizes ==
    /\ RAW_MAX \in Nat \ {0} /\ StdioMax \in Nat \ {0} /\ OutputMax \in Nat \ {0}
    /\ MaxBytes \in Nat
BY TtyAssumption DEF TtyAssumption

\* The bufferfuls for n bytes: n or more, by less than a bufferful.
LEMMA Bufferfuls ==
    ASSUME NEW n \in Nat, NEW size \in Nat \ {0}
    PROVE  LET whole == ((n + size - 1) \div size) * size
           IN  whole \in Int /\ n <= whole /\ whole < n + size
<1> DEFINE m == n + size - 1
           q == m \div size
           r == m % size
<1>1. m \in Nat /\ q \in Int /\ r \in 0 .. size - 1
  OBVIOUS
<1>2. m = size * q + r
  OBVIOUS
<1>3. q * size = size * q
  BY <1>1
<1>4. size * q \in Int
  BY <1>1
<1> HIDE DEF q, r
<1> QED BY <1>1, <1>2, <1>3, <1>4

\* fread takes what there is, up to raw, and leaves a bufferful at most.
LEMMA FreadBounds ==
    ASSUME stdio \in Seq(Nat), queue \in Seq(Nat), Len(stdio) <= StdioMax
    PROVE  /\ FreadCount \in Nat /\ FreadFetched \in Nat
           /\ FreadFetched <= Len(queue)
           /\ FreadCount <= Len(stdio) + FreadFetched
           /\ Len(stdio) + FreadFetched - FreadCount <= StdioMax
           /\ FreadCount = 0 <=> stdio = <<>> /\ queue = <<>>
<1> DEFINE all == Len(stdio) + Len(queue)
           need == FreadCount - Len(stdio)
           whole == ((need + StdioMax - 1) \div StdioMax) * StdioMax
<1>1. RAW_MAX \in Nat \ {0} /\ StdioMax \in Nat \ {0}
  BY Sizes
<1>2. /\ FreadCount \in Nat /\ FreadCount <= all
      /\ FreadCount = 0 <=> all = 0
  BY <1>1 DEF FreadCount
<1>3. FreadFetched = IF need <= 0 THEN 0 ELSE IF whole < Len(queue) THEN whole ELSE Len(queue)
  BY DEF FreadFetched
<1>4. all = 0 <=> stdio = <<>> /\ queue = <<>>
  OBVIOUS
<1>5. need \in Int /\ need <= Len(queue)
  BY <1>2
<1>6. need > 0 => whole \in Int /\ need <= whole /\ whole < need + StdioMax
  <2> SUFFICES ASSUME need > 0
               PROVE  whole \in Int /\ need <= whole /\ whole < need + StdioMax
    OBVIOUS
  <2>1. need \in Nat
    BY <1>5
  <2> HIDE DEF need
  <2> QED BY <1>1, <2>1, Bufferfuls
<1>7. Len(stdio) \in Nat /\ Len(queue) \in Nat
  OBVIOUS
<1> HIDE DEF whole
<1>8. CASE need <= 0
  BY <1>1, <1>2, <1>3, <1>4, <1>5, <1>7, <1>8
<1>9. CASE need > 0
  BY <1>1, <1>2, <1>3, <1>4, <1>5, <1>6, <1>7, <1>9, SMTT(30)
<1> QED BY <1>5, <1>8, <1>9

InputTypes ==
    /\ queue \in Seq(Nat) /\ stdio \in Seq(Nat) /\ given \in Seq(Nat) /\ nSent \in Nat
    /\ Len(stdio) <= StdioMax

\* What tty_read_callback gives, and what stays.
LEMMA ReadStep ==
    ASSUME InputTypes, StreamInv, TtyReadCallback
    PROVE  /\ InputTypes' /\ StreamInv'
           /\ given' \in Seq(Nat) /\ IsPrefix(given', AllSent)
           /\ IF stdio = <<>> /\ queue = <<>> THEN given' = given ELSE IsStrictPrefix(given, given')
<1> DEFINE x == SubSeq(stdio \o queue, 1, FreadCount)
           y == SubSeq(stdio \o queue, FreadCount + 1, Len(stdio) + FreadFetched)
           z == SubSeq(queue, FreadFetched + 1, Len(queue))
<1>1. given' = given \o x /\ stdio' = y /\ queue' = z /\ nSent' = nSent
  BY DEF TtyReadCallback
<1>2. /\ FreadCount \in Nat /\ FreadFetched \in Nat
      /\ FreadFetched <= Len(queue)
      /\ FreadCount <= Len(stdio) + FreadFetched
      /\ Len(stdio) + FreadFetched - FreadCount <= StdioMax
      /\ FreadCount = 0 <=> stdio = <<>> /\ queue = <<>>
  BY FreadBounds DEF InputTypes
<1>3. IsStream(Nat, given) /\ IsStream(Nat, stdio) /\ IsStream(Nat, queue)
  BY DEF InputTypes, IsStream
<1>4. /\ IsStream(Nat, x) /\ IsStream(Nat, y) /\ IsStream(Nat, z)
      /\ Len(x) = FreadCount /\ Len(y) = Len(stdio) + FreadFetched - FreadCount
      /\ (x \o y) \o z = stdio \o queue
  <2>1. ThreePieces(stdio, queue, FreadCount, FreadFetched, x, y, z)
    BY <1>2 DEF ThreePieces
  <2> HIDE DEF x, y, z
  <2> QED BY <1>3, <2>1, PiecesAreAll, SMTT(30)
<1> HIDE DEF x, y, z
<1>5. given \in Seq(Nat) /\ x \in Seq(Nat) /\ given \o x \in Seq(Nat)
  BY <1>3, <1>4, ConcatMember DEF IsStream
<1>6. InputTypes'
  BY <1>1, <1>2, <1>4, <1>5 DEF InputTypes, IsStream
<1>7. Parts(AllSent, given \o x, y, z)
  <2>1. Parts(AllSent, given, stdio, queue)
    BY DEF StreamInv, Parts
  <2> QED BY <1>3, <1>4, <2>1, StreamRead
<1>8. StreamInv'
  BY <1>1, <1>7 DEF StreamInv, Parts, AllSent
<1>9. IsPrefix(given \o x, AllSent)
  <2>1. IsStream(Nat, given \o x)
    BY <1>5 DEF IsStream
  <2> QED BY <1>4, <1>7, <2>1, PartsPrefix
<1>10. CASE FreadCount = 0
  <2>1. x = <<>>
    BY <1>4, <1>5, <1>10
  <2>2. given \o x = given
    BY <1>5, <2>1
  <2> QED BY <1>1, <1>2, <1>5, <1>6, <1>8, <1>9, <1>10, <2>2
<1>11. CASE FreadCount # 0
  <2>1. x # <<>>
    BY <1>4, <1>11
  <2>2. IsStrictPrefix(given, given \o x)
    BY <1>5, <2>1, StreamPrefix
  <2> QED BY <1>1, <1>2, <1>5, <1>6, <1>8, <1>9, <1>11, <2>2
<1> QED BY <1>10, <1>11

\* What the device sends is added at the end.
LEMMA SendStep ==
    ASSUME InputTypes, StreamInv, NEW k \in 1 .. MaxBytes, DeviceSends(k)
    PROVE  InputTypes' /\ StreamInv' /\ IsStrictPrefix(AllSent, AllSent')
<1> DEFINE x == [i \in 1 .. k |-> nSent + i]
<1>1. /\ queue' = queue \o x /\ nSent' = nSent + k /\ UNCHANGED <<stdio, given>>
      /\ MaxBytes \in Nat /\ k \in Nat \ {0}
  BY Sizes DEF DeviceSends
<1>2. x \in Seq(Nat) /\ x # <<>>
  <2>1. x \in [1 .. k -> Nat]
    BY <1>1 DEF InputTypes
  <2> HIDE DEF x
  <2>2. x \in Seq(Nat) /\ Len(x) = k
    BY <1>1, <2>1, FunctionSequence
  <2> QED BY <1>1, <2>2
<1>3. AllSent' = AllSent \o x /\ AllSent \in Seq(Nat)
  BY <1>1 DEF AllSent, InputTypes
<1> HIDE DEF x
<1>4. /\ IsStream(Nat, given) /\ IsStream(Nat, stdio) /\ IsStream(Nat, queue)
      /\ IsStream(Nat, x)
  BY <1>2 DEF InputTypes, IsStream
<1>5. Parts(AllSent \o x, given, stdio, queue \o x)
  BY <1>4, StreamGrows DEF StreamInv, Parts
<1>6. InputTypes'
  BY <1>1, <1>2, ConcatMember DEF InputTypes
<1>7. IsStrictPrefix(AllSent, AllSent \o x)
  BY <1>2, <1>3, StreamPrefix
<1> QED BY <1>1, <1>3, <1>5, <1>6, <1>7 DEF StreamInv, Parts

\* No step loses, repeats or reorders a byte.
LEMMA InputStep ==
    ASSUME InputTypes, StreamInv, [Next]_vars
    PROVE  InputTypes' /\ StreamInv'
<1>1. CASE \E k \in 1 .. MaxBytes : DeviceSends(k)
  BY <1>1, SendStep
<1>2. CASE TtyReading
  BY <1>2, ReadStep DEF TtyReading
<1>3. CASE UNCHANGED inputVars
  BY <1>3 DEF InputTypes, StreamInv, AllSent, inputVars
<1> QED BY <1>1, <1>2, <1>3, InputFrame

-----------------------------------------------------------------------------
(* Writing *)

Records == [cmd: Seq(Nat), taken: Seq(Nat), ok: BOOLEAN]

OutputTypes ==
    /\ output \in 0 .. OutputMax /\ cmd \in Seq(Nat)
    /\ written \in Seq(Records)

\* Nothing else touches the output, the command and the history of commands.
LEMMA OutputFrame ==
    ASSUME [Next]_vars
    PROVE  \/ TtyWrite \/ WriteSome \/ WriteError \/ WriteReturns
           \/ /\ UNCHANGED <<cmd, written>> /\ (at' = "write" <=> at = "write")
              /\ output' = output \/ PortDrains
<1> USE DEF outputVars
<1>1. CASE RibsuInitializing
  BY <1>1 DEF RibsuInitializing, Main, RibsuInit, UsbFindServices, UsbFailed, GetInterface,
              GetInterfaceFails, InitFTDI, InitUIRT, TtySkipped, TtyFind, TtyFindDevice, TtyAdd,
              TtyAddSource, ttyVars
<1>2. CASE CFRunLoopRun \/ Stop \/ UsbShutdown \/ UNCHANGED vars
  BY <1>2 DEF CFRunLoopRun, Stop, UsbShutdown, ttyVars, vars
<1>3. CASE CloseSerialPort \/ TtyFclose("exit(0)")
  BY <1>3 DEF CloseSerialPort, TtyFclose
<1>4. CASE TtyReading
  BY <1>4 DEF TtyReading, TtyReadCallback, TtyReady
<1>5. CASE HangUp \/ PortDrains
  BY <1>5 DEF HangUp, PortDrains
<1>6. CASE \E k \in 1 .. MaxBytes : DeviceSends(k)
  BY <1>6 DEF DeviceSends
<1> QED BY <1>1, <1>2, <1>3, <1>4, <1>5, <1>6 DEF Next, RibsuDeinit, TtyWriting, Environment, Ended

\* The command that tty_write is at.
Writing ==
    /\ written # <<>>
    /\ Last(written).cmd = cmd /\ Last(written).ok = TRUE
    /\ IsPrefix(Last(written).taken, cmd)

\* Its record.
LEMMA WritingRecord ==
    ASSUME OutputTypes, Writing
    PROVE  /\ Last(written) \in Records /\ Last(written).taken \in Seq(Nat)
           /\ Last(written).cmd = cmd /\ Last(written).ok = TRUE /\ cmd \in Seq(Nat)
           /\ IsPrefix(Last(written).taken, cmd)
<1>1. written \in Seq(Records) /\ written # <<>>
  BY DEF OutputTypes, Writing
<1>2. written[Len(written)] \in Records
  BY <1>1, LastMember
<1> DEFINE l == Last(written)
<1>3. l \in Records
  BY <1>2 DEF Last
<1> HIDE DEF l
<1>4. l.taken \in Seq(Nat)
  BY <1>3 DEF Records
<1> QED BY <1>3, <1>4 DEF Writing, OutputTypes, l

\* A write that takes some bytes: the record goes on as a beginning of the command.
LEMMA TakeStep ==
    ASSUME OutputTypes, Writing, WriteSome
    PROVE  \E w \in Records :
              /\ written' = [written EXCEPT ![Len(written)] = w]
              /\ w.cmd = cmd /\ w.ok = TRUE /\ IsPrefix(w.taken, cmd)
<1> DEFINE l == Last(written)
<1>1. /\ l \in Records /\ l.cmd = cmd /\ l.ok = TRUE /\ l.taken \in Seq(Nat) /\ cmd \in Seq(Nat)
      /\ IsPrefix(l.taken, cmd)
  BY WritingRecord
<1>2. Sent = Len(l.taken)
  BY DEF Sent
<1>3. PICK k \in 1 .. OutputMax :
          /\ Sent + k <= Len(cmd)
          /\ written' = [written EXCEPT ![Len(written)].taken =
                            @ \o SubSeq(cmd, Sent + 1, Sent + k)]
  BY DEF WriteSome
<1>4. /\ k \in Nat /\ Sent \in Nat /\ Sent + k \in Nat
      /\ Sent <= Sent + k /\ Sent + k <= Len(cmd)
  <2>1. k \in Nat
    BY Sizes
  <2>2. Sent \in Nat
    BY <1>1, <1>2
  <2> QED BY <1>3, <2>1, <2>2
<1> DEFINE taken == l.taken \o SubSeq(cmd, Sent + 1, Sent + k)
           w == [l EXCEPT !.taken = taken]
<1>5. written' = [written EXCEPT ![Len(written)] = w]
  BY <1>3 DEF Last
<1> HIDE DEF l
<1>6. l.taken = SubSeq(cmd, 1, Sent)
  BY <1>1, <1>2, PrefixMembers
<1>7. taken = SubSeq(cmd, 1, Sent + k)
  <2> DEFINE n == Sent + k
  <2> HIDE DEF n
  <2>1. SubSeq(cmd, 1, Sent) \o SubSeq(cmd, Sent + 1, n) = SubSeq(cmd, 1, n)
    BY <1>1, <1>4, MoreMembers DEF n
  <2> QED BY <1>6, <2>1 DEF n
<1> HIDE DEF taken
<1>8. taken \in Seq(Nat) /\ IsPrefix(taken, cmd)
  BY <1>1, <1>4, <1>7, FirstMembers
<1>9. w \in Records /\ w.cmd = cmd /\ w.ok = TRUE /\ w.taken = taken
  BY <1>1, <1>8 DEF Records
<1> HIDE DEF w
<1> QED BY <1>5, <1>8, <1>9

\* A write that fails: the record says so of a command that was not taken whole.
LEMMA ErrorStep ==
    ASSUME OutputTypes, Writing, WriteError
    PROVE  \E w \in Records :
              /\ written' = [written EXCEPT ![Len(written)] = w] /\ WholeRecord(w)
<1> DEFINE l == Last(written)
           w == [l EXCEPT !.ok = FALSE]
<1>1. /\ l \in Records /\ l.cmd = cmd /\ l.taken \in Seq(Nat) /\ cmd \in Seq(Nat)
      /\ IsPrefix(l.taken, cmd)
  BY WritingRecord
<1>2. written' = [written EXCEPT ![Len(written)] = w]
  BY DEF WriteError, Last
<1>3. Len(l.taken) < Len(cmd)
  BY DEF WriteError, Sent
<1> HIDE DEF l
<1>4. l.taken # cmd
  BY <1>1, <1>3
<1>5. w \in Records /\ w.cmd = cmd /\ w.ok = FALSE /\ w.taken = l.taken
  BY <1>1 DEF Records
<1> HIDE DEF w
<1> QED BY <1>1, <1>2, <1>4, <1>5 DEF WholeRecord

\* A command that is sent whole.
LEMMA ReturnStep ==
    ASSUME OutputTypes, Writing, WriteReturns
    PROVE  WholeRecord(Last(written))
<1> DEFINE l == Last(written)
<1>1. /\ l \in Records /\ l.cmd = cmd /\ l.ok = TRUE /\ l.taken \in Seq(Nat) /\ cmd \in Seq(Nat)
      /\ IsPrefix(l.taken, cmd)
  BY WritingRecord
<1>2. Len(l.taken) = Len(cmd)
  BY DEF WriteReturns, Sent
<1> HIDE DEF l
<1>3. l.taken = cmd
  BY <1>1, <1>2, PrefixMembers
<1>4. WholeRecord(l)
  BY <1>1, <1>3 DEF WholeRecord
<1> QED BY <1>4 DEF l

\* The types of the output are kept, and finished commands stay as they were.
LEMMA OutputStep ==
    ASSUME OutputTypes, WriteInv, [Next]_vars
    PROVE  OutputTypes' /\ WriteInv'
<1>1. CASE TtyWrite
  <2> DEFINE w == [cmd |-> cmd', taken |-> <<>>, ok |-> TRUE]
  <2>1. /\ cmd' \in Seq(Nat) /\ at = "runloop" /\ at' = "write"
        /\ written' = Append(written, w) /\ output' = output
    BY <1>1, TtyAssumption DEF TtyWrite, TtyAssumption
  <2>2. w \in Records /\ w.cmd = cmd' /\ w.ok = TRUE /\ w.taken = <<>>
    BY <2>1 DEF Records
  <2>3. IsPrefix(w.taken, cmd')
    <3>1. SubSeq(cmd', 1, 0) = <<>> /\ SubSeq(cmd', 1, 0) \in Seq(Nat) /\ IsPrefix(SubSeq(cmd', 1, 0), cmd')
      BY <2>1, FirstMembers
    <3> QED BY <2>2, <3>1
  <2> HIDE DEF w
  <2>4. /\ written' \in Seq(Records) /\ Len(written') = Len(written) + 1 /\ Len(written) \in Nat
        /\ written'[Len(written')] = w /\ written' # <<>>
        /\ \A k \in 1 .. Len(written) : written'[k] = written[k]
        /\ DOMAIN written' = 1 .. Len(written) + 1 /\ DOMAIN written = 1 .. Len(written)
    <3>1. written \in Seq(Records)
      BY DEF OutputTypes
    <3> QED BY <2>1, <2>2, <3>1, AppendMember
  <2>5. OutputTypes'
    BY <2>1, <2>4 DEF OutputTypes
  <2>6. \A k \in DOMAIN written' : k # Len(written') => WholeRecord(written'[k])
    BY <2>1, <2>4 DEF WriteInv
  <2> QED BY <2>1, <2>2, <2>3, <2>4, <2>5, <2>6 DEF WriteInv, Last, WholeRecord
<1>2. CASE WriteSome \/ WriteError
  <2>1. at = "write" /\ Writing /\ cmd' = cmd
    BY <1>2 DEF WriteSome, WriteError, WriteInv, Writing
  <2>2. PICK w \in Records :
            /\ written' = [written EXCEPT ![Len(written)] = w]
            /\ WriteSome => w.cmd = cmd /\ w.ok = TRUE /\ IsPrefix(w.taken, cmd)
            /\ WriteError => WholeRecord(w)
    <3>1. CASE WriteSome
      <4>1. ~WriteError
        <5>1. WriteSome => output < OutputMax /\ ~hungUp
          BY Sizes DEF WriteSome, OutputTypes
        <5> QED BY <3>1, <5>1, Sizes DEF WriteError
      <4> QED BY <2>1, <3>1, <4>1, TakeStep
    <3>2. CASE WriteError /\ ~WriteSome
      BY <2>1, <3>2, ErrorStep
    <3> QED BY <1>2, <3>1, <3>2
  <2>3. /\ written \in Seq(Records) /\ written # <<>>
    BY <2>1 DEF OutputTypes, Writing
  <2>4. /\ written' \in Seq(Records)
        /\ Len(written') = Len(written) /\ written'[Len(written)] = w /\ written' # <<>>
        /\ DOMAIN written' = DOMAIN written
        /\ \A k \in DOMAIN written : k # Len(written) => written'[k] = written[k]
    BY <2>2, <2>3
  <2>5. output' \in 0 .. OutputMax
    BY <1>2, Sizes DEF WriteSome, WriteError, OutputTypes
  <2>6. \A k \in DOMAIN written' : k # Len(written') => WholeRecord(written'[k])
    BY <2>1, <2>4 DEF WriteInv
  <2>7. CASE WriteSome
    <3>1. at' = "write"
      BY <2>1, <2>7 DEF WriteSome
    <3> QED BY <2>1, <2>2, <2>4, <2>5, <2>6, <2>7, <3>1 DEF OutputTypes, WriteInv, WholeRecord, Last
  <2>8. CASE WriteError
    <3>1. at' = "runloop"
      BY <2>8 DEF WriteError
    <3> QED BY <2>1, <2>2, <2>4, <2>5, <2>6, <2>8, <3>1 DEF OutputTypes, WriteInv, WholeRecord
  <2> QED BY <1>2, <2>7, <2>8
<1>3. CASE WriteReturns
  <2>1. at = "write" /\ at' = "runloop" /\ UNCHANGED outputVars /\ Writing
    BY <1>3 DEF WriteReturns, WriteInv, Writing
  <2>2. WholeRecord(Last(written))
    BY <1>3, <2>1, ReturnStep
  <2> QED BY <2>1, <2>2 DEF OutputTypes, WriteInv, WholeRecord, Last, outputVars
<1>4. CASE /\ UNCHANGED <<cmd, written>> /\ (at' = "write" <=> at = "write")
           /\ output' = output \/ PortDrains
  <2>1. output' \in 0 .. OutputMax
    BY <1>4, Sizes DEF PortDrains, OutputTypes
  <2> QED BY <1>4, <2>1 DEF OutputTypes, WriteInv, WholeRecord
<1> QED BY <1>1, <1>2, <1>3, <1>4, OutputFrame

-----------------------------------------------------------------------------
(* The theorems *)

\* The parts of the type invariant.
LEMMA TypesInParts ==
    /\ TypeOK <=> OpenTypes /\ SearchTypes /\ InputTypes /\ OutputTypes
    /\ TypeOK' <=> OpenTypes' /\ SearchTypes' /\ InputTypes' /\ OutputTypes'
BY DEF TypeOK, OpenTypes, SearchTypes, InputTypes, OutputTypes, Places, Records

\* A sequence of bounded length is a sequence.
LEMMA BoundedSequence ==
    ASSUME NEW S, NEW n \in Nat, NEW s \in SeqOf(S, n)
    PROVE  s \in Seq(S)
<1>1. PICK m \in 0 .. n : s \in [1 .. m -> S]
  BY DEF SeqOf
<1> QED BY <1>1, FunctionSequence

\* The initial state has the inductive invariant
LEMMA StartupInvInit == Init => StartupInv
<1> SUFFICES ASSUME Init PROVE StartupInv
  OBVIOUS
<1>1. PICK i \in Invocations :
          /\ o = [use_usb |-> i.usb, use_tty |-> i.tty, named |-> i.named]
          /\ asked = (IF i.usb \/ ~i.tty THEN {"usb"} ELSE {})
                     \cup (IF i.tty \/ ~i.usb THEN {"tty"} ELSE {})
  BY DEF Init
<1>2. /\ i.usb \in BOOLEAN /\ i.tty \in BOOLEAN /\ i.named \in BOOLEAN
      /\ MaxServices \in Nat /\ MaxSerial \in Nat
  BY StartupAssumption, TtyAssumption DEF StartupAssumption, TtyAssumption
<1>3. SearchTypes
  <2>1. <<>> \in Seq(Interfaces) /\ <<>> \in Seq(SerialServices)
    OBVIOUS
  <2>2. registry \in Seq(Interfaces)
    <3>1. registry = <<>> \/ registry \in SeqOf(Interfaces, MaxServices)
      BY DEF Init
    <3> QED BY <1>2, <2>1, <3>1, BoundedSequence
  <2>3. serial \in Seq(SerialServices) /\ port \in Ports
    <3>1. \/ port \in Ports /\ serial = <<>>
          \/ port = "absent" /\ serial \in SeqOf(SerialServices, MaxSerial)
      BY DEF Init
    <3> QED BY <1>2, <2>1, <3>1, BoundedSequence DEF Ports
  <2>4. o \in [use_usb: BOOLEAN, use_tty: BOOLEAN, named: BOOLEAN]
    BY <1>1, <1>2
  <2>5. asked \subseteq {"usb", "tty"} /\ able \subseteq {"usb", "tty"}
    BY <1>1 DEF Init
  <2>6. stdinWorks \in BOOLEAN /\ found \in BOOLEAN /\ foundOnce \in BOOLEAN
    BY DEF Init
  <2> QED BY <2>2, <2>3, <2>4, <2>5, <2>6 DEF SearchTypes
<1>4. OpenTypes
  BY DEF Init, TtyInit, OpenTypes, Places, Initializing
<1>5. InputTypes /\ OutputTypes
  <2>1. <<>> \in Seq(Nat) /\ <<>> \in Seq(Records) /\ Len(<<>>) = 0
    OBVIOUS
  <2> QED BY <2>1, Sizes DEF Init, TtyInit, InputTypes, OutputTypes
<1>6. ControlInv
  <2>1. AskedInv
    BY <1>1, <1>2 DEF Init, AskedInv, UsbSetUp
  <2>2. UsbAbleInv /\ TtyAbleInv
    <3>1. "usb" \in able <=> UsbSetsUp
      BY DEF Init
    <3>2. "tty" \in able <=> TtySetsUp
      BY DEF Init
    <3>3. at = "main" /\ foundOnce = FALSE
      BY DEF Init
    <3>4. (o.named => serial = <<>>) /\ (~o.named => port = "absent")
      BY DEF Init
    <3> QED BY <3>1, <3>2, <3>3, <3>4 DEF UsbAbleInv, TtyAbleInv
  <2>3. UsbOpenInv /\ RunningInv
    BY DEF Init, TtyInit, UsbOpenInv, RunningInv, DriverChosen, Running
  <2> QED BY <2>1, <2>2, <2>3 DEF ControlInv
<1>7. GivesUpForAReason /\ Closed
  BY DEF Init, GivesUpForAReason, Closed, Over
<1>8. StreamInv
  <2>1. AllSent = <<>> /\ given = <<>> /\ stdio = <<>> /\ queue = <<>>
    BY DEF Init, TtyInit, AllSent
  <2>2. <<>> = (<<>> \o <<>>) \o <<>>
    OBVIOUS
  <2> QED BY <2>1, <2>2 DEF StreamInv
<1>9. WriteInv
  BY DEF Init, TtyInit, WriteInv
<1> QED BY <1>3, <1>4, <1>5, <1>6, <1>7, <1>8, <1>9, TypesInParts DEF StartupInv

\* and every step keeps it.
LEMMA StartupInvStep == StartupInv /\ [Next]_vars => StartupInv'
<1> SUFFICES ASSUME StartupInv, [Next]_vars PROVE StartupInv'
  OBVIOUS
<1>1. /\ OpenTypes /\ SearchTypes /\ InputTypes /\ OutputTypes
      /\ Safe /\ StreamInv /\ WriteInv
  BY TypesInParts DEF StartupInv, Safe
<1>2. InputTypes' /\ StreamInv'
  BY <1>1, InputStep
<1>3. OutputTypes' /\ WriteInv'
  BY <1>1, OutputStep
<1>4. OpenTypes' /\ SearchTypes' /\ Safe'
  <2>1. CASE RibsuInitializing
    <3>1. OpenTypes' /\ SearchTypes'
      BY <1>1, <2>1, InitializingTypes
    <3>2. Safe'
      BY <1>1, <2>1, InitializingSafe DEF SearchTypes
    <3> QED BY <3>1, <3>2
  <2>2. CASE CFRunLoopRun \/ Stop \/ RibsuDeinit \/ TtyReading \/ TtyWriting \/ Environment
               \/ UNCHANGED vars
    <3>1. OpenTypes' /\ SearchTypes'
      BY <1>1, <2>2, RunningTypes
    <3>2. drv \in {"none", "usb", "tty"} /\ asked \subseteq {"usb", "tty"}
      BY <1>1 DEF OpenTypes, SearchTypes
    <3>3. Safe'
      BY <1>1, <2>2, <3>2, RunningSafe
    <3> QED BY <3>1, <3>3
  <2> QED BY <2>1, <2>2 DEF Next, Ended
<1>5. TypeOK'
  BY <1>2, <1>3, <1>4, TypesInParts
<1> QED BY <1>2, <1>3, <1>4, <1>5 DEF StartupInv, Safe

\* The inductive invariant holds: what is left of a search, what is open and
\* where the program is agree, and every byte and command is accounted for.
THEOREM StartupInvariant == Spec => []StartupInv
<1>1. Init => StartupInv
  BY StartupInvInit
<1>2. StartupInv /\ [Next]_vars => StartupInv'
  BY StartupInvStep
<1> QED BY <1>1, <1>2, PTL DEF Spec

\* Every variable keeps its type; the stream's buffer holds a bufferful at most
\* (tty.c:155), and a driver that is called back has a stream.
THEOREM StartupTypesHold == Spec => []TypeOK
<1>1. StartupInv => TypeOK
  BY DEF StartupInv
<1> QED BY <1>1, StartupInvariant, PTL

\* ribsu_init gives up only when nothing that was asked for can be set up, stdin
\* cannot, or somebody else has the interface: however many interfaces and ports
\* there are, and whatever step of a set-up fails.
THEOREM GivesUpForAReasonHolds == Spec => []GivesUpForAReason
<1>1. StartupInv => GivesUpForAReason
  BY DEF StartupInv
<1> QED BY <1>1, StartupInvariant, PTL

\* In the run loop the library has a driver that was asked for and whose set-up
\* succeeded (if only because tty_add_source ignores add_fd_source), USB rather
\* than TTY, and only that one is open, save for an interface that
\* usb_add_source forgets.
THEOREM DriverChosenHolds == Spec => []DriverChosen
<1>1. StartupInv => DriverChosen
  BY DEF StartupInv, ControlInv, RunningInv
<1> QED BY <1>1, StartupInvariant, PTL

\* At the end the port and the interface are closed; fclose of a stream that
\* was never opened happens only when add_fd_source had failed.
THEOREM ClosedHolds == Spec => []Closed
<1>1. StartupInv => Closed
  BY DEF StartupInv
<1> QED BY <1>1, StartupInvariant, PTL

-----------------------------------------------------------------------------
(* The TTY driver implements DriverPromise *)

Finished == IF at = "write" THEN Front(written) ELSE written

\* DriverPromise has these operators from the same module.
LEMMA SameOperators ==
    /\ \A a, b : Promise!IsPrefix(a, b) <=> IsPrefix(a, b)
    /\ \A a, b : Promise!IsStrictPrefix(a, b) <=> IsStrictPrefix(a, b)
    /\ \A a : Promise!Last(a) = a[Len(a)]
BY DEF Promise!IsPrefix, Promise!IsStrictPrefix, Promise!Last, IsPrefix, IsStrictPrefix

\* The initial state of the driver is one of the promise.
LEMMA PromiseInit == Init => Promise!Init
<1> SUFFICES ASSUME Init PROVE Promise!Init
  OBVIOUS
<1>1. nSent = 0 /\ given = <<>> /\ written = <<>> /\ at = "main"
  BY DEF Init, TtyInit
<1> QED BY <1>1 DEF Promise!Init

\* What the device sends was not sent before.
LEMMA PromiseSend ==
    ASSUME InputTypes, StreamInv, NEW k \in 1 .. MaxBytes, DeviceSends(k)
    PROVE  Promise!Send
<1>1. IsStrictPrefix(AllSent, AllSent')
  BY SendStep
<1>2. UNCHANGED <<given, Finished>>
  BY DEF DeviceSends, outputVars, Finished
<1> QED BY <1>1, <1>2, SameOperators DEF Promise!Send, AllSent, Finished

\* callback_fn is given the bytes that follow the ones it has, if any.
LEMMA PromiseGive ==
    ASSUME InputTypes, StreamInv, TtyReadCallback
    PROVE  Promise!Give \/ UNCHANGED Promise!vars
<1>1. /\ IsPrefix(given', AllSent)
      /\ given' = given \/ IsStrictPrefix(given, given')
  BY ReadStep
<1>2. UNCHANGED <<AllSent, Finished>>
  BY DEF TtyReadCallback, outputVars, AllSent, Finished
<1> QED BY <1>1, <1>2, SameOperators DEF Promise!Give, Promise!vars, AllSent, Finished

\* tty_write returns: one more command is finished.
LEMMA PromiseWrite ==
    ASSUME OutputTypes, WriteInv, OutputTypes', WriteInv', WriteError \/ WriteReturns
    PROVE  Promise!Write
<1>1. /\ at = "write" /\ at' = "runloop" /\ UNCHANGED <<nSent, given>>
  BY DEF WriteError, WriteReturns, inputVars
<1>2. written # <<>> /\ written \in Seq(Records) /\ written' \in Seq(Records)
  BY <1>1 DEF OutputTypes, WriteInv
<1>3. Len(written') = Len(written) /\ \A k \in 1 .. Len(written) - 1 : written'[k] = written[k]
  <2>1. CASE WriteError
    <3>1. Writing
      BY <1>1 DEF WriteInv, Writing
    <3>2. PICK w \in Records : written' = [written EXCEPT ![Len(written)] = w]
      BY <2>1, <3>1, ErrorStep
    <3> QED BY <1>2, <3>2, ReplaceLast
  <2>2. CASE WriteReturns
    BY <2>2 DEF WriteReturns, outputVars
  <2> QED BY <2>1, <2>2
<1>4. Finished = SubSeq(written, 1, Len(written) - 1) /\ Finished' = written'
  BY <1>1 DEF Finished, Front
<1>5. Len(Finished') = Len(Finished) + 1 /\ IsPrefix(Finished, Finished')
  BY <1>2, <1>3, <1>4, FrontPrefix
<1>6. WholeRecord(written'[Len(written')])
  <2>1. Len(written') \in DOMAIN written'
    BY <1>2, <1>3
  <2> QED BY <1>1, <2>1 DEF WriteInv
<1>7. Promise!Whole(Promise!Last(Finished'))
  BY <1>4, <1>6, SameOperators DEF Promise!Whole, WholeRecord
<1> QED BY <1>1, <1>5, <1>7, SameOperators DEF Promise!Write, Finished

\* A command that is begun or gone on with is not finished.
LEMMA PromiseUnfinished ==
    ASSUME OutputTypes, WriteInv, TtyWrite \/ WriteSome
    PROVE  UNCHANGED Promise!vars
<1>1. UNCHANGED <<nSent, given>>
  BY DEF TtyWrite, WriteSome, inputVars
<1>2. UNCHANGED Finished
  <2>1. CASE TtyWrite
    <3>1. PICK w \in Records : written' = Append(written, w)
      <4>1. cmd' \in Seq(Nat)
        BY <2>1, TtyAssumption DEF TtyWrite, TtyAssumption
      <4>2. [cmd |-> cmd', taken |-> <<>>, ok |-> TRUE] \in Records
        BY <4>1 DEF Records
      <4> QED BY <2>1, <4>2 DEF TtyWrite
    <3>2. written \in Seq(Records)
      BY DEF OutputTypes
    <3>3. SubSeq(written', 1, Len(written') - 1) = written
      BY <3>1, <3>2, FrontOfAppend
    <3>4. at = "runloop" /\ at' = "write"
      BY <2>1 DEF TtyWrite
    <3> QED BY <3>3, <3>4 DEF Finished, Front
  <2>2. CASE WriteSome
    <3>1. Writing /\ at = "write" /\ at' = "write"
      BY <2>2 DEF WriteSome, WriteInv, Writing
    <3>2. PICK w \in Records : written' = [written EXCEPT ![Len(written)] = w]
      BY <2>2, <3>1, TakeStep
    <3>3. written # <<>> /\ written \in Seq(Records)
      BY <3>1 DEF Writing, OutputTypes
    <3>4. SubSeq(written', 1, Len(written') - 1) = SubSeq(written, 1, Len(written) - 1)
      BY <3>2, <3>3, FrontOfReplace
    <3> QED BY <3>1, <3>4 DEF Finished, Front
  <2> QED BY <2>1, <2>2
<1> QED BY <1>1, <1>2 DEF Promise!vars, Finished

\* The TTY driver implements the promise, whatever the sizes of raw, of the
\* stream's buffer and of the port's queue: each of its steps, and each step of
\* the program around it, is a step of DriverPromise or changes nothing the
\* promise speaks of.
THEOREM TtyKeepsPromiseHolds == Spec => TtyKeepsPromise
<1>1. StartupInv /\ StartupInv' /\ [Next]_vars => [Promise!Next]_Promise!vars
  <2> SUFFICES ASSUME StartupInv, StartupInv', [Next]_vars PROVE [Promise!Next]_Promise!vars
    OBVIOUS
  <2>1. /\ InputTypes /\ StreamInv /\ OutputTypes /\ WriteInv /\ OutputTypes' /\ WriteInv'
    BY TypesInParts DEF StartupInv
  <2>2. CASE \E k \in 1 .. MaxBytes : DeviceSends(k)
    BY <2>1, <2>2, PromiseSend DEF Promise!Next
  <2>3. CASE TtyReading
    BY <2>1, <2>3, PromiseGive DEF Promise!Next, TtyReading
  <2>4. CASE WriteError \/ WriteReturns
    BY <2>1, <2>4, PromiseWrite DEF Promise!Next
  <2>5. CASE TtyWrite \/ WriteSome
    BY <2>1, <2>5, PromiseUnfinished
  <2>6. CASE UNCHANGED inputVars /\ UNCHANGED <<cmd, written>> /\ (at' = "write" <=> at = "write")
    BY <2>6 DEF Promise!vars, inputVars
  <2> QED BY <2>2, <2>3, <2>4, <2>5, <2>6, InputFrame, OutputFrame
<1> QED BY <1>1, PromiseInit, StartupInvariant, PTL DEF Spec, TtyKeepsPromise, Promise!Spec
=============================================================================
