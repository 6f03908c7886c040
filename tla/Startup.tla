------------------------------ MODULE Startup ------------------------------
(***************************************************************************)
(* The life of the program: options and stdin (main), ribsu_init with the  *)
(* search for a driver, USB first and then TTY, the run loop, ribsu_deinit *)
(* and the end.  What the USB driver does on the run loop is the module    *)
(* UsbDriver; the TTY driver runs here.                                    *)
(***************************************************************************)
EXTENDS TtyDriver

CONSTANTS
    Invocations,      \* options: [usb, tty, named], see main
    MaxServices       \* bound: interfaces IOServiceGetMatchingServices finds

ASSUME StartupAssumption ==
    /\ Invocations \subseteq [usb: BOOLEAN, tty: BOOLEAN, named: BOOLEAN]
    /\ MaxServices \in Nat

VARIABLES
    o,            \* ribsu_opts: use_usb, use_tty, tty_dev_name is set
    stdinWorks,   \* what add_fd_source will say of stdin
    registry,     \* what a search for the interface has yet to give, and at the
                  \* end the interface that decided it
    found,        \* the search itself succeeds
    foundOnce,    \* the static of isThisTheInterfaceYoureLookingFor
    intf,         \* the last interface opened: "none", "open", "closed"
    drv,          \* ribsu_ctx.drv, with .drv_write, .drv_shutdown and the
                  \* driver's callback_fn, which are set together
    asked, able   \* history: drivers asked for; drivers with a set-up that would succeed

usbVars == <<registry, found, foundOnce, intf>>
historyVars == <<asked, able>>
vars == <<at, ttyVars, o, stdinWorks, usbVars, drv, historyVars>>

\* An interface: no plug-in for it can be made; somebody else has it; it cannot
\* be opened; initFTDI fails, or the master port or the event source of
\* initUIRT; all is well.
Interfaces == {"noplugin", "busy", "refuses", "noftdi", "noport", "nosource", "works"}

Openable == Interfaces \ {"noplugin", "busy", "refuses"}

\* The first interface with a plug-in is the one that counts.
Counts(i) == FirstBut("noplugin", registry, i)

UsbSetsUp == found /\ \E i \in DOMAIN registry : Counts(i) /\ registry[i] = "works"

\* tty_add_source does not look whether the port can be watched (tty.c:111).
TtySetsUp ==
    \/ SerialPortOpens
    \/ \E i \in DOMAIN serial : Modem(i) /\ serial[i] \in {"unwatchable", "works"}

Init ==
    /\ at = "main"
    /\ TtyInit
    /\ \E i \in Invocations :
          /\ o = [use_usb |-> i.usb, use_tty |-> i.tty, named |-> i.named]
          /\ asked = (IF i.usb \/ ~i.tty THEN {"usb"} ELSE {})
                     \cup (IF i.tty \/ ~i.usb THEN {"tty"} ELSE {})
    /\ \/ o.named /\ port \in Ports /\ serial = <<>>
       \/ ~o.named /\ port = "absent" /\ serial \in SeqOf(SerialServices, MaxSerial)
    /\ stdinWorks \in BOOLEAN
    /\ found \in BOOLEAN
    /\ registry \in IF found THEN SeqOf(Interfaces, MaxServices) ELSE {<<>>}
    /\ foundOnce = FALSE /\ intf = "none" /\ drv = "none"
    /\ able = (IF UsbSetsUp THEN {"usb"} ELSE {}) \cup (IF TtySetsUp THEN {"tty"} ELSE {})

(***************************************************************************)
(* ribsu_init.                                                             *)
(***************************************************************************)

\* The defaults of main, then stdin is made a source.
Main ==
    /\ at = "main"
    /\ LET none == ~o.use_usb /\ ~o.use_tty
       IN  o' = [o EXCEPT !.use_usb = @ \/ none, !.use_tty = @ \/ none]
    /\ at' = IF stdinWorks THEN "ribsu_init" ELSE "exit(1)"
    /\ UNCHANGED <<ttyVars, stdinWorks, usbVars, drv, historyVars>>

RibsuInit ==
    /\ at = "ribsu_init"
    /\ at' = IF o.use_usb THEN "usb_add_source" ELSE "tty"
    /\ UNCHANGED <<ttyVars, o, stdinWorks, usbVars, drv, historyVars>>

\* Mutant: it is the end.
UsbFailedReturns ==
    /\ at' = "exit(1)"
    /\ UNCHANGED o

\* usb_add_source failed.
UsbFailed ==
    /\ at' = "tty"
    /\ o' = [o EXCEPT !.use_usb = FALSE]

\* usb_add_source up to the iterator.
UsbFindServices ==
    /\ at = "usb_add_source"
    /\ \/ found /\ at' = "getInterface" /\ UNCHANGED o
       \/ ~found /\ UsbFailed
    /\ UNCHANGED <<ttyVars, stdinWorks, usbVars, drv, historyVars>>

\* One turn of the loop of getInterface, with isThisTheInterfaceYoureLookingFor
\* and openUSBInterface: kIOReturnExclusiveAccess ends the program at once.
GetInterface ==
    /\ at = "getInterface" /\ registry # <<>>
    /\ LET candidate == Head(registry) # "noplugin" /\ ~foundOnce
       IN  /\ foundOnce' = (foundOnce \/ Head(registry) # "noplugin")
           /\ \/ /\ candidate /\ Head(registry) = "busy"
                 /\ at' = "exit(1)"
                 /\ UNCHANGED <<registry, intf>>
              \/ /\ candidate /\ Head(registry) \in Openable
                 /\ intf' = "open"
                 /\ at' = "initFTDI"
                 /\ registry' = <<Head(registry)>>
              \/ /\ ~candidate \/ Head(registry) = "refuses"
                 /\ registry' = Tail(registry)
                 /\ UNCHANGED <<at, intf>>
    /\ UNCHANGED <<ttyVars, o, stdinWorks, found, drv, historyVars>>

GetInterfaceFails ==
    /\ at = "getInterface" /\ registry = <<>>
    /\ UsbFailed
    /\ UNCHANGED <<ttyVars, stdinWorks, usbVars, drv, historyVars>>

\* initFTDI: when a request fails, usb_add_source leaves the interface open.
InitFTDI ==
    /\ at = "initFTDI"
    /\ \/ registry = <<"noftdi">> /\ UsbFailed
       \/ registry # <<"noftdi">> /\ at' = "initUIRT" /\ UNCHANGED o
    /\ UNCHANGED <<ttyVars, stdinWorks, usbVars, drv, historyVars>>

\* Mutant: the interface is left open here too.
InitUIRTLeavesOpen ==
    /\ at = "initUIRT"
    /\ \/ /\ registry \in {<<"noport">>, <<"nosource">>}
          /\ UsbFailed
          /\ UNCHANGED <<intf, drv>>
       \/ /\ registry = <<"works">>
          /\ drv' = "usb"
          /\ at' = "tty"
          /\ UNCHANGED <<o, intf>>
    /\ UNCHANGED <<ttyVars, stdinWorks, registry, found, foundOnce, historyVars>>

\* initUIRT: without a master port the interface is left open, without an
\* event source it is closed; with both the driver is ready and ribsu_init
\* keeps it.
InitUIRT ==
    /\ at = "initUIRT"
    /\ \/ /\ registry \in {<<"noport">>, <<"nosource">>}
          /\ UsbFailed
          /\ intf' = IF registry = <<"noport">> THEN "open" ELSE "closed"
          /\ UNCHANGED drv
       \/ /\ registry = <<"works">>
          /\ drv' = "usb"
          /\ at' = "tty"
          /\ UNCHANGED <<o, intf>>
    /\ UNCHANGED <<ttyVars, stdinWorks, registry, found, foundOnce, historyVars>>

\* The second half of ribsu_init: the TTY when there is no USB driver.
TtySkipped ==
    /\ at = "tty" /\ (o.use_usb \/ ~o.use_tty)
    /\ at' = IF o.use_usb THEN "CFRunLoopRun" ELSE "exit(1)"
    /\ UNCHANGED <<ttyVars, o, stdinWorks, usbVars, drv, historyVars>>

TtyFind ==
    /\ at = "tty" /\ ~o.use_usb /\ o.use_tty
    /\ \/ o.named /\ at' = "tty_add_source" /\ UNCHANGED portVars
       \/ ~o.named /\ TtyFindDevice("tty_add_source", "exit(1)")
    /\ UNCHANGED <<fd, fp, source, inputVars, outputVars, hungUp>>
    /\ UNCHANGED <<o, stdinWorks, usbVars, drv, historyVars>>

TtyAdd ==
    /\ at = "tty_add_source"
    /\ TtyAddSource("CFRunLoopRun", "exit(1)")
    /\ drv' = IF at' = "CFRunLoopRun" THEN "tty" ELSE drv
    /\ o' = [o EXCEPT !.use_tty = at' = "CFRunLoopRun"]
    /\ UNCHANGED <<inputVars, outputVars, hungUp, stdinWorks, usbVars, historyVars>>

RibsuInitializing ==
    \/ Main \/ RibsuInit \/ UsbFindServices \/ GetInterface \/ GetInterfaceFails
    \/ InitFTDI \/ InitUIRT \/ TtySkipped \/ TtyFind \/ TtyAdd

(***************************************************************************)
(* The run loop and the end.                                               *)
(***************************************************************************)

CFRunLoopRun ==
    /\ at = "CFRunLoopRun"
    /\ at' = "runloop"
    /\ UNCHANGED <<ttyVars, o, stdinWorks, usbVars, drv, historyVars>>

\* Q, the end of stdin or a signal ends the run loop; ribsu_deinit follows.
Stop ==
    /\ at = "runloop"
    /\ at' = IF drv = "usb" THEN "usb_shutdown" ELSE "tcdrain"
    /\ UNCHANGED <<ttyVars, o, stdinWorks, usbVars, drv, historyVars>>

UsbShutdown ==
    /\ at = "usb_shutdown"
    /\ intf' = "closed"
    /\ at' = "exit(0)"
    /\ UNCHANGED <<ttyVars, o, stdinWorks, registry, found, foundOnce, drv, historyVars>>

startupVars == <<o, stdinWorks, usbVars, drv, historyVars>>

RibsuDeinit ==
    \/ UsbShutdown
    \/ CloseSerialPort /\ UNCHANGED startupVars
    \/ TtyFclose("exit(0)") /\ UNCHANGED startupVars

TtyReading == drv = "tty" /\ TtyReadCallback /\ UNCHANGED startupVars
TtyWriting == (WriteSome \/ WriteError \/ WriteReturns) /\ UNCHANGED startupVars

Environment ==
    /\ \/ \E k \in 1 .. MaxBytes : DeviceSends(k)
       \/ HangUp
       \/ PortDrains
       \/ drv = "tty" /\ TtyWrite
    /\ UNCHANGED startupVars

Ended == at \in {"exit(0)", "exit(1)", "undefined"} /\ UNCHANGED vars

Next ==
    \/ RibsuInitializing \/ CFRunLoopRun \/ Stop \/ RibsuDeinit
    \/ TtyReading \/ TtyWriting \/ Environment \/ Ended

Spec == Init /\ [][Next]_vars

\* The program runs on; a source that is ready is called however many commands
\* are written.  Nothing is assumed of the device, the port and the user.
Fairness ==
    /\ WF_vars(RibsuInitializing) /\ WF_vars(CFRunLoopRun) /\ WF_vars(RibsuDeinit)
    /\ WF_vars(TtyWriting) /\ SF_vars(TtyReading)

FairSpec == Spec /\ Fairness

(***************************************************************************)
(* What should be true of it.                                              *)
(***************************************************************************)

Initializing == {"main", "ribsu_init", "usb_add_source", "getInterface", "initFTDI",
                 "initUIRT", "tty", "tty_add_source"}
Running == {"CFRunLoopRun", "runloop", "write", "usb_shutdown", "tcdrain", "fclose"}
Over == {"exit(0)", "exit(1)", "undefined"}

\* Every variable has its type; the stream's buffer holds no more than it can
\* and the driver that is called back has a stream (tty.c:155).
TypeOK ==
    /\ at \in Initializing \cup Running \cup Over
    /\ serial \in Seq(SerialServices) /\ port \in Ports /\ fd \in {"none", "open", "closed"}
    /\ fp \in {"unset", "open", "closed"} /\ source \in BOOLEAN /\ hungUp \in BOOLEAN
    /\ queue \in Seq(Nat) /\ stdio \in Seq(Nat) /\ given \in Seq(Nat) /\ nSent \in Nat
    /\ Len(stdio) <= StdioMax /\ (source => fp # "unset")
    /\ output \in 0 .. OutputMax /\ cmd \in Seq(Nat)
    /\ written \in Seq([cmd: Seq(Nat), taken: Seq(Nat), ok: BOOLEAN])
    /\ o \in [use_usb: BOOLEAN, use_tty: BOOLEAN, named: BOOLEAN]
    /\ stdinWorks \in BOOLEAN /\ found \in BOOLEAN /\ foundOnce \in BOOLEAN
    /\ registry \in Seq(Interfaces) /\ intf \in {"none", "open", "closed"}
    /\ drv \in {"none", "usb", "tty"}
    /\ asked \subseteq {"usb", "tty"} /\ able \subseteq {"usb", "tty"}

\* The search gives up only when nothing that was asked for can be set up (or
\* stdin cannot, or somebody else has the interface, which is told the user):
\* whatever step of one driver's set-up fails, the other is still tried.
GivesUpForAReason ==
    at = "exit(1)" => \/ ~stdinWorks
                      \/ asked \cap able = {}
                      \/ "usb" \in asked /\ registry # <<>> /\ Head(registry) = "busy"

Forgotten == registry \in {<<"noftdi">>, <<"noport">>}

\* When the run loop runs, the library has a driver that was asked for and
\* whose set-up succeeded, USB rather than TTY; it is open, and nothing else
\* is, but for an interface that could not be set up and that usb_add_source
\* forgets.  (A port that could not be watched is a success to tty_add_source:
\* TtyDataArrives excepts it.)
DriverChosen ==
    at \in Running \ {"fclose"} =>
        /\ drv \in asked \cap able
        /\ "usb" \in asked \cap able => drv = "usb"
        /\ drv = "usb" => intf = "open" /\ fd = "none"
        /\ drv = "tty" => fd = "open" /\ (intf = "open" => Forgotten)

\* The program ends with the port and the interface closed (save for that
\* same interface), and cleanly unless add_fd_source had failed for the port.
Closed ==
    /\ at \in Over => fd # "open"
    /\ at = "exit(0)" /\ drv = "usb" => intf = "closed"
    /\ at = "undefined" => port = "unwatchable"

\* The TTY driver keeps the promise of a driver: everything in order, once,
\* and commands whole or reported.
TtyKeepsPromise == Promise!Spec

ReadsKeepUp == [](Len(stdio) + Len(queue) <= RAW_MAX)

\* What the device sends to a port that can be watched reaches the library, if
\* no more ever waits than one read takes (tty.c:155).  More than that may stay
\* in the stream's buffer, which the run loop does not see, until the device
\* sends again.
TtyDataArrives ==
    ReadsKeepUp =>
        \A k \in 1 .. MaxBytes :
            (nSent >= k /\ port = "works" /\ at = "runloop") ~>
                (Len(given) >= k \/ at \in {"tcdrain", "fclose"} \cup Over)

OutputTaken == []<>(output = 0 \/ hungUp)

\* A program that is told to stop ends, if the port's output is taken or the
\* device goes away: tcdrain waits for that.
Exits == OutputTaken => ((at \in {"usb_shutdown", "tcdrain"}) ~> (at \in Over))
=============================================================================
