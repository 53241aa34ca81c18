------------------------------ MODULE UsbHost ------------------------------
(***************************************************************************)
(* The USB host software: the interrupt handler and the bus probe of       *)
(* MAX3421E.c, the enumeration state machine USB_Task of transfer.c, the   *)
(* HID probes of HID.c and the session handling of main(), run one after   *)
(* the other by the main loop, while the bus, the MAX3421E chip and the    *)
(* clock go on by themselves.  A control transfer is one step with its     *)
(* outcome; UsbTransfer looks inside.                                      *)
(***************************************************************************)
EXTENDS Integers

CONSTANTS
  USB_NUMDEVICES,   \* 8: addresses 1 to 7 are given out
  Devices,          \* what may be plugged in
  Class,            \* per device: 1 boot keyboard, 2 boot mouse, 0 anything else
  Speed,            \* per device, "full" or "low"
  Unplugged, SE1,   \* what the bus may show instead of a device
  ClockPeriod,      \* the millisecond clock (alt_nticks()*1000)/1000 starts again here
  SettleTime        \* 200 ms, in units of time

ASSUME HostAssumption ==
  /\ USB_NUMDEVICES \in Nat /\ USB_NUMDEVICES >= 2
  /\ Class \in [Devices -> 0 .. 2]
  /\ Speed \in [Devices -> {"full", "low"}]
  /\ Unplugged \notin Devices /\ SE1 \notin Devices /\ Unplugged # SE1
  /\ ClockPeriod \in Nat \ {0} /\ SettleTime \in Nat

VARIABLES
  \* the bus and the chip
  bus,              \* the device on the bus, Unplugged or SE1
  busAddress,       \* the address that device answers to
  condet, busevent, \* bmCONDETIRQ and bmBUSEVENTIRQ of HIRQ
  resetting,        \* bmBUSRST of HCTL
  mode,             \* bmLOWSPEED of MODE
  now,              \* the millisecond clock, in units of time
  \* the program
  pc,               \* "init", "initack", "irq", "ack", "usb" or "main"
  served,           \* HIRQ_sendback: the handler saw a bus event too
  usb_task_state,
  usb_delay, tmp_addr,
  epinfo, devclass, \* devtable[1 .. USB_NUMDEVICES-1]
  hid_addr,         \* hid_device.addr
  runningdebugflag, device,
  \* history: the bus has changed since it was probed last
  unseen

chip == <<bus, busAddress, condet, busevent, resetting, mode>>
table == <<epinfo, devclass>>
program == <<pc, served, usb_task_state, usb_delay, tmp_addr, hid_addr>>
announcement == <<runningdebugflag, device>>
vars == <<chip, now, program, table, announcement, unseen>>

\* usb_task_state, and the state a value belongs to (USB_STATE_MASK).
INITIALIZE == 1
WAIT_FOR_DEVICE == 3
ILLEGAL == 4
ATTACHED == 16
SETTLE == 17
RESET_DEVICE == 18
WAIT_RESET_COMPLETE == 19
WAIT_SOF == 20
GET_DESCRIPTOR == 21
ADDRESSING == 32
CONFIGURING == 48
RUNNING == 64
ERROR == 255

InState(state) == usb_task_state \in state .. state + 15
Detached == InState(0)

Addresses == 1 .. USB_NUMDEVICES - 1

Init ==
  /\ bus \in Devices \cup {Unplugged, SE1} /\ busAddress = 0
  /\ condet = FALSE /\ busevent = FALSE /\ resetting = FALSE /\ mode = "full"
  /\ now = 0
  /\ pc = "init" /\ served = FALSE
  /\ usb_task_state = INITIALIZE /\ usb_delay = 0 /\ tmp_addr = 0
  /\ epinfo = [a \in Addresses |-> "none"] /\ devclass = [a \in Addresses |-> 0]
  /\ hid_addr = 0
  /\ runningdebugflag = FALSE /\ device = 255
  /\ unseen = TRUE

---------------------------------------------------------------------------
\* The bus and the chip, and the clock.

\* Somebody plugs or unplugs a device.  The chip notices.
Replug ==
  /\ bus' \in (Devices \cup {Unplugged, SE1}) \ {bus}
  /\ bus = Unplugged \/ bus' = Unplugged
  /\ busAddress' = 0
  /\ condet' = TRUE /\ unseen' = TRUE
  /\ UNCHANGED <<busevent, resetting, mode, now, program, table, announcement>>

\* The chip ends a bus reset; the device forgets its address.
ResetDone ==
  /\ resetting
  /\ resetting' = FALSE /\ busevent' = TRUE /\ busAddress' = 0
  /\ UNCHANGED <<bus, condet, mode, now, program, table, announcement, unseen>>

\* A unit of time is longer than a pass of the main loop: the clock moves at most
\* once between two passes.
Time == now' \in {now, (now + 1) % ClockPeriod}

---------------------------------------------------------------------------
\* MAX3421E.c

Other(speed) == IF speed = "full" THEN "low" ELSE "full"

\* Mutants: a session that is unplugged is left running; a device in its reset is
\* attached again.
Probed_KeepsRunning(state, speed) ==
  IF bus = Unplugged THEN [state |-> state, mode |-> speed]
  ELSE [state |-> IF bus = SE1 THEN ILLEGAL ELSE ATTACHED,
        mode |-> IF bus = SE1 THEN speed ELSE Speed[bus]]
Probed_NoKludge(state, speed) ==
  CASE bus \in Devices -> [state |-> ATTACHED, mode |-> Speed[bus]]
    [] bus = SE1       -> [state |-> ILLEGAL, mode |-> speed]
    [] bus = Unplugged -> [state |-> INITIALIZE, mode |-> speed]

(***************************************************************************)
(* MAX_busprobe: the state and the speed mode it leaves.  An idle device   *)
(* shows J if its speed is the host's, K otherwise; during a bus reset a   *)
(* device is left alone.                                                   *)
(***************************************************************************)
Probed(state, speed) ==
  CASE bus \in Devices /\ state = WAIT_RESET_COMPLETE -> [state |-> state, mode |-> speed]
    [] bus \in Devices /\ state # WAIT_RESET_COMPLETE ->
         [state |-> ATTACHED, mode |-> IF Speed[bus] = speed THEN speed ELSE Other(speed)]
    [] bus = SE1 -> [state |-> ILLEGAL, mode |-> speed]
    [] bus = Unplugged /\ state \notin 0 .. 15 -> [state |-> INITIALIZE, mode |-> speed]
    [] bus = Unplugged /\ state \in 0 .. 15 -> [state |-> WAIT_FOR_DEVICE, mode |-> "full"]

Busprobe(state, speed, advance) ==
  LET probed == Probed(state, speed)
  IN  /\ usb_task_state' = (probed.state + advance) % 256
      /\ mode' = probed.mode
      /\ unseen' = FALSE

\* MAX3421E_init up to the probe.  The chip is reset and with it its flags.
InitProbe ==
  /\ pc = "init"
  /\ Busprobe(usb_task_state, "full", 0)
  /\ condet' = FALSE /\ busevent' = FALSE /\ resetting' = FALSE
  /\ pc' = "initack"
  /\ UNCHANGED <<bus, busAddress, now, served, usb_delay, tmp_addr, hid_addr, table, announcement>>

EmptyTable ==
  /\ epinfo' = [a \in Addresses |-> "none"]
  /\ devclass' = [a \in Addresses |-> 0]

\* The rest of it clears the connection interrupt; USB_init follows.
InitAck ==
  /\ pc = "initack"
  /\ condet' = FALSE
  /\ EmptyTable
  /\ pc' = "irq"
  /\ UNCHANGED <<bus, busAddress, busevent, resetting, mode, now, served, usb_task_state,
                 usb_delay, tmp_addr, hid_addr, announcement, unseen>>

\* MAX3421E_Task: the interrupt pin shows connection changes only ...
NoInterrupt ==
  /\ pc = "irq" /\ ~condet
  /\ pc' = "usb"
  /\ UNCHANGED <<chip, now, served, usb_task_state, usb_delay, tmp_addr, hid_addr, table,
                 announcement, unseen>>

\* ... but MaxIntHandler also acts on a bus event it finds, in whatever state ...
MaxIntHandler ==
  /\ pc = "irq" /\ condet
  /\ Busprobe(usb_task_state, mode, IF busevent THEN 1 ELSE 0)
  /\ served' = busevent
  /\ pc' = "ack"
  /\ UNCHANGED <<bus, busAddress, condet, busevent, resetting, now, usb_delay, tmp_addr,
                 hid_addr, table, announcement>>

\* ... and clears what it has read, also what came again since.
AckInterrupt ==
  /\ pc = "ack"
  /\ condet' = FALSE
  /\ busevent' = (busevent /\ ~served)
  /\ pc' = "usb"
  /\ UNCHANGED <<bus, busAddress, resetting, mode, now, served, usb_task_state, usb_delay,
                 tmp_addr, hid_addr, table, announcement, unseen>>

---------------------------------------------------------------------------
\* USB_Task: one case of its switch, then back to main().

Task(state) == pc = "usb" /\ usb_task_state = state /\ pc' = "main"

\* A control transfer to an address can succeed; whether it does is up to the bus.
Answers(address) ==
  bus \in Devices /\ busAddress = address /\ Speed[bus] = mode /\ ~resetting

\* The substates of the detached state: clean up; wait; anything else.
CleanUp ==
  /\ Task(INITIALIZE)
  /\ EmptyTable
  /\ usb_task_state' = WAIT_FOR_DEVICE
  /\ UNCHANGED <<chip, now, served, usb_delay, tmp_addr, hid_addr, announcement, unseen>>

StartSettling ==
  /\ Task(ATTACHED)
  /\ usb_delay' = now + SettleTime
  /\ usb_task_state' = SETTLE
  /\ UNCHANGED <<chip, now, served, tmp_addr, hid_addr, table, announcement, unseen>>

Settled ==
  /\ Task(SETTLE) /\ now > usb_delay
  /\ usb_task_state' = RESET_DEVICE
  /\ UNCHANGED <<chip, now, served, usb_delay, tmp_addr, hid_addr, table, announcement, unseen>>

\* "bus reset causes connection detect interrupt" (MAX3421E.c:142), or it does not.
ResetDevice ==
  /\ Task(RESET_DEVICE)
  /\ busevent' = FALSE /\ resetting' = TRUE
  /\ condet' \in {condet, TRUE}
  /\ usb_task_state' = WAIT_RESET_COMPLETE
  /\ UNCHANGED <<bus, busAddress, mode, now, served, usb_delay, tmp_addr, hid_addr, table,
                 announcement, unseen>>

ResetComplete ==
  /\ Task(WAIT_RESET_COMPLETE) /\ ~resetting
  /\ usb_task_state' = WAIT_SOF
  /\ UNCHANGED <<chip, now, served, usb_delay, tmp_addr, hid_addr, table, announcement, unseen>>

\* HIRQ | bmFRAMEIRQ is never 0: nothing is waited for.
SofSeen ==
  /\ Task(WAIT_SOF)
  /\ usb_task_state' = GET_DESCRIPTOR
  /\ UNCHANGED <<chip, now, served, usb_delay, tmp_addr, hid_addr, table, announcement, unseen>>

\* Only the result of the first transfer counts, not those of the strings.
GetDescriptor ==
  /\ Task(GET_DESCRIPTOR)
  /\ \/ Answers(0) /\ usb_task_state' = ADDRESSING
     \/ usb_task_state' = ERROR
  /\ UNCHANGED <<chip, now, served, usb_delay, tmp_addr, hid_addr, table, announcement, unseen>>

FreeAddresses == {a \in Addresses : epinfo[a] = "none"}

\* The entry is filled before XferSetAddr is tried, and stays filled if it fails,
\* which it may also do after the device has taken the address.
GiveAddress ==
  /\ pc = "usb" /\ InState(ADDRESSING)
  /\ \E a \in FreeAddresses :
       /\ \A b \in FreeAddresses : a <= b
       /\ epinfo' = [epinfo EXCEPT ![a] = "dev0"]
       /\ \/ /\ Answers(0)
             /\ busAddress' = a /\ tmp_addr' = a /\ usb_task_state' = CONFIGURING
          \/ /\ busAddress' \in {busAddress} \cup (IF Answers(0) THEN {a} ELSE {})
             /\ usb_task_state' = ERROR
             /\ UNCHANGED tmp_addr
  /\ pc' = "main"
  /\ UNCHANGED <<bus, condet, busevent, resetting, mode, now, served, usb_delay, hid_addr,
                 devclass, announcement, unseen>>

NoAddress ==
  /\ Task(ADDRESSING) /\ FreeAddresses = {}
  /\ usb_task_state' = ERROR
  /\ UNCHANGED <<chip, now, served, usb_delay, tmp_addr, hid_addr, table, announcement, unseen>>

\* Mutant: the endpoint record is not switched.
Claim_KeepsRecord ==
  /\ devclass' = [devclass EXCEPT ![tmp_addr] = Class[bus]]
  /\ hid_addr' = tmp_addr
  /\ UNCHANGED epinfo

\* What HIDMProbe and HIDKProbe enter once the interface is one of theirs.
Claim ==
  /\ devclass' = [devclass EXCEPT ![tmp_addr] = Class[bus]]
  /\ epinfo' = [epinfo EXCEPT ![tmp_addr] = "hid"]
  /\ hid_addr' = tmp_addr

\* A probe may fail after it has claimed the device ...
Probe(class) ==
  /\ Answers(tmp_addr) /\ Class[bus] = class
  /\ Claim
  /\ usb_task_state' \in {RUNNING, ERROR}

HIDMProbe == Probe(2)
HIDKProbe == Probe(1)

\* ... or before; the other probes claim nothing.
NoProbe ==
  /\ usb_task_state' = ERROR
  /\ UNCHANGED <<table, hid_addr>>

Configure ==
  /\ Task(CONFIGURING)
  /\ HIDMProbe \/ HIDKProbe \/ NoProbe
  /\ UNCHANGED <<chip, now, served, usb_delay, tmp_addr, announcement, unseen>>

\* The cases in which USB_Task has nothing to do.
Waits ==
  \/ Detached /\ usb_task_state # INITIALIZE
  \/ usb_task_state = SETTLE /\ ~(now > usb_delay)
  \/ usb_task_state = WAIT_RESET_COMPLETE /\ resetting
  \/ usb_task_state \in {RUNNING, ERROR}

Idle ==
  /\ pc = "usb" /\ Waits
  /\ pc' = "main"
  /\ UNCHANGED <<chip, now, served, usb_task_state, usb_delay, tmp_addr, hid_addr, table,
                 announcement, unseen>>

USB_Task ==
  \/ CleanUp \/ StartSettling \/ Settled \/ ResetDevice \/ ResetComplete \/ SofSeen
  \/ GetDescriptor \/ GiveAddress \/ NoAddress \/ Configure \/ Idle

---------------------------------------------------------------------------
\* main()

TakenAddresses == Addresses \ FreeAddresses

\* Mutant: the first entry of the table.
LastTaken_First(a) == a \in TakenAddresses /\ \A b \in TakenAddresses : a <= b

LastTaken(a) == a \in TakenAddresses /\ \A b \in TakenAddresses : b <= a

\* GetDriverandReport returns the class of the last entry of the table.
Announce ==
  /\ pc = "main" /\ Time /\ usb_task_state = RUNNING /\ ~runningdebugflag
  /\ runningdebugflag' = TRUE
  /\ IF TakenAddresses = {} THEN device' = 255
     ELSE \E a \in Addresses : LastTaken(a) /\ device' = devclass[a]
  /\ pc' = "irq"
  /\ UNCHANGED <<chip, served, usb_task_state, usb_delay, tmp_addr, hid_addr, table, unseen>>

\* kbdPoll or mousePoll; an error state; nothing there.
NextPass ==
  /\ pc = "main" /\ Time
  /\ usb_task_state \in {RUNNING, ERROR} => usb_task_state = ERROR \/ runningdebugflag
  /\ usb_task_state \notin {RUNNING, ERROR} => ~runningdebugflag
  /\ pc' = "irq"
  /\ UNCHANGED <<chip, served, usb_task_state, usb_delay, tmp_addr, hid_addr, table,
                 announcement, unseen>>

\* A session is over: start afresh.
EndSession ==
  /\ pc = "main" /\ Time /\ usb_task_state \notin {RUNNING, ERROR} /\ runningdebugflag
  /\ runningdebugflag' = FALSE
  /\ pc' = "init"
  /\ UNCHANGED <<chip, served, usb_task_state, usb_delay, tmp_addr, hid_addr, table,
                 device, unseen>>

Main == Announce \/ NextPass \/ EndSession

Loop == InitProbe \/ InitAck \/ NoInterrupt \/ MaxIntHandler \/ AckInterrupt \/ USB_Task \/ Main

Next == Replug \/ ResetDone \/ Loop

(***************************************************************************)
(* The main loop never blocks for ever (every transfer has a deadline), a  *)
(* bus reset takes 50 ms and the timer keeps ticking.  Nobody has to plug  *)
(* anything in.                                                            *)
(***************************************************************************)
Fairness == WF_vars(Loop) /\ SF_vars(Main /\ now' # now) /\ WF_vars(ResetDone)

Spec == Init /\ [][Next]_vars /\ Fairness

---------------------------------------------------------------------------
\* Properties

\* usb_task_state is a byte; only these of its values are reached, two of them
\* (2 and 5) by adding a bus event to a state that has no successor.
TypeOK ==
  /\ bus \in Devices \cup {Unplugged, SE1} /\ busAddress \in Addresses \cup {0}
  /\ condet \in BOOLEAN /\ busevent \in BOOLEAN /\ resetting \in BOOLEAN
  /\ mode \in {"full", "low"}
  /\ now \in 0 .. ClockPeriod - 1
  /\ pc \in {"init", "initack", "irq", "ack", "usb", "main"} /\ served \in BOOLEAN
  /\ usb_task_state \in 1 .. 5 \cup 16 .. 21 \cup {ADDRESSING, CONFIGURING, RUNNING, ERROR}
  /\ usb_delay \in 0 .. ClockPeriod - 1 + SettleTime
  /\ tmp_addr \in Addresses \cup {0} /\ hid_addr \in Addresses \cup {0}
  /\ epinfo \in [Addresses -> {"none", "dev0", "hid"}]
  /\ devclass \in [Addresses -> 0 .. 2]
  /\ runningdebugflag \in BOOLEAN /\ device \in {0, 1, 2, 255}
  /\ unseen \in BOOLEAN

(***************************************************************************)
(* A transfer finds the endpoint record of the address it goes to: those   *)
(* of the probes, of the polls and of main()'s "hard-wired" address 1      *)
(* (main.c:22, 42-51) all follow a pointer of the table without looking    *)
(* (transfer.c:113, 199), while USB_init sets them all to NULL whenever a  *)
(* session ends.                                                           *)
(***************************************************************************)
EndpointsInTable ==
  /\ usb_task_state = CONFIGURING /\ pc \in {"irq", "usb"} => epinfo[tmp_addr] # "none"
  /\ usb_task_state = RUNNING /\ pc = "main" => epinfo[1] # "none" /\ epinfo[hid_addr] = "hid"

(***************************************************************************)
(* A running session is with the device that is on the bus: it answers to  *)
(* the address that is polled, at the speed the host speaks, and is of the *)
(* class the table says.  The exception is a change the last probe has not *)
(* seen.  Devices may be exchanged in the middle of an enumeration.        *)
(***************************************************************************)
RunningMeansConfigured ==
  usb_task_state = RUNNING /\ ~unseen =>
    /\ bus \in Devices /\ Answers(hid_addr)
    /\ devclass[hid_addr] = Class[bus]

(***************************************************************************)
(* main() can rely on UsbSession.  It polls as what device says, a class   *)
(* it looked up in the table once per session, among entries that earlier  *)
(* sessions may have left there.                                           *)
(***************************************************************************)
sessionPhase ==
  CASE Detached                 -> "detached"
    [] usb_task_state = RUNNING -> "running"
    [] usb_task_state = ERROR   -> "error"
    [] OTHER                    -> "enumerating"

\* What the session is with: what main() was told, or what it will be told.
sessionClass ==
  IF usb_task_state # RUNNING THEN 0
  ELSE IF runningdebugflag THEN device ELSE devclass[hid_addr]

Session == INSTANCE UsbSession WITH
  Classes <- {1, 2}, NoClass <- 0,
  phase <- sessionPhase, found <- sessionClass, announced <- runningdebugflag

SessionSpec == Session!Spec

\* The clock starts again at 0 before it has got past the end of the settle time.
NeverSettles == usb_task_state = SETTLE /\ usb_delay >= ClockPeriod - 1

(***************************************************************************)
(* Once nobody plugs any more the host comes to rest, and in a state that  *)
(* fits the bus unless the last change was not seen: a device is running   *)
(* or in error, however many stale events, resets and restarts came        *)
(* before.  Two things go wrong in the code and are excepted: a change     *)
(* between a probe and the write that clears its interrupt is lost         *)
(* (unseen), and a device plugged in less than the settle time before the  *)
(* millisecond clock wraps waits for ever (NeverSettles).                  *)
(***************************************************************************)
AtRest ==
  \/ usb_task_state \in {RUNNING, ERROR} /\ (unseen \/ bus \in Devices)
  \/ Detached /\ usb_task_state # INITIALIZE /\ (unseen \/ bus \notin Devices)
  \/ NeverSettles

ComesToRest == <>[][UNCHANGED bus]_vars => <>[]AtRest

(***************************************************************************)
(* transfer.c:260 and MAX3421E.c:170 say that the device data structures   *)
(* are cleared when a device goes.                                         *)
(***************************************************************************)
TableClearedAfterUnplug ==
  pc = "irq" /\ Detached /\ usb_task_state \notin {INITIALIZE, ILLEGAL} =>
    FreeAddresses = Addresses
============================================================================
