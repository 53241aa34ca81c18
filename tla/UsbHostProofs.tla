--------------------------- MODULE UsbHostProofs ---------------------------
(***************************************************************************)
(* A running session is with the device on the bus, and main() can rely on *)
(* UsbSession, for any number of addresses and devices, any clock, and     *)
(* whatever is plugged, lost or leaked.                                    *)
(***************************************************************************)
EXTENDS UsbHost, TLAPS

\* The values the proof needs to know of.
Kinds ==
  /\ bus \in Devices \cup {Unplugged, SE1}
  /\ usb_task_state \in 0 .. 255
  /\ epinfo \in [Addresses -> {"none", "dev0", "hid"}]
  /\ devclass \in [Addresses -> 0 .. 2]
  /\ tmp_addr \in Addresses \cup {0}
  /\ hid_addr \in Addresses \cup {0}
  /\ busevent \in BOOLEAN /\ runningdebugflag \in BOOLEAN

\* The addresses given out are the first ones, so the next one is above them all.
NoGaps == \A a, b \in Addresses : a < b /\ epinfo[b] # "none" => epinfo[a] # "none"

\* The device that is being configured, and the one that runs, got the last address.
Configures == usb_task_state = CONFIGURING => LastTaken(tmp_addr)

Runs ==
  usb_task_state = RUNNING =>
    /\ hid_addr = tmp_addr /\ LastTaken(tmp_addr)
    /\ epinfo[hid_addr] = "hid"
    /\ devclass[hid_addr] \in {1, 2}
    /\ runningdebugflag => device = devclass[hid_addr]

\* The chip is initialised only when nothing has been found yet.
Initialises == pc \in {"init", "initack"} => ~runningdebugflag /\ usb_task_state < ADDRESSING

\* From the end of a session to the branch of main() that closes it no device can be
\* enumerated: that takes several passes.
AfterSession ==
  runningdebugflag =>
    \/ usb_task_state = RUNNING
    \/ usb_task_state <= SETTLE /\ pc \in {"ack", "usb"}
    \/ usb_task_state <= RESET_DEVICE /\ pc = "main"

IInv == Kinds /\ NoGaps /\ Configures /\ Runs /\ Initialises /\ AfterSession

---------------------------------------------------------------------------

USE DEF INITIALIZE, WAIT_FOR_DEVICE, ILLEGAL, ATTACHED, SETTLE, RESET_DEVICE,
        WAIT_RESET_COMPLETE, WAIT_SOF, GET_DESCRIPTOR, ADDRESSING, CONFIGURING, RUNNING, ERROR

\* A probe leads to a detached or attached state, unless it leaves a reset alone.
LEMMA ProbeResult ==
  ASSUME Kinds, NEW speed
  PROVE  /\ Probed(usb_task_state, speed).state \in
              {INITIALIZE, WAIT_FOR_DEVICE, ILLEGAL, ATTACHED, WAIT_RESET_COMPLETE}
         /\ usb_task_state # WAIT_RESET_COMPLETE =>
              Probed(usb_task_state, speed).state # WAIT_RESET_COMPLETE
<1>1. CASE bus \in Devices /\ usb_task_state = WAIT_RESET_COMPLETE
  BY <1>1, HostAssumption DEF Probed
<1>2. CASE bus \in Devices /\ usb_task_state # WAIT_RESET_COMPLETE
  BY <1>2, HostAssumption DEF Probed
<1>3. CASE bus = SE1
  BY <1>3, HostAssumption DEF Probed
<1>4. CASE bus = Unplugged
  BY <1>4, HostAssumption DEF Probed, Kinds
<1> QED
  BY <1>1, <1>2, <1>3, <1>4 DEF Kinds

LEMMA BusprobeResult ==
  ASSUME Kinds, NEW speed, NEW advance \in {0, 1}, Busprobe(usb_task_state, speed, advance)
  PROVE  /\ usb_task_state' \in 0 .. WAIT_SOF
         /\ usb_task_state # WAIT_RESET_COMPLETE => usb_task_state' <= SETTLE
  BY ProbeResult DEF Busprobe

\* An entry that joins the table at the lowest free address is its last one.
LEMMA NextIsLast ==
  ASSUME NoGaps, NEW a \in FreeAddresses, \A b \in FreeAddresses : a <= b,
         Kinds, epinfo' = [epinfo EXCEPT ![a] = "dev0"]
  PROVE  NoGaps' /\ LastTaken(a)'
<1>1. Addresses \subseteq Nat
  BY HostAssumption DEF Addresses
<1>2. a \in Addresses /\ epinfo' \in [Addresses -> {"none", "dev0", "hid"}]
  BY DEF Kinds, FreeAddresses
<1>3. \A b \in Addresses : epinfo'[b] = IF b = a THEN "dev0" ELSE epinfo[b]
  BY <1>2 DEF Kinds
<1>4. NoGaps'
  BY <1>1, <1>2, <1>3 DEF NoGaps, FreeAddresses
<1>5. LastTaken(a)'
  BY <1>1, <1>2, <1>3 DEF NoGaps, FreeAddresses, TakenAddresses, LastTaken
<1> QED
  BY <1>4, <1>5

LEMMA IInvInit == Init => IInv
<1> SUFFICES ASSUME Init PROVE IInv
  OBVIOUS
<1>1. Kinds
  <2>1. bus \in Devices \cup {Unplugged, SE1} /\ busevent \in BOOLEAN /\ runningdebugflag \in BOOLEAN
    BY Zenon DEF Init
  <2>2. /\ epinfo \in [Addresses -> {"none", "dev0", "hid"}]
        /\ devclass \in [Addresses -> 0 .. 2]
    BY DEF Init
  <2> QED
    BY <2>1, <2>2 DEF Init, Kinds
<1>2. NoGaps /\ Configures /\ Runs
  BY DEF Init, NoGaps, Configures, Runs
<1>3. Initialises /\ AfterSession
  BY DEF Init, Initialises, AfterSession
<1> QED
  BY <1>1, <1>2, <1>3 DEF IInv

\* The invariant reads nothing else.
Known == <<bus, busevent, usb_task_state, table, tmp_addr, hid_addr, announcement, pc>>

\* An emptied table, in a state in which nothing is configured.
LEMMA Emptied ==
  ASSUME Kinds, EmptyTable
  PROVE  /\ epinfo' \in [Addresses -> {"none", "dev0", "hid"}]
         /\ devclass' \in [Addresses -> 0 .. 2]
         /\ NoGaps'
  BY DEF EmptyTable, NoGaps

LEMMA IInvStep == IInv /\ [Next]_vars => IInv'
<1> SUFFICES ASSUME IInv, [Next]_vars PROVE IInv'
  OBVIOUS
<1> USE DEF IInv
<1>1. CASE UNCHANGED Known
  BY <1>1 DEF Known, table, announcement, Kinds, NoGaps, Configures, Runs, Initialises,
     AfterSession, LastTaken, TakenAddresses, FreeAddresses
<1>2. CASE Replug
  <2>1. bus' \in Devices \cup {Unplugged, SE1} /\ UNCHANGED <<program, table, announcement, busevent>>
    BY <1>2 DEF Replug
  <2> QED
    BY <2>1 DEF program, table, announcement, Kinds, NoGaps, Configures, Runs, Initialises,
       AfterSession, LastTaken, TakenAddresses, FreeAddresses
<1>3. CASE ResetDone
  <2>1. busevent' = TRUE /\ UNCHANGED <<program, table, announcement, bus>>
    BY <1>3 DEF ResetDone
  <2> QED
    BY <2>1 DEF program, table, announcement, Kinds, NoGaps, Configures, Runs, Initialises,
       AfterSession, LastTaken, TakenAddresses, FreeAddresses
<1>4. CASE InitProbe
  <2>1. usb_task_state' \in 0 .. WAIT_SOF
    BY <1>4, BusprobeResult DEF InitProbe
  <2>2. ~runningdebugflag /\ runningdebugflag' = runningdebugflag
    BY <1>4 DEF InitProbe, Initialises, announcement
  <2>4. busevent' \in BOOLEAN
    BY <1>4, Zenon DEF InitProbe
  <2>3. UNCHANGED <<bus, tmp_addr, hid_addr, table>>
    BY <1>4 DEF InitProbe
  <2> QED
    BY <2>1, <2>2, <2>3, <2>4 DEF table, Kinds, NoGaps, Configures, Runs, Initialises, AfterSession
<1>5. CASE InitAck
  <2>1. /\ ~runningdebugflag /\ runningdebugflag' = runningdebugflag
        /\ usb_task_state' < ADDRESSING /\ pc' = "irq"
    BY <1>5 DEF InitAck, Initialises, announcement
  <2>2. UNCHANGED <<bus, tmp_addr, hid_addr, usb_task_state, busevent>>
    BY <1>5 DEF InitAck
  <2>3. EmptyTable
    BY <1>5 DEF InitAck
  <2> QED
    BY <2>1, <2>2, <2>3, Emptied DEF Kinds, Configures, Runs, Initialises, AfterSession
<1>6. CASE MaxIntHandler
  <2>1. /\ usb_task_state' \in 0 .. WAIT_SOF
        /\ usb_task_state # WAIT_RESET_COMPLETE => usb_task_state' <= SETTLE
    BY <1>6, BusprobeResult DEF MaxIntHandler
  <2>2. pc = "irq" /\ pc' = "ack"
    BY <1>6 DEF MaxIntHandler
  <2>3. UNCHANGED <<bus, busevent, tmp_addr, hid_addr, epinfo, devclass, runningdebugflag, device>>
    BY <1>6 DEF MaxIntHandler, table, announcement
  <2> QED
    BY <2>1, <2>2, <2>3 DEF Kinds, NoGaps, Configures, Runs, Initialises, AfterSession
<1>7. CASE AckInterrupt
  <2>1. UNCHANGED <<bus, usb_task_state, tmp_addr, hid_addr, epinfo, devclass, runningdebugflag, device>>
    BY <1>7 DEF AckInterrupt, table, announcement
  <2>2. busevent' \in BOOLEAN /\ pc = "ack" /\ pc' = "usb"
    BY <1>7 DEF AckInterrupt
  <2> QED
    BY <2>1, <2>2 DEF Kinds, NoGaps, Configures, Runs, Initialises, AfterSession,
       LastTaken, TakenAddresses, FreeAddresses
<1>8. CASE NoInterrupt
  <2>1. UNCHANGED <<bus, busevent, usb_task_state, tmp_addr, hid_addr, epinfo, devclass,
                    runningdebugflag, device>>
    BY <1>8 DEF NoInterrupt, table, announcement, chip
  <2>2. pc = "irq" /\ pc' = "usb"
    BY <1>8 DEF NoInterrupt
  <2> QED
    BY <2>1, <2>2 DEF Kinds, NoGaps, Configures, Runs, Initialises, AfterSession,
       LastTaken, TakenAddresses, FreeAddresses
<1>9. CASE CleanUp
  <2>1. pc' = "main" /\ usb_task_state' = WAIT_FOR_DEVICE
    BY <1>9 DEF CleanUp, Task
  <2>2. UNCHANGED <<bus, busevent, tmp_addr, hid_addr, runningdebugflag, device>>
    BY <1>9 DEF CleanUp, chip, announcement
  <2>3. EmptyTable
    BY <1>9 DEF CleanUp
  <2> QED
    BY <2>1, <2>2, <2>3, Emptied DEF Kinds, Configures, Runs, Initialises, AfterSession
<1>10. CASE GiveAddress
  <2>1. pc = "usb" /\ pc' = "main" /\ usb_task_state \in 32 .. 47
    BY <1>10 DEF GiveAddress, InState
  <2>2. ~runningdebugflag
    BY <2>1 DEF AfterSession
  <2>3. UNCHANGED <<bus, busevent, hid_addr, devclass, runningdebugflag, device>>
    BY <1>10 DEF GiveAddress, announcement
  <2>4. PICK a \in FreeAddresses :
          /\ \A b \in FreeAddresses : a <= b
          /\ epinfo' = [epinfo EXCEPT ![a] = "dev0"]
          /\ \/ /\ Answers(0)
                /\ busAddress' = a /\ tmp_addr' = a /\ usb_task_state' = CONFIGURING
             \/ /\ busAddress' \in {busAddress} \cup (IF Answers(0) THEN {a} ELSE {})
                /\ usb_task_state' = ERROR
                /\ UNCHANGED tmp_addr
    BY <1>10 DEF GiveAddress
  <2>5. NoGaps' /\ LastTaken(a)'
    BY <2>4, NextIsLast
  <2>6. Kinds'
    BY <2>2, <2>3, <2>4 DEF Kinds, FreeAddresses
  <2> QED
    BY <2>1, <2>2, <2>3, <2>4, <2>5, <2>6 DEF Configures, Runs, Initialises, AfterSession
<1>11. CASE Configure
  <2>1. pc = "usb" /\ pc' = "main" /\ usb_task_state = CONFIGURING
    BY <1>11 DEF Configure, Probe, HIDMProbe, HIDKProbe, NoProbe, Task
  <2>2. ~runningdebugflag /\ LastTaken(tmp_addr)
    BY <2>1 DEF AfterSession, Configures
  <2>3. UNCHANGED <<bus, busevent, tmp_addr, runningdebugflag, device>>
    BY <1>11 DEF Configure, Probe, HIDMProbe, HIDKProbe, NoProbe, chip, announcement
  <2>4. CASE Claim /\ Answers(tmp_addr) /\ Class[bus] # 0 /\ usb_task_state' \in {RUNNING, ERROR}
    <3>1. tmp_addr \in Addresses /\ Class[bus] \in {1, 2}
      BY <2>2, <2>4, HostAssumption DEF LastTaken, TakenAddresses, Answers
    <3>2. /\ epinfo' = [epinfo EXCEPT ![tmp_addr] = "hid"]
          /\ devclass' = [devclass EXCEPT ![tmp_addr] = Class[bus]]
          /\ hid_addr' = tmp_addr
      BY <2>4 DEF Claim
    <3>3. Kinds'
      BY <2>2, <2>3, <2>4, <3>1, <3>2 DEF Kinds
    <3>4. FreeAddresses' = FreeAddresses
      BY <2>2, <3>1, <3>2 DEF FreeAddresses, LastTaken, TakenAddresses, Kinds
    <3>5. LastTaken(tmp_addr)'
      BY <2>2, <2>3, <3>4 DEF LastTaken, TakenAddresses
    <3>6. NoGaps'
      BY <3>4 DEF NoGaps, FreeAddresses
    <3>7. Runs'
      BY <2>2, <2>3, <3>1, <3>2, <3>5 DEF Runs, Kinds
    <3> QED
      BY <2>1, <2>2, <2>3, <2>4, <3>3, <3>5, <3>6, <3>7 DEF Configures, Initialises, AfterSession
  <2>5. CASE usb_task_state' = ERROR /\ UNCHANGED <<table, hid_addr>>
    BY <2>1, <2>2, <2>3, <2>5 DEF table, Kinds, NoGaps, Configures, Runs, Initialises, AfterSession
  <2> QED
    BY <1>11, <2>4, <2>5 DEF Configure, Probe, HIDMProbe, HIDKProbe, NoProbe
<1>12. CASE StartSettling \/ Settled \/ ResetDevice \/ ResetComplete \/ SofSeen
  <2>1. /\ pc = "usb" /\ pc' = "main"
        /\ usb_task_state \in 16 .. 20 /\ usb_task_state' = usb_task_state + 1
    <3>1. CASE StartSettling
      BY <3>1 DEF StartSettling, Task
    <3>2. CASE Settled
      BY <3>2 DEF Settled, Task
    <3>3. CASE ResetDevice
      BY <3>3 DEF ResetDevice, Task
    <3>4. CASE ResetComplete
      BY <3>4 DEF ResetComplete, Task
    <3>5. CASE SofSeen
      BY <3>5 DEF SofSeen, Task
    <3> QED
      BY <1>12, <3>1, <3>2, <3>3, <3>4, <3>5
  <2>4. UNCHANGED <<bus, tmp_addr, hid_addr, epinfo, devclass, runningdebugflag, device>>
    BY <1>12 DEF StartSettling, Settled, ResetDevice, ResetComplete, SofSeen, chip, table, announcement
  <2>5. busevent' \in BOOLEAN
    BY <1>12 DEF StartSettling, Settled, ResetDevice, ResetComplete, SofSeen, chip, Kinds
  <2> QED
    BY <2>1, <2>4, <2>5 DEF Kinds, NoGaps, Configures, Runs, Initialises, AfterSession
<1>13. CASE GetDescriptor \/ NoAddress
  <2>1. /\ pc = "usb" /\ pc' = "main" /\ usb_task_state \in {GET_DESCRIPTOR, ADDRESSING}
        /\ usb_task_state' \in {ADDRESSING, ERROR}
    BY <1>13 DEF GetDescriptor, NoAddress, Task
  <2>2. UNCHANGED <<bus, busevent, tmp_addr, hid_addr, epinfo, devclass, runningdebugflag, device>>
    BY <1>13 DEF GetDescriptor, NoAddress, chip, table, announcement
  <2> QED
    BY <2>1, <2>2 DEF Kinds, NoGaps, Configures, Runs, Initialises, AfterSession
<1>14. CASE Idle
  <2>1. pc = "usb" /\ pc' = "main"
    BY <1>14 DEF Idle
  <2>2. UNCHANGED <<bus, busevent, usb_task_state, tmp_addr, hid_addr, epinfo, devclass,
                    runningdebugflag, device>>
    BY <1>14 DEF Idle, chip, table, announcement
  <2> QED
    BY <2>1, <2>2 DEF Kinds, NoGaps, Configures, Runs, Initialises, AfterSession,
       LastTaken, TakenAddresses, FreeAddresses
<1>15. CASE Announce
  <2>1. pc = "main" /\ pc' = "irq" /\ usb_task_state = RUNNING /\ runningdebugflag'
    BY <1>15 DEF Announce
  <2>2. UNCHANGED <<bus, busevent, usb_task_state, tmp_addr, hid_addr, epinfo, devclass>>
    BY <1>15 DEF Announce, chip, table
  <2>3. hid_addr = tmp_addr /\ LastTaken(hid_addr)
    BY <2>1 DEF Runs
  <2>4. PICK a \in Addresses : LastTaken(a) /\ device' = devclass[a]
    BY <1>15, <2>3 DEF Announce, LastTaken
  <2>5. a = hid_addr
    BY <2>3, <2>4, HostAssumption DEF LastTaken, TakenAddresses, Addresses
  <2> QED
    BY <1>15, <2>1, <2>2, <2>4, <2>5 DEF Announce, Kinds, NoGaps, Configures, Runs, Initialises,
       AfterSession, LastTaken, TakenAddresses, FreeAddresses
<1>16. CASE NextPass
  <2>1. pc = "main" /\ pc' = "irq" /\ (usb_task_state = RUNNING \/ ~runningdebugflag)
    BY <1>16 DEF NextPass, AfterSession
  <2>2. UNCHANGED <<bus, busevent, usb_task_state, tmp_addr, hid_addr, epinfo, devclass,
                    runningdebugflag, device>>
    BY <1>16 DEF NextPass, chip, table, announcement
  <2> QED
    BY <2>1, <2>2 DEF Kinds, NoGaps, Configures, Runs, Initialises, AfterSession,
       LastTaken, TakenAddresses, FreeAddresses
<1>17. CASE EndSession
  <2>1. pc' = "init" /\ usb_task_state <= RESET_DEVICE
    BY <1>17 DEF EndSession, AfterSession
  <2>3. ~runningdebugflag' /\ runningdebugflag' \in BOOLEAN
    BY <1>17, Zenon DEF EndSession
  <2>2. UNCHANGED <<bus, busevent, usb_task_state, tmp_addr, hid_addr, epinfo, devclass, device>>
    BY <1>17 DEF EndSession, chip, table
  <2> QED
    BY <2>1, <2>2, <2>3 DEF Kinds, NoGaps, Configures, Runs, Initialises, AfterSession
<1>18. CASE UNCHANGED vars
  BY <1>1, <1>18 DEF vars, chip, program, Known
<1> QED
  BY <1>2, <1>3, <1>4, <1>5, <1>6, <1>7, <1>8, <1>9, <1>10, <1>11, <1>12, <1>13, <1>14, <1>15,
     <1>16, <1>17, <1>18 DEF Next, Loop, USB_Task, Main

\* What every run of the loop maintains.
THEOREM HostInvariant == Spec => []IInv
  BY IInvInit, IInvStep, PTL DEF Spec

---------------------------------------------------------------------------
\* No transfer follows a pointer that is NULL: the polled address and address 1 are
\* among the addresses given out.
THEOREM HostEndpointsInTable == Spec => []EndpointsInTable
<1>1. IInv => EndpointsInTable
  <2> SUFFICES ASSUME IInv PROVE EndpointsInTable
    OBVIOUS
  <2>1. Configures /\ Runs /\ NoGaps
    BY DEF IInv
  <2>2. usb_task_state = CONFIGURING => epinfo[tmp_addr] # "none"
    BY <2>1 DEF Configures, LastTaken, TakenAddresses, FreeAddresses
  <2>3. CASE usb_task_state = RUNNING
    <3>1. hid_addr \in Addresses /\ epinfo[hid_addr] = "hid"
      BY <2>1, <2>3 DEF Runs, LastTaken, TakenAddresses
    <3>2. 1 \in Addresses /\ (1 < hid_addr \/ 1 = hid_addr)
      BY <3>1, HostAssumption DEF Addresses
    <3>3. epinfo[1] # "none"
      BY <2>1, <3>1, <3>2 DEF NoGaps
    <3> QED
      BY <2>3, <3>1, <3>3 DEF EndpointsInTable
  <2> QED
    BY <2>2, <2>3 DEF EndpointsInTable
<1> QED
  BY <1>1, HostInvariant, PTL

\* The session's part of the state is set once, by the step that starts it.
LEMMA ConfiguredStep ==
  ASSUME IInv, RunningMeansConfigured, [Next]_vars
  PROVE  RunningMeansConfigured'
<1> SUFFICES ASSUME usb_task_state' = RUNNING, unseen' = FALSE \/ ~unseen'
             PROVE  bus' \in Devices /\ Answers(hid_addr)' /\ (devclass[hid_addr] = Class[bus])'
  BY DEF RunningMeansConfigured
<1>1. CASE Configure
  <2>1. /\ Claim /\ Answers(tmp_addr)
        /\ UNCHANGED <<chip, tmp_addr>>
    BY <1>1 DEF Configure, Probe, HIDMProbe, HIDKProbe, NoProbe, Task
  <2>2. bus \in Devices /\ tmp_addr \in Addresses
    BY <1>1, <2>1 DEF Answers, Configure, Probe, HIDMProbe, HIDKProbe, NoProbe, Task, IInv, Configures, LastTaken, TakenAddresses
  <2>3. hid_addr' = tmp_addr /\ devclass'[tmp_addr] = Class[bus]
    BY <2>1, <2>2 DEF Claim, IInv, Kinds
  <2> QED
    BY <2>1, <2>2, <2>3 DEF Answers, chip
<1>2. CASE /\ usb_task_state = RUNNING /\ ~unseen
           /\ UNCHANGED <<bus, busAddress, mode, resetting, hid_addr, devclass>>
  BY <1>2 DEF RunningMeansConfigured, Answers
<1>3. CASE Replug
  BY <1>3 DEF Replug
<1>4. CASE ResetDone
  BY <1>4 DEF ResetDone, program, RunningMeansConfigured, Answers
<1>5. CASE InitProbe \/ MaxIntHandler
  BY <1>5, BusprobeResult DEF InitProbe, MaxIntHandler, IInv
<1>6. CASE InitAck
  BY <1>6 DEF InitAck, IInv, Initialises
<1>7. CASE NoInterrupt \/ AckInterrupt \/ Idle
  BY <1>2, <1>7 DEF NoInterrupt, AckInterrupt, Idle, chip, table
<1>8. CASE CleanUp \/ StartSettling \/ Settled \/ ResetDevice \/ ResetComplete \/ SofSeen
  BY <1>8 DEF CleanUp, StartSettling, Settled, ResetDevice, ResetComplete, SofSeen
<1>9. CASE GetDescriptor \/ GiveAddress \/ NoAddress
  BY <1>9 DEF GetDescriptor, GiveAddress, NoAddress
<1>10. CASE Main
  BY <1>2, <1>10 DEF Main, Announce, NextPass, EndSession, chip, table
<1>11. CASE UNCHANGED vars
  BY <1>2, <1>11 DEF vars, chip, table, program
<1> QED
  BY <1>1, <1>3, <1>4, <1>5, <1>6, <1>7, <1>8, <1>9, <1>10, <1>11 DEF Next, Loop, USB_Task

\* A running session is with the device that is on the bus, at its address, in its
\* speed and class, unless the bus has changed since the last probe.
THEOREM HostRunningMeansConfigured == Spec => []RunningMeansConfigured
<1>1. Init => RunningMeansConfigured
  BY DEF Init, RunningMeansConfigured
<1> QED
  BY <1>1, ConfiguredStep, HostInvariant, PTL DEF Spec

---------------------------------------------------------------------------
\* What a step does to the session is decided by a few values.
LEMMA PhaseOf ==
  ASSUME Kinds
  PROVE  /\ usb_task_state <= 15 => sessionPhase = "detached"
         /\ usb_task_state = RUNNING => sessionPhase = "running"
         /\ usb_task_state = ERROR => sessionPhase = "error"
         /\ 15 < usb_task_state /\ usb_task_state \notin {RUNNING, ERROR}
              => sessionPhase = "enumerating"
  BY DEF Kinds, sessionPhase, Detached, InState

\* The same of the state after a step.
LEMMA PhaseOfNext ==
  ASSUME Kinds'
  PROVE  /\ usb_task_state' <= 15 => sessionPhase' = "detached"
         /\ usb_task_state' = RUNNING => sessionPhase' = "running"
         /\ usb_task_state' = ERROR => sessionPhase' = "error"
         /\ 15 < usb_task_state' /\ usb_task_state' \notin {RUNNING, ERROR}
              => sessionPhase' = "enumerating"
  BY DEF Kinds, sessionPhase, Detached, InState

LEMMA SessionStep ==
  ASSUME IInv, IInv', [Next]_vars
  PROVE  [Session!Next]_(Session!session)
<1> USE DEF Session!session
<1>0. Kinds /\ Kinds'
  BY DEF IInv
<1>1. CASE UNCHANGED <<usb_task_state, runningdebugflag, device, devclass, hid_addr>>
  BY <1>1 DEF sessionPhase, sessionClass, Detached, InState
<1>2. CASE Replug \/ ResetDone \/ NoInterrupt \/ AckInterrupt \/ Idle \/ UNCHANGED vars
  BY <1>1, <1>2 DEF Replug, ResetDone, NoInterrupt, AckInterrupt, Idle, vars, program, table,
     announcement
<1>3. CASE InitProbe \/ MaxIntHandler
  <2>1. usb_task_state' \in 0 .. WAIT_SOF /\ UNCHANGED runningdebugflag
    BY <1>0, <1>3, BusprobeResult DEF InitProbe, MaxIntHandler, announcement
  <2>2. sessionClass' = 0
    BY <2>1 DEF sessionClass
  <2>3. sessionPhase' = "detached" \/ sessionPhase' = "enumerating"
    BY <1>0, <2>1, PhaseOfNext
  <2> QED
    BY <2>1, <2>2, <2>3 DEF Session!Next, Session!Unplug, Session!Attach
<1>4. CASE InitAck \/ CleanUp
  <2>1. /\ usb_task_state < ADDRESSING /\ UNCHANGED runningdebugflag
        /\ \/ usb_task_state' = usb_task_state
           \/ usb_task_state = INITIALIZE /\ usb_task_state' = WAIT_FOR_DEVICE
    <3>1. CASE InitAck
      BY <3>1 DEF InitAck, announcement, IInv, Initialises
    <3>2. CASE CleanUp
      BY <3>2 DEF CleanUp, Task, announcement
    <3> QED
      BY <1>4, <3>1, <3>2
  <2>2. sessionPhase' = sessionPhase
    BY <1>0, <2>1, PhaseOf, PhaseOfNext DEF Kinds
  <2>3. sessionClass = 0 /\ sessionClass' = 0
    BY <2>1 DEF sessionClass
  <2> QED
    BY <2>1, <2>2, <2>3
<1>5. CASE StartSettling \/ Settled \/ ResetDevice \/ ResetComplete \/ SofSeen
  <2>1. /\ usb_task_state \in 16 .. 20 /\ usb_task_state' \in 16 .. 21
        /\ UNCHANGED runningdebugflag
    <3>1. CASE StartSettling
      BY <3>1 DEF StartSettling, Task, announcement
    <3>2. CASE Settled
      BY <3>2 DEF Settled, Task, announcement
    <3>3. CASE ResetDevice
      BY <3>3 DEF ResetDevice, Task, announcement
    <3>4. CASE ResetComplete \/ SofSeen
      BY <3>4 DEF ResetComplete, SofSeen, Task, announcement
    <3> QED
      BY <1>5, <3>1, <3>2, <3>3, <3>4
  <2>2. sessionPhase = "enumerating" /\ sessionPhase' = "enumerating"
    BY <1>0, <2>1, PhaseOf, PhaseOfNext
  <2>3. sessionClass = 0 /\ sessionClass' = 0
    BY <2>1 DEF sessionClass
  <2> QED
    BY <2>1, <2>2, <2>3
<1>6. CASE GetDescriptor \/ GiveAddress \/ NoAddress
  <2>1. /\ usb_task_state \in 21 .. 47 /\ pc = "usb"
        /\ usb_task_state' \in {ADDRESSING, CONFIGURING, ERROR}
        /\ UNCHANGED runningdebugflag
    BY <1>6 DEF GetDescriptor, GiveAddress, NoAddress, Task, InState, announcement
  <2>2. sessionPhase = "enumerating" /\ sessionPhase' \in {"enumerating", "error"}
    BY <1>0, <2>1, PhaseOf, PhaseOfNext
  <2>3. sessionClass = 0 /\ sessionClass' = 0 /\ ~runningdebugflag
    BY <2>1 DEF sessionClass, IInv, AfterSession
  <2> QED
    BY <2>1, <2>2, <2>3 DEF Session!Next, Session!GiveUp
<1>7. CASE Configure
  <2>1. /\ usb_task_state = CONFIGURING /\ pc = "usb"
        /\ usb_task_state' \in {RUNNING, ERROR}
        /\ UNCHANGED runningdebugflag
    BY <1>7 DEF Configure, Probe, HIDMProbe, HIDKProbe, NoProbe, Task, announcement
  <2>2. sessionPhase = "enumerating" /\ sessionClass = 0 /\ ~runningdebugflag
    BY <1>0, <2>1, PhaseOf DEF sessionClass, IInv, AfterSession
  <2>3. CASE usb_task_state' = RUNNING
    <3>1. sessionPhase' = "running" /\ sessionClass' \in {1, 2}
      BY <1>0, <2>1, <2>2, <2>3, PhaseOfNext DEF sessionClass, IInv, Runs
    <3> QED
      BY <2>1, <2>2, <3>1 DEF Session!Next, Session!Identify
  <2>4. CASE usb_task_state' = ERROR
    <3>1. sessionPhase' = "error" /\ sessionClass' = 0
      BY <1>0, <2>4, PhaseOfNext DEF sessionClass
    <3> QED
      BY <2>1, <2>2, <3>1 DEF Session!Next, Session!GiveUp
  <2> QED
    BY <2>1, <2>3, <2>4
<1>8. CASE Announce
  <2>1. /\ usb_task_state = RUNNING /\ ~runningdebugflag /\ runningdebugflag' = TRUE
        /\ UNCHANGED <<usb_task_state, hid_addr, devclass>>
    BY <1>8 DEF Announce, table
  <2>2. sessionPhase = "running" /\ sessionPhase' = "running"
    BY <1>0, <2>1, PhaseOf, PhaseOfNext
  <2>3. sessionClass = devclass[hid_addr] /\ sessionClass' = devclass[hid_addr]
    BY <2>1 DEF sessionClass, IInv, Runs
  <2> QED
    BY <2>1, <2>2, <2>3 DEF Session!Next, Session!Announce
<1>9. CASE NextPass
  BY <1>1, <1>9 DEF NextPass, announcement, table
<1>10. CASE EndSession
  <2>1. /\ runningdebugflag /\ runningdebugflag' = FALSE /\ UNCHANGED usb_task_state
        /\ usb_task_state \notin {RUNNING, ERROR}
    BY <1>10 DEF EndSession
  <2>2. sessionPhase' = sessionPhase /\ sessionPhase \in {"detached", "enumerating"}
    BY <1>0, <2>1, PhaseOf, PhaseOfNext DEF Kinds
  <2>3. sessionClass = 0 /\ sessionClass' = 0
    BY <2>1 DEF sessionClass
  <2> QED
    BY <2>1, <2>2, <2>3 DEF Session!Next, Session!Close
<1> QED
  BY <1>2, <1>3, <1>4, <1>5, <1>6, <1>7, <1>8, <1>9, <1>10 DEF Next, Loop, USB_Task, Main

\* main() can rely on UsbSession.
THEOREM HostImplementsSession == Spec => SessionSpec
<1>1. Init => Session!Init
  BY DEF Init, Session!Init, sessionPhase, sessionClass, Detached, InState
<1> QED
  BY <1>1, SessionStep, HostInvariant, PTL DEF Spec, SessionSpec, Session!Spec

---------------------------------------------------------------------------
(***************************************************************************)
(* The rest of the types, in three parts that no step disturbs together.   *)
(* That usb_task_state takes no value between its states, but 2 and 5, is  *)
(* the part that says something: a bus event is added to what a probe has  *)
(* left, and that is never a state of the enumeration past the reset.      *)
(***************************************************************************)
BusTypes ==
  /\ busAddress \in Addresses \cup {0}
  /\ condet \in BOOLEAN /\ resetting \in BOOLEAN
  /\ mode \in {"full", "low"}
  /\ unseen \in BOOLEAN

LoopTypes ==
  /\ pc \in {"init", "initack", "irq", "ack", "usb", "main"} /\ served \in BOOLEAN
  /\ usb_task_state \in 1 .. 5 \cup 16 .. 21 \cup {ADDRESSING, CONFIGURING, RUNNING, ERROR}

ClockTypes ==
  /\ now \in 0 .. ClockPeriod - 1
  /\ usb_delay \in 0 .. ClockPeriod - 1 + SettleTime
  /\ device \in {0, 1, 2, 255}

LEMMA ProbeMode ==
  ASSUME Kinds, NEW speed \in {"full", "low"}
  PROVE  Probed(usb_task_state, speed).mode \in {"full", "low"}
<1>1. CASE bus \in Devices
  BY <1>1, HostAssumption DEF Probed, Other
<1>2. CASE bus = SE1
  BY <1>2, HostAssumption DEF Probed
<1>3. CASE bus = Unplugged
  BY <1>3, HostAssumption DEF Probed, Kinds
<1> QED
  BY <1>1, <1>2, <1>3 DEF Kinds

LEMMA BusTypesStep == IInv /\ BusTypes /\ [Next]_vars => BusTypes'
<1> SUFFICES ASSUME IInv, BusTypes, [Next]_vars PROVE BusTypes'
  OBVIOUS
<1>1. CASE UNCHANGED <<busAddress, condet, resetting, mode, unseen>>
  BY <1>1 DEF BusTypes
<1>2. CASE Replug \/ ResetDone
  BY <1>2 DEF Replug, ResetDone, BusTypes
<1>3. CASE InitProbe
  <2>1. mode' \in {"full", "low"} /\ unseen' \in BOOLEAN
    BY <1>3, ProbeMode DEF InitProbe, Busprobe, IInv
  <2>2. condet' \in BOOLEAN /\ resetting' \in BOOLEAN /\ busAddress' = busAddress
    BY <1>3 DEF InitProbe
  <2> QED
    BY <2>1, <2>2 DEF BusTypes
<1>4. CASE MaxIntHandler
  <2>1. mode' \in {"full", "low"} /\ unseen' \in BOOLEAN
    BY <1>4, ProbeMode DEF MaxIntHandler, Busprobe, IInv, BusTypes
  <2>2. UNCHANGED <<busAddress, condet, resetting>>
    BY <1>4 DEF MaxIntHandler
  <2> QED
    BY <2>1, <2>2 DEF BusTypes
<1>5. CASE InitAck \/ AckInterrupt
  BY <1>5 DEF InitAck, AckInterrupt, BusTypes
<1>6. CASE ResetDevice
  BY <1>6 DEF ResetDevice, BusTypes
<1>7. CASE GiveAddress
  BY <1>7 DEF GiveAddress, FreeAddresses, BusTypes
<1>8. CASE CleanUp \/ StartSettling \/ Settled \/ ResetComplete \/ SofSeen \/ GetDescriptor
  BY <1>1, <1>8 DEF CleanUp, StartSettling, Settled, ResetComplete, SofSeen, GetDescriptor, chip
<1>9. CASE NoInterrupt \/ NoAddress \/ Configure \/ Idle \/ Main \/ UNCHANGED vars
  BY <1>1, <1>9 DEF NoInterrupt, NoAddress, Configure, Idle, Main, Announce, NextPass, EndSession,
     chip, vars
<1> QED
  BY <1>2, <1>3, <1>4, <1>5, <1>6, <1>7, <1>8, <1>9 DEF Next, Loop, USB_Task

LEMMA LoopTypesStep == IInv /\ LoopTypes /\ [Next]_vars => LoopTypes'
<1> SUFFICES ASSUME IInv, LoopTypes, [Next]_vars PROVE LoopTypes'
  OBVIOUS
<1>1. CASE Replug \/ ResetDone \/ UNCHANGED vars
  BY <1>1 DEF Replug, ResetDone, vars, program, LoopTypes
<1>2. CASE InitProbe
  <2>1. usb_task_state' \in {1, 3, 4, 16, 19} /\ pc' = "initack" /\ served' = served
    BY <1>2, ProbeResult DEF InitProbe, Busprobe, IInv
  <2> QED
    BY <2>1 DEF LoopTypes
<1>3. CASE MaxIntHandler
  <2>1. PICK advance \in {0, 1} : Busprobe(usb_task_state, mode, advance)
    BY <1>3 DEF MaxIntHandler
  <2>2. usb_task_state' \in {1, 2, 3, 4, 5, 16, 17, 19, 20}
    BY <2>1, ProbeResult DEF Busprobe, IInv
  <2>3. pc' = "ack" /\ served' \in BOOLEAN
    BY <1>3 DEF MaxIntHandler, IInv, Kinds
  <2> QED
    BY <2>2, <2>3 DEF LoopTypes
<1>4. CASE InitAck \/ NoInterrupt \/ AckInterrupt \/ Idle
  BY <1>4 DEF InitAck, NoInterrupt, AckInterrupt, Idle, LoopTypes
<1>5. CASE CleanUp \/ StartSettling \/ Settled \/ ResetDevice \/ ResetComplete \/ SofSeen
  <2>1. usb_task_state' \in {3, 17, 18, 19, 20, 21}
    BY <1>5 DEF CleanUp, StartSettling, Settled, ResetDevice, ResetComplete, SofSeen
  <2>2. pc' = "main" /\ served' = served
    BY <1>5 DEF CleanUp, StartSettling, Settled, ResetDevice, ResetComplete, SofSeen, Task
  <2> QED
    BY <2>1, <2>2 DEF LoopTypes
<1>6. CASE GetDescriptor \/ NoAddress \/ Configure
  BY <1>6 DEF GetDescriptor, NoAddress, Configure, HIDMProbe, HIDKProbe, Probe, NoProbe, Task,
     LoopTypes
<1>7. CASE GiveAddress
  BY <1>7 DEF GiveAddress, LoopTypes
<1>8. CASE Main
  BY <1>8 DEF Main, Announce, NextPass, EndSession, LoopTypes
<1> QED
  BY <1>1, <1>2, <1>3, <1>4, <1>5, <1>6, <1>7, <1>8 DEF Next, Loop, USB_Task

LEMMA ClockTypesStep == IInv /\ ClockTypes /\ [Next]_vars => ClockTypes'
<1> SUFFICES ASSUME IInv, ClockTypes, [Next]_vars PROVE ClockTypes'
  OBVIOUS
<1>1. CASE UNCHANGED <<now, usb_delay, device>>
  BY <1>1 DEF ClockTypes
<1>2. CASE Replug \/ ResetDone \/ InitProbe \/ InitAck \/ NoInterrupt \/ MaxIntHandler
  BY <1>1, <1>2 DEF Replug, ResetDone, InitProbe, InitAck, NoInterrupt, MaxIntHandler, program,
     announcement
<1>3. CASE AckInterrupt \/ CleanUp \/ Settled \/ ResetDevice \/ ResetComplete \/ SofSeen
  BY <1>1, <1>3 DEF AckInterrupt, CleanUp, Settled, ResetDevice, ResetComplete, SofSeen,
     announcement
<1>4. CASE GetDescriptor \/ GiveAddress \/ NoAddress \/ Configure \/ Idle \/ UNCHANGED vars
  BY <1>1, <1>4 DEF GetDescriptor, GiveAddress, NoAddress, Configure, Idle, announcement, program,
     vars
<1>5. CASE StartSettling
  BY <1>5, HostAssumption DEF StartSettling, announcement, ClockTypes
<1>6. CASE Main
  <2>1. now' \in 0 .. ClockPeriod - 1 /\ usb_delay' = usb_delay
    <3>1. Time /\ usb_delay' = usb_delay
      BY <1>6 DEF Main, Announce, NextPass, EndSession
    <3> QED
      BY <3>1, HostAssumption DEF Time, ClockTypes
  <2>2. CASE Announce
    <3>1. device' \in {0, 1, 2, 255}
      BY <2>2 DEF Announce, IInv, Kinds
    <3> QED
      BY <2>1, <3>1 DEF ClockTypes
  <2>3. CASE NextPass \/ EndSession
    BY <2>1, <2>3 DEF NextPass, EndSession, announcement, ClockTypes
  <2> QED
    BY <1>6, <2>2, <2>3 DEF Main
<1> QED
  BY <1>2, <1>3, <1>4, <1>5, <1>6 DEF Next, Loop, USB_Task

\* The host's state is of the types of UsbHost; usb_task_state has only values of
\* transfer.h, and the two that a bus event makes of them.
THEOREM HostTypeOK == Spec => []TypeOK
<1>1. Init => BusTypes /\ LoopTypes /\ ClockTypes
  <2> SUFFICES ASSUME Init PROVE BusTypes /\ LoopTypes /\ ClockTypes
    OBVIOUS
  <2>1. BusTypes
    BY DEF Init, BusTypes
  <2>2. LoopTypes
    <3>1. served \in BOOLEAN
      BY Zenon DEF Init
    <3> QED
      BY <3>1 DEF Init, LoopTypes
  <2>3. ClockTypes
    BY HostAssumption DEF Init, ClockTypes
  <2> QED
    BY <2>1, <2>2, <2>3
<1>2. IInv /\ BusTypes /\ LoopTypes /\ ClockTypes => TypeOK
  BY DEF IInv, Kinds, BusTypes, LoopTypes, ClockTypes, TypeOK
<1> QED
  BY <1>1, <1>2, HostInvariant, BusTypesStep, LoopTypesStep, ClockTypesStep, PTL DEF Spec
=============================================================================
