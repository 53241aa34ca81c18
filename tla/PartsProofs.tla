---------------------------- MODULE PartsProofs ----------------------------
(***************************************************************************)
(* Theorems about the parts of the system that share no state with the     *)
(* others and need few words each: the display, the alarms of the system   *)
(* clock, the file descriptors and the SPI master.                         *)
(***************************************************************************)
EXTENDS VgaController, Alarm, FileTable, Spi, TLAPS

---------------------------------------------------------------------------
(*************************************************************************)
(* The display, for every raster whose vertical sync pulse comes after its *)
(* last visible line.                                                     *)
(*************************************************************************)

(***************************************************************************)
(* vs is a register: it shows where the line counter was one pixel ago.    *)
(* While it is low the beam is on a line of the pulse, or has just left    *)
(* one for the first pixel of the next, or the display has been reset.     *)
(***************************************************************************)
PulseLag ==
  vs = 0 =>
    \/ InVSync
    \/ hc = 0 /\ vc \in {0, VSyncFirst, VSyncSecond}

VgaInv == VgaTypeOK /\ PulseLag

LEMMA VgaInitEstablishes == VgaInit => VgaInv
  BY VgaAssumption DEF VgaInit, VgaInv, VgaTypeOK, PulseLag

LEMMA VgaStepPreserves == VgaInv /\ [VgaNext]_raster => VgaInv'
<1> SUFFICES ASSUME VgaInv, [VgaNext]_raster PROVE VgaInv'
  OBVIOUS
<1> USE VgaAssumption DEF VgaInv, VgaTypeOK, PulseLag
<1>1. CASE Reset
  BY <1>1 DEF Reset
<1>2. CASE ClkFall
  BY <1>2 DEF ClkFall, InVSync
<1>3. CASE ClkRise
  <2>1. VgaTypeOK'
    BY <1>3 DEF ClkRise, NextPixel, NextLine
  <2>2. ASSUME vs' = 0 PROVE InVSync
    BY <1>3, <2>2 DEF ClkRise
  <2>3. CASE hc = hpixels
    BY <1>3, <2>1, <2>2, <2>3 DEF ClkRise, NextPixel, NextLine, InVSync
  <2>4. CASE hc # hpixels
    BY <1>3, <2>1, <2>2, <2>4 DEF ClkRise, InVSync
  <2> QED
    BY <2>3, <2>4
<1>4. CASE UNCHANGED raster
  BY <1>4 DEF raster, InVSync
<1> QED
  BY <1>1, <1>2, <1>3, <1>4 DEF VgaNext

\* The sync register lags the line counter by a pixel (VGA_controller.sv:84-113).
THEOREM VgaInvariant == VgaSpec => []VgaInv
  BY VgaInitEstablishes, VgaStepPreserves, PTL DEF VgaSpec

\* The counters stay on the raster (VGA_controller.sv:62-82).
THEOREM VgaTypeCorrect == VgaSpec => []VgaTypeOK
<1>1. VgaInv => VgaTypeOK
  BY DEF VgaInv
<1> QED
  BY <1>1, VgaInvariant, PTL

\* The frame clock never rises while a visible pixel is drawn, but for the edge that
\* ends a reset (frame_clk of lab62.sv, VGA_controller.sv:98-113).
THEOREM VgaNoTearing == VgaSpec => NoTearing
<1>1. VgaInv /\ [VgaNext]_raster =>
        [vs = 0 /\ vs' = 1 => ~display \/ (hc = 0 /\ vc = 0)]_raster
  <2> SUFFICES ASSUME VgaInv, VgaNext, vs = 0, vs' = 1
               PROVE  ~display \/ (hc = 0 /\ vc = 0)
    BY DEF raster
  <2>1. ClkRise
    BY DEF VgaNext, Reset, ClkFall
  <2>2. ~InVSync
    BY <2>1 DEF ClkRise
  <2> QED
    BY <2>2, VgaAssumption DEF VgaInv, VgaTypeOK, PulseLag, display
<1> QED
  BY <1>1, VgaInvariant, PTL DEF VgaSpec, NoTearing

---------------------------------------------------------------------------
(*************************************************************************)
(* That the alarms of the system clock are a Countdown, for every width of *)
(* the clock and every longest period below it.                           *)
(*************************************************************************)

(***************************************************************************)
(* A registered alarm is due within the longest period.  Together with the *)
(* types this ties the flag to the two numbers: it is set exactly when the *)
(* time of the alarm is behind the clock.                                  *)
(***************************************************************************)
DueSoon == \A a \in registered : TicksLeft(a) \in 1 .. Longest

AlarmInv == AlarmTypeOK /\ DueSoon

LEMMA AlarmInitEstablishes == AlarmInit => AlarmInv /\ Count!Init
  BY AlarmAssumption
  DEF AlarmInit, AlarmInv, AlarmTypeOK, DueSoon, Words, Count!Init, Left, TicksLeft

---------------------------------------------------------------------------
\* Times that wrap

\* A sum of a time and a period is a time, and rolls over iff it is the smaller one.
LEMMA WrapFacts ==
  ASSUME NEW from \in Words, NEW ticks \in 1 .. Longest
  PROVE  /\ Wrap(from, ticks) \in Words
         /\ RollsOver(Wrap(from, ticks), from) \in {0, 1}
         /\ RollsOver(Wrap(from, ticks), from) = 1 => Wrap(from, ticks) + Ticks - from = ticks
         /\ RollsOver(Wrap(from, ticks), from) = 0 => Wrap(from, ticks) - from = ticks
  BY AlarmAssumption DEF Words, Wrap, RollsOver

LEMMA NowIsATime ==
  ASSUME AlarmInv
  PROVE  /\ Now \in Words
         /\ nticks = Ticks - 1 => Now = 0
         /\ nticks # Ticks - 1 => Now = nticks + 1
  BY AlarmAssumption DEF AlarmInv, AlarmTypeOK, Words, Now, Wrap

\* An alarm is called at the tick with which its time is up, and then its time is now.
LEMMA ExpiresWhenDue ==
  ASSUME AlarmInv, NEW a \in registered
  PROVE  /\ a \in Expired <=> TicksLeft(a) = 1
         /\ a \in Expired => time[a] = Now /\ Cleared(a) = 0
         /\ a \notin Expired /\ Cleared(a) = 1 => time[a] + Ticks - Now = TicksLeft(a) - 1
         /\ a \notin Expired /\ Cleared(a) = 0 => time[a] - Now = TicksLeft(a) - 1
         /\ Cleared(a) \in {0, 1}
<1>1. /\ time[a] \in Words /\ rollover[a] \in {0, 1} /\ nticks \in Words
      /\ TicksLeft(a) \in 1 .. Longest
  BY DEF AlarmInv, AlarmTypeOK, DueSoon
<1>2. TicksLeft(a) = IF rollover[a] = 1 THEN time[a] + Ticks - nticks ELSE time[a] - nticks
  BY DEF TicksLeft
<1>3. a \in Expired <=> time[a] <= Now /\ Cleared(a) = 0
  BY DEF Expired
<1> QED
  BY <1>1, <1>2, <1>3, NowIsATime, AlarmAssumption DEF Cleared, Words

---------------------------------------------------------------------------
\* Steps

LEMMA StartRefines ==
  ASSUME AlarmInv, NEW a \in Alarms, NEW ticks \in 0 .. Longest - 1,
         alt_alarm_start(a, ticks)
  PROVE  AlarmInv' /\ Count!Start(a)
<1> USE AlarmAssumption
<1>1. /\ a \notin registered
      /\ registered' = registered \cup {a}
      /\ time' = [time EXCEPT ![a] = Wrap(nticks, ticks + 1)]
      /\ rollover' = [rollover EXCEPT ![a] = RollsOver(time'[a], nticks)]
      /\ nticks' = nticks
  BY DEF alt_alarm_start
<1>2. nticks \in Words /\ ticks + 1 \in 1 .. Longest
  BY DEF AlarmInv, AlarmTypeOK
<1>3. time'[a] = Wrap(nticks, ticks + 1) /\ rollover'[a] = RollsOver(time'[a], nticks)
  BY <1>1 DEF AlarmInv, AlarmTypeOK
<1>4. AlarmTypeOK'
  BY <1>1, <1>2, <1>3, WrapFacts DEF AlarmInv, AlarmTypeOK
<1>5. TicksLeft(a)' = ticks + 1
  BY <1>1, <1>2, <1>3, WrapFacts DEF TicksLeft
<1>6. \A b \in Alarms \ {a} : TicksLeft(b)' = TicksLeft(b)
  BY <1>1 DEF TicksLeft, AlarmInv, AlarmTypeOK
<1>7. DueSoon'
  BY <1>1, <1>2, <1>5, <1>6 DEF DueSoon, AlarmInv, AlarmTypeOK
<1>8. Left' = [Left EXCEPT ![a] = ticks + 1]
  BY <1>5, <1>6 DEF Left
<1> QED
  BY <1>1, <1>4, <1>7, <1>8 DEF AlarmInv, Count!Start

LEMMA StopRefines ==
  ASSUME AlarmInv, NEW a \in Alarms, alt_alarm_stop(a)
  PROVE  AlarmInv' /\ Count!Stop(a)
<1>1. registered' = registered \ {a} /\ UNCHANGED <<nticks, time, rollover>>
  BY DEF alt_alarm_stop
<1>2. TicksLeft(a)' = 0 /\ \A b \in Alarms \ {a} : TicksLeft(b)' = TicksLeft(b)
  BY <1>1 DEF TicksLeft
<1>3. Left' = [Left EXCEPT ![a] = 0]
  BY <1>2 DEF Left
<1>4. AlarmInv'
  BY <1>1, <1>2 DEF AlarmInv, AlarmTypeOK, DueSoon
<1> QED
  BY <1>1, <1>3, <1>4 DEF Count!Stop

LEMMA TickRefines ==
  ASSUME AlarmInv, alt_tick
  PROVE  AlarmInv' /\ Count!Tick
<1> USE AlarmAssumption
<1>1. PICK period \in [Expired -> 0 .. Longest] :
        /\ nticks' = Now
        /\ registered' = registered \ {a \in Expired : period[a] = 0}
        /\ time' = [a \in Alarms |->
             IF a \in Expired /\ period[a] # 0 THEN Again(a, period[a]) ELSE time[a]]
        /\ rollover' = [a \in Alarms |->
             IF a \notin registered THEN rollover[a]
             ELSE IF a \in Expired /\ period[a] # 0 /\ RollsOver(Again(a, period[a]), Now) = 1 THEN 1
             ELSE Cleared(a)]
  BY DEF alt_tick
<1>2. Expired \subseteq registered /\ registered \subseteq Alarms
  BY DEF Expired, AlarmInv, AlarmTypeOK
<1>3. ASSUME NEW a \in Alarms
      PROVE  /\ time'[a] \in Words /\ rollover'[a] \in {0, 1}
             /\ a \in Expired => TicksLeft(a)' = period[a]
             /\ a \in registered \ Expired => TicksLeft(a)' = TicksLeft(a) - 1
             /\ a \notin registered => TicksLeft(a)' = 0
  <2>1. time[a] \in Words /\ rollover[a] \in {0, 1} /\ Now \in Words
    BY NowIsATime DEF AlarmInv, AlarmTypeOK
  <2>2. CASE a \notin registered
    BY <1>1, <1>2, <2>1, <2>2 DEF TicksLeft
  <2>3. CASE a \in registered \ Expired
    <3>1. a \in registered' /\ time'[a] = time[a] /\ rollover'[a] = Cleared(a)
      BY <1>1, <2>3
    <3> QED
      BY <1>1, <2>1, <2>3, <3>1, ExpiresWhenDue DEF TicksLeft
  <2>4. CASE a \in Expired /\ period[a] = 0
    <3>1. a \notin registered' /\ time'[a] = time[a] /\ rollover'[a] = Cleared(a)
      BY <1>1, <1>2, <2>4
    <3> QED
      BY <1>2, <2>1, <2>4, <3>1, ExpiresWhenDue DEF TicksLeft
  <2>5. CASE a \in Expired /\ period[a] # 0
    <3>1. /\ a \in registered' /\ time'[a] = Again(a, period[a])
          /\ rollover'[a] = IF RollsOver(Again(a, period[a]), Now) = 1 THEN 1 ELSE Cleared(a)
      BY <1>1, <1>2, <2>5
    <3>2. period[a] \in 1 .. Longest /\ Again(a, period[a]) = Wrap(Now, period[a])
          /\ Cleared(a) = 0
      BY <1>2, <2>5, ExpiresWhenDue DEF Again
    <3> QED
      BY <1>1, <1>2, <2>1, <2>5, <3>1, <3>2, WrapFacts DEF TicksLeft
  <2> QED
    BY <1>2, <2>2, <2>3, <2>4, <2>5
<1>4. AlarmTypeOK'
  <2>1. time' \in [Alarms -> Words] /\ rollover' \in [Alarms -> {0, 1}]
    BY <1>1, <1>3
  <2> QED
    BY <1>1, <1>2, <2>1, NowIsATime DEF AlarmTypeOK
<1>5. ASSUME NEW a \in registered' PROVE TicksLeft(a)' \in 1 .. Longest
  <2>1. a \in registered /\ a \in Alarms /\ (a \in Expired => period[a] # 0)
    BY <1>1, <1>2, <1>5
  <2>2. TicksLeft(a) \in 1 .. Longest /\ (a \notin Expired => TicksLeft(a) # 1)
    BY <2>1, ExpiresWhenDue DEF AlarmInv, DueSoon
  <2> QED
    BY <1>3, <2>1, <2>2
<1>6. Count!Due = Expired
  BY <1>2, ExpiresWhenDue DEF Count!Due, Left
<1>7. Left' = [a \in Alarms |->
         IF a \in Expired THEN period[a] ELSE IF a \in registered THEN Left[a] - 1 ELSE 0]
  BY <1>3 DEF Left
<1> QED
  BY <1>1, <1>4, <1>5, <1>6, <1>7 DEF AlarmInv, DueSoon, Count!Tick

LEMMA StepRefines == AlarmInv /\ [AlarmNext]_clock => AlarmInv' /\ [Count!Next]_(Count!countdown)
<1> SUFFICES ASSUME AlarmInv, [AlarmNext]_clock
             PROVE  AlarmInv' /\ [Count!Next]_(Count!countdown)
  OBVIOUS
<1>1. CASE alt_tick
  BY <1>1, TickRefines DEF Count!Next
<1>2. ASSUME NEW a \in Alarms, NEW ticks \in 0 .. Longest - 1, alt_alarm_start(a, ticks)
      PROVE  AlarmInv' /\ Count!Next
  BY <1>2, StartRefines DEF Count!Next
<1>3. ASSUME NEW a \in Alarms, alt_alarm_stop(a) PROVE AlarmInv' /\ Count!Next
  BY <1>3, StopRefines DEF Count!Next
<1>4. CASE UNCHANGED clock
  <2>1. UNCHANGED Left
    BY <1>4 DEF clock, Left, TicksLeft
  <2> QED
    BY <1>4, <2>1 DEF clock, AlarmInv, AlarmTypeOK, DueSoon, TicksLeft, Count!countdown
<1> QED
  BY <1>1, <1>2, <1>3, <1>4 DEF AlarmNext

\* The flag says which alarms are beyond the wrap of the clock (alt_tick.c:98-135).
THEOREM AlarmInvariant == AlarmSpec => []AlarmInv
<1>1. AlarmInit => AlarmInv
  BY AlarmInitEstablishes
<1>2. AlarmInv /\ [AlarmNext]_clock => AlarmInv'
  BY StepRefines
<1> QED
  BY <1>1, <1>2, PTL DEF AlarmSpec

\* Every alarm is called exactly when its time is up (alt_tick.c, alt_alarm_start.c).
THEOREM AlarmFiresOnTime == AlarmSpec => FiresOnTime
<1>1. AlarmInit => Count!Init
  BY AlarmInitEstablishes
<1>2. AlarmInv /\ [AlarmNext]_clock => [Count!Next]_(Count!countdown)
  BY StepRefines
<1> QED
  BY <1>1, <1>2, AlarmInvariant, PTL DEF AlarmSpec, FiresOnTime, Count!Spec

---------------------------------------------------------------------------
(*************************************************************************)
(* The file descriptors, for every set of devices and every size of the   *)
(* table.                                                                 *)
(*************************************************************************)

(***************************************************************************)
(* What is open is a standard stream or held by the program; what is held  *)
(* lies above the streams and below the high-water mark, so the search for *)
(* a lock, which ends there, misses no descriptor; and a stream that has   *)
(* the mark of a device, without which it cannot be locked, was redirected *)
(* by way of a descriptor above the streams.                               *)
(***************************************************************************)
Unmarked == \A fd \in Stdio : alt_fd_list[fd].fd_flags \subseteq {"NONBLOCK"}

FilesInv ==
  /\ FilesTypeOK
  /\ OpenIsHeld
  /\ Unmarked \/ alt_max_fd > 2

LEMMA FilesInitEstablishes == FilesInit => FilesInv
  BY FileTableAssumption
  DEF FilesInit, FilesInv, FilesTypeOK, OpenIsHeld, Unmarked, Fds, Stdio, Closed, Flags

\* Where a descriptor is found for an open, it is above the streams.
LEMMA AllocatedAboveStreams ==
  ASSUME FilesInv, NEW fd \in Fds, Allocates(fd)
  PROVE  /\ fd \in 3 .. MaxFd - 1 /\ fd \notin held
         /\ alt_max_fd' \in 3 .. MaxFd - 1
         /\ alt_max_fd' >= fd /\ alt_max_fd' >= alt_max_fd
  BY FileTableAssumption
  DEF FilesInv, FilesTypeOK, OpenIsHeld, Allocates, HighWater, Fds, Stdio

LEMMA FilesStepPreserves == FilesInv /\ [FilesNext]_files => FilesInv'
<1> SUFFICES ASSUME FilesInv, [FilesNext]_files PROVE FilesInv'
  OBVIOUS
<1> USE FileTableAssumption
<1>1. CASE Redirect
  <2>1. CASE StdDevice \in alt_dev_list
    <3>1. PICK fd \in Fds :
            /\ Allocates(fd)
            /\ alt_fd_list' =
                 LET opened == Allocated(fd, StdDevice, {})
                 IN  ReleasedFd([opened EXCEPT ![NextStream] = opened[fd]], fd)
      BY <1>1, <2>1 DEF Redirect
    <3>2. /\ fd \in 3 .. MaxFd - 1 /\ fd \notin held
          /\ alt_max_fd' \in 3 .. MaxFd - 1 /\ alt_max_fd' >= alt_max_fd
      BY <3>1, AllocatedAboveStreams
    <3>3. NextStream \in Stdio
      BY DEF NextStream, Stdio
    <3>4. alt_fd_list' =
            [alt_fd_list EXCEPT ![fd] = Closed, ![NextStream] = [dev |-> StdDevice, fd_flags |-> {"DEV"}]]
      BY <3>1, <3>2, <3>3 DEF Allocated, ReleasedFd, FilesInv, FilesTypeOK, Fds, Stdio, Closed
    <3>5. alt_fd_list[fd].dev = NoDevice
      BY <3>1 DEF Allocates
    <3>6. UNCHANGED <<alt_dev_list, held>> /\ redirected' \in 0 .. 3
      BY <1>1 DEF Redirect, FilesInv, FilesTypeOK
    <3>7. alt_fd_list' \in [Fds -> [dev : Devices \cup {NoDevice}, fd_flags : SUBSET Flags]]
      BY <3>4 DEF FilesInv, FilesTypeOK, Closed, Flags
    <3>8. FilesTypeOK'
      BY <3>2, <3>6, <3>7 DEF FilesInv, FilesTypeOK
    <3>9. \A i \in Fds : alt_fd_list'[i].dev # NoDevice <=> alt_fd_list[i].dev # NoDevice
      <4>1. alt_fd_list[NextStream].dev # NoDevice
        BY <3>3 DEF FilesInv, OpenIsHeld, Fds, Stdio
      <4> QED
        BY <3>3, <3>4, <3>5, <4>1 DEF FilesInv, FilesTypeOK, Closed
    <3>10. OpenIsHeld'
      BY <3>6, <3>9 DEF FilesInv, OpenIsHeld
    <3> QED
      BY <3>2, <3>8, <3>10 DEF FilesInv
  <2>2. CASE StdDevice \notin alt_dev_list
    BY <1>1, <2>2 DEF Redirect, FilesInv, FilesTypeOK, OpenIsHeld, Unmarked
  <2> QED
    BY <2>1, <2>2
<1>2. ASSUME NEW dev \in Devices, Register(dev) PROVE FilesInv'
  BY <1>2 DEF Register, FilesInv, FilesTypeOK, OpenIsHeld, Unmarked
<1>3. ASSUME NEW dev \in Devices, NEW nonblock \in SUBSET {"NONBLOCK"}, Open(dev, nonblock)
      PROVE  FilesInv'
  <2>1. PICK fd \in Fds :
          /\ Allocates(fd)
          /\ alt_fd_list' = Allocated(fd, dev, nonblock)
          /\ held' = held \cup {fd}
    BY <1>3 DEF Open
  <2>2. /\ fd \in 3 .. MaxFd - 1
        /\ alt_max_fd' \in 3 .. MaxFd - 1 /\ alt_max_fd' >= fd /\ alt_max_fd' >= alt_max_fd
    BY <2>1, AllocatedAboveStreams
  <2>3. alt_fd_list' = [alt_fd_list EXCEPT ![fd] = [dev |-> dev, fd_flags |-> nonblock \cup {"DEV"}]]
    BY <2>1 DEF Allocated
  <2>4. UNCHANGED <<alt_dev_list, redirected>>
    BY <1>3 DEF Open
  <2>5. FilesTypeOK'
    BY <2>1, <2>2, <2>3, <2>4 DEF FilesInv, FilesTypeOK, Flags
  <2>6. OpenIsHeld'
    BY <2>1, <2>3 DEF FilesInv, FilesTypeOK, OpenIsHeld
  <2> QED
    BY <2>2, <2>5, <2>6 DEF FilesInv
<1>4. ASSUME NEW dev \in Devices, NEW nonblock \in SUBSET {"NONBLOCK"}, OpenDenied(dev, nonblock)
      PROVE  FilesInv'
  <2>1. PICK fd \in Fds :
          /\ Allocates(fd)
          /\ alt_fd_list' = ReleasedFd(Allocated(fd, dev, nonblock), fd)
    BY <1>4 DEF OpenDenied
  <2>2. /\ fd \in 3 .. MaxFd - 1 /\ fd \notin held
        /\ alt_max_fd' \in 3 .. MaxFd - 1 /\ alt_max_fd' >= alt_max_fd
    BY <2>1, AllocatedAboveStreams
  <2>3. alt_fd_list' = [alt_fd_list EXCEPT ![fd] = Closed]
    <3>1. fd > 2
      BY <2>2
    <3>2. alt_fd_list' = [Allocated(fd, dev, nonblock) EXCEPT ![fd] = Closed]
      BY <2>1, <3>1, SMT DEF ReleasedFd
    <3> QED
      BY <3>2 DEF Allocated, FilesInv, FilesTypeOK
  <2>4. alt_fd_list[fd].dev = NoDevice
    BY <2>1 DEF Allocates
  <2> QED
    BY <1>4, <2>2, <2>3, <2>4
    DEF OpenDenied, FilesInv, FilesTypeOK, OpenIsHeld, Unmarked, Closed, Flags, Fds, Stdio
<1>5. ASSUME NEW fd \in Fds, CloseFd(fd) PROVE FilesInv'
  BY <1>5
  DEF CloseFd, Usable, ReleasedFd, FilesInv, FilesTypeOK, OpenIsHeld, Unmarked, Closed, Flags, Fds, Stdio
<1>6. ASSUME NEW fd \in Fds, NEW flags \in SUBSET Flags,
             SetFlags(fd, flags), Usable(fd),
             \/ "DEV" \in alt_fd_list[fd].fd_flags
             \/ flags \subseteq alt_fd_list[fd].fd_flags \cup {"NONBLOCK"}
      PROVE  FilesInv'
  <2>1. /\ alt_fd_list' = [alt_fd_list EXCEPT ![fd].fd_flags = flags]
        /\ UNCHANGED <<alt_dev_list, alt_max_fd, redirected, held>>
    BY <1>6 DEF SetFlags
  <2>2. alt_fd_list[fd] \in [dev : Devices \cup {NoDevice}, fd_flags : SUBSET Flags]
    BY DEF FilesInv, FilesTypeOK
  <2>3. alt_fd_list'[fd] = [dev |-> alt_fd_list[fd].dev, fd_flags |-> flags]
    BY <2>1, <2>2 DEF FilesInv, FilesTypeOK
  <2>4. FilesTypeOK'
    BY <2>1, <2>2, <2>3 DEF FilesInv, FilesTypeOK
  <2>5. OpenIsHeld'
    BY <2>1, <2>3 DEF FilesInv, FilesTypeOK, OpenIsHeld
  <2>6. Unmarked' \/ alt_max_fd' > 2
    BY <1>6, <2>1, <2>3 DEF Usable, FilesInv, FilesTypeOK, Unmarked, Fds, Stdio
  <2> QED
    BY <2>4, <2>5, <2>6 DEF FilesInv
<1>7. ASSUME NEW fd \in Fds, Lock(fd) PROVE FilesInv'
  BY <1>7, <1>6 DEF Lock, FilesInv, FilesTypeOK, Flags
<1>8. ASSUME NEW fd \in Fds, Unlock(fd) PROVE FilesInv'
  BY <1>8, <1>6 DEF Unlock, FilesInv, FilesTypeOK, Flags
<1>9. ASSUME NEW fd \in Fds, NEW nonblock \in SUBSET {"NONBLOCK"}, SetBlocking(fd, nonblock)
      PROVE  FilesInv'
  BY <1>9, <1>6 DEF SetBlocking, FilesInv, FilesTypeOK, Flags
<1>10. CASE UNCHANGED files
  BY <1>10 DEF files, FilesInv, FilesTypeOK, OpenIsHeld, Unmarked
<1> QED
  BY <1>1, <1>2, <1>3, <1>4, <1>5, <1>7, <1>8, <1>9, <1>10 DEF FilesNext

\* An open succeeds only when no other descriptor of its device is locked: the
\* search ends at the high-water mark, and no open descriptor is above it.
LEMMA StepRespectsLock ==
  ASSUME FilesInv, [FilesNext]_files,
         NEW fd \in held' \ held, NEW i \in Fds \ {fd},
         alt_fd_list[i].dev = alt_fd_list'[fd].dev
  PROVE  "EXCL" \notin alt_fd_list[i].fd_flags
<1> USE FileTableAssumption
<1>1. PICK dev \in Devices, nonblock \in SUBSET {"NONBLOCK"} : Open(dev, nonblock)
  BY DEF FilesNext, Redirect, Register, OpenDenied, CloseFd, Lock, Unlock, SetBlocking, SetFlags, files
<1>2. PICK new \in Fds :
        /\ Allocates(new) /\ ~Locked(new, dev)
        /\ alt_fd_list' = Allocated(new, dev, nonblock)
        /\ held' = held \cup {new}
  BY <1>1 DEF Open
<1>3. fd = new
  BY <1>2
<1>4. alt_fd_list'[fd].dev = dev
  BY <1>2, <1>3 DEF Allocated, FilesInv, FilesTypeOK
<1>5. /\ alt_max_fd' \in 3 .. MaxFd - 1 /\ alt_max_fd' >= alt_max_fd
  BY <1>2, AllocatedAboveStreams
<1>6. i \in Stdio \cup held
  BY <1>4 DEF FilesInv, OpenIsHeld
<1>7. i \in 0 .. alt_max_fd'
  BY <1>5, <1>6 DEF FilesInv, FilesTypeOK, Stdio
<1> QED
  BY <1>2, <1>3, <1>4, <1>7 DEF Locked

\* The invariant of the table holds of every state (alt_open.c, alt_close.c, alt_fcntl.c).
THEOREM FilesInvariant == FilesSpec => []FilesInv
  BY FilesInitEstablishes, FilesStepPreserves, PTL DEF FilesSpec

\* The table has its type, and nothing the program holds is above the mark (alt_get_fd.c).
THEOREM FilesTypeCorrect == FilesSpec => []FilesTypeOK
<1>1. FilesInv => FilesTypeOK
  BY DEF FilesInv
<1> QED
  BY <1>1, FilesInvariant, PTL

\* The table and the program agree on what is open (alt_open.c, alt_close.c).
THEOREM FilesOpenIsHeld == FilesSpec => []OpenIsHeld
<1>1. FilesInv => OpenIsHeld
  BY DEF FilesInv
<1> QED
  BY <1>1, FilesInvariant, PTL

\* A locked device is not opened a second time (alt_file_locked of alt_open.c).
THEOREM FilesLockKeepsOthersOut == FilesSpec => LockKeepsOthersOut
<1>1. FilesInv /\ [FilesNext]_files =>
        [\A fd \in held' \ held : \A i \in Fds \ {fd} :
           alt_fd_list[i].dev = alt_fd_list'[fd].dev
             => "EXCL" \notin alt_fd_list[i].fd_flags]_files
  BY StepRespectsLock
<1> QED
  BY <1>1, FilesInvariant, PTL DEF FilesSpec, LockKeepsOthersOut

---------------------------------------------------------------------------
(*************************************************************************)
(* A command of the SPI master exchanges exactly what it was asked to, for *)
(* any lengths.  The credits keep at most one byte under way, between the *)
(* register it is written to and the one its answer is read from, so that *)
(* no answer is overwritten before the program has taken it.              *)
(*************************************************************************)

\* The n-th byte the chip should get.
Byte(n) == IF n <= WriteLength THEN n ELSE 0

\* The bytes the program has read of this exchange, thrown away or kept.
Taken == spi.ignored + Len(read_data)

States == {"idle", "poll", "send", "receive", "finish"}

SpiRecords ==
  [at : States, request : Requests \cup {<<0, 0>>},
   sent : Nat, ignored : Nat, credits : Int, trdy : BOOLEAN, rrdy : BOOLEAN]

SpiTypes == spi \in SpiRecords /\ read_data \in Seq(Int) /\ exchanged \in Seq(Int)

\* Either the core is at rest, or one byte is somewhere in it.
AtRest ==
  /\ spi.sent = Taken
  /\ txdata = Empty /\ shift = Empty /\ (spi.at = "idle" \/ rxdata = Empty)
  /\ Len(exchanged) = Taken

InCore ==
  /\ spi.sent = Taken + 1 /\ spi.at \in {"poll", "send", "receive"}
  /\ \/ /\ txdata = Byte(spi.sent) /\ shift = Empty /\ rxdata = Empty
        /\ Len(exchanged) = Taken
     \/ /\ txdata = Empty /\ shift = Byte(spi.sent) /\ rxdata = Empty
        /\ Len(exchanged) = Taken
     \/ /\ txdata = Empty /\ shift = Empty /\ rxdata = spi.sent
        /\ Len(exchanged) = Taken + 1

\* There is a credit if nothing is under way.
OneUnderWay ==
  /\ AtRest \/ InCore
  /\ spi.at # "idle" => spi.credits = 1 + Taken - spi.sent

\* What has been taken is all of the exchange just when the loop is over.
LoopCounts ==
  /\ spi.ignored <= WriteLength /\ (spi.ignored < WriteLength => read_data = <<>>)
  /\ IF spi.at \in {"idle", "finish"} THEN Taken = WriteLength + ReadLength
                                      ELSE Taken < WriteLength + ReadLength

\* The status that was read is not outdated in a way that matters.
StatusHolds == spi.at \in {"send", "receive"} /\ spi.rrdy => rxdata # Empty

InOrder ==
  /\ \A i \in 1 .. Len(read_data) : read_data[i] = WriteLength + i
  /\ \A i \in 1 .. Len(exchanged) : exchanged[i] = Byte(i)

SpiInv == SpiTypes /\ OneUnderWay /\ LoopCounts /\ StatusHolds /\ InOrder

---------------------------------------------------------------------------

LEMMA LengthsAreNat ==
  SpiTypes => /\ WriteLength \in Nat /\ ReadLength \in Nat
              /\ Taken \in Nat /\ spi.sent \in Nat /\ spi.ignored \in Nat
<1>1. \A q \in Requests : q[1] \in Nat /\ q[2] \in Nat
  BY SpiAssumption
<1>2. <<0, 0>>[1] = 0 /\ <<0, 0>>[2] = 0
  OBVIOUS
<1>3. \A q \in Requests \cup {<<0, 0>>} : q[1] \in Nat /\ q[2] \in Nat
  <2> SUFFICES ASSUME NEW q \in Requests \cup {<<0, 0>>} PROVE q[1] \in Nat /\ q[2] \in Nat
    OBVIOUS
  <2>1. CASE q \in Requests
    BY <1>1, <2>1
  <2>2. CASE q = <<0, 0>>
    BY <2>2
  <2> QED
    BY <2>1, <2>2
<1> QED
  BY <1>3 DEF SpiTypes, SpiRecords, WriteLength, ReadLength, Taken

\* The record of the program, one field at a time.
LEMMA SpiMoves ==
  ASSUME NEW c \in SpiRecords
  PROVE  /\ \A at \in States : [c EXCEPT !.at = at] \in SpiRecords
         /\ \A n \in Nat : [c EXCEPT !.sent = n] \in SpiRecords
         /\ \A n \in Nat : [c EXCEPT !.ignored = n] \in SpiRecords
         /\ \A n \in Int : [c EXCEPT !.credits = n] \in SpiRecords
         /\ \A b \in BOOLEAN : [c EXCEPT !.trdy = b] \in SpiRecords
         /\ \A b \in BOOLEAN : [c EXCEPT !.rrdy = b] \in SpiRecords
<1>1. \A at \in States : [c EXCEPT !.at = at] \in SpiRecords
  BY DEF SpiRecords
<1>2. \A n \in Nat : [c EXCEPT !.sent = n] \in SpiRecords
  BY DEF SpiRecords
<1>3. \A n \in Nat : [c EXCEPT !.ignored = n] \in SpiRecords
  BY DEF SpiRecords
<1>4. \A n \in Int : [c EXCEPT !.credits = n] \in SpiRecords
  BY DEF SpiRecords
<1>5. \A b \in BOOLEAN : [c EXCEPT !.trdy = b] \in SpiRecords
  BY DEF SpiRecords
<1>6. \A b \in BOOLEAN : [c EXCEPT !.rrdy = b] \in SpiRecords
  BY DEF SpiRecords
<1> QED
  BY <1>1, <1>2, <1>3, <1>4, <1>5, <1>6

LEMMA SpiInitEstablishes == SpiInit => SpiInv
<1> SUFFICES ASSUME SpiInit PROVE SpiInv
  OBVIOUS
<1>1. SpiTypes
  BY DEF SpiInit, SpiTypes, SpiRecords, States, Resting
<1>2. OneUnderWay /\ LoopCounts /\ StatusHolds /\ InOrder
  BY DEF SpiInit, Resting, OneUnderWay, AtRest, Taken, LoopCounts, StatusHolds, InOrder,
     WriteLength, ReadLength
<1> QED
  BY <1>1, <1>2 DEF SpiInv

LEMMA CommandKeeps ==
  ASSUME SpiInv, NEW request \in Requests, Command(request)
  PROVE  SpiInv'
<1>1. /\ spi' = [at |-> "poll", request |-> request, sent |-> 0, ignored |-> 0, credits |-> 1,
                 trdy |-> FALSE, rrdy |-> FALSE]
      /\ rxdata' = Empty /\ read_data' = <<>> /\ exchanged' = <<>>
      /\ spi.at = "idle" /\ UNCHANGED <<txdata, shift>>
  BY DEF Command, Resting, Discarded
<1>2. txdata = Empty /\ shift = Empty
  BY <1>1 DEF SpiInv, OneUnderWay, AtRest, InCore
<1>3. SpiTypes'
  BY <1>1 DEF SpiTypes, SpiRecords, States
<1>4. Taken' = 0 /\ WriteLength' \in Nat \ {0} /\ ReadLength' \in Nat
  BY <1>1, SpiAssumption DEF Taken, WriteLength, ReadLength
<1>5. spi'.at = "poll" /\ spi'.sent = 0 /\ spi'.ignored = 0 /\ spi'.credits = 1
  BY <1>1
<1>6. OneUnderWay'
  BY <1>1, <1>2, <1>4, <1>5 DEF OneUnderWay, AtRest
<1>7. LoopCounts'
  <2>1. spi'.at \notin {"idle", "finish"} /\ spi'.ignored <= WriteLength'
    BY <1>4, <1>5
  <2>2. Taken' < WriteLength' + ReadLength'
    BY <1>1, SpiAssumption DEF Taken, WriteLength, ReadLength
  <2>3. read_data' = <<>>
    BY <1>1
  <2> QED
    BY <2>1, <2>2, <2>3 DEF LoopCounts
<1>8. StatusHolds'
  BY <1>5 DEF StatusHolds
<1>9. InOrder'
  BY <1>1 DEF InOrder
<1> QED
  BY <1>3, <1>6, <1>7, <1>8, <1>9 DEF SpiInv

\* A step of the program that sends and takes nothing.
LEMMA QuietSpi ==
  ASSUME SpiInv, UNCHANGED <<read_data, spiCore>>, SpiTypes',
         UNCHANGED <<spi.request, spi.sent, spi.ignored, spi.credits>>,
         spi.at \in {"poll", "send", "receive"}, spi'.at \in {"poll", "send", "receive"},
         spi'.at \in {"send", "receive"} /\ spi'.rrdy => rxdata # Empty
  PROVE  SpiInv'
  BY DEF SpiInv, OneUnderWay, AtRest, InCore, LoopCounts, StatusHolds, InOrder, Taken, Byte,
     WriteLength, ReadLength, spiCore

LEMMA SendByteKeeps == SpiInv /\ SendByte => SpiInv'
<1> SUFFICES ASSUME SpiInv, SendByte PROVE SpiInv'
  OBVIOUS
<1>0. /\ WriteLength \in Nat /\ ReadLength \in Nat
      /\ Taken \in Nat /\ spi.sent \in Nat /\ spi.ignored \in Nat
  BY LengthsAreNat DEF SpiInv
<1>1. spi.at = "send" /\ spi.credits > 0 /\ UNCHANGED <<read_data, shift, rxdata, exchanged>>
  BY DEF SendByte, MaySend
<1>2. AtRest /\ spi.credits = 1 /\ spi.sent < WriteLength + ReadLength
  BY <1>0, <1>1 DEF SpiInv, OneUnderWay, InCore, AtRest, LoopCounts
<1>3. /\ spi' = [spi EXCEPT !.at = "receive", !.sent = spi.sent + 1, !.credits = 0]
      /\ txdata' = IF spi.sent < WriteLength THEN spi.sent + 1 ELSE 0
  BY <1>2 DEF SendByte
<1>4. /\ spi'.at = "receive" /\ spi'.sent = spi.sent + 1 /\ spi'.credits = 0
      /\ UNCHANGED <<spi.request, spi.ignored, spi.rrdy>>
  BY <1>0, <1>1, <1>3 DEF SpiInv, SpiTypes, SpiRecords
<1>10. SpiTypes'
  <2> DEFINE s1 == [spi EXCEPT !.at = "receive"]
             s2 == [s1 EXCEPT !.sent = spi.sent + 1]
             s3 == [s2 EXCEPT !.credits = 0]
  <2>1. s1 \in SpiRecords
    BY SpiMoves DEF SpiInv, SpiTypes, States
  <2> HIDE DEF s1
  <2>2. s2 \in SpiRecords
    BY <1>0, <2>1, SpiMoves
  <2> HIDE DEF s2
  <2>3. s3 \in SpiRecords
    BY <2>2, SpiMoves
  <2>4. spi' = s3
    BY <1>3 DEF s1, s2
  <2> QED
    BY <1>1, <2>3, <2>4 DEF SpiInv, SpiTypes
<1>5. UNCHANGED <<Taken, WriteLength, ReadLength>>
  BY <1>1, <1>4 DEF Taken, WriteLength, ReadLength
<1>6. txdata' = Byte(spi.sent)'
  BY <1>0, <1>3, <1>4, <1>5 DEF Byte
<1>7. InCore'
  BY <1>0, <1>1, <1>2, <1>4, <1>5, <1>6 DEF InCore, AtRest
<1>8. OneUnderWay'
  BY <1>0, <1>2, <1>4, <1>5, <1>7 DEF OneUnderWay, AtRest
<1>9. LoopCounts' /\ StatusHolds' /\ InOrder'
  BY <1>1, <1>4, <1>5 DEF SpiInv, LoopCounts, StatusHolds, InOrder, Byte
<1> QED
  BY <1>10, <1>8, <1>9 DEF SpiInv

LEMMA ReceiveByteKeeps == SpiInv /\ ReceiveByte => SpiInv'
<1> SUFFICES ASSUME SpiInv, ReceiveByte PROVE SpiInv'
  OBVIOUS
<1>0. /\ WriteLength \in Nat /\ ReadLength \in Nat
      /\ Taken \in Nat /\ spi.sent \in Nat /\ spi.ignored \in Nat
      /\ read_data \in Seq(Int) /\ exchanged \in Seq(Int)
  BY LengthsAreNat DEF SpiInv, SpiTypes
<1>1. spi.at = "receive" /\ rxdata # Empty /\ UNCHANGED <<txdata, shift, exchanged>>
  BY DEF ReceiveByte, SpiInv, StatusHolds
<1>2. /\ InCore /\ txdata = Empty /\ shift = Empty /\ rxdata = Taken + 1
      /\ spi.sent = Taken + 1 /\ spi.credits = 0 /\ Len(exchanged) = Taken + 1
      /\ Taken < WriteLength + ReadLength
  BY <1>0, <1>1 DEF SpiInv, OneUnderWay, InCore, AtRest, LoopCounts
<1>3. rxdata' = Empty
  BY DEF ReceiveByte
<1> DEFINE over == spi'.ignored = WriteLength /\ Len(read_data') = ReadLength
<1>4. /\ read_data' = (IF spi.ignored < WriteLength THEN read_data ELSE Append(read_data, rxdata))
      /\ spi' = [spi EXCEPT
           !.at = spi'.at, !.ignored = IF spi.ignored < WriteLength THEN spi.ignored + 1 ELSE WriteLength,
           !.credits = 1]
      /\ spi'.at \in {"poll", "finish"}
      /\ spi'.at = "finish" <=> over
  BY <1>2 DEF ReceiveByte, Credited, SpiInv, SpiTypes, SpiRecords
<1>5. /\ spi'.credits = 1 /\ UNCHANGED <<spi.request, spi.sent, spi.rrdy, spi.trdy>>
      /\ spi'.ignored = IF spi.ignored < WriteLength THEN spi.ignored + 1 ELSE WriteLength
  BY <1>4 DEF SpiInv, SpiTypes, SpiRecords
<1>6. UNCHANGED <<WriteLength, ReadLength>> /\ spi'.ignored \in Nat /\ spi'.ignored <= WriteLength
  BY <1>0, <1>5 DEF WriteLength, ReadLength, SpiInv, LoopCounts
<1>7. spi.ignored < WriteLength \/ spi.ignored = WriteLength
  BY <1>0 DEF SpiInv, LoopCounts
<1>8. LoopCounts' /\ (\A i \in 1 .. Len(read_data') : read_data'[i] = WriteLength + i)
      /\ Taken' = Taken + 1 /\ read_data' \in Seq(Int) /\ (over <=> Taken' = WriteLength + ReadLength)
  <2>1. CASE spi.ignored < WriteLength
    <3>1. read_data' = <<>> /\ read_data = <<>> /\ spi'.ignored = spi.ignored + 1
      BY <1>4, <1>5, <2>1 DEF SpiInv, LoopCounts
    <3>2. Taken' = Taken + 1 /\ Taken = spi.ignored /\ Taken' = spi'.ignored
      BY <1>0, <3>1 DEF Taken
    <3>3. over <=> Taken' = WriteLength + ReadLength
      BY <1>0, <1>2, <1>6, <3>1, <3>2
    <3>4. LoopCounts'
      BY <1>0, <1>2, <1>4, <1>6, <3>1, <3>2, <3>3 DEF LoopCounts
    <3> QED
      BY <3>1, <3>2, <3>3, <3>4
  <2>2. CASE spi.ignored = WriteLength
    <3>1. read_data' = Append(read_data, rxdata) /\ spi'.ignored = WriteLength
      BY <1>0, <1>4, <1>5, <2>2
    <3>2. Len(read_data') = Len(read_data) + 1 /\ Taken' = Taken + 1 /\ read_data' \in Seq(Int)
      BY <1>0, <1>2, <2>2, <3>1 DEF Taken
    <3>3. over <=> Taken' = WriteLength + ReadLength
      BY <1>0, <3>1, <3>2 DEF Taken
    <3>4. LoopCounts'
      BY <1>0, <1>2, <1>4, <1>6, <3>1, <3>2, <3>3 DEF LoopCounts
    <3>5. rxdata = WriteLength + Len(read_data) + 1
      BY <1>0, <1>2, <2>2 DEF Taken
    <3>6. \A i \in 1 .. Len(read_data') : read_data'[i] = WriteLength + i
      <4> SUFFICES ASSUME NEW i \in 1 .. Len(read_data') PROVE read_data'[i] = WriteLength + i
        OBVIOUS
      <4>1. CASE i = Len(read_data) + 1
        BY <1>0, <3>1, <3>5, <4>1
      <4>2. CASE i # Len(read_data) + 1
        <5>1. i \in 1 .. Len(read_data)
          BY <1>0, <3>2, <4>2
        <5>2. read_data'[i] = read_data[i]
          BY <1>0, <3>1, <5>1
        <5> QED
          BY <5>1, <5>2 DEF SpiInv, InOrder
      <4> QED
        BY <4>1, <4>2
    <3> QED
      BY <3>2, <3>3, <3>4, <3>6
  <2> QED
    BY <1>7, <2>1, <2>2
<1>9. SpiTypes'
  <2> DEFINE s1 == [spi EXCEPT !.at = spi'.at]
             s2 == [s1 EXCEPT !.ignored = spi'.ignored]
             s3 == [s2 EXCEPT !.credits = 1]
  <2>1. s1 \in SpiRecords
    BY <1>4, SpiMoves DEF SpiInv, SpiTypes, States
  <2> HIDE DEF s1
  <2>2. s2 \in SpiRecords
    BY <1>6, <2>1, SpiMoves
  <2> HIDE DEF s2
  <2>3. s3 \in SpiRecords
    BY <2>2, SpiMoves
  <2>4. spi' = s3
    BY <1>4, <1>5 DEF s1, s2
  <2> QED
    BY <1>1, <1>8, <2>3, <2>4 DEF SpiInv, SpiTypes
<1>10. OneUnderWay'
  BY <1>0, <1>1, <1>2, <1>3, <1>5, <1>8 DEF OneUnderWay, AtRest
<1>11. StatusHolds'
  BY <1>4 DEF StatusHolds
<1>12. InOrder'
  BY <1>1, <1>6, <1>8 DEF SpiInv, InOrder, Byte
<1> QED
  BY <1>8, <1>9, <1>10, <1>11, <1>12 DEF SpiInv

\* The byte moves on in the core, and is exchanged.
LEMMA LoadKeeps == SpiInv /\ Load => SpiInv'
<1> SUFFICES ASSUME SpiInv, Load PROVE SpiInv'
  OBVIOUS
<1>1. InCore /\ txdata = Byte(spi.sent) /\ rxdata = Empty /\ Len(exchanged) = Taken
  BY DEF Load, SpiInv, OneUnderWay, AtRest, InCore
<1>2. UNCHANGED <<spi, read_data, rxdata, exchanged>> /\ shift' = Byte(spi.sent) /\ txdata' = Empty
  BY <1>1 DEF Load
<1>3. UNCHANGED <<Taken, WriteLength, ReadLength>> /\ Byte(spi.sent)' = Byte(spi.sent)
  BY <1>2 DEF Taken, WriteLength, ReadLength, Byte
<1>4. InCore'
  BY <1>1, <1>2, <1>3 DEF InCore
<1>5. OneUnderWay' /\ SpiTypes' /\ LoopCounts' /\ StatusHolds'
  BY <1>1, <1>2, <1>3, <1>4 DEF SpiInv, OneUnderWay, SpiTypes, LoopCounts, StatusHolds, AtRest
<1>6. InOrder'
  BY <1>2, <1>3 DEF SpiInv, InOrder, Byte
<1> QED
  BY <1>5, <1>6 DEF SpiInv

LEMMA ShiftKeeps == SpiInv /\ Shift => SpiInv'
<1> SUFFICES ASSUME SpiInv, Shift PROVE SpiInv'
  OBVIOUS
<1>0. /\ WriteLength \in Nat /\ ReadLength \in Nat
      /\ Taken \in Nat /\ spi.sent \in Nat /\ spi.ignored \in Nat
      /\ read_data \in Seq(Int) /\ exchanged \in Seq(Int)
  BY LengthsAreNat DEF SpiInv, SpiTypes
<1>1. InCore /\ shift = Byte(spi.sent) /\ txdata = Empty /\ Len(exchanged) = Taken
      /\ spi.sent = Taken + 1
  BY DEF Shift, SpiInv, OneUnderWay, AtRest, InCore
<1>2. /\ UNCHANGED <<spi, read_data, txdata>> /\ shift' = Empty
      /\ exchanged' = Append(exchanged, Byte(spi.sent)) /\ rxdata' = Len(exchanged')
  BY <1>1 DEF Shift
<1>3. Byte(spi.sent) \in Int
  BY <1>0 DEF Byte
<1>4. exchanged' \in Seq(Int) /\ Len(exchanged') = spi.sent
  BY <1>0, <1>1, <1>2, <1>3
<1>5. UNCHANGED <<Taken, WriteLength, ReadLength>>
  BY <1>2 DEF Taken, WriteLength, ReadLength
<1>6. InCore'
  BY <1>1, <1>2, <1>4, <1>5 DEF InCore
<1>7. OneUnderWay' /\ SpiTypes' /\ LoopCounts'
  BY <1>1, <1>2, <1>4, <1>5, <1>6 DEF SpiInv, OneUnderWay, SpiTypes, LoopCounts, AtRest
<1>8. StatusHolds'
  BY <1>0, <1>2, <1>4 DEF StatusHolds, Empty
<1>9. \A i \in 1 .. Len(exchanged') : exchanged'[i] = Byte(i)
  BY <1>0, <1>1, <1>2, <1>3, <1>4 DEF SpiInv, InOrder
<1>10. InOrder'
  BY <1>2, <1>5, <1>9 DEF SpiInv, InOrder, Byte
<1> QED
  BY <1>7, <1>8, <1>10 DEF SpiInv

\* The chip is released.
LEMMA FinishKeeps == SpiInv /\ Finish => SpiInv'
<1> SUFFICES ASSUME SpiInv, Finish PROVE SpiInv'
  OBVIOUS
<1>1. UNCHANGED <<read_data, txdata, shift, rxdata, exchanged>> /\ spi.at = "finish"
  BY DEF Finish, spiCore
<1>2. spi'.at = "idle" /\ UNCHANGED <<spi.request, spi.sent, spi.ignored>>
  BY DEF Finish, SpiInv, SpiTypes, SpiRecords
<1>3. UNCHANGED <<Taken, WriteLength, ReadLength>>
  BY <1>1, <1>2 DEF Taken, WriteLength, ReadLength
<1>4. AtRest
  BY <1>1 DEF SpiInv, OneUnderWay, InCore
<1>5. OneUnderWay' /\ LoopCounts' /\ StatusHolds'
  BY <1>1, <1>2, <1>3, <1>4 DEF SpiInv, OneUnderWay, AtRest, LoopCounts, StatusHolds
<1>6. InOrder'
  BY <1>1, <1>3 DEF SpiInv, InOrder, Byte
<1>7. SpiTypes'
  BY <1>1, SpiMoves DEF Finish, SpiInv, SpiTypes, States
<1> QED
  BY <1>5, <1>6, <1>7 DEF SpiInv

LEMMA SpiStepKeeps == SpiInv /\ [SpiNext]_master => SpiInv'
<1> SUFFICES ASSUME SpiInv, [SpiNext]_master PROVE SpiInv'
  OBVIOUS
<1>1. CASE PollStatus
  <2>1. spi.at = "poll" /\ Trdy \in BOOLEAN /\ Rrdy \in BOOLEAN
    BY <1>1, Zenon DEF PollStatus, Trdy, Rrdy
  <2>2. spi' = [spi EXCEPT !.at = "send", !.trdy = Trdy, !.rrdy = Rrdy]
    BY <1>1 DEF PollStatus
  <2>3. SpiTypes'
    <3> DEFINE s1 == [spi EXCEPT !.at = "send"]
               s2 == [s1 EXCEPT !.trdy = Trdy]
               s3 == [s2 EXCEPT !.rrdy = Rrdy]
    <3>1. s1 \in SpiRecords
      BY SpiMoves DEF SpiInv, SpiTypes, States
    <3> HIDE DEF s1
    <3>2. s2 \in SpiRecords
      BY <2>1, <3>1, SpiMoves
    <3> HIDE DEF s2
    <3>3. s3 \in SpiRecords
      BY <2>1, <3>2, SpiMoves
    <3>4. spi' = s3
      BY <2>2 DEF s1, s2
    <3> QED
      BY <1>1, <3>3, <3>4 DEF PollStatus, SpiInv, SpiTypes, spiCore
  <2>4. /\ UNCHANGED <<spi.request, spi.sent, spi.ignored, spi.credits>>
        /\ spi'.at = "send" /\ (spi'.rrdy => rxdata # Empty)
    BY <2>2 DEF SpiInv, SpiTypes, SpiRecords, Rrdy
  <2>5. UNCHANGED <<read_data, spiCore>>
    BY <1>1 DEF PollStatus
  <2> QED
    BY <2>1, <2>3, <2>4, <2>5, QuietSpi
<1>2. CASE SendNothing
  <2>1. /\ spi.at = "send" /\ spi' = [spi EXCEPT !.at = "receive"]
        /\ UNCHANGED <<read_data, spiCore>>
    BY <1>2 DEF SendNothing
  <2>2. /\ UNCHANGED <<spi.request, spi.sent, spi.ignored, spi.credits, spi.rrdy>>
        /\ spi'.at = "receive"
    BY <2>1 DEF SpiInv, SpiTypes, SpiRecords
  <2>3. SpiTypes'
    BY <2>1, SpiMoves DEF SpiInv, SpiTypes, States, spiCore
  <2>4. spi'.rrdy => rxdata # Empty
    BY <2>1, <2>2 DEF SpiInv, StatusHolds
  <2> QED
    BY <2>1, <2>2, <2>3, <2>4, QuietSpi
<1>3. CASE ReceiveNothing
  <2>1. /\ spi.at = "receive" /\ spi' = [spi EXCEPT !.at = "poll"]
        /\ UNCHANGED <<read_data, spiCore>>
    BY <1>3 DEF ReceiveNothing
  <2>2. /\ UNCHANGED <<spi.request, spi.sent, spi.ignored, spi.credits>>
        /\ spi'.at = "poll"
    BY <2>1 DEF SpiInv, SpiTypes, SpiRecords
  <2>3. SpiTypes'
    BY <2>1, SpiMoves DEF SpiInv, SpiTypes, States, spiCore
  <2> QED
    BY <2>1, <2>2, <2>3, QuietSpi
<1>4. CASE UNCHANGED master
  BY <1>4 DEF master, spiCore, SpiInv, SpiTypes, OneUnderWay, AtRest, InCore, LoopCounts,
     StatusHolds, InOrder, Taken, Byte, WriteLength, ReadLength
<1> QED
  BY <1>1, <1>2, <1>3, <1>4, CommandKeeps, SendByteKeeps, ReceiveByteKeeps, FinishKeeps,
     LoadKeeps, ShiftKeeps DEF SpiNext, SpiStep

---------------------------------------------------------------------------

\* At most one byte is under way, and the loop counts it (altera_avalon_spi.c:55-109).
THEOREM SpiInvariant == SpiSpec => []SpiInv
<1> QED
  BY SpiInitEstablishes, SpiStepKeeps, PTL DEF SpiSpec

\* Every exchange is exactly the one that was asked for, whatever the pace of the core.
THEOREM SpiExchangeExact == SpiSpec => []ExchangeExact
<1>1. SpiInv => ExchangeExact
  <2> SUFFICES ASSUME SpiInv PROVE ExchangeExact
    OBVIOUS
  <2>0. /\ WriteLength \in Nat /\ ReadLength \in Nat /\ spi.ignored \in Nat
        /\ read_data \in Seq(Int) /\ exchanged \in Seq(Int)
    BY LengthsAreNat DEF SpiInv, SpiTypes
  <2>1. \A i \in DOMAIN read_data : read_data[i] = WriteLength + i
    <3>1. DOMAIN read_data = 1 .. Len(read_data)
      BY <2>0
    <3> QED
      BY <3>1 DEF SpiInv, InOrder
  <2>2. ASSUME spi.at = "idle"
        PROVE  /\ Len(read_data) = ReadLength
               /\ exchanged = [i \in 1 .. WriteLength + ReadLength |-> IF i <= WriteLength THEN i ELSE 0]
    <3>1. Taken = WriteLength + ReadLength /\ Len(exchanged) = Taken
      BY <2>2 DEF SpiInv, OneUnderWay, AtRest, InCore, LoopCounts
    <3>2. Len(read_data) = ReadLength
      BY <2>0, <3>1 DEF SpiInv, LoopCounts, Taken
    <3>3. \A i \in 1 .. WriteLength + ReadLength : exchanged[i] = IF i <= WriteLength THEN i ELSE 0
      BY <2>0, <3>1 DEF SpiInv, InOrder, Byte
    <3>4. exchanged = [i \in 1 .. Len(exchanged) |-> exchanged[i]]
      BY <2>0
    <3> QED
      BY <2>0, <3>1, <3>2, <3>3, <3>4
  <2> QED
    BY <2>1, <2>2 DEF ExchangeExact
<1> QED
  BY <1>1, SpiInvariant, PTL

=============================================================================
