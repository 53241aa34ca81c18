# A TLA+ model of the two-player tank game

The repository is a two-player tank game for an FPGA board. The game itself is
SystemVerilog: every register is clocked once per video frame. A Nios II
processor on the same chip runs a USB host for a keyboard and hands the pressed
keys to the game through four output ports. This directory models the game, the
USB host and the drivers below it, checks them with TLC on small instances and
proves the main results with TLAPS.

## 1. The system

The game (SystemVerilog, `src/*.sv`):

| component | source | state | operations | interacts with |
|---|---|---|---|---|
| tanks | `tank.sv`, `tank2.sv` | position, facing | a frame with a key, reset | barriers (contacts), speed upgrade, key ports |
| bullets | `bullet.sv`, `bullet2.sv` | position, in flight, heading, fire button released | a frame (fire, fly, stop), reset | own tank, barriers, hit detector, bullet upgrades |
| hit detector | `hit_detector.sv` | two hits, two scores | a frame, reset (button only) | tanks, bullets, armor; resets the arena |
| barriers | `barrier.sv` | none | combinational contacts | tanks, bullets |
| barrier generator | `barrier_param_gen.sv` | the round's barrier, the next one, two counters | a frame, reset | barriers |
| speed and bullet upgrades | `upgrade_speed.sv`, `upgrade_bullet.sv` | owner, collected | a frame, reset | tanks, bullets |
| armor | `upgrade_armor.sv` | owner, collected, plate | a frame, reset | tanks, hit detector |
| arena | `lab62.sv` | none of its own | wires everything, derives `Reset_arena` | all of the above |
| VGA controller | `VGA_controller.sv` | pixel clock, pixel, line, sync pulses | a clock edge, reset | `vs` is the clock of all game registers |
| picture | `tank_barrel.sv`, `Color_Mapper.sv`, `HexDriver.sv` | where the barrels are drawn | drawing | read only |

The program (C, `src/software`):

| component | source | state | operations | interacts with |
|---|---|---|---|---|
| key router | `fp/main.c` | key report, slot map, session flags, the four ports | one pass of the main loop | USB host; the ports are read by the game |
| USB host | `fp/usb_kb/transfer.c`, `MAX3421E.c` | task state, device table, settle deadline | interrupt handler, bus probe, one case of `USB_Task` per pass | chip, HID probes, `main()` |
| USB transfers | `fp/usb_kb/transfer.c` | attempts, deadline, toggle per endpoint | dispatch, IN transfer, control request | chip, device |
| HID driver | `fp/usb_kb/HID.c` | class, endpoint record, address | two probes, two polls | device table, transfers |
| system clock | `alt_tick.c`, `alt_alarm_start.c` | tick counter, alarms | tick, start, stop | timer interrupt; deadlines of the USB stack, JTAG UART |
| JTAG UART driver | `altera_avalon_jtag_uart_*.c` | two ring buffers, interrupt enables, inactivity count | read, write, close, interrupt, alarm | host computer; carries every `printf` |
| file descriptors | `alt_open.c`, `alt_close.c`, `alt_fd_lock.c`, ... | table, high-water mark, device list | open, close, lock, unlock, fcntl, boot redirection | drivers |
| SPI master | `altera_avalon_spi.c` | none between calls | one exchange | every register access of the USB stack |

What is hard here:

* **One frame, many readers.** All game registers are loaded on the same edge
  from each other's old values; bullets, tanks and plates are compared once per
  frame, so things can jump over each other.
* **Reset inside the loop.** A hit resets the arena asynchronously, but not the
  hit detector that raised it, which looks at the arena again one frame later.
* **Ten bits.** Positions wrap, and the same-looking comparison is done on 10
  bits or, if a literal takes part, on 32.
* **Keys.** A report's slots are routed one after the other, with writes the FPGA can
  see in between, and releases are deduced from a map of the previous report.
* **USB.** Devices come and go between any two steps of a polled state machine whose
  interrupt flags outlive the states they belong to; packets and
  acknowledgements are lost; deadlines are computed from a clock that wraps.
* **Interrupts.** The JTAG UART's handler and alarm run between any two accesses of the
  program to the ring buffers they share.

`PROJECT.json` lists the hazards one by one with the properties that cover them.

## 2. Modules

| module | models | actions |
|---|---|---|
| `FixedWidth` | 10-bit and 32-bit arithmetic and comparisons | - |
| `Tank` | one tank | `Left`, `Right`, `Down`, `Up`, `Hold`, `Reset` |
| `Bullet` | one bullet | `Stop`, `Fire`, `KeepPressed`, `Release`, `Reset` |
| `HitDetector` | hits and scores | `Clock`, `Reset` |
| `Barrier` | contacts of one barrier | - (operators) |
| `BarrierParamGen` | one random barrier | `Clock`, `Reset` |
| `Upgrade`, `Armor` | collectables | collect, attach, keep, `Reset` |
| `Arena` | `lab62.sv`: two `Tank`, two `Bullet`, the detector, three `Upgrade`, one `Armor`, four `BarrierParamGen`, three fixed barriers, instantiated as the top level does | `PlayFrame`, `ArenaReset`, `RoundFrame`, `PressReset`, `ReleaseReset` |
| `Match` | what the players are promised; `Arena` implements it | `Kill`, `NewRound`, `NewMatch` |
| `VgaController` | counters and sync | `ClkFall`, `ClkRise`, `Reset` |
| `KeyRouter` | `main()` with the USB stack as its outcome | one action per branch and per port write |
| `UsbHost` | interrupt handler, probe, `USB_Task`, the HID probes and `main()`'s sessions | one action per case of the switch, per half of the handler and per branch; `Replug` and `ResetDone` of the bus |
| `UsbSession` | what `main()` relies on; `UsbHost` implements it | `Attach`, `Identify`, `GiveUp`, `Announce`, `Close`, `Unplug` |
| `UsbTransfer` | control requests and polls, packet by packet | launch and one action per result code; requests, polls, a new session; the bus |
| `ReportStream` | what polls promise; `UsbTransfer` implements it | `Take`, `NewSession` |
| `Alarm` | system clock and alarms | `alt_tick`, `alt_alarm_start`, `alt_alarm_stop` |
| `Countdown` | alarms that count down; `Alarm` implements it | `Start`, `Stop`, `Tick` |
| `JtagUart` | driver, interrupt handler, alarm, core and host | one action between two accesses to what they share |
| `FileTable` | descriptors, from the boot redirection on | one action per call |
| `Spi` | one exchange and the core under it | one action per status bit acted upon; `Load`, `Shift` of the core |
| `MCArena`, `MCBuild`, `MCBullet`, `MCUsbHost`, `MCUsbTransfer`, `MCParts` | values for TLC; `MCBuild` has the arena's parameters in the build, `MCParts` puts the parts that share no state into one run | |
| `*Proofs` | proofs (section 4); `PartsProofs` has those of the display, the alarms, the descriptors and the SPI master | |

How they fit together: `Arena` composes the game. `KeyRouter` takes the USB stack for
its outcome: a session, an error or nothing, a report or an error code.
`UsbHost` shows when these outcomes come and takes a transfer for its outcome;
`UsbTransfer` looks inside a transfer and takes a register access for one step;
`Spi` looks inside that. What one level assumes the level below checks:
`UsbSession` (one announcement per session, of the identified class), `TransferReturns`,
`ReportStream`, `CommandReturns`, `ExchangeExact`, `WriteReturns` (the printf in every pass).

Conventions. The second player's modules are the same circuits with other
constants, so `Tank`, `Bullet` and `Upgrade` are instantiated more than once. The
names of registers, functions and variables are kept where they are not ambiguous; a
circuit's registers are one record (`tank`, `bullet`, `speed`, ...), the comment
at the VARIABLE names them. An operator with a suffix after an underscore
that a comment calls a mutant (`Left_Unguarded`, ...) is a plausible mistake in the
code next to it; no specification uses it.

Decisions about what the circuit does:

* *Power-up.* Registers power up to the value their reset loads
  (`output_files/lab61.map.rpt`), except `direction_latched`, which is 00.
* *A bullet's reset* loads another module's signal (`bullet.sv:32-33`). The synthesised circuit is
  a latch that is open while `Reset` is high (also in `lab61.map.rpt`), so the
  bullet ends up where its tank is reset to.
* *Barrier generators.* The two counters are such latches too, and feed each
  other; their value after a reset is a free choice. Only the fields that are used
  are kept: one index and two sizes. `Init` is the state after the first reset.
* *The arena reset* is asynchronous and takes nanoseconds, frames are 16 ms apart.
  `ArenaReset` is a step of its own so that the order "hit, reset, next frame"
  is visible; `settled` records that it has happened. While the button is held
  the VGA controller is in reset too, and there are no frames.
* *The players* press any key of a given set at any frame. What the ports show
  between two passes of `main()` is covered by this: a key may be there or not.

And about the chip, the bus and the cores, which are not in the repository:

* *MAX3421E.* A connection change sets `CONDETIRQ`, the end of a bus reset sets
  `BUSEVENTIRQ`, whose interrupt is not enabled, and both stay set until they are written.
  Whether a bus reset also shows as a connection change is a free choice
  (`MAX3421E.c:142` says it does). The chip acknowledges every data packet and
  takes only the one with the toggle it expects.
* *Devices.* Any packet may be refused, lost or garbled, either way. A device forgets
  its address in a reset, starts each session with DATA0 and repeats what was not
  acknowledged. A request may fail after it had its effect.
* *JTAG UART core.* It asks for characters when its FIFO runs low and offers them when
  there are any; the host may stop looking at any time.
* *Clock.* A unit of time is longer than a pass of the main loop; the
  millisecond clock of `(alt_nticks()*1000)/alt_ticks_per_second()` starts again at 0.

## 3. Runs

Passing runs:

| run | shows | instance |
|---|---|---|
| `tank_screen` | `InArena` | real width 639, 10 bits, real tank size; height 47 instead of 479 (the y code is the x code on the other axis); all keys, all sets of barrier contacts |
| `bullet_flight` | `FlightNearScreen`, `FlightEnds`; and that the build's numbers have the proportions the proofs assume (`MCBuild`) | the build's numbers; six tank places, one per remainder by 6, because steps are 12 or 18; the upgrade may come and go in flight, obstacles may appear at will |
| `arena_rounds` | `MatchSpec`, `RoundsGoOn`, `NoBulletThroughTank`, `NoPassThrough` | a lane with speed, bullet and armor upgrades, a left edge that a fast tank can leave, reset button, scores modulo 2, any number of rounds |
| `arena_yard` | `OutsideBarriers`, `OnScreenUnlessFast`, `NoBulletThroughBarrier` | a yard with two fixed and up to one random barrier in two places and sizes, both upgrades |
| `usb_host` | `SessionSpec`, `EndpointsInTable`, `RunningMeansConfigured`, `ComesToRest` | a low-speed keyboard, a full-speed mouse and a short circuit, two addresses, a clock of three units |
| `usb_transfer` | `StreamSpec`, `AnswerWhole`, `TransferReturns`, `ReportsGetThrough` | devices with whole, short and split reports; two requests, answers of two packets, four reports a session |
| `parts` | key router: `NoGhostKey`, `RoutingSettles`; display: `NoTearing`, `DisplayKeepsComing`; alarms: `FiresOnTime`; JTAG UART: `NothingLostToHost`, `NothingLostFromHost`, `ReaderWillEnable`, `WriteReturns`, `SentToHost`; files: `OpenIsHeld`, `LockKeepsOthersOut`; SPI: `ExchangeExact`, `CommandReturns` | below |

Most also check a type invariant (that of `Arena` covers all its components, and
says that a barrier is one its generator can draw; `KeyRouter`'s says that no key reaches the wrong port, `UsbHost`'s names the states of the task
that are reached, two of which the code has no case for).

Runs that find a disagreement between the code and its comments:

| run | what happens |
|---|---|
| `tank_fast` | with the speed upgrade the step is 3, the edge test leaves a margin for 1: x = 10, 7, 4, 1, 1022 |
| `arena_cross` | two plain bullets pass each other unnoticed near the left edge: the padding of `hit_detector.sv:179` wraps on 32 bits |
| `key_interfere` | player 1's release clears player 2's held key for a pass, in spite of the workaround at `main.c:193` |
| `usb_leak` | the bus event left over from the reset is added to the state the probe has just set, and the clean-up of the device table is skipped |
| `fd_lock` | the search for other users of a device ends before the highest descriptor, and the lock is granted |

The two promises about bullets name their exceptions. `NoBulletThroughTank` is about tanks
whose box is on the screen: a fast tank can leave it (`tank_fast`), and then its box wraps
on 10 bits and nothing hits it. At x = 7 its left side is at 1023, and a bullet
that flies up at x = 9 passes. `NoPassThrough` is about bullets that the padding
covers (`PaddingCovers`): two plain ones, the first of which is not so close to the left or
top edge that the padded box wraps. Near these edges two plain bullets pass each other
(`arena_cross`; in the build at 10 and 21, then at 22 and 9); farther in, a boosted bullet and
one that comes towards it can, because the padding is for two plain steps.

One more disagreement is written down here only: the vertical sync pulse is one
line earlier than the comment at `VGA_controller.sv:98` says. `vs` is registered
from `vc + 1` on the edges of the pixel clock, but `vc` changes only once per line.

And one behaviour that nothing in the repository asks for or rules out: `hit_detector` is
not told whether a bullet is in flight, and a bullet that is not rides with its
tank. So a tank that drives into the other one scores, and a bullet that has just been
stopped by a barrier may still kill with its last step. The model has both;
there is no promise to check them against.

### Bounds, and why they are enough

*Arena.* The real arena has far too many positions. The lane is 19 pixels long with tank half
size 3, bullet half size 2, tank steps 1 and 3 and bullet steps 6 and 8; the yard has
2, 1, 1 and 2, 3 and 5. Registers are as wide as the proofs ask (`Word` is 28 on the lane,
64 in the yard). The proportions that decide about jumping are those of the build:

| | build | lane | yard |
|---|---|---|---|
| box a bullet is tested in: 2 (tank + bullet) + 1 | 21 | 11 | 7 |
| closed by boosted bullet and fast tank | 12+6+3 = 21 | 6+2+3 = 11 | 3+2+2 = 7 |
| box two bullets meet in: 2 (bullet + padding) + 1 | 25 | 13 | 7 |
| closed by two plain bullets | 24 | 12 | 6 |
| closed by a boosted and a plain one | 30 | 14 | 8 |
| where the left edge stops a tank | 8, 9 | 3, 4 | 2, 3 |
| step of a fast tank | 3 | 3 | 2 |

Equality in the first pair is the limit of `NoBulletThroughTank`: on the lane it fails with a
boost of one pixel more. The last pair lets a fast tank leave the lane as it can leave the
screen, and a tank that turns at the left edge of the lane fires from within the padding. So
the lane has states of each exception: without its condition on the tank `NoBulletThroughTank` is
violated there (bullet at 8, tank at 2, then 0 and 2), and so is `NoPassThrough` without either of its
two (plain bullets at 5 and 9, then 11 and 3; a plain one at 6 and a boosted one at 13, then 12 and 5).
On a lane (one row) jumping, meeting, hitting and re-hitting all occur; the y
code is symmetric and is exercised in the yard. Player 1 drives back and forth or stands, player 2
always drives left and fires when he likes, so that bullets come from every distance; the
keys left out would only leave the lane.

*The build.* `MCBuild` instantiates `Arena` with the parameters of the sources. Its ASSUME, which
TLC evaluates at the start of `bullet_flight`, says that they satisfy every precondition of
the theorems of `ArenaProofs`, and that so does every barrier the generators can draw
(16 places, 30 heights, 50 lengths). What those theorems say of every arena with these
proportions they say of the real one.

*Barriers.* In `arena_yard` only player 1 moves and shoots: barriers treat the
players separately. The blocks are placed so that corners, gaps and
overlapping contacts occur, and the random block may lie on a tank's way.

*USB host.* Two addresses are enough for the table to fill up with entries of devices
that have gone (`NoAddress`) and for `main()`'s fixed address 1 to be another one
than the session's. Three units of time with a settle time of one let a deadline
fall before, at and after the wrap of the clock.

*USB transfers.* The NAK limit is 2 (200 in the code), the retry limit the code's 3. The
code can take all 200 refusals within a fraction of the deadline, so the clock
stands still while the chip answers (`Tick`). Four reports are two turns of the
toggle. `TypeOK` bounds the counters; with the limits of the code they fit a byte.

*Parts.* They share no state, so `MCParts` runs each with the others standing
still, and their state spaces add up instead of multiplying.

* Keys: the report has six slots in the code and three here (two in
  `key_interfere`): the properties speak about at most two slots at once and a port.
  Two movement keys of one player, one fire key, and one key nobody uses.
* VGA: lines are 16 pixels long, as nothing but `hs` depends on their number; lines are
  the real 525.
* Alarms: two, a counter of 5 values and periods up to 4, the longest the code can
  represent. The counter wraps in every behaviour that goes on.
* JTAG UART: rings of 3, FIFOs of 2, calls of 2 characters, so that a call
  finds the ring full, half full and wrapped; six numbers tell more characters apart
  than can be under way. A behaviour uses one direction: the buffers are separate, and
  what they share, the handler and the enable bits, is modelled in both.
* Files: three devices and three descriptors above the standard streams.
* SPI: the lengths `MAXreg_wr`, `MAXreg_rd`, `MAXbytes_wr` and `MAXbytes_rd` use, the
  longer ones cut to three and four bytes.

Deadlock is checked except in `parts` and `fd_lock`: after the boot sequence a program
without open files, or that never calls the driver again, has nothing to do.

### Fairness

* `Bullet`: frames keep coming (`WF(Frame)`). The pixel clock runs freely and
  `FramesKeepComing` of `VgaController`, checked as `DisplayKeepsComing`, shows that it
  produces frames.
* `Arena`: `WF` of the two frame actions and of the asynchronous reset. Nothing
  is assumed of the reset button: `RoundsGoOn` holds because pressing it clears the hits.
* `VgaController`: `WF` of the clock edge. `FramesKeepComing` excepts somebody
  who presses the reset button for ever.
* `KeyRouter`: `WF(Next)`; `main()` is the only thread and every call returns
  (`TransferReturns`, `CommandReturns`, `WriteReturns`). `RoutingSettles` assumes of
  the keyboard that the report eventually stays the same and polls answer.
* `UsbHost`: `WF` of the main loop and of the end of a bus reset; the clock advances
  in infinitely many passes (`SF(Main /\ now' # now)`; strong, because a pass in
  which it does is not always the next one). Nobody has to plug anything.
  `ComesToRest` excepts two losses of the code: a change between a probe and the
  acknowledgement of its interrupt, and a settle deadline beyond the wrap.
* `UsbTransfer`: `WF` of the program and of the chip, which ends every transfer
  unless it is dead, and of the clock while it is; `SF(Report(TRUE))`: a bus on which a
  report can be delivered again and again delivers it once. It is used by `ReportsGetThrough` alone.
* `JtagUart`: `WF` of the handler (interrupts are level-triggered) and of a connected
  host's polls; `SF` of the program and the alarm, which the handler interrupts again
  and again but, as it ends when the receive buffer is full or the transmit buffer
  empty, not for ever.
* `Spi`: `WF` of the program's loop and of the core's own clock.

## 4. Proofs

| module | theorem | assumption on the constants | statement |
|---|---|---|---|
| `TankProofs` | `TankTypeOK` | - | `Spec => []TypeOK` |
| | `TankInArena` | `StepFits`: step at most 1, room in the registers, spawn on the screen | `Spec => []InArena` |
| `BulletProofs` | `BulletTypeOK` | - | `Spec => []TypeOK` |
| | `BulletStaysNear` | `ScreenFits`: room for a step beyond the far edges, muzzle near the screen | `Spec => []FlightNearScreen` |
| `ArenaProofs` | `ResetInvariant` | - | `Spec => []ResetInv` |
| | `ArenaImplementsMatch` | `SpawnsApart` | `Spec => MatchSpec` |
| | `ArenaTypeOK` | - | `Spec => []TypeOK` |
| | `ArenaOnScreenUnlessFast` | `StepFits` | `Spec => []OnScreenUnlessFast` |
| | `ArenaOutsideBarriers` | `TanksKeptOut` | `Spec => []OutsideBarriers` |
| | `ArenaNoBulletThroughBarrier` | `BarriersFit` | `Spec => NoBulletThroughBarrier` |
| | `ArenaNoBulletThroughTank` | `Proportions` | `Spec => NoBulletThroughTank` |
| | `ArenaNoBulletThroughSlowTank` | `Proportions`, `StepFits` | `Spec => [][SlowTanksNotJumped]_vars`: for a tank without the speed upgrade there is no exception |
| | `ArenaMeetingNoticed` | `MeetFits` | `Spec => NoPassThrough` |
| `UsbHostProofs` | `HostInvariant` | `HostAssumption` | `Spec => []IInv` |
| | `HostTypeOK`, `HostEndpointsInTable`, `HostRunningMeansConfigured` | `HostAssumption` | the three invariants |
| | `HostImplementsSession` | `HostAssumption` | `Spec => SessionSpec` |
| `UsbTransferProofs` | `TransferInvariant` | `TransferAssumption` | `Spec => []IInv` |
| | `TransferTypeOK`, `TransferAnswerWhole` | `TransferAssumption` | the invariants |
| | `TransferImplementsStream` | `TransferAssumption` | `Spec => StreamSpec` |
| `JtagUartProofs` | `UartInvariant` | `UartAssumption` | `UartSpec => []UartInv` |
| | `UartTypeCorrect`, `UartReaderWillEnable`, `UartNothingLostToHost`, `UartNothingLostFromHost` | `UartAssumption` | the invariants |
| `KeyRouterProofs` | `KeysInvariant`, `KeysTypeCorrect`, `KeysNoGhostKey` | `RouterAssumption` | the invariants |
| `PartsProofs` | `VgaInvariant`, `VgaTypeCorrect` | `VgaAssumption` | the invariants |
| | `VgaNoTearing` | `VgaAssumption` | `VgaSpec => NoTearing` |
| | `AlarmInvariant` | `AlarmAssumption` | `AlarmSpec => []AlarmInv` |
| | `AlarmFiresOnTime` | `AlarmAssumption` | `AlarmSpec => FiresOnTime` |
| | `FilesInvariant`, `FilesTypeCorrect`, `FilesOpenIsHeld` | `FileTableAssumption` | the invariants |
| | `FilesLockKeepsOthersOut` | `FileTableAssumption` | `FilesSpec => LockKeepsOthersOut` |
| | `SpiInvariant` | `SpiAssumption` | `SpiSpec => []SpiInv` |
| | `SpiExchangeExact` | `SpiAssumption` | `SpiSpec => []ExchangeExact` |

A dash means that only the assumptions of the module itself are used.

* *Tank.* `TypeOK /\ InArena` is inductive. On the screen no addition or
  subtraction of an edge test wraps, so a test that fails leaves at least one
  pixel. `tank_fast` shows that `StepFits` cannot be dropped.
* *Bullet.* `FlightNearScreen` is inductive with the type: a bullet still in
  flight after a frame either left its muzzle, or moved one step along one axis
  from a place where both tests of that axis failed (`StepStaysNear`). The tests
  are in modular arithmetic, which is why a coordinate is either small or within a
  bullet's size of 1024, and why both opposite tests are needed.
* *Arena.* `ResetInv` says that once the reset has settled everything is back at
  its spawn point, and that the button is never held during a hit. It is needed
  because the step at stake, `RoundFrame`, evaluates the hit detector in the
  middle of a reset: the refinement to `Match` is step by step, and that step is
  a new round only if the detector sees no hit, which follows from `ResetInv`,
  `SpawnsApart` and the fact that a hit depends on positions alone
  (`StrikesByPlace`). Nothing else of the arena matters, so the theorem holds for
  every layout, speed, barrier and key set.
* *Slow tanks.* `OnScreenUnlessFast` is not inductive: a tank that loses its upgrade off the
  screen would stay there. It is, together with `Owned`: an upgrade has an owner
  only once it was collected, and nothing but the arena reset, which puts the tanks
  back too, takes it away.
* *Jumping.* A frame moves a bullet along one axis (`Flies`) and a tank by one step (`Drives`).
  On each axis, a bullet that was on one side of a box's centre and is on the other was
  inside the box before or is inside it after, if what both close in a frame is no more than the
  box is wide: in the build 12 + 6 + 3 = 2 * 10 + 1 for a tank and 18 <= 4 * 5 + 1 for
  the thinnest barrier. The subtractions are in 10 bits and the comparisons in 32,
  so the same is to be shown for the sides that wrap; `Scenery` says which barriers
  there can be at all (fixed, drawn, or at the origin before the first draw), and is
  the generators' part of `ArenaTypeOK`. The tank has to be on the screen, where its box
  does not wrap. `NoBulletThroughTank` says so; for a tank that is not fast it
  follows from `OnScreenUnlessFast`, which gives `ArenaNoBulletThroughSlowTank`.
* *Bullets that meet* close 12 + 12 <= 2 * 12 + 1. The padded box of `hit_detector.sv:179`
  is compared on 32 bits, so that within 12 pixels of the left or top edge its near side is
  beyond every coordinate. `ClearAlong` excepts these places, on the axis along which the
  first bullet flies; across it the unpadded sides must not wrap (`NearBulletsMeet`). For
  two bullets that cross at a right angle the test on the first one's axis is enough.
* *Barriers and tanks.* A barrier reports only the first of four tests that succeeds. The proof
  (`TankStaysOut`) shows that this is enough: a tank whose next step would take its
  centre into the box has a side of its own in the box and its centre abreast of it, which
  makes all earlier tests fail (`WallByTest`), so the wall reported is the one
  that blocks that step. It needs a step no longer than half the tank (3 <= 8) and
  a box at least half as wide as the tank; no step that wraps may end in it.
* *USB host.* Neither invariant nor the refinement is inductive. That `main()` is told
  the right class rests on `NoGaps` (addresses are given out from below and
  only taken back all at once, so the last entry of the table is the session's,
  whatever earlier sessions left there) together with `Configures` and `Runs`; that a
  session is announced once rests on `AfterSession`: from the moment a session is
  gone to the branch of `main()` that notices, the task cannot get as far as a new
  session, because each pass runs one case of the switch. The theorem thus covers
  the leak that `usb_leak` shows: it costs addresses, not the identity of the device.
* *USB transfers.* The argument is parity (`StreamInv`, `PollInv`). The toggle the program has saved
  is that of the report it took last, the chip's, during a poll, that of the report it expects,
  the device's that of the report it offers, and the device never offers a report
  older than the last one taken: if the toggles agree the report is the next one, if not
  it is one that was received already. Control requests need the same within one
  request (`AnswerSoFar`), and that the device has this request and not
  the one before when the SETUP was acknowledged. A chip that is dead does
  nothing to either. `AnswerWhole` is in the invariant because the answer is judged after it has ended.
* *JTAG UART.* `TxInv` and `RxInv` say which character lies in each cell: those from the out index to
  the in index are the stretch of the stream that follows the FIFO's (or precedes it), and
  what one side has copied but not yet published (`TxCopied`) or released (`RxCopied`) lies
  in cells the other side leaves alone, so the handler may run between the copy and
  the index. `RoomKept` says that the handler's count of the room in the FIFO, which it keeps
  while the core empties it, is never too large. All indices are remainders, and
  half of the module is lemmas about those.
* *SPI.* At most one byte is in the core, and there is a credit just when none is
  (`OneUnderWay`); so a byte is never written over one that has not been read, and
  the status the program acts upon cannot be outdated in a way that matters (`StatusHolds`).
* *Files.* The search for a lock ends at the high-water mark. It misses no holder
  because what is held lies below the mark, and because a standard stream that
  can be locked was redirected through a descriptor above the streams and raised
  the mark past them (`Unmarked \/ alt_max_fd > 2`).
* *Alarms.* `DueSoon` (a registered alarm is between 1 and the longest period away,
  counted across the wrap if its flag is set) is inductive with the type and makes
  every tick a tick of `Countdown`. The flag is read off a comparison, which is right
  only for periods shorter than the counter: `AlarmAssumption`.
* *Keys.* `NoGhostKey` excepts the clearing phase, so the proof carries `Progress`: the
  ports before the counter are already 0, and clearing ends with all of them.
* *Display.* `PulseLag`: a low `vs` shows the line counter of one pixel ago, so the pulse
  ends at most at the start of the line after it.

The assumptions that belong to the modules (`WidthAssumption`, `HostAssumption`,
...) are evaluated by TLC in the runs. The named preconditions of `ArenaProofs` are evaluated
for the build's numbers in `MCBuild` and for the small arenas in `MCArena` (except
`BarriersFit`, whose condition on lengths the blocks of the yard are too thin to
meet, which makes `arena_yard` a check beyond the theorem). The preconditions of
`TankProofs` and `BulletProofs` are met by the build as the comment at each says.

Only liveness is model-checked and not proved (`FlightEnds`, `RoundsGoOn`,
`ComesToRest`, `TransferReturns`, `ReportsGetThrough`, `RoutingSettles`,
`DisplayKeepsComing`, `WriteReturns`, `SentToHost`, `CommandReturns`): the prover
does neither fairness nor ENABLED. Every other invariant, action property and
refinement of the passing runs is a theorem. Nothing recursive is needed
anywhere, so no statement is out of reach for that reason.

## 5. Not modelled, and why

* Barrels, colours, digits: nothing reads them. LEDs, mouse displays and the text
  printed by `main.c`: the branches are there.
* The bytes of descriptors and reports beyond the key slots: a descriptor is
  the class it leads to, and is well formed.
* The general purpose inputs of the MAX3421E (`MaxGpxHandler` only reads them), the start of
  its oscillator and `usleep`: delays.
* The composition of ports and frames: a port is written as 8 bits at once and
  sampled whole; the arena lets a key be up or down in any frame.
* read, write, lseek, fstat and isatty of the HAL: they pass a call on and leave
  the descriptor table alone.
* Interrupt dispatch, caches, exceptions, heap, environment, profiling and logging of
  the HAL: not compiled in, not called, or assembly. They and the register headers are
  most of the C lines of the repository, and the reason why the model stands for
  a modest share of all lines, but for nearly all lines of `software/fp`.
* Generated and vendor circuits, and metastability between clock domains.

## 6. What could come next

1. `KeyRouter` with the sessions of `UsbHost` in place of its free outcomes, and the
   arena's frames sampling its ports: what a player who holds fire sees.
2. Player 2 in the yard (`barrier.sv:146`), and whom the armor plate protects.
3. Which steps of a fast tank lead off the screen, and with it the exact set of positions in
   which a bullet can jump over one.
