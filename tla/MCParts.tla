------------------------------ MODULE MCParts ------------------------------
(***************************************************************************)
(* The parts of the system that share no state with the others, in one run *)
(* of TLC: every behaviour is one of one part, and the others stand still. *)
(***************************************************************************)
EXTENDS KeyRouter, VgaController, Alarm, JtagUart, FileTable, Spi

\* The register accesses of the USB stack: one byte written or read, and several.
RegisterAccesses == {<<2, 0>>, <<4, 0>>, <<1, 1>>, <<1, 3>>}

VARIABLE part

parts == <<part, router, raster, clock, uart, files, master>>

Init ==
  /\ part \in {"keys", "vga", "alarms", "uart", "files", "spi"}
  /\ KeysInit /\ VgaInit /\ AlarmInit /\ UartInit /\ FilesInit /\ SpiInit
  /\ part # "uart" => ~connected /\ way = "tx"
  /\ part # "spi" => rxdata = Empty

OfKeys(step) ==
  /\ part = "keys" /\ step
  /\ UNCHANGED <<part, raster, clock, uart, files, master>>

OfVga(step) ==
  /\ part = "vga" /\ step
  /\ UNCHANGED <<part, router, clock, uart, files, master>>

OfUart(step) ==
  /\ part = "uart" /\ step
  /\ UNCHANGED <<part, router, raster, clock, files, master>>

OfSpi(step) ==
  /\ part = "spi" /\ step
  /\ UNCHANGED <<part, router, raster, clock, uart, files>>

Next ==
  \/ OfKeys(KeysNext)
  \/ OfVga(VgaNext)
  \/ part = "alarms" /\ AlarmNext /\ UNCHANGED <<part, router, raster, uart, files, master>>
  \/ OfUart(UartNext)
  \/ OfSpi(SpiNext)
  \/ part = "files" /\ FilesNext /\ UNCHANGED <<part, router, raster, clock, uart, master>>

\* The fairness of each part, while the behaviour is one of it.
Fairness ==
  /\ WF_parts(OfKeys(KeysNext))
  /\ WF_parts(OfVga(ClkFall \/ ClkRise))
  /\ WF_parts(OfUart(UartIsr)) /\ WF_parts(OfUart(HostPoll))
  /\ SF_parts(OfUart(UartDriver)) /\ SF_parts(OfUart(AlarmTimeout))
  /\ WF_parts(OfSpi(SpiStep)) /\ WF_parts(OfSpi(Load \/ Shift))

Spec == Init /\ [][Next]_parts /\ Fairness

---------------------------------------------------------------------------

\* FramesKeepComing of the display (VGA_controller.sv:84-113), which is not asked
\* of the behaviours in which it stands still.
DisplayKeepsComing == part = "vga" => FramesKeepComing
============================================================================
