--------------------------- MODULE MCUsbTransfer ---------------------------
(***************************************************************************)
(* A keyboard (8 bytes in packets of 8), a mouse whose reports are short   *)
(* packets (3 of 8) and one whose reports are full packets of 4 bytes.     *)
(* XferSetProto, then XferGetIdle or another request with an answer, here  *)
(* of two packets.                                                         *)
(***************************************************************************)
EXTENDS UsbTransfer

BootDevices == {[size |-> 8, max |-> 8], [size |-> 3, max |-> 8], [size |-> 4, max |-> 4]}
SetThenGet == <<FALSE, TRUE>>
============================================================================
