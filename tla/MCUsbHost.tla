----------------------------- MODULE MCUsbHost -----------------------------
(***************************************************************************)
(* A low-speed boot keyboard and a full-speed boot mouse.  A device nobody *)
(* has a driver for behaves as one whose configuration fails.              *)
(***************************************************************************)
EXTENDS UsbHost

PlugDevices == {"keyboard", "mouse"}
PlugClass == [d \in PlugDevices |-> IF d = "keyboard" THEN 1 ELSE 2]
PlugSpeed == [d \in PlugDevices |-> IF d = "keyboard" THEN "low" ELSE "full"]
============================================================================
