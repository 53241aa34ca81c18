----------------------------- MODULE UsbSession -----------------------------
(***************************************************************************)
(* What main() may rely on when it asks GetUsbTaskState() and remembers    *)
(* the class of the device it was told about: a device is announced once   *)
(* per session, as what it was identified as, and it takes a new           *)
(* enumeration, which main() gets to see, before another one runs.         *)
(***************************************************************************)
EXTENDS Integers

CONSTANTS
  Classes,      \* classes a driver exists for
  NoClass       \* not one of them

VARIABLES
  phase,        \* "detached", "enumerating", "running" or "error"
  found,        \* the class of the device a session runs with
  announced     \* main() has taken note of the session

session == <<phase, found, announced>>

Init == phase = "detached" /\ found = NoClass /\ announced = FALSE

Unplug ==
  /\ phase' = "detached" /\ found' = NoClass
  /\ UNCHANGED announced

Attach ==
  /\ phase' = "enumerating" /\ found' = NoClass
  /\ UNCHANGED announced

\* Only enumeration leads to a session, and not before the last one was closed.
Identify ==
  /\ phase = "enumerating" /\ ~announced
  /\ phase' = "running" /\ found' \in Classes
  /\ UNCHANGED announced

GiveUp ==
  /\ phase = "enumerating" /\ ~announced
  /\ phase' = "error"
  /\ UNCHANGED <<found, announced>>

Announce ==
  /\ phase = "running" /\ ~announced
  /\ announced' = TRUE
  /\ UNCHANGED <<phase, found>>

Close ==
  /\ phase \in {"detached", "enumerating"} /\ announced
  /\ announced' = FALSE
  /\ UNCHANGED <<phase, found>>

Next == Unplug \/ Attach \/ Identify \/ GiveUp \/ Announce \/ Close

Spec == Init /\ [][Next]_session
============================================================================
