----------------------------- MODULE KeyRouter -----------------------------
(***************************************************************************)
(* main() of software/fp/main.c: polls the USB keyboard and copies the key *)
(* codes of its report to four output ports, one per player and purpose.   *)
(* The FPGA samples the ports once per frame, at any moment, so every      *)
(* write of a port is a step of its own.  What the USB stack does          *)
(* (MAX3421E_Task, USB_Task, kbdPoll) appears here as its outcome.         *)
(***************************************************************************)
EXTENDS Integers, FiniteSets, FiniteSetsExt

CONSTANTS
  NumSlots,      \* the 6 key codes of a boot keyboard report
  Pressable,     \* the key codes that get pressed
  Compact        \* the keyboard closes the gap a released key leaves in its report

ASSUME RouterAssumption ==
  /\ NumSlots \in Nat \ {0}
  /\ Pressable \subseteq 4 .. 255     \* 0 is no key, 1 to 3 are error codes
  /\ Compact \in BOOLEAN

VARIABLES
  pc,               \* where main() is: "tasks", "branch", "clear" or "route"
  index,            \* its loop counter i
  usb,              \* GetUsbTaskState(): "running", "error" or "other"
  runningdebugflag,
  device,           \* the class of the last device: 1 is the keyboard
  keycode,          \* kbdbuf.keycode
  keystrokeMap,     \* per slot, the port its key went to, or 4
  port              \* KEYCODE_BASE, _1, _2 and _3

program == <<pc, index>>
session == <<usb, runningdebugflag, device>>
router == <<program, session, keycode, keystrokeMap, port>>

Slots == 0 .. NumSlots - 1
Ports == 0 .. 3
Released == 4

PortKeys == [p \in Ports |->
  CASE p = 0 -> {26, 4, 22, 7}      \* player 1 moves: W, A, S, D
    [] p = 1 -> {82, 80, 81, 79}    \* player 2 moves: the arrows
    [] p = 2 -> {44}                \* player 1 fires: space bar
    [] p = 3 -> {88}]               \* player 2 fires: keypad enter

\* What a keyboard sends in every slot when more keys are down than it has slots.
ErrorRollOver == [i \in Slots |-> 1]

\* A report lists the keys that are down, each once, in any order, and unless the
\* keyboard closes gaps, in any slots.
Reports ==
  {r \in [Slots -> Pressable \cup {0}] :
     \A i, j \in Slots :
       /\ i # j /\ r[i] = r[j] => r[i] = 0
       /\ Compact /\ i < j /\ r[i] = 0 => r[j] = 0}
  \cup {ErrorRollOver}

KeysInit ==
  /\ pc = "tasks" /\ index = 0
  /\ usb = "other" /\ runningdebugflag = FALSE /\ device = 255
  /\ keycode = [i \in Slots |-> 0]
  /\ keystrokeMap = [i \in Slots |-> Released]
  /\ port = [p \in Ports |-> 0]

\* The USB stack runs first and may find anything, an unplugged keyboard included.
Tasks ==
  /\ pc = "tasks"
  /\ usb' \in {"running", "error", "other"}
  /\ pc' = "branch"
  /\ UNCHANGED <<index, runningdebugflag, device, keycode, keystrokeMap, port>>

\* The first time round the loop with a running device: GetDriverandReport.
Announce ==
  /\ pc = "branch" /\ usb = "running" /\ ~runningdebugflag
  /\ runningdebugflag' = TRUE
  /\ device' \in {1, 2}
  /\ pc' = "tasks"
  /\ UNCHANGED <<index, usb, keycode, keystrokeMap, port>>

\* kbdPoll with a report, or with a NAK, which leaves the last report in place.
Poll ==
  /\ pc = "branch" /\ usb = "running" /\ runningdebugflag /\ device = 1
  /\ keycode' \in Reports
  /\ pc' = "clear" /\ index' = 0
  /\ UNCHANGED <<session, keystrokeMap, port>>

\* kbdPoll with any other result code: the rest of the pass is skipped.
PollError ==
  /\ pc = "branch" /\ usb = "running" /\ runningdebugflag /\ device = 1
  /\ pc' = "tasks"
  /\ UNCHANGED <<index, session, keycode, keystrokeMap, port>>

\* A mouse is shown on the LEDs and displays, which nothing here reads.
PollMouse ==
  /\ pc = "branch" /\ usb = "running" /\ runningdebugflag /\ device # 1
  /\ pc' = "tasks"
  /\ UNCHANGED <<index, session, keycode, keystrokeMap, port>>

\* Neither an error nor a missing device touches the ports.
NotRunning ==
  /\ pc = "branch" /\ usb # "running"
  /\ runningdebugflag' = (runningdebugflag /\ usb = "error")
  /\ pc' = "tasks"
  /\ UNCHANGED <<index, usb, device, keycode, keystrokeMap, port>>

\* setKeycode
Written(p, key) == [port EXCEPT ![p] = key]

\* Mutants: the workaround is dropped, an arrow goes to the other player, and a
\* release is not forgotten.
ClearedPort_Kept == port
RoutedTo_Crossed(key) == IF key = 80 THEN {0} ELSE {p \in Ports : key \in PortKeys[p]}
ForgetRelease_Never == keystrokeMap

ClearedPort == Written(index, 0)

\* Every pass starts by writing 0 to all ports ...
ClearPort ==
  /\ pc = "clear"
  /\ port' = ClearedPort
  /\ IF index + 1 \in Ports THEN index' = index + 1 /\ UNCHANGED pc
                            ELSE index' = 0 /\ pc' = "route"
  /\ UNCHANGED <<session, keycode, keystrokeMap>>

NextSlot ==
  IF index + 1 \in Slots THEN index' = index + 1 /\ UNCHANGED pc
                         ELSE index' = 0 /\ pc' = "tasks"

\* ... and goes through the slots of the report.  The port a key belongs to, if any:
RoutedTo(key) == {p \in Ports : key \in PortKeys[p]}

RouteKey ==
  /\ pc = "route"
  /\ \E p \in RoutedTo(keycode[index]) :
       /\ keystrokeMap' = [keystrokeMap EXCEPT ![index] = p]
       /\ port' = Written(p, keycode[index])
  /\ NextSlot
  /\ UNCHANGED <<session, keycode>>

ForgetRelease == [keystrokeMap EXCEPT ![index] = Released]

\* An empty slot that held a key clears that key's port, whoever uses it now.
RouteRelease ==
  /\ pc = "route" /\ keycode[index] = 0
  /\ port' = IF keystrokeMap[index] \in Ports THEN Written(keystrokeMap[index], 0) ELSE port
  /\ keystrokeMap' = ForgetRelease
  /\ NextSlot
  /\ UNCHANGED <<session, keycode>>

\* Any other key is ignored, and the slot keeps its mapping.
RouteOther ==
  /\ pc = "route" /\ keycode[index] # 0 /\ RoutedTo(keycode[index]) = {}
  /\ NextSlot
  /\ UNCHANGED <<session, keycode, keystrokeMap, port>>

KeysNext ==
  \/ Tasks \/ Announce \/ Poll \/ PollError \/ PollMouse \/ NotRunning
  \/ ClearPort \/ RouteKey \/ RouteRelease \/ RouteOther

\* main() is the only thread of the Nios II and never waits.
KeysSpec == KeysInit /\ [][KeysNext]_router /\ WF_router(KeysNext)

---------------------------------------------------------------------------
\* Properties

\* A port only ever carries a key of its own: no key reaches the wrong player.
KeysTypeOK ==
  /\ pc \in {"tasks", "branch", "clear", "route"}
  /\ index \in 0 .. Max(Slots \cup Ports)
  /\ usb \in {"running", "error", "other"}
  /\ runningdebugflag \in BOOLEAN /\ device \in {1, 2, 255}
  /\ keycode \in Reports
  /\ keystrokeMap \in [Slots -> Ports \cup {Released}]
  /\ port \in [Ports -> 0 .. 255] /\ \A p \in Ports : port[p] \in PortKeys[p] \cup {0}

(***************************************************************************)
(* Outside the clearing phase a port shows no key that is not in the last  *)
(* report.  Releases alone do not achieve this: a slot whose key is        *)
(* replaced by another key forgets the port of the first one, and only the *)
(* write of 0 to all ports (main.c:195-197) takes it back.                 *)
(***************************************************************************)
NoGhostKey ==
  pc # "clear" =>
    \A p \in Ports : port[p] # 0 => \E i \in Slots : keycode[i] = port[p]

\* The key a report has for a port: that of its last slot with such a key.
KeyFor(p) ==
  LET mine == {i \in Slots : keycode[i] \in PortKeys[p]}
  IN  IF mine = {} THEN 0 ELSE keycode[Max(mine)]

Routed == \A p \in Ports : port[p] = KeyFor(p)

(***************************************************************************)
(* While the same keys are held down and the keyboard answers, the ports   *)
(* come to show exactly these keys at the end of every pass, although a    *)
(* pass after a release may clear the port of a key that is still held.    *)
(***************************************************************************)
RoutingSettles ==
  <>[][UNCHANGED <<session, keycode>> /\ usb = "running" /\ device = 1 /\ ~PollError]_router
    => <>[](pc = "tasks" => Routed)

(***************************************************************************)
(* main.c:193-194 calls the clearing of all ports a "workaround for        *)
(* allowing players to hold down keys without interfering with the other   *)
(* player's mapping": after a pass, a player who holds down a movement key *)
(* has one on the port.                                                    *)
(***************************************************************************)
HeldKeysRouted ==
  pc = "tasks" => \A p \in {0, 1} : KeyFor(p) # 0 => port[p] # 0
============================================================================
