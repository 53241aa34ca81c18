-------------------------- MODULE KeyRouterProofs --------------------------
(***************************************************************************)
(* Theorems about KeyRouter, for every number of slots in a report and     *)
(* every set of keys that get pressed.                                     *)
(***************************************************************************)
EXTENDS KeyRouter, TLAPS

(***************************************************************************)
(* What the clearing phase has already done, and that the loop counter is  *)
(* within the array each phase uses it for.                                *)
(***************************************************************************)
Progress ==
  /\ pc = "clear" => index \in Ports /\ \A p \in Ports : p < index => port[p] = 0
  /\ pc = "route" => index \in Slots

KeysInv == KeysTypeOK /\ Progress /\ NoGhostKey

\* Every index of a slot or a port is in the range KeysTypeOK gives the counter.
LEMMA IndexRange == Slots \cup Ports \subseteq 0 .. Max(Slots \cup Ports)
<1> DEFINE top == IF NumSlots > 4 THEN NumSlots - 1 ELSE 3
<1>1. top \in Slots \cup Ports /\ \A y \in Slots \cup Ports : top >= y
  BY RouterAssumption DEF Slots, Ports
<1>2. /\ Max(Slots \cup Ports) \in Slots \cup Ports
      /\ \A y \in Slots \cup Ports : Max(Slots \cup Ports) >= y
  BY <1>1 DEF Max
<1> QED
  BY <1>2, RouterAssumption DEF Slots, Ports

LEMMA InitEstablishes == KeysInit => KeysInv
<1> SUFFICES ASSUME KeysInit PROVE KeysInv
  OBVIOUS
<1>1. keycode \in Reports
  <2>1. keycode \in [Slots -> Pressable \cup {0}]
    BY DEF KeysInit
  <2> QED
    BY <2>1 DEF KeysInit, Reports
<1>2. index \in 0 .. Max(Slots \cup Ports)
  BY IndexRange DEF KeysInit, Ports
<1>3. port \in [Ports -> 0 .. 255] /\ \A p \in Ports : port[p] = 0
  BY DEF KeysInit
<1>4. keystrokeMap \in [Slots -> Ports \cup {Released}]
  BY DEF KeysInit
<1> QED
  BY <1>1, <1>2, <1>3, <1>4 DEF KeysInit, KeysInv, KeysTypeOK, Progress, NoGhostKey, Ports, Released

\* The steps that touch neither the report nor the ports.
LEMMA QuietStep ==
  ASSUME KeysInv, UNCHANGED <<keycode, port, keystrokeMap, index>>,
         usb' \in {"running", "error", "other"}, runningdebugflag' \in BOOLEAN,
         device' \in {1, 2, 255},
         pc \in {"tasks", "branch"}, pc' \in {"tasks", "branch"}
  PROVE  KeysInv'
  BY DEF KeysInv, KeysTypeOK, Progress, NoGhostKey

\* The step to the next slot keeps the counter in range.
LEMMA NextSlotInRange ==
  ASSUME KeysInv, pc = "route", NextSlot
  PROVE  /\ index' \in 0 .. Max(Slots \cup Ports)
         /\ pc' \in {"tasks", "route"}
         /\ pc' = "route" => index' \in Slots
  BY IndexRange, RouterAssumption DEF NextSlot, KeysInv, Progress, Slots, Ports

LEMMA StepPreserves == KeysInv /\ [KeysNext]_router => KeysInv'
<1> SUFFICES ASSUME KeysInv, [KeysNext]_router PROVE KeysInv'
  OBVIOUS
<1>1. CASE Tasks
  BY <1>1, QuietStep DEF Tasks, KeysInv, KeysTypeOK
<1>2. CASE Announce
  BY <1>2, QuietStep DEF Announce, KeysInv, KeysTypeOK
<1>3. CASE Poll
  <2>1. index' \in Ports /\ index' \in 0 .. Max(Slots \cup Ports)
    BY <1>3, IndexRange DEF Poll, Ports
  <2> QED
    BY <1>3, <2>1 DEF Poll, session, KeysInv, KeysTypeOK, Progress, NoGhostKey, Ports
<1>4. CASE PollError
  BY <1>4, QuietStep DEF PollError, session, KeysInv, KeysTypeOK
<1>5. CASE PollMouse
  BY <1>5, QuietStep DEF PollMouse, session, KeysInv, KeysTypeOK
<1>6. CASE NotRunning
  BY <1>6, QuietStep DEF NotRunning, KeysInv, KeysTypeOK
<1>7. CASE ClearPort
  <2>1. /\ index \in Ports
        /\ UNCHANGED <<usb, runningdebugflag, device, keycode, keystrokeMap>>
    BY <1>7 DEF ClearPort, session, KeysInv, Progress
  <2>2. port' = [port EXCEPT ![index] = 0]
    BY <1>7 DEF ClearPort, ClearedPort, Written
  <2>3. \A p \in Ports : p <= index => port'[p] = 0
    BY <1>7, <2>1, <2>2 DEF ClearPort, KeysInv, KeysTypeOK, Progress, Ports
  <2>4. port' \in [Ports -> 0 .. 255] /\ \A p \in Ports : port'[p] \in PortKeys[p] \cup {0}
    BY <2>1, <2>2 DEF KeysInv, KeysTypeOK
  <2>5. CASE index + 1 \in Ports
    <3>1. index' = index + 1 /\ pc' = "clear"
      BY <1>7, <2>5 DEF ClearPort
    <3>2. index' \in 0 .. Max(Slots \cup Ports)
      BY <2>5, <3>1, IndexRange
    <3> QED
      BY <2>1, <2>3, <2>4, <2>5, <3>1, <3>2
      DEF KeysInv, KeysTypeOK, Progress, NoGhostKey, Ports
  <2>6. CASE index + 1 \notin Ports
    <3>1. index' = 0 /\ pc' = "route" /\ index' \in Slots
      BY <1>7, <2>6, RouterAssumption DEF ClearPort, Slots
    <3>2. \A p \in Ports : port'[p] = 0
      BY <2>1, <2>3, <2>6 DEF Ports
    <3>3. index' \in 0 .. Max(Slots \cup Ports)
      BY <3>1, IndexRange
    <3> QED
      BY <2>1, <2>4, <3>1, <3>2, <3>3 DEF KeysInv, KeysTypeOK, Progress, NoGhostKey
  <2> QED
    BY <2>5, <2>6
<1>8. CASE RouteKey
  <2>1. PICK p \in RoutedTo(keycode[index]) :
          /\ keystrokeMap' = [keystrokeMap EXCEPT ![index] = p]
          /\ port' = [port EXCEPT ![p] = keycode[index]]
    BY <1>8 DEF RouteKey, Written
  <2>2. p \in Ports /\ keycode[index] \in PortKeys[p]
    BY <2>1 DEF RoutedTo
  <2>3. /\ index \in Slots /\ pc = "route" /\ NextSlot
        /\ UNCHANGED <<usb, runningdebugflag, device, keycode>>
    BY <1>8 DEF RouteKey, session, KeysInv, Progress
  <2>4. /\ index' \in 0 .. Max(Slots \cup Ports)
        /\ pc' \in {"tasks", "route"} /\ (pc' = "route" => index' \in Slots)
    BY <2>3, NextSlotInRange
  <2>5. /\ keystrokeMap' \in [Slots -> Ports \cup {Released}]
        /\ \A q \in Ports : port'[q] \in PortKeys[q] \cup {0}
    BY <2>1, <2>2, <2>3 DEF KeysInv, KeysTypeOK
  <2>6. port' \in [Ports -> 0 .. 255]
    <3>1. keycode[index] \in 0 .. 255
      BY <2>2 DEF PortKeys, Ports
    <3> QED
      BY <2>1, <2>2, <3>1 DEF KeysInv, KeysTypeOK
  <2>7. \A q \in Ports : port'[q] # 0 => \E i \in Slots : keycode'[i] = port'[q]
    BY <2>1, <2>2, <2>3 DEF KeysInv, NoGhostKey, KeysTypeOK
  <2> QED
    BY <2>3, <2>4, <2>5, <2>6, <2>7 DEF KeysInv, KeysTypeOK, Progress, NoGhostKey
<1>9. CASE RouteRelease
  <2>1. /\ index \in Slots /\ pc = "route" /\ NextSlot
        /\ keystrokeMap' = [keystrokeMap EXCEPT ![index] = Released]
        /\ UNCHANGED <<usb, runningdebugflag, device, keycode>>
    BY <1>9 DEF RouteRelease, ForgetRelease, session, KeysInv, Progress
  <2>2. /\ index' \in 0 .. Max(Slots \cup Ports)
        /\ pc' \in {"tasks", "route"} /\ (pc' = "route" => index' \in Slots)
    BY <2>1, NextSlotInRange
  <2>3. /\ port' \in [Ports -> 0 .. 255]
        /\ \A q \in Ports : port'[q] = port[q] \/ port'[q] = 0
    BY <1>9 DEF RouteRelease, Written, KeysInv, KeysTypeOK
  <2>4. keystrokeMap' \in [Slots -> Ports \cup {Released}]
    BY <2>1 DEF KeysInv, KeysTypeOK
  <2> QED
    BY <2>1, <2>2, <2>3, <2>4 DEF KeysInv, KeysTypeOK, Progress, NoGhostKey
<1>10. CASE RouteOther
  <2>1. /\ pc = "route" /\ NextSlot
        /\ UNCHANGED <<usb, runningdebugflag, device, keycode, keystrokeMap, port>>
    BY <1>10 DEF RouteOther, session
  <2>2. /\ index' \in 0 .. Max(Slots \cup Ports)
        /\ pc' \in {"tasks", "route"} /\ (pc' = "route" => index' \in Slots)
    BY <2>1, NextSlotInRange
  <2> QED
    BY <2>1, <2>2 DEF KeysInv, KeysTypeOK, Progress, NoGhostKey
<1>11. CASE UNCHANGED router
  BY <1>11 DEF router, program, session, KeysInv, KeysTypeOK, Progress, NoGhostKey
<1> QED
  BY <1>1, <1>2, <1>3, <1>4, <1>5, <1>6, <1>7, <1>8, <1>9, <1>10, <1>11 DEF KeysNext

\* Half-way through a pass the ports already cleared are 0 (main.c:195-197).
THEOREM KeysInvariant == KeysSpec => []KeysInv
  BY InitEstablishes, StepPreserves, PTL DEF KeysSpec

\* No key reaches a port that is not its own (main.c:199-276).
THEOREM KeysTypeCorrect == KeysSpec => []KeysTypeOK
<1>1. KeysInv => KeysTypeOK
  BY DEF KeysInv
<1> QED
  BY <1>1, KeysInvariant, PTL

\* A port shows no key that the keyboard no longer reports (main.c:193-197).
THEOREM KeysNoGhostKey == KeysSpec => []NoGhostKey
<1>1. KeysInv => NoGhostKey
  BY DEF KeysInv
<1> QED
  BY <1>1, KeysInvariant, PTL
============================================================================
