----------------------------- MODULE Countdown -----------------------------
(***************************************************************************)
(* What the alarms of the system clock promise: an alarm is called exactly *)
(* when the ticks it was started with have gone by, and again every time   *)
(* the period it returned has.                                             *)
(***************************************************************************)
EXTENDS Integers

CONSTANTS Alarms, Longest

VARIABLES
  registered,
  remaining     \* per registered alarm, the ticks until it is called

countdown == <<registered, remaining>>

Init == registered = {} /\ remaining = [a \in Alarms |-> 0]

Start(a) ==
  /\ a \notin registered
  /\ registered' = registered \cup {a}
  /\ \E nticks \in 0 .. Longest - 1 : remaining' = [remaining EXCEPT ![a] = nticks + 1]

Stop(a) ==
  /\ registered' = registered \ {a}
  /\ remaining' = [remaining EXCEPT ![a] = 0]

Due == {a \in registered : remaining[a] = 1}

\* A period of 0 unregisters.
Tick ==
  \E period \in [Due -> 0 .. Longest] :
    /\ registered' = registered \ {a \in Due : period[a] = 0}
    /\ remaining' = [a \in Alarms |->
         IF a \in Due THEN period[a] ELSE IF a \in registered THEN remaining[a] - 1 ELSE 0]

Next == Tick \/ \E a \in Alarms : Start(a) \/ Stop(a)

Spec == Init /\ [][Next]_countdown
============================================================================
