------------------------------- MODULE Alarm -------------------------------
(***************************************************************************)
(* The system clock of the HAL: alt_tick(), which the interrupt handler of *)
(* timer_0 calls a thousand times a second, and the alarms it serves.      *)
(* Times are 32-bit counts of ticks that start again at 0 after 50 days;   *)
(* an alarm beyond that point is marked with rollover.  Interrupts are     *)
(* disabled in every operation, so each is one step.                       *)
(***************************************************************************)
EXTENDS Integers

CONSTANTS
  Alarms,
  Ticks,        \* 2^32, the values of an alt_u32
  Longest       \* the longest period that is asked for

(***************************************************************************)
(* A period may not go all the way round: alt_alarm_start adds 1 to it and *)
(* tells from the sum alone whether it rolled over.                        *)
(***************************************************************************)
ASSUME AlarmAssumption ==
  /\ Ticks \in Nat \ {0}
  /\ Longest \in 1 .. Ticks - 1

VARIABLES
  nticks,       \* _alt_nticks
  registered,   \* the alarms in alt_alarm_list
  time, rollover

clock == <<nticks, registered, time, rollover>>

Words == 0 .. Ticks - 1

AlarmInit ==
  /\ nticks = 0 /\ registered = {}
  /\ time = [a \in Alarms |-> 0] /\ rollover = [a \in Alarms |-> 0]

\* Mutant: the flag is forgotten.
RollsOver_Never(then, from) == 0

\* A sum of a time and a period, as an alt_u32.
Wrap(from, ticks) == IF from + ticks < Ticks THEN from + ticks ELSE from + ticks - Ticks

\* "If the desired alarm time causes a roll-over, set the rollover flag."
RollsOver(then, from) == IF then < from THEN 1 ELSE 0

\* alt_alarm_start.  An alarm that is still registered is not started again.
alt_alarm_start(a, ticks) ==
  /\ a \notin registered
  /\ registered' = registered \cup {a}
  /\ time' = [time EXCEPT ![a] = Wrap(nticks, ticks + 1)]
  /\ rollover' = [rollover EXCEPT ![a] = RollsOver(time'[a], nticks)]
  /\ UNCHANGED nticks

\* An alarm that is not in the list is a list of its own: stopping it is harmless.
alt_alarm_stop(a) ==
  /\ registered' = registered \ {a}
  /\ UNCHANGED <<nticks, time, rollover>>

---------------------------------------------------------------------------
\* alt_tick()

Now == Wrap(nticks, 1)

\* "Upon the tick-counter rolling over it is safe to clear the roll-over flag."
Cleared(a) == IF Now = 0 THEN 0 ELSE rollover[a]

Expired == {a \in registered : time[a] <= Now /\ Cleared(a) = 0}

\* A callback returns the period after which it wants to be called again, or 0.
Again(a, period) == Wrap(time[a], period)

alt_tick ==
  \E period \in [Expired -> 0 .. Longest] :
    /\ nticks' = Now
    /\ registered' = registered \ {a \in Expired : period[a] = 0}
    /\ time' = [a \in Alarms |->
         IF a \in Expired /\ period[a] # 0 THEN Again(a, period[a]) ELSE time[a]]
    /\ rollover' = [a \in Alarms |->
         IF a \notin registered THEN rollover[a]
         ELSE IF a \in Expired /\ period[a] # 0 /\ RollsOver(Again(a, period[a]), Now) = 1 THEN 1
         ELSE Cleared(a)]

AlarmNext ==
  \/ alt_tick
  \/ \E a \in Alarms :
       \/ \E ticks \in 0 .. Longest - 1 : alt_alarm_start(a, ticks)
       \/ alt_alarm_stop(a)

AlarmSpec == AlarmInit /\ [][AlarmNext]_clock

---------------------------------------------------------------------------
\* Properties

AlarmTypeOK ==
  /\ nticks \in Words
  /\ registered \subseteq Alarms
  /\ time \in [Alarms -> Words]
  /\ rollover \in [Alarms -> {0, 1}]

(***************************************************************************)
(* The alarms are a Countdown although the clock only compares times that  *)
(* wrap: none is called early because its time is a small number again,    *)
(* none late because its flag is still set, however often the counter has  *)
(* rolled over between its start, its stop and its calls.                  *)
(***************************************************************************)
TicksLeft(a) ==
  IF a \notin registered THEN 0
  ELSE IF rollover[a] = 1 THEN time[a] + Ticks - nticks ELSE time[a] - nticks

Left == [a \in Alarms |-> TicksLeft(a)]

Count == INSTANCE Countdown WITH remaining <- Left

FiresOnTime == Count!Spec
============================================================================
