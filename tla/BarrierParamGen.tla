-------------------------- MODULE BarrierParamGen --------------------------
(***************************************************************************)
(* barrier_param_gen.sv: picks the place and the size of one barrier for   *)
(* every round.  Its two 24-bit counters are transparent latches while     *)
(* Reset is high and feed each other, so what they hold when Reset falls   *)
(* is not determined; of their bits only the index Counter_One[8:5] and    *)
(* the overlapping fields Counter_Two[11:2] and [14:5] are ever used.      *)
(* Here a draw stands for those three fields.                              *)
(***************************************************************************)
EXTENDS FixedWidth

CONSTANTS
  BarrierX_List, BarrierY_List,      \* tables over the indices
  HeightModulus, LengthModulus,      \* the 30 and the 50 of lines 21-22
  Margin,                            \* the 5 added to both
  Draws                              \* [index, height, length] the counters may hold

VARIABLE gen
  \* counter    the fields of Counter_One and Counter_Two
  \* prelatch   Prelatch_X, _Y, _Height, _Length
  \* barrier    Random_Barrier*_Latched, the barrier of the current round

Origin == [x |-> 0, y |-> 0, height |-> 0, length |-> 0]

\* The size is clipped when it is latched, not when it is drawn.
Clipped(p) ==
  [x |-> p.x, y |-> p.y,
   heightHalved |-> (p.height % HeightModulus) + Margin,
   lengthHalved |-> (p.length % LengthModulus) + Margin]

Selected(draw) ==
  [x |-> BarrierX_List[draw.index], y |-> BarrierY_List[draw.index],
   height |-> draw.height, length |-> draw.length]

\* While Reset is high the barrier drawn in the last round appears and the
\* counters run free.
Reset ==
  \E draw \in Draws :
    gen' = [gen EXCEPT !.barrier = Clipped(gen.prelatch), !.counter = draw]

\* At every frame of a round the counters select the next round's barrier.
Clock == gen' = [gen EXCEPT !.prelatch = Selected(gen.counter)]

\* After the first reset: nothing has been prelatched yet.
Init == \E draw \in Draws :
  gen = [counter |-> draw, prelatch |-> Origin, barrier |-> Clipped(Origin)]

Next == Reset \/ Clock

Spec == Init /\ [][Next]_gen

\* The registers hold a draw, what a draw selects or nothing yet, and the barrier that
\* one of these makes.
TypeOK ==
  LET prelatches == {Origin} \cup {Selected(draw) : draw \in Draws}
  IN  gen \in [counter : Draws, prelatch : prelatches, barrier : {Clipped(p) : p \in prelatches}]
============================================================================
