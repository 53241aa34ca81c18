------------------------------ MODULE MCArena ------------------------------
(***************************************************************************)
(* Small arenas for TLC.  The proportions that matter are those of the     *)
(* build.  The box in which a bullet hits a tank is exactly as wide as a   *)
(* boosted bullet and a fast tank close in one frame: in the build         *)
(* 2*(8+2) + 1 = 12+6+3, on the lane 2*(3+2) + 1 = 6+2+3, in the yard      *)
(* 2*(2+1) + 1 = 3+2+2.  The box in which two bullets meet is just wider   *)
(* than two plain ones close, and narrower than a boosted one and a plain  *)
(* one do: in the build 2*12 + 1 against 24 and 30, on the lane 2*6 + 1    *)
(* against 12 and 14.                                                      *)
(*                                                                         *)
(* At the left edge of the lane a tank can do what it can in the build:    *)
(* the edge test stops it at x = 3 or 4 (8 or 9), a fast one steps over    *)
(* them in threes, and one that turns there fires from within the padding  *)
(* of 6 (12) pixels.  Rounds are short because player 1 starts close by.   *)
(***************************************************************************)
EXTENDS Arena

At(x, y) == [x |-> x, y |-> y]
Block(x, y, h, l) == [x |-> x, y |-> y, heightHalved |-> h, lengthHalved |-> l]
Draw(i, h, l) == [index |-> i, height |-> h, length |-> l]

\* A lane along which the tanks face each other; everything else lies off it.
LaneLeft == At(5, 7)
LaneInner == At(7, 7)
LaneRight == At(15, 7)
LaneSpeed == At(7, 7)
LaneBoost == At(12, 7)
LaneArmor == At(9, 7)
OffLane == At(11, 10)

NoDraws == [g \in 1 .. 4 |-> {Draw(0, 0, 0)}]
OffLaneList == [i \in {0} |-> 22]
NoBarriers == {}

\* A yard with two blocks between the tanks, and two random places for a third.
YardLeft == At(3, 9)
YardRight == At(13, 3)
YardBlocks == {Block(8, 9, 0, 0), Block(4, 3, 0, 0)}
YardDraws == [g \in 1 .. 4 |-> IF g = 1 THEN {Draw(1, 0, 0), Draw(2, 1, 0)} ELSE {Draw(0, 0, 0)}]
YardX == [i \in 0 .. 2 |-> <<50, 9, 9>>[i + 1]]
YardY == [i \in 0 .. 2 |-> <<50, 4, 5>>[i + 1]]
YardSpeed == At(4, 7)
YardBoost == At(6, 7)

ForwardMoves1 == {7, 22, 26}
BackAndForth1 == {0, 4, 7}
Leftward2 == {80}
Fire1 == {0, 44}
Fire2 == {0, 88}
Idle == {0}

\* What the theorems of ArenaProofs assume, but for barriers this thin.
ASSUME SmallArenasHaveTheProportions ==
  SpawnsApart /\ StepFits /\ Proportions /\ TanksKeptOut /\ MeetFits
============================================================================
