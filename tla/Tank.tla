------------------------------- MODULE Tank -------------------------------
(***************************************************************************)
(* One tank: tank.sv, and tank2.sv, which is the same circuit with other   *)
(* key codes and another spawn point.  Its registers are clocked once per  *)
(* video frame (posedge of VGA_VS) and loaded with the spawn point while   *)
(* Reset is high.  The key code, the speed upgrade and the barrier         *)
(* contacts are inputs, so they are parameters of the actions.             *)
(***************************************************************************)
EXTENDS FixedWidth

CONSTANTS
  TankSize,                          \* half the side of the tank
  XMin, XMax, YMin, YMax,            \* the edges of the screen
  Step, FastStep,                    \* pixels per frame, without and with the upgrade
  SpawnX, SpawnY, SpawnDirection,
  LeftKey, RightKey, DownKey, UpKey, \* the four key codes this tank obeys
  NoKey,                             \* any other key code
  Boosts                             \* the values the input speed_upgrade takes

ASSUME TankAssumption ==
  /\ {TankSize, XMin, XMax, YMin, YMax, Step, FastStep} \subseteq Nat
  /\ {SpawnX, SpawnY} \subseteq Coordinate
  /\ SpawnDirection \in Directions
  /\ Boosts \subseteq BOOLEAN

VARIABLE tank    \* Ball_X_Pos, Ball_Y_Pos and direction_delayed

TankRegisters == [x : Coordinate, y : Coordinate, direction : Directions]

Keys == {LeftKey, RightKey, DownKey, UpKey, NoKey}

Spawned == [x |-> SpawnX, y |-> SpawnY, direction |-> SpawnDirection]

Init == tank = Spawned

Reset == tank' = Spawned

Stride(fast) == IF fast THEN FastStep ELSE Step

\* Mutants: an edge test that admits the edge itself, and a step that forgets it.
AtRightEdge_Late == Wrap(tank.x + TankSize) > XMax
Left_Unguarded(key, fast, walls) ==
  /\ key = LeftKey
  /\ tank' = [tank EXCEPT !.x = @ - Stride(fast), !.direction = "left"]

\* Mutant: the contact with a wall is taken for one with the opposite wall.
Right_WrongWall(key, fast, walls) ==
  /\ key = RightKey
  /\ tank' = [tank EXCEPT
       !.x = IF Wrap(@ + TankSize) >= XMax \/ "rightWall" \in walls THEN @ ELSE Wrap(@ + Stride(fast)),
       !.direction = "right"]

AtLeftEdge   == Wrap(tank.x - TankSize) <= XMin
AtRightEdge  == Wrap(tank.x + TankSize) >= XMax
AtTopEdge    == Wrap(tank.y - TankSize) <= YMin
AtBottomEdge == Wrap(tank.y + TankSize) >= YMax

\* A tank that is held back still turns to face the key's direction.
Left(key, fast, walls) ==
  /\ key = LeftKey
  /\ tank' = [tank EXCEPT
       !.x = IF AtLeftEdge \/ "rightWall" \in walls THEN @ ELSE Wrap(@ - Stride(fast)),
       !.direction = "left"]

Right(key, fast, walls) ==
  /\ key = RightKey
  /\ tank' = [tank EXCEPT
       !.x = IF AtRightEdge \/ "leftWall" \in walls THEN @ ELSE Wrap(@ + Stride(fast)),
       !.direction = "right"]

Down(key, fast, walls) ==
  /\ key = DownKey
  /\ tank' = [tank EXCEPT
       !.y = IF AtBottomEdge \/ "topWall" \in walls THEN @ ELSE Wrap(@ + Stride(fast)),
       !.direction = "down"]

Up(key, fast, walls) ==
  /\ key = UpKey
  /\ tank' = [tank EXCEPT
       !.y = IF AtTopEdge \/ "bottomWall" \in walls THEN @ ELSE Wrap(@ - Stride(fast)),
       !.direction = "up"]

Hold(key) ==
  /\ key \notin {LeftKey, RightKey, DownKey, UpKey}
  /\ UNCHANGED tank

Clock(key, fast, walls) ==
  \/ Left(key, fast, walls)
  \/ Right(key, fast, walls)
  \/ Down(key, fast, walls)
  \/ Up(key, fast, walls)
  \/ Hold(key)

Next ==
  \/ Reset
  \/ \E key \in Keys, fast \in Boosts, walls \in SUBSET Walls : Clock(key, fast, walls)

Spec == Init /\ [][Next]_tank

---------------------------------------------------------------------------

\* The registers hold 10-bit coordinates and one of the four directions.
TypeOK == tank \in TankRegisters

(***************************************************************************)
(* The tank's box never leaves the screen: tank.sv:19-22 call the edges    *)
(* the leftmost, rightmost, topmost and bottommost points.  The code tests *)
(* the edge before the step is added, so this relates the size of a step   *)
(* to the margin the test leaves, and to the wrap of the subtraction.      *)
(***************************************************************************)
InArena ==
  /\ tank.x - TankSize >= XMin
  /\ tank.x + TankSize <= XMax
  /\ tank.y - TankSize >= YMin
  /\ tank.y + TankSize <= YMax

(***************************************************************************)
(* Weaker: the centre of the tank is on the screen, at or right of the     *)
(* "Leftmost point on the X axis" and at or below the "Topmost point on    *)
(* the Y axis" (tank.sv:19-22).  A step that jumps the margin of the edge  *)
(* test wraps the tank around to coordinates no one can see.               *)
(***************************************************************************)
CentreOnScreen == tank.x \in XMin .. XMax /\ tank.y \in YMin .. YMax
===========================================================================
