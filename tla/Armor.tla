------------------------------- MODULE Armor -------------------------------
(***************************************************************************)
(* upgrade_armor.sv: a collectable that, once collected, hangs a plate on  *)
(* the rear of its owner.  The plate's position is a register, so it is    *)
(* where its owner's rear was one frame ago; until it is first placed it   *)
(* is at the origin.                                                       *)
(***************************************************************************)
EXTENDS FixedWidth

CONSTANTS
  TankSize,
  UpgradeX, UpgradeY, UpgradeSize,
  ArmorGap,                      \* the 10 of upgrade_armor.sv:56
  ArmorLonger, ArmorShorter      \* armor_longer_dimension, armor_shorter_dimension

VARIABLE armor
  \* x, y, lengthHalved, heightHalved    the plate
  \* owner                               armor_owner: 0, 1 or 2
  \* collected                           was_collected

\* The plate's dimensions power up as 0 and keep their value over a reset.
Init ==
  armor = [x |-> 0, y |-> 0, lengthHalved |-> 0, heightHalved |-> 0,
           owner |-> 0, collected |-> FALSE]

Reset == armor' = [armor EXCEPT !.x = 0, !.y = 0, !.owner = 0, !.collected = FALSE]

Reaches(tank) ==
  Within(tank.x, UpgradeX, UpgradeSize) /\ Within(tank.y, UpgradeY, UpgradeSize)

CanCollect(tank) == Reaches(tank) /\ ~armor.collected

CollectedByP1(tank1) ==
  /\ CanCollect(tank1)
  /\ armor' = [armor EXCEPT !.owner = 1, !.collected = TRUE]

CollectedByP2(tank1, tank2) ==
  /\ CanCollect(tank2) /\ ~CanCollect(tank1)
  /\ armor' = [armor EXCEPT !.owner = 2, !.collected = TRUE]

\* The plate at the rear of a tank: behind it, seen from where it faces.
Plate(tank) ==
  LET d == TankSize + ArmorGap
      x == CASE tank.direction = "left"  -> Wrap(tank.x + d)
             [] tank.direction = "right" -> Wrap(tank.x - d)
             [] OTHER                    -> tank.x
      y == CASE tank.direction = "down"  -> Wrap(tank.y - d)
             [] tank.direction = "up"    -> Wrap(tank.y + d)
             [] OTHER                    -> tank.y
      horizontal == tank.direction \in {"left", "right"}
  IN  [armor EXCEPT
        !.x = x, !.y = y,
        !.heightHalved = IF horizontal THEN ArmorLonger ELSE ArmorShorter,
        !.lengthHalved = IF horizontal THEN ArmorShorter ELSE ArmorLonger]

Untouched(tank1, tank2) == ~CanCollect(tank1) /\ ~CanCollect(tank2)

AttachToP1(tank1, tank2) ==
  /\ Untouched(tank1, tank2) /\ armor.owner = 1
  /\ armor' = Plate(tank1)

AttachToP2(tank1, tank2) ==
  /\ Untouched(tank1, tank2) /\ armor.owner = 2
  /\ armor' = Plate(tank2)

Keep(tank1, tank2) ==
  /\ Untouched(tank1, tank2) /\ armor.owner = 0
  /\ UNCHANGED armor

Clock(tank1, tank2) ==
  \/ CollectedByP1(tank1) \/ CollectedByP2(tank1, tank2)
  \/ AttachToP1(tank1, tank2) \/ AttachToP2(tank1, tank2)
  \/ Keep(tank1, tank2)

\* The plate has coordinates and dimensions of 10 bits, and at most one owner.
TypeOK ==
  armor \in [x : Coordinate, y : Coordinate, lengthHalved : Coordinate, heightHalved : Coordinate,
             owner : 0 .. 2, collected : BOOLEAN]

Positions == [x : Coordinate, y : Coordinate, direction : Directions]

Next == Reset \/ \E tank1, tank2 \in Positions : Clock(tank1, tank2)

Spec == Init /\ [][Next]_armor
============================================================================
