------------------------------ MODULE Upgrade ------------------------------
(***************************************************************************)
(* One collectable upgrade: upgrade_speed.sv, and upgrade_bullet.sv, which *)
(* is the same circuit under other names.  It lies at a fixed place and    *)
(* goes to the first tank whose centre reaches it in a round; player 1 has *)
(* the priority when both do in the same frame.                            *)
(***************************************************************************)
EXTENDS FixedWidth

CONSTANTS UpgradeX, UpgradeY, UpgradeSize

VARIABLE upgrade
  \* p1, p2       speed_1_upgraded_latched, speed_2_upgraded_latched
  \* collected    was_collected

None == [p1 |-> FALSE, p2 |-> FALSE, collected |-> FALSE]

Init == upgrade = None

Reset == upgrade' = None

Reaches(tank) ==
  Within(tank.x, UpgradeX, UpgradeSize) /\ Within(tank.y, UpgradeY, UpgradeSize)

CanCollect(tank) == Reaches(tank) /\ ~upgrade.collected

CollectedByP1(tank1) ==
  /\ CanCollect(tank1)
  /\ upgrade' = [p1 |-> TRUE, p2 |-> FALSE, collected |-> TRUE]

CollectedByP2(tank1, tank2) ==
  /\ CanCollect(tank2) /\ ~CanCollect(tank1)
  /\ upgrade' = [p1 |-> FALSE, p2 |-> TRUE, collected |-> TRUE]

Keep(tank1, tank2) ==
  /\ ~CanCollect(tank1) /\ ~CanCollect(tank2)
  /\ UNCHANGED upgrade

Clock(tank1, tank2) ==
  CollectedByP1(tank1) \/ CollectedByP2(tank1, tank2) \/ Keep(tank1, tank2)

\* Three bits.
TypeOK == upgrade \in [p1 : BOOLEAN, p2 : BOOLEAN, collected : BOOLEAN]

Positions == [x : Coordinate, y : Coordinate]

Next == Reset \/ \E tank1, tank2 \in Positions : Clock(tank1, tank2)

Spec == Init /\ [][Next]_upgrade
============================================================================
