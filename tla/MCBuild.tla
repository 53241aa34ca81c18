------------------------------ MODULE MCBuild ------------------------------
(***************************************************************************)
(* The parameters of tank.sv, bullet.sv, hit_detector.sv, lab62.sv and     *)
(* barrier_param_gen.sv.  They have the proportions that the theorems of   *)
(* ArenaProofs assume, whatever the generators draw.  Nothing here is      *)
(* about a state, and Build has none.                                      *)
(***************************************************************************)
EXTENDS FixedWidth

LOCAL At(x, y) == [x |-> x, y |-> y]
LOCAL Block(x, y, h, l) == [x |-> x, y |-> y, heightHalved |-> h, lengthHalved |-> l]

BuildBarriers ==                                     \* lab62.sv:211-213
  {Block(320, 200, 10, 40), Block(320, 240, 30, 20), Block(320, 280, 10, 40)}

BuildX == [i \in 0 .. 15 |->                         \* barrier_param_gen.sv:8-9
  <<100, 150, 200, 250, 350, 400, 450, 500, 100, 150, 200, 250, 350, 400, 450, 500>>[i + 1]]
BuildY == [i \in 0 .. 15 |->
  <<45, 45, 45, 80, 75, 60, 50, 100, 360, 405, 325, 400, 290, 345, 380, 400>>[i + 1]]

\* Whatever the first generator draws; the others draw from the same lists.
BuildDraws ==
  [g \in 1 .. 4 |-> IF g = 1 THEN [index : 0 .. 15, height : 0 .. 29, length : 0 .. 49] ELSE {}]

Build == INSTANCE Arena WITH
  XMin <- 1, XMax <- 639, YMin <- 1, YMax <- 479,
  TankSize <- 8, Step <- 1, FastStep <- 3, Spawn1 <- At(160, 240), Spawn2 <- At(480, 240),
  BulletSize <- 2, BulletStep <- 12, BulletBoost <- 6, MeetPadding <- 10, ScoreWord <- 256,
  Margin <- 5, FixedBarriers <- BuildBarriers, BarrierX_List <- BuildX, BarrierY_List <- BuildY,
  HeightModulus <- 30, LengthModulus <- 50, Draws <- BuildDraws,
  UpgradeSize <- 4, SpeedAt <- At(340, 400), BoostAt <- At(320, 320),   \* lab62.sv:199-202
  Boost2At <- At(320, 160), ArmorAt <- At(300, 15),
  ArmorGap <- 10, ArmorLonger <- 12, ArmorShorter <- 12,
  MoveKeys1 <- {}, MoveKeys2 <- {}, FireKeys1 <- {}, FireKeys2 <- {}, HasButton <- TRUE,
  resetButton <- FALSE, settled <- FALSE, tank1 <- {}, tank2 <- {}, bullet1 <- {}, bullet2 <- {},
  speed <- {}, boost <- {}, boost2 <- {}, armor <- {}, gen1 <- {}, gen2 <- {}, gen3 <- {},
  gen4 <- {}, player_1_hit <- FALSE, player_2_hit <- FALSE, player_1_score <- 0,
  player_2_score <- 0

ASSUME BuildHasTheProportions ==
  /\ Build!SpawnsApart /\ Build!StepFits /\ Build!Proportions /\ Build!BarriersFit
  /\ Build!TanksKeptOut /\ Build!MeetFits
============================================================================
