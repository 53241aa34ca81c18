------------------------------- MODULE Arena -------------------------------
(***************************************************************************)
(* lab62.sv: the two tanks, the two bullets, the hit detector, the four    *)
(* upgrades, the three fixed and the four random barriers, wired together. *)
(* All registers are clocked by the same edge of VGA_VS, so one frame is   *)
(* one step in which every component reads the others' old values.         *)
(*                                                                         *)
(* Reset_arena, the reset button or a hit, is an asynchronous reset of     *)
(* everything but the hit detector.  It takes nanoseconds and frames are   *)
(* 16 ms apart: a frame is never sampled between a hit and the reset it    *)
(* causes.  settled records that the reset has taken place.                *)
(***************************************************************************)
EXTENDS FixedWidth

CONSTANTS
  XMin, XMax, YMin, YMax,
  TankSize, Step, FastStep, Spawn1, Spawn2,          \* spawn points [x, y]
  BulletSize, BulletStep, BulletBoost,
  MeetPadding, ScoreWord,
  Margin, FixedBarriers,
  BarrierX_List, BarrierY_List, HeightModulus, LengthModulus,
  Draws,                                             \* per generator, what it may draw
  UpgradeSize, SpeedAt, BoostAt, Boost2At, ArmorAt,  \* collectables' places [x, y]
  ArmorGap, ArmorLonger, ArmorShorter,
  MoveKeys1, MoveKeys2, FireKeys1, FireKeys2,        \* key codes the players use
  HasButton                                          \* someone presses the reset button

ASSUME ArenaAssumption ==
  /\ {TankSize, BulletSize, XMin, XMax, YMin, YMax} \subseteq Nat
  /\ {Step, FastStep, BulletStep, BulletBoost, MeetPadding, ArmorGap} \subseteq Nat
  /\ {ArmorLonger, ArmorShorter} \subseteq Coordinate
  /\ {Spawn1, Spawn2} \subseteq [x : Coordinate, y : Coordinate]
  /\ ScoreWord \in Nat \ {0}

VARIABLES
  resetButton,          \* Reset_h
  settled,
  tank1, tank2, bullet1, bullet2,
  speed, boost, boost2, armor,                       \* us, ub, ub2, ua
  gen1, gen2, gen3, gen4,                            \* bpg to bpg4
  player_1_hit, player_2_hit, player_1_score, player_2_score

T1 == INSTANCE Tank WITH
  tank <- tank1, SpawnX <- Spawn1.x, SpawnY <- Spawn1.y, SpawnDirection <- "right",
  LeftKey <- 4, RightKey <- 7, DownKey <- 22, UpKey <- 26, NoKey <- 0, Boosts <- BOOLEAN
T2 == INSTANCE Tank WITH
  tank <- tank2, SpawnX <- Spawn2.x, SpawnY <- Spawn2.y, SpawnDirection <- "left",
  LeftKey <- 80, RightKey <- 79, DownKey <- 81, UpKey <- 82, NoKey <- 0, Boosts <- BOOLEAN

B1 == INSTANCE Bullet WITH bullet <- bullet1, FireKey <- 44, NoKey <- 0, Muzzles <- {Spawn1}
B2 == INSTANCE Bullet WITH bullet <- bullet2, FireKey <- 88, NoKey <- 0, Muzzles <- {Spawn2}

HD == INSTANCE HitDetector
BR == INSTANCE Barrier

US  == INSTANCE Upgrade WITH upgrade <- speed, UpgradeX <- SpeedAt.x, UpgradeY <- SpeedAt.y
UB  == INSTANCE Upgrade WITH upgrade <- boost, UpgradeX <- BoostAt.x, UpgradeY <- BoostAt.y
UB2 == INSTANCE Upgrade WITH upgrade <- boost2, UpgradeX <- Boost2At.x, UpgradeY <- Boost2At.y
UA  == INSTANCE Armor WITH UpgradeX <- ArmorAt.x, UpgradeY <- ArmorAt.y

G1 == INSTANCE BarrierParamGen WITH gen <- gen1, Draws <- Draws[1]
G2 == INSTANCE BarrierParamGen WITH gen <- gen2, Draws <- Draws[2]
G3 == INSTANCE BarrierParamGen WITH gen <- gen3, Draws <- Draws[3]
G4 == INSTANCE BarrierParamGen WITH gen <- gen4, Draws <- Draws[4]

fighters == <<tank1, tank2, bullet1, bullet2>>
scenery == <<speed, boost, boost2, armor, gen1, gen2, gen3, gen4>>
hits == <<player_1_hit, player_2_hit, player_1_score, player_2_score>>
vars == <<resetButton, settled, fighters, scenery, hits>>

---------------------------------------------------------------------------
\* The wires between the components.

new_round == player_1_hit \/ player_2_hit
Reset_arena == resetButton \/ new_round

Barriers == FixedBarriers \cup {gen1.barrier, gen2.barrier, gen3.barrier, gen4.barrier}

WallsAt(tank) == UNION {BR!WallTouched(tank, b) : b \in Barriers}

bullet_on_bullet_hit == HD!BulletsMeet(bullet1, bullet2)
armor_hit == HD!ArmorHit(armor, bullet1, bullet2)

\* What ends a bullet's flight besides the edges of the screen.
Stopped1 ==
  \/ \E b \in Barriers : BR!Bullet1Touches(bullet1, b)
  \/ new_round \/ bullet_on_bullet_hit \/ armor_hit

Stopped2 ==
  \/ \E b \in Barriers : BR!Bullet2Touches(bullet2, b)
  \/ new_round \/ bullet_on_bullet_hit \/ armor_hit

---------------------------------------------------------------------------

Init ==
  /\ resetButton = FALSE /\ settled = FALSE
  /\ T1!Init /\ T2!Init /\ B1!Init /\ B2!Init
  /\ US!Init /\ UB!Init /\ UB2!Init /\ UA!Init
  /\ G1!Init /\ G2!Init /\ G3!Init /\ G4!Init
  /\ HD!Init

\* A frame of a round, with the key codes the software last wrote.
PlayFrame ==
  /\ ~Reset_arena
  /\ UNCHANGED <<resetButton, settled>>
  /\ HD!Clock(tank1, tank2, bullet1, bullet2)
  /\ US!Clock(tank1, tank2) /\ UB!Clock(tank1, tank2) /\ UB2!Clock(tank1, tank2)
  /\ UA!Clock(tank1, tank2)
  /\ G1!Clock /\ G2!Clock /\ G3!Clock /\ G4!Clock
  /\ LET walls1 == WallsAt(tank1)    walls2 == WallsAt(tank2)
         stopped1 == Stopped1        stopped2 == Stopped2
         boosted1 == boost.p1 \/ boost2.p1
         boosted2 == boost.p2 \/ boost2.p2
     IN  /\ \E key \in MoveKeys1 : T1!Clock(key, speed.p1, walls1)
         /\ \E key \in MoveKeys2 : T2!Clock(key, speed.p2, walls2)
         /\ \E key \in FireKeys1 : B1!Clock(key, tank1.direction, tank1, stopped1, boosted1)
         /\ \E key \in FireKeys2 : B2!Clock(key, tank2.direction, tank2, stopped2, boosted2)

\* Mutant: a reset forgets the first tank.
ResetRegisters_TankStays ==
  /\ UNCHANGED tank1 /\ T2!Reset
  /\ B1!Reset(tank1') /\ B2!Reset(tank2')
  /\ US!Reset /\ UB!Reset /\ UB2!Reset /\ UA!Reset
  /\ G1!Reset /\ G2!Reset /\ G3!Reset /\ G4!Reset

ResetRegisters ==
  /\ T1!Reset /\ T2!Reset
  /\ B1!Reset(tank1') /\ B2!Reset(tank2')
  /\ US!Reset /\ UB!Reset /\ UB2!Reset /\ UA!Reset
  /\ G1!Reset /\ G2!Reset /\ G3!Reset /\ G4!Reset

ArenaReset ==
  /\ Reset_arena /\ ~settled
  /\ ResetRegisters
  /\ settled' = TRUE
  /\ UNCHANGED <<resetButton, hits>>

\* The frame after a kill: the arena is still held in reset, and the hit
\* detector, which is not, looks at it and ends the reset if it sees no hit.
RoundFrame ==
  /\ new_round /\ ~resetButton /\ settled
  /\ ResetRegisters
  /\ HD!Clock(tank1, tank2, bullet1, bullet2)
  /\ settled' = (player_1_hit' \/ player_2_hit')
  /\ UNCHANGED resetButton

\* The button also stops the VGA controller: no frame while it is held.
PressReset ==
  /\ HasButton /\ ~resetButton
  /\ resetButton' = TRUE
  /\ HD!Reset
  /\ UNCHANGED <<settled, fighters, scenery>>

ReleaseReset ==
  /\ resetButton /\ settled
  /\ resetButton' = FALSE /\ settled' = FALSE
  /\ UNCHANGED <<fighters, scenery, hits>>

Next == PlayFrame \/ ArenaReset \/ RoundFrame \/ PressReset \/ ReleaseReset

(***************************************************************************)
(* Frames come from a free running pixel clock and the reset is            *)
(* combinational; nobody has to press the button or ever lets go of it.    *)
(***************************************************************************)
Fairness == WF_vars(PlayFrame) /\ WF_vars(ArenaReset) /\ WF_vars(RoundFrame)

Spec == Init /\ [][Next]_vars /\ Fairness

---------------------------------------------------------------------------
(***************************************************************************)
(* The proportions of the arena that its tests for hits and edges rely on. *)
(* Nothing in the sources states them.                                     *)
(***************************************************************************)

\* A bullet waiting at one spawn point is not in a tank waiting at the other.
SpawnsApart == ~HD!Strikes(Spawn1, Spawn2) /\ ~HD!Strikes(Spawn2, Spawn1)

\* The edge tests of tank.sv look at the position before the step: they are good
\* for steps of one pixel.
InScreen(t) ==
  /\ t.x - TankSize >= XMin /\ t.x + TankSize <= XMax
  /\ t.y - TankSize >= YMin /\ t.y + TankSize <= YMax

StepFits ==
  /\ XMax + TankSize < Word /\ YMax + TankSize < Word
  /\ InScreen(Spawn1) /\ InScreen(Spawn2)
  /\ Step <= 1

\* What a bullet and a tank close in one frame is no more than the box in which the
\* one hits the other.
LongestStep == BulletStep + BulletBoost

Proportions ==
  /\ BulletSize <= TankSize
  /\ \A s \in {Step, FastStep} :
       /\ LongestStep + s <= 2 * (TankSize + BulletSize) + 1
       /\ XMax + s < Word /\ YMax + s < Word
  /\ XMax + LongestStep < Word /\ YMax + LongestStep < Word

\* The barriers of all rounds: the fixed ones, those that a generator makes of what it
\* may draw, and that of a generator which has drawn nothing yet, at the origin.
PossibleBarriers ==
  FixedBarriers
    \cup {G1!Clipped(G1!Origin)}
    \cup UNION {{G1!Clipped(G1!Selected(draw)) : draw \in Draws[g]} : g \in 1 .. 4}

Blocks == [x : Coordinate, y : Coordinate, heightHalved : Nat, lengthHalved : Nat]

(***************************************************************************)
(* A barrier tests no coordinate below its own half length and margin, for *)
(* on 32 bits its left side would be beyond every coordinate: so it must   *)
(* not reach over the left or top edge of the screen, unless it is at the  *)
(* origin, where the generators' barriers are in the first round.  Its     *)
(* box, thin as it may be, is no thinner than a bullet's step.             *)
(***************************************************************************)
Fits(b) ==
  /\ b.heightHalved >= Margin /\ b.lengthHalved >= Margin
  /\ \/ b.x = 0 /\ b.y = 0
     \/ b.x >= b.lengthHalved + Margin /\ b.y >= b.heightHalved + Margin

BarriersFit ==
  /\ Margin \in Nat /\ BulletSize <= 2 * Margin
  /\ LongestStep <= 4 * Margin + 1 /\ LongestStep <= Word
  /\ \A b \in PossibleBarriers : b \in Blocks /\ Fits(b)

(***************************************************************************)
(* What a barrier needs to keep the tanks out: a tank that steps into its  *)
(* box had a side in it before, the box is no narrower than that side is   *)
(* off the centre, and a step that wraps around the 10 bits does not end   *)
(* in it.  A barrier at the origin has no left side, as above.             *)
(***************************************************************************)
Inside(t, b) == BR!InLength(t.x, b) /\ BR!InHeight(t.y, b)

KeepsOut(b) ==
  LET rx == b.lengthHalved + Margin
      ry == b.heightHalved + Margin
  IN  /\ TankSize <= 2 * rx /\ TankSize <= 2 * ry
      /\ \/ b.x = 0 /\ b.y = 0 /\ 0 < rx /\ rx <= Word
         \/ \A s \in {Step, FastStep} :
              /\ s <= b.x - rx /\ b.x + rx + s < Word
              /\ s <= b.y - ry /\ b.y + ry + s < Word
      /\ ~Inside(Spawn1, b) /\ ~Inside(Spawn2, b)

TanksKeptOut ==
  /\ Step <= TankSize /\ FastStep <= TankSize /\ Margin \in Nat
  /\ \A b \in PossibleBarriers : b \in Blocks /\ KeepsOut(b)

\* Two bullets without upgrades close no more in a frame than the padded box in which
\* they meet.
Pad == BulletSize + MeetPadding

MeetFits == 2 * BulletStep <= 2 * Pad + 1 /\ 4 * BulletStep <= Word

---------------------------------------------------------------------------
\* Properties

\* Every component's registers hold what they can hold, those of the generators
\* included: no barrier is anything but what a draw of its own generator makes.
TypeOK ==
  /\ resetButton \in BOOLEAN /\ settled \in BOOLEAN
  /\ T1!TypeOK /\ T2!TypeOK /\ B1!TypeOK /\ B2!TypeOK
  /\ US!TypeOK /\ UB!TypeOK /\ UB2!TypeOK /\ UA!TypeOK
  /\ G1!TypeOK /\ G2!TypeOK /\ G3!TypeOK /\ G4!TypeOK
  /\ HD!TypeOK

(***************************************************************************)
(* The arena keeps the promises of Match: a kill is counted in the frame   *)
(* it happens and never again.  The danger is the frame after a kill: the  *)
(* hit detector runs then too, and must find every bullet and tank already *)
(* back at its spawn point, out of each other's reach.                     *)
(***************************************************************************)
M == INSTANCE Match WITH
  playing <- ~Reset_arena, score1 <- player_1_score, score2 <- player_2_score

MatchSpec == M!Spec

\* A round that ended is followed by another: hits do not hold themselves.
RoundsGoOn == new_round ~> ~new_round

\* A bullet in flight that was short of the centre of a box and is beyond it a
\* frame later, no further off its line than rx or ry before and after.
PassesOver(bullet, bulletN, box, boxN, rx, ry) ==
  LET level   == {bullet.y - box.y, bulletN.y - boxN.y} \subseteq -ry .. ry
      abreast == {bullet.x - box.x, bulletN.x - boxN.x} \subseteq -rx .. rx
  IN  /\ bullet.on
      /\ \/ bullet.heading = "right" /\ level   /\ bullet.x < box.x /\ bulletN.x > boxN.x
         \/ bullet.heading = "left"  /\ level   /\ bullet.x > box.x /\ bulletN.x < boxN.x
         \/ bullet.heading = "down"  /\ abreast /\ bullet.y < box.y /\ bulletN.y > boxN.y
         \/ bullet.heading = "up"    /\ abreast /\ bullet.y > box.y /\ bulletN.y < boxN.y

\* A bullet that passes over a tank's centre is in the tank's box before or after.
PassIsStruck(bullet, bulletN, tank, tankN) ==
  PassesOver(bullet, bulletN, tank, tankN, TankSize, TankSize)
    => HD!Strikes(bullet, tank) \/ HD!Strikes(bulletN, tankN)

(***************************************************************************)
(* A bullet never flies unnoticed through an opposing tank that is on the  *)
(* screen: in the frame before or in the frame after it has passed the     *)
(* tank's centre it is in the box hit_detector.sv tests.  Tank and bullet  *)
(* both move, and positions are compared once per frame.                   *)
(*                                                                         *)
(* A tank whose box reaches over the edge of the screen is excepted.  A    *)
(* fast tank gets there (OnScreenUnlessFast), and on 10 bits its box wraps *)
(* to nothing: in the build that of a tank at x = 7 has its left side at   *)
(* 1023, and a bullet that flies up at x = 9 hits nothing.                 *)
(***************************************************************************)
TanksNotJumped ==
  ~Reset_arena =>
    /\ T2!InArena /\ T2!InArena' => PassIsStruck(bullet1, bullet1', tank2, tank2')
    /\ T1!InArena /\ T1!InArena' => PassIsStruck(bullet2, bullet2', tank1, tank1')

NoBulletThroughTank == [][TanksNotJumped]_vars

\* Nor through a barrier, however thin the generator makes it (barrier.sv:91-151).
BarriersNotJumped ==
  ~Reset_arena =>
    \A b \in Barriers :
      /\ PassesOver(bullet1, bullet1', b, b, b.lengthHalved, b.heightHalved)
           => BR!Bullet1Touches(bullet1, b) \/ BR!Bullet1Touches(bullet1', b)
      /\ PassesOver(bullet2, bullet2', b, b, b.lengthHalved, b.heightHalved)
           => BR!Bullet2Touches(bullet2, b) \/ BR!Bullet2Touches(bullet2', b)

NoBulletThroughBarrier == [][BarriersNotJumped]_vars

\* Two bullets in flight pass each other, and the hit detector sees it.
BulletsPass ==
  /\ PassesOver(bullet1, bullet1', bullet2, bullet2', BulletSize, BulletSize)
  /\ PassesOver(bullet2, bullet2', bullet1, bullet1', BulletSize, BulletSize)

MeetingNoticed ==
  ~Reset_arena /\ BulletsPass => bullet_on_bullet_hit \/ bullet_on_bullet_hit'

\* The near side of the padded box along the bullet's line, and both sides across it,
\* do not wrap.
ClearAlong(bullet, heading) ==
  LET level  == heading \in {"left", "right"}
      along  == IF level THEN bullet.x ELSE bullet.y
      across == IF level THEN bullet.y ELSE bullet.x
  IN  Pad <= along /\ BulletSize <= across /\ across + BulletSize < Word

Boosted == boost.p1 \/ boost2.p1 \/ boost.p2 \/ boost2.p2

PaddingCovers ==
  /\ ~Boosted
  /\ ClearAlong(bullet1, bullet1.heading) /\ ClearAlong(bullet1', bullet1.heading)

(***************************************************************************)
(* Two bullets do not pass each other unnoticed where the padding of       *)
(* hit_detector.sv:178-179 covers them.  There are two exceptions.  With a *)
(* bullet upgrade two bullets close more per frame than the padded box is  *)
(* wide, 30 or 36 in the build against 25.  And within the padding of the  *)
(* left or top edge, 12 pixels in the build, the padded test about the     *)
(* first bullet fails, because on 32 bits the near side of its box is      *)
(* beyond every coordinate.                                                *)
(***************************************************************************)
NoPassThrough == [][PaddingCovers => MeetingNoticed]_vars

(***************************************************************************)
(* "Both bullets hit each other (added extra padding due to sync delay)",  *)
(* says hit_detector.sv:178, without exception: two bullets never pass     *)
(* each other unnoticed.                                                   *)
(***************************************************************************)
EveryMeetingNoticed == [][MeetingNoticed]_vars

(***************************************************************************)
(* Round after round, a tank that is not upgraded is on the screen.  The   *)
(* upgrade can take a tank past an edge test (a finding); what takes the   *)
(* upgrade from it must bring the tank back as well.                       *)
(***************************************************************************)
OnScreenUnlessFast ==
  /\ speed.p1 \/ T1!InArena
  /\ speed.p2 \/ T2!InArena

(***************************************************************************)
(* A tank's centre never gets inside a barrier, though barrier.sv reports  *)
(* a single wall per barrier, tests a side only when the centre is abreast *)
(* of the barrier, and random barriers appear under the tanks' feet.       *)
(***************************************************************************)
OutsideBarriers ==
  \A b \in Barriers : \A tank \in {tank1, tank2} : ~Inside(tank, b)
============================================================================
