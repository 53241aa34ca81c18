---------------------------- MODULE HitDetector ----------------------------
(***************************************************************************)
(* hit_detector.sv: decides once per frame whether a bullet is in the      *)
(* opposing tank, keeps the two scores, and tells the bullets, without a   *)
(* register in between, when they meet each other or a tank's armor.       *)
(* It is reset by the reset button alone; a hit resets everything else.    *)
(* bullet_on is not among its inputs.                                      *)
(***************************************************************************)
EXTENDS FixedWidth

CONSTANTS
  TankSize, BulletSize,
  MeetPadding,          \* the 10 of hit_detector.sv:179
  ScoreWord             \* number of values of a score register

VARIABLES
  player_1_hit, player_2_hit,        \* p1_hit_latched, p2_hit_latched
  player_1_score, player_2_score

hitRegisters == <<player_1_hit, player_2_hit, player_1_score, player_2_score>>

\* The hits are bits and the scores do not outgrow their registers.
TypeOK ==
  /\ player_1_hit \in BOOLEAN /\ player_2_hit \in BOOLEAN
  /\ player_1_score \in 0 .. ScoreWord - 1 /\ player_2_score \in 0 .. ScoreWord - 1

Init ==
  /\ player_1_hit = FALSE /\ player_2_hit = FALSE
  /\ player_1_score = 0 /\ player_2_score = 0

Reset ==
  /\ player_1_hit' = FALSE /\ player_2_hit' = FALSE
  /\ player_1_score' = 0 /\ player_2_score' = 0

(***************************************************************************)
(* The four side tests of a bullet against a box: its right or left side   *)
(* is in the box at the height of its centre, or its bottom or top side is *)
(* at the abscissa of its centre.                                          *)
(***************************************************************************)
InBox(bullet, x, y, rx, ry) ==
  \/ /\ \E side \in {bullet.x + BulletSize, bullet.x - BulletSize} : Within(Wrap(side), x, rx)
     /\ Within(bullet.y, y, ry)
  \/ /\ \E side \in {bullet.y + BulletSize, bullet.y - BulletSize} : Within(Wrap(side), y, ry)
     /\ Within(bullet.x, x, rx)

\* Mutants: the bullet is taken for a point, a hit holds itself, and bullets have
\* to touch to meet.
Strikes_Centre(bullet, tank) ==
  Within(bullet.x, tank.x, TankSize) /\ Within(bullet.y, tank.y, TankSize)

Strikes(bullet, tank) == InBox(bullet, tank.x, tank.y, TankSize, TankSize)

Clock_Sticky(tank1, tank2, bullet1, bullet2) ==
  /\ player_1_hit' = (player_1_hit \/ Strikes(bullet2, tank1))
  /\ player_2_hit' = (player_2_hit \/ Strikes(bullet1, tank2))
  /\ UNCHANGED <<player_1_score, player_2_score>>

\* Each player's bullet is tested against the other player's tank.
Clock(tank1, tank2, bullet1, bullet2) ==
  LET hit1 == Strikes(bullet2, tank1)
      hit2 == Strikes(bullet1, tank2)
  IN  /\ player_1_hit' = hit1
      /\ player_2_hit' = hit2
      /\ player_1_score' = IF hit2 THEN (player_1_score + 1) % ScoreWord ELSE player_1_score
      /\ player_2_score' = IF hit1 THEN (player_2_score + 1) % ScoreWord ELSE player_2_score

BulletsMeet_Unpadded(bullet1, bullet2) ==
  Within(bullet2.x, bullet1.x, BulletSize) /\ Within(bullet2.y, bullet1.y, BulletSize)

\* bullet_on_bullet_hit: equal up to the bullet's size on one axis, and up to
\* that size and the padding on the other.
BulletsMeet(bullet1, bullet2) ==
  \/ /\ WithinWide(bullet2.x, bullet1.x, BulletSize + MeetPadding)
     /\ Within(bullet2.y, bullet1.y, BulletSize)
  \/ /\ WithinWide(bullet2.y, bullet1.y, BulletSize + MeetPadding)
     /\ Within(bullet2.x, bullet1.x, BulletSize)

\* armor_hit: either bullet is in the armor's box.
ArmorHit(armor, bullet1, bullet2) ==
  /\ armor.collected
  /\ \E bullet \in {bullet1, bullet2} :
       InBox(bullet, armor.x, armor.y, armor.lengthHalved, armor.heightHalved)
============================================================================
