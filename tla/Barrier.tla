------------------------------ MODULE Barrier ------------------------------
(***************************************************************************)
(* barrier.sv: the contacts of one rectangular barrier with the two tanks  *)
(* and the two bullets.  It has no register: everything is a function of   *)
(* the positions, evaluated on 32 bits because of the literal margin 5.    *)
(* A barrier is [x, y, heightHalved, lengthHalved].                        *)
(***************************************************************************)
EXTENDS FixedWidth

CONSTANTS
  TankSize, BulletSize,
  Margin                \* the 5 of barrier.sv:30

\* Mutant: the margin is forgotten.
InLength_NoMargin(v, b) == WithinWide(v, b.x, b.lengthHalved)

InLength(v, b) == WithinWide(v, b.x, b.lengthHalved + Margin)
InHeight(v, b) == WithinWide(v, b.y, b.heightHalved + Margin)

(***************************************************************************)
(* The wall a tank touches: the first of four side tests that succeeds, so *)
(* at most one.  A side counts only if the tank's centre is abreast of the *)
(* barrier on the other axis.                                              *)
(***************************************************************************)
WallTouched(tank, b) ==
  LET right  == InLength(tank.x + TankSize, b) /\ InHeight(tank.y, b)
      left   == InLength(tank.x - TankSize, b) /\ InHeight(tank.y, b)
      bottom == InHeight(tank.y + TankSize, b) /\ InLength(tank.x, b)
      top    == InHeight(tank.y - TankSize, b) /\ InLength(tank.x, b)
  IN  CASE right                                -> {"leftWall"}
        [] ~right /\ left                       -> {"rightWall"}
        [] ~right /\ ~left /\ bottom            -> {"topWall"}
        [] ~right /\ ~left /\ ~bottom /\ top    -> {"bottomWall"}
        [] OTHER                                -> {}

\* The side tests of a bullet, but for its top side.
SidesTouch(bullet, b) ==
  \/ /\ \E side \in {bullet.x + BulletSize, bullet.x - BulletSize} : InLength(side, b)
     /\ InHeight(bullet.y, b)
  \/ /\ InHeight(bullet.y + BulletSize, b)
     /\ InLength(bullet.x, b)

Bullet1Touches(bullet, b) ==
  \/ SidesTouch(bullet, b)
  \/ InHeight(bullet.y - BulletSize, b) /\ InLength(bullet.x, b)

\* The right bound of the last test is 5 short where every other one is 5 wide
\* (barrier.sv:146).
Bullet2Touches(bullet, b) ==
  \/ SidesTouch(bullet, b)
  \/ /\ InHeight(bullet.y - BulletSize, b)
     /\ WrapWide(bullet.x) <= WrapWide(b.x + b.lengthHalved - Margin)
     /\ WrapWide(bullet.x) >= WrapWide(b.x - b.lengthHalved - Margin)
============================================================================
