----------------------------- MODULE MCBullet -----------------------------
(***************************************************************************)
(* The bullet of the build.  Its steps, 12 and 18, are multiples of 6, so  *)
(* of the places a tank can be at only the remainders by 6 matter: six     *)
(* places stand for all of them.                                           *)
(***************************************************************************)
EXTENDS Bullet, MCBuild

TankPlaces == {[x |-> 318 + i, y |-> 238 + i] : i \in 0 .. 5}
===========================================================================
