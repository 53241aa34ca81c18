------------------------------ MODULE Bullet ------------------------------
(***************************************************************************)
(* One bullet: bullet.sv, and bullet2.sv, the same circuit with another    *)
(* fire key.  A tank owns exactly one bullet.  While it is not in flight   *)
(* the bullet's position register follows the tank one frame behind.       *)
(***************************************************************************)
EXTENDS FixedWidth

CONSTANTS
  BulletSize,                 \* half the side of the bullet
  XMin, XMax, YMin, YMax,     \* the edges of the screen
  BulletStep, BulletBoost,    \* pixels per frame, and what the upgrade adds
  FireKey, NoKey,             \* the key code that fires, and any other
  Muzzles                     \* where the tank can be, as far as the bullet sees

ASSUME BulletAssumption ==
  /\ {BulletSize, XMin, XMax, YMin, YMax, BulletStep, BulletBoost} \subseteq Nat
  /\ Muzzles \subseteq [x : Coordinate, y : Coordinate]

VARIABLE bullet
  \* x, y       Bullet_X_Pos, Bullet_Y_Pos
  \* on         bullet_toggle: the bullet is in flight
  \* heading    direction_latched, the one register without a reset
  \* released   fire_button_released

BulletRegisters ==
  [x : Coordinate, y : Coordinate, on : BOOLEAN, heading : Directions, released : BOOLEAN]

\* Mutant: the position is not among what a reset loads.
Reset_KeepsPlace(muzzle) == bullet' = [bullet EXCEPT !.on = FALSE, !.released = TRUE]

\* The position loads the tank's, which is already at its spawn point: the
\* synthesised circuit is a latch that is open as long as Reset is high.
Reset(muzzle) ==
  bullet' = [x |-> muzzle.x, y |-> muzzle.y, on |-> FALSE,
             heading |-> bullet.heading, released |-> TRUE]

\* direction_latched powers up as 00.
Init ==
  \E muzzle \in Muzzles :
    bullet = [x |-> muzzle.x, y |-> muzzle.y, on |-> FALSE, heading |-> "left", released |-> TRUE]

\* Mutant: the wrapped side of the screen is forgotten.
AtBottomEdge_Exact == Wrap(bullet.y + BulletSize) = YMax

AtBottomEdge == Wrap(bullet.y + BulletSize) >= YMax
AtTopEdge    == Wrap(bullet.y - BulletSize) <= YMin
AtRightEdge  == Wrap(bullet.x + BulletSize) >= XMax
AtLeftEdge   == Wrap(bullet.x - BulletSize) <= XMin

AtEdge == AtBottomEdge \/ AtTopEdge \/ AtRightEdge \/ AtLeftEdge

Speed(boosted) == BulletStep + IF boosted THEN BulletBoost ELSE 0

\* Mutants: a step to the left does not wrap, or stops at 0.
Moved_Unwrapped(muzzle, boosted) ==
  [bullet EXCEPT !.x = IF bullet.on THEN @ - BulletStep ELSE muzzle.x]
Moved_Saturating(muzzle, boosted) ==
  LET v == Speed(boosted) IN
  CASE ~bullet.on                            -> [bullet EXCEPT !.x = muzzle.x, !.y = muzzle.y]
    [] bullet.on /\ bullet.heading = "left"  -> [bullet EXCEPT !.x = IF @ > v THEN @ - v ELSE 0]
    [] bullet.on /\ bullet.heading = "right" -> [bullet EXCEPT !.x = Wrap(@ + v)]
    [] bullet.on /\ bullet.heading = "down"  -> [bullet EXCEPT !.y = Wrap(@ + v)]
    [] bullet.on /\ bullet.heading = "up"    -> [bullet EXCEPT !.y = Wrap(@ - v)]

\* Where the position registers go at a frame, whatever becomes of the flight:
\* a bullet that is being turned off still moves this once.
Moved(muzzle, boosted) ==
  LET v == Speed(boosted) IN
  CASE ~bullet.on                            -> [bullet EXCEPT !.x = muzzle.x, !.y = muzzle.y]
    [] bullet.on /\ bullet.heading = "left"  -> [bullet EXCEPT !.x = Wrap(@ - v)]
    [] bullet.on /\ bullet.heading = "right" -> [bullet EXCEPT !.x = Wrap(@ + v)]
    [] bullet.on /\ bullet.heading = "down"  -> [bullet EXCEPT !.y = Wrap(@ + v)]
    [] bullet.on /\ bullet.heading = "up"    -> [bullet EXCEPT !.y = Wrap(@ - v)]

ReadyToFire == bullet.released /\ ~bullet.on

Unobstructed(stopped) == ~AtEdge /\ ~stopped

\* An edge or an obstacle ends the flight; the fire button is not looked at.
Stop(muzzle, stopped, boosted) ==
  /\ ~Unobstructed(stopped)
  /\ bullet' = [Moved(muzzle, boosted) EXCEPT !.on = FALSE]

Fire(key, direction, muzzle, stopped, boosted) ==
  /\ Unobstructed(stopped)
  /\ key = FireKey /\ ReadyToFire
  /\ bullet' = [Moved(muzzle, boosted) EXCEPT
       !.on = TRUE, !.heading = direction, !.released = FALSE]

KeepPressed(key, muzzle, stopped, boosted) ==
  /\ Unobstructed(stopped)
  /\ key = FireKey /\ ~ReadyToFire
  /\ bullet' = [Moved(muzzle, boosted) EXCEPT !.released = FALSE]

Release(key, muzzle, stopped, boosted) ==
  /\ Unobstructed(stopped)
  /\ key # FireKey
  /\ bullet' = [Moved(muzzle, boosted) EXCEPT !.released = TRUE]

(***************************************************************************)
(* One frame.  stopped is the disjunction of barrier_collision,            *)
(* player_hit, bullet_on_bullet_hit and armor_hit.                         *)
(***************************************************************************)
Clock(key, direction, muzzle, stopped, boosted) ==
  \/ Stop(muzzle, stopped, boosted)
  \/ Fire(key, direction, muzzle, stopped, boosted)
  \/ KeepPressed(key, muzzle, stopped, boosted)
  \/ Release(key, muzzle, stopped, boosted)

Frame ==
  \E key \in {FireKey, NoKey}, direction \in Directions, muzzle \in Muzzles,
     stopped \in BOOLEAN, boosted \in BOOLEAN :
       Clock(key, direction, muzzle, stopped, boosted)

Next == Frame \/ \E muzzle \in Muzzles : Reset(muzzle)

\* The pixel clock runs freely, so frames keep coming.
Spec == Init /\ [][Next]_bullet /\ WF_bullet(Frame)

---------------------------------------------------------------------------

\* The registers hold 10-bit coordinates and one of the four directions.
TypeOK == bullet \in BulletRegisters

MaxStep == BulletStep + BulletBoost

(***************************************************************************)
(* A bullet in flight is on the screen or at most a step and its own size  *)
(* away from it.  bullet.sv:40-50 tests the bullet's sides on 10 bits,     *)
(* where a bullet that has crossed the left or top edge is not beyond that *)
(* edge but far to the right or below: only the two opposite tests         *)
(* together keep it from flying in again from the other side, and they     *)
(* miss the coordinates Word - BulletSize .. Word - 1.                     *)
(***************************************************************************)
NearScreen(v, max) == v \in 0 .. max + MaxStep \/ v >= Word - BulletSize - MaxStep

FlightNearScreen == bullet.on => NearScreen(bullet.x, XMax) /\ NearScreen(bullet.y, YMax)

(***************************************************************************)
(* Every flight ends, whether or not it meets an obstacle, so a tank gets  *)
(* its only bullet back.                                                   *)
(***************************************************************************)
FlightEnds == bullet.on ~> ~bullet.on
===========================================================================
