---------------------------- MODULE BulletProofs ----------------------------
(***************************************************************************)
(* Type correctness of the bullet, and the theorem that a bullet in flight *)
(* stays within one step of the screen, for every screen, bullet size and  *)
(* pair of steps that the coordinate registers have room for.              *)
(***************************************************************************)
EXTENDS Bullet, TLAPS

(***************************************************************************)
(* The registers have room for a bullet one step beyond the right or the   *)
(* bottom edge, and the tank that owns the bullet is near the screen.  The *)
(* build meets the first with 639 + 18 + 2 < 1024.                         *)
(***************************************************************************)
ScreenFits ==
  /\ XMax + MaxStep + BulletSize < Word
  /\ YMax + MaxStep + BulletSize < Word
  /\ \A muzzle \in Muzzles : NearScreen(muzzle.x, XMax) /\ NearScreen(muzzle.y, YMax)

\* Arithmetic modulo Word stays a coordinate.
LEMMA WrapIsCoordinate == \A n \in Int : Wrap(n) \in Coordinate
  BY WidthAssumption DEF Wrap, Coordinate

\* The step of a frame is one of two numbers, no larger than MaxStep.
LEMMA SpeedIsNat == \A boosted \in BOOLEAN : Speed(boosted) \in Nat /\ Speed(boosted) <= MaxStep
  BY BulletAssumption DEF Speed, MaxStep

\* Where a bullet goes in a frame, the cases of Moved one by one.
LEMMA MovedCases ==
  ASSUME TypeOK, NEW muzzle \in [x : Coordinate, y : Coordinate], NEW boosted \in BOOLEAN,
         NEW moved, moved = Moved(muzzle, boosted)
  PROVE  /\ moved \in BulletRegisters
         /\ \/ ~bullet.on /\ moved.x = muzzle.x /\ moved.y = muzzle.y
            \/ bullet.on /\ moved.x = Wrap(bullet.x - Speed(boosted)) /\ moved.y = bullet.y
            \/ bullet.on /\ moved.x = Wrap(bullet.x + Speed(boosted)) /\ moved.y = bullet.y
            \/ bullet.on /\ moved.x = bullet.x /\ moved.y = Wrap(bullet.y + Speed(boosted))
            \/ bullet.on /\ moved.x = bullet.x /\ moved.y = Wrap(bullet.y - Speed(boosted))
<1>1. /\ bullet.x \in Int /\ bullet.y \in Int /\ Speed(boosted) \in Int
      /\ bullet \in BulletRegisters /\ bullet.heading \in Directions /\ bullet.on \in BOOLEAN
  BY SpeedIsNat, WidthAssumption DEF TypeOK, BulletRegisters, Coordinate
<1>2. /\ Wrap(bullet.x - Speed(boosted)) \in Coordinate
      /\ Wrap(bullet.x + Speed(boosted)) \in Coordinate
      /\ Wrap(bullet.y - Speed(boosted)) \in Coordinate
      /\ Wrap(bullet.y + Speed(boosted)) \in Coordinate
  BY <1>1, WrapIsCoordinate
<1>3. CASE ~bullet.on
  BY <1>1, <1>3 DEF Moved, BulletRegisters
<1>4. CASE bullet.on /\ bullet.heading = "left"
  BY <1>1, <1>2, <1>4 DEF Moved, BulletRegisters
<1>5. CASE bullet.on /\ bullet.heading = "right"
  BY <1>1, <1>2, <1>5 DEF Moved, BulletRegisters
<1>6. CASE bullet.on /\ bullet.heading = "down"
  BY <1>1, <1>2, <1>6 DEF Moved, BulletRegisters
<1>7. CASE bullet.on /\ bullet.heading = "up"
  BY <1>1, <1>2, <1>7 DEF Moved, BulletRegisters
<1> QED BY <1>1, <1>3, <1>4, <1>5, <1>6, <1>7 DEF Directions

(***************************************************************************)
(* A frame keeps the registers well typed, puts the bullet where Moved     *)
(* says, and leaves it in flight only when nothing was in its way.         *)
(***************************************************************************)
LEMMA ClockEffect ==
  ASSUME TypeOK, NEW key, NEW direction \in Directions,
         NEW muzzle \in [x : Coordinate, y : Coordinate],
         NEW stopped \in BOOLEAN, NEW boosted \in BOOLEAN,
         Clock(key, direction, muzzle, stopped, boosted)
  PROVE  /\ TypeOK'
         /\ bullet'.x = Moved(muzzle, boosted).x
         /\ bullet'.y = Moved(muzzle, boosted).y
         /\ bullet'.on => ~AtEdge
<1> DEFINE moved == Moved(muzzle, boosted)
<1>1. moved \in BulletRegisters
  BY MovedCases
<1> HIDE DEF moved
<1>2. CASE Stop(muzzle, stopped, boosted)
  <2>1. bullet' = [moved EXCEPT !.on = FALSE]
    BY <1>2 DEF Stop, moved
  <2>2. /\ bullet' \in BulletRegisters /\ ~bullet'.on
        /\ bullet'.x = moved.x /\ bullet'.y = moved.y
    BY <1>1, <2>1 DEF BulletRegisters
  <2> QED BY <2>2 DEF TypeOK, moved
<1>3. CASE Fire(key, direction, muzzle, stopped, boosted)
  <2>1. /\ bullet' = [moved EXCEPT !.on = TRUE, !.heading = direction, !.released = FALSE]
        /\ ~AtEdge
    BY <1>3 DEF Fire, Unobstructed, moved
  <2>2. bullet' \in BulletRegisters /\ bullet'.x = moved.x /\ bullet'.y = moved.y
    BY <1>1, <2>1 DEF BulletRegisters
  <2> QED BY <2>1, <2>2 DEF TypeOK, moved
<1>4. CASE KeepPressed(key, muzzle, stopped, boosted)
  <2>1. bullet' = [moved EXCEPT !.released = FALSE] /\ ~AtEdge
    BY <1>4 DEF KeepPressed, Unobstructed, moved
  <2>2. bullet' \in BulletRegisters /\ bullet'.x = moved.x /\ bullet'.y = moved.y
    BY <1>1, <2>1 DEF BulletRegisters
  <2> QED BY <2>1, <2>2 DEF TypeOK, moved
<1>5. CASE Release(key, muzzle, stopped, boosted)
  <2>1. bullet' = [moved EXCEPT !.released = TRUE] /\ ~AtEdge
    BY <1>5 DEF Release, Unobstructed, moved
  <2>2. bullet' \in BulletRegisters /\ bullet'.x = moved.x /\ bullet'.y = moved.y
    BY <1>1, <2>1 DEF BulletRegisters
  <2> QED BY <2>1, <2>2 DEF TypeOK, moved
<1> QED BY <1>2, <1>3, <1>4, <1>5 DEF Clock

\* A reset keeps the registers well typed, loads the position and ends the flight.
LEMMA ResetEffect ==
  ASSUME TypeOK, NEW muzzle \in [x : Coordinate, y : Coordinate], Reset(muzzle)
  PROVE  TypeOK' /\ bullet'.x = muzzle.x /\ bullet'.y = muzzle.y /\ ~bullet'.on
  BY DEF TypeOK, BulletRegisters, Reset

(***************************************************************************)
(* The registers always hold coordinates and a direction: every assignment *)
(* of bullet.sv is a wrapped sum, a constant or another register.          *)
(***************************************************************************)
THEOREM BulletTypeOK == Spec => []TypeOK
<1>1. Init => TypeOK
  BY BulletAssumption DEF Init, TypeOK, BulletRegisters, Directions
<1>2. TypeOK /\ [Next]_bullet => TypeOK'
  <2> SUFFICES ASSUME TypeOK, [Next]_bullet PROVE TypeOK'
    OBVIOUS
  <2>1. CASE Frame
    BY <2>1, ClockEffect, BulletAssumption DEF Frame
  <2>2. ASSUME NEW muzzle \in Muzzles, Reset(muzzle) PROVE TypeOK'
    BY <2>2, ResetEffect, BulletAssumption
  <2>3. CASE UNCHANGED bullet
    BY <2>3 DEF TypeOK
  <2> QED BY <2>1, <2>2, <2>3 DEF Next
<1> QED BY <1>1, <1>2, PTL DEF Spec

(***************************************************************************)
(* One step along an axis from a place where neither edge test of the axis *)
(* succeeds ends near the screen.  A coordinate below Word - BulletSize is *)
(* really left of the right edge; one above it is a little off the left    *)
(* edge, and a step takes it no further than that from either side.        *)
(***************************************************************************)
LEMMA StepStaysNear ==
  ASSUME NEW v \in Coordinate, NEW max \in Nat, NEW s \in Nat,
         s <= MaxStep, max + MaxStep + BulletSize < Word,
         ~(Wrap(v + BulletSize) >= max)
  PROVE  NearScreen(Wrap(v + s), max) /\ NearScreen(Wrap(v - s), max)
<1>1. /\ v \in Nat /\ v < Word /\ Word \in Nat /\ Word > 0
      /\ BulletSize \in Nat /\ MaxStep \in Nat
  BY WidthAssumption, BulletAssumption DEF Coordinate, MaxStep
<1>2. CASE v + BulletSize < Word
  <2>1. v + BulletSize < max
    BY <1>1, <1>2 DEF Wrap
  <2>2. v + s \in 0 .. max + MaxStep /\ Wrap(v + s) = v + s
    BY <1>1, <2>1 DEF Wrap
  <2>3. CASE s <= v
    <3>1. v - s \in 0 .. max + MaxStep /\ Wrap(v - s) = v - s
      BY <1>1, <2>1, <2>3 DEF Wrap
    <3> QED BY <2>2, <3>1 DEF NearScreen
  <2>4. CASE s > v
    <3>1. Wrap(v - s) = Word + v - s
      BY <1>1, <2>4 DEF Wrap
    <3>2. Wrap(v - s) >= Word - BulletSize - MaxStep
      BY <1>1, <3>1
    <3> QED BY <2>2, <3>2 DEF NearScreen
  <2> QED BY <1>1, <2>3, <2>4
<1>3. CASE v + BulletSize >= Word
  <2>1. Wrap(v - s) = v - s /\ v - s >= Word - BulletSize - MaxStep
    BY <1>1, <1>3 DEF Wrap
  <2>2. CASE v + s < Word
    <3>1. Wrap(v + s) = v + s /\ v + s >= Word - BulletSize - MaxStep
      BY <1>1, <1>3, <2>2 DEF Wrap
    <3> QED BY <2>1, <3>1 DEF NearScreen
  <2>3. CASE v + s >= Word
    <3>1. Wrap(v + s) = v + s - Word /\ v + s - Word \in 0 .. max + MaxStep
      BY <1>1, <2>3 DEF Wrap
    <3> QED BY <2>1, <3>1 DEF NearScreen
  <2> QED BY <1>1, <2>2, <2>3
<1> QED BY <1>1, <1>2, <1>3

(***************************************************************************)
(* A bullet in flight never gets farther from the screen than a step and   *)
(* its own size, so it cannot travel round the coordinate space and come   *)
(* back on the other side.  A bullet that is still in flight after a frame *)
(* either left its muzzle in it, or moved one step from a place where the  *)
(* edge tests failed.                                                      *)
(***************************************************************************)
THEOREM BulletStaysNear ==
  ASSUME ScreenFits
  PROVE  Spec => []FlightNearScreen
<1>1. Init => FlightNearScreen
  BY DEF Init, FlightNearScreen
<1>2. TypeOK /\ FlightNearScreen /\ [Next]_bullet => FlightNearScreen'
  <2> SUFFICES ASSUME TypeOK, FlightNearScreen, [Next]_bullet PROVE FlightNearScreen'
    OBVIOUS
  <2>1. ASSUME NEW key \in {FireKey, NoKey}, NEW direction \in Directions, NEW muzzle \in Muzzles,
               NEW stopped \in BOOLEAN, NEW boosted \in BOOLEAN,
               Clock(key, direction, muzzle, stopped, boosted)
        PROVE  FlightNearScreen'
    <3> SUFFICES ASSUME bullet'.on
                 PROVE  NearScreen(bullet'.x, XMax) /\ NearScreen(bullet'.y, YMax)
      BY DEF FlightNearScreen, NearScreen
    <3> DEFINE moved == Moved(muzzle, boosted)
    <3>1. muzzle \in [x : Coordinate, y : Coordinate]
      BY BulletAssumption
    <3>2. ~AtEdge /\ bullet'.x = moved.x /\ bullet'.y = moved.y
      BY <2>1, <3>1, ClockEffect
    <3>3. \/ ~bullet.on /\ moved.x = muzzle.x /\ moved.y = muzzle.y
          \/ bullet.on /\ moved.x = Wrap(bullet.x - Speed(boosted)) /\ moved.y = bullet.y
          \/ bullet.on /\ moved.x = Wrap(bullet.x + Speed(boosted)) /\ moved.y = bullet.y
          \/ bullet.on /\ moved.x = bullet.x /\ moved.y = Wrap(bullet.y + Speed(boosted))
          \/ bullet.on /\ moved.x = bullet.x /\ moved.y = Wrap(bullet.y - Speed(boosted))
      BY <3>1, MovedCases
    <3> HIDE DEF moved
    <3>4. /\ bullet.x \in Coordinate /\ bullet.y \in Coordinate
          /\ Speed(boosted) \in Nat /\ Speed(boosted) <= MaxStep
          /\ XMax \in Nat /\ YMax \in Nat
          /\ ~(Wrap(bullet.x + BulletSize) >= XMax) /\ ~(Wrap(bullet.y + BulletSize) >= YMax)
      BY <3>2, SpeedIsNat, BulletAssumption
         DEF AtEdge, AtRightEdge, AtBottomEdge, TypeOK, BulletRegisters
    <3>5. /\ NearScreen(Wrap(bullet.x + Speed(boosted)), XMax)
          /\ NearScreen(Wrap(bullet.x - Speed(boosted)), XMax)
          /\ NearScreen(Wrap(bullet.y + Speed(boosted)), YMax)
          /\ NearScreen(Wrap(bullet.y - Speed(boosted)), YMax)
      BY <3>4, StepStaysNear, ScreenFits DEF ScreenFits
    <3>6. bullet.on => NearScreen(bullet.x, XMax) /\ NearScreen(bullet.y, YMax)
      BY DEF FlightNearScreen
    <3>7. NearScreen(muzzle.x, XMax) /\ NearScreen(muzzle.y, YMax)
      BY ScreenFits DEF ScreenFits
    <3> QED BY <3>2, <3>3, <3>5, <3>6, <3>7
  <2>2. ASSUME NEW muzzle \in Muzzles, Reset(muzzle) PROVE FlightNearScreen'
    BY <2>2, ResetEffect, BulletAssumption DEF FlightNearScreen
  <2>3. CASE UNCHANGED bullet
    BY <2>3 DEF FlightNearScreen, NearScreen
  <2> QED BY <2>1, <2>2, <2>3 DEF Next, Frame
<1> QED BY <1>1, <1>2, BulletTypeOK, PTL DEF Spec
=============================================================================
