---------------------------- MODULE ArenaProofs ----------------------------
(***************************************************************************)
(* What holds in every arena, whatever its screen, speeds, barriers and    *)
(* upgrades, given the proportions of Arena that each theorem names:       *)
(*   - it implements Match: every kill is counted once;                    *)
(*   - its registers hold what they can hold;                              *)
(*   - a tank without the speed upgrade is on the screen;                  *)
(*   - no bullet flies through a tank or a barrier, and two bullets do not *)
(*     pass each other, though all of them are compared once per frame.    *)
(* Tank, Bullet and Upgrade are instantiated for each player, so that a    *)
(* lemma about one instance is stated again for the other.                 *)
(***************************************************************************)
EXTENDS Arena, TLAPS

\* x lies where y does
SamePlace(x, y) == x.x = y.x /\ x.y = y.y

AtSpawns ==
  /\ SamePlace(tank1, Spawn1) /\ SamePlace(bullet1, Spawn1)
  /\ SamePlace(tank2, Spawn2) /\ SamePlace(bullet2, Spawn2)

(***************************************************************************)
(* The inductive invariant.  A hit is only ever looked at again, by the    *)
(* frame after it, once the asynchronous reset has put everything back at  *)
(* its spawn point; and the reset button, which clears the scores, clears  *)
(* the hits with them.                                                     *)
(***************************************************************************)
ResetInv ==
  /\ resetButton \in BOOLEAN /\ settled \in BOOLEAN
  /\ player_1_hit \in BOOLEAN /\ player_2_hit \in BOOLEAN
  /\ resetButton => ~new_round
  /\ settled => Reset_arena /\ AtSpawns

\* Whether a bullet strikes a tank depends on where the two are, and on nothing else.
LEMMA StrikesByPlace ==
  ASSUME NEW b, NEW t, NEW c, NEW u, SamePlace(b, c), SamePlace(t, u)
  PROVE  HD!Strikes(b, t) <=> HD!Strikes(c, u)
  BY DEF SamePlace, HD!Strikes, HD!InBox

\* The frame's verdict: hits are the strikes it saw, and a strike is worth a point.
LEMMA HitsAreStrikes ==
  ASSUME HD!Clock(tank1, tank2, bullet1, bullet2)
  PROVE  /\ player_1_hit' \in BOOLEAN /\ player_2_hit' \in BOOLEAN
         /\ player_1_hit' <=> HD!Strikes(bullet2, tank1)
         /\ player_2_hit' <=> HD!Strikes(bullet1, tank2)
         /\ player_1_score' = M!Counted(player_1_score, HD!Strikes(bullet1, tank2))
         /\ player_2_score' = M!Counted(player_2_score, HD!Strikes(bullet2, tank1))
  BY DEF HD!Clock, M!Counted, HD!Strikes, HD!InBox

\* A reset puts tanks and bullets at their spawn points.
LEMMA ResetPutsAtSpawns == ResetRegisters => AtSpawns'
  BY DEF ResetRegisters, T1!Reset, T2!Reset, T1!Spawned, T2!Spawned, B1!Reset, B2!Reset,
         AtSpawns, SamePlace
\* With the tanks and bullets at their spawn points nobody strikes anybody.
LEMMA NoStrikeAtSpawns ==
  ASSUME SpawnsApart, AtSpawns
  PROVE  ~HD!Strikes(bullet1, tank2) /\ ~HD!Strikes(bullet2, tank1)
  BY StrikesByPlace DEF SpawnsApart, AtSpawns

LEMMA ResetInvInit == Init => ResetInv
  BY DEF Init, HD!Init, ResetInv, new_round, Reset_arena

LEMMA ResetInvNext ==
  ASSUME ResetInv, [Next]_vars
  PROVE  ResetInv'
<1>1. CASE PlayFrame
  <2>1. ~Reset_arena /\ ~settled /\ ~resetButton /\ UNCHANGED <<resetButton, settled>>
    BY <1>1 DEF PlayFrame, ResetInv, Reset_arena
  <2>2. player_1_hit' \in BOOLEAN /\ player_2_hit' \in BOOLEAN
    BY <1>1, HitsAreStrikes DEF PlayFrame
  <2> QED BY <2>1, <2>2 DEF ResetInv
<1>2. CASE ArenaReset
  <2>1. AtSpawns' /\ Reset_arena' /\ settled' \in BOOLEAN
    BY <1>2, ResetPutsAtSpawns DEF ArenaReset, Reset_arena, new_round, hits
  <2> QED BY <1>2, <2>1 DEF ArenaReset, ResetInv, new_round, hits
<1>3. CASE RoundFrame
  <2>1. player_1_hit' \in BOOLEAN /\ player_2_hit' \in BOOLEAN
    BY <1>3, HitsAreStrikes DEF RoundFrame
  <2>2. AtSpawns' /\ ~resetButton /\ UNCHANGED resetButton
    BY <1>3, ResetPutsAtSpawns DEF RoundFrame
  <2>3. settled' = (player_1_hit' \/ player_2_hit')
    BY <1>3 DEF RoundFrame
  <2> QED BY <2>1, <2>2, <2>3 DEF ResetInv, Reset_arena, new_round
<1>4. CASE PressReset
  <2>1. resetButton' = TRUE /\ player_1_hit' = FALSE /\ player_2_hit' = FALSE
    BY <1>4 DEF PressReset, HD!Reset
  <2>2. UNCHANGED <<settled, tank1, tank2, bullet1, bullet2>>
    BY <1>4 DEF PressReset, fighters
  <2>3. AtSpawns => AtSpawns'
    BY <2>2 DEF AtSpawns, SamePlace
  <2> QED BY <2>1, <2>2, <2>3 DEF ResetInv, Reset_arena, new_round
<1>5. CASE ReleaseReset
  BY <1>5 DEF ReleaseReset, ResetInv, hits
<1>6. CASE UNCHANGED vars
  BY <1>6 DEF vars, fighters, hits, ResetInv, Reset_arena, new_round, AtSpawns, SamePlace
<1> QED BY <1>1, <1>2, <1>3, <1>4, <1>5, <1>6 DEF Next

\* A reset always finds, and leaves, the arena in the state the code counts on.
THEOREM ResetInvariant == Spec => []ResetInv
  BY ResetInvInit, ResetInvNext, PTL DEF Spec

(***************************************************************************)
(* Every step of the arena is a step of Match or changes nothing there: a  *)
(* frame of a round with a strike is a Kill, the frame after it, which     *)
(* finds everything at its spawn point, starts a new round, and so does    *)
(* letting go of the button.                                               *)
(***************************************************************************)
LEMMA StepImplementsMatch ==
  ASSUME SpawnsApart, ResetInv, ResetInv', [Next]_vars
  PROVE  [M!Next]_(M!vars)
<1> DEFINE killed1 == HD!Strikes(bullet2, tank1)
           killed2 == HD!Strikes(bullet1, tank2)
<1>0. killed1 \in BOOLEAN /\ killed2 \in BOOLEAN
  BY DEF HD!Strikes, HD!InBox
<1>1. CASE PlayFrame
  <2>1. ~Reset_arena /\ ~resetButton /\ ~resetButton'
    BY <1>1 DEF PlayFrame, Reset_arena, ResetInv
  <2>2. /\ player_1_hit' <=> killed1
        /\ player_2_hit' <=> killed2
        /\ player_1_score' = M!Counted(player_1_score, killed2)
        /\ player_2_score' = M!Counted(player_2_score, killed1)
    BY <1>1, HitsAreStrikes DEF PlayFrame
  <2> HIDE DEF killed1, killed2
  <2>3. CASE killed1 \/ killed2
    <3>1. Reset_arena'
      BY <2>2, <2>3 DEF Reset_arena, new_round
    <3> QED BY <1>0, <2>1, <2>2, <2>3, <3>1 DEF M!Next, M!Kill, Reset_arena
  <2>4. CASE ~killed1 /\ ~killed2
    <3>1. ~Reset_arena'
      BY <2>1, <2>2, <2>4 DEF Reset_arena, new_round
    <3>2. UNCHANGED <<player_1_score, player_2_score>>
      BY <2>2, <2>4 DEF M!Counted
    <3> QED BY <2>1, <3>1, <3>2 DEF M!vars
  <2> QED BY <2>3, <2>4
<1>2. CASE ArenaReset
  BY <1>2 DEF ArenaReset, hits, M!vars, Reset_arena, new_round
<1>3. CASE RoundFrame
  <2>1. Reset_arena /\ AtSpawns /\ ~resetButton'
    BY <1>3 DEF RoundFrame, ResetInv
  <2>2. ~killed1 /\ ~killed2
    BY <2>1, NoStrikeAtSpawns
  <2>3. /\ ~player_1_hit' /\ ~player_2_hit'
        /\ UNCHANGED <<player_1_score, player_2_score>>
    BY <1>3, <2>2, HitsAreStrikes DEF RoundFrame, M!Counted
  <2> QED BY <2>1, <2>3 DEF M!Next, M!NewRound, Reset_arena, new_round
<1>4. CASE PressReset
  BY <1>4 DEF PressReset, HD!Reset, M!Next, M!NewMatch, Reset_arena
<1>5. CASE ReleaseReset
  <2>1. Reset_arena /\ ~new_round /\ ~new_round' /\ ~resetButton'
    BY <1>5 DEF ReleaseReset, ResetInv, hits, new_round, Reset_arena
  <2>2. UNCHANGED <<player_1_score, player_2_score>>
    BY <1>5 DEF ReleaseReset, hits
  <2> QED BY <2>1, <2>2 DEF M!Next, M!NewRound, Reset_arena
<1>6. CASE UNCHANGED vars
  BY <1>6 DEF vars, hits, M!vars, Reset_arena, new_round
<1> QED BY <1>1, <1>2, <1>3, <1>4, <1>5, <1>6 DEF Next

(***************************************************************************)
(* The arena implements Match for every screen, speed, barrier and upgrade *)
(* layout: a point is won in the frame of the kill and never a second time *)
(* in the frame after it, and only the reset button takes points away.     *)
(***************************************************************************)
THEOREM ArenaImplementsMatch ==
  ASSUME SpawnsApart
  PROVE  Spec => MatchSpec
<1>1. Init => M!Init
  BY DEF Init, HD!Init, M!Init, Reset_arena, new_round
<1>2. ResetInv /\ ResetInv' /\ [Next]_vars => [M!Next]_(M!vars)
  BY StepImplementsMatch
<1> QED BY <1>1, <1>2, ResetInvariant, PTL DEF Spec, MatchSpec, M!Spec

---------------------------------------------------------------------------
(***************************************************************************)
(* The types.  Each instance has a copy of the arithmetic of FixedWidth.   *)
(***************************************************************************)
Tanks == [x : Coordinate, y : Coordinate, direction : Directions]
Bullets ==
  [x : Coordinate, y : Coordinate, on : BOOLEAN, heading : Directions, released : BOOLEAN]
Upgrades == [p1 : BOOLEAN, p2 : BOOLEAN, collected : BOOLEAN]
Armors ==
  [x : Coordinate, y : Coordinate, lengthHalved : Coordinate, heightHalved : Coordinate,
   owner : 0 .. 2, collected : BOOLEAN]

LEMMA OneArithmetic ==
  /\ \A n \in Int : Wrap(n) \in Coordinate
  /\ \A n \in Coordinate : Wrap(n) = n /\ n \in Int
  /\ \A n : T1!Wrap(n) = Wrap(n) /\ T2!Wrap(n) = Wrap(n)
  /\ \A n : B1!Wrap(n) = Wrap(n) /\ B2!Wrap(n) = Wrap(n) /\ UA!Wrap(n) = Wrap(n)
<1>1. /\ \A n \in Int : Wrap(n) \in Coordinate
      /\ \A n \in Coordinate : Wrap(n) = n /\ n \in Int
  BY WidthAssumption DEF Wrap, Coordinate
<1>2. /\ \A n : T1!Wrap(n) = Wrap(n) /\ T2!Wrap(n) = Wrap(n)
      /\ \A n : B1!Wrap(n) = Wrap(n) /\ B2!Wrap(n) = Wrap(n) /\ UA!Wrap(n) = Wrap(n)
  BY Zenon DEF Wrap, T1!Wrap, T2!Wrap, B1!Wrap, B2!Wrap, UA!Wrap
<1> QED
  BY <1>1, <1>2

LEMMA OneRecords ==
  /\ T1!TypeOK <=> tank1 \in Tanks
  /\ T2!TypeOK <=> tank2 \in Tanks
  /\ B1!TypeOK <=> bullet1 \in Bullets
  /\ B2!TypeOK <=> bullet2 \in Bullets
  /\ US!TypeOK <=> speed \in Upgrades
  /\ UB!TypeOK <=> boost \in Upgrades
  /\ UB2!TypeOK <=> boost2 \in Upgrades
  /\ UA!TypeOK <=> armor \in Armors
  BY DEF T1!TypeOK, T2!TypeOK, B1!TypeOK, B2!TypeOK, US!TypeOK, UB!TypeOK, UB2!TypeOK, UA!TypeOK,
         T1!TankRegisters, T2!TankRegisters, B1!BulletRegisters, B2!BulletRegisters,
         Tanks, Bullets, Upgrades, Armors, Coordinate, Directions,
         T1!Coordinate, T2!Coordinate, B1!Coordinate, B2!Coordinate, UA!Coordinate,
         T1!Directions, T2!Directions, B1!Directions, B2!Directions

(***************************************************************************)
(* What a frame does to a tank: it drives along one axis by its stride,    *)
(* away from an edge that it does not touch, or stays where it is.         *)
(***************************************************************************)
Drives(t, u, s) ==
  \/ u.x = t.x /\ u.y = t.y
  \/ u.y = t.y /\ ~(Wrap(t.x - TankSize) <= XMin) /\ u.x = Wrap(t.x - s)
  \/ u.y = t.y /\ ~(Wrap(t.x + TankSize) >= XMax) /\ u.x = Wrap(t.x + s)
  \/ u.x = t.x /\ ~(Wrap(t.y - TankSize) <= YMin) /\ u.y = Wrap(t.y - s)
  \/ u.x = t.x /\ ~(Wrap(t.y + TankSize) >= YMax) /\ u.y = Wrap(t.y + s)

\* And away from a wall that it touches.
Heeds(t, u, s, walls) ==
  \/ u.x = t.x /\ u.y = t.y
  \/ u.y = t.y /\ "rightWall" \notin walls /\ u.x = Wrap(t.x - s)
  \/ u.y = t.y /\ "leftWall" \notin walls /\ u.x = Wrap(t.x + s)
  \/ u.x = t.x /\ "bottomWall" \notin walls /\ u.y = Wrap(t.y - s)
  \/ u.x = t.x /\ "topWall" \notin walls /\ u.y = Wrap(t.y + s)

Stride(fast) == IF fast THEN FastStep ELSE Step

LEMMA Tank1Drives ==
  ASSUME tank1 \in Tanks, NEW key, NEW fast \in BOOLEAN, NEW walls, T1!Clock(key, fast, walls)
  PROVE  /\ tank1' \in Tanks
         /\ Drives(tank1, tank1', Stride(fast))
         /\ Heeds(tank1, tank1', Stride(fast), walls)
<1> DEFINE s == Stride(fast)
<1>1. s \in Nat /\ tank1.x \in Int /\ tank1.y \in Int /\ T1!Stride(fast) = s
  BY ArenaAssumption, OneArithmetic DEF Tanks, Stride, T1!Stride
<1>2. /\ Wrap(tank1.x - s) \in Coordinate /\ Wrap(tank1.x + s) \in Coordinate
      /\ Wrap(tank1.y - s) \in Coordinate /\ Wrap(tank1.y + s) \in Coordinate
  BY <1>1, OneArithmetic
<1> HIDE DEF s
<1>3. CASE T1!Left(key, fast, walls)
  <2>1. PICK x \in {tank1.x, Wrap(tank1.x - s)} : 
          /\ tank1' = [tank1 EXCEPT !.x = x, !.direction = "left"]
          /\ x = tank1.x \/ (~(Wrap(tank1.x - TankSize) <= XMin) /\ "rightWall" \notin walls)
    BY <1>1, <1>3, OneArithmetic DEF T1!Left, T1!AtLeftEdge
  <2> QED
    BY <1>1, <1>2, <2>1 DEF Tanks, Drives, Heeds, s, Directions
<1>4. CASE T1!Right(key, fast, walls)
  <2>1. PICK x \in {tank1.x, Wrap(tank1.x + s)} : 
          /\ tank1' = [tank1 EXCEPT !.x = x, !.direction = "right"]
          /\ x = tank1.x \/ (~(Wrap(tank1.x + TankSize) >= XMax) /\ "leftWall" \notin walls)
    BY <1>1, <1>4, OneArithmetic DEF T1!Right, T1!AtRightEdge
  <2> QED
    BY <1>1, <1>2, <2>1 DEF Tanks, Drives, Heeds, s, Directions
<1>5. CASE T1!Down(key, fast, walls)
  <2>1. PICK y \in {tank1.y, Wrap(tank1.y + s)} : 
          /\ tank1' = [tank1 EXCEPT !.y = y, !.direction = "down"]
          /\ y = tank1.y \/ (~(Wrap(tank1.y + TankSize) >= YMax) /\ "topWall" \notin walls)
    BY <1>1, <1>5, OneArithmetic DEF T1!Down, T1!AtBottomEdge
  <2> QED
    BY <1>1, <1>2, <2>1 DEF Tanks, Drives, Heeds, s, Directions
<1>6. CASE T1!Up(key, fast, walls)
  <2>1. PICK y \in {tank1.y, Wrap(tank1.y - s)} : 
          /\ tank1' = [tank1 EXCEPT !.y = y, !.direction = "up"]
          /\ y = tank1.y \/ (~(Wrap(tank1.y - TankSize) <= YMin) /\ "bottomWall" \notin walls)
    BY <1>1, <1>6, OneArithmetic DEF T1!Up, T1!AtTopEdge
  <2> QED
    BY <1>1, <1>2, <2>1 DEF Tanks, Drives, Heeds, s, Directions
<1>7. CASE T1!Hold(key)
  BY <1>7 DEF T1!Hold, Drives, Heeds
<1> QED
  BY <1>3, <1>4, <1>5, <1>6, <1>7 DEF T1!Clock

LEMMA Tank2Drives ==
  ASSUME tank2 \in Tanks, NEW key, NEW fast \in BOOLEAN, NEW walls, T2!Clock(key, fast, walls)
  PROVE  /\ tank2' \in Tanks
         /\ Drives(tank2, tank2', Stride(fast))
         /\ Heeds(tank2, tank2', Stride(fast), walls)
<1> DEFINE s == Stride(fast)
<1>1. s \in Nat /\ tank2.x \in Int /\ tank2.y \in Int /\ T2!Stride(fast) = s
  BY ArenaAssumption, OneArithmetic DEF Tanks, Stride, T2!Stride
<1>2. /\ Wrap(tank2.x - s) \in Coordinate /\ Wrap(tank2.x + s) \in Coordinate
      /\ Wrap(tank2.y - s) \in Coordinate /\ Wrap(tank2.y + s) \in Coordinate
  BY <1>1, OneArithmetic
<1> HIDE DEF s
<1>3. CASE T2!Left(key, fast, walls)
  <2>1. PICK x \in {tank2.x, Wrap(tank2.x - s)} : 
          /\ tank2' = [tank2 EXCEPT !.x = x, !.direction = "left"]
          /\ x = tank2.x \/ (~(Wrap(tank2.x - TankSize) <= XMin) /\ "rightWall" \notin walls)
    BY <1>1, <1>3, OneArithmetic DEF T2!Left, T2!AtLeftEdge
  <2> QED
    BY <1>1, <1>2, <2>1 DEF Tanks, Drives, Heeds, s, Directions
<1>4. CASE T2!Right(key, fast, walls)
  <2>1. PICK x \in {tank2.x, Wrap(tank2.x + s)} : 
          /\ tank2' = [tank2 EXCEPT !.x = x, !.direction = "right"]
          /\ x = tank2.x \/ (~(Wrap(tank2.x + TankSize) >= XMax) /\ "leftWall" \notin walls)
    BY <1>1, <1>4, OneArithmetic DEF T2!Right, T2!AtRightEdge
  <2> QED
    BY <1>1, <1>2, <2>1 DEF Tanks, Drives, Heeds, s, Directions
<1>5. CASE T2!Down(key, fast, walls)
  <2>1. PICK y \in {tank2.y, Wrap(tank2.y + s)} : 
          /\ tank2' = [tank2 EXCEPT !.y = y, !.direction = "down"]
          /\ y = tank2.y \/ (~(Wrap(tank2.y + TankSize) >= YMax) /\ "topWall" \notin walls)
    BY <1>1, <1>5, OneArithmetic DEF T2!Down, T2!AtBottomEdge
  <2> QED
    BY <1>1, <1>2, <2>1 DEF Tanks, Drives, Heeds, s, Directions
<1>6. CASE T2!Up(key, fast, walls)
  <2>1. PICK y \in {tank2.y, Wrap(tank2.y - s)} : 
          /\ tank2' = [tank2 EXCEPT !.y = y, !.direction = "up"]
          /\ y = tank2.y \/ (~(Wrap(tank2.y - TankSize) <= YMin) /\ "bottomWall" \notin walls)
    BY <1>1, <1>6, OneArithmetic DEF T2!Up, T2!AtTopEdge
  <2> QED
    BY <1>1, <1>2, <2>1 DEF Tanks, Drives, Heeds, s, Directions
<1>7. CASE T2!Hold(key)
  BY <1>7 DEF T2!Hold, Drives, Heeds
<1> QED
  BY <1>3, <1>4, <1>5, <1>6, <1>7 DEF T2!Clock

(***************************************************************************)
(* What a frame does to a bullet: if it is in flight it moves by its speed *)
(* the way it is heading, and if not it goes where its tank has been.      *)
(***************************************************************************)
Flies(b, c, muzzle, v) ==
  \/ ~b.on /\ c.x = muzzle.x /\ c.y = muzzle.y
  \/ b.on /\ b.heading = "left"  /\ c.x = Wrap(b.x - v) /\ c.y = b.y
  \/ b.on /\ b.heading = "right" /\ c.x = Wrap(b.x + v) /\ c.y = b.y
  \/ b.on /\ b.heading = "down"  /\ c.x = b.x /\ c.y = Wrap(b.y + v)
  \/ b.on /\ b.heading = "up"    /\ c.x = b.x /\ c.y = Wrap(b.y - v)

Speed(boosted) == BulletStep + IF boosted THEN BulletBoost ELSE 0

LEMMA Bullet1Moves ==
  ASSUME bullet1 \in Bullets, NEW muzzle \in Tanks, NEW boosted \in BOOLEAN,
         NEW moved, moved = B1!Moved(muzzle, boosted)
  PROVE  moved \in Bullets /\ Flies(bullet1, moved, muzzle, Speed(boosted))
<1> DEFINE v == Speed(boosted)
<1>1. /\ v \in Nat /\ bullet1.x \in Int /\ bullet1.y \in Int /\ B1!Speed(boosted) = v
      /\ bullet1.on \in BOOLEAN /\ bullet1.heading \in Directions
      /\ muzzle.x \in Coordinate /\ muzzle.y \in Coordinate
  BY ArenaAssumption, OneArithmetic DEF Bullets, Tanks, Speed, B1!Speed
<1>2. /\ Wrap(bullet1.x - v) \in Coordinate /\ Wrap(bullet1.x + v) \in Coordinate
      /\ Wrap(bullet1.y - v) \in Coordinate /\ Wrap(bullet1.y + v) \in Coordinate
  BY <1>1, OneArithmetic
<1> HIDE DEF v
<1>3. CASE ~bullet1.on
  <2>1. moved = [bullet1 EXCEPT !.x = muzzle.x, !.y = muzzle.y]
    BY <1>3 DEF B1!Moved
  <2> QED
    BY <1>1, <1>3, <2>1 DEF Bullets, Flies
<1>4. CASE bullet1.on /\ bullet1.heading = "left"
  <2>1. moved = [bullet1 EXCEPT !.x = Wrap(bullet1.x - v)]
    BY <1>1, <1>4, OneArithmetic DEF B1!Moved
  <2> QED
    BY <1>2, <1>4, <2>1 DEF Bullets, Flies, v
<1>5. CASE bullet1.on /\ bullet1.heading = "right"
  <2>1. moved = [bullet1 EXCEPT !.x = Wrap(bullet1.x + v)]
    BY <1>1, <1>5, OneArithmetic DEF B1!Moved
  <2> QED
    BY <1>2, <1>5, <2>1 DEF Bullets, Flies, v
<1>6. CASE bullet1.on /\ bullet1.heading = "down"
  <2>1. moved = [bullet1 EXCEPT !.y = Wrap(bullet1.y + v)]
    BY <1>1, <1>6, OneArithmetic DEF B1!Moved
  <2> QED
    BY <1>2, <1>6, <2>1 DEF Bullets, Flies, v
<1>7. CASE bullet1.on /\ bullet1.heading = "up"
  <2>1. moved = [bullet1 EXCEPT !.y = Wrap(bullet1.y - v)]
    BY <1>1, <1>7, OneArithmetic DEF B1!Moved
  <2> QED
    BY <1>2, <1>7, <2>1 DEF Bullets, Flies, v
<1> QED
  BY <1>1, <1>3, <1>4, <1>5, <1>6, <1>7 DEF Directions

LEMMA Bullet1Flies ==
  ASSUME bullet1 \in Bullets, NEW key, NEW direction \in Directions, NEW muzzle \in Tanks,
         NEW stopped, NEW boosted \in BOOLEAN,
         B1!Clock(key, direction, muzzle, stopped, boosted)
  PROVE  bullet1' \in Bullets /\ Flies(bullet1, bullet1', muzzle, Speed(boosted))
<1> DEFINE moved == B1!Moved(muzzle, boosted)
<1>1. moved \in Bullets /\ Flies(bullet1, moved, muzzle, Speed(boosted))
  BY Bullet1Moves
<1>2. PICK on, released \in BOOLEAN, heading \in Directions :
        bullet1' = [x |-> moved.x, y |-> moved.y, on |-> on, heading |-> heading,
                    released |-> released]
  <2> HIDE DEF moved
  <2>1. CASE bullet1' = [moved EXCEPT !.on = FALSE]
    <3>1. bullet1' = [x |-> moved.x, y |-> moved.y, on |-> FALSE, heading |-> moved.heading,
                      released |-> moved.released]
      BY <1>1, <2>1 DEF Bullets
    <3> QED
      BY <1>1, <3>1 DEF Bullets
  <2>2. CASE bullet1' = [moved EXCEPT !.on = TRUE, !.heading = direction, !.released = FALSE]
    <3>1. bullet1' = [x |-> moved.x, y |-> moved.y, on |-> TRUE, heading |-> direction,
                      released |-> FALSE]
      BY <1>1, <2>2 DEF Bullets
    <3> QED
      BY <3>1
  <2>3. CASE bullet1' = [moved EXCEPT !.released = FALSE] \/ bullet1' = [moved EXCEPT !.released = TRUE]
    <3>1. PICK released \in BOOLEAN :
            bullet1' = [x |-> moved.x, y |-> moved.y, on |-> moved.on, heading |-> moved.heading,
                        released |-> released]
      BY <1>1, <2>3 DEF Bullets
    <3> QED
      BY <1>1, <3>1 DEF Bullets
  <2> QED
    BY <2>1, <2>2, <2>3 DEF B1!Clock, B1!Stop, B1!Fire, B1!KeepPressed, B1!Release, moved
<1> HIDE DEF moved
<1>3. bullet1' \in Bullets /\ bullet1'.x = moved.x /\ bullet1'.y = moved.y
  BY <1>1, <1>2 DEF Bullets
<1> QED
  BY <1>1, <1>3 DEF Flies

LEMMA Bullet2Moves ==
  ASSUME bullet2 \in Bullets, NEW muzzle \in Tanks, NEW boosted \in BOOLEAN,
         NEW moved, moved = B2!Moved(muzzle, boosted)
  PROVE  moved \in Bullets /\ Flies(bullet2, moved, muzzle, Speed(boosted))
<1> DEFINE v == Speed(boosted)
<1>1. /\ v \in Nat /\ bullet2.x \in Int /\ bullet2.y \in Int /\ B2!Speed(boosted) = v
      /\ bullet2.on \in BOOLEAN /\ bullet2.heading \in Directions
      /\ muzzle.x \in Coordinate /\ muzzle.y \in Coordinate
  BY ArenaAssumption, OneArithmetic DEF Bullets, Tanks, Speed, B2!Speed
<1>2. /\ Wrap(bullet2.x - v) \in Coordinate /\ Wrap(bullet2.x + v) \in Coordinate
      /\ Wrap(bullet2.y - v) \in Coordinate /\ Wrap(bullet2.y + v) \in Coordinate
  BY <1>1, OneArithmetic
<1> HIDE DEF v
<1>3. CASE ~bullet2.on
  <2>1. moved = [bullet2 EXCEPT !.x = muzzle.x, !.y = muzzle.y]
    BY <1>3 DEF B2!Moved
  <2> QED
    BY <1>1, <1>3, <2>1 DEF Bullets, Flies
<1>4. CASE bullet2.on /\ bullet2.heading = "left"
  <2>1. moved = [bullet2 EXCEPT !.x = Wrap(bullet2.x - v)]
    BY <1>1, <1>4, OneArithmetic DEF B2!Moved
  <2> QED
    BY <1>2, <1>4, <2>1 DEF Bullets, Flies, v
<1>5. CASE bullet2.on /\ bullet2.heading = "right"
  <2>1. moved = [bullet2 EXCEPT !.x = Wrap(bullet2.x + v)]
    BY <1>1, <1>5, OneArithmetic DEF B2!Moved
  <2> QED
    BY <1>2, <1>5, <2>1 DEF Bullets, Flies, v
<1>6. CASE bullet2.on /\ bullet2.heading = "down"
  <2>1. moved = [bullet2 EXCEPT !.y = Wrap(bullet2.y + v)]
    BY <1>1, <1>6, OneArithmetic DEF B2!Moved
  <2> QED
    BY <1>2, <1>6, <2>1 DEF Bullets, Flies, v
<1>7. CASE bullet2.on /\ bullet2.heading = "up"
  <2>1. moved = [bullet2 EXCEPT !.y = Wrap(bullet2.y - v)]
    BY <1>1, <1>7, OneArithmetic DEF B2!Moved
  <2> QED
    BY <1>2, <1>7, <2>1 DEF Bullets, Flies, v
<1> QED
  BY <1>1, <1>3, <1>4, <1>5, <1>6, <1>7 DEF Directions

LEMMA Bullet2Flies ==
  ASSUME bullet2 \in Bullets, NEW key, NEW direction \in Directions, NEW muzzle \in Tanks,
         NEW stopped, NEW boosted \in BOOLEAN,
         B2!Clock(key, direction, muzzle, stopped, boosted)
  PROVE  bullet2' \in Bullets /\ Flies(bullet2, bullet2', muzzle, Speed(boosted))
<1> DEFINE moved == B2!Moved(muzzle, boosted)
<1>1. moved \in Bullets /\ Flies(bullet2, moved, muzzle, Speed(boosted))
  BY Bullet2Moves
<1>2. PICK on, released \in BOOLEAN, heading \in Directions :
        bullet2' = [x |-> moved.x, y |-> moved.y, on |-> on, heading |-> heading,
                    released |-> released]
  <2> HIDE DEF moved
  <2>1. CASE bullet2' = [moved EXCEPT !.on = FALSE]
    <3>1. bullet2' = [x |-> moved.x, y |-> moved.y, on |-> FALSE, heading |-> moved.heading,
                      released |-> moved.released]
      BY <1>1, <2>1 DEF Bullets
    <3> QED
      BY <1>1, <3>1 DEF Bullets
  <2>2. CASE bullet2' = [moved EXCEPT !.on = TRUE, !.heading = direction, !.released = FALSE]
    <3>1. bullet2' = [x |-> moved.x, y |-> moved.y, on |-> TRUE, heading |-> direction,
                      released |-> FALSE]
      BY <1>1, <2>2 DEF Bullets
    <3> QED
      BY <3>1
  <2>3. CASE bullet2' = [moved EXCEPT !.released = FALSE] \/ bullet2' = [moved EXCEPT !.released = TRUE]
    <3>1. PICK released \in BOOLEAN :
            bullet2' = [x |-> moved.x, y |-> moved.y, on |-> moved.on, heading |-> moved.heading,
                        released |-> released]
      BY <1>1, <2>3 DEF Bullets
    <3> QED
      BY <1>1, <3>1 DEF Bullets
  <2> QED
    BY <2>1, <2>2, <2>3 DEF B2!Clock, B2!Stop, B2!Fire, B2!KeepPressed, B2!Release, moved
<1> HIDE DEF moved
<1>3. bullet2' \in Bullets /\ bullet2'.x = moved.x /\ bullet2'.y = moved.y
  BY <1>1, <1>2 DEF Bullets
<1> QED
  BY <1>1, <1>3 DEF Flies

(***************************************************************************)
(* The frame of a round, as far as the collectables and the types go.      *)
(***************************************************************************)
LEMMA UpgradeKept ==
  ASSUME NEW u, NEW v, u \in Upgrades,
         \/ v = [p1 |-> TRUE, p2 |-> FALSE, collected |-> TRUE]
         \/ v = [p1 |-> FALSE, p2 |-> TRUE, collected |-> TRUE]
         \/ v = [p1 |-> FALSE, p2 |-> FALSE, collected |-> FALSE]
         \/ v = u
  PROVE  v \in Upgrades
<1>1. /\ [p1 |-> TRUE, p2 |-> FALSE, collected |-> TRUE] \in Upgrades
      /\ [p1 |-> FALSE, p2 |-> TRUE, collected |-> TRUE] \in Upgrades
      /\ [p1 |-> FALSE, p2 |-> FALSE, collected |-> FALSE] \in Upgrades
  BY DEF Upgrades
<1> QED
  BY <1>1

LEMMA PlateFits ==
  ASSUME armor \in Armors, NEW tank \in Tanks
  PROVE  UA!Plate(tank) \in Armors
<1>1. PICK x \in Coordinate, y \in Coordinate, h \in Coordinate, l \in Coordinate :
        UA!Plate(tank) = [armor EXCEPT !.x = x, !.y = y, !.heightHalved = h, !.lengthHalved = l]
  <2> DEFINE d == TankSize + ArmorGap
  <2>1. d \in Nat /\ tank.x \in Coordinate /\ tank.y \in Coordinate /\ tank.direction \in Directions
        /\ ArmorLonger \in Coordinate /\ ArmorShorter \in Coordinate
    BY ArenaAssumption DEF Tanks
  <2>2. /\ Wrap(tank.x - d) \in Coordinate /\ Wrap(tank.x + d) \in Coordinate
        /\ Wrap(tank.y - d) \in Coordinate /\ Wrap(tank.y + d) \in Coordinate
    BY <2>1, OneArithmetic
  <2> HIDE DEF d
  <2>3. CASE tank.direction = "left"
    BY <2>1, <2>2, <2>3, OneArithmetic DEF UA!Plate, d
  <2>4. CASE tank.direction = "right"
    BY <2>1, <2>2, <2>4, OneArithmetic DEF UA!Plate, d
  <2>5. CASE tank.direction = "down"
    BY <2>1, <2>2, <2>5, OneArithmetic DEF UA!Plate, d
  <2>6. CASE tank.direction = "up"
    BY <2>1, <2>2, <2>6, OneArithmetic DEF UA!Plate, d
  <2> QED
    BY <2>1, <2>3, <2>4, <2>5, <2>6 DEF Directions
<1> QED
  BY <1>1 DEF Armors

Registers ==
  /\ tank1 \in Tanks /\ tank2 \in Tanks /\ bullet1 \in Bullets /\ bullet2 \in Bullets
  /\ speed \in Upgrades /\ boost \in Upgrades /\ boost2 \in Upgrades /\ armor \in Armors

\* A frame of a round moves the tanks and the bullets at the speeds of their upgrades.
LEMMA FrameMoves ==
  ASSUME Registers, PlayFrame
  PROVE  /\ tank1' \in Tanks /\ Drives(tank1, tank1', Stride(speed.p1))
         /\ tank2' \in Tanks /\ Drives(tank2, tank2', Stride(speed.p2))
         /\ bullet1' \in Bullets
         /\ Flies(bullet1, bullet1', tank1, Speed(boost.p1 \/ boost2.p1))
         /\ bullet2' \in Bullets
         /\ Flies(bullet2, bullet2', tank2, Speed(boost.p2 \/ boost2.p2))
<1>1. /\ \E key \in MoveKeys1 : T1!Clock(key, speed.p1, WallsAt(tank1))
      /\ \E key \in MoveKeys2 : T2!Clock(key, speed.p2, WallsAt(tank2))
      /\ \E key \in FireKeys1 :
           B1!Clock(key, tank1.direction, tank1, Stopped1, boost.p1 \/ boost2.p1)
      /\ \E key \in FireKeys2 :
           B2!Clock(key, tank2.direction, tank2, Stopped2, boost.p2 \/ boost2.p2)
  BY DEF PlayFrame
<1>2. /\ speed.p1 \in BOOLEAN /\ speed.p2 \in BOOLEAN
      /\ tank1 \in Tanks /\ tank2 \in Tanks /\ bullet1 \in Bullets /\ bullet2 \in Bullets
      /\ tank1.direction \in Directions /\ tank2.direction \in Directions
  BY DEF Registers, Upgrades, Tanks
<1>3. (boost.p1 \/ boost2.p1) \in BOOLEAN /\ (boost.p2 \/ boost2.p2) \in BOOLEAN
  OBVIOUS
<1>4. tank1' \in Tanks /\ Drives(tank1, tank1', Stride(speed.p1))
  BY <1>1, <1>2, Tank1Drives
<1>5. tank2' \in Tanks /\ Drives(tank2, tank2', Stride(speed.p2))
  BY <1>1, <1>2, Tank2Drives
<1>6. bullet1' \in Bullets /\ Flies(bullet1, bullet1', tank1, Speed(boost.p1 \/ boost2.p1))
  BY <1>1, <1>2, <1>3, Bullet1Flies
<1>7. bullet2' \in Bullets /\ Flies(bullet2, bullet2', tank2, Speed(boost.p2 \/ boost2.p2))
  BY <1>1, <1>2, <1>3, Bullet2Flies
<1> QED
  BY <1>4, <1>5, <1>6, <1>7

LEMMA FrameHeeds ==
  ASSUME Registers, PlayFrame
  PROVE  /\ Heeds(tank1, tank1', Stride(speed.p1), WallsAt(tank1))
         /\ Heeds(tank2, tank2', Stride(speed.p2), WallsAt(tank2))
<1>1. /\ \E key \in MoveKeys1 : T1!Clock(key, speed.p1, WallsAt(tank1))
      /\ \E key \in MoveKeys2 : T2!Clock(key, speed.p2, WallsAt(tank2))
  BY DEF PlayFrame
<1>2. speed.p1 \in BOOLEAN /\ speed.p2 \in BOOLEAN /\ tank1 \in Tanks /\ tank2 \in Tanks
  BY DEF Registers, Upgrades
<1> QED
  BY <1>1, <1>2, Tank1Drives, Tank2Drives

LEMMA FrameCollects ==
  ASSUME Registers, PlayFrame
  PROVE  speed' \in Upgrades /\ boost' \in Upgrades /\ boost2' \in Upgrades /\ armor' \in Armors
<1>1. /\ US!Clock(tank1, tank2) /\ UB!Clock(tank1, tank2) /\ UB2!Clock(tank1, tank2)
      /\ UA!Clock(tank1, tank2)
  BY DEF PlayFrame
<1>2. speed' \in Upgrades
  BY <1>1, UpgradeKept DEF US!Clock, US!CollectedByP1, US!CollectedByP2, US!Keep, Registers
<1>3. boost' \in Upgrades
  BY <1>1, UpgradeKept DEF UB!Clock, UB!CollectedByP1, UB!CollectedByP2, UB!Keep, Registers
<1>4. boost2' \in Upgrades
  BY <1>1, UpgradeKept DEF UB2!Clock, UB2!CollectedByP1, UB2!CollectedByP2, UB2!Keep, Registers
<1>5. armor' \in Armors
  <2>1. CASE UA!CollectedByP1(tank1) \/ UA!CollectedByP2(tank1, tank2)
    <3>1. PICK owner \in 0 .. 2 : armor' = [armor EXCEPT !.owner = owner, !.collected = TRUE]
      BY <2>1 DEF UA!CollectedByP1, UA!CollectedByP2
    <3> QED
      BY <3>1 DEF Registers, Armors
  <2>2. CASE UA!AttachToP1(tank1, tank2) \/ UA!AttachToP2(tank1, tank2)
    BY <2>2, PlateFits DEF UA!AttachToP1, UA!AttachToP2, Registers
  <2>3. CASE UA!Keep(tank1, tank2)
    BY <2>3 DEF UA!Keep, Registers
  <2> QED
    BY <1>1, <2>1, <2>2, <2>3 DEF UA!Clock
<1> QED
  BY <1>2, <1>3, <1>4, <1>5

\* A reset loads spawn points, which are places, and forgets the upgrades.
LEMMA ResetLoads ==
  ASSUME Registers, ResetRegisters
  PROVE  Registers'
<1>1. /\ T1!Reset /\ T2!Reset /\ B1!Reset(tank1') /\ B2!Reset(tank2')
      /\ US!Reset /\ UB!Reset /\ UB2!Reset /\ UA!Reset
  BY DEF ResetRegisters
<1>2. tank1' \in Tanks /\ tank2' \in Tanks
  BY <1>1, ArenaAssumption
  DEF T1!Reset, T2!Reset, T1!Spawned, T2!Spawned, Tanks, Directions
<1>3. bullet1' \in Bullets /\ bullet2' \in Bullets
  BY <1>1, <1>2 DEF B1!Reset, B2!Reset, Registers, Bullets, Tanks
<1>4. speed' \in Upgrades /\ boost' \in Upgrades /\ boost2' \in Upgrades
  BY <1>1, UpgradeKept
  DEF US!Reset, UB!Reset, UB2!Reset, US!None, UB!None, UB2!None, Registers
<1>5. armor' \in Armors
  <2>1. 0 \in Coordinate /\ armor \in Armors
    BY WidthAssumption DEF Coordinate, Registers
  <2>2. \E x, y \in Coordinate, owner \in 0 .. 2, collected \in BOOLEAN :
          armor' = [armor EXCEPT !.x = x, !.y = y, !.owner = owner, !.collected = collected]
    <3>1. armor' = [armor EXCEPT !.x = 0, !.y = 0, !.owner = 0, !.collected = FALSE]
      BY <1>1 DEF UA!Reset
    <3>2. 0 \in 0 .. 2 /\ FALSE \in BOOLEAN
      OBVIOUS
    <3> QED
      BY <2>1, <3>1, <3>2, Zenon
  <2> QED
    BY <2>1, <2>2 DEF Armors
<1> QED
  BY <1>2, <1>3, <1>4, <1>5 DEF Registers

Types == Registers /\ HD!TypeOK /\ resetButton \in BOOLEAN /\ settled \in BOOLEAN

LEMMA TypesInit == Init => Types
<1> SUFFICES ASSUME Init PROVE Types
  OBVIOUS
<1>1. tank1 \in Tanks /\ tank2 \in Tanks
  BY ArenaAssumption
  DEF Init, T1!Init, T2!Init, T1!Spawned, T2!Spawned, Tanks, Directions
<1>2. bullet1 \in Bullets /\ bullet2 \in Bullets
  BY ArenaAssumption DEF Init, B1!Init, B2!Init, Bullets, Directions
<1>3. speed \in Upgrades /\ boost \in Upgrades /\ boost2 \in Upgrades
  BY DEF Init, US!Init, UB!Init, UB2!Init, US!None, UB!None, UB2!None, Upgrades
<1>4. armor \in Armors
  BY WidthAssumption DEF Init, UA!Init, Armors, Coordinate
<1>5. HD!TypeOK
  <2>1. player_1_hit \in BOOLEAN /\ player_2_hit \in BOOLEAN
    BY Zenon DEF Init, HD!Init
  <2>2. player_1_score = 0 /\ player_2_score = 0
    BY DEF Init, HD!Init
  <2> QED
    BY <2>1, <2>2, ArenaAssumption DEF HD!TypeOK
<1>6. resetButton \in BOOLEAN /\ settled \in BOOLEAN
  BY Zenon DEF Init
<1> QED
  BY <1>1, <1>2, <1>3, <1>4, <1>5, <1>6 DEF Types, Registers

LEMMA HitsFit ==
  ASSUME HD!TypeOK, HD!Clock(tank1, tank2, bullet1, bullet2)
  PROVE  HD!TypeOK'
<1>1. /\ (player_1_score + 1) % ScoreWord \in 0 .. ScoreWord - 1
      /\ (player_2_score + 1) % ScoreWord \in 0 .. ScoreWord - 1
  BY ArenaAssumption DEF HD!TypeOK
<1>2. /\ player_1_score' \in {player_1_score, (player_1_score + 1) % ScoreWord}
      /\ player_2_score' \in {player_2_score, (player_2_score + 1) % ScoreWord}
  BY DEF HD!Clock
<1>3. player_1_hit' \in BOOLEAN /\ player_2_hit' \in BOOLEAN
  BY Zenon DEF HD!Clock, HD!Strikes, HD!InBox
<1> QED
  BY <1>1, <1>2, <1>3 DEF HD!TypeOK

LEMMA TypesNext == Types /\ [Next]_vars => Types'
<1> SUFFICES ASSUME Types, [Next]_vars PROVE Types'
  OBVIOUS
<1> USE DEF Types
<1>1. CASE PlayFrame
  <2>1. Registers'
    BY <1>1, FrameMoves, FrameCollects DEF Registers
  <2>2. HD!TypeOK' /\ UNCHANGED <<resetButton, settled>>
    BY <1>1, HitsFit DEF PlayFrame
  <2> QED
    BY <2>1, <2>2
<1>2. CASE ArenaReset
  <2>1. Registers'
    BY <1>2, ResetLoads DEF ArenaReset
  <2> QED
    BY <1>2, <2>1 DEF ArenaReset, hits, HD!TypeOK
<1>3. CASE RoundFrame
  <2>1. Registers' /\ HD!TypeOK'
    BY <1>3, ResetLoads, HitsFit DEF RoundFrame
  <2>2. settled' \in BOOLEAN /\ resetButton' = resetButton
    BY <1>3 DEF RoundFrame
  <2> QED
    BY <2>1, <2>2
<1>4. CASE PressReset
  <2>1. /\ player_1_hit' \in BOOLEAN /\ player_2_hit' \in BOOLEAN
        /\ resetButton' \in BOOLEAN /\ settled' \in BOOLEAN
    BY <1>4, Zenon DEF PressReset, HD!Reset
  <2>2. player_1_score' = 0 /\ player_2_score' = 0
    BY <1>4 DEF PressReset, HD!Reset
  <2>3. HD!TypeOK'
    BY <2>1, <2>2, ArenaAssumption DEF HD!TypeOK
  <2>4. Registers'
    BY <1>4 DEF PressReset, Registers, fighters, scenery
  <2> QED
    BY <2>1, <2>3, <2>4
<1>5. CASE ReleaseReset
  BY <1>5 DEF ReleaseReset, HD!TypeOK, Registers, fighters, scenery, hits
<1>6. CASE UNCHANGED vars
  BY <1>6 DEF vars, HD!TypeOK, Registers, fighters, scenery, hits
<1> QED
  BY <1>1, <1>2, <1>3, <1>4, <1>5, <1>6 DEF Next

LEMMA TypesInvariant == Spec => []Types
  BY TypesInit, TypesNext, PTL DEF Spec

---------------------------------------------------------------------------
(***************************************************************************)
(* Tanks on the screen.  The edge tests of tank.sv compare the position    *)
(* before the step and stop a tank that touches the edge, so they are good *)
(* for steps of one pixel (StepFits), which is what a tank without the     *)
(* upgrade takes.                                                          *)
(***************************************************************************)
LEMMA WrapsExactly == \A n \in Int : 0 <= n /\ n < Word => n \in Coordinate /\ Wrap(n) = n
  BY WidthAssumption DEF Wrap, Coordinate

LEMMA SlowTankStays ==
  ASSUME StepFits, NEW t \in Tanks, NEW u \in Tanks, InScreen(t), Drives(t, u, Stride(FALSE))
  PROVE  InScreen(u)
<1>1. /\ t.x \in Nat /\ t.y \in Nat /\ TankSize \in Nat /\ Step \in {0, 1} /\ Word \in Nat
      /\ XMin \in Nat /\ XMax \in Nat /\ YMin \in Nat /\ YMax \in Nat
      /\ Stride(FALSE) = Step
  BY ArenaAssumption, WidthAssumption DEF Tanks, Coordinate, StepFits, Stride
<1>2. /\ Wrap(t.x - TankSize) = t.x - TankSize /\ Wrap(t.x + TankSize) = t.x + TankSize
      /\ Wrap(t.y - TankSize) = t.y - TankSize /\ Wrap(t.y + TankSize) = t.y + TankSize
  <2>1. /\ 0 <= t.x - TankSize /\ t.x + TankSize < Word
        /\ 0 <= t.y - TankSize /\ t.y + TankSize < Word
    BY <1>1 DEF InScreen, StepFits
  <2> QED
    BY <1>1, <2>1, WrapsExactly
<1>3. CASE u.x = t.x /\ u.y = t.y
  BY <1>3 DEF InScreen
<1>4. CASE u.y = t.y /\ t.x - TankSize > XMin /\ u.x = Wrap(t.x - Step)
  <2>1. u.x = t.x - Step
    BY <1>1, <1>4, WrapsExactly DEF InScreen, StepFits
  <2> QED
    BY <1>1, <1>4, <2>1 DEF InScreen
<1>5. CASE u.y = t.y /\ t.x + TankSize < XMax /\ u.x = Wrap(t.x + Step)
  <2>1. u.x = t.x + Step
    BY <1>1, <1>5, WrapsExactly DEF InScreen, StepFits
  <2> QED
    BY <1>1, <1>5, <2>1 DEF InScreen
<1>6. CASE u.x = t.x /\ t.y - TankSize > YMin /\ u.y = Wrap(t.y - Step)
  <2>1. u.y = t.y - Step
    BY <1>1, <1>6, WrapsExactly DEF InScreen, StepFits
  <2> QED
    BY <1>1, <1>6, <2>1 DEF InScreen
<1>7. CASE u.x = t.x /\ t.y + TankSize < YMax /\ u.y = Wrap(t.y + Step)
  <2>1. u.y = t.y + Step
    BY <1>1, <1>7, WrapsExactly DEF InScreen, StepFits
  <2> QED
    BY <1>1, <1>7, <2>1 DEF InScreen
<1>8. /\ ~(Wrap(t.x - TankSize) <= XMin) => t.x - TankSize > XMin
      /\ ~(Wrap(t.x + TankSize) >= XMax) => t.x + TankSize < XMax
      /\ ~(Wrap(t.y - TankSize) <= YMin) => t.y - TankSize > YMin
      /\ ~(Wrap(t.y + TankSize) >= YMax) => t.y + TankSize < YMax
  BY <1>1, <1>2
<1>9. Drives(t, u, Step)
  BY <1>1
<1> QED
  BY <1>3, <1>4, <1>5, <1>6, <1>7, <1>8, <1>9 DEF Drives

(***************************************************************************)
(* An upgrade that somebody has is collected, and one that is collected    *)
(* stays with its owner until the reset.                                   *)
(***************************************************************************)
Owned(upgrade) == upgrade.p1 \/ upgrade.p2 => upgrade.collected

OnScreenInv == Owned(speed) /\ OnScreenUnlessFast

LEMMA SameScreen ==
  /\ T1!InArena <=> InScreen(tank1)
  /\ T2!InArena <=> InScreen(tank2)
  BY DEF T1!InArena, T2!InArena, InScreen

LEMMA OnScreenNext ==
  ASSUME StepFits, Types, Types', OnScreenInv, [Next]_vars
  PROVE  OnScreenInv'
<1>0. /\ tank1 \in Tanks /\ tank2 \in Tanks /\ tank1' \in Tanks /\ tank2' \in Tanks
      /\ speed \in Upgrades
  BY DEF Types, Registers
<1>1. CASE PlayFrame
  <2>1. US!Clock(tank1, tank2)
    BY <1>1 DEF PlayFrame
  <2>2. Owned(speed)'
    BY <2>1 DEF US!Clock, US!CollectedByP1, US!CollectedByP2, US!Keep, Owned, OnScreenInv
  <2>3. (speed.p1 => speed'.p1) /\ (speed.p2 => speed'.p2)
    BY <2>1 DEF US!Clock, US!CollectedByP1, US!CollectedByP2, US!Keep, US!CanCollect, Owned, OnScreenInv
  <2>4. /\ Drives(tank1, tank1', Stride(speed.p1))
        /\ Drives(tank2, tank2', Stride(speed.p2))
    BY <1>1, FrameMoves DEF Types
  <2>5. speed'.p1 \/ T1!InArena'
    <3>1. CASE ~speed.p1
      <4>1. Drives(tank1, tank1', Stride(FALSE))
        BY <3>1, <2>4, <1>0 DEF Stride
      <4>2. InScreen(tank1)
        BY <3>1, SameScreen DEF OnScreenInv, OnScreenUnlessFast
      <4>3. InScreen(tank1')
        BY <1>0, <4>1, <4>2, SlowTankStays
      <4> QED
        BY <4>3 DEF T1!InArena, InScreen
    <3> QED
      BY <2>3, <3>1
  <2>6. speed'.p2 \/ T2!InArena'
    <3>1. CASE ~speed.p2
      <4>1. Drives(tank2, tank2', Stride(FALSE))
        BY <3>1, <2>4, <1>0 DEF Stride
      <4>2. InScreen(tank2)
        BY <3>1, SameScreen DEF OnScreenInv, OnScreenUnlessFast
      <4>3. InScreen(tank2')
        BY <1>0, <4>1, <4>2, SlowTankStays
      <4> QED
        BY <4>3 DEF T2!InArena, InScreen
    <3> QED
      BY <2>3, <3>1
  <2> QED
    BY <2>2, <2>5, <2>6 DEF OnScreenInv, OnScreenUnlessFast
<1>2. CASE ArenaReset \/ RoundFrame
  <2>1. T1!Reset /\ T2!Reset /\ US!Reset
    BY <1>2 DEF ArenaReset, RoundFrame, ResetRegisters
  <2>2. T1!InArena' /\ T2!InArena'
    BY <2>1 DEF T1!Reset, T2!Reset, T1!Spawned, T2!Spawned, T1!InArena, T2!InArena, StepFits, InScreen
  <2>3. Owned(speed)'
    BY <2>1 DEF US!Reset, US!None, Owned
  <2> QED
    BY <2>2, <2>3 DEF OnScreenInv, OnScreenUnlessFast
<1>3. CASE UNCHANGED <<tank1, tank2, speed>>
  BY <1>3 DEF OnScreenInv, OnScreenUnlessFast, Owned, T1!InArena, T2!InArena
<1> QED
  BY <1>1, <1>2, <1>3 DEF Next, PressReset, ReleaseReset, vars, fighters, scenery

(***************************************************************************)
(* For every arena whose edge tests leave room for a step, a tank without  *)
(* the speed upgrade is on the screen, in every round of every match.      *)
(***************************************************************************)
THEOREM ArenaOnScreenUnlessFast ==
  ASSUME StepFits
  PROVE  Spec => []OnScreenUnlessFast
<1>1. Init => OnScreenInv
  <2> SUFFICES ASSUME Init PROVE OnScreenInv
    OBVIOUS
  <2>1. T1!InArena /\ T2!InArena
    BY DEF Init, T1!Init, T2!Init, T1!Spawned, T2!Spawned, T1!InArena, T2!InArena, StepFits, InScreen
  <2>2. Owned(speed)
    BY DEF Init, US!Init, US!None, Owned
  <2> QED
    BY <2>1, <2>2 DEF OnScreenInv, OnScreenUnlessFast
<1>2. Types /\ Types' /\ OnScreenInv /\ [Next]_vars => OnScreenInv'
  BY OnScreenNext
<1>3. OnScreenInv => OnScreenUnlessFast
  BY DEF OnScreenInv
<1> QED
  BY <1>1, <1>2, <1>3, TypesInvariant, PTL DEF Spec

---------------------------------------------------------------------------
(***************************************************************************)
(* Bullets and tanks.  What a bullet and a tank close in one frame is no   *)
(* more than the box in which the one hits the other: 12+6+3 <= 2*10 + 1   *)
(* in the build, with both upgrades (Proportions).                         *)
(***************************************************************************)
LEMMA SpeedsFit == \A boosted \in BOOLEAN : Speed(boosted) \in Nat /\ Speed(boosted) <= LongestStep
  BY ArenaAssumption DEF Speed, LongestStep

\* One of the two sides of a bullet along an axis is in the tank's span of the axis.
SideIn(b, t) ==
  \E side \in {b + BulletSize, b - BulletSize} :
    t - TankSize <= Wrap(side) /\ Wrap(side) <= t + TankSize

\* Neither the bullet nor the tank can be on the other side without a hit.
LEMMA NotJumped ==
  ASSUME Proportions, NEW b \in Coordinate, NEW bN \in Coordinate, NEW t \in Nat, NEW tN \in Nat,
         NEW max \in {XMax, YMax}, NEW v \in Nat, v <= LongestStep, NEW s \in {Step, FastStep},
         t - TankSize >= 0, t + TankSize <= max, tN - TankSize >= 0, tN + TankSize <= max,
         -s <= tN - t, tN - t <= s,
         \/ b < t /\ bN > tN /\ bN = Wrap(b + v)
         \/ b > t /\ bN < tN /\ bN = Wrap(b - v)
  PROVE  SideIn(b, t) \/ SideIn(bN, tN)
<1>1. /\ b \in Nat /\ b < Word /\ bN \in Nat /\ bN < Word /\ Word \in Nat /\ Word > 0
      /\ TankSize \in Nat /\ BulletSize \in Nat /\ max \in Nat /\ s \in Nat /\ LongestStep \in Nat
      /\ BulletSize <= TankSize /\ max + LongestStep < Word
      /\ v + s <= 2 * (TankSize + BulletSize) + 1
  BY ArenaAssumption, WidthAssumption DEF Proportions, Coordinate, LongestStep
<1>2. CASE b < t /\ bN > tN /\ bN = Wrap(b + v)
  <2>1. bN = b + v
    BY <1>1, <1>2, WrapsExactly
  <2>2. CASE b + BulletSize >= t - TankSize
    <3>1. Wrap(b + BulletSize) = b + BulletSize
      BY <1>1, <1>2, WrapsExactly
    <3> QED
      BY <1>1, <1>2, <2>2, <3>1 DEF SideIn
  <2>3. CASE b + BulletSize < t - TankSize
    <3>1. Wrap(bN - BulletSize) = bN - BulletSize
      BY <1>1, <1>2, WrapsExactly
    <3>2. tN - TankSize <= bN - BulletSize /\ bN - BulletSize <= tN + TankSize
      BY <1>1, <1>2, <2>1, <2>3
    <3> QED
      BY <3>1, <3>2 DEF SideIn
  <2> QED
    BY <1>1, <2>2, <2>3
<1>3. CASE b > t /\ bN < tN /\ bN = Wrap(b - v)
  <2>1. bN = b - v
    <3>1. CASE b >= v
      BY <1>1, <3>1, <1>3, WrapsExactly
    <3>2. CASE b < v
      <4>1. Wrap(b - v) = b - v + Word
        BY <1>1, <3>2 DEF Wrap
      <4> QED
        BY <1>1, <1>3, <4>1
    <3> QED
      BY <1>1, <3>1, <3>2
  <2>2. CASE b - BulletSize <= t + TankSize
    <3>1. Wrap(b - BulletSize) = b - BulletSize
      BY <1>1, <1>3, WrapsExactly
    <3> QED
      BY <1>1, <1>3, <2>2, <3>1 DEF SideIn
  <2>3. CASE b - BulletSize > t + TankSize
    <3>1. Wrap(bN + BulletSize) = bN + BulletSize
      BY <1>1, <1>3, WrapsExactly
    <3>2. tN - TankSize <= bN + BulletSize /\ bN + BulletSize <= tN + TankSize
      BY <1>1, <1>3, <2>1, <2>3
    <3> QED
      BY <3>1, <3>2 DEF SideIn
  <2> QED
    BY <1>1, <2>2, <2>3
<1> QED
  BY <1>2, <1>3

\* A tank that is on the screen before and after a frame has moved by its stride.
LEMMA TankShift ==
  ASSUME Proportions, NEW t \in Tanks, NEW u \in Tanks, NEW s \in {Step, FastStep},
         InScreen(t), InScreen(u), Drives(t, u, s)
  PROVE  /\ -s <= u.x - t.x /\ u.x - t.x <= s
         /\ -s <= u.y - t.y /\ u.y - t.y <= s
<1>1. /\ t.x \in Nat /\ t.y \in Nat /\ u.x \in Nat /\ u.y \in Nat /\ TankSize \in Nat /\ s \in Nat
      /\ XMax \in Nat /\ YMax \in Nat /\ Word \in Nat
      /\ t.x <= XMax /\ u.x <= XMax /\ t.y <= YMax /\ u.y <= YMax
      /\ XMax + s < Word /\ YMax + s < Word
  BY ArenaAssumption, WidthAssumption DEF Tanks, Coordinate, InScreen, Proportions
<1>2. \A z, zN, max \in Nat :
        z <= max /\ zN <= max /\ max + s < Word /\ zN \in {Wrap(z - s), Wrap(z + s)}
          => -s <= zN - z /\ zN - z <= s
  <2> SUFFICES ASSUME NEW z \in Nat, NEW zN \in Nat, NEW max \in Nat, z <= max, zN <= max,
                      max + s < Word, zN \in {Wrap(z - s), Wrap(z + s)}
               PROVE  -s <= zN - z /\ zN - z <= s
    OBVIOUS
  <2>1. Wrap(z + s) = z + s
    BY <1>1, WrapsExactly
  <2>2. CASE z >= s
    <3>1. Wrap(z - s) = z - s
      BY <1>1, <2>2, WrapsExactly
    <3> QED
      BY <1>1, <2>1, <3>1
  <2>3. CASE z < s
    <3>1. Wrap(z - s) = z - s + Word
      BY <1>1, <2>3 DEF Wrap
    <3> QED
      BY <1>1, <2>1, <3>1
  <2> QED
    BY <1>1, <2>2, <2>3
<1>3. CASE u.x = t.x /\ u.y = t.y
  BY <1>1, <1>3
<1>4. CASE u.y = t.y /\ u.x \in {Wrap(t.x - s), Wrap(t.x + s)}
  <2>1. -s <= u.x - t.x /\ u.x - t.x <= s
    BY <1>1, <1>2, <1>4, Zenon
  <2>2. -s <= u.y - t.y /\ u.y - t.y <= s
    BY <1>1, <1>4
  <2> QED
    BY <2>1, <2>2
<1>5. CASE u.x = t.x /\ u.y \in {Wrap(t.y - s), Wrap(t.y + s)}
  <2>1. -s <= u.y - t.y /\ u.y - t.y <= s
    BY <1>1, <1>2, <1>5, Zenon
  <2>2. -s <= u.x - t.x /\ u.x - t.x <= s
    BY <1>1, <1>5
  <2> QED
    BY <2>1, <2>2
<1> QED
  BY <1>3, <1>4, <1>5 DEF Drives

\* What makes a strike: a side on one axis and the centre on the other.
LEMMA StrikeBySide ==
  ASSUME NEW b \in Bullets, NEW t \in Tanks, InScreen(t),
         XMax < Word, YMax < Word,
         \/ SideIn(b.x, t.x) /\ t.y - TankSize <= b.y /\ b.y <= t.y + TankSize
         \/ SideIn(b.y, t.y) /\ t.x - TankSize <= b.x /\ b.x <= t.x + TankSize
  PROVE  HD!Strikes(b, t)
<1>1. /\ t.x - TankSize \in Coordinate /\ t.x + TankSize \in Coordinate
      /\ t.y - TankSize \in Coordinate /\ t.y + TankSize \in Coordinate
  BY ArenaAssumption, WidthAssumption DEF Tanks, Coordinate, InScreen
<1>2. /\ HD!Wrap(t.x - TankSize) = t.x - TankSize /\ HD!Wrap(t.x + TankSize) = t.x + TankSize
      /\ HD!Wrap(t.y - TankSize) = t.y - TankSize /\ HD!Wrap(t.y + TankSize) = t.y + TankSize
      /\ \A n : HD!Wrap(n) = Wrap(n)
  BY <1>1, OneArithmetic DEF HD!Wrap, Wrap
<1> QED
  BY <1>2 DEF HD!Strikes, HD!InBox, HD!Within, SideIn

LEMMA PassIsStrike ==
  ASSUME Proportions, NEW b \in Bullets, NEW bN \in Bullets, NEW t \in Tanks, NEW tN \in Tanks,
         InScreen(t), InScreen(tN), NEW s \in {Step, FastStep}, Drives(t, tN, s),
         NEW muzzle, NEW v \in Nat, v <= LongestStep, Flies(b, bN, muzzle, v),
         PassesOver(b, bN, t, tN, TankSize, TankSize)
  PROVE  HD!Strikes(b, t) \/ HD!Strikes(bN, tN)
<1>1. /\ b.x \in Coordinate /\ b.y \in Coordinate /\ bN.x \in Coordinate /\ bN.y \in Coordinate
      /\ t.x \in Nat /\ t.y \in Nat /\ tN.x \in Nat /\ tN.y \in Nat
      /\ TankSize \in Nat /\ XMax < Word /\ YMax < Word
      /\ XMin \in Nat /\ YMin \in Nat
  BY ArenaAssumption, WidthAssumption DEF Bullets, Tanks, Coordinate, Proportions
<1>2. /\ -s <= tN.x - t.x /\ tN.x - t.x <= s
      /\ -s <= tN.y - t.y /\ tN.y - t.y <= s
  BY TankShift
<1>3. /\ t.x - TankSize >= 0 /\ t.x + TankSize <= XMax /\ tN.x - TankSize >= 0 /\ tN.x + TankSize <= XMax
      /\ t.y - TankSize >= 0 /\ t.y + TankSize <= YMax /\ tN.y - TankSize >= 0 /\ tN.y + TankSize <= YMax
  BY <1>1 DEF InScreen
<1>4. b.on
  BY DEF PassesOver
<1>5. CASE b.heading \in {"left", "right"}
  <2>1. /\ t.y - TankSize <= b.y /\ b.y <= t.y + TankSize
        /\ tN.y - TankSize <= bN.y /\ bN.y <= tN.y + TankSize
    BY <1>1, <1>5, WidthAssumption DEF PassesOver, Coordinate
  <2>2. \/ b.x < t.x /\ bN.x > tN.x /\ bN.x = Wrap(b.x + v)
        \/ b.x > t.x /\ bN.x < tN.x /\ bN.x = Wrap(b.x - v)
    BY <1>4, <1>5 DEF PassesOver, Flies
  <2>3. SideIn(b.x, t.x) \/ SideIn(bN.x, tN.x)
    BY <1>1, <1>2, <1>3, <2>2, NotJumped
  <2> QED
    BY <1>1, <2>1, <2>3, StrikeBySide
<1>6. CASE b.heading \in {"down", "up"}
  <2>1. /\ t.x - TankSize <= b.x /\ b.x <= t.x + TankSize
        /\ tN.x - TankSize <= bN.x /\ bN.x <= tN.x + TankSize
    BY <1>1, <1>6, WidthAssumption DEF PassesOver, Coordinate
  <2>2. \/ b.y < t.y /\ bN.y > tN.y /\ bN.y = Wrap(b.y + v)
        \/ b.y > t.y /\ bN.y < tN.y /\ bN.y = Wrap(b.y - v)
    BY <1>4, <1>6 DEF PassesOver, Flies
  <2>3. SideIn(b.y, t.y) \/ SideIn(bN.y, tN.y)
    BY <1>1, <1>2, <1>3, <2>2, NotJumped
  <2> QED
    BY <1>1, <2>1, <2>3, StrikeBySide
<1> QED
  BY <1>5, <1>6 DEF Bullets, Directions

\* Nothing that stands still passes over anything.
LEMMA StillPassesNothing ==
  ASSUME NEW b \in Bullets, NEW box, box.x \in Int, box.y \in Int, NEW rx, NEW ry
  PROVE  ~PassesOver(b, b, box, box, rx, ry)
<1>1. b.x \in Int /\ b.y \in Int
  BY WidthAssumption DEF Bullets, Coordinate
<1> QED
  BY <1>1 DEF PassesOver

\* In a round a step is a frame, or it leaves tanks, bullets and barriers where they are.
LEMMA StepOfARound ==
  ASSUME [Next]_vars, ~Reset_arena
  PROVE  PlayFrame \/ UNCHANGED <<fighters, scenery>>
  BY DEF Next, ArenaReset, RoundFrame, PressReset, ReleaseReset, Reset_arena, vars

LEMMA StepJumpsNoTank ==
  ASSUME Proportions, Types, Types', [Next]_vars
  PROVE  TanksNotJumped
<1> SUFFICES ASSUME ~Reset_arena PROVE TanksNotJumped
  BY DEF TanksNotJumped
<1>1. /\ tank1 \in Tanks /\ tank2 \in Tanks /\ tank1' \in Tanks /\ tank2' \in Tanks
      /\ bullet1 \in Bullets /\ bullet2 \in Bullets /\ bullet1' \in Bullets /\ bullet2' \in Bullets
  BY DEF Types, Registers
<1>2. CASE PlayFrame
  <2>1. /\ Drives(tank1, tank1', Stride(speed.p1)) /\ Drives(tank2, tank2', Stride(speed.p2))
        /\ Flies(bullet1, bullet1', tank1, Speed(boost.p1 \/ boost2.p1))
        /\ Flies(bullet2, bullet2', tank2, Speed(boost.p2 \/ boost2.p2))
    BY <1>2, FrameMoves DEF Types
  <2>2. Stride(speed.p1) \in {Step, FastStep} /\ Stride(speed.p2) \in {Step, FastStep}
    BY DEF Stride
  <2>3. \A boosted \in BOOLEAN : Speed(boosted) \in Nat /\ Speed(boosted) <= LongestStep
    BY SpeedsFit
  <2>4. ASSUME T2!InArena, T2!InArena'
        PROVE  PassIsStruck(bullet1, bullet1', tank2, tank2')
    <3>1. InScreen(tank2) /\ InScreen(tank2')
      BY <2>4 DEF T2!InArena, InScreen
    <3> QED
      BY <1>1, <2>1, <2>2, <2>3, <3>1, PassIsStrike DEF PassIsStruck
  <2>5. ASSUME T1!InArena, T1!InArena'
        PROVE  PassIsStruck(bullet2, bullet2', tank1, tank1')
    <3>1. InScreen(tank1) /\ InScreen(tank1')
      BY <2>5 DEF T1!InArena, InScreen
    <3> QED
      BY <1>1, <2>1, <2>2, <2>3, <3>1, PassIsStrike DEF PassIsStruck
  <2> QED
    BY <2>4, <2>5 DEF TanksNotJumped
<1>3. CASE UNCHANGED fighters
  <2>1. bullet1' = bullet1 /\ bullet2' = bullet2 /\ tank1' = tank1 /\ tank2' = tank2
    BY <1>3 DEF fighters
  <2>2. tank1.x \in Int /\ tank1.y \in Int /\ tank2.x \in Int /\ tank2.y \in Int
    BY <1>1, WidthAssumption DEF Tanks, Coordinate
  <2> QED
    BY <1>1, <2>1, <2>2, StillPassesNothing DEF TanksNotJumped, PassIsStruck
<1> QED
  BY <1>2, <1>3, StepOfARound

(***************************************************************************)
(* No bullet flies through a tank on the screen, boosted or not: it is in  *)
(* the box of the hit test in the frame before or in the frame after it    *)
(* has passed the tank's centre.                                           *)
(***************************************************************************)
THEOREM ArenaNoBulletThroughTank ==
  ASSUME Proportions
  PROVE  Spec => NoBulletThroughTank
<1>1. Types /\ Types' /\ [Next]_vars => TanksNotJumped
  BY StepJumpsNoTank
<1> QED
  BY <1>1, TypesInvariant, PTL DEF Spec, NoBulletThroughTank

\* No bullet flies through a tank without the speed upgrade, wherever it is.
SlowTanksNotJumped ==
  ~Reset_arena =>
    /\ ~speed.p2 /\ ~speed'.p2 => PassIsStruck(bullet1, bullet1', tank2, tank2')
    /\ ~speed.p1 /\ ~speed'.p1 => PassIsStruck(bullet2, bullet2', tank1, tank1')

(***************************************************************************)
(* For a tank that is not fast the exception of NoBulletThroughTank is     *)
(* none: the edge tests keep it where its box does not wrap.               *)
(***************************************************************************)
THEOREM ArenaNoBulletThroughSlowTank ==
  ASSUME Proportions, StepFits
  PROVE  Spec => [][SlowTanksNotJumped]_vars
<1>1. OnScreenUnlessFast /\ OnScreenUnlessFast' /\ TanksNotJumped => SlowTanksNotJumped
  BY DEF OnScreenUnlessFast, TanksNotJumped, SlowTanksNotJumped
<1>2. /\ Types /\ Types' /\ OnScreenUnlessFast /\ OnScreenUnlessFast' /\ [Next]_vars
      => SlowTanksNotJumped
  BY <1>1, StepJumpsNoTank
<1> QED
  BY <1>2, TypesInvariant, ArenaOnScreenUnlessFast, PTL DEF Spec

---------------------------------------------------------------------------
(***************************************************************************)
(* Bullets and barriers.  The box of a barrier is no thinner than a        *)
(* bullet's step, and no part of it is cut off by the left or top edge of  *)
(* the screen (BarriersFit).  In the build 12+6 <= 4*5 + 1, and 29 + 2*5   *)
(* <= 45 and 49 + 2*5 <= 100 at the places the generators know.            *)
(***************************************************************************)

\* A bullet cannot be on the other side of a barrier without its right or bottom side
\* having been in the barrier's span of that axis.
LEMMA BarrierNotJumped ==
  ASSUME BarriersFit, NEW b \in Coordinate, NEW bN \in Coordinate, NEW c \in Coordinate,
         NEW half \in Nat, half >= Margin, c >= half + Margin, NEW v \in Nat, v <= LongestStep,
         \/ b < c /\ bN > c /\ bN = Wrap(b + v)
         \/ b > c /\ bN < c /\ bN = Wrap(b - v)
  PROVE  \/ c - half - Margin <= b + BulletSize /\ b + BulletSize <= c + half + Margin
         \/ c - half - Margin <= bN + BulletSize /\ bN + BulletSize <= c + half + Margin
<1>1. /\ b \in Nat /\ b < Word /\ bN \in Nat /\ bN < Word /\ Word \in Nat /\ Word > 0
      /\ c \in Nat /\ c < Word /\ Margin \in Nat /\ BulletSize \in Nat /\ LongestStep \in Nat
      /\ BulletSize <= half + Margin /\ v <= 2 * (half + Margin) + 1 /\ v <= Word
  BY ArenaAssumption, WidthAssumption DEF BarriersFit, Coordinate, LongestStep
<1>2. CASE b < c /\ bN > c /\ bN = Wrap(b + v)
  <2>1. bN = b + v
    <3>1. CASE b + v < Word
      BY <1>1, <1>2, <3>1, WrapsExactly
    <3>2. CASE b + v >= Word
      <4>1. Wrap(b + v) = b + v - Word
        BY <1>1, <3>2 DEF Wrap
      <4> QED
        BY <1>1, <1>2, <4>1
    <3> QED
      BY <1>1, <3>1, <3>2
  <2> QED
    BY <1>1, <1>2, <2>1
<1>3. CASE b > c /\ bN < c /\ bN = Wrap(b - v)
  <2>1. bN = b - v
    <3>1. CASE b >= v
      BY <1>1, <1>3, <3>1, WrapsExactly
    <3>2. CASE b < v
      <4>1. Wrap(b - v) = b - v + Word
        BY <1>1, <3>2 DEF Wrap
      <4> QED
        BY <1>1, <1>3, <4>1
    <3> QED
      BY <1>1, <3>1, <3>2
  <2> QED
    BY <1>1, <1>3, <2>1
<1> QED
  BY <1>2, <1>3

\* On 32 bits the comparisons with a barrier that fits are exact.
LEMMA SpanIsExact ==
  ASSUME Margin \in Nat, NEW n \in Nat, n < 2 * Word,
         NEW c \in Coordinate, NEW half \in Nat, c >= half + Margin,
         c - half - Margin <= n, n <= c + half + Margin
  PROVE  BR!WithinWide(n, c, half + Margin)
<1>1. /\ Word \in Nat /\ Wide \in Nat /\ Wide >= 8 * Word /\ c \in Nat /\ c < Word
  BY WidthAssumption DEF Coordinate
<1>2. \A m \in Int : 0 <= m /\ m < Wide => BR!WrapWide(m) = m
  BY <1>1 DEF BR!WrapWide
<1>3. /\ BR!WrapWide(c - (half + Margin)) = c - (half + Margin)
      /\ BR!WrapWide(c + (half + Margin)) = c + (half + Margin)
      /\ BR!WrapWide(n) = n
  BY <1>1, <1>2
<1> QED
  BY <1>1, <1>3 DEF BR!WithinWide

LEMMA PassTouches ==
  ASSUME BarriersFit, NEW b \in Bullets, NEW bN \in Bullets, NEW w \in Blocks, Fits(w),
         NEW muzzle, NEW v \in Nat, v <= LongestStep, Flies(b, bN, muzzle, v),
         PassesOver(b, bN, w, w, w.lengthHalved, w.heightHalved)
  PROVE  BR!SidesTouch(b, w) \/ BR!SidesTouch(bN, w)
<1>1. /\ b.x \in Coordinate /\ b.y \in Coordinate /\ bN.x \in Coordinate /\ bN.y \in Coordinate
      /\ w.x \in Coordinate /\ w.y \in Coordinate /\ w.heightHalved \in Nat /\ w.lengthHalved \in Nat
      /\ Margin \in Nat /\ w.heightHalved >= Margin /\ w.lengthHalved >= Margin
      /\ BulletSize \in Nat
  BY ArenaAssumption DEF Bullets, Blocks, Fits, BarriersFit
<1>2. /\ b.x \in Nat /\ b.y \in Nat /\ bN.x \in Nat /\ bN.y \in Nat /\ w.x \in Nat /\ w.y \in Nat
      /\ b.x < Word /\ b.y < Word /\ bN.x < Word /\ bN.y < Word /\ w.x < Word /\ w.y < Word
      /\ Word \in Nat
  BY <1>1, WidthAssumption DEF Coordinate
<1>3. b.on
  BY DEF PassesOver
<1>4. CASE b.heading \in {"left", "right"}
  <2>1. /\ w.y - w.heightHalved <= b.y /\ b.y <= w.y + w.heightHalved
        /\ w.y - w.heightHalved <= bN.y /\ bN.y <= w.y + w.heightHalved
    BY <1>1, <1>2, <1>4 DEF PassesOver
  <2>2. \/ b.x < w.x /\ bN.x > w.x /\ bN.x = Wrap(b.x + v)
        \/ b.x > w.x /\ bN.x < w.x /\ bN.x = Wrap(b.x - v)
    BY <1>3, <1>4 DEF PassesOver, Flies
  <2>3. w.x >= w.lengthHalved + Margin /\ w.y >= w.heightHalved + Margin
    BY <1>2, <2>2 DEF Fits
  <2>4. \/ /\ w.x - w.lengthHalved - Margin <= b.x + BulletSize
           /\ b.x + BulletSize <= w.x + w.lengthHalved + Margin
        \/ /\ w.x - w.lengthHalved - Margin <= bN.x + BulletSize
           /\ bN.x + BulletSize <= w.x + w.lengthHalved + Margin
    BY <1>1, <2>2, <2>3, BarrierNotJumped
  <2>5. BR!InHeight(b.y, w) /\ BR!InHeight(bN.y, w)
    <3>1. /\ w.y - w.heightHalved - Margin <= b.y /\ b.y <= w.y + w.heightHalved + Margin
          /\ w.y - w.heightHalved - Margin <= bN.y /\ bN.y <= w.y + w.heightHalved + Margin
          /\ b.y < 2 * Word /\ bN.y < 2 * Word
      BY <1>1, <1>2, <2>1
    <3> QED
      BY <1>1, <1>2, <2>3, <3>1, SpanIsExact DEF BR!InHeight
  <2>6. BR!InLength(b.x + BulletSize, w) \/ BR!InLength(bN.x + BulletSize, w)
    <3>1. /\ b.x + BulletSize \in Nat /\ b.x + BulletSize < 2 * Word
          /\ bN.x + BulletSize \in Nat /\ bN.x + BulletSize < 2 * Word
      BY <1>1, <1>2, <2>3 DEF BarriersFit
    <3> QED
      BY <1>1, <2>3, <2>4, <3>1, SpanIsExact DEF BR!InLength
  <2> QED
    BY <2>5, <2>6 DEF BR!SidesTouch
<1>5. CASE b.heading \in {"down", "up"}
  <2>1. /\ w.x - w.lengthHalved <= b.x /\ b.x <= w.x + w.lengthHalved
        /\ w.x - w.lengthHalved <= bN.x /\ bN.x <= w.x + w.lengthHalved
    BY <1>1, <1>2, <1>5 DEF PassesOver
  <2>2. \/ b.y < w.y /\ bN.y > w.y /\ bN.y = Wrap(b.y + v)
        \/ b.y > w.y /\ bN.y < w.y /\ bN.y = Wrap(b.y - v)
    BY <1>3, <1>5 DEF PassesOver, Flies
  <2>3. w.x >= w.lengthHalved + Margin /\ w.y >= w.heightHalved + Margin
    BY <1>2, <2>2 DEF Fits
  <2>4. \/ /\ w.y - w.heightHalved - Margin <= b.y + BulletSize
           /\ b.y + BulletSize <= w.y + w.heightHalved + Margin
        \/ /\ w.y - w.heightHalved - Margin <= bN.y + BulletSize
           /\ bN.y + BulletSize <= w.y + w.heightHalved + Margin
    BY <1>1, <2>2, <2>3, BarrierNotJumped
  <2>5. BR!InLength(b.x, w) /\ BR!InLength(bN.x, w)
    <3>1. /\ w.x - w.lengthHalved - Margin <= b.x /\ b.x <= w.x + w.lengthHalved + Margin
          /\ w.x - w.lengthHalved - Margin <= bN.x /\ bN.x <= w.x + w.lengthHalved + Margin
          /\ b.x < 2 * Word /\ bN.x < 2 * Word
      BY <1>1, <1>2, <2>1
    <3> QED
      BY <1>1, <1>2, <2>3, <3>1, SpanIsExact DEF BR!InLength
  <2>6. BR!InHeight(b.y + BulletSize, w) \/ BR!InHeight(bN.y + BulletSize, w)
    <3>1. /\ b.y + BulletSize \in Nat /\ b.y + BulletSize < 2 * Word
          /\ bN.y + BulletSize \in Nat /\ bN.y + BulletSize < 2 * Word
      BY <1>1, <1>2, <2>3 DEF BarriersFit
    <3> QED
      BY <1>1, <2>3, <2>4, <3>1, SpanIsExact DEF BR!InHeight
  <2> QED
    BY <2>5, <2>6 DEF BR!SidesTouch
<1> QED
  BY <1>4, <1>5 DEF Bullets, Directions

---------------------------------------------------------------------------
\* Every generator holds what it can make of one of its draws.
Generated(gen, draws) ==
  LET selections == {G1!Origin} \cup {G1!Selected(draw) : draw \in draws}
  IN  gen \in [counter : draws, prelatch : selections, barrier : {G1!Clipped(p) : p \in selections}]

Scenery ==
  /\ Generated(gen1, Draws[1]) /\ Generated(gen2, Draws[2])
  /\ Generated(gen3, Draws[3]) /\ Generated(gen4, Draws[4])

\* What a step does to a generator.
Generates(gen, genN, draws) ==
  \/ genN = gen
  \/ genN = [gen EXCEPT !.prelatch = G1!Selected(gen.counter)]
  \/ \E draw \in draws :
       genN = [gen EXCEPT !.barrier = G1!Clipped(gen.prelatch), !.counter = draw]

LEMMA GeneratorKeeps ==
  ASSUME NEW draws, NEW gen, Generated(gen, draws), NEW genN, Generates(gen, genN, draws)
  PROVE  Generated(genN, draws)
  BY DEF Generated, Generates

LEMMA GeneratorsAlike ==
  /\ G2!Origin = G1!Origin /\ G3!Origin = G1!Origin /\ G4!Origin = G1!Origin
  /\ \A p : G2!Clipped(p) = G1!Clipped(p) /\ G3!Clipped(p) = G1!Clipped(p)
            /\ G4!Clipped(p) = G1!Clipped(p)
  /\ \A d : G2!Selected(d) = G1!Selected(d) /\ G3!Selected(d) = G1!Selected(d)
            /\ G4!Selected(d) = G1!Selected(d)
  BY DEF G1!Origin, G2!Origin, G3!Origin, G4!Origin, G1!Clipped, G2!Clipped, G3!Clipped,
         G4!Clipped, G1!Selected, G2!Selected, G3!Selected, G4!Selected

LEMMA SceneryInit == Init => Scenery
<1>1. ASSUME NEW draws, NEW draw \in draws
      PROVE  Generated([counter |-> draw, prelatch |-> G1!Origin, barrier |-> G1!Clipped(G1!Origin)],
                       draws)
  BY DEF Generated
<1> QED
  BY <1>1, GeneratorsAlike DEF Init, G1!Init, G2!Init, G3!Init, G4!Init, Scenery

LEMMA SceneryNext == Scenery /\ [Next]_vars => Scenery'
<1> SUFFICES ASSUME Scenery, [Next]_vars PROVE Scenery'
  OBVIOUS
<1>1. /\ Generates(gen1, gen1', Draws[1]) /\ Generates(gen2, gen2', Draws[2])
      /\ Generates(gen3, gen3', Draws[3]) /\ Generates(gen4, gen4', Draws[4])
  <2>1. CASE G1!Clock /\ G2!Clock /\ G3!Clock /\ G4!Clock
    BY <2>1, GeneratorsAlike DEF G1!Clock, G2!Clock, G3!Clock, G4!Clock, Generates
  <2>2. CASE G1!Reset /\ G2!Reset /\ G3!Reset /\ G4!Reset
    BY <2>2, GeneratorsAlike DEF G1!Reset, G2!Reset, G3!Reset, G4!Reset, Generates
  <2>3. CASE UNCHANGED scenery
    BY <2>3 DEF scenery, Generates
  <2> QED
    BY <2>1, <2>2, <2>3
    DEF Next, PlayFrame, ArenaReset, RoundFrame, PressReset, ReleaseReset, ResetRegisters, vars
<1> QED
  BY <1>1, GeneratorKeeps DEF Scenery

\* So no other barrier is ever in the arena.
LEMMA BarriersArePossible == Scenery => Barriers \subseteq PossibleBarriers
<1> SUFFICES ASSUME Scenery PROVE Barriers \subseteq PossibleBarriers
  OBVIOUS
<1>1. ASSUME NEW g \in 1 .. 4, NEW gen, Generated(gen, Draws[g])
      PROVE  gen.barrier \in PossibleBarriers
  BY <1>1 DEF Generated, PossibleBarriers
<1>2. 1 \in 1 .. 4 /\ 2 \in 1 .. 4 /\ 3 \in 1 .. 4 /\ 4 \in 1 .. 4
  OBVIOUS
<1>3. /\ gen1.barrier \in PossibleBarriers /\ gen2.barrier \in PossibleBarriers
      /\ gen3.barrier \in PossibleBarriers /\ gen4.barrier \in PossibleBarriers
  BY <1>1, <1>2 DEF Scenery
<1>4. FixedBarriers \subseteq PossibleBarriers
  BY DEF PossibleBarriers
<1> QED
  BY <1>3, <1>4 DEF Barriers

LEMMA SceneryInvariant == Spec => []Scenery
  BY SceneryInit, SceneryNext, PTL DEF Spec

\* All registers of the arena, those of the generators included, hold what they can hold,
\* in every arena.
THEOREM ArenaTypeOK == Spec => []TypeOK
<1>1. Scenery => G1!TypeOK /\ G2!TypeOK /\ G3!TypeOK /\ G4!TypeOK
  BY GeneratorsAlike DEF Scenery, Generated, G1!TypeOK, G2!TypeOK, G3!TypeOK, G4!TypeOK
<1>2. Types /\ Scenery => TypeOK
  BY <1>1, OneRecords DEF Types, Registers, TypeOK
<1> QED
  BY <1>2, TypesInvariant, SceneryInvariant, PTL

LEMMA StepJumpsNoBarrier ==
  ASSUME BarriersFit, Types, Types', Scenery, [Next]_vars
  PROVE  BarriersNotJumped
<1> SUFFICES ASSUME ~Reset_arena, NEW w \in Barriers
             PROVE  /\ PassesOver(bullet1, bullet1', w, w, w.lengthHalved, w.heightHalved)
                         => BR!SidesTouch(bullet1, w) \/ BR!SidesTouch(bullet1', w)
                    /\ PassesOver(bullet2, bullet2', w, w, w.lengthHalved, w.heightHalved)
                         => BR!SidesTouch(bullet2, w) \/ BR!SidesTouch(bullet2', w)
  BY DEF BarriersNotJumped, BR!Bullet1Touches, BR!Bullet2Touches
<1>1. w \in Blocks /\ Fits(w)
  BY BarriersArePossible DEF BarriersFit
<1>2. bullet1 \in Bullets /\ bullet2 \in Bullets /\ bullet1' \in Bullets /\ bullet2' \in Bullets
  BY DEF Types, Registers
<1>3. CASE PlayFrame
  <2>1. /\ Flies(bullet1, bullet1', tank1, Speed(boost.p1 \/ boost2.p1))
        /\ Flies(bullet2, bullet2', tank2, Speed(boost.p2 \/ boost2.p2))
    BY <1>3, FrameMoves DEF Types
  <2>2. \A boosted \in BOOLEAN : Speed(boosted) \in Nat /\ Speed(boosted) <= LongestStep
    BY SpeedsFit
  <2> QED
    BY <1>1, <1>2, <2>1, <2>2, PassTouches
<1>4. CASE UNCHANGED fighters
  <2>1. bullet1' = bullet1 /\ bullet2' = bullet2
    BY <1>4 DEF fighters
  <2>2. w.x \in Int /\ w.y \in Int
    BY <1>1, WidthAssumption DEF Blocks, Coordinate
  <2> QED
    BY <1>2, <2>1, <2>2, StillPassesNothing
<1> QED
  BY <1>3, <1>4, StepOfARound

(***************************************************************************)
(* No bullet flies through a barrier, fixed or drawn, in any round: its    *)
(* right or bottom side is in the barrier's box in the frame before or in  *)
(* the frame after it has passed the barrier's centre.  These are the two  *)
(* sides the tests of both bullets agree on (barrier.sv:91-151).           *)
(***************************************************************************)
THEOREM ArenaNoBulletThroughBarrier ==
  ASSUME BarriersFit
  PROVE  Spec => NoBulletThroughBarrier
<1>1. Types /\ Types' /\ Scenery /\ [Next]_vars => BarriersNotJumped
  BY StepJumpsNoBarrier
<1> QED
  BY <1>1, SceneryInvariant, TypesInvariant, PTL DEF Spec, NoBulletThroughBarrier

---------------------------------------------------------------------------
(***************************************************************************)
(* Tanks and barriers.  A tank's centre gets into a barrier's box only     *)
(* across one of its sides, and in the frame before it does the side test  *)
(* that stops it is the one that succeeds (TanksKeptOut).                  *)
(***************************************************************************)

\* On 32 bits a comparison with a barrier that is clear of the edges means what it says,
\* and one with a barrier at the origin never succeeds.
LEMMA SpanMeans ==
  ASSUME Margin \in Nat, NEW n \in Int, -Word <= n, n < 2 * Word,
         NEW c \in Coordinate, NEW half \in Nat, c >= half + Margin
  PROVE  BR!WithinWide(n, c, half + Margin) <=> c - half - Margin <= n /\ n <= c + half + Margin
<1>1. /\ Word \in Nat /\ Wide \in Nat /\ Wide >= 8 * Word /\ c \in Nat /\ c < Word
  BY WidthAssumption DEF Coordinate
<1>2. \A m \in Int : 0 <= m /\ m < Wide => BR!WrapWide(m) = m
  BY <1>1 DEF BR!WrapWide
<1>3. /\ BR!WrapWide(c - (half + Margin)) = c - (half + Margin)
      /\ BR!WrapWide(c + (half + Margin)) = c + (half + Margin)
  BY <1>1, <1>2
<1>4. CASE n >= 0
  <2>1. BR!WrapWide(n) = n
    BY <1>1, <1>2, <1>4
  <2> QED
    BY <1>1, <1>3, <2>1 DEF BR!WithinWide
<1>5. CASE n < 0
  <2>1. n % Wide = n + Wide
    BY <1>1, <1>5
  <2>2. BR!WrapWide(n) = n + Wide
    BY <2>1 DEF BR!WrapWide
  <2> QED
    BY <1>1, <1>3, <1>5, <2>2 DEF BR!WithinWide
<1> QED
  BY <1>4, <1>5

LEMMA OriginMeetsNothing ==
  ASSUME NEW n \in Coordinate, NEW r \in Int, 0 < r, r <= Word
  PROVE  ~BR!WithinWide(n, 0, r)
<1>1. Word \in Nat /\ Word > 0 /\ Wide \in Nat /\ Wide >= 8 * Word /\ n \in Nat /\ n < Word
  BY WidthAssumption DEF Coordinate
<1>2. (0 - r) % Wide = Wide - r /\ n % Wide = n
  BY <1>1
<1> QED
  BY <1>1, <1>2 DEF BR!WithinWide, BR!WrapWide

\* The centre is at v, TankSize off its sides, and goes from outside a span to within it.
Enters(v, vN, low, high) == ~(low <= v /\ v <= high) /\ low <= vN /\ vN <= high

LEMMA EntersUpwards ==
  ASSUME NEW v \in Coordinate, NEW vN \in Coordinate, NEW low \in Int, NEW high \in Int, NEW s \in Nat,
         s <= TankSize, TankSize <= high - low, s <= low, high + s < Word,
         vN = Wrap(v + s), Enters(v, vN, low, high)
  PROVE  v < low /\ low <= v + TankSize /\ v + TankSize <= high
<1>1. /\ v \in Nat /\ v < Word /\ vN \in Nat /\ Word \in Nat /\ Word > 0 /\ TankSize \in Nat
  BY ArenaAssumption, WidthAssumption DEF Coordinate
<1>2. CASE v + s < Word
  <2>1. v + s \in Int /\ 0 <= v + s
    BY <1>1
  <2>2. vN = v + s
    BY <1>2, <2>1, WrapsExactly
  <2> QED
    BY <1>1, <2>2 DEF Enters
<1>3. CASE v + s >= Word
  <2>1. v + s < 2 * Word
    BY <1>1
  <2>2. (v + s) % Word = v + s - Word
    BY <1>1, <1>3, <2>1
  <2>3. vN = v + s - Word
    BY <2>2 DEF Wrap
  <2> QED
    BY <1>1, <2>3 DEF Enters
<1> QED
  BY <1>1, <1>2, <1>3

LEMMA EntersDownwards ==
  ASSUME NEW v \in Coordinate, NEW vN \in Coordinate, NEW low \in Int, NEW high \in Int, NEW s \in Nat,
         s <= TankSize, TankSize <= high - low, s <= low, high + s < Word,
         vN = Wrap(v - s), Enters(v, vN, low, high)
  PROVE  v > high /\ low <= v - TankSize /\ v - TankSize <= high
<1>1. /\ v \in Nat /\ v < Word /\ vN \in Nat /\ Word \in Nat /\ Word > 0 /\ TankSize \in Nat
  BY ArenaAssumption, WidthAssumption DEF Coordinate
<1>2. CASE v >= s
  <2>1. v - s \in Int /\ 0 <= v - s /\ v - s < Word
    BY <1>1, <1>2
  <2>2. vN = v - s
    BY <2>1, WrapsExactly
  <2> QED
    BY <1>1, <2>2 DEF Enters
<1>3. CASE v < s
  <2>1. (v - s) % Word = v - s + Word
    BY <1>1, <1>3
  <2>2. vN = v - s + Word
    BY <2>1 DEF Wrap
  <2> QED
    BY <1>1, <2>2 DEF Enters
<1> QED
  BY <1>1, <1>2, <1>3

\* The wall that is reported is that of the first side test that succeeds.
LEMMA WallByTest ==
  ASSUME NEW t, NEW w
  PROVE  LET right  == BR!InLength(t.x + TankSize, w) /\ BR!InHeight(t.y, w)
             left   == BR!InLength(t.x - TankSize, w) /\ BR!InHeight(t.y, w)
             bottom == BR!InHeight(t.y + TankSize, w) /\ BR!InLength(t.x, w)
             top    == BR!InHeight(t.y - TankSize, w) /\ BR!InLength(t.x, w)
         IN  /\ right => "leftWall" \in BR!WallTouched(t, w)
             /\ ~right /\ left => "rightWall" \in BR!WallTouched(t, w)
             /\ ~right /\ ~left /\ bottom => "topWall" \in BR!WallTouched(t, w)
             /\ ~right /\ ~left /\ ~bottom /\ top => "bottomWall" \in BR!WallTouched(t, w)
  BY DEF BR!WallTouched

LEMMA TankStaysOut ==
  ASSUME TanksKeptOut, NEW t \in Tanks, NEW u \in Tanks, NEW w \in Blocks, KeepsOut(w),
         NEW s \in {Step, FastStep}, NEW walls, Heeds(t, u, s, walls),
         BR!WallTouched(t, w) \subseteq walls, ~Inside(t, w)
  PROVE  ~Inside(u, w)
<1> DEFINE rx == w.lengthHalved + Margin   ry == w.heightHalved + Margin
<1>1. /\ t.x \in Coordinate /\ t.y \in Coordinate /\ u.x \in Coordinate /\ u.y \in Coordinate
      /\ w.x \in Coordinate /\ w.y \in Coordinate /\ w.lengthHalved \in Nat /\ w.heightHalved \in Nat
      /\ Margin \in Nat /\ rx \in Nat /\ ry \in Nat
  BY DEF Tanks, Blocks, TanksKeptOut
<1>2. /\ t.x \in Nat /\ t.y \in Nat /\ u.x \in Nat /\ u.y \in Nat /\ w.x \in Nat /\ w.y \in Nat
      /\ t.x < Word /\ t.y < Word /\ u.x < Word /\ u.y < Word /\ w.x < Word /\ w.y < Word
      /\ Word \in Nat /\ s \in Nat /\ TankSize \in Nat /\ s <= TankSize
      /\ TankSize <= 2 * rx /\ TankSize <= 2 * ry
  BY <1>1, ArenaAssumption, WidthAssumption DEF Coordinate, TanksKeptOut, KeepsOut
<1>3. CASE w.x = 0 /\ w.y = 0 /\ 0 < rx /\ rx <= Word
  BY <1>1, <1>3, OriginMeetsNothing DEF Inside, BR!InLength
<1>4. CASE s <= w.x - rx /\ w.x + rx + s < Word /\ s <= w.y - ry /\ w.y + ry + s < Word
  <2> DEFINE InX(n) == w.x - rx <= n /\ n <= w.x + rx
             InY(n) == w.y - ry <= n /\ n <= w.y + ry
  <2>1. \A n \in Int : -Word <= n /\ n < 2 * Word =>
          /\ BR!InLength(n, w) <=> InX(n)
          /\ BR!InHeight(n, w) <=> InY(n)
    <3> SUFFICES ASSUME NEW n \in Int, -Word <= n, n < 2 * Word
                 PROVE  (BR!InLength(n, w) <=> InX(n)) /\ (BR!InHeight(n, w) <=> InY(n))
      OBVIOUS
    <3>1. w.x >= w.lengthHalved + Margin /\ w.y >= w.heightHalved + Margin
      BY <1>1, <1>2, <1>4
    <3>2. /\ BR!InLength(n, w) <=> w.x - w.lengthHalved - Margin <= n /\ n <= w.x + w.lengthHalved + Margin
          /\ BR!InHeight(n, w) <=> w.y - w.heightHalved - Margin <= n /\ n <= w.y + w.heightHalved + Margin
      BY <1>1, <3>1, SpanMeans DEF BR!InLength, BR!InHeight
    <3> QED
      BY <1>1, <1>2, <3>2
  <2>2. TankSize <= Word
    BY <1>1, <1>2, <1>4
  <2>3. /\ BR!InLength(t.x, w) <=> InX(t.x)
        /\ BR!InLength(t.x + TankSize, w) <=> InX(t.x + TankSize)
        /\ BR!InLength(t.x - TankSize, w) <=> InX(t.x - TankSize)
        /\ BR!InHeight(t.y, w) <=> InY(t.y)
        /\ BR!InHeight(t.y + TankSize, w) <=> InY(t.y + TankSize)
        /\ BR!InHeight(t.y - TankSize, w) <=> InY(t.y - TankSize)
        /\ BR!InLength(u.x, w) <=> InX(u.x)
        /\ BR!InHeight(u.y, w) <=> InY(u.y)
    BY <1>2, <2>1, <2>2
  <2>4. SUFFICES ASSUME InX(u.x), InY(u.y) PROVE FALSE
    BY <2>3 DEF Inside
  <2>5. ~(InX(t.x) /\ InY(t.y))
    BY <2>3 DEF Inside
  <2>6. /\ InX(t.x + TankSize) /\ InY(t.y) => "leftWall" \in walls
        /\ ~InX(t.x + TankSize) /\ InX(t.x - TankSize) /\ InY(t.y) => "rightWall" \in walls
        /\ ~InY(t.y) /\ InY(t.y + TankSize) /\ InX(t.x) => "topWall" \in walls
        /\ ~InY(t.y) /\ ~InY(t.y + TankSize) /\ InY(t.y - TankSize) /\ InX(t.x) => "bottomWall" \in walls
    BY <2>3, WallByTest
  <2>7. CASE u.y = t.y /\ "leftWall" \notin walls /\ u.x = Wrap(t.x + s)
    <3>1. InX(t.x + TankSize)
      <4>1. Enters(t.x, u.x, w.x - rx, w.x + rx)
        BY <2>4, <2>5, <2>7 DEF Enters
      <4>2. /\ w.x - rx \in Int /\ w.x + rx \in Int
            /\ TankSize <= (w.x + rx) - (w.x - rx) /\ s <= w.x - rx /\ w.x + rx + s < Word
        BY <1>1, <1>2, <1>4
      <4>3. t.x \in Coordinate /\ u.x \in Coordinate /\ s \in Nat /\ s <= TankSize
        BY <1>1, <1>2
      <4> QED
        BY <4>1, <4>2, <4>3, <2>7, EntersUpwards
    <3> QED
      BY <2>4, <2>6, <2>7, <3>1
  <2>8. CASE u.y = t.y /\ "rightWall" \notin walls /\ u.x = Wrap(t.x - s)
    <3>1. t.x > w.x + rx /\ InX(t.x - TankSize)
      <4>1. Enters(t.x, u.x, w.x - rx, w.x + rx)
        BY <2>4, <2>5, <2>8 DEF Enters
      <4>2. /\ w.x - rx \in Int /\ w.x + rx \in Int
            /\ TankSize <= (w.x + rx) - (w.x - rx) /\ s <= w.x - rx /\ w.x + rx + s < Word
        BY <1>1, <1>2, <1>4
      <4>3. t.x \in Coordinate /\ u.x \in Coordinate /\ s \in Nat /\ s <= TankSize
        BY <1>1, <1>2
      <4> QED
        BY <4>1, <4>2, <4>3, <2>8, EntersDownwards
    <3>2. ~InX(t.x + TankSize)
      BY <1>1, <1>2, <3>1
    <3> QED
      BY <2>4, <2>6, <2>8, <3>1, <3>2
  <2>9. CASE u.x = t.x /\ "topWall" \notin walls /\ u.y = Wrap(t.y + s)
    <3>1. InY(t.y + TankSize)
      <4>1. Enters(t.y, u.y, w.y - ry, w.y + ry)
        BY <2>4, <2>5, <2>9 DEF Enters
      <4>2. /\ w.y - ry \in Int /\ w.y + ry \in Int
            /\ TankSize <= (w.y + ry) - (w.y - ry) /\ s <= w.y - ry /\ w.y + ry + s < Word
        BY <1>1, <1>2, <1>4
      <4>3. t.y \in Coordinate /\ u.y \in Coordinate /\ s \in Nat /\ s <= TankSize
        BY <1>1, <1>2
      <4> QED
        BY <4>1, <4>2, <4>3, <2>9, EntersUpwards
    <3> QED
      BY <2>4, <2>5, <2>6, <2>9, <3>1
  <2>10. CASE u.x = t.x /\ "bottomWall" \notin walls /\ u.y = Wrap(t.y - s)
    <3>1. t.y > w.y + ry /\ InY(t.y - TankSize)
      <4>1. Enters(t.y, u.y, w.y - ry, w.y + ry)
        BY <2>4, <2>5, <2>10 DEF Enters
      <4>2. /\ w.y - ry \in Int /\ w.y + ry \in Int
            /\ TankSize <= (w.y + ry) - (w.y - ry) /\ s <= w.y - ry /\ w.y + ry + s < Word
        BY <1>1, <1>2, <1>4
      <4>3. t.y \in Coordinate /\ u.y \in Coordinate /\ s \in Nat /\ s <= TankSize
        BY <1>1, <1>2
      <4> QED
        BY <4>1, <4>2, <4>3, <2>10, EntersDownwards
    <3>2. ~InY(t.y + TankSize)
      BY <1>1, <1>2, <3>1
    <3> QED
      BY <2>4, <2>5, <2>6, <2>10, <3>1, <3>2
  <2>11. CASE u.x = t.x /\ u.y = t.y
    BY <2>4, <2>5, <2>11
  <2> QED
    BY <2>7, <2>8, <2>9, <2>10, <2>11 DEF Heeds
<1> QED
  BY <1>3, <1>4 DEF KeepsOut

LEMMA OutsideNext ==
  ASSUME TanksKeptOut, Types, Types', Scenery, Scenery', OutsideBarriers, [Next]_vars
  PROVE  OutsideBarriers'
<1> SUFFICES ASSUME NEW w \in Barriers' PROVE ~Inside(tank1', w) /\ ~Inside(tank2', w)
  BY DEF OutsideBarriers, Inside
<1>1. w \in PossibleBarriers /\ w \in Blocks /\ KeepsOut(w)
  <2>1. Barriers' \subseteq PossibleBarriers
    <3>1. (Scenery => Barriers \subseteq PossibleBarriers)'
      BY BarriersArePossible, PTL
    <3> QED
      BY <3>1
  <2> QED
    BY <2>1 DEF TanksKeptOut
<1>2. tank1 \in Tanks /\ tank2 \in Tanks /\ tank1' \in Tanks /\ tank2' \in Tanks
  BY DEF Types, Registers
<1>3. CASE PlayFrame
  <2>1. w \in Barriers
    BY <1>3 DEF PlayFrame, Barriers, G1!Clock, G2!Clock, G3!Clock, G4!Clock
  <2>2. BR!WallTouched(tank1, w) \subseteq WallsAt(tank1) /\ BR!WallTouched(tank2, w) \subseteq WallsAt(tank2)
    BY <2>1 DEF WallsAt
  <2>3. /\ Heeds(tank1, tank1', Stride(speed.p1), WallsAt(tank1))
        /\ Heeds(tank2, tank2', Stride(speed.p2), WallsAt(tank2))
    BY <1>3, FrameHeeds DEF Types
  <2>4. Stride(speed.p1) \in {Step, FastStep} /\ Stride(speed.p2) \in {Step, FastStep}
    BY DEF Stride
  <2>5. ~Inside(tank1, w) /\ ~Inside(tank2, w)
    BY <2>1 DEF OutsideBarriers
  <2> QED
    BY <1>1, <1>2, <2>2, <2>3, <2>4, <2>5, TankStaysOut
<1>4. CASE ResetRegisters
  <2>1. tank1'.x = Spawn1.x /\ tank1'.y = Spawn1.y /\ tank2'.x = Spawn2.x /\ tank2'.y = Spawn2.y
    BY <1>4 DEF ResetRegisters, T1!Reset, T2!Reset, T1!Spawned, T2!Spawned
  <2> QED
    BY <1>1, <2>1 DEF KeepsOut, Inside
<1>5. CASE UNCHANGED <<fighters, scenery>>
  <2>1. tank1' = tank1 /\ tank2' = tank2 /\ w \in Barriers
    BY <1>5 DEF fighters, scenery, Barriers
  <2> QED
    BY <2>1 DEF OutsideBarriers
<1> QED
  BY <1>3, <1>4, <1>5 DEF Next, ArenaReset, RoundFrame, PressReset, ReleaseReset, vars

(***************************************************************************)
(* No tank's centre is ever inside a barrier, in any round and however     *)
(* fast the tank is, though barrier.sv reports one wall only.              *)
(***************************************************************************)
THEOREM ArenaOutsideBarriers ==
  ASSUME TanksKeptOut
  PROVE  Spec => []OutsideBarriers
<1>1. Init => OutsideBarriers
  <2> SUFFICES ASSUME Init, NEW w \in Barriers PROVE ~Inside(tank1, w) /\ ~Inside(tank2, w)
    BY DEF OutsideBarriers
  <2>1. KeepsOut(w)
    BY SceneryInit, BarriersArePossible DEF TanksKeptOut
  <2>2. tank1.x = Spawn1.x /\ tank1.y = Spawn1.y /\ tank2.x = Spawn2.x /\ tank2.y = Spawn2.y
    BY DEF Init, T1!Init, T2!Init, T1!Spawned, T2!Spawned
  <2> QED
    BY <2>1, <2>2 DEF KeepsOut, Inside
<1>2. Types /\ Types' /\ Scenery /\ Scenery' /\ OutsideBarriers /\ [Next]_vars => OutsideBarriers'
  BY OutsideNext
<1> QED
  BY <1>1, <1>2, TypesInvariant, SceneryInvariant, PTL DEF Spec

---------------------------------------------------------------------------
(***************************************************************************)
(* Bullets that meet.  Two of them close no more in a frame than the       *)
(* padded box covers (MeetFits); in the build 12+12 <= 2*12 + 1.  The box  *)
(* is centred on the first bullet and its near sides are compared on 32    *)
(* bits, where they lie beyond every coordinate if they are left of or     *)
(* above the screen: PaddingCovers excepts those places.                   *)
(***************************************************************************)
LEMMA MeetOnAxis ==
  ASSUME MeetFits, NEW c \in Coordinate, NEW cN \in Coordinate, NEW d \in Coordinate, NEW dN \in Coordinate,
         c < d, cN > dN, cN = Wrap(c + BulletStep), dN = Wrap(d - BulletStep)
  PROVE  d - c <= Pad \/ cN - dN <= Pad
<1>1. /\ c \in Nat /\ c < Word /\ d \in Nat /\ d < Word /\ cN \in Nat /\ dN \in Nat
      /\ Word \in Nat /\ Word > 0 /\ BulletStep \in Nat /\ Pad \in Nat
      /\ 2 * BulletStep <= 2 * Pad + 1 /\ 4 * BulletStep <= Word
  BY ArenaAssumption, WidthAssumption DEF Coordinate, MeetFits, Pad
<1>2. cN = c + BulletStep \/ (cN = c + BulletStep - Word /\ c + BulletStep >= Word)
  <2>1. CASE c + BulletStep < Word
    <3>1. c + BulletStep \in Int /\ 0 <= c + BulletStep
      BY <1>1
    <3>2. Wrap(c + BulletStep) = c + BulletStep
      BY <2>1, <3>1, WrapsExactly
    <3> QED
      BY <3>2
  <2>2. CASE c + BulletStep >= Word
    <3>1. c + BulletStep < 2 * Word
      BY <1>1
    <3>2. (c + BulletStep) % Word = c + BulletStep - Word
      BY <1>1, <2>2, <3>1
    <3> QED
      BY <2>2, <3>2 DEF Wrap
  <2> QED
    BY <1>1, <2>1, <2>2
<1>3. dN = d - BulletStep \/ (dN = d - BulletStep + Word /\ d < BulletStep)
  <2>1. CASE d >= BulletStep
    <3>1. d - BulletStep \in Int /\ 0 <= d - BulletStep /\ d - BulletStep < Word
      BY <1>1, <2>1
    <3>2. Wrap(d - BulletStep) = d - BulletStep
      BY <3>1, WrapsExactly
    <3> QED
      BY <3>2
  <2>2. CASE d < BulletStep
    <3>1. (d - BulletStep) % Word = d - BulletStep + Word
      BY <1>1, <2>2
    <3> QED
      BY <2>2, <3>1 DEF Wrap
  <2> QED
    BY <1>1, <2>1, <2>2
<1>4. cN = c + BulletStep /\ dN = d - BulletStep
  BY <1>1, <1>2, <1>3
<1> QED
  BY <1>1, <1>4

\* Near on one axis, along which the padded box does not wrap, and level on the other.
LEMMA NearBulletsMeet ==
  ASSUME NEW b \in Bullets, NEW c \in Bullets, NEW heading \in Directions, ClearAlong(b, heading),
         \/ /\ heading \in {"left", "right"}
            /\ -Pad <= c.x - b.x /\ c.x - b.x <= Pad
            /\ -BulletSize <= c.y - b.y /\ c.y - b.y <= BulletSize
         \/ /\ heading \in {"down", "up"}
            /\ -Pad <= c.y - b.y /\ c.y - b.y <= Pad
            /\ -BulletSize <= c.x - b.x /\ c.x - b.x <= BulletSize
  PROVE  HD!BulletsMeet(b, c)
<1>1. /\ b.x \in Nat /\ b.y \in Nat /\ c.x \in Nat /\ c.y \in Nat
      /\ b.x < Word /\ b.y < Word /\ c.x < Word /\ c.y < Word
      /\ Word \in Nat /\ Wide \in Nat /\ Wide >= 8 * Word
      /\ BulletSize \in Nat /\ MeetPadding \in Nat /\ Pad = BulletSize + MeetPadding
  BY ArenaAssumption, WidthAssumption DEF Bullets, Coordinate, Pad
<1>2. \A n \in Int : 0 <= n /\ n < Wide => HD!WrapWide(n) = n
  BY <1>1 DEF HD!WrapWide
<1>3. \A n \in Int : 0 <= n /\ n < Word => HD!Wrap(n) = n
  BY <1>1 DEF HD!Wrap
<1>4. HD!WrapWide(c.x) = c.x /\ HD!WrapWide(c.y) = c.y
  BY <1>1, <1>2
<1>5. CASE heading \in {"left", "right"}
  <2>1. /\ Pad <= b.x /\ BulletSize <= b.y /\ b.y + BulletSize < Word
        /\ -Pad <= c.x - b.x /\ c.x - b.x <= Pad
        /\ -BulletSize <= c.y - b.y /\ c.y - b.y <= BulletSize
    BY <1>5 DEF ClearAlong
  <2>2. HD!WrapWide(b.x - Pad) = b.x - Pad /\ HD!WrapWide(b.x + Pad) = b.x + Pad
    BY <1>1, <1>2, <2>1
  <2>3. HD!Wrap(b.y - BulletSize) = b.y - BulletSize /\ HD!Wrap(b.y + BulletSize) = b.y + BulletSize
    BY <1>1, <1>3, <2>1
  <2>4. HD!WithinWide(c.x, b.x, BulletSize + MeetPadding) /\ HD!Within(c.y, b.y, BulletSize)
    BY <1>1, <1>4, <2>1, <2>2, <2>3 DEF HD!WithinWide, HD!Within
  <2> QED
    BY <2>4 DEF HD!BulletsMeet
<1>6. CASE heading \in {"down", "up"}
  <2>1. /\ Pad <= b.y /\ BulletSize <= b.x /\ b.x + BulletSize < Word
        /\ -Pad <= c.y - b.y /\ c.y - b.y <= Pad
        /\ -BulletSize <= c.x - b.x /\ c.x - b.x <= BulletSize
    BY <1>6 DEF ClearAlong
  <2>2. HD!WrapWide(b.y - Pad) = b.y - Pad /\ HD!WrapWide(b.y + Pad) = b.y + Pad
    BY <1>1, <1>2, <2>1
  <2>3. HD!Wrap(b.x - BulletSize) = b.x - BulletSize /\ HD!Wrap(b.x + BulletSize) = b.x + BulletSize
    BY <1>1, <1>3, <2>1
  <2>4. HD!WithinWide(c.y, b.y, BulletSize + MeetPadding) /\ HD!Within(c.x, b.x, BulletSize)
    BY <1>1, <1>4, <2>1, <2>2, <2>3 DEF HD!WithinWide, HD!Within
  <2> QED
    BY <2>4 DEF HD!BulletsMeet
<1> QED
  BY <1>5, <1>6 DEF Directions

LEMMA StepMissesNoMeeting ==
  ASSUME MeetFits, Types, Types', PaddingCovers, [Next]_vars
  PROVE  MeetingNoticed
<1> DEFINE b == bullet1   bN == bullet1'   c == bullet2   cN == bullet2'
<1> SUFFICES ASSUME ~Reset_arena,
                    PassesOver(b, bN, c, cN, BulletSize, BulletSize),
                    PassesOver(c, cN, b, bN, BulletSize, BulletSize)
             PROVE  HD!BulletsMeet(b, c) \/ HD!BulletsMeet(bN, cN)
  BY DEF MeetingNoticed, BulletsPass, bullet_on_bullet_hit
<1>1. b \in Bullets /\ c \in Bullets /\ bN \in Bullets /\ cN \in Bullets
  BY DEF Types, Registers
<1>2. /\ b.x \in Coordinate /\ b.y \in Coordinate /\ bN.x \in Coordinate /\ bN.y \in Coordinate
      /\ c.x \in Coordinate /\ c.y \in Coordinate /\ cN.x \in Coordinate /\ cN.y \in Coordinate
      /\ b.heading \in Directions /\ c.heading \in Directions
  BY <1>1 DEF Bullets
<1>3. /\ b.x \in Nat /\ b.y \in Nat /\ bN.x \in Nat /\ bN.y \in Nat
      /\ c.x \in Nat /\ c.y \in Nat /\ cN.x \in Nat /\ cN.y \in Nat
      /\ BulletSize \in Nat /\ Pad \in Nat /\ BulletSize <= Pad
  BY <1>2, ArenaAssumption, WidthAssumption DEF Coordinate, Pad
<1>4. PlayFrame
  <2>1. c.x \in Int /\ c.y \in Int
    BY <1>3
  <2>2. ~UNCHANGED <<bullet1, bullet2>>
    BY <1>1, <2>1, StillPassesNothing
  <2> QED
    BY <2>2, StepOfARound DEF fighters
<1>5. Flies(b, bN, tank1, BulletStep) /\ Flies(c, cN, tank2, BulletStep)
  <2>1. Speed(boost.p1 \/ boost2.p1) = BulletStep /\ Speed(boost.p2 \/ boost2.p2) = BulletStep
    BY ArenaAssumption DEF PaddingCovers, Boosted, Speed
  <2> QED
    BY <1>4, <2>1, FrameMoves DEF Types
<1>6. b.on /\ c.on
  BY DEF PassesOver
<1>7. ClearAlong(b, b.heading) /\ ClearAlong(bN, b.heading)
  BY DEF PaddingCovers
<1> HIDE DEF b, bN, c, cN
<1>8. CASE b.heading \in {"left", "right"} /\ c.heading \in {"left", "right"}
  <2>1. /\ -BulletSize <= c.y - b.y /\ c.y - b.y <= BulletSize
        /\ -BulletSize <= cN.y - bN.y /\ cN.y - bN.y <= BulletSize
    BY <1>3, <1>8 DEF PassesOver
  <2>2. \/ /\ b.x < c.x /\ bN.x > cN.x
           /\ bN.x = Wrap(b.x + BulletStep) /\ cN.x = Wrap(c.x - BulletStep)
        \/ /\ c.x < b.x /\ cN.x > bN.x
           /\ cN.x = Wrap(c.x + BulletStep) /\ bN.x = Wrap(b.x - BulletStep)
    BY <1>3, <1>5, <1>6, <1>8 DEF PassesOver, Flies
  <2>3. \/ -Pad <= c.x - b.x /\ c.x - b.x <= Pad
        \/ -Pad <= cN.x - bN.x /\ cN.x - bN.x <= Pad
    BY <1>2, <1>3, <2>2, MeetOnAxis
  <2> QED
    BY <1>1, <1>2, <1>7, <1>8, <2>1, <2>3, NearBulletsMeet
<1>9. CASE b.heading \in {"down", "up"} /\ c.heading \in {"down", "up"}
  <2>1. /\ -BulletSize <= c.x - b.x /\ c.x - b.x <= BulletSize
        /\ -BulletSize <= cN.x - bN.x /\ cN.x - bN.x <= BulletSize
    BY <1>3, <1>9 DEF PassesOver
  <2>2. \/ /\ b.y < c.y /\ bN.y > cN.y
           /\ bN.y = Wrap(b.y + BulletStep) /\ cN.y = Wrap(c.y - BulletStep)
        \/ /\ c.y < b.y /\ cN.y > bN.y
           /\ cN.y = Wrap(c.y + BulletStep) /\ bN.y = Wrap(b.y - BulletStep)
    BY <1>3, <1>5, <1>6, <1>9 DEF PassesOver, Flies
  <2>3. \/ -Pad <= c.y - b.y /\ c.y - b.y <= Pad
        \/ -Pad <= cN.y - bN.y /\ cN.y - bN.y <= Pad
    BY <1>2, <1>3, <2>2, MeetOnAxis
  <2> QED
    BY <1>1, <1>2, <1>7, <1>9, <2>1, <2>3, NearBulletsMeet
<1>10. CASE \/ b.heading \in {"left", "right"} /\ c.heading \in {"down", "up"}
            \/ b.heading \in {"down", "up"} /\ c.heading \in {"left", "right"}
  <2>1. /\ -BulletSize <= c.y - b.y /\ c.y - b.y <= BulletSize
        /\ -BulletSize <= c.x - b.x /\ c.x - b.x <= BulletSize
    BY <1>3, <1>10 DEF PassesOver
  <2> QED
    BY <1>1, <1>2, <1>3, <1>7, <2>1, NearBulletsMeet DEF Directions
<1> QED
  BY <1>2, <1>8, <1>9, <1>10 DEF Directions

(***************************************************************************)
(* Two bullets without upgrades that fly at each other, or across each     *)
(* other, do not pass unnoticed, except where the padded box about the     *)
(* first has its near side off the screen.                                 *)
(***************************************************************************)
THEOREM ArenaMeetingNoticed ==
  ASSUME MeetFits
  PROVE  Spec => NoPassThrough
<1>1. Types /\ Types' /\ [Next]_vars => (PaddingCovers => MeetingNoticed)
  BY StepMissesNoMeeting
<1> QED
  BY <1>1, TypesInvariant, PTL DEF Spec, NoPassThrough
=============================================================================
