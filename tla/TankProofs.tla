---------------------------- MODULE TankProofs ----------------------------
(***************************************************************************)
(* Type correctness of the tank, and the theorem that it never drives off  *)
(* the screen, for every screen, tank size and step that leaves the edge   *)
(* tests of tank.sv enough room.                                           *)
(***************************************************************************)
EXTENDS Tank, TLAPS

(***************************************************************************)
(* What the edge tests need.  They compare the position before the step,   *)
(* and stop a tank that touches the edge, so a step may be one pixel and   *)
(* no more; and adding the tank's size to a coordinate on the screen must  *)
(* not wrap.  The build meets this without the speed upgrade (Step = 1)    *)
(* and misses it with the upgrade (FastStep = 3).                          *)
(***************************************************************************)
StepFits ==
  /\ XMax + TankSize < Word
  /\ YMax + TankSize < Word
  /\ SpawnX - TankSize >= XMin /\ SpawnX + TankSize <= XMax
  /\ SpawnY - TankSize >= YMin /\ SpawnY + TankSize <= YMax
  /\ \A fast \in Boosts : Stride(fast) <= 1

\* Arithmetic modulo Word stays a coordinate, and is exact when it need not wrap.
LEMMA WrapIsCoordinate == \A n \in Int : Wrap(n) \in Coordinate
  BY WidthAssumption DEF Wrap, Coordinate

LEMMA WrapExact == \A n \in Coordinate : Wrap(n) = n
  BY WidthAssumption DEF Wrap, Coordinate

\* The value of an input: a stride is a natural number.
LEMMA StrideIsNat == \A fast \in BOOLEAN : Stride(fast) \in Nat
  BY TankAssumption DEF Stride

\* A frame keeps the registers well typed, whatever the inputs.
LEMMA ClockTypeOK ==
  ASSUME TypeOK, NEW key, NEW fast \in BOOLEAN, NEW walls, Clock(key, fast, walls)
  PROVE  TypeOK'
<1> USE DEF TypeOK, TankRegisters
<1>1. Stride(fast) \in Int /\ tank.x \in Int /\ tank.y \in Int
  BY StrideIsNat, WidthAssumption DEF Coordinate
<1>2. /\ Wrap(tank.x - Stride(fast)) \in Coordinate
      /\ Wrap(tank.x + Stride(fast)) \in Coordinate
      /\ Wrap(tank.y - Stride(fast)) \in Coordinate
      /\ Wrap(tank.y + Stride(fast)) \in Coordinate
  BY <1>1, WrapIsCoordinate
<1>3. CASE Left(key, fast, walls)
  BY <1>2, <1>3 DEF Left, Directions
<1>4. CASE Right(key, fast, walls)
  BY <1>2, <1>4 DEF Right, Directions
<1>5. CASE Down(key, fast, walls)
  BY <1>2, <1>5 DEF Down, Directions
<1>6. CASE Up(key, fast, walls)
  BY <1>2, <1>6 DEF Up, Directions
<1>7. CASE Hold(key)
  BY <1>7 DEF Hold
<1> QED BY <1>3, <1>4, <1>5, <1>6, <1>7 DEF Clock

\* A reset loads the spawn point.
LEMMA ResetTypeOK == Reset => TypeOK'
  BY TankAssumption DEF Reset, Spawned, TypeOK, TankRegisters

(***************************************************************************)
(* The registers always hold coordinates and a direction: every assignment *)
(* of tank.sv is a wrapped sum, a constant or the register itself.         *)
(***************************************************************************)
THEOREM TankTypeOK == Spec => []TypeOK
<1>1. Init => TypeOK
  BY TankAssumption DEF Init, Spawned, TypeOK, TankRegisters
<1>2. TypeOK /\ [Next]_tank => TypeOK'
  <2> SUFFICES ASSUME TypeOK, [Next]_tank PROVE TypeOK'
    OBVIOUS
  <2>1. CASE Reset
    BY <2>1, ResetTypeOK
  <2>2. ASSUME NEW key \in Keys, NEW fast \in Boosts, NEW walls \in SUBSET Walls,
               Clock(key, fast, walls)
        PROVE  TypeOK'
    BY <2>2, ClockTypeOK, TankAssumption
  <2>3. CASE UNCHANGED tank
    BY <2>3 DEF TypeOK
  <2> QED BY <2>1, <2>2, <2>3 DEF Next
<1> QED BY <1>1, <1>2, PTL DEF Spec

(***************************************************************************)
(* A tank that moves one pixel per frame never leaves the screen, whatever *)
(* its keys and the barriers do.  On the screen no subtraction or addition *)
(* of an edge test wraps, so the test speaks about the real position, and  *)
(* an unblocked tank is at least one pixel away from the edge.             *)
(***************************************************************************)
THEOREM TankInArena ==
  ASSUME StepFits
  PROVE  Spec => []InArena
<1>1. Init => InArena
  BY StepFits DEF StepFits, Init, Spawned, InArena
<1>2. TypeOK /\ InArena /\ [Next]_tank => InArena'
  <2> SUFFICES ASSUME TypeOK, InArena, [Next]_tank PROVE InArena'
    OBVIOUS
  <2>1. CASE Reset
    BY <2>1, StepFits DEF Reset, Spawned, InArena, StepFits
  <2>2. ASSUME NEW key \in Keys, NEW fast \in Boosts, NEW walls \in SUBSET Walls,
               Clock(key, fast, walls)
        PROVE  InArena'
    <3> DEFINE s == Stride(fast)
    <3>1. /\ s \in Nat /\ s <= 1
          /\ {TankSize, XMin, XMax, YMin, YMax, Word} \subseteq Nat
          /\ tank \in TankRegisters
          /\ tank.x \in Coordinate /\ tank.y \in Coordinate
      BY StrideIsNat, StepFits, TankAssumption, WidthAssumption
         DEF StepFits, TypeOK, TankRegisters
    <3>2. /\ tank.x - TankSize \in Coordinate /\ tank.x + TankSize \in Coordinate
          /\ tank.y - TankSize \in Coordinate /\ tank.y + TankSize \in Coordinate
      BY <3>1, StepFits DEF StepFits, InArena, Coordinate
    <3>3. /\ Wrap(tank.x - TankSize) = tank.x - TankSize
          /\ Wrap(tank.x + TankSize) = tank.x + TankSize
          /\ Wrap(tank.y - TankSize) = tank.y - TankSize
          /\ Wrap(tank.y + TankSize) = tank.y + TankSize
      BY <3>2, WrapExact
    <3> HIDE DEF s
    <3>4. CASE Left(key, fast, walls)
      <4>1. /\ tank'.y = tank.y
            /\ \/ tank'.x = tank.x
               \/ ~AtLeftEdge /\ tank'.x = Wrap(tank.x - s)
        BY <3>1, <3>4 DEF Left, TankRegisters, s
      <4>2. CASE ~AtLeftEdge /\ tank'.x = Wrap(tank.x - s)
        <5>1. tank.x - TankSize > XMin
          BY <4>2, <3>1, <3>3 DEF AtLeftEdge, Coordinate
        <5>2. tank.x - s \in Coordinate
          BY <5>1, <3>1 DEF Coordinate
        <5> QED BY <4>1, <4>2, <5>1, <5>2, <3>1, WrapExact DEF InArena, Coordinate
      <4> QED BY <4>1, <4>2 DEF InArena
    <3>5. CASE Right(key, fast, walls)
      <4>1. /\ tank'.y = tank.y
            /\ \/ tank'.x = tank.x
               \/ ~AtRightEdge /\ tank'.x = Wrap(tank.x + s)
        BY <3>1, <3>5 DEF Right, TankRegisters, s
      <4>2. CASE ~AtRightEdge /\ tank'.x = Wrap(tank.x + s)
        <5>1. tank.x + TankSize < XMax
          BY <4>2, <3>1, <3>3 DEF AtRightEdge, Coordinate
        <5>2. tank.x + s \in Coordinate
          BY <5>1, <3>1, StepFits DEF Coordinate, StepFits
        <5> QED BY <4>1, <4>2, <5>1, <5>2, <3>1, WrapExact DEF InArena, Coordinate
      <4> QED BY <4>1, <4>2 DEF InArena
    <3>6. CASE Down(key, fast, walls)
      <4>1. /\ tank'.x = tank.x
            /\ \/ tank'.y = tank.y
               \/ ~AtBottomEdge /\ tank'.y = Wrap(tank.y + s)
        BY <3>1, <3>6 DEF Down, TankRegisters, s
      <4>2. CASE ~AtBottomEdge /\ tank'.y = Wrap(tank.y + s)
        <5>1. tank.y + TankSize < YMax
          BY <4>2, <3>1, <3>3 DEF AtBottomEdge, Coordinate
        <5>2. tank.y + s \in Coordinate
          BY <5>1, <3>1, StepFits DEF Coordinate, StepFits
        <5> QED BY <4>1, <4>2, <5>1, <5>2, <3>1, WrapExact DEF InArena, Coordinate
      <4> QED BY <4>1, <4>2 DEF InArena
    <3>7. CASE Up(key, fast, walls)
      <4>1. /\ tank'.x = tank.x
            /\ \/ tank'.y = tank.y
               \/ ~AtTopEdge /\ tank'.y = Wrap(tank.y - s)
        BY <3>1, <3>7 DEF Up, TankRegisters, s
      <4>2. CASE ~AtTopEdge /\ tank'.y = Wrap(tank.y - s)
        <5>1. tank.y - TankSize > YMin
          BY <4>2, <3>1, <3>3 DEF AtTopEdge, Coordinate
        <5>2. tank.y - s \in Coordinate
          BY <5>1, <3>1 DEF Coordinate
        <5> QED BY <4>1, <4>2, <5>1, <5>2, <3>1, WrapExact DEF InArena, Coordinate
      <4> QED BY <4>1, <4>2 DEF InArena
    <3>8. CASE Hold(key)
      BY <3>8 DEF Hold, InArena
    <3> QED BY <2>2, <3>4, <3>5, <3>6, <3>7, <3>8 DEF Clock
  <2>3. CASE UNCHANGED tank
    BY <2>3 DEF InArena
  <2> QED BY <2>1, <2>2, <2>3 DEF Next
<1> QED BY <1>1, <1>2, TankTypeOK, PTL DEF Spec
===========================================================================
