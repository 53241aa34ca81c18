\* Player 1 drives and shoots in a yard of blocks, right, up and down.
CONSTANTS
  Word = 64
  Wide = 1024
  XMin = 1
  XMax = 15
  YMin = 1
  YMax = 11
  TankSize = 2
  Step = 1
  FastStep = 2
  Spawn1 <- YardLeft
  Spawn2 <- YardRight
  BulletSize = 1
  BulletStep = 3
  BulletBoost = 2
  MeetPadding = 2
  ScoreWord = 2
  Margin = 1
  FixedBarriers <- YardBlocks
  BarrierX_List <- YardX
  BarrierY_List <- YardY
  HeightModulus = 2
  LengthModulus = 2
  Draws <- YardDraws
  UpgradeSize = 1
  SpeedAt <- YardSpeed
  BoostAt <- YardBoost
  Boost2At <- OffLane
  ArmorAt <- OffLane
  ArmorGap = 2
  ArmorLonger = 3
  ArmorShorter = 3
  MoveKeys1 <- ForwardMoves1
  MoveKeys2 <- Idle
  FireKeys1 <- Fire1
  FireKeys2 <- Idle
  HasButton = FALSE
SPECIFICATION Spec
INVARIANTS OutsideBarriers OnScreenUnlessFast
PROPERTIES NoBulletThroughBarrier
