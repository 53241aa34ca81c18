\* Round after round on the lane: player 1 drives back and forth, finds the speed
\* upgrade and may leave the screen with it, player 2 drives at him and finds the
\* bullet upgrade, either the armor, and somebody presses the reset button.
CONSTANTS
  Word = 28
  Wide = 224
  XMin = 1
  XMax = 19
  YMin = 1
  YMax = 13
  TankSize = 3
  Step = 1
  FastStep = 3
  Spawn1 <- LaneLeft
  Spawn2 <- LaneRight
  BulletSize = 2
  BulletStep = 6
  BulletBoost = 2
  MeetPadding = 4
  ScoreWord = 2
  Margin = 1
  FixedBarriers <- NoBarriers
  BarrierX_List <- OffLaneList
  BarrierY_List <- OffLaneList
  HeightModulus = 2
  LengthModulus = 2
  Draws <- NoDraws
  UpgradeSize = 1
  SpeedAt <- LaneSpeed
  BoostAt <- LaneBoost
  Boost2At <- OffLane
  ArmorAt <- LaneArmor
  ArmorGap = 5
  ArmorLonger = 2
  ArmorShorter = 2
  MoveKeys1 <- BackAndForth1
  MoveKeys2 <- Leftward2
  FireKeys1 <- Fire1
  FireKeys2 <- Fire2
  HasButton = TRUE
SPECIFICATION Spec
INVARIANTS TypeOK
PROPERTIES MatchSpec RoundsGoOn NoBulletThroughTank NoPassThrough
