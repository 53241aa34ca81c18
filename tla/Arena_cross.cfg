\* The lane without upgrades: player 1 may drive to the left edge and turn, player 2
\* stands and fires.
CONSTANTS
  Word = 28
  Wide = 224
  XMin = 1
  XMax = 19
  YMin = 1
  YMax = 13
  TankSize = 3
  Step = 1
  FastStep = 3
  Spawn1 <- LaneInner
  Spawn2 <- LaneRight
  BulletSize = 2
  BulletStep = 6
  BulletBoost = 2
  MeetPadding = 4
  ScoreWord = 2
  Margin = 1
  FixedBarriers <- NoBarriers
  BarrierX_List <- OffLaneList
  BarrierY_List <- OffLaneList
  HeightModulus = 2
  LengthModulus = 2
  Draws <- NoDraws
  UpgradeSize = 1
  SpeedAt <- OffLane
  BoostAt <- OffLane
  Boost2At <- OffLane
  ArmorAt <- OffLane
  ArmorGap = 5
  ArmorLonger = 2
  ArmorShorter = 2
  MoveKeys1 <- BackAndForth1
  MoveKeys2 <- Idle
  FireKeys1 <- Fire1
  FireKeys2 <- Fire2
  HasButton = FALSE
SPECIFICATION Spec
PROPERTIES EveryMeetingNoticed
