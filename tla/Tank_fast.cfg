\* tank.sv on the real screen width and a low screen, with the speed upgrade.
CONSTANTS
  Word = 1024
  Wide = 65536
  TankSize = 8
  XMin = 1
  XMax = 639
  YMin = 1
  YMax = 47
  Step = 1
  FastStep = 3
  SpawnX = 160
  SpawnY = 24
  SpawnDirection = "right"
  LeftKey = 4
  RightKey = 7
  DownKey = 22
  UpKey = 26
  NoKey = 0
  Boosts = {TRUE}
SPECIFICATION Spec
INVARIANTS CentreOnScreen
