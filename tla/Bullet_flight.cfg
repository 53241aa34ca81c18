\* The bullet of bullet.sv with the build's numbers.
CONSTANTS
  Word = 1024
  Wide = 1073741824
  BulletSize = 2
  XMin = 1
  XMax = 639
  YMin = 1
  YMax = 479
  BulletStep = 12
  BulletBoost = 6
  FireKey = 44
  NoKey = 0
  Muzzles <- TankPlaces
SPECIFICATION Spec
INVARIANTS FlightNearScreen
PROPERTIES FlightEnds
