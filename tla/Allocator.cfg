SPECIFICATION Spec
CONSTANTS
  NumRobots <- MCNumRobots
  MaxX <- MCMaxX
  MaxSoc <- MCMaxSoc
  SocWeight <- MCSocWeight
INVARIANT SelectsTheBest
PROPERTY BetterNeverLoses
