SPECIFICATION Spec
CONSTANTS
  PI = 32
  botID = 0
  Scenes <- MCScenes
  Params <- MCParams
  Changes <- MCChanges
  Views <- MCViews
  Period = 3
  Cycle = 6
  Balls <- MCBalls
  Formations <- MCFormations
  Obstacles <- MCObstacles
  MaxObstacles = 4
INVARIANT DestinationIsFree
