SPECIFICATION FairSpec
CONSTANTS
  Places <- MCPlaces
  Turned <- MCTurned
  PI = 1800
  MaxMoves = 2
  Settling = 24
  MaxLoads = 3
  Room = 2
INVARIANTS TypeOK SettledInTime FirstIsServed
PROPERTIES AngleSettles FirstComerPlays
