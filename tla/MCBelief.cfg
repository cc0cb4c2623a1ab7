SPECIFICATION Spec
CONSTANTS
  Scenes <- MCScenes
  MaxGoals = 2
INVARIANTS TypeOK LatchFollowsBall
PROPERTIES KeepsTheScore SecondFrameCounts NearestOrInReach
