SPECIFICATION FairSpec
CONSTANTS
  Beliefs <- MCBeliefs
  botID = 2
INVARIANTS TypeOK CommandFitsBall
PROPERTY FrozenIsDriven
