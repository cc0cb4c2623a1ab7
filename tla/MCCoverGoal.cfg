SPECIFICATION Spec
CONSTANTS
  Beliefs <- MCBeliefs
  botID = 1
INVARIANTS TypeOK StaleOnlyAtEnds GuardHolds
