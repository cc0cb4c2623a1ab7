SPECIFICATION FairSpec
CONSTANTS
  Beliefs <- MCBeliefs
  botID = 4
INVARIANTS TypeOK SwarmSparesPlayer OverruledWithReason
PROPERTY FrozenIsDriven
