SPECIFICATION FairSpec
CONSTANTS
  Beliefs <- MCBeliefs
  botID = 1
INVARIANTS TypeOK SwarmSparesPlayer
PROPERTIES FrozenIsDriven SpinFollowsAcross SwarmIsOneFrame
