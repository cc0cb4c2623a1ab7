SPECIFICATION FairSpec
CONSTANTS
  Beliefs <- MCBeliefs
  botID = 2
PROPERTY DefendsAgainstCharge
