SPECIFICATION FairSpec
CONSTANTS
  Beliefs <- MCBeliefs
INVARIANTS TypeOK MidFieldOnlyDefends SpinsOnlyInReach
PROPERTY AllDriven
