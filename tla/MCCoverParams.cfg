SPECIFICATION Spec
CONSTANTS
  Beliefs <- BallsUpfield
  botID = 1
INVARIANT ParamsFitSkill
