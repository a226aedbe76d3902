SPECIFICATION FairSpec
CONSTANTS
  Params <- LateParams
  Tries = 2
  UserCalls = 0
  Unplugs = FALSE
PROPERTY SetupRecovers
