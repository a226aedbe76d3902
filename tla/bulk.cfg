SPECIFICATION FairSpec
CONSTANTS
  Params <- BulkParams
  Tries = 2
  UserCalls = 1
  Unplugs = TRUE
INVARIANT ConfiguredWhenOK
PROPERTIES AtMostOneBehind OwnReply StopsOnUnload SetupEnds
