SPECIFICATION Spec
CONSTANTS
  MaxMessage = 3
  Hooked = {}
  MaxRetries = 1
  MaxFiles = 2
  MaxFrames = 2
  MaxFaults = 0
  TrackAnswers = TRUE
INVARIANT FollowUpsNotLost
CHECK_DEADLOCK FALSE
