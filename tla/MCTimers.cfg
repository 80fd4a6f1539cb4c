\* Words of four values, so that the high word changes twice before the horizon.
SPECIFICATION FairSpec
CONSTANTS
  WordMax = 3
  Durations = {0, 1, 2, 3}
  Horizon = 11
INVARIANTS
  LastsLongEnough
PROPERTIES
  PollSeesDeadline
  Expires
