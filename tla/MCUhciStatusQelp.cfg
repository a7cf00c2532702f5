SPECIFICATION FairSpec
CONSTANTS
  NULL = NULL
  Entries = {e1, e2, e3}
  Slots = 7
  Lengths <- MCLengths
  Fails <- LastFails
INVARIANTS
  QelpIsElement
