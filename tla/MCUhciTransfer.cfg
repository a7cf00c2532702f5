SPECIFICATION FairSpec
CONSTANTS
  NULL = NULL
  Entries = {e1, e2, e3}
  Slots = 7
  Lengths <- MCLengths
  Fails <- EarlyFails
INVARIANTS
  TypeOK
  MemoryOwned
  CompletionAgreed
PROPERTIES
  NothingDropped
  EndptrFresh
  AnsweredTransferEnds
