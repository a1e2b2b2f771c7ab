\* A payment and a simulation of two rounds share a key; a transfer's is empty.
CONSTANTS
  pay = pay  sim = sim  move = move  k1 = k1  empty = empty
  Sessions = {pay, sim, move}
  ModeOf <- MCModeOf
  Rounds = 2
  Keys = {k1, empty}
  NoKey = NoKey
  EmptyKey = empty
  KeyOf <- MCKeyOf
  NoResult = NoResult
  Raised = Raised
  Failure = Failure
  Free = Free
  Weathers <- MCWeathers
SPECIFICATION FairSpec
INVARIANTS CommittedIsWhole OnlySimulationsLeaveFailures ReportsAreTrue OnePaymentPerKey
PROPERTIES EverySessionEnds
\* Every session ends.
CHECK_DEADLOCK FALSE
