\* The ledger under every interleaving of three sessions and an audit.
CONSTANTS
  Sessions <- MCSessions
  NoSession = NoSession
  Accounts <- MCAccounts
  Postings <- MCPostings
  Opening <- MCOpening
  Frozen <- MCFrozen
  Audited = {1}
SPECIFICATION MCSpec
INVARIANTS TypeOK WaitsAscend FrozenUntouched OneWriterPerAccount
PROPERTIES DriftIsLostUpdate AlarmHasACause JournalIsDoubleEntry EverySessionEnds
\* Sessions end and nothing restarts them.
CHECK_DEADLOCK FALSE
