\* No fault at all: the wallet lock is released before the commit.
CONSTANTS
  p1 = p1  p2 = p2
  Requests = {p1, p2}
  PostingOf <- MCPostingOf
  Accounts <- MCAccounts
  Opening <- MCOpening
  Frozen = {}
  NoSession = NoSession
  NoToken = NoToken
  TTL = 2
  Retries = 2
  Weathers <- NoFaults
SPECIFICATION Spec
INVARIANTS NoDoubleSpend
\* Every payment ends.
CHECK_DEADLOCK FALSE
