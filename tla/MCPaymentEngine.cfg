\* Two payments from one wallet; everything may fail.
CONSTANTS
  p1 = p1  p2 = p2
  Requests = {p1, p2}
  PostingOf <- MCPostingOf
  Accounts <- MCAccounts
  Opening <- MCOpening
  Frozen = {}
  NoSession = NoSession
  NoToken = NoToken
  TTL = 2
  Retries = 2
  Weathers <- MCWeathers
SPECIFICATION FairSpec
INVARIANTS CompletedIffBooked WalletExclusion
PROPERTIES EveryPaymentEnds CompletedComesTrue
\* Every payment ends.
CHECK_DEADLOCK FALSE
