\* A contended wallet; every fault and delay, extensions and forced releases.
CONSTANTS
  c1 = c1  c2 = c2  c3 = c3  w1 = w1
  Acquirers = {c1, c2, c3}
  Resources = {w1}
  Wants <- MCWants
  NoToken = NoToken
  TTL <- MCTTL
  Retries <- MCRetries
  Extensions <- MCExtensions
SPECIFICATION FairLockSpec
INVARIANTS LockTypeOK LeaseExclusion EveryKeyExpires
PROPERTIES OnlyOwnerReleases AcquireReturns
\* Every acquisition ends and the last key expires.
CHECK_DEADLOCK FALSE
