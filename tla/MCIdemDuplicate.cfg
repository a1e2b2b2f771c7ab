\* No fault at all: a duplicate that arrives before the commit.
CONSTANTS
  q1 = q1  q2 = q2  q4 = q4  m1 = m1  m2 = m2  k1 = k1
  Requests = {q1, q2}
  Merchant <- MCMerchant
  Key <- MCKey
  Declined = Declined
  ServerError = ServerError
  NoReply = NoReply
  NoResult = NoResult
  NoRow = NoRow
  Weathers = {{}}
SPECIFICATION Spec
INVARIANTS DuplicateGetsOriginal
\* Every request ends.
CHECK_DEADLOCK FALSE
