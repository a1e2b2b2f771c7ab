\* A declined payment is retried.
CONSTANTS
  q1 = q1  q2 = q2  q4 = q4  m1 = m1  m2 = m2  k1 = k1
  Requests = {q1, q2}
  Merchant <- MCMerchant
  Key <- MCKey
  Declined = Declined
  ServerError = ServerError
  NoReply = NoReply
  NoResult = NoResult
  NoRow = NoRow
  Weathers = {{"processor"}}
SPECIFICATION Spec
INVARIANTS SameErrorBack
\* Every request ends.
CHECK_DEADLOCK FALSE
