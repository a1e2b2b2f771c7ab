\* Everything may fail, or Redis is well and everything else may fail: two
\* requests of one merchant and one of another, one key.
CONSTANTS
  q1 = q1  q2 = q2  q4 = q4  m1 = m1  m2 = m2  k1 = k1
  Requests = {q1, q2, q4}
  Merchant <- MCMerchant
  Key <- MCKey
  Declined = Declined
  ServerError = ServerError
  NoReply = NoReply
  NoResult = NoResult
  NoRow = NoRow
  Weathers <- MCWeathers
SPECIFICATION FairSpec
INVARIANTS TypeOK RepliesAgree ResultsKeepToSlot OneProcessor
PROPERTIES AtMostOnePayment SuccessKept EveryRequestEnds
\* Every request ends.
CHECK_DEADLOCK FALSE
