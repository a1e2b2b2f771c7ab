\* A registration race, and four requests that end in changes of one row.
CONSTANTS
  first = first  second = second  pass = pass  key = key  patch = patch  undo = undo
  Requests = {first, second, pass, key, patch, undo}
  Registrations = {first, second}
  EmailOf <- MCEmailOf
  Columns <- MCColumns
  Sets <- MCSets
  Knows <- MCKnows
  Default = Default
  Nobody = Nobody
  Weathers <- MCWeathers
SPECIFICATION Spec
INVARIANTS TypeOK OneMerchantPerEmail NothingIsLost
\* Every request ends.
CHECK_DEADLOCK FALSE
