\* Racing retries, rolled-back sessions, an endpoint switched on and off.
CONSTANTS
  e1 = e1  e2 = e2  pay = pay  r1 = r1  r2 = r2  r3 = r3
  Endpoints = {e1, e2}
  Payment = pay
  Retriers = {r1, r2, r3}
  MaxAttempts = 3
  Nothing = Nothing
SPECIFICATION Spec
SYMMETRY Symmetry
INVARIANTS TypeOK AttemptsWereMade ExhaustedIsEarned RecordIsExact
