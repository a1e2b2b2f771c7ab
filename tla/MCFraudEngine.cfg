\* A payment, a simulation and a probe of one merchant; Redis or the database may fail.
CONSTANTS
  pay = pay  sim = sim  probe = probe  shop = shop
  Payments = {pay, sim, probe}
  Merchants = {shop}
  MerchantOf <- MCMerchantOf
  KindOf <- MCKindOf
  Amount <- MCAmount
  Currency <- MCCurrency
  Cent = 1
  HighAmount = 10000
  Limit = 1
  Window = 2
  Seed = 999
  Histories <- MCHistories
  Weathers <- MCWeathers
SPECIFICATION FairSpec
INVARIANTS TypeOK BlockNeedsHistory
PROPERTIES SpikeIsFlagged VelocityForgets
\* Every payment ends and every counter expires.
CHECK_DEADLOCK FALSE
