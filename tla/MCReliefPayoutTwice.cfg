\* Handoffs h1 and h2 of relays with an address, h3 of one without.
CONSTANTS
  NoFund = NoFund
  Handoffs = {h1, h2, h3}
  Payable = {h1, h2}
  Funds = {f1, f2, f3}
  Tools = {t1}
  MaxMishaps = 1
SPECIFICATION PayoutSpec
INVARIANTS
  PaidOnce
CHECK_DEADLOCK FALSE
