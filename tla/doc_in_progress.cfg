\* Faults of Redis and two keys, against the message of a refused reserve.
SPECIFICATION FlowSpec
CONSTANTS
  Users = {u1}
  Admins = {}
  Keys = {k1, k2}
  Refs = {}
  Blank = Blank
  Skus = {"red"}
  LowerSku <- Same
  None = None
  Seed <- FreeItem
  Prices = {0}
  Stocks = {}
  Quantities = {1}
  Amounts = {1}
  RefundWindow = 0
  AllowAdminLate = TRUE
  RequireInventory = TRUE
  MaxItems = 2
  MaxTopups = 0
  MaxPurchases = 2
  MaxTime = 0
  MaxRestarts = 0
  Requests = {q1, q2, q3}
  RedisFails = TRUE
  OutlivesReserve = TRUE
PROPERTY InProgressIsTrue
