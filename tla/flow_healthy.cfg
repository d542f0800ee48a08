\* Redis answers, and every request is faster than its reserve's time to live.
\* Two users send one key.  Item 1 is free; item 2 does not exist, so that some
\* requests are refused after they have opened the record of the key.
SPECIFICATION FairFlowSpec
CONSTANTS
  Users = {u1, u2}
  Admins = {}
  Keys = {k1}
  Refs = {}
  Blank = Blank
  Skus = {"red"}
  LowerSku <- Same
  None = None
  Seed <- FreeItem
  Prices = {0}
  Stocks = {}
  Quantities = {1}
  Amounts = {2}
  RefundWindow = 0
  AllowAdminLate = TRUE
  RequireInventory = TRUE
  MaxItems = 2
  MaxTopups = 0
  MaxPurchases = 2
  MaxTime = 0
  MaxRestarts = 0
  Requests = {q1, q2, q3}
  RedisFails = FALSE
  OutlivesReserve = FALSE
INVARIANTS FlowTypeOK Exclusive SameAnswer
PROPERTIES InProgressIsTrue EveryoneAnswered ReserveFreed
