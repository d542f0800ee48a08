\* A player and an administrator buy and refund, the administrator also creates,
\* withdraws, shows and deletes items; the player reads a list by pages of one.
SPECIFICATION PagingSpec
CONSTANTS
  Users = {u1, u2}
  Admins = {u1}
  Keys = {k1, k2}
  Refs = {}
  Blank = Blank
  Skus = {"s1", "s2"}
  LowerSku <- SameSku
  None = None
  Seed <- TwoItems
  Prices = {0}
  Stocks = {}
  Quantities = {1}
  Amounts = {}
  RefundWindow = 1
  AllowAdminLate = TRUE
  RequireInventory = TRUE
  MaxItems = 3
  MaxTopups = 0
  MaxPurchases = 2
  MaxTime = 0
  Reader = u2
  Limit = 1
  MaxMoves = 3
SYMMETRY AnyKey
INVARIANTS PagingTypeOK MissedBounded RepeatedBounded HistoryExact
