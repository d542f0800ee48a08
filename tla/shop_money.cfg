\* Players only: top-ups, purchases, replays and refunds of one unlimited item.
SPECIFICATION Spec
CONSTANTS
  Users = {u1, u2}
  Admins = {}
  Keys = {k1, k2, k3}
  Refs = {r1}
  Blank = Blank
  Skus = {"red"}
  LowerSku <- Lower
  None = None
  Seed <- OneItem
  Prices = {2}
  Stocks = {}
  Quantities = {1, 2}
  Amounts = {3}
  RefundWindow = 1
  AllowAdminLate = TRUE
  RequireInventory = TRUE
  MaxItems = 1
  MaxTopups = 3
  MaxPurchases = 3
  MaxTime = 0
SYMMETRY AnyOfEach
INVARIANTS TypeOK LedgerChain LedgerCovers BalanceConservation SchemaKept
