\* The instance of shop_orders, against a statement of the documents.
SPECIFICATION Spec
CONSTANTS
  Users = {u1, u2}
  Admins = {u1}
  Keys = {k1, k2}
  Refs = {}
  Blank = Blank
  Skus = {"red"}
  LowerSku <- Lower
  None = None
  Seed <- OneItem
  Prices = {0, 2}
  Stocks = {}
  Quantities = {1, 2}
  Amounts = {4}
  RefundWindow = 1
  AllowAdminLate = TRUE
  RequireInventory = TRUE
  MaxItems = 1
  MaxTopups = 1
  MaxPurchases = 2
  MaxTime = 2
SYMMETRY AnyKeyOrRef
INVARIANT DuplicateRefundConflicts
