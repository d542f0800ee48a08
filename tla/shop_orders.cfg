\* One player and one administrator who buys too; one unlimited item whose
\* price may drop to zero; a refund window of one tick in three.
SPECIFICATION Spec
CONSTANTS
  Users = {u1, u2}
  Admins = {u1}
  Keys = {k1, k2}
  Refs = {}
  Blank = Blank
  Skus = {"red"}
  LowerSku <- Lower
  None = None
  Seed <- OneItem
  Prices = {0, 2}
  Stocks = {}
  Quantities = {1, 2}
  Amounts = {4}
  RefundWindow = 1
  AllowAdminLate = TRUE
  RequireInventory = TRUE
  MaxItems = 1
  MaxTopups = 1
  MaxPurchases = 2
  MaxTime = 2
SYMMETRY AnyKeyOrRef
INVARIANTS IdempotencyExact ReplayNeverRefused RefundExact
           OwnerRefundGuaranteed
PROPERTIES PurchasesFrozen KeysFrozen
