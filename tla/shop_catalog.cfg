\* An administrator and a player; two SKU spellings, a catalogue of two items,
\* finite stocks, deletion and re-creation under open purchases.
SPECIFICATION Spec
CONSTANTS
  Users = {u1, u2}
  Admins = {u1}
  Keys = {k1, k2, k3}
  Refs = {}
  Blank = Blank
  Skus = {"red", "RED"}
  LowerSku <- Lower
  None = None
  Seed <- OneItem
  Prices = {2}
  Stocks = {0, 1}
  Quantities = {1}
  Amounts = {4}
  RefundWindow = 1
  AllowAdminLate = TRUE
  RequireInventory = TRUE
  MaxItems = 2
  MaxTopups = 1
  MaxPurchases = 3
  MaxTime = 0
SYMMETRY AnyKeyOrRef
INVARIANTS LiveSkuUnique InventoryExact
PROPERTIES StockConserved DeletedIsFinal
