\* Two users, one of them an administrator who sets the stock; any statement of
\* a top-up, a purchase or a refund may raise.
SPECIFICATION TransactionSpec
CONSTANTS
  Users = {u1, a1}
  Admins = {a1}
  Keys = {k1, k2}
  Refs = {r1}
  Blank = Blank
  Skus = {"red"}
  LowerSku <- Same
  None = None
  Seed <- OneItem
  Prices = {}
  Stocks = {1}
  Quantities = {1, 2}
  Amounts = {5}
  RefundWindow = 0
  AllowAdminLate = FALSE
  RequireInventory = TRUE
  MaxItems = 1
  MaxTopups = 2
  MaxPurchases = 2
  MaxTime = 0
SYMMETRY AnyKey
INVARIANTS RowsNumbered KeyIndicesAgree
PROPERTIES KeepsShop
