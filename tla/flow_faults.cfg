\* Redis commands may raise, reserves may expire under a running request, the
\* process may stop once and may start without Redis, and clients that are told
\* to wait try again.  Item 1 is free; item 2 does not exist, so that some
\* requests are refused.  No symmetry: there is a liveness property.
SPECIFICATION PatientSpec
CONSTANTS
  Users = {u1}
  Admins = {}
  Keys = {k1}
  Refs = {}
  Blank = Blank
  Skus = {"red"}
  LowerSku <- Same
  None = None
  Seed <- FreeItem
  Prices = {0}
  Stocks = {}
  Quantities = {1}
  Amounts = {1}
  RefundWindow = 0
  AllowAdminLate = TRUE
  RequireInventory = TRUE
  MaxItems = 2
  MaxTopups = 0
  MaxPurchases = 2
  MaxTime = 0
  MaxRestarts = 1
  Requests = {q1, q2, q3}
  RedisFails = TRUE
  OutlivesReserve = TRUE
INVARIANTS AnswerTrue SameAnswer PublishedOnce
PROPERTIES KeepsApi NobodyLockedOut
