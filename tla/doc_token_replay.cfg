\* The instance of auth, against a statement of the documents.
SPECIFICATION AuthSpec
CONSTANTS
  Emails = {"a", "A", "b"}
  Names = {"a", "A", "b"}
  LowerEmail <- LoweredEmails
  LowerName <- LoweredNames
  None = None
  AccessTtl = 0
  RefreshTtl = 1
  Skew = 1
  MaxUsers = 2
  MaxPairs = 3
  MaxClock = 3
INVARIANT ReplayConflicts
