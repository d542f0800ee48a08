\* Two accounts, three token pairs, a clock that is also set back.
SPECIFICATION AuthSpec
CONSTANTS
  Emails = {"a", "A", "b"}
  Names = {"a", "A", "b"}
  LowerEmail <- LoweredEmails
  LowerName <- LoweredNames
  None = None
  AccessTtl = 0
  RefreshTtl = 1
  Skew = 1
  MaxUsers = 2
  MaxPairs = 3
  MaxClock = 3
INVARIANTS AuthTypeOK AccountsUnique IndexExact SpentOnce StoredTokensSound
           SkewTolerated
PROPERTY SessionEndsExplained
