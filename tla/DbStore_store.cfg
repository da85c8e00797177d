SPECIFICATION Spec
CONSTANTS
  Keys = {"dynamic", "static"}
  NullKeys = {"static"}
  Amounts = {1, 2}
  Byte = 2
  MaxTotal = 4
INVARIANT TypeOK
INVARIANT OneRowPerKey
PROPERTY ImplementsLedger
PROPERTY StoredUnlessReported
