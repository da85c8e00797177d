SPECIFICATION Spec
CONSTANTS
  NumSlots = 3
  SlotSize = 2
  Measures = {"bytes", "pkts"}
  Amounts <- MCAmounts
  Starts <- MCStarts
  Durations <- MCDurations
  MaxGlobal = 6
  MaxAdds = 3
INVARIANT TypeOK
INVARIANT PeakIsMax
INVARIANT TotalIsSum
INVARIANT RingExact
INVARIANT SharesPlaced
