\* Overlapping ticks, crashes, lost answers and stale claims over two rows.
SPECIFICATION Safety
CONSTANTS
  Ticks = {t1, t2}
  NumRows = 2
  BatchSize = 2
  StaleAfter = 2
  JobTimeout = 2
  Rejected <- NoneRejected
SYMMETRY TickSymmetry
INVARIANTS
  TypeOK
  OneTickPerRow
  WorkedRowIsClaimed
PROPERTIES
  StepsOfChannel
