\* Every row is delivered, whatever ticks die on the way.
SPECIFICATION Spec
CONSTANTS
  Ticks = {t1}
  NumRows = 2
  BatchSize = 2
  StaleAfter = 1
  JobTimeout = 1
  Rejected <- NoneRejected
PROPERTIES
  ImplementsChannel
