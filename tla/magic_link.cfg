\* One person, two calls at a time.
SPECIFICATION FairSpec
CONSTANTS
  e1 = e1
  Emails <- OnePerson
  Calls <- TwoCalls
  Limit = 2
  Window = 1
  Ttl = 1
  Retention = 1
  MaxTime = 2
  MaxTokens = 3
  MaxEvents = 2
CHECK_DEADLOCK FALSE
INVARIANTS TypeOK LinksAreRationed ClaimedForOneSession CallsAreToldTheTruth OneSubjectPerEmail
PROPERTIES EveryCallEnds
