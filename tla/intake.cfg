\* Three clients, one key, and the forms database.
SPECIFICATION FairSpec
CONSTANTS
  Forms <- Bodies
  EmailOf <- Email
  KindOf <- Kind
  Known <- KnownBodies
  Clients = {1, 2, 3}
  FormOf <- RaceForms
  IdOf <- RaceIds
  ApiKeyOf <- RaceKeys
  DbIssued <- ApiRows
  Rows <- TwoRows
  BatchSize = 1
  None = None
  MaxEvents = 2
  MaxImports = 2
  MaxInAll = 3
CHECK_DEADLOCK FALSE
INVARIANTS TypeOK  AnswersAreKept WelcomedOnce
PROPERTIES FormsAreAnswered
