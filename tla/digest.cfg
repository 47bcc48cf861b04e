\* Two days, one fault: no match forgotten, repeats explained, every digest out.
SPECIFICATION FairSpec
CONSTANTS
  Matches <- TwoMatches
  Orgs <- TwoOrgs
  OrgOf <- OneEach
  Staff <- OneStaff
  MembersOf <- Members
  SlotsPerDay = 3
  SendSlots = 2
  Days = 2
  MaxFaults = 1
CHECK_DEADLOCK FALSE
INVARIANTS
  TypeOK
  NoMatchIsForgotten
  RepeatsAreExplained
PROPERTIES
  DigestGoesOut
