\* Two contacts, a batch of one, overlapping drains: deferral, refusals, pauses and crashes delay enrolments, they end all the same.
SPECIFICATION Spec
CONSTANTS
  Contacts <- TwoContacts
  NullStatus = {}
  Campaigns <- OneCampaign
  TriggerOf <- AllOnSubmitted
  Steps <- TwoSteps
  StepsAtStart <- ZeroAndOne
  Positions = {0, 1}
  Delays = {1}
  LateSteps <- JustS1
  Unrenderable = {}
  Ticks = {t1}
  Drains = {d1, d2}
  Requests = {r1}
  TickLimit = 1
  DrainLimit = 1
  Events = {"contact.submitted"}
  MaxEvents = 2
  MaxEnrollments = 2
  MaxVersion = 3
  Ops = {"activate", "pause", "archive"}
  c1 = c1
  c2 = c2
  k1 = k1
  s0 = s0
  s1 = s1
CHECK_DEADLOCK FALSE
PROPERTIES
  EnrollmentsEnd
  DisengagedEnrollmentsEnd
