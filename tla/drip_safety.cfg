\* Overlapping ticks, a drain, an editor: steps once and in order, at most one late mail, one open enrolment.
SPECIFICATION Safety
CONSTANTS
  Contacts <- OneContact
  NullStatus = {}
  Campaigns <- OneCampaign
  TriggerOf <- AllOnSubmitted
  Steps <- TwoSteps
  StepsAtStart <- ZeroAndOne
  Positions = {0, 1}
  Delays = {1}
  LateSteps <- JustS1
  Unrenderable = {}
  Ticks = {t1, t2}
  Drains = {d1}
  Requests = {r1}
  TickLimit = 2
  DrainLimit = 2
  Events = {"contact.submitted"}
  MaxEvents = 1
  MaxEnrollments = 2
  MaxVersion = 2
  Ops = {"activate", "patch_campaign", "enroll", "add_step", "patch_step", "delete_step", "suppress"}
  c1 = c1
  c2 = c2
  k1 = k1
  s0 = s0
  s1 = s1
SYMMETRY SlotSymmetry
CHECK_DEADLOCK FALSE
INVARIANTS
  TypeOK
  OneOpenEnrollment
  EachStepOnceInOrder
  AtMostOneLateMail
PROPERTIES
  EndedStaysEnded
