\* A contact with two people groups: does each match that claims a slot have one?
SPECIFICATION Spec
CONSTANTS
  Workers = {w1, w2}
  Contacts <- MCContact
  Interests <- TwoInterests
  InitialInterests <- TwoInterests
  NoFpg <- NoneOfThem
  ContactOf <- AllOfOneContact
  Orgs <- SmallOrgs
  TriageOrg = triage
  NoOrg = none
  Covers <- CoverAll
  Capacities = {1}
  Actors <- JustAdmin
  NoActor = none
  RolesOf <- MCRolesOf
  OrgsOf <- MCOrgsOf
  Ops = {"accept", "send_back", "run"}
  Targets <- NoTargets
  Forces = {FALSE}
  InitialStatus <- Fresh
  MaxVersion = 4
  MaxMatches = 2
  c1 = c1
  c2 = c2
  i1 = i1
  i2 = i2
  n1 = n1
  orgA = orgA
  triage = triage
  none = none
  admin = admin
  fac = fac
SYMMETRY WorkerSymmetry
CHECK_DEADLOCK FALSE
INVARIANTS
  ReservationsBacked
