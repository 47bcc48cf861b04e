\* Two contacts compete for an org whose total is edited and which is switched off and on; forced runs race each other and the intake form.
SPECIFICATION Spec
CONSTANTS
  Workers = {w1, w2}
  Contacts <- MCContacts
  Interests <- AllThree
  InitialInterests <- JustSecond
  NoFpg <- MCNoFpg
  ContactOf <- OnePerContact
  Orgs <- SmallOrgs
  TriageOrg = triage
  NoOrg = none
  Covers <- CoverAll
  Capacities = {0, 1}
  Actors <- JustAdmin
  NoActor = none
  RolesOf <- MCRolesOf
  OrgsOf <- MCOrgsOf
  Ops = {"accept", "run", "capacity", "deactivate", "activate", "intake"}
  Targets <- NoTargets
  Forces = {TRUE}
  InitialStatus <- Fresh
  MaxVersion = 2
  MaxMatches = 2
  c1 = c1
  c2 = c2
  i1 = i1
  i2 = i2
  n1 = n1
  orgA = orgA
  triage = triage
  none = none
  admin = admin
  fac = fac
SYMMETRY WorkerSymmetry
CHECK_DEADLOCK FALSE
INVARIANTS
  CapacityWithinBounds
  OneOpenMatchPerInterest
