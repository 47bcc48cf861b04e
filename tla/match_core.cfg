\* One contact, perhaps of both kinds: every decision, the transition endpoint and the matcher, two requests at a time.
SPECIFICATION Spec
CONSTANTS
  Workers = {w1, w2}
  Contacts <- MCContact
  Interests <- OneInterest
  InitialInterests <- OneInterest
  NoFpg <- NoneOfThem
  ContactOf <- AllOfOneContact
  Orgs <- SmallOrgs
  TriageOrg = triage
  NoOrg = none
  Covers <- CoverAll
  Capacities = {1}
  Actors <- MCActors
  NoActor = none
  RolesOf <- MCRolesOf
  OrgsOf <- MCOrgsOf
  Ops = {"accept", "send_back", "route_elsewhere", "run", "transition"}
  Targets <- SomeTargets
  Forces = {FALSE}
  InitialStatus <- FreshOrBoth
  MaxVersion = 4
  MaxMatches = 3
  c1 = c1
  c2 = c2
  i1 = i1
  i2 = i2
  n1 = n1
  orgA = orgA
  triage = triage
  none = none
  admin = admin
  fac = fac
SYMMETRY WorkerSymmetry
CHECK_DEADLOCK FALSE
INVARIANTS
  TypeOK
  OneOpenMatchPerInterest
  NoLostTransition
  AuditIsAPath
PROPERTIES
  FollowsLifecycle
