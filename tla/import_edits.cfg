\* One job after an edit of staff.
SPECIFICATION Spec
CONSTANTS
  j1 = j1
  j2 = j2
  Posts <- TwoPosts
  Emails <- OneEmail
  Comments <- OneComment
  Interests <- TwoInterests
  PostOf <- OfPosts
  FpgOf <- SameFpg
  EmailAtStart <- BothHaveIt
  Assigned <- TwoPosts
  SignedIn <- SecondOnly
  Namesakes <- SecondOnly
  Jobs = {j1}
  MaxClock = 3
  MaxContacts = 2
  MaxRequests = 2
  MaxRuns = 2
  MaxInAll = 4
CHECK_DEADLOCK FALSE
PROPERTIES StaffEditsSurvive
