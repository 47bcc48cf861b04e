\* Overlapping jobs and staff around two posts with one e-mail.
SPECIFICATION Spec
CONSTANTS
  j1 = j1
  j2 = j2
  Posts <- TwoPosts
  Emails <- OneEmail
  Comments <- OneComment
  Interests <- TwoInterests
  PostOf <- OfPosts
  FpgOf <- SameFpg
  EmailAtStart <- BothHaveIt
  Assigned <- TwoPosts
  SignedIn <- SecondOnly
  Namesakes <- SecondOnly
  Jobs = {j1, j2}
  MaxClock = 3
  MaxContacts = 3
  MaxRequests = 2
  MaxRuns = 3
  MaxInAll = 4
SYMMETRY JobSymmetry
CHECK_DEADLOCK FALSE
INVARIANTS TypeOK DeletedStayDeleted CaughtUp DroppedEmailsAreListed
PROPERTIES JobsKeepWhatStaffHave
