SPECIFICATION FairSpec
CONSTANTS
  Emails = {e1, e2}
  Ip = ip
  PerEmail = 2
  PerIp = 3
  Window = 2
  MaxFaults = 1
  Watched = e1
  None = None
INVARIANTS MailBudget ScreenNamesInbox
PROPERTY LockoutEnds
