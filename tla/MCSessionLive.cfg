SPECIFICATION FairSpec
CONSTANTS
  guest = guest
  member = member
  None = None
  Accounts = {guest, member}
  MaxLaunch = 2
  MaxCopies = 2
  MaxTwice = 1
  BadReplies = FALSE
PROPERTY LaunchSettles
