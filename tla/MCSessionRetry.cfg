SPECIFICATION Spec
CONSTANTS
  guest = guest
  member = member
  None = None
  Accounts = {guest, member}
  MaxLaunch = 1
  MaxCopies = 2
  MaxTwice = 0
  BadReplies = FALSE
SYMMETRY Symmetric
INVARIANT RetryInReach
