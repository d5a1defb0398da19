SPECIFICATION Spec
CONSTANTS
  guest = guest
  member = member
  None = None
  Accounts = {guest, member}
  MaxLaunch = 3
  MaxCopies = 2
  MaxTwice = 1
  BadReplies = TRUE
SYMMETRY Symmetric
INVARIANT OneAccount
INVARIANT NoticeDelivered
INVARIANT SplashRemoved
INVARIANT NoStrayDialog
