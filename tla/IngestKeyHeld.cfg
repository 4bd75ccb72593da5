\* A publish meets a closed channel.
SPECIFICATION Spec
CONSTANTS
  first = first
  second = second
  status = status
  k1 = k1
  k2 = k2
  none = none
  NoKey = none
  Notices <- AllNotices
  KeyOf <- OwnKeys
  Batches <- Singles
  Requests = {r1, r2}
  MaxPosts = 2
  MaxExpiries = 0
  MaxOutages = 1
  MaxCrashes = 0
  MaxErrors = 0
INVARIANT HeldKeyWasPublished
CHECK_DEADLOCK FALSE
