\* Retries overlap an outage, a crash, an expiry and a failing Redis call.
SPECIFICATION Spec
CONSTANTS
  first = first
  second = second
  status = status
  k1 = k1
  k2 = k2
  none = none
  NoKey = none
  Notices <- AllNotices
  KeyOf <- OwnKeys
  Batches <- Mixed
  Requests = {r1, r2}
  MaxPosts = 2
  MaxExpiries = 1
  MaxOutages = 1
  MaxCrashes = 1
  MaxErrors = 1
SYMMETRY RequestSymmetry
INVARIANTS TypeOK OnePublishPerClaim AnswerIsCovered
CHECK_DEADLOCK FALSE
