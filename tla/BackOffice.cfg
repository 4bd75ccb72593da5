\* Each service with two or three overlapping calls and a crash, an expiry or a fault.
SPECIFICATION BackOfficeSpec
CONSTANTS
  Tokens = {r1, r2, x3}
  Links = {l1}
  AuthCalls = {c1, c2}
  Nothing = none
  DeliveryIds = {d1}
  Carriers = {r1, r2}
  DeliveryCalls = {c1, c2}
  NoDelivery = none
  MaxPicks = 2
  RefundIds = {r1, r2}
  RefundCalls = {c1, c2}
  Total = 2
  NoRefund = none
  MaxRefundCrashes = 1
  Requests = {r1, r2, x3}
  MaxExpiries = 1
  Inbound = {m1}
  EscalationIds = {r1, r2}
  Staff = {c1, c2}
  Nobody = none
  MaxRuns = 2
  Audience = {r1, r2}
  Marketers = {c1, c2}
  Dispatchers = {c1, c2}
  CAMPAIGN_PACE_PER_TICK = 1
  MaxLaunches = 2
  MaxMishaps = 1
  OutMsgs = {m1}
  Editors = {c1, c2}
  NoMsg = none
  MaxSendFaults = 2
  Lines = {r1, r2}
  ItemCalls = {c1, c2}
  NoLine = none
  MaxQuantity = 2
  MaxShelf = 2
  MaxItemCrashes = 1
  BillingCalls = {c1, c2}
  MaxRows = 4
SYMMETRY BackOfficeSymmetry
INVARIANTS
  BackOfficeTypeOK
  OneLivePerLogin LinkSetsPasswordOnce PasswordChangeEndsSessions
  OrderFollowsRow RefundedIsBacked PushesBounded EffectsBounded ReplayIsReal
  RepliesBounded HandOffSilencesBot RunningIsDispatched AcceptedBounded SentAsStored
  ItemsBalance SubscriptionKept
PROPERTY CarrierMovesForward
CHECK_DEADLOCK FALSE
