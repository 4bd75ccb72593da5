\* One job at a time and one outage.
SPECIFICATION Spec
CONSTANTS
  Events = {e1, e2}
  Relays = {r1}
  OUTBOX_BATCH = 2
  MaxOutages = 1
  MaxCrashes = 0
  MaxFailures = 0
INVARIANT ProcessedWasPublished
CHECK_DEADLOCK FALSE
