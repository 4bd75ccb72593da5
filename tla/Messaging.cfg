\* Overlapping jobs, an outage, a crash and a failing query; lost connections and a full channel.
SPECIFICATION MessagingSpec
CONSTANTS
  Events = {e1, e2}
  Relays = {r1, r2}
  OUTBOX_BATCH = 2
  MaxOutages = 1
  MaxCrashes = 1
  MaxFailures = 1
  AiEvents = {m1, m2}
  Prefetch = 1
  MaxDrops = 2
INVARIANTS MessagingTypeOK PublishedWhileCalm CopiesBounded NoEventSkipped AiRunsBounded
PROPERTIES OutboxDrains DeliversAll AiSettles
CHECK_DEADLOCK FALSE
