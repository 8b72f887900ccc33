\* Two relays and a replica of the consumer over two rows, one poisoned, and
\* one tick cut short.
CONSTANTS
  Event = {e1, e2}
  Poison = {e2}
  Wanted = {e1, e2}
  Relay = {r1, r2}
  Replica = {c1}
  RelayBatch = 2
  ConsumerBatch = 2
  MaxCrashes = 1
SPECIFICATION FairSpec
INVARIANTS
  DeliveriesAreSound
  LostOnlyIfOvertaken
PROPERTIES
  RelayDelivers
  ConsumerDelivers
CHECK_DEADLOCK FALSE
