\* One producer and two consumers that compete for the messages of a two-slot ring:
\* it wraps, fills and empties, and pops are stolen from woken consumers.
CONSTANTS
  Producers = {p1}
  Consumers = {c1, c2}
  Lists = {l1, l2}
  Null = Null
  NoThread = NoThread
  Capacity = 2
SPECIFICATION FairSpec
INVARIANTS TypeOK MutualExclusion RingConsistent NoLostWakeup RefsAccounted
PROPERTIES ImplementsFifo TimedPopReturns SleeperServed
