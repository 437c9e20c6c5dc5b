SPECIFICATION FairSpec
CONSTANTS
  buffer_count = 2
  buffer_capacity = 2
  bridge_threshold = 1
  bridge_spin_max = 1
  MaxBytes = 5
INVARIANTS TypeOK OneOwner NothingLostInRing NoIdleSleep DrainedAtExit
PROPERTIES Terminates EventuallyParsed
CHECK_DEADLOCK FALSE
