SPECIFICATION Spec
CONSTANTS
  buffer_count = 2
  buffer_capacity = 2
  bridge_threshold = 1
  bridge_spin_max = 1
  MaxBytes = 2
INVARIANTS TailDelivered
CHECK_DEADLOCK FALSE
