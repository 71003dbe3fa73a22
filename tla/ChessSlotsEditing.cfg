SPECIFICATION Spec
CONSTANTS
  Workers = {w1, w2}
  Slots = {s1}
  Bookings = {b1, b2}
  Capacities = {1}
  Workload <- EditingWorkload
  Targets = {s1, BadSlot, None}
  BadSlot = BadSlot
  Renewed = Renewed
  None = None
SYMMETRY Symmetry
INVARIANTS TypeOK SeatsWithinCapacity
PROPERTIES CancelledSlotFrozen
