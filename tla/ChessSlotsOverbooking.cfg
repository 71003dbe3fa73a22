SPECIFICATION Spec
CONSTANTS
  Workers = {w1, w2}
  Slots = {s1, s2}
  Bookings = {b1, b2}
  Capacities = {1}
  Workload <- MovingWorkload
  Targets = {s1, s2}
  BadSlot = BadSlot
  Renewed = Renewed
  None = None
SYMMETRY Symmetry
INVARIANT NoOverbooking
