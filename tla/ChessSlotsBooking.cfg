SPECIFICATION Spec
CONSTANTS
  Workers = {w1, w2}
  Slots = {s1}
  Bookings = {b1, b2}
  Capacities = {1, 2}
  Workload <- BookingWorkload
  Targets = {s1, None}
  BadSlot = BadSlot
  Renewed = Renewed
  None = None
SYMMETRY Symmetry
PROPERTIES SharedRoom SeatsMatchBookings BookingTakesSeat
