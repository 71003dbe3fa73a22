SPECIFICATION FairSpec
CONSTANTS
  Workers = {w1, w2}
  Slots = {s1, s2}
  Bookings = {b1}
  Capacities = {1}
  Workload <- CrossingWorkload
  Targets = {s1}
  BadSlot = BadSlot
  Renewed = Renewed
  None = None
PROPERTIES RequestsEnd ImplementsSeatPool
