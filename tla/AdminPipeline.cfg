SPECIFICATION Spec
CONSTANTS
  Requests = {r1, r2, r3}
  Customers = {c1, c2}
  Leads = {l1}
  Services = {s1}
  Bookings = {b1, b2}
  Payments = {p1}
  Workload <- Kinds
  None = None
SYMMETRY Symmetry
CHECK_DEADLOCK FALSE
INVARIANTS ConversionMakesOneCustomer LeadMatchesBookings AuditTellsRow
PROPERTIES DatesAndNotesKept
