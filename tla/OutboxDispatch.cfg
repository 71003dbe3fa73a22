SPECIFICATION FairSpec
CONSTANTS
  Dispatchers = {d1, d2}
  Events = {e1, e2}
  Feedback = {e1}
  Limit = 2
  MaxAttempts = 2
  Nobody = Nobody
INVARIANTS AuditTrail ProcessedIsNoted
PROPERTIES ImplementsDeliveryQueue RunTellsOutcome RunsEnd
