SPECIFICATION Spec
CONSTANTS
  References = {r1, r2}
  MaxCalls = 3
  PortalRequestMode = {"reschedule", "cancel"}
  initialReference = r1
  linkedRequests = {"cancel", None}
  storedTokens = {r1}
  None = None
INVARIANTS OneRequestAtATime OneOutcomeShown NoteOfItsMode SpinnerMeansCall
PROPERTIES TokenForgottenWasSent LocksOpenUnlessBodyStalls
