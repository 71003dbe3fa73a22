SPECIFICATION Spec
CONSTANTS
  References = {r1}
  MaxCalls = 2
  PortalRequestMode = {"cancel"}
  initialReference = r1
  linkedRequests = {None}
  storedTokens = {r1}
  None = None
PROPERTY CallsTimeOut
