SPECIFICATION Spec
CONSTANTS
  N = 3
  Endpoint <- ThreeRequests
  HowMany = {0,1,2,3,4}
INVARIANTS SuccessJustified
