SPECIFICATION Spec
CONSTANTS
  c1 = c1
  c2 = c2
  e1 = e1
  Consumers = {c1, c2}
  Events = {e1}
  Malformed = {}
  Unaccepted = {}
  BatchSize = 2
  MaxDeliveryAttempts = 1
  MaxStreamLength = 9
  PatientReclaim = TRUE
  MaxPublished = 1
  MaxStops = 1
  MaxStoreErrors = 0
  MaxExpiries = 0
SYMMETRY ConsumerSymmetry
INVARIANT NoEventLost
