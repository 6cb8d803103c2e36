SPECIFICATION Spec
CONSTANTS
  c1 = c1
  c2 = c2
  good = good
  junk = junk
  noise = noise
  Consumers = {c1, c2}
  Events = {good, junk, noise}
  Malformed = {junk}
  Unaccepted = {noise}
  BatchSize = 2
  MaxDeliveryAttempts = 1
  MaxStreamLength = 1
  PatientReclaim = FALSE
  MaxPublished = 2
  MaxStops = 1
  MaxStoreErrors = 1
  MaxExpiries = 1
SYMMETRY ConsumerSymmetry
INVARIANT TypeOK
INVARIANT HandlerExclusive
INVARIANT AtMostOnce
INVARIANT DeliveryBound
INVARIANT EventsAccountedFor
PROPERTY ImplementsDelivery
VIEW InScope
