SPECIFICATION FairSpec
CONSTANTS
  junk = junk
  c1 = c1
  c2 = c2
  ok = ok
  Consumers = {c1, c2}
  Events = {ok, junk}
  Malformed = {junk}
  Unaccepted = {}
  BatchSize = 1
  MaxDeliveryAttempts = 1
  MaxStreamLength = 1
  PatientReclaim = TRUE
  MaxPublished = 2
  MaxStops = 1
  MaxStoreErrors = 0
  MaxExpiries = 0
PROPERTY EventuallySettled
