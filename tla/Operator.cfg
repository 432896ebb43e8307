\* A root certificate and the server certificate that it signs, with one fault.
SPECIFICATION MCSpec
CONSTANTS
  None = None
  root = root
  server = server
  Certs = {root, server}
  Issuer <- RootSigns
  Renewed = {root, server}
  Deletable = {server}
  ValidFor <- Lifetimes
  Kinds = {service}
  MaxTime = 3
  Serials = {1, 2, 3, 4, 5, 6, 7, 8, 9, 10}
  MaxFaults = 1
INVARIANTS NoLostWakeup PodTrustsRoot
PROPERTIES FitIsKept Settles
\* The clock stops at MaxTime, and by then everything may be in place.
CHECK_DEADLOCK FALSE
