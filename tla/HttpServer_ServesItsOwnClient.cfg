SPECIFICATION Spec
CONSTANTS
  c1 = c1  c2 = c2
  Connections <- TwoClients
  Workers = {w1, w2}
  Owner = owner
  NoTask = noTask
  NoRequest = noRequest
  MaxFd = 2
  MaxParts <- PartsSent
  Closing = {c1}
INVARIANT ServesItsOwnClient
