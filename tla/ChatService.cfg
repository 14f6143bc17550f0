SPECIFICATION Spec
CONSTANTS
  r1 = r1
  r2 = r2
  r3 = r3
  c1 = c1
  c2 = c2
  Request = {r1, r2, r3}
  Client = {c1, c2}
  ClientOf <- Clients
  Kinds <- Asks
  Limit <- Limits
  Window = 1
  MaxRetries = 1
  Answer <- SomeAnswers
  PoolSize = 1
  RateLimitEnabled = TRUE
INVARIANTS
  TypeOK
  ConnectionsAreReturned
  ErrorsAreExplained
PROPERTIES
  LimiterIsExact
  EveryRequestEnds
