CONSTANTS
  poll = poll
  admin = admin
  c1 = c1
  c2 = c2
  NoTask = NoTask
  NoClient = NoClient
  Tasks <- MCTasks
  Clients <- MCClients
  MaxJoins = 3

SPECIFICATION BFairSpec

INVARIANTS
  OwnFailuresDontBreak

PROPERTIES
  HealthyStay
  BroadcastEnds
