SPECIFICATION Spec
CONSTANTS
  h1 = h1
  h2 = h2
  Hooks <- MCHooks
  WebhookLists <- MCLists
  QueueCap <- MCCap
  Uploads = {"good", "bad"}
  Clients = {1, 2}
  TestKinds = {"boot"}
  Healthy = 2
  MaxStimuli = 3
CHECK_DEADLOCK FALSE
INVARIANTS
  DeliveredOnce
  LatchIsAnnounced
  RunningIsKept
  BadImageLeft
PROPERTIES
  AlarmIsHeard
