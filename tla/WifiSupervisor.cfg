SPECIFICATION Spec
CONSTANTS
  Lists <- SomeLists
  TooLong = {"attic"}
  GoodNetworks = {"home"}
  Callers = {c1, c2}
  ProbeEvery = 2
  ProbeLimit = 2
INVARIANTS
  NewListPending
  SlotIsLive
  GhostIsLeft
PROPERTIES
  SignalIsServed
  ListIsJoined
