SPECIFICATION Spec
CONSTANTS
  b1 = b1
  b2 = b2
  s1 = s1
  s2 = s2
  NoBase = NoBase
  Bases <- MCBases
  SwitchKeys <- MCKeys
  Poll = 2
  Settle = 1
  BackoffInitial = 2
  BackoffMax = 8
  ReconnectDelay = 4
  ConnectTime = 4
  MaxChanges = 1
INVARIANTS
  FlagIsFresh
  SubscribedWhileServed
PROPERTIES
  Recovers
  StateIsShown
