SPECIFICATION BootSpec
CONSTANTS
  a = a
  b = b
  NoConfig = NoConfig
  TornConfig = TornConfig
  Networks <- MCNetworks
  NetworkLists <- MCLists
  TooBig <- MCTooBig
  Joinable <- MCJoinable
  DefaultList <- MCDefault
  Passes = 2
  MaxRequests = 1
  MaxLosses = 1
PROPERTIES
  FallbackTriedAll
  NeverStranded
  JoinsInTheEnd
