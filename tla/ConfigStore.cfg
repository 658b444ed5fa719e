SPECIFICATION Spec
CONSTANTS
  Writers = {w1, w2}
  Ssids = {"home", "shed"}
  Passwords = {"p"}
  NetworkLists <- SomeLists
  Switches = {"s0", "s1"}
  Keys = {"k"}
  Blank = ""
  Generated = "generated"
  Default <- FactoryDefault
  MaxRequests = 2
SYMMETRY WriterSymmetry
INVARIANTS
  EffectiveWasSaved
  CopiesAgree
  RoundTrip
PROPERTIES
  ResetForgets
