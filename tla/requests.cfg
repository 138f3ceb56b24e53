SPECIFICATION Spec
CONSTANTS
  IntMax = 1
  Function = {"f"}
  Default = "d"
  Magic = {"m"}
  Handle = {"h1", "h2"}
  Block = {b1, b2}
  None = None
  Kinds = {"get", "getbulk", "set", "inform"}
  Sample <- SmallSample
  Numbers = {0, 1, 3, 5, 15}
INVARIANTS
  OwnCallback
PROPERTY
  SetStoresMeaning
SYMMETRY Symmetry
