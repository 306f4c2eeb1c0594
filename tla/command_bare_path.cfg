SPECIFICATION Spec
CONSTANTS
  Keys = {"PATH", "HOME"}
  Values = {"a"}
  Path = "PATH"
  Durations = {1}
  LastInstant = 1
  MaxCalls = 2
INVARIANTS
  BareLookupHasPath
