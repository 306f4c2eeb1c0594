SPECIFICATION Spec
CONSTANTS
  Keys = {"PATH", "HOME"}
  Values = {"a", "b"}
  Path = "PATH"
  Durations = {0, 1, 2, 3}
  LastInstant = 2
  MaxCalls = 4
INVARIANTS
  EnvironmentIsDeclared
  PathPolicyAgrees
  DeadlineRefusedLate
