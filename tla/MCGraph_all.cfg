SPECIFICATION GateSpec
CONSTANTS
  Keys <- FourKeys
  Labels = {"a", "b"}
  Fields = {"f"}
  Values = {"v0", "v1"}
  None = None
  MaxEdges = 2
  MaxLabelledEdges = 2
  Inputs <- AllInputs
INVARIANTS TraceIsWalk StepLimitMeansCycle TarjanFindsComponents CleanGraphHasNoTrap CleanReplayNeverFails
PROPERTY WalkEnds
CHECK_DEADLOCK FALSE
