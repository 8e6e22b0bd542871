SPECIFICATION Spec
CHECK_DEADLOCK FALSE
PROPERTIES
  FailureTold
  LifecycleSpec
  SignalEnds
  OthersStop
