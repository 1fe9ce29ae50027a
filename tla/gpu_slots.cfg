\* What a slot names when the command that filled it was given up.
SPECIFICATION Spec
CONSTANTS
  Inputs <- GpuInputs
  DeviceQueues <- ConfiguredQueues
  LeftIdx <- Three
INVARIANT SlotsTrackDevice
CHECK_DEADLOCK FALSE
