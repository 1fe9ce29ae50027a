\* A FUSE request's queue on the device as it is configured.
SPECIFICATION Spec
CONSTANTS
  Inputs <- FsInputs
  DeviceQueues <- ConfiguredQueues
  LeftIdx <- Three
INVARIANT FuseRequestsSent
CHECK_DEADLOCK FALSE
