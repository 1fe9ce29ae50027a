\* Every seed of the ten corpora, every variation of one, and every seed twice.
\* A replay ends.
SPECIFICATION Spec
CONSTANTS
  Inputs <- AllInputs
  DeviceQueues <- ConfiguredQueues
  LeftIdx <- Three
INVARIANTS
  TypeOK
  WaitsAnswered
  TakenPublished
  DoorbellsHavePublished
  ResourcesLive
  VlansKnown
  SeedsNameResources
  VlanSlotsHeld
  CommandsOnControlQueue
  AbortNamesCommand
  StreamsInOrder
  StreamsConnected
PROPERTIES
  GivenUpForQueue
  InitialisedFirst
CHECK_DEADLOCK FALSE
