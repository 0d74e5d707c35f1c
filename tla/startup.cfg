SPECIFICATION StartupSpec
CONSTANTS
  Inputs <- AllInputs
  Nodes <- FlagOrNot
  MalformedText = MalformedText
  Kinds <- AllKinds
  ListSections <- SomeSections
  MaxSections = 2
  Instances = 2
  Files <- SomeFiles
  Offsets <- SomeOffsets
  NodeFiles <- SomeNodeFiles
  Scenarios <- SomeScenarios
INVARIANTS MeansWhatItSays MapAsListed ConfiguredAsMeant PortsApart SharedNodesServe
