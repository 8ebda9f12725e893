SPECIFICATION FairSpec
CONSTANTS
  Bundles = {"shop"}
  Environments = {"test", "live"}
  AutoDeployTo <- MCAutoDeployTo
  NoEnvironment = NoEnvironment
  PlainProjects = {}
  Callbacks = {1, 2}
  MaxCommits = 2
  MaxPublications = 2
  MaxFaults = 1
INVARIANTS
  TypeOK
  OneAutomaticEach
  AutomaticInOrder
  NothingWithoutFile
PROPERTIES
  ImplementsQueue
  DeployedUnlessBlocked
