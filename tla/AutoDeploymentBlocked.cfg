SPECIFICATION FairSpec
CONSTANTS
  Bundles = {"shop"}
  Environments = {"test"}
  AutoDeployTo <- MCAutoDeployTo
  NoEnvironment = NoEnvironment
  PlainProjects = {}
  Callbacks = {1}
  MaxCommits = 2
  MaxPublications = 2
  MaxFaults = 0
PROPERTIES
  AutoDeployed
