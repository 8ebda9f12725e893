SPECIFICATION Spec
CONSTANTS
  webServer = webServer
  databaseServer = databaseServer
  site = site
  tests = tests
  config = config
  script = script
  Packages = {1, 2}
  BundleVersions = {1, 2}
  Environments = {"live"}
  Machines = {webServer, databaseServer}
  Steps = {site, tests, config, script}
  TestSteps = {tests}
  StopOnFailure = {tests}
  BundleOf <- MCBundleOf
  MachinesOf <- MCMachinesOf
  MachineSteps <- MCMachineSteps
  NoMachine = NoMachine
  NoBundle = NoBundle
  MaxPublications = 2
  MaxFaults = 3
INVARIANTS
  TypeOK
  CompleteMeansDeployed
  StepsInOrder
  NoMixedDeployments
  MachinesAgree
PROPERTIES
  ImplementsQueue
  NoSecondRun
CHECK_DEADLOCK FALSE
