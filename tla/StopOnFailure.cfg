SPECIFICATION Spec
CONSTANTS
  webServer = webServer
  databaseServer = databaseServer
  site = site
  tests = tests
  config = config
  script = script
  Packages = {1}
  BundleVersions = {1, 2}
  Environments = {"live"}
  Machines = {webServer, databaseServer}
  Steps = {site, tests, config, script}
  TestSteps = {tests}
  StopOnFailure = {tests}
  BundleOf <- MCBundleOf
  MachinesOf <- MCMachinesOf
  MachineSteps <- MCMachineSteps
  NoMachine = NoMachine
  NoBundle = NoBundle
  MaxPublications = 1
  MaxFaults = 0
INVARIANTS
  StopsOnFailure
CHECK_DEADLOCK FALSE
