SPECIFICATION Spec
CONSTANTS
  anna = anna
  boris = boris
  web = web
  worker = worker
  Users = {anna, boris}
  Environments = {"live", "test"}
  Machines = {web, worker}
  Configured = {web}
  EnvironmentOf <- MCEnvironmentOf
  Everywhere = Everywhere
  Values = {"a", "b"}
  Variable = "{var:site}"
  Documents <- MCDocuments
  Contents <- MCContents
  MaxRows = 3
  MaxSaves = 2
  MaxDeployments = 0
INVARIANTS
  PageShowsWhatIsUsed
CHECK_DEADLOCK FALSE
