SPECIFICATION Spec
CONSTANTS
  anna = anna
  boris = boris
  web = web
  worker = worker
  Users = {anna, boris}
  Environments = {"live", "test"}
  Machines = {web, worker}
  Configured = {web}
  EnvironmentOf <- MCEnvironmentOf
  Everywhere = Everywhere
  Values = {"a", "b"}
  Variable = "{var:site}"
  Documents <- MCDocuments
  Contents <- MCContents
  MaxRows = 3
  MaxSaves = 3
  MaxDeployments = 2
SYMMETRY UserSymmetry
INVARIANTS
  SavedValueIsUsed
  FileSaysWhatWasAsked
  RedeployChangesNothing
CHECK_DEADLOCK FALSE
