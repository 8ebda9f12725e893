SPECIFICATION Spec
CONSTANTS
  PublicationIds = {1, 2}
  webConfig = webConfig
  Targets = {webConfig}
  Steps <- MCSteps
  Absent = Absent
  Original = Original
  NoBackup = NoBackup
  MaxOperations = 2
INVARIANTS
  TypeOK
  UndoLogSound
  RollbackRestores
  LogMatchesQueue
  OperationsOwned
PROPERTY
  ImplementsSession
