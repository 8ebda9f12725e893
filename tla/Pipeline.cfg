SPECIFICATION FairSpec
CONSTANTS
  code = code
  web = web
  tests = tests
  zip = zip
  first = first
  second = second
  Sources = {code}
  Projects = {web, tests, zip}
  Bundles = {first, second}
  SourceOf <- OneSource
  ProjectsOf <- SharedSite
  KindOf <- MCKindOf
  NoOne = NoOne
  MaxCommits = 3
  MaxFaults = 2
INVARIANTS TypeOK BuildMarksSound MarksBacked
PROPERTIES PackagesMoveForward EveryCommitIsBuilt EveryBuildIsPackaged
