SPECIFICATION Spec
CONSTANTS
  anna = anna
  boris = boris
  site1 = site1
  site2 = site2
  tests = tests
  site = site
  siteTests = siteTests
  Users = {anna, boris}
  ProjectVersions = {site1, site2, tests}
  Projects = {site, siteTests}
  ProjectOf <- MCProjectOf
  TestProjects = {tests}
  NoProject = NoProject
  SingleInstance = TRUE
  MaxVersions = 3
  MaxSteps = 4
  MaxRequests = 5
SYMMETRY BundleSymmetry
INVARIANTS
  TypeOK
  ReferencesMatchSteps
  OneSuccessor
PROPERTIES
  ListsChangeAsAsked
CHECK_DEADLOCK FALSE
