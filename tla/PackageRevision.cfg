SPECIFICATION Spec
CONSTANTS
  code = code
  web = web
  tests = tests
  zip = zip
  first = first
  second = second
  Sources = {code}
  Projects = {web, tests, zip}
  Bundles = {first}
  SourceOf <- OneSource
  ProjectsOf <- SharedSite
  KindOf <- MCKindOf
  NoOne = NoOne
  MaxCommits = 2
  MaxFaults = 0
INVARIANTS PackageHoldsItsRevision
