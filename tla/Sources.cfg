SPECIFICATION FairSpec
CONSTANTS
  Versions = {1, 2}
  FirstVersion = 1
  Kinds = {"git", "svn", "files"}
  Guids = {"web", "db"}
  Listings <- MCListings
  FirstListing <- MCFirstListing
  MaxCommits = 3
  MaxFaults = 1
INVARIANTS
  TypeOK
  SvnCommitsReportedOnce
  ProjectsOfOneCommit
  OneProjectForVersions
PROPERTIES
  PolledToTheEnd
  MissingIsArchived
