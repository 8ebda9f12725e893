-------------------------------- MODULE Sources --------------------------------
(***************************************************************************)
(* One source control: its versions (branches), the poll of each by the    *)
(* timer thread (SourceControlManager.UpdateAndParse over the Git, SVN and *)
(* file system repositories), the rows of projects that parsing a working  *)
(* copy creates, updates and deletes, and the web requests that create and *)
(* archive versions.  A commit is its number in the whole repository.      *)
(***************************************************************************)
EXTENDS Naturals, Sequences, FiniteSets

CONSTANTS
  Versions,           \* source control versions that exist or may be created
  FirstVersion,
  Kinds,              \* the types of source control: subset of {"git", "svn", "files"}
  Guids,              \* projects, by the guid the parsers find
  Listings,           \* subset of [Guids -> Nat]: how often the solutions list a project
  FirstListing,
  MaxCommits,         \* bound on the commits to all branches
  MaxFaults           \* bound on failures and restarts

ASSUME SourcesAssumption ==
  /\ FirstVersion \in Versions
  /\ Kinds \subseteq {"git", "svn", "files"}
  /\ Listings \subseteq [Guids -> Nat]
  /\ FirstListing \in Listings
  /\ MaxCommits \in Nat \ {0}
  /\ MaxFaults \in Nat

NoCommit == 0           \* property Revision without a value
NoCopy == 0             \* no working directory
Broken == MaxCommits + 1  \* a working directory that is not a complete copy

VARIABLES
  kind,             \* the type of the source control
  log,              \* the commits: branch and listing of each
  gone,             \* branches deleted in the repository
  disk,             \* disk[v]: the commit in the working directory of v
  archiveState,     \* archiveState[v], "none" before the version is created
  isHead,           \* the versions with IsHead
  revision,         \* revision[v]: property Revision
  revisions,        \* revisions[v]: the rows Revision of v with their RevisionInfos
  projects,         \* the table Project
  projectVersions,  \* the table ProjectVersion
  stage,            \* what the timer thread does
  todo,             \* versions it has still to come to
  version,          \* the version it is at
  parsed,           \* history: parsed[v] is the last commit of v parsed completely
  brokenOff,        \* history: versions whose last revision was saved and not parsed
  faults

repository == <<kind, log, gone>>
tables == <<revision, revisions, projects, projectVersions>>
timer == <<stage, todo, version>>
history == <<parsed, brokenOff>>
vars == <<repository, disk, archiveState, isHead, tables, timer, history, faults>>

-----------------------------------------------------------------------------
Commits(v) == {n \in DOMAIN log : log[n].branch = v}

Last(v) == CHOOSE n \in Commits(v) : \A m \in Commits(v) : m <= n

Found(v) == v \notin gone /\ Commits(v) # {}

Exists(v) == archiveState[v] # "none"

Fail ==
  /\ faults < MaxFaults
  /\ faults' = faults + 1

Init ==
  /\ kind \in Kinds
  /\ log = << [branch |-> FirstVersion, listing |-> FirstListing] >>
  /\ gone = {}
  /\ disk = [v \in Versions |-> NoCopy]
  /\ archiveState = [v \in Versions |-> IF v = FirstVersion THEN "Normal" ELSE "none"]
  /\ isHead = {FirstVersion}
  /\ revision = [v \in Versions |-> NoCommit]
  /\ revisions = [v \in Versions |-> << >>]
  /\ projects = {}
  /\ projectVersions = {}
  /\ stage = "off"
  /\ todo = {}
  /\ version = FirstVersion
  /\ parsed = [v \in Versions |-> NoCommit]
  /\ brokenOff = {}
  /\ faults = 0

-----------------------------------------------------------------------------
(* The repository.                                                         *)

Commit(v, listing) ==
  /\ Len(log) < MaxCommits
  /\ v \notin gone
  /\ log' = Append(log, [branch |-> v, listing |-> listing])
  /\ UNCHANGED <<kind, gone, disk, archiveState, isHead, tables, timer, history, faults>>

\* At most one branch, so that something is left to poll.
DeleteBranch(v) ==
  /\ gone = {}
  /\ Commits(v) # {}
  /\ gone' = {v}
  /\ UNCHANGED <<kind, log, disk, archiveState, isHead, tables, timer, history, faults>>

-----------------------------------------------------------------------------
(* SourcesController.                                                      *)

ArchiveVersion(v) ==
  /\ archiveState[v] = "Normal"
  /\ archiveState' = [archiveState EXCEPT ![v] = "Archiving"]
  /\ UNCHANGED <<repository, disk, isHead, tables, timer, history, faults>>

\* CreateNewVersion: the new version becomes the head when the one it starts from was.
CreateVersion(from, new) ==
  /\ Exists(from)
  /\ ~Exists(new)
  /\ archiveState' = [archiveState EXCEPT ![new] = "Normal"]
  /\ isHead' = IF from \in isHead THEN (isHead \ {from}) \union {new} ELSE isHead
  /\ UNCHANGED <<repository, disk, tables, timer, history, faults>>

-----------------------------------------------------------------------------
(* The tick: ArchiveSources and TakeSources.                               *)

InState(state) == {v \in Versions : archiveState[v] = state}

\* The callback of the timer, again and again.
BeginTick ==
  /\ stage \in {"off", "take"}
  /\ todo = {}
  /\ stage' = "archive"
  /\ todo' = InState("Archiving")
  /\ UNCHANGED <<repository, disk, archiveState, isHead, tables, version, history, faults>>

ArchiveSource(v) ==
  /\ stage = "archive"
  /\ v \in todo
  /\ disk' = [disk EXCEPT ![v] = NoCopy]
  /\ archiveState' = [archiveState EXCEPT ![v] = "Archived"]
  /\ todo' = todo \ {v}
  /\ UNCHANGED <<repository, isHead, tables, stage, version, history, faults>>

\* The directory is still there, half deleted, or deleted while the state is not saved.
ArchiveFails(v) ==
  /\ stage = "archive"
  /\ v \in todo
  /\ Fail
  /\ \E left \in {disk[v], Broken, NoCopy} : disk' = [disk EXCEPT ![v] = left]
  /\ todo' = todo \ {v}
  /\ UNCHANGED <<repository, archiveState, isHead, tables, stage, version, history>>

BeginTake ==
  /\ stage = "archive"
  /\ todo = {}
  /\ stage' = "take"
  /\ todo' = InState("Normal")
  /\ UNCHANGED <<repository, disk, archiveState, isHead, tables, version, history, faults>>

\* The poll of v ends, with or without an exception, and the tick goes on.
EndPoll(v) ==
  /\ stage' = "take"
  /\ todo' = todo \ {v}

-----------------------------------------------------------------------------
(* UpdateAndParse: LoadSources.                                            *)

Polls(v) == stage = "take" /\ v \in todo

\* A Git clone that broke off is opened like a repository; SVN deletes or cleans up what is
\* not a working copy; the file system copies everything anew.
Usable(v) == kind = "git" => disk[v] # Broken

\* Mistaken variant: files are copied when their names and times differ from the last poll
\* that has been seen, not from the revision that has been saved.
LoadSourcesOnce(v) ==
  /\ Polls(v)
  /\ Found(v)
  /\ Usable(v)
  /\ disk' = [disk EXCEPT ![v] = Last(v)]
  /\ IF disk[v] = Last(v)
     THEN EndPoll(v) /\ UNCHANGED version
     ELSE stage' = "loaded" /\ version' = v /\ UNCHANGED todo
  /\ UNCHANGED <<repository, archiveState, isHead, tables, history, faults>>

LoadSources(v) ==
  /\ Polls(v)
  /\ Found(v)
  /\ Usable(v)
  /\ disk' = IF kind = "files" /\ revision[v] = Last(v) THEN disk ELSE [disk EXCEPT ![v] = Last(v)]
  /\ IF revision[v] = Last(v)
     THEN EndPoll(v) /\ UNCHANGED version
     ELSE stage' = "loaded" /\ version' = v /\ UNCHANGED todo
  /\ UNCHANGED <<repository, archiveState, isHead, tables, history, faults>>

\* The update of a Git repository whose branch is gone says so ...
IsMissing(v) == kind = "git" /\ v \in gone /\ disk[v] \notin {NoCopy, Broken}

\* Mistaken variant: nothing is done about it.
SourceMissingIgnored(v) ==
  /\ Polls(v)
  /\ IsMissing(v)
  /\ EndPoll(v)
  /\ UNCHANGED <<repository, disk, archiveState, isHead, tables, version, history, faults>>

\* ... and archives the version.  When a user has archived it since the tick read its list,
\* the poll goes on with a revision that is null, which the table does not take.
SourceMissing(v) ==
  /\ Polls(v)
  /\ IsMissing(v)
  /\ archiveState' = [archiveState EXCEPT ![v] = "Archiving"]
  /\ EndPoll(v)
  /\ UNCHANGED <<repository, disk, isHead, tables, version, history, faults>>

\* Mistaken variant: the revision of a copy that broke off is saved.
LoadSourcesFailsUnnoticed(v) ==
  /\ Polls(v)
  /\ ~IsMissing(v)
  /\ Fail
  /\ disk' = [disk EXCEPT ![v] = Broken]
  /\ stage' = "loaded"
  /\ version' = v
  /\ UNCHANGED <<repository, archiveState, isHead, tables, todo, history>>

\* An exception: Git and SVN have created the directory before they ask the server, the
\* file system before it copies.
LoadSourcesFails(v) ==
  /\ Polls(v)
  /\ ~IsMissing(v)
  /\ IF Found(v) /\ Usable(v) THEN Fail ELSE UNCHANGED faults
  /\ \/ UNCHANGED disk
     \/ /\ \/ disk[v] = NoCopy /\ (kind # "files" \/ Found(v))
           \/ kind = "svn" /\ disk[v] # NoCopy
           \/ kind = "files" /\ Found(v) /\ revision[v] # Last(v)
        /\ disk' = [disk EXCEPT ![v] = Broken]
  /\ EndPoll(v)
  /\ UNCHANGED <<repository, archiveState, isHead, tables, version, history>>

-----------------------------------------------------------------------------
(* UpdateAndParse: the revision.                                           *)

Parent(v) == IF revisions[v] = << >> THEN NoCommit ELSE revisions[v][Len(revisions[v])].name

\* Mistaken variant: the range of the log begins at the parent revision.
InfosOverlapping(v, n) ==
  IF kind # "svn" THEN {}
  ELSE IF Parent(v) = NoCommit THEN {n}
  ELSE {m \in Commits(v) : Parent(v) <= m /\ m <= n}

\* LoadSourcesInfo: SVN asks for the log after the parent revision, the others return nothing.
Infos(v, n) ==
  IF kind # "svn" THEN {}
  ELSE IF Parent(v) = NoCommit THEN {n}
  ELSE {m \in Commits(v) : Parent(v) < m /\ m <= n}

SaveRevision ==
  /\ stage = "loaded"
  /\ LET v == version
         n == disk[version]
     IN /\ revision' = [revision EXCEPT ![v] = n]
        /\ revisions' = [revisions EXCEPT ![v] =
             Append(@, [name |-> n, parent |-> Parent(v), infos |-> Infos(v, n)])]
  /\ stage' = "saved"
  /\ UNCHANGED <<repository, disk, archiveState, isHead, projects, projectVersions, todo, version,
                 history, faults>>

\* Nothing of the revision is saved when the log cannot be read.
LoadSourcesInfoFails ==
  /\ stage = "loaded"
  /\ Fail
  /\ EndPoll(version)
  /\ UNCHANGED <<repository, disk, archiveState, isHead, tables, version, history>>

-----------------------------------------------------------------------------
(* UpdateAndParse: ProjectParsingManager.Execute.                          *)

Listing(v) == log[disk[v]].listing

Rows(v) == {pv \in projectVersions : pv.version = v}

\* Mistaken variant: only projects that the version has had before are known.
NewProjectsOfVersion(v) ==
  {row \in [guid : Guids, since : {disk[v]}, copy : 1 .. 2] :
     /\ row.copy <= Listing(v)[row.guid]
     /\ \A pv \in Rows(v) : pv.project.guid # row.guid}

\* CreateNewProjects: a row for each time a guid is listed that no row of the source
\* control has; the rows just created are not looked at.
NewProjects(v) ==
  {row \in [guid : Guids, since : {disk[v]}, copy : 1 .. 2] :
     /\ row.copy <= Listing(v)[row.guid]
     /\ \A p \in projects : p.guid # row.guid}

Live(v, rows) ==
  {[project |-> p, version |-> v, isDeleted |-> FALSE, asOf |-> disk[v]] : p \in rows}

\* UpdateOrDeleteProjects: what no parser finds any more is deleted, if it was there ...
Deleted(v) ==
  {[pv EXCEPT !.isDeleted = TRUE] : pv \in {w \in Rows(v) : Listing(v)[w.project.guid] = 0}}

\* Mistaken variant: a deleted project that comes back stays deleted.
UpdatedStillDeleted(v) ==
  Live(v, {p \in projects : Listing(v)[p.guid] > 0 /\ ~\E pv \in Rows(v) : pv.project = p /\ pv.isDeleted})
  \union {pv \in Rows(v) : pv.isDeleted /\ Listing(v)[pv.project.guid] > 0}

\* ... and what one finds is updated, or gets its first row for this version.
Updated(v) == Live(v, {p \in projects : Listing(v)[p.guid] > 0})

ParseProjects ==
  /\ stage = "saved"
  /\ LET v == version IN
       /\ projects' = projects \union NewProjects(v)
       /\ projectVersions' = (projectVersions \ Rows(v)) \union
                             Deleted(v) \union Updated(v) \union Live(v, NewProjects(v))
       /\ parsed' = [parsed EXCEPT ![v] = disk[v]]
       /\ brokenOff' = brokenOff \ {v}
  /\ EndPoll(version)
  /\ UNCHANGED <<repository, disk, archiveState, isHead, revision, revisions, version,
                 faults>>

\* A solution or a project file that cannot be read: no row of the parse is saved.
ParseFails ==
  /\ stage = "saved"
  /\ Fail
  /\ brokenOff' = brokenOff \union {version}
  /\ EndPoll(version)
  /\ UNCHANGED <<repository, disk, archiveState, isHead, tables, version, parsed>>

RestartServer ==
  /\ Fail
  /\ brokenOff' = IF stage = "saved" THEN brokenOff \union {version} ELSE brokenOff
  /\ stage' = "off"
  /\ todo' = {}
  /\ UNCHANGED <<repository, disk, archiveState, isHead, tables, version, parsed>>

-----------------------------------------------------------------------------
TimerNext ==
  \/ BeginTick
  \/ BeginTake
  \/ \E v \in Versions :
       \/ ArchiveSource(v)
       \/ ArchiveFails(v)
       \/ LoadSources(v)
       \/ SourceMissing(v)
       \/ LoadSourcesFails(v)
  \/ SaveRevision
  \/ LoadSourcesInfoFails
  \/ ParseProjects
  \/ ParseFails

Next ==
  \/ TimerNext
  \/ \E v \in Versions, listing \in Listings : Commit(v, listing)
  \/ \E v \in Versions : DeleteBranch(v) \/ ArchiveVersion(v)
  \/ \E from, new \in Versions : CreateVersion(from, new)
  \/ RestartServer

Spec == Init /\ [][Next]_vars

\* The timer fires every ten seconds for as long as the site runs.
FairSpec == Spec /\ WF_vars(TimerNext)

-----------------------------------------------------------------------------
(* Properties.                                                             *)

Numbers == 1 .. MaxCommits

Project == [guid : Guids, since : Numbers, copy : 1 .. 2]

TypeOK ==
  /\ kind \in Kinds
  /\ log \in Seq([branch : Versions, listing : Listings])
  /\ gone \subseteq Versions
  /\ disk \in [Versions -> Numbers \union {NoCopy, Broken}]
  /\ archiveState \in [Versions -> {"none", "Normal", "Archiving", "Archived"}]
  /\ isHead \subseteq Versions
  /\ revision \in [Versions -> Numbers \union {NoCommit}]
  /\ revisions \in [Versions ->
       Seq([name : Numbers, parent : Numbers \union {NoCommit}, infos : SUBSET Numbers])]
  /\ projects \subseteq Project
  /\ projectVersions \subseteq
       [project : projects, version : Versions, isDeleted : BOOLEAN, asOf : Numbers]
  /\ stage \in {"off", "archive", "take", "loaded", "saved"}
  /\ todo \subseteq Versions
  /\ version \in Versions
  /\ parsed \in [Versions -> Numbers \union {NoCommit}]
  /\ brokenOff \subseteq Versions
  /\ faults \in 0 .. MaxFaults

\* The page of a package lists the commits between two packages from the RevisionInfos: with
\* Subversion every commit to the branch since the first poll is in exactly one of them, however
\* many commits a poll finds and whichever polls failed.  Nothing of the kind holds for the
\* others: the repositories of Git and the file system return no infos, so that no commit of
\* theirs is ever listed.
SvnCommitsReportedOnce ==
  kind = "svn" =>
    \A v \in Versions :
      LET rows == revisions[v]
          infos == {rows[i].infos : i \in DOMAIN rows}
      IN rows # << >> =>
           /\ UNION infos = {n \in Commits(v) : rows[1].name <= n /\ n <= revision[v]}
           /\ \A i, j \in DOMAIN rows : i # j => rows[i].infos \intersect rows[j].infos = {}

\* The projects of a version are always those of one commit, the last that was parsed
\* completely, whatever has been added, removed and added again before and whatever broke
\* off since; what the other versions of the source control contain does not matter.  The
\* commit is the revision that was saved, except while its parse runs or when it broke off:
\* the polls that follow do not repeat it.
ProjectsOfOneCommit ==
  \A v \in Versions :
    LET live == {pv \in Rows(v) : ~pv.isDeleted} IN
      /\ parsed[v] = revision[v] \/ v \in brokenOff \/ (stage = "saved" /\ version = v)
      /\ parsed[v] = NoCommit => live = {}
      /\ parsed[v] # NoCommit =>
           /\ {pv.project.guid : pv \in live} = {g \in Guids : log[parsed[v]].listing[g] > 0}
           /\ \A pv \in live : pv.asOf = parsed[v]

\* The versions of a project share its row: a guid has more than one row only if a commit
\* lists it more than once, when two solutions of the root directory contain it.
RowsOfGuid(g) == {p \in projects : p.guid = g}

OneProjectForVersions ==
  \A p, q \in projects : p.guid = q.guid /\ p # q =>
    p.since = q.since /\ log[p.since].listing[p.guid] > 1

\* Commits and faults coming to an end, the last commit of every version that is not
\* archived is found and saved, whatever failed before, and parsed unless its parse broke
\* off; only a Git clone that broke off stays behind.
PolledToTheEnd ==
  \A v \in Versions :
    <>[](archiveState[v] = "Normal" /\ Found(v) /\ Usable(v) =>
           revision[v] = Last(v) /\ (parsed[v] = Last(v) \/ v \in brokenOff))

\* A version whose Git branch has been deleted is archived in the end, together with its
\* working copy, if the copy is complete.
MissingIsArchived ==
  \A v \in Versions : IsMissing(v) ~> (archiveState[v] = "Archived" \/ disk[v] = Broken)
=============================================================================
