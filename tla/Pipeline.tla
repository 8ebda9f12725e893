------------------------------- MODULE Pipeline -------------------------------
(***************************************************************************)
(* The first stages of a tick of the task runner: ArchiveSources,          *)
(* TakeSources, BuildProjects, PackageBundles, with the managers they call *)
(* (src/ThreadHostedTaskRunner, src/AspNetDeploy.ContinuousIntegration).   *)
(*                                                                         *)
(* A commit of a source is a number; 0 stands for "no value".  The timer   *)
(* thread decides from what its Entity Framework context, created at the   *)
(* start of the tick, has read (seen, seenNormal, seenMark): rows that are *)
(* already tracked keep their values when they are queried again.  The     *)
(* jobs open contexts of their own and read, and write, the rows as they   *)
(* are.  One tick at a time; a restart of the server can break one off.    *)
(***************************************************************************)
EXTENDS Naturals

CONSTANTS
    Sources,      \* source control versions
    Projects,     \* project versions that belong to a bundle version
    Bundles,      \* bundle versions, none of them deleted
    SourceOf,     \* SourceOf[p]: where the project comes from
    ProjectsOf,   \* ProjectsOf[b]: the projects of the bundle version
    KindOf,       \* KindOf[p]: "built", "test" (built, never packaged) or "zip"
    NoOne,        \* no project, no bundle
    MaxCommits,   \* bound: commits to a source
    MaxFaults     \* bound: failures and restarts

ASSUME PipelineConstants ==
    /\ SourceOf \in [Projects -> Sources]
    /\ ProjectsOf \in [Bundles -> SUBSET Projects]
    /\ KindOf \in [Projects -> {"built", "test", "zip"}]
    /\ NoOne \notin Projects \cup Bundles
    /\ MaxCommits \in Nat \ {0}
    /\ MaxFaults \in Nat

VARIABLES
    \* The repositories, the file system of the server
    head,         \* head[s]: the last commit
    disk,         \* disk[s]: the commit in the working copy, NoCopy or BrokenCopy
    binaries,     \* binaries[p]: the commit the build output is from, 0 if not complete
    parcel,       \* parcel[p]: the package file of the project alone, by revision
    \* The database
    archive,      \* archive[s]: ArchiveState
    revision,     \* revision[s]: property Revision
    mark,         \* mark[p]: LastBuildRevision, LastBuildResult, LastPackageRevision
    package,      \* package[b]: the entries of the latest package with a PackageDate
    \* The timer thread
    pc, todo,     \* the stage, the sources or bundles it has still to handle
    seen,         \* seen[s]: property Revision in the context of the tick
    seenNormal,   \* the sources whose ArchiveState is Normal in that context
    seenMark,     \* seenMark[p]: the marks in that context
    queue,        \* the projects still to build, or still to add to the package
    building,     \* the project whose build runs
    bundle,       \* the bundle that is packaged
    draft,        \* the entries of its new package
    \* Bookkeeping
    faults,
    torn          \* projects whose second build within one tick was broken off

repository == <<head, disk, binaries, parcel>>
database   == <<archive, revision, mark, package>>
tick       == <<todo, seen, seenNormal, seenMark>>
job        == <<queue, building, bundle, draft>>
vars       == <<repository, database, pc, tick, job, faults, torn>>

Commits    == 1..MaxCommits
Stamps     == 0..MaxCommits
NoCopy     == 0
BrokenCopy == MaxCommits + 1        \* a directory git cannot open
Results    == {"none", "Not started", "Done", "Error"}
Marks      == [built: Stamps, result: Results, packaged: Stamps]
Entries    == [revision: Stamps, content: Stamps]

NoEntry == [revision |-> 0, content |-> 0]
NoMark  == [built |-> 0, result |-> "none", packaged |-> 0]
NoDraft == [p \in Projects |-> NoEntry]

RevisionOf(p) == revision[SourceOf[p]]
DiskOf(p)     == disk[SourceOf[p]]
ProjectsFrom(s) == {p \in Projects : SourceOf[p] = s}

\* What a packager would put into the package file of a project: the build output, or the
\* archive as it lies in the working copy.
ContentOf(p) == IF KindOf[p] = "zip" THEN DiskOf(p) ELSE binaries[p]

HasParcel(p) == RevisionOf(p) # 0 /\ parcel[p].revision = RevisionOf(p)

-----------------------------------------------------------------------------
TypeOK ==
    /\ head \in [Sources -> Commits]
    /\ disk \in [Sources -> 0..BrokenCopy]
    /\ binaries \in [Projects -> Stamps]
    /\ parcel \in [Projects -> Entries]
    /\ archive \in [Sources -> {"Normal", "Archiving", "Archived"}]
    /\ revision \in [Sources -> Stamps]
    /\ mark \in [Projects -> Marks]
    /\ package \in [Bundles -> [Projects -> Entries]]
    /\ pc \in {"idle", "archive", "take", "build", "pack", "clean", "mark"}
    /\ todo \in SUBSET (IF pc \in {"archive", "take"} THEN Sources ELSE Bundles)
    /\ seen \in [Sources -> Stamps]
    /\ seenNormal \in SUBSET Sources
    /\ seenMark \in [Projects -> Marks]
    /\ queue \in SUBSET Projects
    /\ building \in Projects \cup {NoOne}
    /\ bundle \in Bundles \cup {NoOne}
    /\ draft \in [Projects -> Entries]
    /\ faults \in 0..MaxFaults
    /\ torn \in SUBSET Projects

Init ==
    /\ head = [s \in Sources |-> 1]
    /\ disk = [s \in Sources |-> NoCopy]
    /\ binaries = [p \in Projects |-> 0]
    /\ parcel = NoDraft
    /\ archive = [s \in Sources |-> "Normal"]
    /\ revision = [s \in Sources |-> 0]
    /\ mark = [p \in Projects |-> NoMark]
    /\ package = [b \in Bundles |-> NoDraft]
    /\ pc = "idle"
    /\ todo = {}
    /\ seen = [s \in Sources |-> 0]
    /\ seenNormal = {}
    /\ seenMark = [p \in Projects |-> NoMark]
    /\ queue = {}
    /\ building = NoOne
    /\ bundle = NoOne
    /\ draft = NoDraft
    /\ faults = 0
    /\ torn = {}

Fault == faults < MaxFaults /\ faults' = faults + 1

-----------------------------------------------------------------------------
(* Everybody else: developers and the web site *)

Commit(s) ==
    /\ head[s] < MaxCommits
    /\ head' = [head EXCEPT ![s] = @ + 1]
    /\ UNCHANGED <<disk, binaries, parcel, database, pc, tick, job, faults, torn>>

\* SourcesController.ArchiveVersion
ArchiveVersion(s) ==
    /\ archive[s] = "Normal"
    /\ archive' = [archive EXCEPT ![s] = "Archiving"]
    /\ UNCHANGED <<repository, revision, mark, package, pc, tick, job, faults, torn>>

-----------------------------------------------------------------------------
(* ArchiveSources *)

StartTick ==
    /\ pc = "idle"
    /\ pc' = "archive"
    /\ todo' = {s \in Sources : archive[s] = "Archiving"}
    /\ UNCHANGED <<repository, database, seen, seenNormal, seenMark, job, faults, torn>>

\* The build output lies in the working copy and goes with it.
ArchiveSource(s) ==
    /\ pc = "archive" /\ s \in todo
    /\ todo' = todo \ {s}
    /\ disk' = [disk EXCEPT ![s] = NoCopy]
    /\ binaries' = [p \in Projects |-> IF SourceOf[p] = s THEN 0 ELSE binaries[p]]
    /\ archive' = [archive EXCEPT ![s] = "Archived"]
    /\ UNCHANGED <<head, parcel, revision, mark, package, pc, seen, seenNormal, seenMark, job,
                   faults, torn>>

\* Directory.Delete stops at the first file it cannot delete.
ArchiveFails(s) ==
    /\ pc = "archive" /\ s \in todo
    /\ Fault
    /\ todo' = todo \ {s}
    /\ disk' = [disk EXCEPT ![s] = BrokenCopy]
    /\ \E lost \in SUBSET ProjectsFrom(s) :
          binaries' = [p \in Projects |-> IF p \in lost THEN 0 ELSE binaries[p]]
    /\ UNCHANGED <<head, parcel, database, pc, seen, seenNormal, seenMark, job, torn>>

-----------------------------------------------------------------------------
(* TakeSources *)

\* The query loads the sources in state Normal with their properties into the context.
BeginTake ==
    /\ pc = "archive" /\ todo = {}
    /\ pc' = "take"
    /\ seenNormal' = {s \in Sources : archive[s] = "Normal"}
    /\ todo' = seenNormal'
    /\ seen' = revision
    /\ UNCHANGED <<repository, database, seenMark, job, faults, torn>>

\* UpdateAndParse: the working copy is updated, then the new revision saved.
TakeSource(s) ==
    /\ pc = "take" /\ s \in todo
    /\ disk[s] # BrokenCopy
    /\ todo' = todo \ {s}
    /\ disk' = [disk EXCEPT ![s] = head[s]]
    /\ revision' = [revision EXCEPT ![s] = head[s]]
    /\ UNCHANGED <<head, binaries, parcel, archive, mark, package, pc, seen, seenNormal, seenMark,
                   job, faults, torn>>

\* Loading fails, or what comes after it does, before the revision is saved.  An update that
\* fails leaves the old commit; a clone that fails leaves a directory that is not a repository,
\* which no later tick can open or replaces.
TakeFails(s) ==
    /\ pc = "take" /\ s \in todo
    /\ todo' = todo \ {s}
    /\ \/ /\ disk[s] = BrokenCopy
          /\ UNCHANGED <<disk, faults>>
       \/ /\ disk[s] # BrokenCopy
          /\ Fault
          /\ \E left \in {head[s], IF disk[s] = NoCopy THEN BrokenCopy ELSE disk[s]} :
                disk' = [disk EXCEPT ![s] = left]
    /\ UNCHANGED <<head, binaries, parcel, database, pc, seen, seenNormal, seenMark, job, torn>>

\* The branch is gone from the remote repository.
SourceMissing(s) ==
    /\ pc = "take" /\ s \in todo
    /\ disk[s] \in Commits
    /\ todo' = todo \ {s}
    /\ archive' = [archive EXCEPT ![s] = "Archiving"]
    /\ UNCHANGED <<repository, revision, mark, package, pc, seen, seenNormal, seenMark, job,
                   faults, torn>>

-----------------------------------------------------------------------------
(* BuildProjects *)

\* A source whose property Revision did not exist when the tick first read it shows the new
\* one now: a row that is not tracked yet is added to the context.  The marks of the projects
\* are loaded lazily, in this stage.
BeginBuild ==
    /\ pc = "take" /\ todo = {}
    /\ pc' = "build"
    /\ todo' = Bundles
    /\ seen' = [s \in Sources |-> IF seen[s] = 0 THEN revision[s] ELSE seen[s]]
    /\ seenMark' = mark
    /\ UNCHANGED <<repository, database, seenNormal, job, faults, torn>>

ToRebuild(b) ==
    {p \in ProjectsOf[b] : KindOf[p] # "zip" /\ seen[SourceOf[p]] # seenMark[p].built}

VisitBundle(b) ==
    /\ pc = "build" /\ queue = {} /\ building = NoOne
    /\ b \in todo
    /\ todo' = todo \ {b}
    /\ queue' = ToRebuild(b)
    /\ UNCHANGED <<repository, database, pc, seen, seenNormal, seenMark, building, bundle, draft,
                   faults, torn>>

\* Mistaken variant: the revision is recorded when the build starts.
StartBuildMarkingRevision(p) ==
    /\ pc = "build" /\ building = NoOne
    /\ p \in queue
    /\ queue' = queue \ {p}
    /\ building' = p
    /\ seenMark' = [seenMark EXCEPT ![p].result = "Not started"]
    /\ mark' = [mark EXCEPT ![p].result = "Not started", ![p].built = RevisionOf(p)]
    /\ UNCHANGED <<repository, archive, revision, package, pc, todo, seen, seenNormal, bundle,
                   draft, faults, torn>>

\* Mistaken variant: the result of the last build stays until the new one is known.
StartBuildKeepingResult(p) ==
    /\ pc = "build" /\ building = NoOne
    /\ p \in queue
    /\ queue' = queue \ {p}
    /\ building' = p
    /\ UNCHANGED <<repository, database, pc, todo, seen, seenNormal, seenMark, bundle, draft,
                   faults, torn>>

\* The context saves a property only when its value there has changed: a project that a second
\* bundle builds again in the same tick keeps the result of its first build.
StartBuild(p) ==
    /\ pc = "build" /\ building = NoOne
    /\ p \in queue
    /\ queue' = queue \ {p}
    /\ building' = p
    /\ seenMark' = [seenMark EXCEPT ![p].result = "Not started"]
    /\ mark' = IF seenMark[p].result = "Not started"
               THEN mark
               ELSE [mark EXCEPT ![p].result = "Not started"]
    /\ UNCHANGED <<repository, archive, revision, package, pc, todo, seen, seenNormal, bundle,
                   draft, faults, torn>>

\* The build tool ran and reported; it builds what lies in the working copy.
FinishBuild(p, success) ==
    /\ building = p
    /\ DiskOf(p) \in Commits
    /\ building' = NoOne
    /\ binaries' = [binaries EXCEPT ![p] = IF success THEN DiskOf(p) ELSE 0]
    /\ mark' = [mark EXCEPT ![p] = [built    |-> RevisionOf(p),
                                    result   |-> IF success THEN "Done" ELSE "Error",
                                    packaged |-> @.packaged]]
    /\ UNCHANGED <<head, disk, parcel, archive, revision, package, pc, tick, queue, bundle, draft,
                   faults, torn>>

\* The build of p ends without a result: before the tool ran, while it ran, or when its
\* result could not be saved.
BreakOff(p) ==
    \E left \in {binaries[p], 0} \cup ({DiskOf(p)} \cap Commits) :
       /\ binaries' = [binaries EXCEPT ![p] = left]
       /\ torn' = IF left = 0 /\ mark[p].built = RevisionOf(p) THEN torn \cup {p} ELSE torn

\* An exception of the build service ends the list of the bundle.  Without a working copy no
\* tool can even be started.
BuildThrows(p) ==
    /\ building = p
    /\ \/ /\ DiskOf(p) \in Commits
          /\ Fault
          /\ BreakOff(p)
       \/ /\ DiskOf(p) \notin Commits
          /\ UNCHANGED <<binaries, torn, faults>>
    /\ building' = NoOne
    /\ queue' = {}
    /\ UNCHANGED <<head, disk, parcel, database, pc, tick, bundle, draft>>

-----------------------------------------------------------------------------
(* PackageBundles *)

IsPackable(p) == KindOf[p] # "test"

\* Mistaken variant: whatever has a new revision is packaged.
ToPackUnbuilt ==
    {b \in Bundles :
        /\ \E p \in ProjectsOf[b] : IsPackable(p) /\ seen[SourceOf[p]] # seenMark[p].packaged
        /\ \A p \in ProjectsOf[b] : SourceOf[p] \in seenNormal}

ToPack ==
    {b \in Bundles :
        /\ \E p \in ProjectsOf[b] : IsPackable(p) /\ seen[SourceOf[p]] # seenMark[p].packaged
        /\ \A p \in ProjectsOf[b] :
              /\ SourceOf[p] \in seenNormal
              /\ KindOf[p] = "zip" \/ seenMark[p].result = "Done"}

BeginPack ==
    /\ pc = "build" /\ todo = {} /\ queue = {} /\ building = NoOne
    /\ pc' = "pack"
    /\ todo' = ToPack
    /\ UNCHANGED <<repository, database, seen, seenNormal, seenMark, job, faults, torn>>

Packaged(b) ==
    [p \in Projects |-> IF p \in ProjectsOf[b] THEN [mark[p] EXCEPT !.packaged = RevisionOf(p)]
                                               ELSE mark[p]]

\* Mistaken variant: the projects are marked before the work is done.
StartPackageMarked(b) ==
    /\ pc = "pack" /\ bundle = NoOne
    /\ b \in todo
    /\ todo' = todo \ {b}
    /\ bundle' = b
    /\ queue' = ProjectsOf[b]
    /\ mark' = Packaged(b)
    /\ UNCHANGED <<repository, archive, revision, package, pc, seen, seenNormal, seenMark,
                   building, draft, faults, torn>>

StartPackage(b) ==
    /\ pc = "pack" /\ bundle = NoOne
    /\ b \in todo
    /\ todo' = todo \ {b}
    /\ bundle' = b
    /\ queue' = ProjectsOf[b]
    /\ UNCHANGED <<repository, database, pc, seen, seenNormal, seenMark, building, draft, faults,
                   torn>>

CanPack(p) == ~IsPackable(p) \/ HasParcel(p) \/ DiskOf(p) \in Commits

\* A package file that is already there for this revision is taken as it is.
PackProject(p) ==
    /\ pc = "pack" /\ bundle # NoOne
    /\ p \in queue
    /\ CanPack(p)
    /\ queue' = queue \ {p}
    /\ IF ~IsPackable(p)
       THEN UNCHANGED <<parcel, draft>>
       ELSE /\ parcel' = IF HasParcel(p)
                         THEN parcel
                         ELSE [parcel EXCEPT ![p] = [revision |-> RevisionOf(p),
                                                     content |-> ContentOf(p)]]
            /\ draft' = [draft EXCEPT ![p] = parcel'[p]]
    /\ UNCHANGED <<head, disk, binaries, database, pc, tick, building, bundle, faults, torn>>

SavePackage ==
    /\ pc = "pack" /\ bundle # NoOne /\ queue = {}
    /\ pc' = "clean"
    /\ package' = [package EXCEPT ![bundle] = draft]
    /\ draft' = NoDraft
    /\ UNCHANGED <<repository, archive, revision, mark, tick, queue, building, bundle, faults,
                   torn>>

DeleteParcels ==
    /\ pc = "clean"
    /\ pc' = "mark"
    /\ parcel' = [p \in Projects |-> IF p \in ProjectsOf[bundle] /\ HasParcel(p) THEN NoEntry
                                                                                ELSE parcel[p]]
    /\ UNCHANGED <<head, disk, binaries, database, tick, job, faults, torn>>

\* PackageJob, after PackageBundle.
MarkPackaged ==
    /\ pc = "mark"
    /\ pc' = "pack"
    /\ mark' = Packaged(bundle)
    /\ bundle' = NoOne
    /\ UNCHANGED <<repository, archive, revision, package, tick, queue, building, draft, faults,
                   torn>>

\* Mistaken variant: the projects are marked even so.
PackThrowsMarked ==
    /\ bundle # NoOne
    /\ IF \A p \in queue : CanPack(p) THEN Fault ELSE UNCHANGED faults
    /\ pc' = "pack"
    /\ mark' = Packaged(bundle)
    /\ bundle' = NoOne
    /\ queue' = {}
    /\ draft' = NoDraft
    /\ UNCHANGED <<repository, archive, revision, package, tick, building, torn>>

\* An exception ends the job; the next bundle follows.
PackThrows ==
    /\ bundle # NoOne
    /\ IF \A p \in queue : CanPack(p) THEN Fault ELSE UNCHANGED faults
    /\ pc' = "pack"
    /\ bundle' = NoOne
    /\ queue' = {}
    /\ draft' = NoDraft
    /\ UNCHANGED <<repository, database, tick, building, torn>>

\* Mistaken variant: the work that a broken off tick leaves is kept.
ForgetTickKeepingWork ==
    /\ pc' = "idle"
    /\ UNCHANGED todo
    /\ seen' = [s \in Sources |-> 0]
    /\ seenNormal' = {}
    /\ seenMark' = [p \in Projects |-> NoMark]

ForgetTick ==
    /\ pc' = "idle"
    /\ todo' = {}
    /\ seen' = [s \in Sources |-> 0]
    /\ seenNormal' = {}
    /\ seenMark' = [p \in Projects |-> NoMark]

\* The rest of the tick (automatic deployment, deployments) does not touch this state.
EndTick ==
    /\ pc = "pack" /\ bundle = NoOne /\ todo = {}
    /\ ForgetTick
    /\ UNCHANGED <<repository, database, job, faults, torn>>

RestartServer ==
    /\ pc # "idle"
    /\ Fault
    /\ ForgetTick
    /\ queue' = {} /\ building' = NoOne /\ bundle' = NoOne /\ draft' = NoDraft
    /\ IF building = NoOne \/ DiskOf(building) \notin Commits
       THEN UNCHANGED <<binaries, torn>>
       ELSE BreakOff(building)
    /\ UNCHANGED <<head, disk, parcel, database>>

-----------------------------------------------------------------------------
\* What the timer thread does next.
TimerThread ==
    \/ StartTick \/ BeginTake \/ BeginBuild \/ BeginPack \/ EndTick
    \/ \E s \in Sources : ArchiveSource(s) \/ ArchiveFails(s)
    \/ \E s \in Sources : TakeSource(s) \/ TakeFails(s) \/ SourceMissing(s)
    \/ \E b \in Bundles : VisitBundle(b) \/ StartPackage(b)
    \/ \E p \in Projects : StartBuild(p) \/ BuildThrows(p) \/ PackProject(p)
    \/ \E p \in Projects, success \in BOOLEAN : FinishBuild(p, success)
    \/ SavePackage \/ DeleteParcels \/ MarkPackaged \/ PackThrows

Next ==
    \/ TimerThread
    \/ RestartServer
    \/ \E s \in Sources : Commit(s) \/ ArchiveVersion(s)

Spec == Init /\ [][Next]_vars

\* The timer fires for ever and its thread goes on; the tools it waits for end.
FairSpec == Spec /\ WF_vars(TimerThread)

-----------------------------------------------------------------------------
(* Properties *)

\* A project whose last build is recorded as Done has complete build output, of the recorded
\* revision or of a later commit: the strategy takes the old result back before the new build
\* starts, whatever then happens to it.  Not so for the second build of a project in one tick.
BuildMarksSound ==
    \A p \in Projects :
        (mark[p].result = "Done" /\ archive[SourceOf[p]] = "Normal" /\ p \notin torn)
            => (binaries[p] # 0 /\ binaries[p] >= mark[p].built)

\* A revision is recorded as packaged only if there is a package with it: a failure between
\* the package and the mark repeats work, it never skips any.
MarksBacked ==
    \A p \in Projects :
        (IsPackable(p) /\ mark[p].packaged # 0)
            => \E b \in Bundles : /\ p \in ProjectsOf[b]
                                  /\ package[b][p].revision >= mark[p].packaged

\* A later package of a bundle never holds an older or an incomplete build of a project, even
\* when it is put together from files that an earlier, failed attempt has left behind.
PackagesMoveForward ==
    [][\A b \in Bundles : package'[b] # package[b] =>
          \A p \in ProjectsOf[b] :
              (IsPackable(p) /\ p \notin torn)
                  => (package'[b][p].content # 0 /\ package'[b][p].content >= package[b][p].content)]_vars

\* A package holds the commits that its page lists under "Changes": those of the revision its
\* entries are labelled with.
PackageHoldsItsRevision ==
    \A b \in Bundles, p \in Projects : package[b][p].content >= package[b][p].revision

AllUsable == \A s \in Sources : archive[s] = "Normal" /\ disk[s] # BrokenCopy

\* As long as every source can be read, the last commit is built, with success or not, even
\* if builds, updates and the server fail a number of times on the way.
EveryCommitIsBuilt ==
    []AllUsable =>
        \A p \in Projects : KindOf[p] # "zip" =>
            <>[](mark[p].built = head[SourceOf[p]] /\ mark[p].result \in {"Done", "Error"})

IsShared(p) == \E b, c \in Bundles : b # c /\ p \in ProjectsOf[b] \cap ProjectsOf[c]

\* When all its projects are built, a bundle gets a package labelled with the last commit of
\* each project that it shares with no other bundle.  (The marks are kept per project: what one
\* bundle has packaged, another one that failed will not try again.)
EveryBuildIsPackaged ==
    []AllUsable =>
        \A b \in Bundles : \A p \in ProjectsOf[b] : (IsPackable(p) /\ ~IsShared(p)) =>
            []<>( \/ package[b][p].revision = head[SourceOf[p]]
                  \/ \E q \in ProjectsOf[b] : KindOf[q] # "zip" /\ mark[q].result # "Done" )
=============================================================================
