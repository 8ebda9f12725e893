# AspNetDeploy: verification project

AspNetDeploy is a deployment server. It polls source control, builds and packages projects
into *bundle versions*, and publishes packages onto the machines of an *environment* through
a *satellite*, a service that runs on each machine. This directory models that system in
TLA+; what TLC checks on small instances and what TLAPS proves for all of them is below.

## 1. The system

| Part | Source | State | Operations |
| --- | --- | --- | --- |
| Satellite deployment service | `src/SatelliteService/DeploymentService.cs`, `Operations/` | active publication, queue, index, executed operations (all in memory), the files of the machine | BeginPublication, ResetPackage, UploadPackageBuffer, Deploy*/Copy*/..., ExecuteNextOperation, Complete, Rollback |
| Satellite backups and packages | `src/SatelliteService.LocalBackups`, `src/SatelliteService.Packages` | backup archives, package files | StoreFile/Directory, RestoreFile/Directory, ExtractProject, clean-up by age |
| Agent | `src/AspNetDeploy.DeploymentServices.WCFSatellite` | a WCF channel with a security session | one call per satellite operation, the upload loop |
| Deployment manager | `src/AspNetDeploy.ContinuousIntegration/DeploymentManager.cs` | rows Publication and MachinePublication | Deploy |
| Publication scheduling | `src/WebUI/Controllers/PackagesController.cs` | row Publication | Schedule, Cancel, Approve, Reject |
| Task runner | `src/ThreadHostedTaskRunner` | timer flag, in-memory states of projects, bundles, machines | ArchiveSources, TakeSources, BuildProjects, PackageBundles, ScheduleAutoDeployToTest, DeployScheduledPublications, in this order on each tick |
| Source control | `SourceControlManager.cs`, `src/AspNetDeploy.SourceControls.*` | working copies on disk, property Revision | UpdateAndParse, Archive, clone/fetch |
| Project parsing | `src/AspNetDeploy.Projects*`, `src/Projects.Gulp` | rows ProjectVersion | parse, compare with the stored projects |
| Building, packaging | `BuildManager.cs`, `PackageManager.cs`, `ProjectsBuildStrategy.cs` | LastBuildRevision, LastBuildResult, LastPackageRevision, package files | Build, Package |
| Bundle versions and steps | `BundlesController.cs`, `BundleVersionDeploymentController.cs` | tree of versions, OrderIndex of the steps | new version, add/move/delete step |
| Variables | `src/AspNetDeploy.Variables`, `VariablesController.cs` | row DataFieldValue | Save, look-up for a machine, recursive substitution |
| Configuration merge | `src/SatelliteService/Helpers/XmlMerger.cs` | an XML document | ApplyChanges |
| Web site, monitoring, certificates, gRPC host | `src/WebUI`, `src/MachineServices`, ... | none of their own | views, queries, I/O |

How they interact: the web site and the task runner share only the database. One timer thread
runs the stages of a tick; its last stage runs `DeploymentManager.Deploy` for each publication
it selected, and Deploy calls the satellites one by one, one operation at a time. The
satellite keeps everything it needs for an undo in memory. Nothing coordinates the web site's
writes with the timer thread's, and nothing retries a call.

What is hard, and what makes each part correct:

* **Satellite.** Operations overwrite each other's files; an undo can break off and be called
  again; a call can come from a deployment that died. Correct: an undo that runs to its end
  leaves what was there before, and no publication executes another's operations.
* **Deployment manager and agent.** An answer can be lost after the operation ran; a fault can
  occur between any two calls; the server or a satellite can restart. Correct: what the
  database calls complete is what the machines executed, nothing runs twice or out of order,
  and no publication is installed on the ruins of another.
* **Scheduling.** The timer thread works from a list it read at the start of the tick, while
  users cancel and schedule. Correct: cancellations in time are honoured, an older publication
  never starts after a newer one, the newest one is served.
* **Task runner, sources, building.** Each stage reads what earlier stages wrote, partly
  through a cached Entity Framework context; a failure leaves marks that decide what the next
  tick does. Correct: every commit ends up in a package built from it.
* **Steps, versions, variables, merge.** Sequential data algorithms with corner cases (ties in
  OrderIndex, cyclic variables, deletion markers).

The hazards are listed one by one, each at its line, in `PROJECT.json`.

## 2. Plan

In the order of importance. All but 9 are done with their runs, and all but 9 and the merge in 8
with their proofs.

1. `SatelliteCalls`, `SatelliteSession`: the contract of a satellite; `Satellite`: the service
   itself, shown to implement it; `SatelliteProofs`.
2. `PublicationQueue`: the contract of the table Publication; `Deployment`: scheduling, cancelling,
   DeploymentManager and the agents over both contracts; `PublicationQueueProofs`.
3. `DeploymentProofs`: that `Deployment` implements the queue, and what it does on the machines.
4. `Pipeline`: the stages of a tick from commit to package, with the revision marks and the
   cached context; `PipelineProofs`.
5. `AutoDeployment`: `ScheduleAutoDeployToTest` with packages that have no file and publications
   that stay queued, and two timer callbacks, over `PublicationQueue`; `AutoDeploymentProofs`.
6. `Sources`: loading a revision with each kind of repository, the rows of revisions, the
   comparison of parsed and stored projects; `SourcesProofs`.
7. `BundleVersions`: order of the steps and project references under concurrent edits, copying
   a version; `BundleVersionsProofs`.
8. `Variables`: the values of a variable and which one a deployment uses; `XmlMerge`: the merge
   of XML documents against what documents mean; `Configuration`: the configuration steps over
   both; `ConfigurationProofs`, about all three.
9. `SatellitePackages`: upload by buffers and clean-up by age below the contract. Left.

## 3. Modules and the code

| Module | Models |
| --- | --- |
| `SatelliteCalls` | what one call does to the memory of a satellite, as a set of results (operators only) |
| `SatelliteSession` | the contract: each call is one atomic step of the session record, with its answer |
| `Satellite` | `DeploymentService` and its operations: queue, undo log, the undo loop one operation at a time, the content of the targets |
| `PublicationQueue` | the contract of the table Publication between the web site and one timer thread |
| `Deployment` | scheduling and cancelling, `DeployScheduledPublications`, `DeploymentManager.Deploy`, the agents, over `SatelliteCalls`; shown to implement `PublicationQueue` |
| `Pipeline` | the stages `ArchiveSources`, `TakeSources`, `BuildProjects`, `PackageBundles` of a tick, with SourceControlManager, BuildManager, PackageManager and their jobs |
| `AutoDeployment` | the timer flag, the rows and files of packages, `ScheduleAutoDeployToTest`, the deployment stage over an abstract `Deploy`; shown to implement `PublicationQueue` |
| `Sources` | `SourceControlManager.UpdateAndParse` and `Archive` over the three repositories, `ProjectParsingManager`, the requests that create and archive versions |
| `BundleVersions` | `BundleVersionDeploymentController` and `BundlesController.CreateNewVersion`: steps, references, versions |
| `XmlMerge` | `XmlMerger` (operators only) |
| `Variables` | `VariablesController`, the look-up of a value |
| `Configuration` | configuration steps with a variable in them, `ConfigOperation`, over `Variables` and `XmlMerge` |
| `MCSatellite`, `MCDeployment`, ... | the instances for TLC |
| `SatelliteProofs`, `PublicationQueueProofs`, `DeploymentProofs`, ... | the theorems about the module they are named after |

Definitions named *Mistaken variant* in their comment are not part of a specification: each is
the form a plausible bug would give to the definition after it, kept to show which property
notices it (`PROJECT.json`, "mutants").

### Satellite

`activePublicationId`, `queuedOperations`, `nextOperationIndex`, `completedOperations` and
`lastException` are the fields of the singleton `DeploymentService`. A *target* is what an
operation writes: a site directory, a file, a database. `content` says which version was
laid down completely in a target last and `damaged` which targets have been half overwritten
since. An entry of the undo log holds what the operation's `Run` stored in its own fields:
the backup, or `NoBackup` where `Rollback` does nothing (a site or a directory that did not
exist before, scripts, dacpacs). `ExecuteNextOperation`, `Complete` and `Rollback` are split
where they can stop in between: a failed `Run` starts the loop over the log (`StartUndo`),
each turn is `UndoOperation` or `UndoFails`, and `FinishUndo` is what follows the loop.

The history variables `baseContent` and `baseDamaged` remember the machine as it was when the
log was last emptied. `unprotected` names the targets that changed since in a way the log
cannot know: written without a backup, left half written by an operation that threw (the code
adds an operation to the log only after it succeeded), or by an undo that threw. The
properties say that *only* those can differ after an undo. What `WebSiteOperation` changes in IIS
besides (the site, its bindings, the application pool) is no target: the code takes no backup of it,
since that is commented out (`WebSiteOperation.cs:198-214`), and an undo leaves it as it is.

The caller is unconstrained: any method can be called at any time, which covers every server,
duplicated or late call. `ImplementsSession` shows that the service seen from outside is
`SatelliteSession`; `Deployment` builds on exactly that.

### Deployment

`publications` and `machinePublications` are the tables; they survive everything. `pc`, `batch`,
`bundle`, `current`, `remaining`, `machine` and `at` are the locals of the timer thread between
`DeployScheduledPublications` and `Deploy`. One action is one call of an agent with the code up to the next call; the
answer it gets decides between the branches of the code.

* A call is executed and answered, executed with its answer lost, or never executed (`Calls`).
  A call that is executed late, after the server has given up, needs no case of its own: the
  satellite is a WCF singleton that serialises calls, and a late effect followed by a fault is
  the second case.
* The channel of an agent carries a security session (WSHttpBinding, message credentials):
  after the satellite restarts, an opened channel faults on every call until Deploy creates new
  agents (`channel`). Without that, a restart in the middle of a publication would go unnoticed
  by the calls that do not look at the state of the satellite.
* `Deploy` runs whatever state the publication has by then; `Cancel` reads and saves in two
  steps, and its save overwrites the state.
* `IsReady` inside the loop over the agents is called outside the `try` block: the fault leaves
  the publication in progress and abandons its group (`CheckMachine`, `AbandonGroup`).
* Several saves without a call between them are one step (the new rows, `InProgress` and the
  machines' `Queued`), and so is the loop that uploads the buffers of a package. `CompleteMachine` joins
  the answer of `Complete` with the save of the machine's row that follows it: a server that stops
  between the two is not told from one that stops before the answer.
* Rows are ordered by their index, which stands for CreatedDate (`Supersedes`); two publications created at
  the same instant are not modelled.
* A satellite lives through a restart of the server; a restart of the satellite empties its
  memory. `work` is what the machines have executed and not undone, per publication; complete, it
  is `FullWork`, the operations of the steps in order (a recursive function, `WorkUpTo`).
* `failedTests` is kept for the property about the setting "Stop on failure".

### Pipeline

A commit is a number. `head` is the repository; `disk`, `binaries` and `parcel` are the working
copy, the build output and the package file of a single project, each by the commit it comes from
(`parcel` also by the revision in its name; a file of an older revision is never read
again and is dropped from the model). `revision`, `mark`, `archive` and `package` are rows: the
properties Revision, LastBuildRevision, LastBuildResult, LastPackageRevision, the ArchiveState and the
entries of the latest complete package.

* The timer thread queries all four stages through one Entity Framework context. Rows that are
  tracked keep their values when a later query returns them again, so it decides from `seen`,
  `seenNormal` and `seenMark`, read early in the tick. A row that did not exist yet is added by
  a later query, which is why `BeginBuild` refreshes a revision that was null.
* The jobs (`SourceControlJob`, `BuildJob`, `PackageJob`) open their own contexts: they use
  `revision` and `mark` as they are. `StartBuild` writes "Not started" through the context of
  the tick, which saves a value only if it differs from what it has tracked.
* Bundles and projects are visited in any order: the queries have no ORDER BY.
* A failing build leaves no usable output; one that throws, or that a restart interrupts,
  leaves the old output, the new one or an incomplete one (`BreakOff`). `torn` remembers the
  projects for which this happened in the second build of one tick: the row then says Done
  while the output is incomplete.
* A clone that breaks off leaves a directory in which no repository can be opened
  (`BrokenCopy`); this is Git's behaviour, the other repositories recover.
* Projects and bundles are fixed: the comparison of parsed and stored projects, deleted bundle
  versions and types that no packager accepts are not in the model.

### PublicationQueue and AutoDeployment

`PublicationQueue` is what the web site and the timer may rely on about the table Publication,
whatever happens on the machines: rows are added as Queued (several at once, since one
transaction of the automatic deployment serves all bundle versions it has chosen), a cancellation overwrites whatever
the row says by the time it is saved, a tick works off the list it has read, and only the
publication in progress changes otherwise. `selected` and `running` are not columns; the
detailed modules compute them (`Selected`, `Running`) from the locals of their threads.

`AutoDeployment` runs the callbacks of the timer as threads of their own.

* `TimerCallback` tests `IsTimerRunning` and sets it in two steps that nothing synchronises. The
  model assumes that a callback which has tested the flag sets it before the timer fires again,
  ten seconds later (`CallbackArrives`); without that assumption nothing in the code keeps two
  ticks apart. So no run and no proof says anything about that race; all that is said of
  this module rests on the assumption.
* `toPack`, `leftover` and `failing` say per bundle version what the earlier stages (module
  `Pipeline`) have left: a revision newer than LastPackageRevision, package files of a failed
  attempt, a build that ended in an error. They change in the stage "build" only.
* `PackageManager.PackageBundle` names the file after `package.Id`. The row gets its Id from the first
  `SaveChanges`, which the loop over the projects calls only when it packages a project anew or
  meets one that no packager accepts. With leftovers of every project the name says 0, and the
  publication of the package finds no file (`SavedInLoop`, `file`).
* `bundleState` is the in-memory state `ScheduleAutoDeployToTest` decides from. `TakeSources` makes
  it Idle on each tick, so an Error left by a deployment that threw does not last, and `BuildProjects`
  makes it Error if a build has failed in an earlier tick (`StartTick`, `StateAtStart`). A build that fails in the
  tick itself shows from the next tick on only, since the context of the tick goes on reading the result it has
  cached (`ThreadTaskRunner.cs:315-325`). That `TakeSources` requires all sources of the bundle to be
  readable is abstracted.

### Sources

A commit is a number, with its branch and how often its solutions list each guid (`log`). One
run covers the three kinds of repository: `kind` is chosen in `Init`.

* A poll of a version is load (`LoadSources`, `SourceMissing`, `LoadSourcesFails`), save of the revision and its
  infos, parse with its save. `LoadSourcesFails` leaves a copy that is not complete: SVN and the file
  system recover, a Git clone does not (`Usable`).
* `Updated` and `NewProjects` are the comparison of what the parser found with the rows of all versions of
  the source control, read before the parse.
* Only Subversion reports commits (`Infos`); Git and the file system return an empty list.
* For a file system source the hash of the list of files and the copying are one step
  (`FileSystemSourceControlRepository.cs:29-36` and `46-48`): files that change between the two are not modelled.
* `parsed` and `brokenOff` are history: the last commit of a version parsed completely, and
  where a parse broke off after the revision was saved. The polls that follow see an unchanged
  revision and leave the projects as they are until the next commit.

### BundleVersions

A request reads, computes its changes and saves them in one transaction; `request` holds what
one is about to save. Saving compares keys only: a changed or deleted row must still be there,
a reference to add must not (`Conflict`, what the database refuses). The code has no
concurrency token, so requests that overlap may build on what they no longer have, and go on doing
so. A version has three aspects that a request computes its changes from: whether it is head, the order of its
steps, its references (`Touches`). History variables say what has happened to them: `stale` (for each open request, the aspects another
request has saved since it read them), `clashed` (the versions and aspects over which a stale request
has been saved), `uneven` (versions in which a step that was not the last has been deleted, which
leaves a gap in OrderIndex) and `left` (projects of deleted steps, which the version refers to
until the references are updated the next time). A request keeps its button and its step
(`kind`, `step`), so that a property can say what it has asked for.

### Variables, XmlMerge and Configuration

A document is the sequence of its elements, each with its name, its attributes and the index of
its parent, which comes before it; text is not merged. A new element goes to the end of the
sequence, which makes it the last child of its parent, as in the code. The changes are such a
sequence too, in document order, so that the recursion of `XmlMerger.MergeNodes` through its
children is one change after the other: `MergeNode` merges change k, given what has become of the
ones before it (the elements so far, the element each change was merged into, and the markers
computed for the children of each). A change is looked for by key if it has one, by name otherwise,
and appended when its name marks a collection.

`Meaning` is the reference the merge is checked against: a document as a set of facts, each about
the path of an element, so that merging becomes overlaying sets (`Overlay`). An attribute with the value
`DeletionMarker` is marked to be removed (`ToDelete`); the others are what changes ask for (`Asked`).
Two conditions say of
a merge when it is as good as that: `Distinct` (no element is appended for want of a key, no two
changes are merged into the same element) and `Addressed` (besides, each change is merged into the
only element of its parent with its name and key).

`Variables` is one global variable: the rows of the table DataFieldValue in the order of their ids, which
requests read and then save, and `Resolve`, the value a deployment uses: the row of the machine, else the first
row of its environment. `overlapped` remembers the places two requests have worked on at once; the
code then adds two rows, or overwrites.

`Configuration` puts that value into a step as a deployment does. Each configured machine has a
file, from the start or from its first step. History variables keep what it has been asked to say
(`expected`), the attributes that have been marked for deletion and not given a value since
(`marked`), the last changes if they were distinct (`last`), and the machines on which changes
have not been addressed (`strayed`).

## 4. Runs

| Run | Question | Bounds |
| --- | --- | --- |
| `satellite` | Does the undo log restore what it promises, do queue and log agree, is the contract kept? | 2 publications, 1 target, 5 kinds of steps, queue of 2 |
| `deployment` | Does the database tell what the machines have executed, and is the contract of the queue kept? | 2 packages of 2 bundle versions, 2 machines, up to 3 steps on a machine, 2 publications, 3 faults |
| `deployment_liveness` | Is the latest publication served, is a cancellation final? | 1 package, 2 publications, 2 faults |
| `pipeline` | Do the marks in the database hold what they promise, through failures and restarts, and is the last commit built and packaged? | 1 source, 3 commits, a site in two bundles, a test project, a zip archive, 2 faults |
| `auto_deployment` | Is each package published automatically once, never after a newer one, and with its file, and is the latest one published in the end? | 1 bundle version, 2 environments, 2 callbacks, 2 commits, users schedule up to 2 publications, 1 fault |
| `sources` | Is every commit found and parsed as a whole and, with Subversion, reported once? | 2 branches of each kind of repository, 2 projects, 3 commits, 1 deleted branch, 1 fault |
| `bundle_versions` | Do references, head and order stay as the pages show them under concurrent edits? | 2 users, 3 versions, 4 steps, 5 requests, a site with two versions and its tests |
| `configuration` | Is the right value used, and does the file say what was asked? | 2 users, 2 machines, one of them configured, 3 rows, 3 saves, 2 configuration steps |
| `package_revision` | Does a package hold the commits listed for it? (Not always.) | 1 source, 2 commits, 1 bundle, no fault |
| `stop_on_failure` | Does a failed test stop a deployment whose step says so? (It does not.) | 1 publication, no fault |
| `auto_deployment_blocked` | Is the latest package deployed automatically, as the list of bundle versions says? (Not always.) | 1 bundle version, 1 callback, 2 commits, no fault |
| `variable_of_machine` | Is the value a deployment uses one the page of the variable shows for the machine? (Not always.) | 2 machines, 2 saves, no deployment |

Why the bounds are enough to be interesting: an undo needs two operations on the same target to
be order-sensitive, and a log of two after a broken off undo to be undone twice; targets are
independent of each other (the proofs split by target), so one suffices. Superseding, and what one
publication leaves on the machine of the next, are relations between two publications; the third fault lets a
call fail on each machine and one satellite restart. Three publications with two faults exceed
eight million states without a new case; the properties about the satellite and the queue hold
for any number, by proof.
In `pipeline` a third commit lets a package follow one that was put together from leftovers,
the shared site is built twice in a tick, and two faults allow a restart after a failure.
In `auto_deployment` the bound on publications is for users only; the automatic ones come on top. Two
commits and a fault give three packages of one bundle version, one of them without a file.
In `sources` a project can be listed by two solutions, disappear and come back, and three commits
leave room for two that one poll finds together. In `bundle_versions` three steps make a move with
a bystander, and a fourth one a step that comes while another has been deleted; three versions leave
room for two that are created from the same one. In `configuration` a third row is needed for
an environment, a machine of it and another environment; two configuration steps follow one another
or are the same one twice, and the proofs are about any number of them.

`CHECK_DEADLOCK` is off where the system really comes to rest: when every publication is done, or
every request allowed by the bounds has been made, the model
stops, as the system would with nothing left to do. A satellite and the timer never stop.
`bundle_versions` and `configuration` use the symmetry of the users, who differ in nothing,
and `bundle_versions` that of the two versions of the site.

Fairness: weak fairness of the timer thread (`DeployerNext` in `Deployment`, `TimerThread` in `Pipeline`, `TimerNext` in
`Sources`, some callback's `Tick` in `AutoDeployment`), and of nothing else.
`ThreadTaskRunner.Initialize` starts a timer that fires every ten seconds for
as long as the site runs, and every call of an agent ends, by its answer or a timeout. That the build tools end is an assumption: the code
waits for their processes without a timeout. Nothing
is assumed about users, and nothing about faults except that they are finitely many (`MaxFaults`).

## 5. What the runs show

* A satellite's undo of files and databases is sound in every order of calls, broken off undos
  included; its gaps there are exactly the targets in `unprotected`. The settings of IIS are never
  undone.
* A publication is reported complete only when each machine has executed all its steps,
  once, in order, from its own package (`CompleteMeansDeployed`, `StepsInOrder`), although the
  server ignores the answer of `BeginPublication` and never asks which operation ran. What
  carries this is `ValidateDeploymentAgents`, which rolls every satellite back first, and a
  catch block that gives up after the first fault instead of retrying.
* A broken off publication stays on its machine until the next deployment there: the call of
  `Rollback` in the catch block is commented out. The next deployment undoes it before it
  starts, unless the satellite has restarted (`NoMixedDeployments`, `orphans`).
* A publication is never run on a machine a second time (`NoSecondRun`); one that was in progress when
  the server stopped stays `InProgress` for good.
* Deployments, calls that fail and restarts never disturb the queue (`ImplementsQueue`): the list a tick has read
  is old by the time it is used, and still no older publication starts after a newer one.
* A cancellation is final only if the timer thread has not selected the publication by then
  (`CancelHonoured`), and a later save can replace `Complete` by `Canceled`.
* A build result Done vouches for complete output of its revision, and a revision recorded as
  packaged for a package with that label, whatever fails in between (`BuildMarksSound`,
  `MarksBacked`): the order of the saves carries this. Later packages never go back
  (`PackagesMoveForward`), although leftover files are used again. The exception is `torn`.
* The last commit is built and packages follow (`EveryCommitIsBuilt`, `EveryBuildIsPackaged`)
  as long as all sources can be read. A source that cannot makes its projects throw on each
  tick, before the projects behind them in the list.
* `EveryBuildIsPackaged` speaks of labels, for a reason: `package_revision` shows a package
  labelled R2 with the build output of R1. It arises when R2 is fetched in the tick in which R1
  is due to be packaged; since R2 then counts as packaged, its own build is not packaged
  until a further commit arrives.
* Each package is published automatically at most once, and never after a newer one of its bundle
  version (`OneAutomaticEach`; `AutomaticInOrder`, which compares the packages), and a package without its file never reaches a machine: such a
  publication waits for ever (`NothingWithoutFile`). Publications by users have no order among
  different packages.
* The latest package is published in the end unless one of three causes prevents it
  (`DeployedUnlessBlocked`): a project that does not compile, a queued publication whose package has no
  file, and a queued publication that is superseded. The last one needs no failure at all:
  `auto_deployment_blocked` gets there with two requests for one package, and from then on
  automatic deployment of the bundle version is over, while its page goes on announcing it.
* With Subversion every commit is in exactly one row of revisions (`SvnCommitsReportedOnce`); for Git and
  the file system the code lists no commits. The projects of a version are those of
  one commit (`ProjectsOfOneCommit`), and the last commit is found whatever failed before (`PolledToTheEnd`), with two exceptions:
  a parse that broke off is not repeated, and a Git clone that broke off never recovers. A project
  that two solutions list gets two rows (`OneProjectForVersions`).
* Every step's project stays among the references of its version (`ReferencesMatchSteps`); what is too much
  comes from `DeleteStep` alone, which updates them while the step is still there. This fails only
  in a version whose references were saved by a request that had read older ones.
* The list of steps changes as the buttons say, also when it has been changed in another way since a
  request read it (`ListsChangeAsAsked`): a move passes one neighbour, a new step comes last, and a
  step goes only by its own request. There are two limits. After a step that was not the last has been deleted, a move may
  fail to pass its neighbour and a new step may come anywhere, but no other two steps change places. And
  when two requests work on one list at once, the second is computed from what is no longer there:
  nothing is promised of that version's order from then on.
* There is one head and at most one version with automatic deployment (`OneSuccessor`) as long as
  no two requests create a version from the same one. Nothing in the code prevents two that do, each with
  its own successor: the run has such behaviours, and they leave two heads.
* A configuration file says what the steps asked for and nothing else, and deploying a step again
  changes nothing (`FileSaysWhatWasAsked`, `RedeployChangesNothing`), except where an element is
  appended to a collection for want of a key: that one is appended again on each deployment; or
  where two changes are merged into one element, one of which may make a name among its children a
  collection that was none for the other. Attributes marked for deletion are left out
  of this until a step gives them a value again: the merger removes such an attribute, finds it missing and creates
  it with the marker for its value (`XmlMerger.cs:198-206`), and no text of the repository says what it should do.
* `variable_of_machine` is a bug: a machine without a value of its own gets the value of another machine of
  its environment, if that one was saved first.
* `stop_on_failure` is a disagreement: the page of a bundle version shows "Stop on failure" for
  a test step, and no code reads the setting during a deployment.

## 6. Proofs

Every theorem holds for all values of the constants that the named assumption of its module
allows. The inductive invariants about the detailed modules were checked with TLC on small instances before they
were proved.

### Satellite (`SatelliteProofs`)

* `SatelliteTypeCorrect`: types, and that index and undo loop stay in range.
* `SatelliteInvariant`: the inductive invariant `IInv`. `RollbackRestores` alone speaks about
  the end of the loop only. What makes it inductive is `UndoLogSound`: for each protected target
  the *first* backup in the log is the content from before the log began, and with no backup left
  to undo the target has that content. Restoring the backups from the last one to the first keeps
  this true at every turn, also when a loop breaks off and starts again from the end. The order of
  the undo matters here and nowhere else. `UndoAfterFailure` is what the refinement needs in
  addition: a loop that undoes a failed operation never stands at the end of the queue.
* `SatelliteUndoLogSound`, `SatelliteRollbackRestores`, `SatelliteLogMatchesQueue`,
  `SatelliteOperationsOwned` follow from it.
* `SatelliteImplementsSession`: every step of `Satellite` is a step of `SatelliteSession` or
  leaves session and answer alone.

### The queue (`PublicationQueueProofs`)

* `QueueTypeCorrect`, and `QueueSelectionFresh`: nothing in the list of a tick, and nothing that
  supersedes something in it, has been started. The inductive invariant `QueueInv` adds
  that of two publications in the list neither supersedes the other (`SelectionApart`): without
  it, starting one could make another stale. The query carries this, and new publications
  cannot break it, since they are waiting themselves.
* `QueueNoStaleStart` and `QueueNeverQueuedAgain` follow, for everything that implements the queue.

### Deployment (`DeploymentProofs`)

* `DeploymentTypeCorrect`: types, together with `Control`, where the locals of the timer thread
  stand at each point of `Deploy`.
* `DeploymentImplementsQueue`: each action is a step of `PublicationQueue` or changes none of
  its variables. `DeploymentNoStaleStart` and `DeploymentNeverQueuedAgain` are then the
  theorems about the queue, instantiated.
* `DeploymentCancelHonoured`: a step of the queue takes back no cancellation of what is neither
  selected nor running (`Free`).
* `DeploymentCompleteMeansDeployed`, `DeploymentStepsInOrder`, `DeploymentNoMixedDeployments`: none of the three
  is inductive, since each relates rows to satellites that the thread last spoke to some calls ago.
  `SatInv` says what holds in between. *Off the thread*, a publication
  that is new has left no trace (`NewIsUntouched`), one that is complete has its full work on every machine,
  and no satellite still serves it, so that no later rollback undoes it (`CompleteIsDone`), and one that
  broke off half-way is still the active one of its satellite, which is why the next validation
  rolls it back (`PartialIsActive`; the exception are satellites that have restarted, `orphans`).
  *On the thread*, the satellites validated are free (`ValidatedIsFree`), those still to visit too
  (`RemainingIsFree`), those visited are done (`VisitedIsDone`), and the session of the one being deployed to is
  where the thread believes it to be (`SessionAsExpected`): while it configures, the queue is the configured part of
  the steps, while it runs, the index is the number of operations executed. That belief holds only as long as the channel is
  open; a broken channel carries no further call, and its satellite is free (`BrokenIsFree`).
  This is where the security session of the channel matters.
* `DeploymentMachinesAgree`, `DeploymentNoSecondRun`: `MachineRowsInv` adds the state each row of a machine
  has while the thread is at another (`RunRows`, `ExpectedState`).
* `DeploymentTickMovesOn`: each step of the timer thread in a tick decreases what is left of the tick, in the order
  publications selected, phase of the publication, machines of the phase, station on the way through a machine,
  steps of the station, and nobody else increases it. Both sets are finite, so no tick goes on for
  ever. This is the half of `LatestIsServed` that needs no fairness; it would fail if a call that faulted were repeated.

### Pipeline (`PipelineProofs`)

For any number of sources, projects, bundles, commits and faults:

* `PipelineTypeCorrect`: types, together with `StageOfWork`: a build runs only in the build
  stage, a bundle is packaged only in the last one.
* `PipelineMarksBacked`. The mark and the package are written by different steps from different
  reads of the revision, so the invariant `LabelInv` says why they agree: while a bundle is packaged no source is
  updated, the entries already put together and the package just saved carry the current
  revision, no mark exceeds it, and the mark is written only after the package. A later package of the same bundle
  then never has a smaller label than a mark that relies on it.
* `PipelineBuildMarksSound`. A build is torn at any point, so `BuildMarksSound` alone is not
  inductive. `BuildInv` adds: a working copy is never older than the recorded revision
  (`CopyNotOlder`; the revision is saved last), no build is recorded for a revision beyond it
  (`BuiltWithinRevision`), and a project being built does not say Done unless it was already
  built for the current revision in this tick (`Announced`), which is the case `torn` stands
  for. What an archiving deletes belongs to a source that is not Normal any more
  (`OnlyArchivedDeleted`).
* `PipelinePackagesMoveForward`. A package takes its entries from files that may be left from a failed attempt,
  so it has to be shown that no file is older than a package made before: `ForwardInv` extends
  `BuildInv` by the order commit, copy, output (`CopyWithinHead`), by the fact that no file or
  package is ahead of what would be packaged now (`NothingAhead`), that a file of the current
  revision holds at least what any package holds (`ParcelsForward`, from which the entries put together
  so far come, `DraftFromParcels`), and that a bundle is only packaged with complete output
  (`SeenComplete`, `ReadyToPack`).

### Automatic deployment (`AutoDeploymentProofs`)

All of it holds under the assumption in `CallbackArrives`; that at most one callback works (`OneThread`) is
a consequence of it and no result.

* `AutoDeploymentTypeCorrect`: the types of rows, states and locals.
* `AutoDeploymentImplementsQueue`: the callbacks together are the single timer thread of the queue.
  `AutoDeploymentNoStaleStart` and `AutoDeploymentNeverQueuedAgain` are the theorems about the queue, instantiated.
* `AutoDeploymentOneAutomaticEach`, `AutoDeploymentInOrder`: `AutomaticInv` adds that what a callback has chosen
  is as its query found it until it is saved (`ChosenFresh`): no automatic publication of that
  package has come up, and none of that bundle version has begun to wait. The second part is
  not visible in the code of this module; it is taken from the contract (`NoReturn`): a publication never waits again.
  That a later row is not for an older package is the part about the packages: they are only ever appended, so
  the latest one, which is what is chosen, is never older than one that has been published (`LatestIs`).
* `AutoDeploymentNothingWithoutFile`: `Deploy` has looked for the file before it changes a row, and
  no file of a package is deleted (`RunningHasFile`).

### Source control (`SourcesProofs`)

* `SourcesTypeCorrect`, with `PollInv` and `CommitsInv`: a poll works on a later commit of its own branch. The assumption on
  `MaxCommits` is that there is a commit, since a repository has one when its version is created.
* `SourcesSvnCommitsReportedOnce`, for Subversion: `RevisionRows` ties the last row of revisions to the
  property Revision, from which the next poll computes the commits to report.
* `SourcesProjectsOfOneCommit`, `SourcesOneProjectForVersions`: inductive with the types. The second
  holds because a project is added only for a guid no row of the source control has, and several at
  once only when the commit lists the guid more than once.

### Bundle versions (`BundleVersionsProofs`)

* `BundleVersionsTypeCorrect`.
* `BundleVersionsReferencesMatchSteps`, `BundleVersionsOneSuccessor`: a request saves what it computed from an older
  state. `Requests` says what is known of one while it is open. Whatever others save, it is `Sound`: its
  fields fit its kind, its rows belong to its version, a copy has what was read. And in every aspect that is
  not stale, its changes are those it would compute now (`Fits`): what has been saved since it
  was read is of other versions or other aspects. `Heads` and `References` are then kept by each save that is not stale in them.
* `BundleVersionsListsChangeAsAsked`: `EvenLists` adds that the OrderIndex of a version is 1, 2, 3, ... until a
  step in the middle has been deleted or its order has clashed. In such a list two neighbours differ by one
  (`NeighboursOfEven`), so that adding and subtracting one exchanges them and nothing else
  (`SavedMove`). In an uneven list it is only the direction of the two that can fail to turn.

### Variables and configuration files (`ConfigurationProofs`)

* `VariablesSavedValueIsUsed`, `ConfigurationSavedValueIsUsed`: `VariablesInv` adds what a request has to find when
  it saves. The row it chose is one of its place; without a row and without an overlap, there is none
  (`RightRow`). So a place that no two requests have shared has at most one row, with the value saved
  last (`OneRow`). Configuration steps leave all of it alone.
* `ConfigurationRedeployChangesNothing`, for any document and changes (`MergedAgain`). The merge is a
  recursive function of the changes, known by its steps (`MergeSteps`, `MergeNodeSteps`); between any
  two of them the tree grows at its end and elements change only where a change has its place
  (`Later`). With places that differ, each change finds its place again, and first (`FindsItsPlace`):
  another change that gives an element the key of this one would have to be its sibling, which makes
  the name a collection, in which it has a key too (`OthersHaveKeys`). And a name that was no
  collection does not become one (`StaysSingle`). So the second merge is the first one's result, step
  by step (`Same`).
* `ConfigurationFileSaysWhatWasAsked`, likewise (`MergeMeans`): elements keep their name and key
  (`IdentitiesStay`), so they keep their paths, and the path of a change is that of its place and of
  no other element (`PathsStay`, by `TreeInduction`). The rest is about sets of facts. Attributes
  marked for deletion and not given a value since are left out on both sides.
* `FilesInv`, inductive, joins both: files are documents with one root, queued changes are changes, and a
  file whose last changes were distinct is what merging them has left of some document.
* `ConfigurationFilesAreDocuments`: a file stays a document with one root, which the next deployment can load,
  however changes are merged. `CanApply` is needed: changes with another root would add a second one.
* `ConfigurationNothingIsLost`, an action property: no element ever leaves a file, is renamed or is moved, and no
  attribute leaves an element, whether or not changes are addressed (`MergeKeepsElements`). So
  there is no step that removes anything from a file on a machine, and marking for deletion is
  no exception.

### What is only model-checked

Liveness, with its fairness: `LatestIsServed`, `EveryCommitIsBuilt`, `EveryBuildIsPackaged`, `DeployedUnlessBlocked`,
`PolledToTheEnd`, `MissingIsArchived`. It is out of the prover's reach; that a tick of the
manager cannot go on for ever, on which `LatestIsServed` rests, is proved (`DeploymentTickMovesOn`). All safety properties of the
passing runs are proved.

Induction over numbers is possible where a definition is a recursive function: that every nonempty set of numbers has a
least element (`WFMin`) replaces the induction theorems. `WorkUpTo` in `Deployment`, `MergeNodes`
and `Paths` in `XmlMerge` are written as functions for this reason, documents as sequences instead of
nested elements, and `SetInduction` is the principle their lemmas use.

## 7. Not modelled

* JavaScript (`src/WebUI/Resources`, `src/packages`). These are libraries by others (jQuery,
  Bootstrap, d3, the Ace editor) and general helpers of the pages: widgets, dialogs, formatting,
  request wrappers. The state of the system is in the C# code; what a page can do to it is its
  requests, and those are modelled with the controllers that answer them.
* Merging JSON is done by Newtonsoft's library. In the XML merge, text and namespaces: the merger
  queries without a namespace manager.
* Variables that name other variables, `env:` variables, modifiers, variables of a bundle
  version and their precedence. Names that refer to each other recurse without end
  (`VariableProcessor.cs:72`), and a model would only restate that the check is missing. A machine in several environments, where the code takes
  whichever environment comes first.
* Steps that are edited between packaging and deployment: `DeploymentManager.cs:313` reads the
  current steps of the bundle version, not those of the time of packaging.
* Roles, hot fixes that are moved under another version, deleted bundle versions (`IsDeleted` is filtered on, and nothing sets it), approvals, which
  only add and remove a row a page reads, the logs of machines and steps, the JSON of the step
  configurations.
* In-memory states other than the one of a bundle version: they are shown to users only.
* Content of packages and files outside configuration: a target holds a version or another, not text. A truncated
  package shows as an operation that fails. The clean-up by age needs a clock and the ages of
  files; it appears only as a step that may throw.
* The gRPC agent, which is not registered with the container, the views, authentication,
  monitoring, certificates: no state protocol of their own.
