--------------------------- MODULE AutoDeployment ---------------------------
(***************************************************************************)
(* The tick of the task runner from packaging to deployment: the timer     *)
(* callbacks and their flag, PackageBundles as far as rows and files of    *)
(* packages go, ScheduleAutoDeployToTest, and DeployScheduledPublications  *)
(* over an abstract DeploymentManager.Deploy (module Deployment has the    *)
(* calls), with users who schedule and cancel at the same time.            *)
(***************************************************************************)
EXTENDS Naturals, Sequences, FiniteSets

CONSTANTS
  Bundles,            \* bundle versions
  Environments,
  AutoDeployTo,       \* [Bundles -> Environments \union {NoEnvironment}], a property of the row
  NoEnvironment,
  PlainProjects,      \* bundle versions with a project that no packager accepts
  Callbacks,          \* threads of the pool that run callbacks of the timer
  MaxCommits,         \* bound on the revisions built
  MaxPublications,    \* bound on the rows up to which users schedule
  MaxFaults           \* bound on failures and restarts

ASSUME AutoDeploymentAssumption ==
  /\ NoEnvironment \notin Environments
  /\ AutoDeployTo \in [Bundles -> Environments \union {NoEnvironment}]
  /\ PlainProjects \subseteq Bundles
  /\ IsFiniteSet(Bundles)
  /\ {MaxCommits, MaxPublications, MaxFaults} \subseteq Nat

VARIABLES
  packages,        \* the table Package, in the order of CreatedDate, with the file of each
  publications,    \* the table Publication, in the order of CreatedDate
  cancelling,      \* publications a web request has read as queued, to cancel them
  toPack,          \* bundle versions built from a revision newer than LastPackageRevision
  leftover,        \* bundle versions with a package file of each project for that revision
  failing,         \* bundle versions with a project whose last build ended in an error
  bundleState,     \* TaskRunnerContext.BundleStates
  isTimerRunning,
  thread,          \* what each callback is doing
  automatic,       \* history: publications made by ScheduleAutoDeployToTest
  commits,
  faults

disk == <<packages, toPack, leftover, failing>>
queue == <<publications, cancelling, automatic>>
vars == <<disk, queue, bundleState, isTimerRunning, thread, commits, faults>>

-----------------------------------------------------------------------------
PackagesOf(b) == {k \in DOMAIN packages : packages[k].bundle = b}

\* Mistaken variant: the latest one of those that nobody has published yet, if there is one.
LatestUnpublished(b) ==
  LET unpublished == {k \in PackagesOf(b) :
                        \A p \in DOMAIN publications : publications[p].package # k}
      candidates == IF unpublished = {} THEN PackagesOf(b) ELSE unpublished
  IN CHOOSE k \in candidates : \A l \in candidates : l <= k

Latest(b) == CHOOSE k \in PackagesOf(b) : \A l \in PackagesOf(b) : l <= k

BundleOf(p) == packages[publications[p].package].bundle

HasFile(p) == packages[publications[p].package].file

StateOf(p) == publications[p].state

Scheduled == DOMAIN publications

\* q was scheduled after p for the same package and environment.
Supersedes(q, p) ==
  /\ q > p
  /\ publications[q].package = publications[p].package
  /\ publications[q].environment = publications[p].environment

Deployable ==
  {p \in Scheduled : StateOf(p) = "Queued" /\ ~\E q \in Scheduled : Supersedes(q, p)}

NoPublication == 0

NoBundle == "none"

Off == [pc |-> "off", packing |-> {}, chosen |-> {}, batch |-> {}, bundle |-> NoBundle,
        current |-> NoPublication]

Init ==
  /\ packages = << >>
  /\ publications = << >>
  /\ cancelling = {}
  /\ toPack = {}
  /\ leftover = {}
  /\ failing = {}
  /\ bundleState = [b \in Bundles |-> "Idle"]
  /\ isTimerRunning = FALSE
  /\ thread = [c \in Callbacks |-> Off]
  /\ automatic = {}
  /\ commits = 0
  /\ faults = 0

Fail ==
  /\ faults < MaxFaults
  /\ faults' = faults + 1

-----------------------------------------------------------------------------
(* Commits, users.                                                         *)

\* The stages of the tick before packaging load a new revision and build it ...
Commit(b) ==
  /\ \E c \in Callbacks : thread[c].pc = "build"
  /\ commits < MaxCommits
  /\ commits' = commits + 1
  /\ toPack' = toPack \union {b}
  /\ failing' = failing \ {b}
  /\ leftover' = leftover \ {b}
  /\ bundleState' = [bundleState EXCEPT ![b] = "Idle"]
  /\ UNCHANGED <<packages, queue, isTimerRunning, thread, faults>>

\* ... which does not compile, or does again after the next commit only.  The context of the
\* tick does not see the result, BuildJob has saved it through another one: until the next
\* tick the bundle version is idle like one whose build succeeded.
CommitFailing(b) ==
  /\ \E c \in Callbacks : thread[c].pc = "build"
  /\ commits < MaxCommits
  /\ Fail
  /\ commits' = commits + 1
  /\ toPack' = toPack \ {b}
  /\ failing' = failing \union {b}
  /\ leftover' = leftover \ {b}
  /\ bundleState' = [bundleState EXCEPT ![b] = "Idle"]
  /\ UNCHANGED <<packages, queue, isTimerRunning, thread>>

Queued(k, e) == [package |-> k, environment |-> e, state |-> "Queued"]

\* The page offers "Deploy now" for what is not queued; the action itself does not look,
\* so two requests (a double click, two users) schedule a package twice.
SchedulePublication(k, e) ==
  /\ Len(publications) < MaxPublications
  /\ publications' = Append(publications, Queued(k, e))
  /\ UNCHANGED <<disk, cancelling, automatic, bundleState, isTimerRunning, thread, commits, faults>>

ReadForCancel(p) ==
  /\ p \in Deployable
  /\ cancelling' = cancelling \union {p}
  /\ UNCHANGED <<disk, publications, automatic, bundleState, isTimerRunning, thread, commits,
                 faults>>

SaveCanceled(p) ==
  /\ p \in cancelling
  /\ publications' = [publications EXCEPT ![p].state = "Canceled"]
  /\ cancelling' = cancelling \ {p}
  /\ UNCHANGED <<disk, automatic, bundleState, isTimerRunning, thread, commits, faults>>

-----------------------------------------------------------------------------
(* The timer.                                                              *)

At(c, pc) == thread[c].pc = pc

GoTo(c, pc) == thread' = [thread EXCEPT ![c].pc = pc]

\* TimerCallback tests the flag; a callback that finds it set returns, which changes
\* nothing.  Nothing synchronises the test with the setting of the flag.  ASSUMED, as the
\* timer fires every ten seconds: a callback that has tested the flag sets it before the next
\* one comes.  Without the third conjunct two ticks could run at once.
CallbackArrives(c) ==
  /\ At(c, "off")
  /\ ~isTimerRunning
  /\ \A d \in Callbacks : ~At(d, "tested")
  /\ GoTo(c, "tested")
  /\ UNCHANGED <<disk, queue, bundleState, isTimerRunning, commits, faults>>

\* TakeSources makes every bundle version idle, whatever the last tick left it in, and
\* BuildProjects marks those with a project that has not compiled in an earlier tick.
StateAtStart(b) == IF b \in failing THEN "Error" ELSE "Idle"

\* Mistaken variant: the flag is set after the work only, and never kept.
StartTickUnmarked(c) ==
  /\ At(c, "tested")
  /\ isTimerRunning' = FALSE
  /\ bundleState' = [b \in Bundles |-> StateAtStart(b)]
  /\ GoTo(c, "build")
  /\ UNCHANGED <<disk, queue, commits, faults>>

\* Mistaken variant: a bundle version keeps the state it has from the last tick.
StartTickStillMarked(c) ==
  /\ At(c, "tested")
  /\ isTimerRunning' = TRUE
  /\ bundleState' = [b \in Bundles |-> IF b \in failing THEN "Error" ELSE bundleState[b]]
  /\ GoTo(c, "build")
  /\ UNCHANGED <<disk, queue, commits, faults>>

\* ... and sets it.
StartTick(c) ==
  /\ At(c, "tested")
  /\ isTimerRunning' = TRUE
  /\ bundleState' = [b \in Bundles |-> StateAtStart(b)]
  /\ GoTo(c, "build")
  /\ UNCHANGED <<disk, queue, commits, faults>>

EndTick(c) ==
  /\ At(c, "deploy")
  /\ thread[c].batch = {}
  /\ isTimerRunning' = FALSE
  /\ thread' = [thread EXCEPT ![c] = Off]
  /\ UNCHANGED <<disk, queue, bundleState, commits, faults>>

-----------------------------------------------------------------------------
(* PackageBundles and PackageManager.PackageBundle.                        *)

\* The row gets its identity from the first SaveChanges, which the loop over the projects
\* calls for each project it packages anew or that no packager accepts.
SavedInLoop(b) == b \notin leftover \/ b \in PlainProjects

BeginPackaging(c) ==
  /\ At(c, "build")
  /\ thread' = [thread EXCEPT ![c].pc = "package", ![c].packing = toPack]
  /\ UNCHANGED <<disk, queue, bundleState, isTimerRunning, commits, faults>>

AddPackage(b, file) == packages' = Append(packages, [bundle |-> b, file |-> file])

\* The file is named after package.Id: without a SaveChanges in the loop that is still 0,
\* and no publication of the package will find it.
PackBundle(c, b) ==
  /\ At(c, "package")
  /\ b \in thread[c].packing
  /\ AddPackage(b, SavedInLoop(b))
  /\ leftover' = leftover \ {b}
  /\ toPack' = toPack \ {b}
  /\ bundleState' = [bundleState EXCEPT ![b] = "Packaging"]
  /\ thread' = [thread EXCEPT ![c].packing = @ \ {b}]
  /\ UNCHANGED <<queue, failing, isTimerRunning, commits, faults>>

\* Where packaging may stop: at the first project, at a later one when the row has been
\* saved, while the file is written, or when all is saved and the leftovers are deleted.
PackBundleFails(c, b) ==
  /\ At(c, "package")
  /\ b \in thread[c].packing
  /\ Fail
  /\ \/ UNCHANGED <<packages, leftover>>
     \/ AddPackage(b, FALSE) /\ SavedInLoop(b) /\ UNCHANGED leftover
     \/ /\ IF SavedInLoop(b) THEN AddPackage(b, FALSE) ELSE UNCHANGED packages
        /\ leftover' = leftover \union {b}
     \/ AddPackage(b, SavedInLoop(b)) /\ leftover' \in {leftover \union {b}, leftover \ {b}}
  /\ bundleState' = [bundleState EXCEPT ![b] = "Error"]
  /\ thread' = [thread EXCEPT ![c].packing = @ \ {b}]
  /\ UNCHANGED <<queue, toPack, failing, isTimerRunning, commits>>

\* Mistaken variant: a packed bundle version waits in a state of its publications.
EndPackagingQueued(c) ==
  /\ At(c, "package")
  /\ thread[c].packing = {}
  /\ bundleState' = [b \in Bundles |-> IF bundleState[b] = "Packaging" THEN "Queued" ELSE bundleState[b]]
  /\ GoTo(c, "choose")
  /\ UNCHANGED <<disk, queue, isTimerRunning, commits, faults>>

\* All bundle versions of the list without an error become idle.
EndPackaging(c) ==
  /\ At(c, "package")
  /\ thread[c].packing = {}
  /\ bundleState' = [b \in Bundles |-> IF bundleState[b] = "Packaging" THEN "Idle" ELSE bundleState[b]]
  /\ GoTo(c, "choose")
  /\ UNCHANGED <<disk, queue, isTimerRunning, commits, faults>>

-----------------------------------------------------------------------------
(* ScheduleAutoDeployToTest.                                               *)

\* A publication of any package of the bundle version waits for the environment.
QueuedThere(b) ==
  \E p \in Scheduled : /\ BundleOf(p) = b
                       /\ publications[p].environment = AutoDeployTo[b]
                       /\ StateOf(p) = "Queued"

Published(k) == \E p \in Scheduled : publications[p].package = k

\* Mistaken variant: a canceled publication does not count.
ToScheduleCanceled(b) ==
  /\ AutoDeployTo[b] # NoEnvironment
  /\ PackagesOf(b) # {}
  /\ ~QueuedThere(b)
  /\ bundleState[b] = "Idle"
  /\ ~\E p \in Scheduled : publications[p].package = Latest(b) /\ StateOf(p) # "Canceled"

ToSchedule(b) ==
  /\ AutoDeployTo[b] # NoEnvironment
  /\ PackagesOf(b) # {}
  /\ ~QueuedThere(b)
  /\ bundleState[b] = "Idle"
  /\ ~Published(Latest(b))

\* The new rows are decided on from what the query returned ...
ChooseAutomatic(c) ==
  /\ At(c, "choose")
  /\ thread' = [thread EXCEPT ![c].pc = "save", ![c].chosen = {b \in Bundles : ToSchedule(b)}]
  /\ UNCHANGED <<disk, queue, bundleState, isTimerRunning, commits, faults>>

\* ... and saved together, in any order.
SaveAutomatic(c) ==
  /\ At(c, "save")
  /\ LET chosen == thread[c].chosen
         n == Cardinality(chosen)
     IN \E order \in [1 .. n -> chosen] :
          /\ \A b \in chosen : \E i \in 1 .. n : order[i] = b
          /\ publications' = publications \o
               [i \in 1 .. n |-> Queued(Latest(order[i]), AutoDeployTo[order[i]])]
          /\ automatic' = automatic \union {Len(publications) + i : i \in 1 .. n}
  /\ thread' = [thread EXCEPT ![c].pc = "select", ![c].chosen = {}]
  /\ UNCHANGED <<disk, cancelling, bundleState, isTimerRunning, commits, faults>>

-----------------------------------------------------------------------------
(* DeployScheduledPublications.                                            *)

SelectPublications(c) ==
  /\ At(c, "select")
  /\ thread' = [thread EXCEPT ![c].pc = "deploy", ![c].batch = Deployable]
  /\ UNCHANGED <<disk, queue, bundleState, isTimerRunning, commits, faults>>

\* The tick goes on with the publications in rest; a group that is done becomes idle.
Continue(c, rest, groupState) ==
  LET b == thread[c].bundle
      done == \A p \in rest : BundleOf(p) # b
  IN /\ thread' = [thread EXCEPT ![c].pc = "deploy", ![c].batch = rest,
                                 ![c].bundle = IF done THEN NoBundle ELSE b,
                                 ![c].current = NoPublication]
     /\ bundleState' = [bundleState EXCEPT ![b] = IF done THEN groupState ELSE @]

\* Publications are deployed group by group, a group is what belongs to a bundle version.
StartJob(c, p) ==
  /\ At(c, "deploy")
  /\ p \in thread[c].batch
  /\ thread[c].bundle \in {BundleOf(p), NoBundle}
  /\ thread' = [thread EXCEPT ![c].pc = "validate", ![c].batch = @ \ {p},
                              ![c].bundle = BundleOf(p), ![c].current = p]
  /\ bundleState' = [bundleState EXCEPT ![BundleOf(p)] = "Deploying"]
  /\ UNCHANGED <<disk, queue, isTimerRunning, commits, faults>>

\* Mistaken variant: the package file is not looked for, the upload does without.
StartPublicationUnchecked(c) ==
  /\ At(c, "validate")
  /\ publications' = [publications EXCEPT ![thread[c].current].state = "InProgress"]
  /\ GoTo(c, "run")
  /\ UNCHANGED <<disk, cancelling, automatic, bundleState, isTimerRunning, commits, faults>>

\* ValidateDeploymentAgents and ValidatePackage are satisfied.
StartPublication(c) ==
  /\ At(c, "validate")
  /\ HasFile(thread[c].current)
  /\ publications' = [publications EXCEPT ![thread[c].current].state = "InProgress"]
  /\ GoTo(c, "run")
  /\ UNCHANGED <<disk, cancelling, automatic, bundleState, isTimerRunning, commits, faults>>

\* Deploy returns without a word, and the row stays as it is.
LeaveQueued(c) ==
  /\ At(c, "validate")
  /\ IF HasFile(thread[c].current) THEN Fail ELSE UNCHANGED faults
  /\ Continue(c, thread[c].batch, "Idle")
  /\ UNCHANGED <<disk, queue, isTimerRunning, commits>>

FinishPublication(c, result) ==
  /\ At(c, "run")
  /\ IF result = "Error" THEN Fail ELSE UNCHANGED faults
  /\ publications' = [publications EXCEPT ![thread[c].current].state = result]
  /\ Continue(c, thread[c].batch, "Idle")
  /\ UNCHANGED <<disk, cancelling, automatic, isTimerRunning, commits>>

\* An exception leaves Deploy: the rest of the group is not deployed in this tick.
DeployThrows(c) ==
  /\ thread[c].pc \in {"validate", "run"}
  /\ Fail
  /\ Continue(c, {p \in thread[c].batch : BundleOf(p) # thread[c].bundle}, "Error")
  /\ UNCHANGED <<disk, queue, isTimerRunning, commits>>

\* The rows and the files remain, the memory does not.
RestartServer ==
  /\ Fail
  /\ cancelling' = {}
  /\ bundleState' = [b \in Bundles |-> "Idle"]
  /\ isTimerRunning' = FALSE
  /\ thread' = [c \in Callbacks |-> Off]
  /\ UNCHANGED <<disk, publications, automatic, commits>>

-----------------------------------------------------------------------------
Tick(c) ==
  \/ CallbackArrives(c)
  \/ StartTick(c)
  \/ BeginPackaging(c)
  \/ \E b \in Bundles : PackBundle(c, b) \/ PackBundleFails(c, b)
  \/ EndPackaging(c)
  \/ ChooseAutomatic(c)
  \/ SaveAutomatic(c)
  \/ SelectPublications(c)
  \/ \E p \in Scheduled : StartJob(c, p)
  \/ StartPublication(c)
  \/ LeaveQueued(c)
  \/ \E result \in {"Complete", "Error"} : FinishPublication(c, result)
  \/ DeployThrows(c)
  \/ EndTick(c)

Next ==
  \/ \E c \in Callbacks : Tick(c)
  \/ \E b \in Bundles : Commit(b) \/ CommitFailing(b)
  \/ \E k \in DOMAIN packages, e \in Environments : SchedulePublication(k, e)
  \/ \E p \in Scheduled : ReadForCancel(p) \/ SaveCanceled(p)
  \/ RestartServer

Spec == Init /\ [][Next]_vars

\* The timer fires every ten seconds for as long as the site runs.
FairSpec == Spec /\ WF_vars(\E c \in Callbacks : Tick(c))

-----------------------------------------------------------------------------
(* Properties.                                                             *)

PublicationStates == {"Queued", "InProgress", "Complete", "Error", "Canceled"}

BundleStates == {"Idle", "Packaging", "Deploying", "Error"}

Stages == {"off", "tested", "build", "package", "choose", "save", "select", "deploy", "validate",
           "run"}

TypeOK ==
  /\ packages \in Seq([bundle : Bundles, file : BOOLEAN])
  /\ publications \in Seq([package : DOMAIN packages, environment : Environments,
                           state : PublicationStates])
  /\ cancelling \subseteq Scheduled
  /\ toPack \subseteq Bundles
  /\ leftover \subseteq Bundles
  /\ failing \subseteq Bundles
  /\ bundleState \in [Bundles -> BundleStates]
  /\ isTimerRunning \in BOOLEAN
  /\ thread \in [Callbacks ->
       [pc : Stages, packing : SUBSET Bundles, chosen : SUBSET Bundles,
        batch : SUBSET Scheduled, bundle : Bundles \union {NoBundle},
        current : Scheduled \union {NoPublication}]]
  /\ automatic \subseteq Scheduled
  /\ commits \in 0 .. MaxCommits
  /\ faults \in 0 .. MaxFaults

\* What the callbacks together hold of the queue.
Selected ==
  (UNION {thread[c].batch : c \in Callbacks}) \union
  {thread[c].current : c \in {d \in Callbacks : At(d, "validate")}}

Running ==
  IF \E c \in Callbacks : At(c, "run")
  THEN thread[CHOOSE c \in Callbacks : At(c, "run")].current
  ELSE NoPublication

PublicationQueue == INSTANCE PublicationQueue WITH
  Packages <- Nat, selected <- Selected, running <- Running

\* As long as no callback comes between the test and the setting of the flag (assumed in
\* CallbackArrives), the callbacks keep the contract of the queue, which is one for a single
\* thread: scheduling, packaging, cancellations and restarts in the same ticks included.
ImplementsQueue == PublicationQueue!Spec

\* No package is scheduled automatically twice, whether its publication failed, is
\* canceled, was left in progress by a restart, or is just being selected.
OneAutomaticEach ==
  \A p, q \in automatic : publications[p].package = publications[q].package => p = q

\* Automatic publications go out in the order of their packages: a later one of a bundle
\* version is never for an older package (a package's number is its place in the order of
\* CreatedDate), though packages fail, are left out and are published by users in between;
\* and when it is scheduled, the earlier one is not waiting and not in the list of the tick.
AutomaticInOrder ==
  \A p, q \in automatic :
    p < q /\ BundleOf(p) = BundleOf(q) =>
      /\ publications[p].package <= publications[q].package
      /\ StateOf(p) # "Queued" /\ p \notin Selected

\* A package that was not finished, or whose file has the name of another, never reaches a
\* machine, also by the publication of a user or one canceled too late.
NothingWithoutFile ==
  \A p \in Scheduled : StateOf(p) \in {"InProgress", "Complete", "Error"} => HasFile(p)

Unpublished(b) == PackagesOf(b) # {} /\ ~Published(Latest(b))

Superseded(p) == \E q \in Scheduled : Supersedes(q, p)

\* What stops automatic deployment for good: a queued publication that is never deployed
\* because it is superseded or has no file, or a project that does not compile.
Blocked(b) ==
  \/ b \in failing
  \/ \E p \in Scheduled : /\ BundleOf(p) = b
                          /\ publications[p].environment = AutoDeployTo[b]
                          /\ StateOf(p) = "Queued"
                          /\ Superseded(p) \/ ~HasFile(p)

\* The bundle versions that are deployed automatically.
Automatic == {b \in Bundles : AutoDeployTo[b] # NoEnvironment}

\* Commits and faults coming to an end, the latest package of a bundle version with
\* automatic deployment is published, unless one of the causes in Blocked stops it.
DeployedUnlessBlocked ==
  \A b \in Automatic : <>[](Unpublished(b) => Blocked(b))

\* What the list of bundle versions says, "Auto deploy to" an environment: the latest
\* package is published in the end.
AutoDeployed == \A b \in Automatic : <>[]~Unpublished(b)
=============================================================================
