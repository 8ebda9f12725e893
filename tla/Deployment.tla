----------------------------- MODULE Deployment -----------------------------
(***************************************************************************)
(* The deployment of scheduled publications: users schedule and cancel     *)
(* publications in the database, the timer thread of the task runner picks *)
(* the queued ones up and DeploymentManager drives the satellites of their *)
(* machines call by call.  A satellite is the contract of module           *)
(* SatelliteSession, which module Satellite implements.  Calls can get     *)
(* lost with or without having been executed, satellites and the server    *)
(* can stop between any two steps; the rows of the database survive.       *)
(***************************************************************************)
EXTENDS SatelliteCalls, FiniteSets

CONSTANTS
  Packages,
  Environments,
  Machines,
  Steps,
  TestSteps,          \* steps of type RunVsTests: run on the server, not on a satellite
  StopOnFailure,      \* test steps configured to stop a deployment that fails them
  BundleVersions,
  BundleOf,           \* [Packages -> BundleVersions]
  MachinesOf,         \* [Environments -> SUBSET Machines]
  MachineSteps,       \* [BundleVersions -> [Machines -> Seq(Steps)]], in OrderIndex order
  NoMachine,
  NoBundle,
  MaxPublications,    \* bound on the publications scheduled
  MaxFaults           \* bound on failed calls, failed operations and restarts

ASSUME DeploymentAssumption ==
  /\ TestSteps \subseteq Steps
  /\ StopOnFailure \subseteq TestSteps
  /\ MachinesOf \in [Environments -> SUBSET Machines]
  /\ BundleOf \in [Packages -> BundleVersions]
  /\ MachineSteps \in [BundleVersions -> [Machines -> Seq(Steps)]]
  /\ NoMachine \notin Machines
  /\ MaxPublications \in Nat
  /\ MaxFaults \in Nat

VARIABLES
  publications,         \* the table Publication, in the order of CreatedDate
  machinePublications,  \* the table MachinePublication: a state per publication and machine
  cancelling,           \* publications a web request has read as queued, to cancel them
  pc,                   \* what the timer thread does next
  batch,                \* publications of this tick still to deploy
  bundle,               \* bundle version whose group is being deployed
  current,              \* publication being deployed, 0 when there is none
  remaining,            \* machines the running loop over the agents has still to visit
  machine,              \* machine being deployed to
  at,                   \* steps the running loop over the steps has passed
  sat,                  \* the session of every satellite
  channel,              \* the channel of the agent to every satellite
  work,                 \* history: operations of a publication executed and not undone
  orphans,              \* history: <<publication, machine>> whose undo log a restart lost
  failedTests,          \* history: <<publication, step>> with a failed test
  faults                \* faults so far

database == <<publications, machinePublications>>
deployer == <<pc, batch, bundle, current, remaining, machine, at>>
satellites == <<sat, channel, work, orphans, faults>>
vars == <<database, cancelling, deployer, satellites, failedTests>>

-----------------------------------------------------------------------------
Ids == 1 .. MaxPublications

PublicationStates == {"Queued", "InProgress", "Complete", "Error", "Canceled"}

MachineStates ==
  {"None", "Undefined", "Queued", "Uploading", "Configuring", "Running", "Complete", "Error"}

Scheduled == 1 .. Len(publications)

PackageOf(p) == publications[p].package

BundleVersionOf(p) == BundleOf[PackageOf(p)]

StateOf(p) == publications[p].state

\* GetMachineDeploymentSteps: the steps of the bundle version for a role of the machine.
StepsOf(p, m) == MachineSteps[BundleVersionOf(p)][m]

\* GetAffectedMachines: the machines of the environment with at least one step.
Affected(p) == {m \in MachinesOf[publications[p].environment] : StepsOf(p, m) # << >>}

\* p2 was scheduled after p for the same package and environment.
Supersedes(p2, p) ==
  /\ p2 > p
  /\ PackageOf(p2) = PackageOf(p)
  /\ publications[p2].environment = publications[p].environment

\* Mistaken variant: a canceled publication is selected like a queued one.
DeployableCanceled ==
  {p \in Scheduled : StateOf(p) \in {"Queued", "Canceled"} /\ ~\E p2 \in Scheduled : Supersedes(p2, p)}

\* The query of DeployScheduledPublications.
Deployable ==
  {p \in Scheduled : StateOf(p) = "Queued" /\ ~\E p2 \in Scheduled : Supersedes(p2, p)}

Init ==
  /\ publications = << >>
  /\ machinePublications = [p \in Ids |-> [m \in Machines |-> "None"]]
  /\ cancelling = {}
  /\ pc = "idle"
  /\ batch = {}
  /\ bundle = NoBundle
  /\ current = 0
  /\ remaining = {}
  /\ machine = NoMachine
  /\ at = 0
  /\ sat = [m \in Machines |-> FreshSession]
  /\ channel = [m \in Machines |-> "new"]
  /\ work = [p \in Ids \union {0} |-> [m \in Machines |-> << >>]]
  /\ orphans = {}
  /\ failedTests = {}
  /\ faults = 0

-----------------------------------------------------------------------------
(* A call to a satellite.                                                  *)

\* What a result changes on the machine: one more operation, or all of them undone.
WorkAfter(m, s, r) ==
  IF r.session.next > s.next
  THEN [work EXCEPT ![s.active][m] = Append(@, s.queue[s.next + 1])]
  ELSE IF r.session # s /\ r.session = RolledBack(s)
  THEN [work EXCEPT ![s.active][m] = << >>]
  ELSE work

Answered(answer) == answer \in {"true", "none"}

\* The call is executed and its answer arrives or is lost, or it never arrives; over a
\* channel whose satellite has restarted since, it always faults unexecuted, because the
\* security session of the channel is gone.
Calls(m, results, answer) ==
  /\ \/ /\ channel[m] # "broken"
        /\ \E r \in results :
             /\ answer \in {r.answer, "fault"}
             /\ sat' = [sat EXCEPT ![m] = r.session]
             /\ work' = WorkAfter(m, sat[m], r)
        /\ faults' = IF Answered(answer) THEN faults ELSE faults + 1
     \/ /\ answer = "fault"
        /\ UNCHANGED <<sat, work>>
        /\ faults' = IF channel[m] = "broken" THEN faults ELSE faults + 1
  /\ faults' <= MaxFaults
  /\ channel' = [channel EXCEPT ![m] = IF @ = "new" THEN "open" ELSE @]
  /\ UNCHANGED orphans

-----------------------------------------------------------------------------
(* Users of the web site.                                                  *)

SchedulePublication(package, environment) ==
  /\ Len(publications) < MaxPublications
  /\ publications' = Append(publications,
       [package |-> package, environment |-> environment, state |-> "Queued"])
  /\ UNCHANGED <<machinePublications, cancelling, deployer, satellites, failedTests>>

\* Cancel reads the latest publication of a package on an environment ...
ReadForCancel(p) ==
  /\ StateOf(p) = "Queued"
  /\ ~\E p2 \in Scheduled : Supersedes(p2, p)
  /\ cancelling' = cancelling \union {p}
  /\ UNCHANGED <<database, deployer, satellites, failedTests>>

\* ... and saves its new state over whatever state the row has by then.
SaveCanceled(p) ==
  /\ p \in cancelling
  /\ publications' = [publications EXCEPT ![p].state = "Canceled"]
  /\ cancelling' = cancelling \ {p}
  /\ UNCHANGED <<machinePublications, deployer, satellites, failedTests>>

-----------------------------------------------------------------------------
(* The timer thread: DeployScheduledPublications and DeploymentManager.Deploy. *)

SelectPublications ==
  /\ pc = "idle"
  /\ Deployable # {}
  /\ batch' = Deployable
  /\ pc' = "batch"
  /\ UNCHANGED <<database, cancelling, bundle, current, remaining, machine, at, satellites,
                 failedTests>>

\* Deploy returns, and the tick goes on with the publications left in rest.
EndJob(rest) ==
  /\ batch' = rest
  /\ pc' = IF rest = {} THEN "idle" ELSE "batch"
  /\ bundle' = IF rest = {} THEN NoBundle ELSE bundle
  /\ current' = 0
  /\ remaining' = {}
  /\ machine' = NoMachine
  /\ at' = 0

\* Deploy throws: the publications left in the group are not deployed in this tick.
AbandonGroup == EndJob({p \in batch : BundleVersionOf(p) # bundle})

SetPublication(state) ==
  publications' = [publications EXCEPT ![current].state = state]

SetMachine(m, state) ==
  machinePublications' = [machinePublications EXCEPT ![current][m] = state]

\* Publications are grouped by bundle version.  The job loads the publication whatever
\* its state is by now, creates its agents and the missing machine publications.
StartJob(p) ==
  /\ pc = "batch"
  /\ p \in batch
  /\ BundleVersionOf(p) = bundle \/ \A q \in batch : BundleVersionOf(q) # bundle
  /\ batch' = batch \ {p}
  /\ bundle' = BundleVersionOf(p)
  /\ current' = p
  /\ remaining' = Affected(p)
  /\ machinePublications' = [machinePublications EXCEPT ![p] =
       [m \in Machines |-> IF m \in Affected(p) /\ @[m] = "None" THEN "Undefined" ELSE @[m]]]
  /\ channel' = [m \in Machines |-> "new"]
  /\ pc' = "validate"
  /\ UNCHANGED <<publications, cancelling, machine, at, sat, work, orphans, faults, failedTests>>

\* Mistaken variant: the agents are only asked whether they are ready.
RollBackAgentSkipped(m) ==
  /\ pc = "validate"
  /\ m \in remaining
  /\ machine' = m
  /\ pc' = "validateReady"
  /\ UNCHANGED <<database, cancelling, batch, bundle, current, remaining, at, satellites,
                 failedTests>>

\* Mistaken variant: the satellite is freed by Complete, which undoes nothing.
RollBackAgentCompletes(m) ==
  /\ pc = "validate"
  /\ m \in remaining
  /\ \E answer \in {"true", "fault"} :
       /\ Calls(m, CompleteResults(sat[m]), answer)
       /\ IF answer = "true"
          THEN /\ machine' = m
               /\ pc' = "validateReady"
               /\ UNCHANGED <<batch, bundle, current, remaining, at>>
          ELSE EndJob(batch)
  /\ UNCHANGED <<database, cancelling, failedTests>>

\* ValidateDeploymentAgents rolls every satellite back before anything else: what an
\* earlier deployment left behind on it is undone here.
RollBackAgent(m) ==
  /\ pc = "validate"
  /\ m \in remaining
  /\ \E answer \in {"true", "fault"} :
       /\ Calls(m, RollbackResults(sat[m]), answer)
       /\ IF answer = "true"
          THEN /\ machine' = m
               /\ pc' = "validateReady"
               /\ UNCHANGED <<batch, bundle, current, remaining, at>>
          ELSE EndJob(batch)
  /\ UNCHANGED <<database, cancelling, failedTests>>

ValidateReady ==
  /\ pc = "validateReady"
  /\ \E answer \in {"true", "false", "fault"} :
       /\ Calls(machine, IsReadyResults(sat[machine]), answer)
       /\ IF answer = "true"
          THEN /\ remaining' = remaining \ {machine}
               /\ machine' = NoMachine
               /\ pc' = "validate"
               /\ UNCHANGED <<batch, bundle, current, at>>
          ELSE EndJob(batch)
  /\ UNCHANGED <<database, cancelling, failedTests>>

\* A missing package file leaves the publication queued, like an agent that is not valid.
PackageMissing ==
  /\ pc = "validate"
  /\ remaining = {}
  /\ faults < MaxFaults
  /\ faults' = faults + 1
  /\ EndJob(batch)
  /\ UNCHANGED <<database, cancelling, sat, channel, work, orphans, failedTests>>

StartPublication ==
  /\ pc = "validate"
  /\ remaining = {}
  /\ SetPublication("InProgress")
  /\ machinePublications' = [machinePublications EXCEPT ![current] =
       [m \in Machines |-> IF m \in Affected(current) THEN "Queued" ELSE @[m]]]
  /\ remaining' = Affected(current)
  /\ pc' = "machine"
  /\ UNCHANGED <<cancelling, batch, bundle, current, machine, at, satellites, failedTests>>

\* IsReady is called outside the try block: a fault leaves the publication in progress.
CheckMachine(m) ==
  /\ pc = "machine"
  /\ m \in remaining
  /\ \E answer \in {"true", "false", "fault"} :
       /\ Calls(m, IsReadyResults(sat[m]), answer)
       /\ CASE answer = "true" ->
                 /\ machine' = m
                 /\ pc' = "begin"
                 /\ UNCHANGED <<publications, batch, bundle, current, remaining, at>>
            [] answer = "false" -> SetPublication("Error") /\ EndJob(batch)
            [] answer = "fault" -> UNCHANGED publications /\ AbandonGroup
  /\ UNCHANGED <<machinePublications, cancelling, failedTests>>

\* Mistaken variant: the machine is canceled, a state the manager never uses.
FailMachineCanceled ==
  /\ SetMachine(machine, "Canceled")
  /\ SetPublication("Error")
  /\ EndJob(batch)

\* Mistaken variant: only the publication gets its new state.
FailMachineForgotten ==
  /\ SetPublication("Error")
  /\ EndJob(batch)
  /\ UNCHANGED machinePublications

\* The catch block; it does not roll the satellite back.
FailMachine ==
  /\ SetMachine(machine, "Error")
  /\ SetPublication("Error")
  /\ EndJob(batch)

Proceed(next) ==
  /\ pc' = next
  /\ UNCHANGED <<publications, batch, bundle, current, remaining, machine>>

\* The answer of BeginPublication is not looked at.
BeginPublication ==
  /\ pc = "begin"
  /\ \E answer \in {"true", "false", "fault"} :
       /\ Calls(machine, BeginPublicationResults(sat[machine], current), answer)
       /\ IF answer = "fault"
          THEN FailMachine
          ELSE Proceed("reset") /\ UNCHANGED <<at, machinePublications>>
  /\ UNCHANGED <<cancelling, failedTests>>

ResetPackage ==
  /\ pc = "reset"
  /\ \E answer \in {"none", "fault"} :
       /\ Calls(machine, TransferResults(sat[machine]), answer)
       /\ IF answer = "fault"
          THEN FailMachine
          ELSE /\ Proceed("upload")
               /\ SetMachine(machine, "Uploading")
               /\ UNCHANGED at
  /\ UNCHANGED <<cancelling, failedTests>>

\* All the buffers of the package; the first fault ends the upload.
UploadPackage ==
  /\ pc = "upload"
  /\ \E answer \in {"none", "fault"} :
       /\ Calls(machine, TransferResults(sat[machine]), answer)
       /\ IF answer = "fault"
          THEN FailMachine
          ELSE /\ Proceed("configure")
               /\ SetMachine(machine, "Configuring")
               /\ at' = 0
  /\ UNCHANGED <<cancelling, failedTests>>

CurrentSteps == StepsOf(current, machine)

NextStep == CurrentSteps[at + 1]

\* Mistaken variant: a call that faulted is repeated.
ConfigureStepRepeated ==
  /\ pc = "configure"
  /\ at < Len(CurrentSteps)
  /\ NextStep \notin TestSteps
  /\ \E answer \in {"none", "fault"} :
       /\ Calls(machine, EnqueueResults(sat[machine], NextStep), answer)
       /\ at' = IF answer = "fault" THEN at ELSE at + 1
       /\ Proceed("configure")
       /\ UNCHANGED machinePublications
  /\ UNCHANGED <<cancelling, failedTests>>

ConfigureStep ==
  /\ pc = "configure"
  /\ at < Len(CurrentSteps)
  /\ NextStep \notin TestSteps
  /\ \E answer \in {"none", "fault"} :
       /\ Calls(machine, EnqueueResults(sat[machine], NextStep), answer)
       /\ IF answer = "fault"
          THEN FailMachine
          ELSE Proceed("configure") /\ at' = at + 1 /\ UNCHANGED machinePublications
  /\ UNCHANGED <<cancelling, failedTests>>

SkipTestStep ==
  /\ pc = "configure"
  /\ at < Len(CurrentSteps)
  /\ NextStep \in TestSteps
  /\ Proceed("configure")
  /\ at' = at + 1
  /\ UNCHANGED <<machinePublications, cancelling, satellites, failedTests>>

StartRunning ==
  /\ pc = "configure"
  /\ at = Len(CurrentSteps)
  /\ SetMachine(machine, "Running")
  /\ Proceed("run")
  /\ at' = 0
  /\ UNCHANGED <<cancelling, satellites, failedTests>>

\* Mistaken variant: only an exception counts as a failure, the answer does not.
ExecuteStepUnchecked ==
  /\ pc = "run"
  /\ at < Len(CurrentSteps)
  /\ NextStep \notin TestSteps
  /\ \E answer \in {"true", "false", "fault"} :
       /\ Calls(machine, ExecuteResults(sat[machine]), answer)
       /\ IF answer # "fault"
          THEN Proceed("run") /\ at' = at + 1 /\ UNCHANGED machinePublications
          ELSE FailMachine
  /\ UNCHANGED <<cancelling, failedTests>>

\* ExecuteNextOperation names no step: which one runs is the satellite's own index.
ExecuteStep ==
  /\ pc = "run"
  /\ at < Len(CurrentSteps)
  /\ NextStep \notin TestSteps
  /\ \E answer \in {"true", "false", "fault"} :
       /\ Calls(machine, ExecuteResults(sat[machine]), answer)
       /\ IF answer = "true"
          THEN Proceed("run") /\ at' = at + 1 /\ UNCHANGED machinePublications
          ELSE FailMachine
  /\ UNCHANGED <<cancelling, failedTests>>

\* Failed tests are logged and the loop goes on, whatever the step's StopOnFailure says.
RunTests(passed) ==
  /\ pc = "run"
  /\ at < Len(CurrentSteps)
  /\ NextStep \in TestSteps
  /\ failedTests' = IF passed THEN failedTests ELSE failedTests \union {<<current, NextStep>>}
  /\ Proceed("run")
  /\ at' = at + 1
  /\ UNCHANGED <<machinePublications, cancelling, satellites>>

\* The test runner throws, or its project is gone from the bundle version.
TestRunThrows ==
  /\ pc = "run"
  /\ at < Len(CurrentSteps)
  /\ NextStep \in TestSteps
  /\ faults < MaxFaults
  /\ faults' = faults + 1
  /\ FailMachine
  /\ UNCHANGED <<cancelling, sat, channel, work, orphans, failedTests>>

CompleteMachine ==
  /\ pc = "run"
  /\ at = Len(CurrentSteps)
  /\ \E answer \in {"true", "fault"} :
       /\ Calls(machine, CompleteResults(sat[machine]), answer)
       /\ IF answer = "fault"
          THEN FailMachine
          ELSE /\ SetMachine(machine, "Complete")
               /\ remaining' = remaining \ {machine}
               /\ machine' = NoMachine
               /\ at' = 0
               /\ pc' = "machine"
               /\ UNCHANGED <<publications, batch, bundle, current>>
  /\ UNCHANGED <<cancelling, failedTests>>

FinishPublication ==
  /\ pc = "machine"
  /\ remaining = {}
  /\ SetPublication("Complete")
  /\ EndJob(batch)
  /\ UNCHANGED <<machinePublications, cancelling, satellites, failedTests>>

-----------------------------------------------------------------------------
(* Restarts.                                                               *)

RestartSatellite(m) ==
  /\ faults < MaxFaults
  /\ faults' = faults + 1
  /\ sat' = [sat EXCEPT ![m] = FreshSession]
  /\ channel' = [channel EXCEPT ![m] = IF @ = "open" THEN "broken" ELSE @]
  /\ orphans' = IF sat[m].active = 0 THEN orphans ELSE orphans \union {<<sat[m].active, m>>}
  /\ UNCHANGED <<database, cancelling, deployer, work, failedTests>>

\* Mistaken variant: what was in progress is queued again after a restart.
RestartServerRequeues ==
  /\ faults < MaxFaults
  /\ faults' = faults + 1
  /\ pc' = "idle"
  /\ batch' = {}
  /\ bundle' = NoBundle
  /\ current' = 0
  /\ remaining' = {}
  /\ machine' = NoMachine
  /\ at' = 0
  /\ cancelling' = {}
  /\ publications' = [p \in Scheduled |->
       IF StateOf(p) = "InProgress" THEN [publications[p] EXCEPT !.state = "Queued"]
       ELSE publications[p]]
  /\ UNCHANGED <<machinePublications, sat, channel, work, orphans, failedTests>>

\* The timer thread and the web requests of the server stop where they are.
RestartServer ==
  /\ faults < MaxFaults
  /\ faults' = faults + 1
  /\ pc' = "idle"
  /\ batch' = {}
  /\ bundle' = NoBundle
  /\ current' = 0
  /\ remaining' = {}
  /\ machine' = NoMachine
  /\ at' = 0
  /\ cancelling' = {}
  /\ UNCHANGED <<database, sat, channel, work, orphans, failedTests>>

DeployerNext ==
  \/ SelectPublications
  \/ \E p \in Ids : StartJob(p)
  \/ \E m \in Machines : RollBackAgent(m) \/ CheckMachine(m)
  \/ ValidateReady
  \/ PackageMissing
  \/ StartPublication
  \/ BeginPublication
  \/ ResetPackage
  \/ UploadPackage
  \/ ConfigureStep
  \/ SkipTestStep
  \/ StartRunning
  \/ ExecuteStep
  \/ \E passed \in BOOLEAN : RunTests(passed)
  \/ TestRunThrows
  \/ CompleteMachine
  \/ FinishPublication

Next ==
  \/ DeployerNext
  \/ \E package \in Packages, environment \in Environments :
       SchedulePublication(package, environment)
  \/ \E p \in Scheduled : ReadForCancel(p) \/ SaveCanceled(p)
  \/ \E m \in Machines : RestartSatellite(m)
  \/ RestartServer

Spec == Init /\ [][Next]_vars

\* The timer fires every ten seconds for as long as the site runs, and a tick that has
\* begun is a thread that runs on.
FairSpec == Spec /\ WF_vars(DeployerNext)

-----------------------------------------------------------------------------
(* Properties.                                                             *)

Publication == [package : Packages, environment : Environments, state : PublicationStates]

Operation == [step : Steps, package : Ids \union {0}]

TypeOK ==
  /\ publications \in Seq(Publication)
  /\ Len(publications) <= MaxPublications
  /\ machinePublications \in [Ids -> [Machines -> MachineStates]]
  /\ cancelling \subseteq Scheduled
  /\ pc \in {"idle", "batch", "validate", "validateReady", "machine", "begin", "reset",
             "upload", "configure", "run"}
  /\ batch \subseteq Scheduled
  /\ bundle \in BundleVersions \union {NoBundle}
  /\ current \in Scheduled \union {0}
  /\ remaining \subseteq Machines
  /\ machine \in Machines \union {NoMachine}
  /\ at \in Nat
  /\ sat \in [Machines -> Sessions(Ids, Steps)]
  /\ channel \in [Machines -> {"new", "open", "broken"}]
  /\ work \in [Ids \union {0} -> [Machines -> Seq(Operation)]]
  /\ orphans \subseteq (Ids \X Machines)
  /\ failedTests \subseteq (Ids \X Steps)
  /\ faults \in 0 .. MaxFaults

\* The work of a publication after each number of its steps: every step but a test is an
\* operation of a satellite, with the package of the publication.
WorkUpTo(steps, p) ==
  LET done[i \in 0 .. Len(steps)] ==
        IF i = 0 THEN << >>
        ELSE IF steps[i] \in TestSteps THEN done[i - 1]
        ELSE Append(done[i - 1], [step |-> steps[i], package |-> p])
  IN done

\* What deploying p completely means on m: its own steps, from its own package, in order.
FullWork(p, m) == WorkUpTo(StepsOf(p, m), p)[Len(StepsOf(p, m))]

\* A publication is reported complete only if every machine concerned has executed all
\* its operations, in order and from the package of the publication, and no later rollback
\* of a satellite undoes any of them, whichever answers were lost and whatever restarted
\* in between (DeploymentManager.Deploy, ValidateDeploymentAgents, DeploymentService).
CompleteMeansDeployed ==
  \A p \in Scheduled : StateOf(p) = "Complete" =>
    \A m \in Affected(p) : work[p][m] = FullWork(p, m)

\* No machine ever executes a step of a publication twice, skips one, runs it before the
\* steps it follows, or runs it from another publication's package: at any moment what is
\* executed and not undone is a beginning of the full work, a failed deployment included.
StepsInOrder ==
  \A p \in Scheduled : \A m \in Machines :
    LET done == work[p][m] IN
      done # << >> =>
        /\ m \in Affected(p)
        /\ Len(done) <= Len(FullWork(p, m))
        /\ done = SubSeq(FullWork(p, m), 1, Len(done))

\* While a publication is run on a machine, everything another publication has left on
\* that machine is a full deployment: a broken off one has been undone before, unless the
\* satellite lost its undo log in a restart (ValidateDeploymentAgents is the only call of
\* Rollback, the one in the catch block of Deploy is commented out).
NoMixedDeployments ==
  pc \in {"reset", "upload", "configure", "run"} =>
    \A q \in Scheduled \ {current} :
      \/ work[q][machine] \in {<< >>, FullWork(q, machine)}
      \/ <<q, machine>> \in orphans

ActiveMachineStates == {"Uploading", "Configuring", "Running"}

\* The state of a publication and those of its machines agree, at every stop of the server
\* and for every cancellation that comes too late: a complete one has complete machines
\* only, and one that ended in an error has no machine left that seems to be at work.
MachinesAgree ==
  \A p \in Scheduled :
    LET states == {machinePublications[p][m] : m \in Affected(p)} IN
      /\ StateOf(p) = "Complete" => states \subseteq {"Complete"}
      /\ StateOf(p) = "Error" => "Error" \in states /\ states \intersect ActiveMachineStates = {}
      /\ StateOf(p) = "Queued" => states \subseteq {"None", "Undefined"}
      /\ Cardinality({m \in Affected(p) : machinePublications[p][m] \in ActiveMachineStates}) <= 1

\* The order in which a machine publication goes through its states.
Stage(state) ==
  CASE state = "None" -> 0
    [] state = "Undefined" -> 1
    [] state = "Queued" -> 2
    [] state = "Uploading" -> 3
    [] state = "Configuring" -> 4
    [] state = "Running" -> 5
    [] OTHER -> 6

\* A machine publication never goes back and never leaves its last state: no publication
\* is run on a machine a second time, also when the tick that ran it was cut off by a
\* restart or its cancellation was saved while it ran.
NoSecondRun ==
  [][\A p \in Ids : \A m \in Machines :
       LET before == machinePublications[p][m]
           after == machinePublications'[p][m] IN
         after = before \/ Stage(before) < Stage(after)]_vars

\* What the tick holds of the queue, and the publication it is running.
Selected == batch \union IF pc \in {"validate", "validateReady"} THEN {current} ELSE {}

Running ==
  IF pc \in {"machine", "begin", "reset", "upload", "configure", "run"} THEN current ELSE 0

Queue == INSTANCE PublicationQueue WITH selected <- Selected, running <- Running

\* Whatever happens on the machines and to the calls, the table Publication keeps the
\* contract of the queue: it is changed for the publication in progress only, which was
\* selected as queued by this tick, and what is skipped stays for the next tick.  So the
\* selection, old by the time it is used, never lets an older publication run after a newer
\* one (QueueNoStaleStart).
ImplementsQueue == Queue!Spec

Canceled(p) == p \in Scheduled /\ StateOf(p) = "Canceled"

CanceledAndFree(p) == Canceled(p) /\ p \notin batch \union {current}

\* A publication found canceled while the timer thread does not hold it stays canceled for
\* good: only one that the thread has selected already can be deployed against its
\* cancellation (PackagesController.Cancel, DeployScheduledPublications, Deploy).
CancelHonoured ==
  \A p \in Ids : [](CanceledAndFree(p) => []Canceled(p))

\* Faults coming to an end, the latest publication of a package on an environment does not
\* wait for ever: it is started, canceled or superseded by a newer one.  A satellite that
\* an aborted deployment left busy does not block it.
LatestIsServed == \A p \in Ids : (p \in Deployable) ~> (p \notin Deployable)

\* What the page of a bundle version calls "Stop on failure": a publication whose tests
\* failed in such a step is not completed.
StopsOnFailure ==
  \A p \in Scheduled : StateOf(p) = "Complete" =>
    \A step \in StopOnFailure : <<p, step>> \notin failedTests
=============================================================================
