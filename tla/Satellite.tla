----------------------------- MODULE Satellite -----------------------------
(***************************************************************************)
(* The deployment service of a satellite (SatelliteService): the singleton *)
(* that receives a package, queues operations, runs them one by one and    *)
(* keeps a log of the completed ones to undo them.  WCF serialises the     *)
(* calls; an undo is a loop over the log that may throw in its middle, so  *)
(* it is modelled one operation at a time.  The caller is unconstrained:   *)
(* deployments that overlap, restart or lose an answer can issue any       *)
(* order of calls, and the service checks the order nowhere.               *)
(***************************************************************************)
EXTENDS Naturals, Sequences

CONSTANTS
  PublicationIds,   \* ids the server passes to BeginPublication
  Targets,          \* directories, files and databases of the machine
  Steps,            \* configured steps: [kind, target]
  Absent,           \* content of a target that does not exist
  Original,         \* content of a target before any deployment
  NoBackup,         \* backup of an operation that stored none
  MaxOperations     \* bound on the length of the operation queue

OperationKinds ==
  {"DeployWebSite", "Configuration", "CopyFilesReplace", "CopyFilesAppend",
   "UpdateHostsFile", "RunSQLScript", "DeployDacpac"}

\* A target holds what a publication wrote into it last.
Contents == {Absent, Original} \union PublicationIds \union {0}

ASSUME SatelliteAssumption ==
  /\ PublicationIds \subseteq Nat \ {0}
  /\ Steps \subseteq [kind : OperationKinds, target : Targets]
  /\ NoBackup \notin Contents
  /\ MaxOperations \in Nat

VARIABLES
  activePublicationId,
  queuedOperations,     \* Seq of [step, package]
  nextOperationIndex,
  completedOperations,  \* Seq of [step, backup, wasDamaged]: the undo log
  lastException,        \* "null", or "exception" after a failed operation
  packages,             \* publications whose package file exists
  content,              \* the version last laid down completely in each target
  damaged,              \* targets half overwritten since
  pc,                   \* "idle", or "undo" while the undo loop runs
  undoing,              \* log entries the running undo loop has left
  caller,               \* method whose call the undo loop will answer
  answer,               \* how the last call ended
  baseContent,          \* history: content when the log was last emptied
  baseDamaged,          \* history: damaged when the log was last emptied
  unprotected           \* history: targets changed since then in a way the log misses

memory == <<activePublicationId, queuedOperations, nextOperationIndex,
            completedOperations, lastException>>
machine == <<packages, content, damaged>>
loop == <<pc, undoing, caller>>
history == <<baseContent, baseDamaged, unprotected>>
vars == <<memory, machine, loop, answer, history>>

-----------------------------------------------------------------------------
Operations == [step : Steps, package : PublicationIds \union {0}]

LogEntries == [step : Steps, backup : Contents \union {NoBackup}, wasDamaged : BOOLEAN]

Answers == {"none", "true", "false", "fault"}

\* A satellite process: its memory is lost in a restart, the machine is not.
Init ==
  /\ activePublicationId = 0
  /\ queuedOperations = << >>
  /\ nextOperationIndex = 0
  /\ completedOperations = << >>
  /\ lastException = "null"
  /\ packages = {}
  /\ content \in [Targets -> {Absent, Original}]
  /\ damaged = {}
  /\ pc = "idle"
  /\ undoing = 0
  /\ caller = "Rollback"
  /\ answer = "none"
  /\ baseContent = content
  /\ baseDamaged = damaged
  /\ unprotected = {}

-----------------------------------------------------------------------------
(* The operations.                                                         *)

\* BeginPublication, Complete, a finished Rollback and a restart empty the undo log for good.
ForgetLog ==
  /\ completedOperations' = << >>
  /\ baseContent' = content'
  /\ baseDamaged' = damaged'
  /\ unprotected' = {}

\* A write over target stops in its middle.
Damage(target) ==
  /\ damaged' = damaged \union {target}
  /\ unprotected' = unprotected \union {target}

NextOperation == queuedOperations[nextOperationIndex + 1]

\* StoreFile and StoreDirectory need an existing source in these two.
NeedsTarget(kind) == kind \in {"CopyFilesReplace", "UpdateHostsFile"}

ReadsPackage(kind) ==
  kind \in {"DeployWebSite", "CopyFilesReplace", "CopyFilesAppend", "DeployDacpac"}

\* Kinds that empty the target first, so that a damaged one becomes whole.
RewritesTarget(kind) == kind \in {"DeployWebSite", "CopyFilesReplace"}

\* Run can only succeed with its package file and the target it backs up in place.
CanRun(op) ==
  /\ ReadsPackage(op.step.kind) => op.package \in packages
  /\ NeedsTarget(op.step.kind) => content[op.step.target] # Absent

\* What Run remembers for Rollback.  A site or an appended directory that did not exist
\* is not remembered; a configuration file that did not exist is deleted by Rollback.
BackupOf(op) ==
  LET found == content[op.step.target] IN
  CASE op.step.kind \in {"RunSQLScript", "DeployDacpac"} -> NoBackup
    [] op.step.kind \in {"DeployWebSite", "CopyFilesAppend"} ->
         IF found = Absent THEN NoBackup ELSE found
    [] OTHER -> found

\* Mistaken variant: the backup is taken after the write.
LogEntryAfterWrite(op) ==
  [step |-> op.step, backup |-> op.package, wasDamaged |-> op.step.target \in damaged]

LogEntry(op) ==
  [step |-> op.step, backup |-> BackupOf(op), wasDamaged |-> op.step.target \in damaged]

\* Rollback of an appended directory puts files back one by one; every other Rollback
\* replaces the target as a whole, half written parts included.
DamageAfterUndo(entry) ==
  IF entry.step.kind = "CopyFilesAppend" THEN damaged
  ELSE IF entry.wasDamaged THEN damaged \union {entry.step.target}
  ELSE damaged \ {entry.step.target}
-----------------------------------------------------------------------------
(* The methods of DeploymentService.                                       *)

\* Mistaken variant: the operation index of the previous publication is kept.
BeginPublicationKeepsIndex(id) ==
  /\ pc = "idle"
  /\ activePublicationId = 0
  /\ activePublicationId' = id
  /\ queuedOperations' = << >>
  /\ lastException' = "null"
  /\ answer' = "true"
  /\ UNCHANGED <<nextOperationIndex, machine, loop>>
  /\ ForgetLog

\* Mistaken variant: the queue of the previous publication is kept.
BeginPublicationKeepsQueue(id) ==
  /\ pc = "idle"
  /\ activePublicationId = 0
  /\ activePublicationId' = id
  /\ nextOperationIndex' = 0
  /\ lastException' = "null"
  /\ answer' = "true"
  /\ UNCHANGED <<queuedOperations, machine, loop>>
  /\ ForgetLog

BeginPublication(id) ==
  /\ pc = "idle"
  /\ activePublicationId = 0
  /\ activePublicationId' = id
  /\ queuedOperations' = << >>
  /\ nextOperationIndex' = 0
  /\ lastException' = "null"
  /\ answer' = "true"
  /\ UNCHANGED <<machine, loop>>
  /\ ForgetLog

RefusePublication(id) ==
  /\ pc = "idle"
  /\ activePublicationId # 0
  /\ answer' = "false"
  /\ UNCHANGED <<memory, machine, loop, history>>

ResetPackage ==
  /\ pc = "idle"
  /\ packages' = packages \ {activePublicationId}
  /\ answer' = "none"
  /\ UNCHANGED <<memory, content, damaged, loop, history>>

UploadPackageBuffer ==
  /\ pc = "idle"
  /\ packages' = packages \union {activePublicationId}
  /\ answer' = "none"
  /\ UNCHANGED <<memory, content, damaged, loop, history>>

\* DeployWebSite, ProcessConfigFile, CopyFiles, UpdateHostsFile, RunSQLScript, ApplyDacpac.
EnqueueOperation(step) ==
  /\ pc = "idle"
  /\ Len(queuedOperations) < MaxOperations
  /\ queuedOperations' =
       Append(queuedOperations, [step |-> step, package |-> activePublicationId])
  /\ answer' = "none"
  /\ UNCHANGED <<activePublicationId, nextOperationIndex, completedOperations,
                 lastException, machine, loop, history>>

NothingToExecute ==
  /\ pc = "idle"
  /\ nextOperationIndex = Len(queuedOperations)
  /\ answer' = "false"
  /\ UNCHANGED <<memory, machine, loop, history>>

OperationSucceeds ==
  /\ pc = "idle"
  /\ nextOperationIndex < Len(queuedOperations)
  /\ LET op == NextOperation
         target == op.step.target IN
     /\ CanRun(op)
     /\ content' = [content EXCEPT ![target] = op.package]
     /\ damaged' = IF RewritesTarget(op.step.kind) THEN damaged \ {target} ELSE damaged
     /\ completedOperations' = Append(completedOperations, LogEntry(op))
     /\ unprotected' =
          IF BackupOf(op) = NoBackup THEN unprotected \union {target} ELSE unprotected
  /\ nextOperationIndex' = nextOperationIndex + 1
  /\ answer' = "true"
  /\ UNCHANGED <<activePublicationId, queuedOperations, lastException, packages, loop,
                 baseContent, baseDamaged>>

\* Mistaken variant: the loop starts one entry past the log.
StartUndoPastEnd(method) ==
  /\ pc' = "undo"
  /\ undoing' = Len(completedOperations) + 1
  /\ caller' = method
  /\ UNCHANGED answer

\* The catch block: the exception is kept and Rollback runs over the log, which
\* does not hold the failed operation.
StartUndo(method) ==
  /\ pc' = "undo"
  /\ undoing' = Len(completedOperations)
  /\ caller' = method
  /\ UNCHANGED answer

OperationFails(leavesDamage) ==
  /\ pc = "idle"
  /\ nextOperationIndex < Len(queuedOperations)
  /\ LET kind == NextOperation.step.kind
         target == NextOperation.step.target IN
     IF leavesDamage
     THEN /\ NeedsTarget(kind) => content[target] # Absent
          /\ Damage(target)
     ELSE UNCHANGED <<damaged, unprotected>>
  /\ lastException' = "exception"
  /\ StartUndo("ExecuteNextOperation")
  /\ UNCHANGED <<activePublicationId, queuedOperations, nextOperationIndex,
                 completedOperations, packages, content, baseContent, baseDamaged>>

\* After Complete the index can point past the emptied queue: the indexer throws.
IndexOutOfRange ==
  /\ pc = "idle"
  /\ nextOperationIndex > Len(queuedOperations)
  /\ lastException' = "exception"
  /\ StartUndo("ExecuteNextOperation")
  /\ UNCHANGED <<activePublicationId, queuedOperations, nextOperationIndex,
                 completedOperations, machine, history>>

Rollback ==
  /\ pc = "idle"
  /\ StartUndo("Rollback")
  /\ UNCHANGED <<memory, machine, history>>

\* Mistaken variant: the loop runs over the log in the order of execution.
UndoOperationForwards ==
  /\ pc = "undo"
  /\ undoing > 0
  /\ LET entry == completedOperations[Len(completedOperations) - undoing + 1] IN
     IF entry.backup = NoBackup
     THEN UNCHANGED <<content, damaged>>
     ELSE /\ content' = [content EXCEPT ![entry.step.target] = entry.backup]
          /\ damaged' = DamageAfterUndo(entry)
  /\ undoing' = undoing - 1
  /\ UNCHANGED <<memory, packages, pc, caller, answer, history>>

\* One turn of the loop over the log, last completed operation first.
UndoOperation ==
  /\ pc = "undo"
  /\ undoing > 0
  /\ LET entry == completedOperations[undoing] IN
     IF entry.backup = NoBackup
     THEN UNCHANGED <<content, damaged>>
     ELSE /\ content' = [content EXCEPT ![entry.step.target] = entry.backup]
          /\ damaged' = DamageAfterUndo(entry)
  /\ undoing' = undoing - 1
  /\ UNCHANGED <<memory, packages, pc, caller, answer, history>>

\* The Rollback of an operation throws out of the loop: the satellite stays busy with
\* its whole log, and the next Rollback starts from the end again.
UndoFails(leavesDamage) ==
  /\ pc = "undo"
  /\ undoing > 0
  /\ completedOperations[undoing].backup # NoBackup
  /\ IF leavesDamage
     THEN Damage(completedOperations[undoing].step.target)
     ELSE UNCHANGED <<damaged, unprotected>>
  /\ pc' = "idle"
  /\ answer' = "fault"
  /\ UNCHANGED <<memory, packages, content, undoing, caller, baseContent, baseDamaged>>

\* Mistaken variant: the satellite is not freed.
FinishUndoStaysBusy ==
  /\ pc = "undo"
  /\ undoing = 0
  /\ pc' = "idle"
  /\ answer' = IF caller = "Rollback" THEN "true" ELSE "false"
  /\ UNCHANGED <<activePublicationId, queuedOperations, nextOperationIndex, lastException,
                 machine, undoing, caller>>
  /\ ForgetLog

FinishUndo ==
  /\ pc = "undo"
  /\ undoing = 0
  /\ activePublicationId' = 0
  /\ pc' = "idle"
  /\ answer' = IF caller = "Rollback" THEN "true" ELSE "false"
  /\ UNCHANGED <<queuedOperations, nextOperationIndex, lastException, machine, undoing, caller>>
  /\ ForgetLog

\* The memory is cleared before the clean-up of old files, which may throw.
Complete(cleanupThrows) ==
  /\ pc = "idle"
  /\ activePublicationId' = 0
  /\ queuedOperations' = << >>
  /\ lastException' = "null"
  /\ answer' = IF cleanupThrows THEN "fault" ELSE "true"
  /\ UNCHANGED <<nextOperationIndex, machine, loop>>
  /\ ForgetLog

\* The process stops and starts again, at worst while an operation or an undo writes.
Restart(interrupted) ==
  /\ activePublicationId' = 0
  /\ queuedOperations' = << >>
  /\ nextOperationIndex' = 0
  /\ lastException' = "null"
  /\ damaged' = damaged \union interrupted
  /\ pc' = "idle"
  /\ answer' = "none"
  /\ UNCHANGED <<packages, content, undoing, caller>>
  /\ ForgetLog

\* Targets a restart can catch half written.
BeingWritten ==
  IF pc = "undo"
  THEN {completedOperations[i].step.target : i \in undoing .. undoing \ {0}}
  ELSE {queuedOperations[i].step.target :
          i \in {nextOperationIndex + 1} \intersect DOMAIN queuedOperations}

Next ==
  \/ \E id \in PublicationIds : BeginPublication(id) \/ RefusePublication(id)
  \/ ResetPackage
  \/ UploadPackageBuffer
  \/ \E step \in Steps : EnqueueOperation(step)
  \/ NothingToExecute
  \/ OperationSucceeds
  \/ \E leavesDamage \in BOOLEAN : OperationFails(leavesDamage) \/ UndoFails(leavesDamage)
  \/ IndexOutOfRange
  \/ Rollback
  \/ UndoOperation
  \/ FinishUndo
  \/ \E cleanupThrows \in BOOLEAN : Complete(cleanupThrows)
  \/ \E interrupted \in SUBSET BeingWritten : Restart(interrupted)

Spec == Init /\ [][Next]_vars

-----------------------------------------------------------------------------
(* Properties.                                                             *)

TypeOK ==
  /\ activePublicationId \in PublicationIds \union {0}
  /\ queuedOperations \in Seq(Operations)
  /\ Len(queuedOperations) <= MaxOperations
  /\ nextOperationIndex \in 0 .. MaxOperations
  /\ completedOperations \in Seq(LogEntries)
  /\ lastException \in {"null", "exception"}
  /\ packages \subseteq PublicationIds \union {0}
  /\ content \in [Targets -> Contents]
  /\ damaged \subseteq Targets
  /\ pc \in {"idle", "undo"}
  /\ undoing \in Nat
  /\ pc = "undo" => undoing <= Len(completedOperations)
  /\ caller \in {"Rollback", "ExecuteNextOperation"}
  /\ answer \in Answers
  /\ baseContent \in [Targets -> Contents]
  /\ baseDamaged \subseteq Targets
  /\ unprotected \subseteq Targets

LogIndices == 1 .. Len(completedOperations)

Protects(i, t) ==
  /\ completedOperations[i].step.target = t
  /\ completedOperations[i].backup # NoBackup

FirstProtecting(i, t) ==
  Protects(i, t) /\ \A j \in 1 .. i - 1 : ~Protects(j, t)

\* Log entries that a Rollback from here on has still to undo.
Remaining == IF pc = "undo" THEN undoing ELSE Len(completedOperations)

\* For every target that was changed only through logged backups, the oldest backup is
\* the version from before the log began, and without one left to undo the target holds
\* that version (completedOperations, BeginPublication, ExecuteNextOperation, Rollback).
UndoLogSound ==
  \A t \in Targets \ unprotected :
    /\ \A i \in LogIndices :
         FirstProtecting(i, t) => completedOperations[i].backup = baseContent[t]
    /\ (\A i \in 1 .. Remaining : ~Protects(i, t)) => content[t] = baseContent[t]
    /\ t \notin baseDamaged =>
         /\ t \notin damaged
         /\ \A i \in LogIndices :
              completedOperations[i].step.target = t => ~completedOperations[i].wasDamaged

\* However often operations failed, undos broke off and were started again: when the loop
\* of Rollback has run through, each target changed only through logged backups holds
\* what it held when the log began, undamaged if it was undamaged then.  In particular
\* no operation of a completed publication is ever undone.
RollbackRestores ==
  (pc = "undo" /\ undoing = 0) =>
    \A t \in Targets \ unprotected :
      /\ content[t] = baseContent[t]
      /\ t \in damaged => t \in baseDamaged

\* While a publication is active the undo log is exactly the executed prefix of the
\* queue, so nothing that ran is missing from it and nothing is in it twice
\* (ExecuteNextOperation after a failed undo, a refused or repeated BeginPublication).
LogMatchesQueue ==
  activePublicationId # 0 =>
    /\ nextOperationIndex = Len(completedOperations)
    /\ nextOperationIndex <= Len(queuedOperations)
    /\ \A i \in LogIndices : completedOperations[i].step = queuedOperations[i].step

\* An active publication only has operations in the queue that were configured from its
\* own package: calls left over from another deployment never leak into it.
OperationsOwned ==
  activePublicationId # 0 =>
    \A i \in 1 .. Len(queuedOperations) : queuedOperations[i].package = activePublicationId

-----------------------------------------------------------------------------
(* The contract the deployment server relies on, and the state it sees.    *)

Session == INSTANCE SatelliteSession WITH
  session <- [active |-> activePublicationId,
              queue  |-> queuedOperations,
              next   |-> nextOperationIndex],
  answer  <- answer

\* Every call, its undo loop included, has the effect and the answer of one atomic step
\* of the session contract; the steps inside the loop are invisible to the server.
ImplementsSession == Session!Spec
=============================================================================
