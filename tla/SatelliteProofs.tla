-------------------------- MODULE SatelliteProofs --------------------------
(***************************************************************************)
(* Proofs about module Satellite, for every set of publications, targets   *)
(* and steps and every bound on the queue.                                 *)
(***************************************************************************)
EXTENDS Satellite, TLAPS

(* Type correctness.  The type invariant is split by groups of variables, *)
(* and each action is shown to keep each group it changes.                 *)

QueueOK ==
  /\ activePublicationId \in PublicationIds \union {0}
  /\ queuedOperations \in Seq(Operations)
  /\ Len(queuedOperations) <= MaxOperations
  /\ nextOperationIndex \in 0 .. MaxOperations
  /\ lastException \in {"null", "exception"}

LogOK == completedOperations \in Seq(LogEntries)

MachineOK ==
  /\ packages \subseteq PublicationIds \union {0}
  /\ content \in [Targets -> Contents]
  /\ damaged \subseteq Targets

LoopOK ==
  /\ pc \in {"idle", "undo"}
  /\ undoing \in Nat
  /\ pc = "undo" => undoing <= Len(completedOperations)
  /\ caller \in {"Rollback", "ExecuteNextOperation"}
  /\ answer \in Answers

HistoryOK ==
  /\ baseContent \in [Targets -> Contents]
  /\ baseDamaged \subseteq Targets
  /\ unprotected \subseteq Targets

\* An emptied queue and an emptied log have their types.
LEMMA EmptySequences ==
  /\ << >> \in Seq(Operations)
  /\ << >> \in Seq(LogEntries)
  /\ Len(<< >>) = 0
  OBVIOUS

\* What the assumption says of the bound and of a step, apart.
LEMMA MaxOperationsType == MaxOperations \in Nat
  BY SatelliteAssumption DEF SatelliteAssumption

LEMMA StepTarget == \A step \in Steps : step.target \in Targets
  BY SatelliteAssumption DEF SatelliteAssumption

\* The operation the index points at, while it points into the queue.
LEMMA NextOperationType ==
  ASSUME TypeOK, nextOperationIndex < Len(queuedOperations)
  PROVE  /\ NextOperation = queuedOperations[nextOperationIndex + 1]
         /\ nextOperationIndex + 1 \in 1 .. Len(queuedOperations)
         /\ NextOperation \in Operations
         /\ NextOperation.step \in Steps
         /\ NextOperation.package \in PublicationIds \union {0}
         /\ NextOperation.step.target \in Targets
<1>1. nextOperationIndex + 1 \in 1 .. Len(queuedOperations)
  BY MaxOperationsType DEF TypeOK
<1>2. NextOperation \in Operations
  BY <1>1 DEF TypeOK, NextOperation
<1> QED
  BY <1>1, <1>2, StepTarget DEF NextOperation, Operations

\* What an operation backs up has the type of a backup.
LEMMA LogEntryType ==
  ASSUME TypeOK, nextOperationIndex < Len(queuedOperations)
  PROVE  /\ LogEntry(NextOperation) \in LogEntries
         /\ LogEntry(NextOperation).step = NextOperation.step
         /\ LogEntry(NextOperation).backup = BackupOf(NextOperation)
<1>1. BackupOf(NextOperation) \in Contents \union {NoBackup}
  <2>1. content[NextOperation.step.target] \in Contents
    BY NextOperationType DEF TypeOK
  <2> QED
    BY <2>1 DEF BackupOf
<1>2. (NextOperation.step.target \in damaged) \in BOOLEAN
  OBVIOUS
<1>3. NextOperation.step \in Steps
  BY NextOperationType
<1> QED
  BY <1>1, <1>2, <1>3, Zenon DEF LogEntry, LogEntries

\* The fields of an entry of the undo log.
LEMMA LogEntriesType ==
  ASSUME TypeOK, NEW i \in 1 .. Len(completedOperations)
  PROVE  /\ completedOperations[i] \in LogEntries
         /\ completedOperations[i].step \in Steps
         /\ completedOperations[i].step.target \in Targets
         /\ completedOperations[i].backup \in Contents \union {NoBackup}
<1>1. completedOperations[i] \in LogEntries
  BY DEF TypeOK
<1> QED
  BY <1>1, StepTarget DEF LogEntries

LEMMA BeingWrittenType ==
  ASSUME TypeOK
  PROVE  BeingWritten \subseteq Targets
<1>1. CASE pc = "undo"
  <2>1. \A i \in undoing .. undoing \ {0} : completedOperations[i].step.target \in Targets
    <3> SUFFICES ASSUME NEW i \in undoing .. undoing \ {0}
                 PROVE  completedOperations[i].step.target \in Targets
      OBVIOUS
    <3>1. i \in 1 .. Len(completedOperations)
      BY <1>1 DEF TypeOK
    <3> QED
      BY <3>1, LogEntriesType
  <2> QED
    BY <1>1, <2>1 DEF BeingWritten
<1>2. CASE pc # "undo"
  <2>1. \A i \in {nextOperationIndex + 1} \intersect DOMAIN queuedOperations :
          queuedOperations[i].step.target \in Targets
    <3> SUFFICES ASSUME NEW i \in {nextOperationIndex + 1} \intersect DOMAIN queuedOperations
                 PROVE  queuedOperations[i].step.target \in Targets
      OBVIOUS
    <3>1. queuedOperations[i] \in Operations
      BY DEF TypeOK
    <3> QED
      BY <3>1, StepTarget DEF Operations
  <2> QED
    BY <1>2, <2>1 DEF BeingWritten
<1> QED
  BY <1>1, <1>2

LEMMA InitTypeOK == Init => TypeOK
<1> SUFFICES ASSUME Init PROVE TypeOK
  OBVIOUS
<1>1. QueueOK
  BY EmptySequences, MaxOperationsType DEF Init, QueueOK
<1>2. LogOK
  BY EmptySequences DEF Init, LogOK
<1>3. MachineOK
  BY DEF Init, MachineOK, Contents
<1>4. LoopOK
  BY DEF Init, LoopOK, Answers
<1>5. HistoryOK
  BY DEF Init, HistoryOK, Contents
<1> QED
  BY <1>1, <1>2, <1>3, <1>4, <1>5 DEF TypeOK, QueueOK, LogOK, MachineOK, LoopOK, HistoryOK

LEMMA NextTypeOK == TypeOK /\ [Next]_vars => TypeOK'
<1> SUFFICES ASSUME TypeOK, [Next]_vars
             PROVE  TypeOK'
  OBVIOUS
<1> USE MaxOperationsType
<1>1. ASSUME NEW id \in PublicationIds, BeginPublication(id)
      PROVE  TypeOK'
  <2>1. QueueOK'
    BY <1>1, EmptySequences DEF TypeOK, QueueOK, BeginPublication, ForgetLog
  <2>2. LogOK'
    BY <1>1, EmptySequences DEF TypeOK, LogOK, BeginPublication, ForgetLog
  <2>3. MachineOK'
    BY <1>1 DEF TypeOK, MachineOK, BeginPublication, machine
  <2>4. LoopOK'
    BY <1>1 DEF TypeOK, LoopOK, BeginPublication, loop, Answers
  <2>5. HistoryOK'
    BY <1>1 DEF TypeOK, HistoryOK, BeginPublication, ForgetLog, machine
  <2> QED
    BY <2>1, <2>2, <2>3, <2>4, <2>5 DEF TypeOK, QueueOK, LogOK, MachineOK, LoopOK, HistoryOK
<1>2. ASSUME NEW id \in PublicationIds, RefusePublication(id)
      PROVE  TypeOK'
  BY <1>2 DEF TypeOK, Answers, RefusePublication, memory, machine, loop, history
<1>3. CASE ResetPackage
  BY <1>3 DEF TypeOK, Answers, ResetPackage, memory, machine, loop, history
<1>4. CASE UploadPackageBuffer
  BY <1>4 DEF TypeOK, Answers, UploadPackageBuffer, memory, machine, loop, history
<1>5. ASSUME NEW step \in Steps, EnqueueOperation(step)
      PROVE  TypeOK'
  BY <1>5 DEF TypeOK, Answers, EnqueueOperation, memory, machine, loop, history, Operations
<1>6. CASE NothingToExecute
  BY <1>6 DEF TypeOK, Answers, NothingToExecute, memory, machine, loop, history
<1>7. CASE OperationSucceeds
  <2>1. QueueOK'
    BY <1>7 DEF TypeOK, QueueOK, OperationSucceeds
  <2>2. LogOK'
    BY <1>7, LogEntryType DEF TypeOK, LogOK, OperationSucceeds
  <2>3. MachineOK'
    BY <1>7, NextOperationType DEF TypeOK, MachineOK, OperationSucceeds, Contents
  <2>4. LoopOK'
    BY <1>7 DEF TypeOK, LoopOK, OperationSucceeds, loop, LogEntry, Answers
  <2>5. HistoryOK'
    BY <1>7, NextOperationType DEF TypeOK, HistoryOK, OperationSucceeds
  <2> QED
    BY <2>1, <2>2, <2>3, <2>4, <2>5 DEF TypeOK, QueueOK, LogOK, MachineOK, LoopOK, HistoryOK
<1>8. ASSUME NEW leavesDamage \in BOOLEAN, OperationFails(leavesDamage)
      PROVE  TypeOK'
  <2>1. QueueOK'
    BY <1>8 DEF TypeOK, QueueOK, OperationFails, StartUndo
  <2>2. LogOK'
    BY <1>8 DEF TypeOK, LogOK, OperationFails, StartUndo
  <2>3. MachineOK'
    BY <1>8, NextOperationType DEF TypeOK, MachineOK, OperationFails, Damage
  <2>4. LoopOK'
    BY <1>8 DEF TypeOK, LoopOK, OperationFails, StartUndo, Answers
  <2>5. HistoryOK'
    BY <1>8, NextOperationType DEF TypeOK, HistoryOK, OperationFails, Damage
  <2> QED
    BY <2>1, <2>2, <2>3, <2>4, <2>5 DEF TypeOK, QueueOK, LogOK, MachineOK, LoopOK, HistoryOK
<1>9. CASE IndexOutOfRange
  BY <1>9 DEF TypeOK, Answers, IndexOutOfRange, StartUndo, memory, machine, loop, history
<1>10. CASE Rollback
  BY <1>10 DEF TypeOK, Answers, Rollback, StartUndo, memory, machine, loop, history
<1>11. CASE UndoOperation
  <2>1. QueueOK'
    BY <1>11 DEF TypeOK, QueueOK, UndoOperation, memory
  <2>2. LogOK'
    BY <1>11 DEF TypeOK, LogOK, UndoOperation, memory
  <2>3. MachineOK'
    BY <1>11, LogEntriesType DEF TypeOK, MachineOK, UndoOperation, DamageAfterUndo, memory
  <2>4. LoopOK'
    BY <1>11 DEF TypeOK, LoopOK, UndoOperation, memory, Answers
  <2>5. HistoryOK'
    BY <1>11 DEF TypeOK, HistoryOK, UndoOperation, history
  <2> QED
    BY <2>1, <2>2, <2>3, <2>4, <2>5 DEF TypeOK, QueueOK, LogOK, MachineOK, LoopOK, HistoryOK
<1>12. ASSUME NEW leavesDamage \in BOOLEAN, UndoFails(leavesDamage)
      PROVE  TypeOK'
  <2>1. QueueOK'
    BY <1>12 DEF TypeOK, QueueOK, UndoFails, memory
  <2>2. LogOK'
    BY <1>12 DEF TypeOK, LogOK, UndoFails, memory
  <2>3. MachineOK'
    BY <1>12, LogEntriesType DEF TypeOK, MachineOK, UndoFails, Damage, memory
  <2>4. LoopOK'
    BY <1>12 DEF TypeOK, LoopOK, UndoFails, memory, Answers
  <2>5. HistoryOK'
    BY <1>12, LogEntriesType DEF TypeOK, HistoryOK, UndoFails, Damage, memory
  <2> QED
    BY <2>1, <2>2, <2>3, <2>4, <2>5 DEF TypeOK, QueueOK, LogOK, MachineOK, LoopOK, HistoryOK
<1>13. CASE FinishUndo
  <2>1. QueueOK'
    BY <1>13 DEF TypeOK, QueueOK, FinishUndo, ForgetLog
  <2>2. LogOK'
    BY <1>13, EmptySequences DEF TypeOK, LogOK, FinishUndo, ForgetLog
  <2>3. MachineOK'
    BY <1>13 DEF TypeOK, MachineOK, FinishUndo, machine
  <2>4. LoopOK'
    BY <1>13 DEF TypeOK, LoopOK, FinishUndo, Answers
  <2>5. HistoryOK'
    BY <1>13 DEF TypeOK, HistoryOK, FinishUndo, ForgetLog, machine
  <2> QED
    BY <2>1, <2>2, <2>3, <2>4, <2>5 DEF TypeOK, QueueOK, LogOK, MachineOK, LoopOK, HistoryOK
<1>14. ASSUME NEW cleanupThrows \in BOOLEAN, Complete(cleanupThrows)
      PROVE  TypeOK'
  <2>1. QueueOK'
    BY <1>14, EmptySequences DEF TypeOK, QueueOK, Complete
  <2>2. LogOK'
    BY <1>14, EmptySequences DEF TypeOK, LogOK, Complete, ForgetLog
  <2>3. MachineOK'
    BY <1>14 DEF TypeOK, MachineOK, Complete, machine
  <2>4. LoopOK'
    BY <1>14 DEF TypeOK, LoopOK, Complete, loop, Answers
  <2>5. HistoryOK'
    BY <1>14 DEF TypeOK, HistoryOK, Complete, ForgetLog, machine
  <2> QED
    BY <2>1, <2>2, <2>3, <2>4, <2>5 DEF TypeOK, QueueOK, LogOK, MachineOK, LoopOK, HistoryOK
<1>15. ASSUME NEW interrupted \in SUBSET BeingWritten, Restart(interrupted)
      PROVE  TypeOK'
  <2>1. QueueOK'
    BY <1>15, EmptySequences DEF TypeOK, QueueOK, Restart
  <2>2. LogOK'
    BY <1>15, EmptySequences DEF TypeOK, LogOK, Restart, ForgetLog
  <2>3. MachineOK'
    BY <1>15, BeingWrittenType DEF TypeOK, MachineOK, Restart
  <2>4. LoopOK'
    BY <1>15 DEF TypeOK, LoopOK, Restart, Answers
  <2>5. HistoryOK'
    BY <1>15, BeingWrittenType DEF TypeOK, HistoryOK, Restart, ForgetLog
  <2> QED
    BY <2>1, <2>2, <2>3, <2>4, <2>5 DEF TypeOK, QueueOK, LogOK, MachineOK, LoopOK, HistoryOK
<1>16. CASE UNCHANGED vars
  BY <1>16 DEF TypeOK, vars, memory, machine, loop, history
<1> QED
  BY <1>1, <1>2, <1>3, <1>4, <1>5, <1>6, <1>7, <1>8, <1>9, <1>10, <1>11, <1>12, <1>13, <1>14, <1>15, <1>16 DEF Next

\* Every variable of the satellite keeps its type: in particular the operation index and
\* the undo loop never leave the queue and the log.
THEOREM SatelliteTypeCorrect == Spec => []TypeOK
  BY InitTypeOK, NextTypeOK, PTL DEF Spec

-----------------------------------------------------------------------------
(* The undo log restores what it promises, and the log, the queue and the *)
(* index of an active publication agree.                                   *)

\* While the loop undoes a failed operation, the index stays where that operation was or
\* past the emptied queue: the answer the loop ends with is never given at the end of
\* the queue, where "false" means that there is nothing left to execute.
UndoAfterFailure ==
  (pc = "undo" /\ caller = "ExecuteNextOperation") =>
    nextOperationIndex # Len(queuedOperations)

\* The inductive invariant.  RollbackRestores alone is not inductive: what the loop of
\* Rollback will restore depends on the whole log and on how far the loop has come.
IInv ==
  /\ TypeOK
  /\ UndoLogSound
  /\ LogMatchesQueue
  /\ OperationsOwned
  /\ UndoAfterFailure

(* UndoLogSound for one target, to follow each target on its own.          *)
BackupsSound(t) ==
  \A i \in LogIndices : FirstProtecting(i, t) => completedOperations[i].backup = baseContent[t]

ContentSound(t) ==
  (\A i \in 1 .. Remaining : ~Protects(i, t)) => content[t] = baseContent[t]

DamageSound(t) ==
  t \notin baseDamaged =>
    /\ t \notin damaged
    /\ \A i \in LogIndices :
         completedOperations[i].step.target = t => ~completedOperations[i].wasDamaged

LEMMA UndoLogByTarget ==
  UndoLogSound <=> \A t \in Targets \ unprotected : BackupsSound(t) /\ ContentSound(t) /\ DamageSound(t)
  BY DEF UndoLogSound, BackupsSound, ContentSound, DamageSound

\* Nothing has to be shown where the log is empty and starts from what is there.
LEMMA EmptyLogSound ==
  ASSUME TypeOK', ForgetLog, pc' = "idle"
  PROVE  UndoLogSound'
<1>1. completedOperations' = << >> /\ Len(completedOperations') = 0
  BY EmptySequences DEF ForgetLog
<1>2. LogIndices' = {} /\ (1 .. Remaining)' = {}
  BY <1>1 DEF LogIndices, Remaining
<1> QED
  BY <1>1, <1>2 DEF UndoLogSound, ForgetLog

\* Steps that keep the log, the targets and their history, and leave at least as much
\* to undo, keep the log sound for the targets they do not take out of its protection.
LEMMA LogKept ==
  ASSUME TypeOK, TypeOK', UndoLogSound,
         UNCHANGED <<completedOperations, content, baseContent, baseDamaged>>,
         Remaining <= Remaining',
         unprotected \subseteq unprotected',
         damaged' \ unprotected' \subseteq damaged
  PROVE  UndoLogSound'
<1> SUFFICES ASSUME NEW t \in Targets \ unprotected'
             PROVE  (BackupsSound(t) /\ ContentSound(t) /\ DamageSound(t))'
  BY DEF UndoLogSound, BackupsSound, ContentSound, DamageSound
<1>1. BackupsSound(t) /\ ContentSound(t) /\ DamageSound(t)
  BY UndoLogByTarget
<1>2. BackupsSound(t)'
  BY <1>1 DEF BackupsSound, LogIndices, FirstProtecting, Protects
<1>3. ContentSound(t)'
  <2>1. Remaining \in Nat /\ Remaining' \in Nat
    BY DEF TypeOK, Remaining
  <2> QED
    BY <1>1, <2>1 DEF ContentSound, Protects
<1>4. DamageSound(t)'
  BY <1>1 DEF DamageSound, LogIndices
<1> QED
  BY <1>2, <1>3, <1>4

\* Run appends one entry that backs up what Run is about to overwrite.
LEMMA SuccessKeepsLog ==
  ASSUME TypeOK, TypeOK', UndoLogSound, OperationSucceeds
  PROVE  UndoLogSound'
<1> DEFINE n == Len(completedOperations)
           e == LogEntry(NextOperation)
           u == NextOperation.step.target
<1>1. /\ nextOperationIndex < Len(queuedOperations)
      /\ pc = "idle" /\ pc' = "idle"
      /\ content' = [content EXCEPT ![u] = NextOperation.package]
      /\ damaged' \subseteq damaged
      /\ completedOperations' = Append(completedOperations, e)
      /\ unprotected \subseteq unprotected'
      /\ BackupOf(NextOperation) = NoBackup => u \in unprotected'
      /\ UNCHANGED <<baseContent, baseDamaged>>
  BY DEF OperationSucceeds, loop
<1>2. n \in Nat /\ Len(completedOperations') = n + 1
  BY <1>1, LogEntryType DEF TypeOK
<1>3. completedOperations'[n + 1] = e
  BY <1>1, <1>2, LogEntryType DEF TypeOK
<1>4. \A i \in 1 .. n : completedOperations'[i] = completedOperations[i]
  BY <1>1, <1>2, LogEntryType DEF TypeOK
<1>5. e.step.target = u /\ e.backup = BackupOf(NextOperation)
  BY <1>1, LogEntryType
<1>6. Remaining = n /\ Remaining' = n + 1 /\ LogIndices = 1 .. n /\ LogIndices' = 1 .. n + 1
  BY <1>1, <1>2 DEF Remaining, LogIndices
<1> SUFFICES ASSUME NEW t \in Targets \ unprotected'
             PROVE  (BackupsSound(t) /\ ContentSound(t) /\ DamageSound(t))'
  BY DEF UndoLogSound, BackupsSound, ContentSound, DamageSound
<1>7. BackupsSound(t) /\ ContentSound(t) /\ DamageSound(t)
  BY <1>1, UndoLogByTarget
<1>8. \A i \in 1 .. n : Protects(i, t)' <=> Protects(i, t)
  BY <1>4 DEF Protects
<1>9. BackupsSound(t)'
  <2> SUFFICES ASSUME NEW i \in 1 .. n + 1, FirstProtecting(i, t)'
               PROVE  completedOperations'[i].backup = baseContent[t]
    BY <1>1, <1>6 DEF BackupsSound
  <2>1. CASE i \in 1 .. n
    <3>1. FirstProtecting(i, t)
      BY <2>1, <1>2, <1>8 DEF FirstProtecting
    <3> QED
      BY <3>1, <2>1, <1>4, <1>6, <1>7 DEF BackupsSound
  <2>2. CASE i = n + 1
    <3>1. e.step.target = t /\ e.backup # NoBackup
      BY <2>2, <1>3 DEF FirstProtecting, Protects
    <3>2. e.backup = content[t]
      BY <3>1, <1>5 DEF BackupOf
    <3>3. \A j \in 1 .. n : ~Protects(j, t)
      BY <2>2, <1>2, <1>8 DEF FirstProtecting
    <3> QED
      BY <3>2, <3>3, <2>2, <1>3, <1>6, <1>7 DEF ContentSound
  <2> QED
    BY <2>1, <2>2, <1>2
<1>10. ContentSound(t)'
  <2>1. CASE t = u
    <3>1. BackupOf(NextOperation) # NoBackup
      BY <2>1, <1>1
    <3>2. PICK last : last = n + 1
      OBVIOUS
    <3>3. Protects(last, t)'
      BY <3>1, <3>2, <2>1, <1>3, <1>5 DEF Protects
    <3>4. last \in 1 .. Remaining'
      BY <3>2, <1>2, <1>6
    <3> QED
      BY <3>3, <3>4 DEF ContentSound
  <2>2. CASE t # u
    BY <2>2, <1>1, <1>2, <1>6, <1>7, <1>8 DEF ContentSound, TypeOK
  <2> QED
    BY <2>1, <2>2
<1>11. DamageSound(t)'
  <2> SUFFICES ASSUME t \notin baseDamaged
               PROVE  /\ t \notin damaged'
                      /\ \A i \in 1 .. n + 1 :
                           completedOperations'[i].step.target = t => ~completedOperations'[i].wasDamaged
    BY <1>1, <1>6 DEF DamageSound
  <2>1. t \notin damaged
    BY <1>7 DEF DamageSound
  <2>2. u = t => ~e.wasDamaged
    BY <2>1 DEF LogEntry
  <2>3. \A i \in 1 .. n : completedOperations[i].step.target = t => ~completedOperations[i].wasDamaged
    BY <1>6, <1>7 DEF DamageSound
  <2>4. \A i \in 1 .. n + 1 : i \in 1 .. n \/ i = n + 1
    BY <1>2
  <2> QED
    BY <2>1, <2>2, <2>3, <2>4, <1>1, <1>3, <1>4, <1>5
<1> QED
  BY <1>9, <1>10, <1>11

\* One turn of the loop brings its target one backup closer to where the log began.
LEMMA UndoKeepsLog ==
  ASSUME TypeOK, TypeOK', UndoLogSound, UndoOperation
  PROVE  UndoLogSound'
<1> DEFINE e == completedOperations[undoing]
<1>1. /\ pc = "undo" /\ pc' = "undo"
      /\ undoing > 0 /\ undoing' = undoing - 1
      /\ UNCHANGED <<completedOperations, baseContent, baseDamaged, unprotected>>
  BY DEF UndoOperation, memory, history
<1>2. undoing \in LogIndices /\ undoing \in Nat
  BY <1>1 DEF TypeOK, LogIndices
<1>3. Remaining = undoing /\ Remaining' = undoing - 1
  BY <1>1 DEF Remaining
<1> SUFFICES ASSUME NEW t \in Targets \ unprotected'
             PROVE  (BackupsSound(t) /\ ContentSound(t) /\ DamageSound(t))'
  BY DEF UndoLogSound, BackupsSound, ContentSound, DamageSound
<1>4. BackupsSound(t) /\ ContentSound(t) /\ DamageSound(t)
  BY <1>1, UndoLogByTarget
<1>5. BackupsSound(t)'
  BY <1>1, <1>4 DEF BackupsSound, LogIndices, FirstProtecting, Protects
<1>6. ContentSound(t)'
  <2> SUFFICES ASSUME \A i \in 1 .. undoing - 1 : ~Protects(i, t)
               PROVE  content'[t] = baseContent[t]
    BY <1>1, <1>3 DEF ContentSound, Protects
  <2>1. CASE Protects(undoing, t)
    <3>1. FirstProtecting(undoing, t)
      BY <2>1 DEF FirstProtecting
    <3>2. content'[t] = e.backup
      BY <2>1, <1>2 DEF UndoOperation, Protects, TypeOK
    <3> QED
      BY <3>1, <3>2, <1>2, <1>4 DEF BackupsSound
  <2>2. CASE ~Protects(undoing, t)
    <3>1. \A i \in 1 .. undoing : ~Protects(i, t)
      BY <2>2, <1>2
    <3>2. content[t] = baseContent[t]
      BY <3>1, <1>3, <1>4 DEF ContentSound
    <3>3. content'[t] = content[t]
      BY <2>2, <1>2 DEF UndoOperation, Protects, TypeOK
    <3> QED
      BY <3>2, <3>3
  <2> QED
    BY <2>1, <2>2
<1>7. DamageSound(t)'
  <2> SUFFICES ASSUME t \notin baseDamaged
               PROVE  t \notin damaged'
    BY <1>1, <1>4 DEF DamageSound, LogIndices
  <2>1. t \notin damaged
    BY <1>4 DEF DamageSound
  <2>2. e.step.target = t => ~e.wasDamaged
    BY <1>2, <1>4 DEF DamageSound
  <2> QED
    BY <2>1, <2>2 DEF UndoOperation, DamageAfterUndo
<1> QED
  BY <1>5, <1>6, <1>7

LEMMA UndoLogPreserved ==
  ASSUME TypeOK, TypeOK', UndoLogSound, [Next]_vars
  PROVE  UndoLogSound'
<1>1. ASSUME NEW id \in PublicationIds, BeginPublication(id)
      PROVE  UndoLogSound'
  <2>1. ForgetLog /\ pc' = "idle"
    BY <1>1 DEF BeginPublication, loop
  <2> QED
    BY <2>1, EmptyLogSound
<1>2. ASSUME NEW id \in PublicationIds, RefusePublication(id)
      PROVE  UndoLogSound'
  BY <1>2, LogKept DEF RefusePublication, memory, machine, loop, history, Remaining, TypeOK
<1>3. CASE ResetPackage
  BY <1>3, LogKept DEF ResetPackage, memory, machine, loop, history, Remaining, TypeOK
<1>4. CASE UploadPackageBuffer
  BY <1>4, LogKept DEF UploadPackageBuffer, memory, machine, loop, history, Remaining, TypeOK
<1>5. ASSUME NEW step \in Steps, EnqueueOperation(step)
      PROVE  UndoLogSound'
  BY <1>5, LogKept DEF EnqueueOperation, memory, machine, loop, history, Remaining, TypeOK
<1>6. CASE NothingToExecute
  BY <1>6, LogKept DEF NothingToExecute, memory, machine, loop, history, Remaining, TypeOK
<1>7. CASE OperationSucceeds
  BY <1>7, SuccessKeepsLog
<1>8. ASSUME NEW leavesDamage \in BOOLEAN, OperationFails(leavesDamage)
      PROVE  UndoLogSound'
  <2>1. /\ unprotected \subseteq unprotected'
        /\ damaged' \ unprotected' \subseteq damaged
    BY <1>8 DEF OperationFails, Damage
  <2>2. Remaining <= Remaining'
    BY <1>8 DEF OperationFails, StartUndo, Remaining, TypeOK
  <2> QED
    BY <1>8, <2>1, <2>2, LogKept DEF OperationFails
<1>9. CASE IndexOutOfRange
  BY <1>9, LogKept DEF IndexOutOfRange, StartUndo, machine, history, Remaining, TypeOK
<1>10. CASE Rollback
  BY <1>10, LogKept DEF Rollback, StartUndo, memory, machine, history, Remaining, TypeOK
<1>11. CASE UndoOperation
  BY <1>11, UndoKeepsLog
<1>12. ASSUME NEW leavesDamage \in BOOLEAN, UndoFails(leavesDamage)
      PROVE  UndoLogSound'
  <2>1. /\ unprotected \subseteq unprotected'
        /\ damaged' \ unprotected' \subseteq damaged
    BY <1>12 DEF UndoFails, Damage
  <2>2. Remaining <= Remaining'
    BY <1>12 DEF UndoFails, Remaining, TypeOK, memory
  <2> QED
    BY <1>12, <2>1, <2>2, LogKept DEF UndoFails, memory
<1>13. CASE FinishUndo
  BY <1>13, EmptyLogSound DEF FinishUndo
<1>14. ASSUME NEW cleanupThrows \in BOOLEAN, Complete(cleanupThrows)
      PROVE  UndoLogSound'
  <2>1. ForgetLog /\ pc' = "idle"
    BY <1>14 DEF Complete, loop
  <2> QED
    BY <2>1, EmptyLogSound
<1>15. ASSUME NEW interrupted \in SUBSET BeingWritten, Restart(interrupted)
      PROVE  UndoLogSound'
  BY <1>15, EmptyLogSound DEF Restart
<1>16. CASE UNCHANGED vars
  BY <1>16, LogKept DEF vars, memory, machine, loop, history, Remaining, TypeOK
<1> QED
  BY <1>1, <1>2, <1>3, <1>4, <1>5, <1>6, <1>7, <1>8, <1>9, <1>10, <1>11, <1>12, <1>13,
     <1>14, <1>15, <1>16 DEF Next

\* The part of the memory the invariants about the active publication speak of.
SessionInvariant == LogMatchesQueue /\ OperationsOwned /\ UndoAfterFailure

LEMMA SessionInvariantPreserved ==
  ASSUME TypeOK, TypeOK', SessionInvariant, [Next]_vars
  PROVE  SessionInvariant'
<1> USE DEF SessionInvariant, LogMatchesQueue, OperationsOwned, UndoAfterFailure, LogIndices
<1>1. ASSUME NEW id \in PublicationIds, BeginPublication(id)
      PROVE  SessionInvariant'
  BY <1>1, EmptySequences DEF BeginPublication, ForgetLog, loop
<1>2. ASSUME NEW id \in PublicationIds, RefusePublication(id)
      PROVE  SessionInvariant'
  BY <1>2 DEF RefusePublication, memory, loop
<1>3. CASE ResetPackage
  BY <1>3 DEF ResetPackage, memory, loop
<1>4. CASE UploadPackageBuffer
  BY <1>4 DEF UploadPackageBuffer, memory, loop
<1>5. ASSUME NEW step \in Steps, EnqueueOperation(step)
      PROVE  SessionInvariant'
  <2> DEFINE op == [step |-> step, package |-> activePublicationId]
  <2>1. op \in Operations
    BY DEF Operations, TypeOK
  <2>2. /\ Len(queuedOperations') = Len(queuedOperations) + 1
        /\ \A i \in 1 .. Len(queuedOperations) : queuedOperations'[i] = queuedOperations[i]
        /\ queuedOperations'[Len(queuedOperations) + 1] = op
    BY <1>5, <2>1 DEF EnqueueOperation, TypeOK
  <2>3. UNCHANGED <<activePublicationId, nextOperationIndex, completedOperations, pc>> /\ pc = "idle"
    BY <1>5 DEF EnqueueOperation, loop
  <2>4. LogMatchesQueue'
    <3> SUFFICES ASSUME activePublicationId # 0
                 PROVE  /\ nextOperationIndex <= Len(queuedOperations) + 1
                        /\ \A i \in 1 .. Len(completedOperations) :
                             completedOperations[i].step = queuedOperations'[i].step
      BY <2>2, <2>3
    <3>1. /\ nextOperationIndex \in Nat /\ Len(queuedOperations) \in Nat
          /\ nextOperationIndex = Len(completedOperations)
          /\ nextOperationIndex <= Len(queuedOperations)
      BY DEF TypeOK
    <3>2. \A i \in 1 .. Len(completedOperations) : i \in 1 .. Len(queuedOperations)
      BY <3>1
    <3> QED
      BY <2>2, <3>1, <3>2
  <2>5. OperationsOwned'
    <3> SUFFICES ASSUME activePublicationId # 0, NEW i \in 1 .. Len(queuedOperations) + 1
                 PROVE  queuedOperations'[i].package = activePublicationId
      BY <2>2, <2>3
    <3>1. i \in 1 .. Len(queuedOperations) \/ i = Len(queuedOperations) + 1
      BY DEF TypeOK
    <3> QED
      BY <3>1, <2>2
  <2> QED
    BY <2>3, <2>4, <2>5
<1>6. CASE NothingToExecute
  BY <1>6 DEF NothingToExecute, memory, loop
<1>7. CASE OperationSucceeds
  <2> DEFINE n == Len(completedOperations)
  <2>1. /\ nextOperationIndex < Len(queuedOperations)
        /\ completedOperations' = Append(completedOperations, LogEntry(NextOperation))
        /\ nextOperationIndex' = nextOperationIndex + 1
        /\ pc = "idle" /\ pc' = "idle"
        /\ UNCHANGED <<activePublicationId, queuedOperations>>
    BY <1>7 DEF OperationSucceeds, loop
  <2>2. /\ Len(completedOperations') = n + 1
        /\ \A i \in 1 .. n : completedOperations'[i] = completedOperations[i]
        /\ completedOperations'[n + 1] = LogEntry(NextOperation)
    BY <2>1, LogEntryType DEF TypeOK
  <2>3. LogEntry(NextOperation).step = queuedOperations[nextOperationIndex + 1].step
    BY <2>1, LogEntryType, NextOperationType
  <2>4. LogMatchesQueue'
    <3> SUFFICES ASSUME activePublicationId # 0
                 PROVE  /\ nextOperationIndex + 1 = n + 1
                        /\ nextOperationIndex + 1 <= Len(queuedOperations)
                        /\ \A i \in 1 .. n + 1 : completedOperations'[i].step = queuedOperations[i].step
      BY <2>1, <2>2
    <3>1. nextOperationIndex = n /\ n \in Nat
      BY DEF TypeOK
    <3>2. \A i \in 1 .. n + 1 : i \in 1 .. n \/ i = n + 1
      BY <3>1
    <3> QED
      BY <2>1, <2>2, <2>3, <3>1, <3>2 DEF TypeOK
  <2> QED
    BY <2>1, <2>4
<1>8. ASSUME NEW leavesDamage \in BOOLEAN, OperationFails(leavesDamage)
      PROVE  SessionInvariant'
  BY <1>8 DEF OperationFails, StartUndo, TypeOK
<1>9. CASE IndexOutOfRange
  BY <1>9 DEF IndexOutOfRange, StartUndo, TypeOK
<1>10. CASE Rollback
  BY <1>10 DEF Rollback, StartUndo, memory
<1>11. CASE UndoOperation
  BY <1>11 DEF UndoOperation, memory
<1>12. ASSUME NEW leavesDamage \in BOOLEAN, UndoFails(leavesDamage)
      PROVE  SessionInvariant'
  BY <1>12 DEF UndoFails, memory
<1>13. CASE FinishUndo
  BY <1>13 DEF FinishUndo
<1>14. ASSUME NEW cleanupThrows \in BOOLEAN, Complete(cleanupThrows)
      PROVE  SessionInvariant'
  BY <1>14 DEF Complete, loop
<1>15. ASSUME NEW interrupted \in SUBSET BeingWritten, Restart(interrupted)
      PROVE  SessionInvariant'
  BY <1>15 DEF Restart
<1>16. CASE UNCHANGED vars
  BY <1>16 DEF vars, memory, loop
<1> QED
  BY <1>1, <1>2, <1>3, <1>4, <1>5, <1>6, <1>7, <1>8, <1>9, <1>10, <1>11, <1>12, <1>13,
     <1>14, <1>15, <1>16 DEF Next

LEMMA InitIInv == Init => IInv
<1> SUFFICES ASSUME Init PROVE IInv
  OBVIOUS
<1>1. TypeOK
  BY InitTypeOK
<1>2. LogIndices = {} /\ 1 .. Remaining = {}
  BY EmptySequences DEF Init, LogIndices, Remaining
<1>3. UndoLogSound
  BY <1>2 DEF Init, UndoLogSound
<1>4. LogMatchesQueue /\ OperationsOwned /\ UndoAfterFailure
  BY DEF Init, LogMatchesQueue, OperationsOwned, UndoAfterFailure
<1> QED
  BY <1>1, <1>3, <1>4 DEF IInv

LEMMA NextIInv == IInv /\ [Next]_vars => IInv'
  BY NextTypeOK, UndoLogPreserved, SessionInvariantPreserved DEF IInv, SessionInvariant

THEOREM SatelliteInvariant == Spec => []IInv
  BY InitIInv, NextIInv, PTL DEF Spec

\* The undo log is right at every moment, in the middle of a rollback too, for the targets
\* that were changed only through logged backups.
THEOREM SatelliteUndoLogSound == Spec => []UndoLogSound
<1>1. IInv => UndoLogSound
  BY DEF IInv
<1> QED
  BY <1>1, SatelliteInvariant, PTL

\* When the loop of Rollback has run through, whatever failed before, every target changed
\* only through logged backups holds what it held when the log began.
THEOREM SatelliteRollbackRestores == Spec => []RollbackRestores
<1>1. IInv => RollbackRestores
  <2> SUFFICES ASSUME IInv, pc = "undo", undoing = 0, NEW t \in Targets \ unprotected
               PROVE  content[t] = baseContent[t] /\ (t \in damaged => t \in baseDamaged)
    BY DEF RollbackRestores
  <2>1. 1 .. Remaining = {}
    BY DEF Remaining
  <2>2. ContentSound(t) /\ DamageSound(t)
    BY UndoLogByTarget DEF IInv
  <2> QED
    BY <2>1, <2>2 DEF ContentSound, DamageSound
<1> QED
  BY <1>1, SatelliteInvariant, PTL

\* The undo log of an active publication is the executed prefix of its queue.
THEOREM SatelliteLogMatchesQueue == Spec => []LogMatchesQueue
<1>1. IInv => LogMatchesQueue
  BY DEF IInv
<1> QED
  BY <1>1, SatelliteInvariant, PTL

\* The queue of an active publication holds its own operations only.
THEOREM SatelliteOperationsOwned == Spec => []OperationsOwned
<1>1. IInv => OperationsOwned
  BY DEF IInv
<1> QED
  BY <1>1, SatelliteInvariant, PTL

(* The detailed service implements the contract of SatelliteSession.       *)
(* The server sees activePublicationId, the queue and the index; the loop  *)
(* of Rollback is a series of stuttering steps that one step answers.      *)

LEMMA InitImplements == Init => Session!Init
  BY DEF Init, Session!Init, Session!FreshSession

LEMMA NextImplements == IInv /\ [Next]_vars => [Session!Next]_(Session!vars)
<1> SUFFICES ASSUME IInv, [Next]_vars
             PROVE  Session!Next \/ UNCHANGED Session!vars
  OBVIOUS
<1> USE DEF Session!vars
<1>1. ASSUME NEW id \in PublicationIds, BeginPublication(id)
      PROVE  Session!BeginPublication(id)
  BY <1>1 DEF BeginPublication, Session!BeginPublication, Session!BeginPublicationResults, Session!Result, Session!IsReady, Session!Call
<1>2. ASSUME NEW id \in PublicationIds, RefusePublication(id)
      PROVE  Session!BeginPublication(id)
  BY <1>2 DEF RefusePublication, memory, Session!BeginPublication, Session!BeginPublicationResults, Session!Result, Session!IsReady, Session!Call
<1>3. ASSUME ResetPackage \/ UploadPackageBuffer
      PROVE  Session!TransferPackage
  BY <1>3 DEF ResetPackage, UploadPackageBuffer, memory, Session!TransferPackage, Session!TransferResults, Session!Result, Session!Call
<1>4. ASSUME NEW step \in Steps, EnqueueOperation(step)
      PROVE  Session!Enqueue(step)
  <2>1. /\ UNCHANGED <<activePublicationId, nextOperationIndex>>
        /\ queuedOperations' =
             Append(queuedOperations, [step |-> step, package |-> activePublicationId])
        /\ answer' = "none"
    BY <1>4 DEF EnqueueOperation
  <2> DEFINE s == [active |-> activePublicationId,
                   queue  |-> queuedOperations,
                   next   |-> nextOperationIndex]
  <2>2. s.active = activePublicationId /\ s.queue = queuedOperations
    OBVIOUS
  <2>3. \A q : [s EXCEPT !.queue = q] =
               [active |-> activePublicationId, queue |-> q, next |-> nextOperationIndex]
    OBVIOUS
  <2> HIDE DEF s
  <2>4. Session!EnqueueResults(s, step) =
          {[session |-> [active |-> activePublicationId, queue |-> queuedOperations',
                         next |-> nextOperationIndex],
            answer  |-> "none"]}
    BY <2>1, <2>2, <2>3 DEF Session!EnqueueResults, Session!Result
  <2> QED
    BY <2>1, <2>4 DEF Session!Enqueue, Session!Call, Session!Result, s
<1>5. ASSUME NothingToExecute
      PROVE  Session!ExecuteNextOperation
  BY <1>5 DEF NothingToExecute, memory, Session!ExecuteNextOperation, Session!ExecuteResults, Session!Result, Session!Call, Session!Exhausted
<1>6. ASSUME OperationSucceeds
      PROVE  Session!ExecuteNextOperation
  BY <1>6 DEF OperationSucceeds, Session!ExecuteNextOperation, Session!ExecuteResults, Session!Result, Session!Call, Session!Exhausted
<1>7. ASSUME NEW leavesDamage \in BOOLEAN,
             OperationFails(leavesDamage) \/ IndexOutOfRange \/ Rollback \/ UndoOperation
      PROVE  UNCHANGED Session!vars
  BY <1>7 DEF OperationFails, IndexOutOfRange, Rollback, StartUndo, UndoOperation, memory
<1>8. ASSUME NEW leavesDamage \in BOOLEAN, UndoFails(leavesDamage)
      PROVE  Session!Rollback
  BY <1>8 DEF UndoFails, memory, Session!Rollback, Session!RollbackResults, Session!Result, Session!Call
<1>9. ASSUME FinishUndo
      PROVE  Session!Rollback \/ Session!ExecuteNextOperation
  <2>1. CASE caller = "Rollback"
    BY <1>9, <2>1 DEF FinishUndo, Session!Rollback, Session!RollbackResults, Session!Result, Session!Call, Session!RolledBack
  <2>2. CASE caller = "ExecuteNextOperation"
    BY <1>9, <2>2 DEF FinishUndo, IInv, UndoAfterFailure, Session!ExecuteNextOperation, Session!ExecuteResults, Session!Result, Session!Call,
                      Session!RolledBack, Session!Exhausted
  <2> QED
    BY <2>1, <2>2 DEF IInv, TypeOK
<1>10. ASSUME NEW cleanupThrows \in BOOLEAN, Complete(cleanupThrows)
       PROVE  Session!Complete
  <2>1. /\ activePublicationId' = 0 /\ queuedOperations' = << >>
        /\ UNCHANGED nextOperationIndex
    BY <1>10 DEF Complete
  <2>2. answer' \in {"true", "fault"}
    BY <1>10 DEF Complete
  <2> QED
    BY <2>1, <2>2 DEF Session!Complete, Session!CompleteResults, Session!Result, Session!Call
<1>11. ASSUME NEW interrupted \in SUBSET BeingWritten, Restart(interrupted)
       PROVE  Session!Restart
  BY <1>11 DEF Restart, Session!Restart, Session!FreshSession
<1>12. ASSUME UNCHANGED vars
       PROVE  UNCHANGED Session!vars
  BY <1>12 DEF vars, memory
<1> QED
  BY <1>1, <1>2, <1>3, <1>4, <1>5, <1>6, <1>7, <1>8, <1>9, <1>10, <1>11, <1>12
  DEF Next, Session!Next

\* Every behaviour of the detailed service is, in the eyes of the server, a behaviour of
\* the contract: whatever is shown of the server against the contract holds of the service.
THEOREM SatelliteImplementsSession == Spec => ImplementsSession
  BY InitImplements, NextImplements, SatelliteInvariant, PTL
  DEF Spec, ImplementsSession, Session!Spec
=============================================================================
