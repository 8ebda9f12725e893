--------------------------- MODULE SatelliteCalls ---------------------------
(***************************************************************************)
(* What one call of the server does to the memory of a satellite, and the  *)
(* answers it can get, at the granularity the server sees: each method of  *)
(* DeploymentService as the set of results it can have in a session.       *)
(*                                                                         *)
(*   active    activePublicationId, 0 when the satellite is free           *)
(*   queue     queuedOperations; each operation with the publication that  *)
(*             was active when it was enqueued (its package path)          *)
(*   next      nextOperationIndex                                          *)
(***************************************************************************)
EXTENDS Naturals, Sequences

\* The fields of the singleton right after the process has started.
FreshSession == [active |-> 0, queue |-> << >>, next |-> 0]

Sessions(publicationIds, steps) ==
  [active : publicationIds \union {0},
   queue  : Seq([step : steps, package : publicationIds \union {0}]),
   next   : Nat]

Result(session, answer) == [session |-> session, answer |-> answer]

IsReady(s) == s.active = 0

\* The end of the queue, where ExecuteNextOperation has nothing left to do.
Exhausted(s) == s.next = Len(s.queue)

\* The catch block and Rollback free the satellite but keep the queue and the index.
RolledBack(s) == [s EXCEPT !.active = 0]

IsReadyResults(s) == {Result(s, IF IsReady(s) THEN "true" ELSE "false")}

\* A satellite that is busy refuses and keeps its state.
BeginPublicationResults(s, id) ==
  IF IsReady(s)
  THEN {Result([active |-> id, queue |-> << >>, next |-> 0], "true")}
  ELSE {Result(s, "false")}

\* ResetPackage and UploadPackageBuffer touch only the package file.
TransferResults(s) == {Result(s, "none")}

\* DeployWebSite, ProcessConfigFile, CopyFiles, UpdateHostsFile, RunSQLScript and
\* ApplyDacpac only append: none of them looks at active.
EnqueueResults(s, step) ==
  {Result([s EXCEPT !.queue = Append(s.queue, [step |-> step, package |-> s.active])], "none")}

\* An answer of "true" is given only for an operation that ran; after one that failed
\* everything executed is undone, or the undo threw and left the satellite busy.
ExecuteResults(s) ==
  IF Exhausted(s)
  THEN {Result(s, "false")}
  ELSE {Result(RolledBack(s), "false"), Result(s, "fault")} \union
       (IF s.next < Len(s.queue)
        THEN {Result([s EXCEPT !.next = s.next + 1], "true")} ELSE {})

RollbackResults(s) == {Result(RolledBack(s), "true"), Result(s, "fault")}

\* Complete clears the queue but keeps the index; the clean-up after that may throw.
CompleteResults(s) ==
  {Result([active |-> 0, queue |-> << >>, next |-> s.next], answer) : answer \in {"true", "fault"}}
=============================================================================
