-------------------------- MODULE SatelliteSession --------------------------
(***************************************************************************)
(* The contract of a satellite as the deployment server relies on it:      *)
(* every call is one atomic step of the session record, with the answer    *)
(* the server gets.  A failed operation and an explicit Rollback undo the  *)
(* executed operations in one step or leave the satellite busy.            *)
(* Module Satellite implements this contract step by step; module          *)
(* Deployment uses it for the satellites of its machines.                  *)
(***************************************************************************)
EXTENDS SatelliteCalls

CONSTANTS
  PublicationIds,   \* ids the server passes to BeginPublication
  Steps             \* deployment steps an operation can be configured from

VARIABLES
  session,          \* the satellite's memory
  answer            \* how the last call ended, as the server sees it

vars == <<session, answer>>

Init == session = FreshSession /\ answer = "none"

Call(results) == Result(session', answer') \in results

BeginPublication(id) == Call(BeginPublicationResults(session, id))

TransferPackage == Call(TransferResults(session))

Enqueue(step) == Call(EnqueueResults(session, step))

ExecuteNextOperation == Call(ExecuteResults(session))

Rollback == Call(RollbackResults(session))

Complete == Call(CompleteResults(session))

Restart == session' = FreshSession /\ answer' = "none"

Next ==
  \/ \E id \in PublicationIds : BeginPublication(id)
  \/ TransferPackage
  \/ \E step \in Steps : Enqueue(step)
  \/ ExecuteNextOperation
  \/ Rollback
  \/ Complete
  \/ Restart

Spec == Init /\ [][Next]_vars
=============================================================================
