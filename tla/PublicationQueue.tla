--------------------------- MODULE PublicationQueue ---------------------------
(***************************************************************************)
(* The contract of the table Publication as the queue between the web site *)
(* and one timer thread, whatever a deployment does on the machines.       *)
(* Deployment and AutoDeployment are shown to implement it.                *)
(***************************************************************************)
EXTENDS Naturals, Sequences

CONSTANTS Packages, Environments

VARIABLES
  publications,  \* the rows in the order of CreatedDate
  cancelling,    \* publications a web request has read as queued, to cancel them
  selected,      \* publications the running tick has selected and not come to yet
  running        \* the publication in progress in the running tick, 0 when there is none

vars == <<publications, cancelling, selected, running>>

PublicationStates == {"Queued", "InProgress", "Complete", "Error", "Canceled"}

Publication == [package : Packages, environment : Environments, state : PublicationStates]

Scheduled == 1 .. Len(publications)

StateOf(p) == publications[p].state

SetState(p, state) == publications' = [publications EXCEPT ![p].state = state]

\* q was scheduled after p for the same package and environment.
Supersedes(q, p) ==
  /\ q > p
  /\ publications[q].package = publications[p].package
  /\ publications[q].environment = publications[p].environment

\* The query of DeployScheduledPublications.
Deployable ==
  {p \in Scheduled : StateOf(p) = "Queued" /\ ~\E q \in Scheduled : Supersedes(q, p)}

Init ==
  /\ publications = << >>
  /\ cancelling = {}
  /\ selected = {}
  /\ running = 0

-----------------------------------------------------------------------------
(* The web site and the automatic deployment.                              *)

\* Rows are added behind the others: one by a user, and by the automatic deployment one for
\* each of the bundle versions it has chosen, in one transaction.
SchedulePublications ==
  /\ publications' \in Seq(Publication)
  /\ Len(publications) <= Len(publications')
  /\ \A p \in Scheduled : publications'[p] = publications[p]
  /\ \A p \in Scheduled' \ Scheduled : StateOf(p)' = "Queued"
  /\ UNCHANGED <<cancelling, selected, running>>

\* Cancel reads the latest publication of a package on an environment ...
ReadForCancel(p) ==
  /\ p \in Deployable
  /\ cancelling' = cancelling \union {p}
  /\ UNCHANGED <<publications, selected, running>>

\* ... and saves its new state over whatever state the row has by then.
SaveCanceled(p) ==
  /\ p \in cancelling
  /\ SetState(p, "Canceled")
  /\ cancelling' = cancelling \ {p}
  /\ UNCHANGED <<selected, running>>

-----------------------------------------------------------------------------
(* The timer thread.                                                       *)

SelectPublications ==
  /\ selected = {}
  /\ running = 0
  /\ selected' = Deployable
  /\ UNCHANGED <<publications, cancelling, running>>

\* Publications of the list are left as they are: agents or a package that are not valid,
\* an exception that ends the deployments of their bundle version.
Skip(S) ==
  /\ running = 0
  /\ selected' = selected \ S
  /\ UNCHANGED <<publications, cancelling, running>>

Start(p) ==
  /\ running = 0
  /\ p \in selected
  /\ selected' = selected \ {p}
  /\ running' = p
  /\ SetState(p, "InProgress")
  /\ UNCHANGED cancelling

Finish(result) ==
  /\ running # 0
  /\ SetState(running, result)
  /\ running' = 0
  /\ UNCHANGED <<cancelling, selected>>

\* An exception out of Deploy leaves the row in progress and skips publications of the list.
BreakOff(S) ==
  /\ running # 0
  /\ running' = 0
  /\ selected' = selected \ S
  /\ UNCHANGED <<publications, cancelling>>

\* The web site stops: its threads and requests are gone, the rows are not.
Restart ==
  /\ cancelling' = {}
  /\ selected' = {}
  /\ running' = 0
  /\ UNCHANGED publications

Next ==
  \/ SchedulePublications
  \/ \E p \in Scheduled : ReadForCancel(p) \/ SaveCanceled(p) \/ Start(p)
  \/ SelectPublications
  \/ \E S \in SUBSET selected : Skip(S) \/ BreakOff(S)
  \/ \E result \in {"Complete", "Error"} : Finish(result)
  \/ Restart

Spec == Init /\ [][Next]_vars

-----------------------------------------------------------------------------
(* Properties.                                                             *)

TypeOK ==
  /\ publications \in Seq(Publication)
  /\ cancelling \subseteq Scheduled
  /\ selected \subseteq Scheduled
  /\ running \in Scheduled \union {0}

Waiting(p) == StateOf(p) \in {"Queued", "Canceled"}

\* What the tick has still to come to has never been started, and neither has any later
\* publication of the same package on the same environment: nothing that happens between
\* the query and the deployment makes the list stale in this respect.
SelectionFresh ==
  \A p \in selected :
    /\ Waiting(p)
    /\ \A q \in Scheduled : Supersedes(q, p) => Waiting(q)

\* A publication is started only while every later one of the same package on the same
\* environment still waits or is canceled.
NoStaleStart ==
  [][\A p \in Scheduled : StateOf(p) # "InProgress" /\ StateOf(p)' = "InProgress" =>
       \A q \in Scheduled : Supersedes(q, p) => Waiting(q)]_vars

\* A publication that has been started never waits to be deployed again, whatever is
\* saved over its state.
NeverQueuedAgain ==
  [][\A p \in Scheduled : StateOf(p) # "Queued" => StateOf(p)' # "Queued"]_vars
=============================================================================
