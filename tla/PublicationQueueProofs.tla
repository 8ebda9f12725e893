------------------------ MODULE PublicationQueueProofs ------------------------
(***************************************************************************)
(* Proofs about the queue of publications, for any number of packages,     *)
(* environments and publications.  What Deployment and AutoDeployment are  *)
(* checked to implement therefore never starts a publication that a later  *)
(* one has overtaken.                                                      *)
(***************************************************************************)
EXTENDS PublicationQueue, TLAPS

\* The list of the tick is apart from what is running, and holds at most one publication of
\* each package and environment: the one that no started publication follows.
SelectionApart ==
  \A p \in selected :
    /\ p # running
    /\ \A q \in Scheduled : Supersedes(q, p) => q \notin selected /\ q # running

QueueInv == TypeOK /\ SelectionFresh /\ SelectionApart

-----------------------------------------------------------------------------
\* Saving a state changes nothing else of the table.
LEMMA SetStateKeepsRows ==
  ASSUME publications \in Seq(Publication), NEW p \in Scheduled,
         NEW state \in PublicationStates, SetState(p, state)
  PROVE  /\ publications' \in Seq(Publication)
         /\ Scheduled' = Scheduled
         /\ StateOf(p)' = state
         /\ \A q \in Scheduled : q # p => StateOf(q)' = StateOf(q)
         /\ \A q, r \in Scheduled : Supersedes(q, r)' <=> Supersedes(q, r)
  <1>1. publications' = [publications EXCEPT ![p].state = state]
    BY DEF SetState
  <1>2. publications[p] \in Publication
    BY DEF Scheduled
  <1>3. [publications[p] EXCEPT !.state = state] \in Publication
    BY <1>2 DEF Publication
  <1>4. Len(publications') = Len(publications) /\ DOMAIN publications' = 1 .. Len(publications)
    BY <1>1
  <1>5. publications' = [publications EXCEPT ![p] = [publications[p] EXCEPT !.state = state]]
    BY <1>1
  <1>6. publications' \in Seq(Publication)
    BY <1>3, <1>5 DEF Scheduled
  <1>7. \A q \in Scheduled : q # p => publications'[q] = publications[q]
    BY <1>1 DEF Scheduled
  <1>8. publications'[p] = [publications[p] EXCEPT !.state = state]
    BY <1>5 DEF Scheduled
  <1>9. /\ publications'[p].state = state
        /\ publications'[p].package = publications[p].package
        /\ publications'[p].environment = publications[p].environment
    BY <1>2, <1>8 DEF Publication
  <1>10. Scheduled' = Scheduled
    BY <1>4 DEF Scheduled
  <1>11. \A q \in Scheduled : /\ publications'[q].package = publications[q].package
                              /\ publications'[q].environment = publications[q].environment
    BY <1>7, <1>9
  <1> QED
    BY <1>6, <1>7, <1>9, <1>10, <1>11 DEF StateOf, Supersedes

\* New publications come behind all others.
LEMMA ScheduleKeepsRows ==
  ASSUME publications \in Seq(Publication), SchedulePublications
  PROVE  /\ publications' \in Seq(Publication)
         /\ Scheduled \subseteq Scheduled'
         /\ \A q \in Scheduled' \ Scheduled : StateOf(q)' = "Queued" /\ q # 0
         /\ \A q \in Scheduled : StateOf(q)' = StateOf(q)
         /\ \A q, r \in Scheduled : Supersedes(q, r)' <=> Supersedes(q, r)
  BY DEF SchedulePublications, Scheduled, StateOf, Supersedes

-----------------------------------------------------------------------------
LEMMA InitQueueInv == Init => QueueInv
  BY DEF Init, QueueInv, TypeOK, SelectionFresh, SelectionApart, Scheduled

LEMMA NextQueueInv == QueueInv /\ [Next]_vars => QueueInv'
  <1> SUFFICES ASSUME QueueInv, [Next]_vars PROVE QueueInv'
    OBVIOUS
  <1> USE DEF QueueInv
  <1>1. CASE SchedulePublications
    <2>1. /\ publications' \in Seq(Publication)
          /\ Scheduled \subseteq Scheduled'
          /\ \A q \in Scheduled' \ Scheduled : StateOf(q)' = "Queued" /\ q # 0
          /\ \A q \in Scheduled : StateOf(q)' = StateOf(q)
          /\ \A q, r \in Scheduled : Supersedes(q, r)' <=> Supersedes(q, r)
      BY <1>1, ScheduleKeepsRows DEF TypeOK
    <2>2. cancelling' = cancelling /\ selected' = selected /\ running' = running
      BY <1>1 DEF SchedulePublications
    <2>3. TypeOK'
      BY <2>1, <2>2 DEF TypeOK
    <2>4. /\ selected \subseteq Scheduled
          /\ \A q \in Scheduled' \ Scheduled : q # running /\ q \notin selected
      BY <2>1 DEF TypeOK
    <2>5. SelectionFresh'
      BY <2>1, <2>2, <2>4 DEF SelectionFresh, Waiting
    <2>6. SelectionApart'
      BY <2>1, <2>2, <2>4 DEF SelectionApart
    <2> QED
      BY <2>3, <2>5, <2>6
  <1>2. ASSUME NEW p \in Scheduled, ReadForCancel(p)
        PROVE  QueueInv'
    BY <1>2 DEF ReadForCancel, TypeOK, SelectionFresh, SelectionApart, Waiting, StateOf,
                Supersedes, Scheduled
  <1>3. ASSUME NEW p \in Scheduled, SaveCanceled(p)
        PROVE  QueueInv'
    <2>1. /\ publications' \in Seq(Publication)
          /\ Scheduled' = Scheduled
          /\ StateOf(p)' = "Canceled"
          /\ \A q \in Scheduled : q # p => StateOf(q)' = StateOf(q)
          /\ \A q, r \in Scheduled : Supersedes(q, r)' <=> Supersedes(q, r)
      BY <1>3, SetStateKeepsRows DEF TypeOK, SaveCanceled, PublicationStates
    <2>2. cancelling' \subseteq cancelling /\ selected' = selected /\ running' = running
      BY <1>3 DEF SaveCanceled
    <2>3. TypeOK'
      BY <2>1, <2>2 DEF TypeOK
    <2>4. \A q \in Scheduled : Waiting(q) => Waiting(q)'
      BY <2>1 DEF Waiting
    <2> QED
      BY <2>1, <2>2, <2>3, <2>4 DEF SelectionFresh, SelectionApart, TypeOK
  <1>4. ASSUME NEW p \in Scheduled, Start(p)
        PROVE  QueueInv'
    <2>1. /\ publications' \in Seq(Publication)
          /\ Scheduled' = Scheduled
          /\ StateOf(p)' = "InProgress"
          /\ \A q \in Scheduled : q # p => StateOf(q)' = StateOf(q)
          /\ \A q, r \in Scheduled : Supersedes(q, r)' <=> Supersedes(q, r)
      BY <1>4, SetStateKeepsRows DEF TypeOK, Start, PublicationStates
    <2>2. cancelling' = cancelling /\ p \in selected /\ selected' = selected \ {p} /\ running' = p
      BY <1>4 DEF Start
    <2>3. TypeOK'
      BY <2>1, <2>2 DEF TypeOK
    <2>4. \A r \in selected' : \A q \in Scheduled : Supersedes(q, r) => q # p
      BY <2>2 DEF SelectionApart
    <2>5. \A q \in Scheduled : q # p /\ Waiting(q) => Waiting(q)'
      BY <2>1 DEF Waiting
    <2> QED
      BY <2>1, <2>2, <2>3, <2>4, <2>5 DEF SelectionFresh, SelectionApart, TypeOK
  <1>5. CASE SelectPublications
    <2>1. \A r \in Deployable : r # 0 /\ Waiting(r) /\ \A q \in Scheduled : ~Supersedes(q, r)
      BY DEF Deployable, Waiting, Scheduled, TypeOK
    <2> QED
      BY <1>5, <2>1 DEF SelectPublications, TypeOK, SelectionFresh, SelectionApart, Waiting, StateOf,
                  Supersedes, Scheduled, Deployable
  <1>6. ASSUME NEW S \in SUBSET selected, Skip(S) \/ BreakOff(S)
        PROVE  QueueInv'
    <2>1. \A r \in Scheduled : r # 0
      BY DEF Scheduled, TypeOK
    <2>2. /\ selected' \subseteq selected /\ running' = 0
          /\ publications' = publications /\ cancelling' = cancelling
      BY <1>6 DEF Skip, BreakOff
    <2>3. Scheduled' = Scheduled
      BY <2>2 DEF Scheduled
    <2>4. \A q \in Scheduled : Waiting(q)' <=> Waiting(q)
      BY <2>2 DEF Waiting, StateOf
    <2>5. \A q, r \in Scheduled : Supersedes(q, r)' <=> Supersedes(q, r)
      BY <2>2 DEF Supersedes
    <2>6. TypeOK'
      BY <2>2, <2>3 DEF TypeOK
    <2>7. SelectionFresh'
      BY <2>2, <2>3, <2>4, <2>5 DEF SelectionFresh, TypeOK
    <2>8. SelectionApart'
      BY <2>1, <2>2, <2>3, <2>5 DEF SelectionApart, TypeOK
    <2> QED
      BY <2>6, <2>7, <2>8
  <1>7. ASSUME NEW result \in {"Complete", "Error"}, Finish(result)
        PROVE  QueueInv'
    <2>1. PICK p \in Scheduled : p = running
      BY <1>7 DEF Finish, TypeOK
    <2>2. /\ publications' \in Seq(Publication)
          /\ Scheduled' = Scheduled
          /\ \A q \in Scheduled : q # p => StateOf(q)' = StateOf(q)
          /\ \A q, r \in Scheduled : Supersedes(q, r)' <=> Supersedes(q, r)
      BY <1>7, <2>1, SetStateKeepsRows DEF TypeOK, Finish, PublicationStates
    <2>3. cancelling' = cancelling /\ selected' = selected /\ running' = 0
      BY <1>7 DEF Finish
    <2>4. TypeOK'
      BY <2>2, <2>3 DEF TypeOK
    <2>5. \A q \in Scheduled : q # 0
      BY DEF TypeOK, Scheduled
    <2>6. \A q \in Scheduled : q # p /\ Waiting(q) => Waiting(q)'
      BY <2>2 DEF Waiting
    <2>7. SelectionFresh'
      BY <2>1, <2>2, <2>3, <2>6 DEF SelectionFresh, SelectionApart, TypeOK
    <2>8. SelectionApart'
      BY <2>2, <2>3, <2>5 DEF SelectionApart, TypeOK
    <2> QED
      BY <2>4, <2>7, <2>8
  <1>8. CASE Restart
    BY <1>8 DEF Restart, TypeOK, SelectionFresh, SelectionApart, Scheduled
  <1>9. CASE UNCHANGED vars
    BY <1>9 DEF vars, TypeOK, SelectionFresh, SelectionApart, Waiting, StateOf, Supersedes, Scheduled
  <1> QED
    BY <1>1, <1>2, <1>3, <1>4, <1>5, <1>6, <1>7, <1>8, <1>9 DEF Next

LEMMA QueueInvariant == Spec => []QueueInv
  <1> QED
    BY InitQueueInv, NextQueueInv, PTL DEF Spec

-----------------------------------------------------------------------------
\* The table and the list of the tick keep their types.
THEOREM QueueTypeCorrect == Spec => []TypeOK
  <1>1. QueueInv => TypeOK
    BY DEF QueueInv
  <1> QED
    BY <1>1, QueueInvariant, PTL

\* The list that the query of a tick returned stays fresh however long the tick takes:
\* nothing on it, and nothing that supersedes something on it, has been started.
THEOREM QueueSelectionFresh == Spec => []SelectionFresh
  <1>1. QueueInv => SelectionFresh
    BY DEF QueueInv
  <1> QED
    BY <1>1, QueueInvariant, PTL

\* A publication is started only while every later one of its package and environment waits
\* or is canceled, whatever is scheduled and canceled between the query and the start.
THEOREM QueueNoStaleStart == Spec => NoStaleStart
  <1>1. QueueInv /\ [Next]_vars =>
          [\A p \in Scheduled : StateOf(p) # "InProgress" /\ StateOf(p)' = "InProgress" =>
             \A q \in Scheduled : Supersedes(q, p) => Waiting(q)]_vars
    <2> SUFFICES ASSUME QueueInv, Next, NEW p \in Scheduled,
                        StateOf(p) # "InProgress", StateOf(p)' = "InProgress",
                        NEW q \in Scheduled, Supersedes(q, p)
                 PROVE  Waiting(q)
      BY DEF vars
    <2>1. ASSUME NEW r \in Scheduled, Start(r)
          PROVE  Waiting(q)
      <3>1. \A s \in Scheduled : s # r => StateOf(s)' = StateOf(s)
        BY <2>1, SetStateKeepsRows DEF QueueInv, TypeOK, Start, PublicationStates
      <3>2. p = r
        BY <3>1
      <3> QED
        BY <2>1, <3>2 DEF Start, QueueInv, SelectionFresh
    <2>2. ASSUME NEW r \in Scheduled, SaveCanceled(r)
          PROVE  FALSE
      <3>1. StateOf(r)' = "Canceled" /\ \A s \in Scheduled : s # r => StateOf(s)' = StateOf(s)
        BY <2>2, SetStateKeepsRows DEF QueueInv, TypeOK, SaveCanceled, PublicationStates
      <3> QED
        BY <3>1
    <2>3. ASSUME NEW result \in {"Complete", "Error"}, Finish(result)
          PROVE  FALSE
      <3>1. PICK r \in Scheduled : r = running
        BY <2>3 DEF Finish, QueueInv, TypeOK
      <3>2. StateOf(r)' = result /\ \A s \in Scheduled : s # r => StateOf(s)' = StateOf(s)
        BY <2>3, <3>1, SetStateKeepsRows DEF QueueInv, TypeOK, Finish, PublicationStates
      <3> QED
        BY <3>2
    <2>4. ASSUME SchedulePublications
          PROVE  FALSE
      <3>1. \A s \in Scheduled : StateOf(s)' = StateOf(s)
        BY <2>4, ScheduleKeepsRows DEF QueueInv, TypeOK
      <3> QED
        BY <3>1
    <2>5. publications' # publications
      BY DEF StateOf
    <2> QED
      BY <2>1, <2>2, <2>3, <2>4, <2>5
         DEF Next, ReadForCancel, SelectPublications, Skip, BreakOff, Restart
  <1> QED
    BY <1>1, QueueInvariant, PTL DEF Spec, NoStaleStart

\* A publication that has been started, canceled or finished never waits to be deployed again.
THEOREM QueueNeverQueuedAgain == Spec => NeverQueuedAgain
  <1>1. QueueInv /\ [Next]_vars =>
          [\A p \in Scheduled : StateOf(p) # "Queued" => StateOf(p)' # "Queued"]_vars
    <2> SUFFICES ASSUME QueueInv, Next, NEW p \in Scheduled, StateOf(p) # "Queued"
                 PROVE  StateOf(p)' # "Queued"
      BY DEF vars
    <2>1. ASSUME NEW r \in Scheduled, NEW state \in PublicationStates \ {"Queued"}, SetState(r, state)
          PROVE  StateOf(p)' # "Queued"
      <3>1. StateOf(r)' = state /\ \A s \in Scheduled : s # r => StateOf(s)' = StateOf(s)
        BY <2>1, SetStateKeepsRows DEF QueueInv, TypeOK
      <3> QED
        BY <3>1
    <2>2. ASSUME SchedulePublications
          PROVE  StateOf(p)' # "Queued"
      BY <2>2, ScheduleKeepsRows DEF QueueInv, TypeOK
    <2>3. CASE UNCHANGED publications
      BY <2>3 DEF StateOf
    <2>4. ASSUME NEW r \in Scheduled, SaveCanceled(r) \/ Start(r)
          PROVE  StateOf(p)' # "Queued"
      BY <2>1, <2>4 DEF SaveCanceled, Start, PublicationStates
    <2>5. ASSUME NEW result \in {"Complete", "Error"}, Finish(result)
          PROVE  StateOf(p)' # "Queued"
      BY <2>1, <2>5 DEF Finish, PublicationStates, QueueInv, TypeOK
    <2> QED
      BY <2>2, <2>3, <2>4, <2>5
         DEF Next, ReadForCancel, SelectPublications, Skip, BreakOff, Restart
  <1> QED
    BY <1>1, QueueInvariant, PTL DEF Spec, NeverQueuedAgain
=============================================================================
