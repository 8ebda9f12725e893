--------------------------- MODULE DeploymentProofs ---------------------------
(***************************************************************************)
(* Proofs about Deployment, for any number of publications, machines,      *)
(* steps and faults.  First the types, the locals of the timer thread, and *)
(* that the table of publications implements PublicationQueue; then what   *)
(* is done on the machines, and the states of the machine publications.    *)
(***************************************************************************)
EXTENDS Deployment, FiniteSetTheorems, SequenceTheorems, WellFoundedInduction, TLAPS

Validating == {"validate", "validateReady"}

\* A machine has accepted the publication.
Engaged == {"reset", "upload", "configure", "run"}

\* The thread is inside the loop body of a machine.
AtMachine == {"validateReady", "begin"} \union Engaged

InDeploy == {"validate", "machine"} \union AtMachine

RowTypes ==
  /\ publications \in Seq(Publication)
  /\ Len(publications) <= MaxPublications
  /\ machinePublications \in [Ids -> [Machines -> MachineStates]]
  /\ cancelling \subseteq Scheduled

ThreadTypes ==
  /\ pc \in {"idle", "batch"} \union InDeploy
  /\ batch \subseteq Scheduled
  /\ bundle \in BundleVersions \union {NoBundle}
  /\ current \in Scheduled \union {0}
  /\ remaining \subseteq Machines
  /\ machine \in Machines \union {NoMachine}
  /\ at \in Nat

SatelliteTypes ==
  /\ sat \in [Machines -> Sessions(Ids, Steps)]
  /\ channel \in [Machines -> {"new", "open", "broken"}]
  /\ work \in [Ids \union {0} -> [Machines -> Seq(Operation)]]
  /\ orphans \subseteq (Ids \X Machines)
  /\ faults \in 0 .. MaxFaults

\* The locals of the timer thread.
Control ==
  /\ pc = "idle" => batch = {}
  /\ pc \in {"idle", "batch"} => current = 0
  /\ pc \in InDeploy =>
       /\ current \in Scheduled
       /\ current \notin batch
       /\ remaining \subseteq Affected(current)
  /\ pc \in AtMachine => machine \in remaining
  /\ pc \in {"configure", "run"} => at <= Len(CurrentSteps)

TypeInv == TypeOK /\ Control

\* Rows are only added, and keep their package and environment.
RowsKept ==
  /\ Scheduled \subseteq Scheduled'
  /\ \A p \in Scheduled :
       /\ PackageOf(p)' = PackageOf(p)
       /\ publications'[p].environment = publications[p].environment

LEMMA TypeParts == TypeOK <=> RowTypes /\ ThreadTypes /\ SatelliteTypes /\ failedTests \subseteq (Ids \X Steps)
  BY DEF TypeOK, RowTypes, ThreadTypes, SatelliteTypes, InDeploy, AtMachine, Engaged

-----------------------------------------------------------------------------
(* The rows of the table Publication.                                      *)

LEMMA RowFields ==
  ASSUME RowTypes, NEW p \in Scheduled
  PROVE  /\ p \in Ids
         /\ publications[p] \in Publication
         /\ PackageOf(p) \in Packages
         /\ publications[p].environment \in Environments
         /\ StateOf(p) \in PublicationStates
         /\ BundleVersionOf(p) \in BundleVersions
         /\ Affected(p) \subseteq Machines
         /\ \A m \in Machines : StepsOf(p, m) \in Seq(Steps)
  <1>1. publications[p] \in Publication /\ p \in Ids
    BY DeploymentAssumption DEF RowTypes, Scheduled, Ids
  <1>2. PackageOf(p) \in Packages /\ publications[p].environment \in Environments
    BY <1>1 DEF Publication, PackageOf
  <1> QED
    BY <1>1, <1>2, DeploymentAssumption DEF Publication, StateOf, BundleVersionOf, Affected, StepsOf

\* Nothing the code derives from the package and the environment of a row changes.
LEMMA KeptRows ==
  ASSUME RowsKept, NEW p \in Scheduled
  PROVE  /\ p \in Scheduled'
         /\ BundleVersionOf(p)' = BundleVersionOf(p)
         /\ Affected(p)' = Affected(p)
         /\ \A m \in Machines : StepsOf(p, m)' = StepsOf(p, m)
         /\ \A m \in Machines : FullWork(p, m)' = FullWork(p, m)
  <1>1. /\ p \in Scheduled'
        /\ PackageOf(p)' = PackageOf(p)
        /\ publications'[p].environment = publications[p].environment
    BY DEF RowsKept
  <1>2. BundleVersionOf(p)' = BundleVersionOf(p)
    BY <1>1 DEF BundleVersionOf
  <1>3. \A m : StepsOf(p, m)' = StepsOf(p, m)
    BY <1>2 DEF StepsOf
  <1>4. Affected(p)' = Affected(p)
    BY <1>1, <1>3 DEF Affected
  <1>5. \A m \in Machines : FullWork(p, m)' = FullWork(p, m)
    BY <1>3 DEF FullWork
  <1> QED
    BY <1>1, <1>2, <1>3, <1>4, <1>5

LEMMA UnchangedRows ==
  ASSUME UNCHANGED publications
  PROVE  RowsKept /\ Scheduled' = Scheduled /\ \A p : StateOf(p)' = StateOf(p)
  BY DEF RowsKept, Scheduled, PackageOf, StateOf

\* Saving a state changes nothing else of the table.
LEMMA SavedRow ==
  ASSUME publications \in Seq(Publication), NEW p \in Scheduled, NEW state \in PublicationStates,
         publications' = [publications EXCEPT ![p].state = state]
  PROVE  /\ publications' \in Seq(Publication)
         /\ Len(publications') = Len(publications)
         /\ RowsKept
         /\ Scheduled' = Scheduled
         /\ StateOf(p)' = state
         /\ \A q \in Scheduled : q # p => StateOf(q)' = StateOf(q)
  <1>1. publications[p] \in Publication
    BY DEF Scheduled
  <1> DEFINE row == [publications[p] EXCEPT !.state = state]
  <1>2. row \in Publication /\ row.state = state
           /\ row.package = publications[p].package /\ row.environment = publications[p].environment
    BY <1>1 DEF Publication
  <1>3. publications' = [publications EXCEPT ![p] = row]
    OBVIOUS
  <1> HIDE DEF row
  <1>4. /\ publications' \in Seq(Publication)
        /\ Len(publications') = Len(publications)
        /\ \A q \in Scheduled : publications'[q] = IF q = p THEN row ELSE publications[q]
    BY <1>2, <1>3 DEF Scheduled
  <1>5. Scheduled' = Scheduled
    BY <1>4 DEF Scheduled
  <1>6. RowsKept
    BY <1>2, <1>4, <1>5 DEF RowsKept, PackageOf
  <1> QED
    BY <1>2, <1>4, <1>5, <1>6 DEF StateOf

\* A new publication comes behind all others.
LEMMA AddedRow ==
  ASSUME publications \in Seq(Publication), NEW package \in Packages, NEW environment \in Environments,
         publications' = Append(publications,
           [package |-> package, environment |-> environment, state |-> "Queued"])
  PROVE  /\ publications' \in Seq(Publication)
         /\ Len(publications') = Len(publications) + 1
         /\ RowsKept
         /\ \A q \in Scheduled' \ Scheduled : StateOf(q)' = "Queued"
         /\ \A q \in Scheduled : StateOf(q)' = StateOf(q)
  <1> DEFINE row == [package |-> package, environment |-> environment, state |-> "Queued"]
             n == Len(publications)
  <1>1. row \in Publication /\ row.state = "Queued"
    BY DEF Publication, PublicationStates
  <1>2. publications' = Append(publications, row)
    OBVIOUS
  <1>3. n \in Nat
    OBVIOUS
  <1> HIDE DEF row
  <1>4. /\ publications' \in Seq(Publication)
        /\ Len(publications') = n + 1
        /\ publications'[n + 1] = row
        /\ \A q \in 1 .. n : publications'[q] = publications[q]
    BY <1>1, <1>2, <1>3, AppendProperties
  <1>5. Scheduled' = Scheduled \union {n + 1} /\ n + 1 \notin Scheduled
    BY <1>3, <1>4 DEF Scheduled
  <1>6. RowsKept
    BY <1>4, <1>5 DEF RowsKept, PackageOf, Scheduled
  <1>7. /\ \A q \in Scheduled' \ Scheduled : StateOf(q)' = "Queued"
        /\ \A q \in Scheduled : StateOf(q)' = StateOf(q)
    BY <1>1, <1>4, <1>5 DEF StateOf, Scheduled
  <1> QED
    BY <1>4, <1>5, <1>6, <1>7

-----------------------------------------------------------------------------
(* Calls to the satellites.                                                *)

\* Results that a satellite in session s can have: an operation it executed was queued.
Plausible(s, results) ==
  \A r \in results :
    /\ r.session \in Sessions(Ids, Steps)
    /\ r.session.next > s.next => s.next < Len(s.queue)

LEMMA SessionFields ==
  ASSUME NEW s \in Sessions(Ids, Steps)
  PROVE  /\ s.active \in Ids \union {0}
         /\ s.queue \in Seq(Operation) /\ Len(s.queue) \in Nat
         /\ s.next \in Nat
         /\ \A active \in Ids \union {0}, queue \in Seq(Operation), next \in Nat :
              [active |-> active, queue |-> queue, next |-> next] \in Sessions(Ids, Steps)
         /\ \A active \in Ids \union {0} : [s EXCEPT !.active = active] \in Sessions(Ids, Steps)
         /\ \A queue \in Seq(Operation) : [s EXCEPT !.queue = queue] \in Sessions(Ids, Steps)
         /\ \A next \in Nat : [s EXCEPT !.next = next] \in Sessions(Ids, Steps)
  <1>1. Sessions(Ids, Steps) = [active : Ids \union {0}, queue : Seq(Operation), next : Nat]
    BY DEF Sessions, Operation
  <1> QED
    BY <1>1

LEMMA PlausibleResults ==
  ASSUME NEW s \in Sessions(Ids, Steps)
  PROVE  /\ Plausible(s, IsReadyResults(s))
         /\ \A id \in Ids : Plausible(s, BeginPublicationResults(s, id))
         /\ Plausible(s, TransferResults(s))
         /\ \A step \in Steps : Plausible(s, EnqueueResults(s, step))
         /\ Plausible(s, ExecuteResults(s))
         /\ Plausible(s, RollbackResults(s))
         /\ Plausible(s, CompleteResults(s))
  <1>1. /\ s.active \in Ids \union {0}
        /\ s.queue \in Seq(Operation) /\ Len(s.queue) \in Nat
        /\ s.next \in Nat
    BY SessionFields
  <1>2. ~(s.next > s.next)
    BY <1>1
  <1>3. Plausible(s, IsReadyResults(s)) /\ Plausible(s, TransferResults(s))
    BY <1>2 DEF Plausible, IsReadyResults, TransferResults, Result
  <1>4. ASSUME NEW id \in Ids PROVE Plausible(s, BeginPublicationResults(s, id))
    <2>1. << >> \in Seq(Operation) /\ ~(0 > s.next)
      BY <1>1
    <2>2. [active |-> id, queue |-> << >>, next |-> 0] \in Sessions(Ids, Steps)
      BY <2>1, SessionFields
    <2> QED
      BY <1>2, <2>1, <2>2 DEF Plausible, BeginPublicationResults, Result
  <1>5. ASSUME NEW step \in Steps PROVE Plausible(s, EnqueueResults(s, step))
    <2> DEFINE op == [step |-> step, package |-> s.active]
    <2>1. op \in Operation
      BY <1>1 DEF Operation
    <2>2. Append(s.queue, op) \in Seq(Operation)
      BY <1>1, <2>1, AppendProperties
    <2> DEFINE t == [s EXCEPT !.queue = Append(s.queue, op)]
    <2>3. t \in Sessions(Ids, Steps)
      BY <2>2, SessionFields
    <2>4. t.next = s.next
      BY DEF Sessions
    <2>5. EnqueueResults(s, step) = {Result(t, "none")}
      BY DEF EnqueueResults
    <2> HIDE DEF t
    <2> QED
      BY <1>2, <2>3, <2>4, <2>5 DEF Plausible, Result
  <1>6. RolledBack(s) \in Sessions(Ids, Steps) /\ RolledBack(s).next = s.next
    BY SessionFields DEF RolledBack, Sessions
  <1>7. Plausible(s, RollbackResults(s))
    BY <1>2, <1>6 DEF Plausible, RollbackResults, Result
  <1>8. Plausible(s, ExecuteResults(s))
    <2> DEFINE t == [s EXCEPT !.next = s.next + 1]
    <2>1. t \in Sessions(Ids, Steps)
      <3>1. s.next + 1 \in Nat
        BY <1>1
      <3> QED
        BY <3>1, SessionFields
    <2>2. ExecuteResults(s) \subseteq {Result(s, "false"), Result(RolledBack(s), "false"), Result(s, "fault")}
             \union (IF s.next < Len(s.queue) THEN {Result(t, "true")} ELSE {})
      BY DEF ExecuteResults
    <2> HIDE DEF t
    <2> QED
      BY <1>2, <1>6, <2>1, <2>2 DEF Plausible, Result
  <1>9. Plausible(s, CompleteResults(s))
    <2>1. << >> \in Seq(Operation)
      OBVIOUS
    <2>2. [active |-> 0, queue |-> << >>, next |-> s.next] \in Sessions(Ids, Steps)
      BY <1>1, <2>1, SessionFields
    <2> QED
      BY <1>2, <2>2 DEF Plausible, CompleteResults, Result
  <1> QED
    BY <1>3, <1>4, <1>5, <1>7, <1>8, <1>9

LEMMA CallTypes ==
  ASSUME SatelliteTypes, NEW m \in Machines, NEW results, Plausible(sat[m], results),
         NEW answer, Calls(m, results, answer)
  PROVE  SatelliteTypes'
  <1> DEFINE s == sat[m]
  <1>1. s \in Sessions(Ids, Steps)
    BY DEF SatelliteTypes
  <1>2. ASSUME NEW r \in results
        PROVE  WorkAfter(m, s, r) \in [Ids \union {0} -> [Machines -> Seq(Operation)]]
    <2>1. work[s.active] \in [Machines -> Seq(Operation)] /\ s.active \in Ids \union {0}
      BY <1>1, SessionFields DEF SatelliteTypes
    <2>2. ASSUME NEW done \in Seq(Operation)
          PROVE  [work EXCEPT ![s.active][m] = done] \in [Ids \union {0} -> [Machines -> Seq(Operation)]]
      BY <2>1 DEF SatelliteTypes
    <2>3. CASE r.session.next > s.next
      <3>1. s.next \in Nat /\ s.next < Len(s.queue) /\ s.queue \in Seq(Operation)
        BY <1>1, <2>3, SessionFields DEF Plausible
      <3>2. s.queue[s.next + 1] \in Operation
        BY <3>1
      <3>3. Append(work[s.active][m], s.queue[s.next + 1]) \in Seq(Operation)
        BY <2>1, <3>2, AppendProperties
      <3>4. WorkAfter(m, s, r)
              = [work EXCEPT ![s.active][m] = Append(work[s.active][m], s.queue[s.next + 1])]
        BY <2>1, <2>3 DEF WorkAfter, SatelliteTypes
      <3> QED
        BY <2>2, <3>3, <3>4
    <2>4. CASE ~(r.session.next > s.next)
      <3>1. << >> \in Seq(Operation)
        OBVIOUS
      <3> QED
        BY <2>2, <2>4, <3>1 DEF WorkAfter, SatelliteTypes
    <2> QED
      BY <2>3, <2>4
  <1>3. sat' \in [Machines -> Sessions(Ids, Steps)]
    BY DEF Calls, SatelliteTypes, Plausible
  <1>4. work' \in [Ids \union {0} -> [Machines -> Seq(Operation)]]
    BY <1>2 DEF Calls, SatelliteTypes
  <1>5. faults' \in 0 .. MaxFaults
    BY DeploymentAssumption DEF Calls, SatelliteTypes
  <1>6. channel' \in [Machines -> {"new", "open", "broken"}] /\ UNCHANGED orphans
    BY DEF Calls, SatelliteTypes
  <1> QED
    BY <1>3, <1>4, <1>5, <1>6 DEF SatelliteTypes, Ids

\* A step that calls no satellite and restarts none.
LEMMA SameSatellites ==
  ASSUME SatelliteTypes, UNCHANGED satellites
  PROVE  SatelliteTypes'
  BY DEF SatelliteTypes, satellites

-----------------------------------------------------------------------------
(* The locals of the timer thread.                                         *)

LEMMA SameThread ==
  ASSUME RowTypes, ThreadTypes, Control, RowsKept, UNCHANGED deployer
  PROVE  ThreadTypes' /\ Control'
  <1>1. UNCHANGED <<pc, batch, bundle, current, remaining, machine, at>>
    BY DEF deployer
  <1>2. Scheduled \subseteq Scheduled'
    BY DEF RowsKept
  <1>3. ThreadTypes'
    BY <1>1, <1>2 DEF ThreadTypes
  <1>4. ASSUME pc \in InDeploy PROVE Affected(current)' = Affected(current)
    BY <1>1, <1>4, KeptRows DEF Control, Affected, StepsOf, BundleVersionOf, PackageOf, RowsKept
  <1>5. ASSUME pc \in {"configure", "run"} PROVE CurrentSteps' = CurrentSteps
    BY <1>1, <1>5 DEF Control, CurrentSteps, StepsOf, BundleVersionOf, PackageOf, RowsKept,
                      InDeploy, AtMachine, Engaged
  <1> QED
    BY <1>1, <1>2, <1>3, <1>4, <1>5 DEF Control

LEMMA EndJobTypes ==
  ASSUME ThreadTypes, Scheduled' = Scheduled, NEW rest \in SUBSET batch, EndJob(rest)
  PROVE  ThreadTypes' /\ Control' /\ batch' = rest /\ current' = 0 /\ pc' \in {"idle", "batch"}
  BY DEF EndJob, ThreadTypes, Control, InDeploy, AtMachine, Engaged

LEMMA AbandonGroupTypes ==
  ASSUME ThreadTypes, Scheduled' = Scheduled, AbandonGroup
  PROVE  ThreadTypes' /\ Control' /\ batch' \subseteq batch /\ current' = 0 /\ pc' \in {"idle", "batch"}
  BY EndJobTypes DEF AbandonGroup

\* The thread goes on with the machine it is at.
LEMMA ProceedTypes ==
  ASSUME RowTypes, ThreadTypes, Control, RowsKept, pc \in AtMachine, NEW next \in Engaged,
         Proceed(next), at' \in Nat, next \in {"configure", "run"} => at' <= Len(CurrentSteps)
  PROVE  ThreadTypes' /\ Control'
  <1>1. pc' = next /\ UNCHANGED <<publications, batch, bundle, current, remaining, machine>>
    BY DEF Proceed
  <1>2. Scheduled \subseteq Scheduled'
    BY DEF RowsKept
  <1>3. ThreadTypes'
    BY <1>1, <1>2 DEF ThreadTypes, InDeploy, AtMachine
  <1>4. Affected(current)' = Affected(current) /\ CurrentSteps' = CurrentSteps
    BY <1>1 DEF Affected, CurrentSteps, StepsOf, BundleVersionOf, PackageOf
  <1> QED
    BY <1>1, <1>2, <1>3, <1>4 DEF Control, InDeploy, AtMachine, Engaged

LEMMA AtAMachine ==
  ASSUME RowTypes, Control, pc \in InDeploy
  PROVE  /\ current \in Scheduled /\ current \in Ids /\ current # 0
         /\ Affected(current) \subseteq Machines
         /\ remaining \subseteq Machines
         /\ pc \in AtMachine => machine \in Machines /\ machine \in Affected(current)
                                  /\ CurrentSteps \in Seq(Steps) /\ Len(CurrentSteps) \in Nat
  <1>1. current \in Scheduled /\ remaining \subseteq Affected(current)
    BY DEF Control
  <1>2. current \in Ids /\ Affected(current) \subseteq Machines
           /\ \A m \in Machines : StepsOf(current, m) \in Seq(Steps)
    BY <1>1, RowFields
  <1>3. current # 0
    BY <1>2 DEF Ids
  <1>4. pc \in AtMachine => machine \in remaining
    BY DEF Control
  <1> QED
    BY <1>1, <1>2, <1>3, <1>4 DEF CurrentSteps

LEMMA SavedMachine ==
  ASSUME RowTypes, NEW p \in Ids, NEW m \in Machines, NEW state \in MachineStates
  PROVE  [machinePublications EXCEPT ![p][m] = state] \in [Ids -> [Machines -> MachineStates]]
  BY DEF RowTypes

\* The publication in progress is saved with a new state.
LEMMA SetPublicationTypes ==
  ASSUME RowTypes, current \in Scheduled, NEW state \in PublicationStates, SetPublication(state)
  PROVE  /\ publications' \in Seq(Publication)
         /\ Len(publications') <= MaxPublications
         /\ Scheduled' = Scheduled
         /\ RowsKept
         /\ \A q \in Scheduled : StateOf(q)' = IF q = current THEN state ELSE StateOf(q)
  BY SavedRow DEF SetPublication, RowTypes

LEMMA FailMachineTypes ==
  ASSUME RowTypes, ThreadTypes, Control, pc \in {"begin"} \union Engaged, UNCHANGED cancelling,
         FailMachine
  PROVE  RowTypes' /\ ThreadTypes' /\ Control'
  <1>1. current \in Scheduled /\ current \in Ids /\ machine \in Machines
    BY AtAMachine DEF InDeploy, AtMachine
  <1>2. /\ publications' \in Seq(Publication) /\ Len(publications') <= MaxPublications
        /\ Scheduled' = Scheduled
    BY <1>1, SetPublicationTypes DEF FailMachine, PublicationStates
  <1>3. machinePublications' \in [Ids -> [Machines -> MachineStates]]
    BY <1>1, SavedMachine DEF FailMachine, SetMachine, MachineStates
  <1>4. RowTypes'
    BY <1>2, <1>3 DEF RowTypes
  <1>5. ThreadTypes' /\ Control'
    BY <1>2, EndJobTypes DEF FailMachine
  <1> QED
    BY <1>4, <1>5

-----------------------------------------------------------------------------
LEMMA TypeInit == Init => TypeInv
  <1> SUFFICES ASSUME Init PROVE TypeInv
    OBVIOUS
  <1>1. RowTypes /\ ThreadTypes /\ failedTests \subseteq (Ids \X Steps)
    BY DeploymentAssumption DEF Init, RowTypes, ThreadTypes, MachineStates, Scheduled
  <1>2. SatelliteTypes
    <2>1. << >> \in Seq(Operation)
      OBVIOUS
    <2>2. FreshSession \in Sessions(Ids, Steps)
      BY <2>1 DEF FreshSession, Sessions, Operation
    <2>3. work \in [Ids \union {0} -> [Machines -> Seq(Operation)]]
      BY <2>1 DEF Init
    <2> QED
      BY <2>2, <2>3, DeploymentAssumption DEF Init, SatelliteTypes
  <1>3. Control
    BY DEF Init, Control, InDeploy, AtMachine, Engaged
  <1> QED
    BY <1>1, <1>2, <1>3, TypeParts DEF TypeInv

LEMMA TypeNext == TypeInv /\ [Next]_vars => TypeInv'
  <1> SUFFICES ASSUME TypeInv, [Next]_vars PROVE TypeInv'
    OBVIOUS
  <1> DEFINE TestTypes == failedTests \subseteq (Ids \X Steps)
             Good == RowTypes' /\ ThreadTypes' /\ Control' /\ SatelliteTypes' /\ TestTypes'
  <1>0. RowTypes /\ ThreadTypes /\ Control /\ SatelliteTypes /\ TestTypes
    BY TypeParts DEF TypeInv
  <1>00. SUFFICES Good
    BY DEF TypeInv, TypeOK, RowTypes, ThreadTypes, SatelliteTypes, InDeploy, AtMachine, Engaged
  <1> HIDE DEF TypeInv
  <1>s. ASSUME UNCHANGED satellites PROVE SatelliteTypes'
    BY <1>0, <1>s, SameSatellites
  <1>t. ASSUME UNCHANGED failedTests PROVE TestTypes'
    BY <1>0, <1>t
  <1>r. ASSUME UNCHANGED <<database, cancelling>>
        PROVE RowTypes' /\ RowsKept /\ Scheduled' = Scheduled
    BY <1>0, <1>r, UnchangedRows DEF RowTypes, database, Scheduled
  <1>p. ASSUME pc \in InDeploy
        PROVE  /\ current \in Scheduled /\ current \in Ids
               /\ remaining \subseteq Machines
               /\ pc \in AtMachine => machine \in Machines
    BY <1>0, <1>p, AtAMachine
  <1>c. ASSUME NEW m \in Machines, NEW results, NEW answer, Plausible(sat[m], results),
               Calls(m, results, answer)
        PROVE  SatelliteTypes'
    BY <1>0, <1>c, CallTypes
  <1>f. \A m \in Machines : sat[m] \in Sessions(Ids, Steps)
    BY <1>0 DEF SatelliteTypes
  <1>e. Engaged \subseteq InDeploy /\ Engaged \subseteq AtMachine /\ Validating \subseteq InDeploy
          /\ "begin" \in AtMachine /\ AtMachine \subseteq InDeploy /\ "machine" \in InDeploy
    BY DEF InDeploy, AtMachine, Engaged, Validating
  <1>1. ASSUME NEW package \in Packages, NEW environment \in Environments,
               SchedulePublication(package, environment)
        PROVE  Good
    <2>1. publications' \in Seq(Publication) /\ Len(publications') = Len(publications) + 1 /\ RowsKept
      BY <1>0, <1>1, AddedRow DEF SchedulePublication, RowTypes
    <2>2. UNCHANGED <<machinePublications, cancelling, deployer, satellites, failedTests>>
      BY <1>1 DEF SchedulePublication
    <2>3. Len(publications) \in Nat /\ Len(publications) < MaxPublications
      BY <1>0, <1>1 DEF SchedulePublication, RowTypes
    <2>4. RowTypes'
      BY <1>0, <2>1, <2>2, <2>3, DeploymentAssumption DEF RowTypes, RowsKept
    <2> QED
      BY <1>0, <1>s, <1>t, <2>1, <2>2, <2>4, SameThread
  <1>2. ASSUME NEW p \in Scheduled, ReadForCancel(p) PROVE Good
    <2>1. UNCHANGED <<database, deployer, satellites, failedTests>>
            /\ cancelling' = cancelling \union {p}
      BY <1>2 DEF ReadForCancel
    <2>2. RowsKept /\ Scheduled' = Scheduled
      BY <2>1, UnchangedRows DEF database
    <2>3. RowTypes'
      BY <1>0, <2>1, <2>2 DEF RowTypes, database
    <2> QED
      BY <1>0, <1>s, <1>t, <2>1, <2>2, <2>3, SameThread
  <1>3. ASSUME NEW p \in Scheduled, SaveCanceled(p) PROVE Good
    <2>1. /\ publications' = [publications EXCEPT ![p].state = "Canceled"]
          /\ cancelling' = cancelling \ {p}
          /\ UNCHANGED <<machinePublications, deployer, satellites, failedTests>>
      BY <1>3 DEF SaveCanceled
    <2>2. /\ publications' \in Seq(Publication) /\ Len(publications') = Len(publications)
          /\ RowsKept /\ Scheduled' = Scheduled
      BY <1>0, <2>1, SavedRow DEF RowTypes, PublicationStates
    <2>3. RowTypes'
      BY <1>0, <2>1, <2>2 DEF RowTypes
    <2> QED
      BY <1>0, <1>s, <1>t, <2>1, <2>2, <2>3, SameThread
  <1>4. CASE SelectPublications
    <2>1. /\ pc = "idle" /\ batch' = Deployable /\ pc' = "batch"
          /\ UNCHANGED <<database, cancelling, bundle, current, remaining, machine, at, satellites,
                         failedTests>>
      BY <1>4 DEF SelectPublications
    <2>2. ThreadTypes' /\ Control'
      BY <1>0, <1>r, <2>1 DEF ThreadTypes, Control, Deployable, InDeploy, AtMachine, Engaged
    <2> QED
      BY <1>s, <1>t, <1>r, <2>1, <2>2
  <1>5. ASSUME NEW p \in Ids, StartJob(p) PROVE Good
    <2>1. /\ p \in batch /\ batch' = batch \ {p} /\ bundle' = BundleVersionOf(p) /\ current' = p
          /\ remaining' = Affected(p)
          /\ channel' = [m \in Machines |-> "new"]
          /\ pc' = "validate"
          /\ UNCHANGED <<publications, cancelling, machine, at, sat, work, orphans, faults, failedTests>>
      BY <1>5 DEF StartJob
    <2>2. RowsKept /\ Scheduled' = Scheduled /\ p \in Scheduled
      BY <1>0, <2>1, UnchangedRows DEF ThreadTypes
    <2>3. Affected(p) \subseteq Machines /\ BundleVersionOf(p) \in BundleVersions
      BY <1>0, <2>2, RowFields
    <2>4. Affected(p)' = Affected(p)
      BY <2>2, KeptRows
    <2>5. machinePublications' \in [Ids -> [Machines -> MachineStates]]
      BY <1>0, <1>5 DEF StartJob, RowTypes, MachineStates
    <2>6. RowTypes'
      BY <1>0, <2>1, <2>2, <2>5 DEF RowTypes
    <2>7. ThreadTypes'
      BY <1>0, <2>1, <2>2, <2>3 DEF ThreadTypes, InDeploy
    <2>8. Control'
      BY <2>1, <2>2, <2>4 DEF Control, InDeploy, AtMachine, Engaged
    <2>9. SatelliteTypes'
      BY <1>0, <2>1 DEF SatelliteTypes
    <2> QED
      BY <1>t, <2>1, <2>6, <2>7, <2>8, <2>9
  <1>6. ASSUME NEW m \in Machines, RollBackAgent(m) PROVE Good
    <2>1. PICK answer \in {"true", "fault"} :
            /\ Calls(m, RollbackResults(sat[m]), answer)
            /\ IF answer = "true"
               THEN /\ machine' = m
                    /\ pc' = "validateReady"
                    /\ UNCHANGED <<batch, bundle, current, remaining, at>>
               ELSE EndJob(batch)
      BY <1>6 DEF RollBackAgent
    <2>2. pc = "validate" /\ m \in remaining /\ UNCHANGED <<database, cancelling, failedTests>>
      BY <1>6 DEF RollBackAgent
    <2>3. SatelliteTypes'
      BY <1>c, <1>f, <1>p, <1>e, <2>1, <2>2, PlausibleResults DEF Plausible, RollbackResults
    <2>4. ThreadTypes' /\ Control'
      <3>1. CASE answer = "true"
        <4>1. Affected(current)' = Affected(current)
          BY <1>r, <1>p, <2>1, <2>2, <3>1, KeptRows DEF Affected, StepsOf, BundleVersionOf, PackageOf, database
        <4>2. ThreadTypes'
          BY <1>0, <1>r, <2>1, <2>2, <3>1 DEF ThreadTypes, InDeploy, AtMachine
        <4> QED
          BY <1>0, <1>r, <2>1, <2>2, <3>1, <4>1, <4>2 DEF Control, InDeploy, AtMachine, Engaged
      <3>2. CASE answer # "true"
        BY <1>0, <1>r, <2>1, <2>2, <3>2, EndJobTypes
      <3> QED
        BY <3>1, <3>2
    <2> QED
      BY <1>t, <1>r, <2>2, <2>3, <2>4
  <1>7. CASE ValidateReady
    <2>1. PICK answer \in {"true", "false", "fault"} :
            /\ Calls(machine, IsReadyResults(sat[machine]), answer)
            /\ IF answer = "true"
               THEN /\ remaining' = remaining \ {machine}
                    /\ machine' = NoMachine
                    /\ pc' = "validate"
                    /\ UNCHANGED <<batch, bundle, current, at>>
               ELSE EndJob(batch)
      BY <1>7 DEF ValidateReady
    <2>2. pc = "validateReady" /\ UNCHANGED <<database, cancelling, failedTests>>
      BY <1>7 DEF ValidateReady
    <2>3. SatelliteTypes'
      BY <1>c, <1>f, <1>p, <1>e, <2>1, <2>2, PlausibleResults DEF AtMachine
    <2>4. ThreadTypes' /\ Control'
      <3>1. CASE answer = "true"
        <4>1. Affected(current)' = Affected(current)
          BY <2>1, <2>2, <3>1 DEF Affected, StepsOf, BundleVersionOf, PackageOf, database
        <4>2. ThreadTypes'
          BY <1>0, <1>r, <2>1, <2>2, <3>1 DEF ThreadTypes, InDeploy, AtMachine
        <4> QED
          BY <1>0, <1>r, <2>1, <2>2, <3>1, <4>1, <4>2 DEF Control, InDeploy, AtMachine, Engaged
      <3>2. CASE answer # "true"
        BY <1>0, <1>r, <2>1, <2>2, <3>2, EndJobTypes
      <3> QED
        BY <3>1, <3>2
    <2> QED
      BY <1>t, <1>r, <2>2, <2>3, <2>4
  <1>8. CASE PackageMissing
    <2>1. /\ EndJob(batch) /\ faults < MaxFaults /\ faults' = faults + 1
          /\ UNCHANGED <<database, cancelling, sat, channel, work, orphans, failedTests>>
      BY <1>8 DEF PackageMissing
    <2>2. ThreadTypes' /\ Control'
      BY <1>0, <1>r, <2>1, EndJobTypes
    <2>3. SatelliteTypes'
      BY <1>0, <2>1, DeploymentAssumption DEF SatelliteTypes
    <2> QED
      BY <1>t, <1>r, <2>1, <2>2, <2>3
  <1>9. CASE StartPublication
    <2>1. /\ pc = "validate" /\ remaining' = Affected(current) /\ pc' = "machine"
          /\ SetPublication("InProgress")
          /\ machinePublications' = [machinePublications EXCEPT ![current] =
               [m \in Machines |-> IF m \in Affected(current) THEN "Queued" ELSE @[m]]]
          /\ UNCHANGED <<cancelling, batch, bundle, current, machine, at, satellites, failedTests>>
      BY <1>9 DEF StartPublication
    <2>2. current \in Scheduled /\ current \in Ids /\ Affected(current) \subseteq Machines
      BY <1>0, <2>1, AtAMachine DEF InDeploy
    <2>3. /\ publications' \in Seq(Publication) /\ Len(publications') <= MaxPublications
          /\ RowsKept /\ Scheduled' = Scheduled
      BY <1>0, <2>1, <2>2, SetPublicationTypes DEF PublicationStates
    <2>4. machinePublications' \in [Ids -> [Machines -> MachineStates]]
      BY <1>0, <2>1, <2>2 DEF RowTypes, MachineStates
    <2>5. RowTypes'
      BY <1>0, <2>1, <2>3, <2>4 DEF RowTypes
    <2>6. Affected(current)' = Affected(current)
      BY <2>1, <2>2, <2>3 DEF RowsKept, Affected, StepsOf, BundleVersionOf, PackageOf
    <2>7. ThreadTypes'
      BY <1>0, <2>1, <2>2, <2>3 DEF ThreadTypes, InDeploy
    <2>8. Control'
      BY <1>0, <2>1, <2>2, <2>3, <2>6 DEF Control, InDeploy, AtMachine, Engaged
    <2> QED
      BY <1>s, <1>t, <2>1, <2>5, <2>7, <2>8
  <1>10. ASSUME NEW m \in Machines, CheckMachine(m) PROVE Good
    <2>1. PICK answer \in {"true", "false", "fault"} :
            /\ Calls(m, IsReadyResults(sat[m]), answer)
            /\ CASE answer = "true" ->
                      /\ machine' = m
                      /\ pc' = "begin"
                      /\ UNCHANGED <<publications, batch, bundle, current, remaining, at>>
                 [] answer = "false" -> SetPublication("Error") /\ EndJob(batch)
                 [] answer = "fault" -> UNCHANGED publications /\ AbandonGroup
      BY <1>10 DEF CheckMachine
    <2>2. /\ pc = "machine" /\ m \in remaining
          /\ UNCHANGED <<machinePublications, cancelling, failedTests>>
      BY <1>10 DEF CheckMachine
    <2>3. SatelliteTypes'
      BY <1>c, <1>f, <1>p, <1>e, <2>1, <2>2, PlausibleResults
    <2>4. RowTypes' /\ ThreadTypes' /\ Control'
      <3>1. CASE answer = "true"
        <4>1. UNCHANGED publications /\ machine' = m /\ pc' = "begin"
                /\ UNCHANGED <<batch, bundle, current, remaining, at>>
          BY <2>1, <3>1
        <4>2. RowTypes' /\ Scheduled' = Scheduled
          BY <1>r, <2>2, <4>1 DEF database
        <4>3. Affected(current)' = Affected(current)
          BY <4>1 DEF Affected, StepsOf, BundleVersionOf, PackageOf
        <4>4. ThreadTypes'
          BY <1>0, <4>1, <4>2 DEF ThreadTypes, InDeploy, AtMachine
        <4> QED
          BY <1>0, <2>2, <4>1, <4>2, <4>3, <4>4 DEF Control, InDeploy, AtMachine, Engaged
      <3>2. CASE answer = "false"
        <4>1. SetPublication("Error") /\ EndJob(batch)
          BY <2>1, <3>2
        <4>2. /\ publications' \in Seq(Publication) /\ Len(publications') <= MaxPublications
              /\ Scheduled' = Scheduled
          BY <1>0, <1>p, <1>e, <2>2, <4>1, SetPublicationTypes DEF PublicationStates
        <4>3. RowTypes'
          BY <1>0, <2>2, <4>2 DEF RowTypes
        <4> QED
          BY <1>0, <4>1, <4>2, <4>3, EndJobTypes
      <3>3. CASE answer = "fault"
        <4>1. UNCHANGED publications /\ AbandonGroup
          BY <2>1, <3>3
        <4>2. RowTypes' /\ Scheduled' = Scheduled
          BY <1>r, <2>2, <4>1 DEF database
        <4> QED
          BY <1>0, <4>1, <4>2, AbandonGroupTypes
      <3> QED
        BY <3>1, <3>2, <3>3
    <2> QED
      BY <1>t, <2>2, <2>3, <2>4
  <1>11. ASSUME pc \in {"begin"} \union Engaged, UNCHANGED cancelling, FailMachine
         PROVE  RowTypes' /\ ThreadTypes' /\ Control'
    BY <1>0, <1>11, FailMachineTypes
  <1>12. ASSUME pc \in AtMachine, NEW state \in MachineStates, SetMachine(machine, state),
                UNCHANGED <<publications, cancelling>>
         PROVE  RowTypes' /\ RowsKept /\ Scheduled' = Scheduled
    <2>1. machinePublications' \in [Ids -> [Machines -> MachineStates]]
      BY <1>0, <1>12, <1>p, <1>e, SavedMachine DEF SetMachine
    <2>2. RowsKept /\ Scheduled' = Scheduled
      BY <1>12, UnchangedRows
    <2> QED
      BY <1>0, <1>12, <2>1, <2>2 DEF RowTypes
  <1>13. ASSUME pc \in AtMachine, RowsKept, NEW next \in Engaged, Proceed(next), at' \in Nat,
                next \in {"configure", "run"} => at' <= Len(CurrentSteps)
         PROVE  ThreadTypes' /\ Control'
    BY <1>0, <1>13, ProceedTypes
  <1>n. /\ at \in Nat
        /\ pc \in AtMachine => Len(CurrentSteps) \in Nat /\ CurrentSteps \in Seq(Steps)
    BY <1>0, <1>e, AtAMachine DEF ThreadTypes
  <1>14. CASE BeginPublication
    <2>1. PICK answer \in {"true", "false", "fault"} :
            /\ Calls(machine, BeginPublicationResults(sat[machine], current), answer)
            /\ IF answer = "fault"
               THEN FailMachine
               ELSE Proceed("reset") /\ UNCHANGED <<at, machinePublications>>
      BY <1>14 DEF BeginPublication
    <2>2. pc = "begin" /\ UNCHANGED <<cancelling, failedTests>>
      BY <1>14 DEF BeginPublication
    <2>3. SatelliteTypes'
      BY <1>c, <1>f, <1>p, <1>e, <2>1, <2>2, PlausibleResults
    <2>4. CASE answer = "fault"
      BY <1>t, <1>11, <2>1, <2>2, <2>3, <2>4
    <2>5. CASE answer # "fault"
      <3>1. Proceed("reset") /\ UNCHANGED <<publications, machinePublications, at>>
        BY <2>1, <2>5 DEF Proceed
      <3>2. RowTypes' /\ RowsKept
        BY <1>r, <2>2, <3>1 DEF database
      <3>3. ThreadTypes' /\ Control'
        BY <1>13, <1>n, <1>e, <2>2, <3>1, <3>2 DEF Engaged
      <3> QED
        BY <1>t, <2>2, <2>3, <3>2, <3>3
    <2> QED
      BY <2>4, <2>5
  <1>15. CASE ResetPackage
    <2>1. PICK answer \in {"none", "fault"} :
            /\ Calls(machine, TransferResults(sat[machine]), answer)
            /\ IF answer = "fault"
               THEN FailMachine
               ELSE Proceed("upload") /\ SetMachine(machine, "Uploading") /\ UNCHANGED at
      BY <1>15 DEF ResetPackage
    <2>2. pc = "reset" /\ pc \in Engaged /\ UNCHANGED <<cancelling, failedTests>>
      BY <1>15 DEF ResetPackage, Engaged
    <2>3. SatelliteTypes'
      BY <1>c, <1>f, <1>p, <1>e, <2>1, <2>2, PlausibleResults
    <2>4. CASE answer = "fault"
      BY <1>t, <1>11, <2>1, <2>2, <2>3, <2>4
    <2>5. CASE answer # "fault"
      <3>1. Proceed("upload") /\ SetMachine(machine, "Uploading") /\ UNCHANGED <<publications, at>>
        BY <2>1, <2>5 DEF Proceed
      <3>2. RowTypes' /\ RowsKept
        BY <1>12, <1>e, <2>2, <3>1 DEF MachineStates
      <3>3. ThreadTypes' /\ Control'
        BY <1>13, <1>n, <1>e, <2>2, <3>1, <3>2 DEF Engaged
      <3> QED
        BY <1>t, <2>2, <2>3, <3>2, <3>3
    <2> QED
      BY <2>4, <2>5
  <1>16. CASE UploadPackage
    <2>1. PICK answer \in {"none", "fault"} :
            /\ Calls(machine, TransferResults(sat[machine]), answer)
            /\ IF answer = "fault"
               THEN FailMachine
               ELSE Proceed("configure") /\ SetMachine(machine, "Configuring") /\ at' = 0
      BY <1>16 DEF UploadPackage
    <2>2. pc = "upload" /\ pc \in Engaged /\ UNCHANGED <<cancelling, failedTests>>
      BY <1>16 DEF UploadPackage, Engaged
    <2>3. SatelliteTypes'
      BY <1>c, <1>f, <1>p, <1>e, <2>1, <2>2, PlausibleResults
    <2>4. CASE answer = "fault"
      BY <1>t, <1>11, <2>1, <2>2, <2>3, <2>4
    <2>5. CASE answer # "fault"
      <3>1. Proceed("configure") /\ SetMachine(machine, "Configuring") /\ UNCHANGED publications
              /\ at' = 0
        BY <2>1, <2>5 DEF Proceed
      <3>2. RowTypes' /\ RowsKept
        BY <1>12, <1>e, <2>2, <3>1 DEF MachineStates
      <3>3. ThreadTypes' /\ Control'
        BY <1>13, <1>n, <1>e, <2>2, <3>1, <3>2 DEF Engaged
      <3> QED
        BY <1>t, <2>2, <2>3, <3>2, <3>3
    <2> QED
      BY <2>4, <2>5
  <1>17. CASE ConfigureStep
    <2>1. PICK answer \in {"none", "fault"} :
            /\ Calls(machine, EnqueueResults(sat[machine], NextStep), answer)
            /\ IF answer = "fault"
               THEN FailMachine
               ELSE Proceed("configure") /\ at' = at + 1 /\ UNCHANGED machinePublications
      BY <1>17 DEF ConfigureStep
    <2>2. /\ pc = "configure" /\ pc \in Engaged /\ at < Len(CurrentSteps)
          /\ UNCHANGED <<cancelling, failedTests>>
      BY <1>17 DEF ConfigureStep, Engaged
    <2>3. SatelliteTypes'
      <3>1. NextStep \in Steps
        BY <1>n, <1>e, <2>2 DEF NextStep
      <3> QED
        BY <1>c, <1>f, <1>p, <1>e, <2>1, <2>2, <3>1, PlausibleResults
    <2>4. CASE answer = "fault"
      BY <1>t, <1>11, <2>1, <2>2, <2>3, <2>4
    <2>5. CASE answer # "fault"
      <3>1. Proceed("configure") /\ at' = at + 1 /\ UNCHANGED <<publications, machinePublications>>
        BY <2>1, <2>5 DEF Proceed
      <3>2. RowTypes' /\ RowsKept
        BY <1>r, <2>2, <3>1 DEF database
      <3>3. at' \in Nat /\ at' <= Len(CurrentSteps)
        BY <1>n, <1>e, <2>2, <3>1
      <3>4. ThreadTypes' /\ Control'
        BY <1>13, <1>e, <2>2, <3>1, <3>2, <3>3
      <3> QED
        BY <1>t, <2>2, <2>3, <3>2, <3>4
    <2> QED
      BY <2>4, <2>5
  <1>18. ASSUME pc \in {"configure", "run"}, at < Len(CurrentSteps), Proceed(pc), at' = at + 1,
                UNCHANGED <<machinePublications, cancelling>>
         PROVE  RowTypes' /\ ThreadTypes' /\ Control'
    <2>1. pc \in Engaged /\ UNCHANGED database
      BY <1>18 DEF Engaged, Proceed, database
    <2>2. RowTypes' /\ RowsKept
      BY <1>r, <1>18, <2>1
    <2>3. at' \in Nat /\ at' <= Len(CurrentSteps)
      BY <1>n, <1>e, <1>18, <2>1
    <2> QED
      BY <1>13, <1>e, <1>18, <2>1, <2>2, <2>3
  <1>19. CASE SkipTestStep
    BY <1>18, <1>19, <1>s, <1>t DEF SkipTestStep
  <1>20. CASE StartRunning
    <2>1. /\ pc = "configure" /\ SetMachine(machine, "Running") /\ Proceed("run") /\ at' = 0
          /\ UNCHANGED <<publications, cancelling, satellites, failedTests>>
      BY <1>20 DEF StartRunning, Proceed
    <2>2. RowTypes' /\ RowsKept
      BY <1>12, <1>e, <2>1 DEF MachineStates, Engaged
    <2>3. ThreadTypes' /\ Control'
      BY <1>13, <1>n, <1>e, <2>1, <2>2 DEF Engaged
    <2> QED
      BY <1>s, <1>t, <2>1, <2>2, <2>3
  <1>21. CASE ExecuteStep
    <2>1. PICK answer \in {"true", "false", "fault"} :
            /\ Calls(machine, ExecuteResults(sat[machine]), answer)
            /\ IF answer = "true"
               THEN Proceed("run") /\ at' = at + 1 /\ UNCHANGED machinePublications
               ELSE FailMachine
      BY <1>21 DEF ExecuteStep
    <2>2. /\ pc = "run" /\ pc \in Engaged /\ at < Len(CurrentSteps)
          /\ UNCHANGED <<cancelling, failedTests>>
      BY <1>21 DEF ExecuteStep, Engaged
    <2>3. SatelliteTypes'
      BY <1>c, <1>f, <1>p, <1>e, <2>1, <2>2, PlausibleResults DEF Plausible, ExecuteResults
    <2>4. RowTypes' /\ ThreadTypes' /\ Control'
      BY <1>11, <1>18, <2>1, <2>2
    <2> QED
      BY <1>t, <2>2, <2>3, <2>4
  <1>22. ASSUME NEW passed \in BOOLEAN, RunTests(passed) PROVE Good
    <2>1. /\ pc = "run" /\ at < Len(CurrentSteps) /\ Proceed("run") /\ at' = at + 1
          /\ failedTests' = IF passed THEN failedTests
                            ELSE failedTests \union {<<current, NextStep>>}
          /\ UNCHANGED <<machinePublications, cancelling, satellites>>
      BY <1>22 DEF RunTests
    <2>2. NextStep \in Steps /\ current \in Ids
      BY <1>n, <1>p, <1>e, <2>1 DEF NextStep, Engaged
    <2>3. TestTypes'
      BY <1>0, <2>1, <2>2
    <2> QED
      BY <1>18, <1>s, <2>1, <2>3
  <1>23. CASE TestRunThrows
    <2>1. /\ pc \in Engaged /\ faults < MaxFaults /\ faults' = faults + 1 /\ FailMachine
          /\ UNCHANGED <<cancelling, sat, channel, work, orphans, failedTests>>
      BY <1>23 DEF TestRunThrows, Engaged
    <2>2. SatelliteTypes'
      BY <1>0, <2>1, DeploymentAssumption DEF SatelliteTypes
    <2> QED
      BY <1>11, <1>t, <2>1, <2>2
  <1>24. CASE CompleteMachine
    <2>1. PICK answer \in {"true", "fault"} :
            /\ Calls(machine, CompleteResults(sat[machine]), answer)
            /\ IF answer = "fault"
               THEN FailMachine
               ELSE /\ SetMachine(machine, "Complete")
                    /\ remaining' = remaining \ {machine}
                    /\ machine' = NoMachine
                    /\ at' = 0
                    /\ pc' = "machine"
                    /\ UNCHANGED <<publications, batch, bundle, current>>
      BY <1>24 DEF CompleteMachine
    <2>2. pc = "run" /\ pc \in Engaged /\ UNCHANGED <<cancelling, failedTests>>
      BY <1>24 DEF CompleteMachine, Engaged
    <2>3. SatelliteTypes'
      BY <1>c, <1>f, <1>p, <1>e, <2>1, <2>2, PlausibleResults
    <2>4. CASE answer = "fault"
      BY <1>t, <1>11, <2>1, <2>2, <2>3, <2>4
    <2>5. CASE answer # "fault"
      <3>1. /\ SetMachine(machine, "Complete") /\ remaining' = remaining \ {machine}
            /\ machine' = NoMachine /\ at' = 0 /\ pc' = "machine"
            /\ UNCHANGED <<publications, batch, bundle, current>>
        BY <2>1, <2>5
      <3>2. RowTypes' /\ RowsKept /\ Scheduled' = Scheduled
        BY <1>12, <1>e, <2>2, <3>1 DEF MachineStates
      <3>3. Affected(current)' = Affected(current)
        BY <3>1 DEF Affected, StepsOf, BundleVersionOf, PackageOf
      <3>4. ThreadTypes'
        BY <1>0, <3>1, <3>2 DEF ThreadTypes, InDeploy
      <3>5. Control'
        BY <1>0, <1>e, <2>2, <3>1, <3>2, <3>3 DEF Control, AtMachine, Engaged
      <3> QED
        BY <1>t, <2>2, <2>3, <3>2, <3>4, <3>5
    <2> QED
      BY <2>4, <2>5
  <1>25. CASE FinishPublication
    <2>1. /\ pc = "machine" /\ SetPublication("Complete") /\ EndJob(batch)
          /\ UNCHANGED <<machinePublications, cancelling, satellites, failedTests>>
      BY <1>25 DEF FinishPublication
    <2>2. /\ publications' \in Seq(Publication) /\ Len(publications') <= MaxPublications
          /\ Scheduled' = Scheduled
      BY <1>0, <1>p, <1>e, <2>1, SetPublicationTypes DEF PublicationStates
    <2>3. RowTypes'
      BY <1>0, <2>1, <2>2 DEF RowTypes
    <2> QED
      BY <1>0, <1>s, <1>t, <2>1, <2>2, <2>3, EndJobTypes
  <1>26. ASSUME NEW m \in Machines, RestartSatellite(m) PROVE Good
    <2>1. /\ faults < MaxFaults /\ faults' = faults + 1
          /\ sat' = [sat EXCEPT ![m] = FreshSession]
          /\ channel' = [channel EXCEPT ![m] = IF @ = "open" THEN "broken" ELSE @]
          /\ orphans' = IF sat[m].active = 0 THEN orphans ELSE orphans \union {<<sat[m].active, m>>}
          /\ UNCHANGED <<database, cancelling, deployer, work, failedTests>>
      BY <1>26 DEF RestartSatellite
    <2>2. FreshSession \in Sessions(Ids, Steps)
      <3>1. << >> \in Seq(Operation)
        OBVIOUS
      <3> QED
        BY <3>1 DEF FreshSession, Sessions, Operation
    <2>3. orphans' \subseteq (Ids \X Machines)
      <3>1. sat[m].active \in Ids \union {0}
        BY <1>f, SessionFields
      <3> QED
        BY <1>0, <2>1, <3>1 DEF SatelliteTypes
    <2>4. SatelliteTypes'
      BY <1>0, <2>1, <2>2, <2>3, DeploymentAssumption DEF SatelliteTypes
    <2> QED
      BY <1>0, <1>r, <1>t, <2>1, <2>4, SameThread
  <1>27. CASE RestartServer
    <2>1. /\ faults < MaxFaults /\ faults' = faults + 1
          /\ pc' = "idle" /\ batch' = {} /\ bundle' = NoBundle /\ current' = 0 /\ remaining' = {}
          /\ machine' = NoMachine /\ at' = 0 /\ cancelling' = {}
          /\ UNCHANGED <<database, sat, channel, work, orphans, failedTests>>
      BY <1>27 DEF RestartServer
    <2>2. RowTypes'
      BY <1>0, <2>1 DEF RowTypes, database, Scheduled
    <2>3. ThreadTypes' /\ Control'
      BY <2>1 DEF ThreadTypes, Control, InDeploy, AtMachine, Engaged
    <2>4. SatelliteTypes'
      BY <1>0, <2>1, DeploymentAssumption DEF SatelliteTypes
    <2> QED
      BY <1>t, <2>1, <2>2, <2>3, <2>4
  <1>28. CASE UNCHANGED vars
    BY <1>0, <1>r, <1>s, <1>t, <1>28, SameThread DEF vars
  <1> QED
    BY <1>1, <1>2, <1>3, <1>4, <1>5, <1>6, <1>7, <1>8, <1>9, <1>10, <1>14, <1>15, <1>16, <1>17,
       <1>19, <1>20, <1>21, <1>22, <1>23, <1>24, <1>25, <1>26, <1>27, <1>28
       DEF Next, DeployerNext

LEMMA TypesAlways == Spec => []TypeInv
  BY TypeInit, TypeNext, PTL DEF Spec

\* The tables, the locals of the timer thread and the sessions of the satellites always
\* have values of their types: no call, restart or lost answer makes the manager index a
\* satellite's queue, a list of steps or a table outside its domain.
THEOREM DeploymentTypeCorrect == Spec => []TypeOK
  <1>1. TypeInv => TypeOK
    BY DEF TypeInv
  <1> QED
    BY <1>1, TypesAlways, PTL

-----------------------------------------------------------------------------
(* The table Publication is a queue.                                       *)

\* Deploy returns or throws in the middle of a publication.
LEMMA EndJobQueue ==
  ASSUME NEW rest, EndJob(rest)
  PROVE  Selected' = rest /\ Running' = 0
  <1>1. batch' = rest /\ pc' \in {"idle", "batch"}
    BY DEF EndJob
  <1> QED
    BY <1>1 DEF Selected, Running

LEMMA FailMachineQueue ==
  ASSUME TypeInv, pc \in {"begin"} \union Engaged, UNCHANGED cancelling, FailMachine
  PROVE  Queue!Next
  <1>1. Running = current /\ Selected = batch /\ current # 0
    BY AtAMachine, TypeParts DEF Running, Selected, Engaged, TypeInv, InDeploy, AtMachine
  <1>2. Selected' = Selected /\ Running' = 0
    BY <1>1, EndJobQueue DEF FailMachine
  <1>3. Queue!Finish("Error")
    BY <1>1, <1>2 DEF FailMachine, SetPublication, Queue!Finish, Queue!SetState
  <1> QED
    BY <1>3 DEF Queue!Next

\* Every step of a deployment is a step of the queue or none of its business.
LEMMA QueueStep == TypeInv /\ [Next]_vars => [Queue!Next]_(Queue!vars)
  <1> SUFFICES ASSUME TypeInv, [Next]_vars PROVE [Queue!Next]_(Queue!vars)
    OBVIOUS
  <1> DEFINE Same == UNCHANGED <<publications, cancelling, Selected, Running>>
  <1>0. RowTypes /\ ThreadTypes /\ Control
    BY TypeParts DEF TypeInv
  <1>1. ASSUME Same PROVE [Queue!Next]_(Queue!vars)
    BY <1>1 DEF Queue!vars
  <1>2. ASSUME UNCHANGED deployer PROVE UNCHANGED <<Selected, Running>>
    BY <1>2 DEF deployer, Selected, Running
  <1>3. ASSUME pc \in Validating
        PROVE  Running = 0 /\ Selected = batch \union {current} /\ current \notin batch
    BY <1>0, <1>3 DEF Validating, Running, Selected, Control, InDeploy, AtMachine
  <1>4. ASSUME pc \in {"machine", "begin"} \union Engaged
        PROVE  Running = current /\ Selected = batch /\ current # 0 /\ current \in Scheduled
    BY <1>0, <1>4, AtAMachine DEF Running, Selected, Engaged, InDeploy, AtMachine
  <1>5. ASSUME pc \in Validating, EndJob(batch), UNCHANGED <<publications, cancelling>>
        PROVE  Queue!Next
    <2>1. Running = 0 /\ Selected' = Selected \ {current} /\ Running' = 0 /\ {current} \in SUBSET Selected
      BY <1>3, <1>5, EndJobQueue
    <2>2. Queue!Skip({current})
      BY <1>5, <2>1 DEF Queue!Skip
    <2> QED
      BY <2>1, <2>2 DEF Queue!Next
  <1>6. ASSUME pc \in {"begin"} \union Engaged, NEW next \in Engaged, Proceed(next), UNCHANGED cancelling
        PROVE  Same
    BY <1>6 DEF Proceed, Selected, Running, Engaged
  <1>7. ASSUME pc \in {"begin"} \union Engaged, UNCHANGED cancelling, FailMachine PROVE Queue!Next
    BY <1>7, FailMachineQueue
  <1>8. ASSUME NEW package \in Packages, NEW environment \in Environments,
               SchedulePublication(package, environment)
        PROVE  Queue!Next
    <2>1. /\ publications' \in Seq(Publication)
          /\ Len(publications') = Len(publications) + 1
          /\ \A q \in Scheduled' \ Scheduled : StateOf(q)' = "Queued"
      BY <1>0, <1>8, AddedRow DEF RowTypes, SchedulePublication
    <2>2. \A q \in Scheduled : publications'[q] = publications[q]
      BY <1>0, <1>8 DEF RowTypes, SchedulePublication, Scheduled
    <2>3. UNCHANGED <<cancelling, Selected, Running>>
      BY <1>2, <1>8 DEF SchedulePublication
    <2>4. Queue!Publication = Publication /\ Len(publications) <= Len(publications')
      BY <1>0, <2>1 DEF Queue!Publication, Publication, Queue!PublicationStates, PublicationStates, RowTypes
    <2>5. Queue!SchedulePublications
      BY <2>1, <2>2, <2>3, <2>4
         DEF Queue!SchedulePublications, Queue!Scheduled, Queue!StateOf, Scheduled, StateOf
    <2> QED
      BY <2>5 DEF Queue!Next
  <1>9. ASSUME NEW p \in Scheduled, ReadForCancel(p) PROVE Queue!Next
    <2>1. p \in Queue!Deployable
      BY <1>9 DEF ReadForCancel, Queue!Deployable, Queue!Scheduled, Queue!StateOf, Queue!Supersedes,
                  Scheduled, StateOf, Supersedes, PackageOf
    <2>2. Queue!ReadForCancel(p)
      BY <1>2, <1>9, <2>1 DEF ReadForCancel, Queue!ReadForCancel, database
    <2> QED
      BY <2>2 DEF Queue!Next, Queue!Scheduled, Scheduled
  <1>10. ASSUME NEW p \in Scheduled, SaveCanceled(p) PROVE Queue!Next
    <2>1. Queue!SaveCanceled(p)
      BY <1>2, <1>10 DEF SaveCanceled, Queue!SaveCanceled, Queue!SetState
    <2> QED
      BY <2>1 DEF Queue!Next, Queue!Scheduled, Scheduled
  <1>11. CASE SelectPublications
    <2>1. Selected = {} /\ Running = 0 /\ Selected' = Deployable /\ Running' = 0
      BY <1>0, <1>11 DEF SelectPublications, Selected, Running, Control
    <2>2. Deployable = Queue!Deployable
      BY DEF Deployable, Queue!Deployable, Queue!Scheduled, Queue!StateOf, Queue!Supersedes,
             Scheduled, StateOf, Supersedes, PackageOf
    <2>3. Queue!SelectPublications
      BY <1>11, <2>1, <2>2 DEF SelectPublications, Queue!SelectPublications, database
    <2> QED
      BY <2>3 DEF Queue!Next
  <1>12. ASSUME NEW p \in Ids, StartJob(p) PROVE Same
    BY <1>12 DEF StartJob, Selected, Running
  <1>13. ASSUME NEW m \in Machines, RollBackAgent(m) PROVE Queue!Next \/ Same
    <2>1. pc \in Validating /\ UNCHANGED <<publications, cancelling>>
      BY <1>13 DEF RollBackAgent, Validating, database
    <2>2. \/ pc' = "validateReady" /\ UNCHANGED <<batch, current>>
          \/ EndJob(batch)
      BY <1>13 DEF RollBackAgent
    <2>3. CASE pc' = "validateReady" /\ UNCHANGED <<batch, current>>
      BY <2>1, <2>3 DEF Validating, Selected, Running
    <2> QED
      BY <1>5, <2>1, <2>2, <2>3
  <1>14. CASE ValidateReady
    <2>1. pc \in Validating /\ UNCHANGED <<publications, cancelling>>
      BY <1>14 DEF ValidateReady, Validating, database
    <2>2. \/ pc' = "validate" /\ UNCHANGED <<batch, current>>
          \/ EndJob(batch)
      BY <1>14 DEF ValidateReady
    <2>3. CASE pc' = "validate" /\ UNCHANGED <<batch, current>>
      BY <1>1, <2>1, <2>3 DEF Validating, Selected, Running
    <2> QED
      BY <1>1, <1>5, <2>1, <2>2, <2>3
  <1>15. CASE PackageMissing
    BY <1>5, <1>15 DEF PackageMissing, Validating, database
  <1>16. CASE StartPublication
    <2>1. /\ pc = "validate" /\ pc' = "machine" /\ SetPublication("InProgress")
          /\ UNCHANGED <<cancelling, batch, current>>
      BY <1>16 DEF StartPublication
    <2>2. /\ Running = 0 /\ current \in Selected
          /\ Selected' = Selected \ {current} /\ Running' = current
      BY <1>3, <2>1 DEF Validating, Selected, Running
    <2>3. current \in Scheduled
      BY <1>0, <2>1 DEF Control, InDeploy
    <2>4. Queue!Start(current)
      BY <2>1, <2>2 DEF Queue!Start, Queue!SetState, SetPublication
    <2> QED
      BY <2>3, <2>4 DEF Queue!Next, Queue!Scheduled, Scheduled
  <1>17. ASSUME NEW m \in Machines, CheckMachine(m) PROVE Queue!Next \/ Same
    <2>1. pc = "machine" /\ UNCHANGED cancelling
      BY <1>17 DEF CheckMachine
    <2>2. \/ pc' = "begin" /\ UNCHANGED <<publications, batch, current>>
          \/ SetPublication("Error") /\ EndJob(batch)
          \/ UNCHANGED publications /\ AbandonGroup
      BY <1>17 DEF CheckMachine
    <2>3. CASE pc' = "begin" /\ UNCHANGED <<publications, batch, current>>
      BY <2>1, <2>3 DEF Selected, Running
    <2>4. CASE SetPublication("Error") /\ EndJob(batch)
      <3>1. Queue!Finish("Error")
        BY <1>4, <2>1, <2>4, EndJobQueue DEF SetPublication, Queue!Finish, Queue!SetState
      <3> QED
        BY <3>1 DEF Queue!Next
    <2>5. CASE UNCHANGED publications /\ AbandonGroup
      <3> DEFINE skipped == {p \in batch : BundleVersionOf(p) = bundle}
      <3>1. Selected' = Selected \ skipped /\ Running' = 0 /\ Running # 0 /\ skipped \in SUBSET Selected
        BY <1>4, <2>1, <2>5, EndJobQueue DEF AbandonGroup
      <3>2. Queue!BreakOff(skipped)
        BY <2>1, <2>5, <3>1 DEF Queue!BreakOff
      <3> QED
        BY <3>1, <3>2 DEF Queue!Next
    <2> QED
      BY <2>2, <2>3, <2>4, <2>5
  <1>18. CASE BeginPublication
    BY <1>6, <1>7, <1>18 DEF BeginPublication, Engaged, Queue!vars
  <1>19. CASE ResetPackage
    BY <1>6, <1>7, <1>19 DEF ResetPackage, Engaged, Queue!vars
  <1>20. CASE UploadPackage
    BY <1>6, <1>7, <1>20 DEF UploadPackage, Engaged, Queue!vars
  <1>21. CASE ConfigureStep
    BY <1>6, <1>7, <1>21 DEF ConfigureStep, Engaged, Queue!vars
  <1>22. CASE SkipTestStep
    BY <1>6, <1>22 DEF SkipTestStep, Engaged, Queue!vars
  <1>23. CASE StartRunning
    BY <1>6, <1>23 DEF StartRunning, Engaged, Queue!vars
  <1>24. CASE ExecuteStep
    BY <1>6, <1>7, <1>24 DEF ExecuteStep, Engaged, Queue!vars
  <1>25. ASSUME NEW passed \in BOOLEAN, RunTests(passed) PROVE Same
    BY <1>6, <1>25 DEF RunTests, Engaged
  <1>26. CASE TestRunThrows
    BY <1>7, <1>26 DEF TestRunThrows, Engaged
  <1>27. CASE CompleteMachine
    <2>1. pc = "run" /\ UNCHANGED cancelling
      BY <1>27 DEF CompleteMachine
    <2>2. \/ FailMachine
          \/ pc' = "machine" /\ UNCHANGED <<publications, batch, current>>
      BY <1>27 DEF CompleteMachine
    <2>3. CASE pc' = "machine" /\ UNCHANGED <<publications, batch, current>>
      BY <1>1, <2>1, <2>3 DEF Selected, Running
    <2> QED
      BY <1>7, <2>1, <2>2, <2>3 DEF Engaged
  <1>28. CASE FinishPublication
    <2>1. Queue!Finish("Complete")
      BY <1>4, <1>28, EndJobQueue DEF FinishPublication, SetPublication, Queue!Finish, Queue!SetState
    <2> QED
      BY <2>1 DEF Queue!Next
  <1>29. ASSUME NEW m \in Machines, RestartSatellite(m) PROVE Same
    BY <1>2, <1>29 DEF RestartSatellite, database
  <1>30. CASE RestartServer
    <2>1. Queue!Restart
      BY <1>30 DEF RestartServer, Queue!Restart, database, Selected, Running
    <2> QED
      BY <2>1 DEF Queue!Next
  <1>31. CASE UNCHANGED vars
    BY <1>1, <1>2, <1>31 DEF vars, database
  <1> QED
    BY <1>1, <1>8, <1>9, <1>10, <1>11, <1>12, <1>13, <1>14, <1>15, <1>16, <1>17, <1>18, <1>19,
       <1>20, <1>21, <1>22, <1>23, <1>24, <1>25, <1>26, <1>27, <1>28, <1>29, <1>30, <1>31
       DEF Next, DeployerNext

\* Whatever happens on the machines and to the calls, the table Publication keeps the
\* contract of the queue: only the publication in progress changes, it was selected as
\* queued by this tick, and what is skipped stays for the next tick (Deploy,
\* DeployScheduledPublications).
THEOREM DeploymentImplementsQueue == Spec => ImplementsQueue
  <1>1. Init => Queue!Init
    BY DEF Init, Queue!Init, Selected, Running
  <1> QED
    BY <1>1, QueueStep, TypesAlways, PTL DEF Spec, ImplementsQueue, Queue!Spec

\* Implementing the queue, the manager has its properties.
QueueFacts == INSTANCE PublicationQueueProofs WITH selected <- Selected, running <- Running

LEMMA QueueFactsApply ==
  /\ Queue!Spec => QueueFacts!Spec
  /\ QueueFacts!NoStaleStart => Queue!NoStaleStart
  /\ QueueFacts!NeverQueuedAgain => Queue!NeverQueuedAgain
  <1>1. Queue!Init => QueueFacts!Init
    BY DEF Queue!Init, QueueFacts!Init
  <1>2. [Queue!Next]_(Queue!vars) => [QueueFacts!Next]_(QueueFacts!vars)
    BY DEF Queue!vars, QueueFacts!vars, Queue!Next, QueueFacts!Next,
           Queue!SchedulePublications, QueueFacts!SchedulePublications,
           Queue!Publication, QueueFacts!Publication,
           Queue!PublicationStates, QueueFacts!PublicationStates,
           Queue!ReadForCancel, QueueFacts!ReadForCancel,
           Queue!SaveCanceled, QueueFacts!SaveCanceled,
           Queue!SelectPublications, QueueFacts!SelectPublications,
           Queue!Start, QueueFacts!Start, Queue!Skip, QueueFacts!Skip,
           Queue!BreakOff, QueueFacts!BreakOff, Queue!Finish, QueueFacts!Finish,
           Queue!Restart, QueueFacts!Restart, Queue!SetState, QueueFacts!SetState,
           Queue!Scheduled, QueueFacts!Scheduled, Queue!StateOf, QueueFacts!StateOf,
           Queue!Deployable, QueueFacts!Deployable, Queue!Supersedes, QueueFacts!Supersedes
  <1> DEFINE
        Fresh1 == \A p \in QueueFacts!Scheduled :
          QueueFacts!StateOf(p) # "InProgress" /\ QueueFacts!StateOf(p)' = "InProgress" =>
            \A q \in QueueFacts!Scheduled : QueueFacts!Supersedes(q, p) => QueueFacts!Waiting(q)
        Fresh2 == \A p \in Queue!Scheduled :
          Queue!StateOf(p) # "InProgress" /\ Queue!StateOf(p)' = "InProgress" =>
            \A q \in Queue!Scheduled : Queue!Supersedes(q, p) => Queue!Waiting(q)
  <1>3. [Fresh1]_(QueueFacts!vars) => [Fresh2]_(Queue!vars)
    BY DEF Queue!vars, QueueFacts!vars, Queue!Scheduled, QueueFacts!Scheduled,
           Queue!StateOf, QueueFacts!StateOf, Queue!Supersedes, QueueFacts!Supersedes,
           Queue!Waiting, QueueFacts!Waiting
  <1>4. QueueFacts!NoStaleStart => Queue!NoStaleStart
    BY <1>3, PTL DEF QueueFacts!NoStaleStart, Queue!NoStaleStart
  <1> DEFINE
        Once1 == \A p \in QueueFacts!Scheduled :
          QueueFacts!StateOf(p) # "Queued" => QueueFacts!StateOf(p)' # "Queued"
        Once2 == \A p \in Queue!Scheduled :
          Queue!StateOf(p) # "Queued" => Queue!StateOf(p)' # "Queued"
  <1>5. [Once1]_(QueueFacts!vars) => [Once2]_(Queue!vars)
    BY DEF Queue!vars, QueueFacts!vars, Queue!Scheduled, QueueFacts!Scheduled,
           Queue!StateOf, QueueFacts!StateOf
  <1>6. QueueFacts!NeverQueuedAgain => Queue!NeverQueuedAgain
    BY <1>5, PTL DEF QueueFacts!NeverQueuedAgain, Queue!NeverQueuedAgain
  <1> QED
    BY <1>1, <1>2, <1>4, <1>6, PTL DEF Queue!Spec, QueueFacts!Spec

\* The manager never starts a publication that a later one of the same package and
\* environment has overtaken, although the list it works through is as old as the tick
\* (DeployScheduledPublications, Deploy): the theorem about the queue holds of what
\* implements it.
THEOREM DeploymentNoStaleStart == Spec => Queue!NoStaleStart
  BY QueueFactsApply, QueueFacts!QueueNoStaleStart, DeploymentImplementsQueue DEF ImplementsQueue

\* A publication that the manager has started, or a user canceled, is never queued again,
\* whatever an exception or a restart makes of the tick and whatever a late cancellation saves
\* over the state: one that broke off stays as it is until a user schedules another.
THEOREM DeploymentNeverQueuedAgain == Spec => Queue!NeverQueuedAgain
  BY QueueFactsApply, QueueFacts!QueueNeverQueuedAgain, DeploymentImplementsQueue DEF ImplementsQueue

-----------------------------------------------------------------------------
(* What a step does to the rows.                                           *)

\* What no machine has begun.
New(p) == p \notin Scheduled \/ StateOf(p) = "Queued" \/ p \in Selected

\* What is selected has not started, what is running is not finished.
RowsInv ==
  /\ \A p \in Selected : StateOf(p) \in {"Queued", "Canceled"}
  /\ Running # 0 => StateOf(Running) \in {"InProgress", "Canceled"}

LEMMA SelectedAndRunning ==
  ASSUME TypeInv
  PROVE  /\ Selected \subseteq Scheduled
         /\ Running \in Scheduled \union {0}
         /\ Running # 0 => Running \in Scheduled /\ Running \notin Selected
         /\ pc \in {"machine", "begin"} \union Engaged => Running = current /\ current # 0
         /\ Running # 0 => pc \in {"machine", "begin"} \union Engaged
  <1>1. RowTypes /\ ThreadTypes /\ Control
    BY TypeParts DEF TypeInv
  <1>2. pc \in InDeploy => current \in Scheduled /\ current # 0 /\ current \notin batch
    BY <1>1, AtAMachine DEF Control
  <1>3. batch \subseteq Scheduled
    BY <1>1 DEF ThreadTypes
  <1> QED
    BY <1>2, <1>3 DEF Selected, Running, InDeploy, AtMachine, Engaged

\* Rows keep what they are about; only the queue's steps change their states, a new row is
\* queued, and what has begun is never new again.
LEMMA RowsStep ==
  ASSUME TypeInv, [Next]_vars
  PROVE  /\ RowsKept
         /\ \A p : New(p)' => New(p)
         /\ \A p \in Scheduled' \ Scheduled : StateOf(p)' = "Queued"
         /\ \A p \in Scheduled : \/ StateOf(p)' \in {StateOf(p), "Canceled"}
                                 \/ p = Running
                                 \/ p = Running' /\ StateOf(p)' = "InProgress"
         /\ RowsInv => RowsInv'
  <1> DEFINE Goal ==
         /\ RowsKept
         /\ \A p : New(p)' => New(p)
         /\ \A p \in Scheduled' \ Scheduled : StateOf(p)' = "Queued"
         /\ \A p \in Scheduled : \/ StateOf(p)' \in {StateOf(p), "Canceled"}
                                 \/ p = Running
                                 \/ p = Running' /\ StateOf(p)' = "InProgress"
         /\ RowsInv => RowsInv'
  <1> SUFFICES Goal
    OBVIOUS
  <1>1. RowTypes /\ publications \in Seq(Publication)
    BY TypeParts DEF TypeInv, RowTypes
  <1>2. /\ Selected \subseteq Scheduled
        /\ Running \in Scheduled \union {0}
        /\ Running # 0 => Running \in Scheduled /\ Running \notin Selected
        /\ 0 \notin Scheduled
    BY SelectedAndRunning DEF Scheduled
  <1>3. ASSUME UNCHANGED publications, Selected' \subseteq Selected, Running' \in {0, Running} PROVE Goal
    <2>1. RowsKept /\ Scheduled' = Scheduled /\ \A p : StateOf(p)' = StateOf(p)
      BY <1>3, UnchangedRows
    <2> QED
      BY <1>2, <1>3, <2>1 DEF New, RowsInv, StateOf
  <1>4. ASSUME NEW p \in Scheduled, NEW state \in PublicationStates,
               publications' = [publications EXCEPT ![p].state = state]
        PROVE  /\ RowsKept /\ Scheduled' = Scheduled
               /\ \A q \in Scheduled : StateOf(q)' = IF q = p THEN state ELSE StateOf(q)
    BY <1>1, <1>4, SavedRow
  <1>5. ASSUME Queue!SchedulePublications
        PROVE  Goal
    <2>1. /\ RowsKept
          /\ \A q \in Scheduled' \ Scheduled : StateOf(q)' = "Queued"
          /\ \A q \in Scheduled : StateOf(q)' = StateOf(q)
      BY <1>1, <1>5
         DEF Queue!SchedulePublications, Queue!Scheduled, Queue!StateOf, RowsKept, Scheduled,
             PackageOf, StateOf
    <2>2. Selected' = Selected /\ Running' = Running /\ Scheduled \subseteq Scheduled'
      BY <1>5, <2>1 DEF Queue!SchedulePublications, RowsKept
    <2> QED
      BY <1>2, <2>1, <2>2 DEF New, RowsInv
  <1>6. ASSUME NEW p \in Scheduled, Queue!SaveCanceled(p) PROVE Goal
    <2>1. /\ RowsKept /\ Scheduled' = Scheduled
          /\ \A q \in Scheduled : StateOf(q)' = IF q = p THEN "Canceled" ELSE StateOf(q)
      BY <1>4, <1>6 DEF Queue!SaveCanceled, Queue!SetState, PublicationStates
    <2>2. Selected' = Selected /\ Running' = Running
      BY <1>6 DEF Queue!SaveCanceled
    <2> QED
      BY <1>2, <2>1, <2>2 DEF New, RowsInv, StateOf
  <1>7. CASE Queue!SelectPublications
    <2>1. RowsKept /\ Scheduled' = Scheduled /\ \A p : StateOf(p)' = StateOf(p)
      BY <1>7, UnchangedRows DEF Queue!SelectPublications
    <2>2. Running = 0 /\ Running' = 0 /\ Selected' = Queue!Deployable
      BY <1>7 DEF Queue!SelectPublications
    <2>3. \A p \in Queue!Deployable : StateOf(p) = "Queued"
      BY DEF Queue!Deployable, Queue!StateOf, StateOf
    <2> QED
      BY <1>2, <2>1, <2>2, <2>3 DEF New, RowsInv, StateOf
  <1>8. ASSUME NEW p \in Scheduled, Queue!Start(p) PROVE Goal
    <2>1. /\ RowsKept /\ Scheduled' = Scheduled
          /\ \A q \in Scheduled : StateOf(q)' = IF q = p THEN "InProgress" ELSE StateOf(q)
      BY <1>4, <1>8 DEF Queue!Start, Queue!SetState, PublicationStates
    <2>2. p \in Selected /\ Selected' = Selected \ {p} /\ Running' = p
      BY <1>8 DEF Queue!Start
    <2> QED
      BY <1>2, <2>1, <2>2 DEF New, RowsInv, StateOf
  <1>9. ASSUME NEW result \in {"Complete", "Error"}, Queue!Finish(result) PROVE Goal
    <2>1. /\ Running \in Scheduled /\ Running \notin Selected
          /\ Selected' = Selected /\ Running' = 0
          /\ publications' = [publications EXCEPT ![Running].state = result]
      BY <1>2, <1>9 DEF Queue!Finish, Queue!SetState
    <2>2. PICK p \in Scheduled : p = Running
      BY <2>1
    <2>3. /\ RowsKept /\ Scheduled' = Scheduled
          /\ \A q \in Scheduled : StateOf(q)' = IF q = p THEN result ELSE StateOf(q)
      BY <1>4, <2>1, <2>2 DEF PublicationStates
    <2> QED
      BY <1>2, <2>1, <2>2, <2>3 DEF New, RowsInv, StateOf
  <1>10. ASSUME NEW p, Queue!ReadForCancel(p) PROVE Goal
    BY <1>3, <1>10 DEF Queue!ReadForCancel
  <1>11. ASSUME NEW S, Queue!Skip(S) \/ Queue!BreakOff(S) PROVE Goal
    BY <1>3, <1>11 DEF Queue!Skip, Queue!BreakOff
  <1>12. CASE Queue!Restart
    BY <1>3, <1>12 DEF Queue!Restart
  <1>13. CASE UNCHANGED Queue!vars
    BY <1>3, <1>13 DEF Queue!vars
  <1> HIDE DEF Goal
  <1> QED
    BY QueueStep, <1>5, <1>6, <1>7, <1>8, <1>9, <1>10, <1>11, <1>12, <1>13
       DEF Queue!Next, Queue!Scheduled, Scheduled

-----------------------------------------------------------------------------
(* The work on the machines.                                               *)

IsBeginning(s, t) == Len(s) <= Len(t) /\ \A k \in 1 .. Len(s) : s[k] = t[k]

-----------------------------------------------------------------------------
(***************************************************************************)
(* The work of a publication is a recursive function of the steps.  The    *)
(* induction its proofs need is that every nonempty set of numbers has a   *)
(* least element.                                                          *)
(***************************************************************************)
LEMMA SetInduction ==
  ASSUME NEW S, 0 \in S, \A n \in Nat : n \in S => n + 1 \in S
  PROVE  Nat \subseteq S
  <1> DEFINE T == {n \in Nat : n \notin S}
  <1>1. SUFFICES ASSUME T # {} PROVE FALSE
    OBVIOUS
  <1>2. PICK n \in T : \A k \in T : <<k, n>> \notin OpToRel(<, Nat)
    BY <1>1, NatLessThanWellFounded, WFMin
  <1>3. n # 0 /\ n - 1 \in Nat /\ n - 1 \notin S
    OBVIOUS
  <1>4. <<n - 1, n>> \in OpToRel(<, Nat)
    BY <1>3 DEF OpToRel
  <1> QED
    BY <1>2, <1>3, <1>4

HasIteration(N, S, first, G) ==
  \E f \in [0 .. N -> S] : f[0] = first /\ \A i \in 1 .. N : f[i] = G[i][f[i - 1]]

\* There is a sequence of the values reached from first by N steps.
LEMMA IterationExists ==
  ASSUME NEW N \in Nat, NEW S, NEW first \in S, NEW G \in [1 .. N -> [S -> S]]
  PROVE  HasIteration(N, S, first, G)
  <1> DEFINE Reached(f, n) == f[0] = first /\ \A i \in 1 .. n : f[i] = G[i][f[i - 1]]
             Reachable(n) == \E f \in [0 .. n -> S] : Reached(f, n)
             T == {n \in Nat : n <= N => Reachable(n)}
  <1>1. Reachable(0)
    <2>1. [i \in 0 .. 0 |-> first] \in [0 .. 0 -> S] /\ Reached([i \in 0 .. 0 |-> first], 0)
      OBVIOUS
    <2> QED
      BY <2>1
  <1>2. ASSUME NEW n \in Nat, n + 1 <= N, Reachable(n) PROVE Reachable(n + 1)
    <2>1. PICK f \in [0 .. n -> S] : Reached(f, n)
      BY <1>2
    <2> DEFINE g == [i \in 0 .. n + 1 |-> IF i = n + 1 THEN G[n + 1][f[n]] ELSE f[i]]
    <2>2. n + 1 \in 1 .. N /\ f[n] \in S
      BY <1>2
    <2>3. G[n + 1][f[n]] \in S
      BY <2>2
    <2>4. g \in [0 .. n + 1 -> S]
      BY <2>3
    <2>5. g[0] = f[0]
      OBVIOUS
    <2>6. ASSUME NEW i \in 1 .. n + 1 PROVE g[i] = G[i][g[i - 1]]
      <3>1. CASE i = n + 1
        <4>1. g[i] = G[n + 1][f[n]] /\ g[n] = f[n]
          BY <3>1
        <4> QED
          BY <3>1, <4>1
      <3>2. CASE i # n + 1
        <4>1. i \in 1 .. n /\ i - 1 \in 0 .. n
          BY <3>2
        <4>2. g[i] = f[i] /\ g[i - 1] = f[i - 1]
          BY <3>2, <4>1
        <4> QED
          BY <2>1, <4>1, <4>2
      <3> QED
        BY <3>1, <3>2
    <2> HIDE DEF g
    <2> QED
      BY <2>1, <2>4, <2>5, <2>6
  <1> HIDE DEF Reachable
  <1>3. 0 \in T
    BY <1>1
  <1>4. \A n \in Nat : n \in T => n + 1 \in T
    BY <1>2
  <1>5. N \in T
    <2> HIDE DEF T
    <2> QED
      BY <1>3, <1>4, SetInduction
  <1> QED
    BY <1>5 DEF Reachable, HasIteration

LEMMA WorkUpToDef ==
  ASSUME NEW steps \in Seq(Steps), NEW p \in Ids
  PROVE  LET w == WorkUpTo(steps, p) IN
         /\ \A i \in 0 .. Len(steps) : w[i] \in Seq(Operation)
         /\ w[0] = << >>
         /\ \A i \in 0 .. Len(steps) - 1 :
              w[i + 1] = IF steps[i + 1] \in TestSteps THEN w[i]
                         ELSE Append(w[i], [step |-> steps[i + 1], package |-> p])
  <1> DEFINE N == Len(steps)
             op(i) == [step |-> steps[i], package |-> p]
             G == [i \in 1 .. N |-> [s \in Seq(Operation) |->
                     IF steps[i] \in TestSteps THEN s ELSE Append(s, op(i))]]
             Body(w) == [i \in 0 .. N |->
                IF i = 0 THEN << >>
                ELSE IF steps[i] \in TestSteps THEN w[i - 1]
                ELSE Append(w[i - 1], op(i))]
             W == WorkUpTo(steps, p)
  <1>1. N \in Nat /\ \A i \in 1 .. N : op(i) \in Operation
    BY DEF Operation
  <1>2. G \in [1 .. N -> [Seq(Operation) -> Seq(Operation)]]
    <2>1. ASSUME NEW i \in 1 .. N, NEW s \in Seq(Operation)
          PROVE  (IF steps[i] \in TestSteps THEN s ELSE Append(s, op(i))) \in Seq(Operation)
      <3> HIDE DEF op
      <3> QED
        BY <1>1, AppendProperties
    <2> QED
      BY <2>1
  <1>3. PICK f \in [0 .. N -> Seq(Operation)] :
           f[0] = << >> /\ \A i \in 1 .. N : f[i] = G[i][f[i - 1]]
    <2> DEFINE S == Seq(Operation)
               first == << >>
    <2>1. first \in S
      OBVIOUS
    <2>2. HasIteration(N, S, first, G)
      <3>1. N \in Nat /\ G \in [1 .. N -> [S -> S]]
        BY <1>1, <1>2
      <3> HIDE DEF G, N, S, first
      <3> QED
        BY <2>1, <3>1, IterationExists
    <2> QED
      BY <2>2 DEF HasIteration
  <1>4. f = Body(f)
    <2>1. ASSUME NEW i \in 0 .. N PROVE f[i] = Body(f)[i]
      <3>1. CASE i = 0
        BY <1>3, <3>1
      <3>2. CASE i # 0
        <4>1. i \in 1 .. N /\ f[i - 1] \in Seq(Operation)
          BY <1>1, <3>2
        <4>2. f[i] = G[i][f[i - 1]]
          BY <1>3, <4>1
        <4> QED
          BY <3>2, <4>1, <4>2
      <3> QED
        BY <3>1, <3>2
    <2> QED
      BY <2>1
  <1>5. W = CHOOSE w : w = Body(w)
    BY DEF WorkUpTo
  <1>6. W = Body(W)
    <2> HIDE DEF W, Body
    <2> QED
      BY <1>4, <1>5
  <1>7. W[0] = << >> /\ \A i \in 0 .. N - 1 :
           W[i + 1] = IF steps[i + 1] \in TestSteps THEN W[i] ELSE Append(W[i], op(i + 1))
    <2> HIDE DEF W
    <2>1. 0 \in 0 .. N /\ Body(W)[0] = << >>
      BY <1>1
    <2>2. ASSUME NEW i \in 0 .. N - 1
          PROVE  W[i + 1] = IF steps[i + 1] \in TestSteps THEN W[i] ELSE Append(W[i], op(i + 1))
      <3>1. i + 1 \in 0 .. N /\ i + 1 # 0 /\ (i + 1) - 1 = i
        BY <1>1
      <3>2. Body(W)[i + 1] = IF steps[i + 1] \in TestSteps THEN W[i] ELSE Append(W[i], op(i + 1))
        <4> HIDE DEF op, N
        <4> QED
          BY <3>1
      <3> QED
        BY <1>6, <3>2
    <2> QED
      BY <1>6, <2>1, <2>2
  <1>8. \A i \in 0 .. N : W[i] \in Seq(Operation)
    <2> DEFINE T == {i \in Nat : i <= N => W[i] \in Seq(Operation)}
    <2> HIDE DEF W
    <2>1. 0 \in T
      <3>1. << >> \in Seq(Operation)
        OBVIOUS
      <3> QED
        BY <1>7, <3>1
    <2>2. ASSUME NEW i \in Nat, i \in T PROVE i + 1 \in T
      <3>1. SUFFICES ASSUME i + 1 <= N PROVE W[i + 1] \in Seq(Operation)
        OBVIOUS
      <3>2. W[i] \in Seq(Operation) /\ i \in 0 .. N - 1 /\ i + 1 \in 1 .. N
        BY <2>2, <3>1, <1>1
      <3>3. op(i + 1) \in Operation
        BY <1>1, <3>2
      <3>4. W[i + 1] = IF steps[i + 1] \in TestSteps THEN W[i] ELSE Append(W[i], op(i + 1))
        BY <1>7, <3>2
      <3> HIDE DEF op
      <3> QED
        BY <3>2, <3>3, <3>4, AppendProperties
    <2>3. Nat \subseteq T
      BY <2>1, <2>2, SetInduction
    <2> QED
      BY <2>3, <1>1
  <1> QED
    BY <1>7, <1>8

LEMMA WorkGrows ==
  ASSUME NEW steps \in Seq(Steps), NEW p \in Ids, NEW j \in 0 .. Len(steps), NEW i \in 0 .. j
  PROVE  IsBeginning(WorkUpTo(steps, p)[i], WorkUpTo(steps, p)[j])
  <1> DEFINE W == WorkUpTo(steps, p)
             T == {k \in Nat : i <= k /\ k <= Len(steps) => IsBeginning(W[i], W[k])}
  <1>0. \A k \in 0 .. Len(steps) : W[k] \in Seq(Operation)
    BY WorkUpToDef
  <1>1. 0 \in T
    BY <1>0 DEF IsBeginning
  <1>2. ASSUME NEW k \in Nat, k \in T PROVE k + 1 \in T
    <2>1. SUFFICES ASSUME i <= k + 1, k + 1 <= Len(steps) PROVE IsBeginning(W[i], W[k + 1])
      OBVIOUS
    <2>2. CASE i = k + 1
      BY <1>0, <2>1, <2>2 DEF IsBeginning
    <2>3. CASE i # k + 1
      <3>1. IsBeginning(W[i], W[k]) /\ k \in 0 .. Len(steps) - 1
        BY <1>2, <2>1, <2>3
      <3>2. W[k + 1] = IF steps[k + 1] \in TestSteps THEN W[k]
                       ELSE Append(W[k], [step |-> steps[k + 1], package |-> p])
        BY <3>1, WorkUpToDef
      <3>3. W[k] \in Seq(Operation) /\ W[i] \in Seq(Operation)
        BY <1>0, <3>1
      <3>4. IsBeginning(W[k], W[k + 1])
        <4> HIDE DEF W
        <4> QED
          BY <3>2, <3>3, AppendProperties DEF IsBeginning
      <3> HIDE DEF W
      <3> QED
        BY <3>1, <3>3, <3>4 DEF IsBeginning
    <2> QED
      BY <2>2, <2>3
  <1>3. Nat \subseteq T
    <2> HIDE DEF T
    <2> QED
      BY <1>1, <1>2, SetInduction
  <1> QED
    BY <1>3

\* The operations of p that are executed on m when the thread has passed i of its steps.
Executed(p, m, i) == WorkUpTo(StepsOf(p, m), p)[i]

LEMMA ExecutedFacts ==
  ASSUME RowTypes, NEW p \in Scheduled, NEW m \in Machines
  PROVE  /\ Len(StepsOf(p, m)) \in Nat
         /\ Executed(p, m, 0) = << >>
         /\ FullWork(p, m) = Executed(p, m, Len(StepsOf(p, m)))
         /\ FullWork(p, m) \in Seq(Operation)
         /\ \A i \in 0 .. Len(StepsOf(p, m)) :
              /\ Executed(p, m, i) \in Seq(Operation)
              /\ IsBeginning(Executed(p, m, i), FullWork(p, m))
         /\ \A i \in 0 .. Len(StepsOf(p, m)) - 1 :
              Executed(p, m, i + 1) =
                IF StepsOf(p, m)[i + 1] \in TestSteps THEN Executed(p, m, i)
                ELSE Append(Executed(p, m, i), [step |-> StepsOf(p, m)[i + 1], package |-> p])
  <1>1. StepsOf(p, m) \in Seq(Steps) /\ p \in Ids
    BY RowFields
  <1> DEFINE steps == StepsOf(p, m)
  <1>2. Len(steps) \in Nat /\ Len(steps) \in 0 .. Len(steps)
    BY <1>1
  <1>3. FullWork(p, m) = Executed(p, m, Len(steps))
    BY DEF FullWork, Executed
  <1>4. /\ Executed(p, m, 0) = << >>
        /\ \A i \in 0 .. Len(steps) : Executed(p, m, i) \in Seq(Operation)
        /\ \A i \in 0 .. Len(steps) - 1 :
              Executed(p, m, i + 1) =
                IF steps[i + 1] \in TestSteps THEN Executed(p, m, i)
                ELSE Append(Executed(p, m, i), [step |-> steps[i + 1], package |-> p])
    <2> HIDE DEF steps
    <2>1. Executed(p, m, 0) = WorkUpTo(steps, p)[0]
            /\ \A i : Executed(p, m, i) = WorkUpTo(steps, p)[i]
      BY DEF Executed, steps
    <2> QED
      BY <1>1, <2>1, WorkUpToDef DEF steps
  <1>5. \A i \in 0 .. Len(steps) : IsBeginning(Executed(p, m, i), FullWork(p, m))
    <2> HIDE DEF steps
    <2>1. ASSUME NEW i \in 0 .. Len(steps)
          PROVE  IsBeginning(WorkUpTo(steps, p)[i], WorkUpTo(steps, p)[Len(steps)])
      BY <1>1, <1>2, WorkGrows DEF steps
    <2> QED
      BY <1>3, <2>1 DEF Executed, steps
  <1> QED
    BY <1>2, <1>3, <1>4, <1>5

LEMMA KeptWork ==
  ASSUME RowsKept, NEW p \in Scheduled, NEW m \in Machines, NEW i
  PROVE  Executed(p, m, i)' = Executed(p, m, i)
  <1>1. StepsOf(p, m)' = StepsOf(p, m)
    BY KeptRows
  <1> QED
    BY <1>1 DEF Executed

-----------------------------------------------------------------------------
(* What a call does to a satellite.                                        *)

\* Only the satellite of m can have changed, and what was done on it for its publication.
OnlyOn(m) ==
  /\ \A other \in Machines : other # m => sat'[other] = sat[other] /\ channel'[other] = channel[other]
  /\ \A p \in Ids \union {0}, other \in Machines :
       p # sat[m].active \/ other # m => work'[p][other] = work[p][other]
  /\ UNCHANGED orphans

Keeps(m) ==
  /\ sat'[m] = sat[m]
  /\ \A p \in Ids \union {0} : work'[p][m] = work[p][m]

Executes(m) ==
  LET s == sat[m] IN
    /\ s.next < Len(s.queue)
    /\ sat'[m] = [s EXCEPT !.next = s.next + 1]
    /\ work'[s.active][m] = Append(work[s.active][m], s.queue[s.next + 1])

Undoes(m) ==
  /\ sat[m].active # 0
  /\ sat'[m] = RolledBack(sat[m])
  /\ work'[sat[m].active][m] = << >>

\* A satellite with an empty queue has nothing executed for the publication.
Completes(m) ==
  LET s == sat[m] IN
    /\ sat'[m] = [active |-> 0, queue |-> << >>, next |-> s.next]
    /\ \/ work'[s.active][m] = work[s.active][m]
       \/ s.queue = << >> /\ work'[s.active][m] = << >>

LEMMA CallEffect ==
  ASSUME SatelliteTypes, NEW m \in Machines, NEW results, NEW answer, Calls(m, results, answer)
  PROVE  /\ OnlyOn(m)
         /\ channel'[m] = IF channel[m] = "new" THEN "open" ELSE channel[m]
         /\ sat[m] \in Sessions(Ids, Steps)
         /\ work[sat[m].active][m] \in Seq(Operation)
         /\ \/ answer = "fault" /\ Keeps(m)
            \/ /\ channel[m] # "broken"
               /\ \E r \in results :
                    /\ answer \in {r.answer, "fault"}
                    /\ sat'[m] = r.session
                    /\ IF r.session.next > sat[m].next
                       THEN work'[sat[m].active][m]
                              = Append(work[sat[m].active][m], sat[m].queue[sat[m].next + 1])
                       ELSE IF r.session # sat[m] /\ r.session = RolledBack(sat[m])
                       THEN work'[sat[m].active][m] = << >>
                       ELSE work'[sat[m].active][m] = work[sat[m].active][m]
  <1>1. sat[m] \in Sessions(Ids, Steps) /\ sat[m].active \in Ids \union {0}
    BY SessionFields DEF SatelliteTypes
  <1>2. /\ sat \in [Machines -> Sessions(Ids, Steps)]
        /\ channel \in [Machines -> {"new", "open", "broken"}]
        /\ work \in [Ids \union {0} -> [Machines -> Seq(Operation)]]
    BY DEF SatelliteTypes
  <1>3. /\ channel' = [channel EXCEPT ![m] = IF @ = "new" THEN "open" ELSE @]
        /\ UNCHANGED orphans
    BY DEF Calls
  <1>4. CASE answer = "fault" /\ UNCHANGED <<sat, work>>
    BY <1>1, <1>2, <1>3, <1>4 DEF OnlyOn, Keeps
  <1>5. CASE /\ channel[m] # "broken"
             /\ \E r \in results : /\ answer \in {r.answer, "fault"}
                                   /\ sat' = [sat EXCEPT ![m] = r.session]
                                   /\ work' = WorkAfter(m, sat[m], r)
    <2>1. PICK r \in results : /\ answer \in {r.answer, "fault"}
                               /\ sat' = [sat EXCEPT ![m] = r.session]
                               /\ work' = WorkAfter(m, sat[m], r)
      BY <1>5
    <2>2. sat'[m] = r.session /\ \A other \in Machines : other # m => sat'[other] = sat[other]
      BY <1>2, <2>1
    <2> DEFINE a == sat[m].active
               done == IF r.session.next > sat[m].next
                       THEN Append(work[a][m], sat[m].queue[sat[m].next + 1])
                       ELSE IF r.session # sat[m] /\ r.session = RolledBack(sat[m])
                       THEN << >>
                       ELSE work[a][m]
    <2>3. work' = [work EXCEPT ![a][m] = done]
      <3>1. CASE r.session.next > sat[m].next
        BY <1>1, <1>2, <2>1, <3>1 DEF WorkAfter
      <3>2. CASE ~(r.session.next > sat[m].next) /\ r.session # sat[m] /\ r.session = RolledBack(sat[m])
        BY <1>1, <1>2, <2>1, <3>2 DEF WorkAfter
      <3>3. CASE ~(r.session.next > sat[m].next) /\ ~(r.session # sat[m] /\ r.session = RolledBack(sat[m]))
        <4>1. done = work[a][m] /\ work' = work
          BY <2>1, <3>3 DEF WorkAfter
        <4> HIDE DEF done
        <4> QED
          BY <1>1, <1>2, <4>1
      <3> QED
        BY <3>1, <3>2, <3>3
    <2> HIDE DEF done
    <2>4. /\ work'[a][m] = done
          /\ \A p \in Ids \union {0}, other \in Machines :
               p # a \/ other # m => work'[p][other] = work[p][other]
      BY <1>1, <1>2, <2>3
    <2>5. OnlyOn(m)
      BY <1>2, <1>3, <2>2, <2>4 DEF OnlyOn
    <2>6. channel'[m] = IF channel[m] = "new" THEN "open" ELSE channel[m]
      BY <1>2, <1>3
    <2>7. work[a][m] \in Seq(Operation)
      BY <1>1, <1>2
    <2>8. IF r.session.next > sat[m].next
          THEN work'[a][m] = Append(work[a][m], sat[m].queue[sat[m].next + 1])
          ELSE IF r.session # sat[m] /\ r.session = RolledBack(sat[m])
          THEN work'[a][m] = << >>
          ELSE work'[a][m] = work[a][m]
      BY <2>4 DEF done
    <2> HIDE DEF done
    <2> QED
      BY <1>1, <1>5, <2>1, <2>2, <2>5, <2>6, <2>7, <2>8
  <1> QED
    BY <1>4, <1>5 DEF Calls

LEMMA ReadyCall ==
  ASSUME SatelliteTypes, NEW m \in Machines, NEW answer, Calls(m, IsReadyResults(sat[m]), answer)
  PROVE  /\ OnlyOn(m) /\ Keeps(m)
         /\ channel'[m] = IF channel[m] = "new" THEN "open" ELSE channel[m]
         /\ answer = "true" => sat[m].active = 0
         /\ answer = "false" => sat[m].active # 0
         /\ answer \in {"true", "false", "fault"}
  BY CallEffect, SessionFields DEF IsReadyResults, IsReady, Result, OnlyOn, Keeps

LEMMA TransferCall ==
  ASSUME SatelliteTypes, NEW m \in Machines, NEW answer, Calls(m, TransferResults(sat[m]), answer)
  PROVE  /\ OnlyOn(m) /\ Keeps(m)
         /\ channel'[m] = IF channel[m] = "new" THEN "open" ELSE channel[m]
         /\ answer # "fault" => channel[m] # "broken"
  BY CallEffect, SessionFields DEF TransferResults, Result, OnlyOn, Keeps

LEMMA BeginCall ==
  ASSUME SatelliteTypes, NEW m \in Machines, NEW id \in Ids, NEW answer,
         Calls(m, BeginPublicationResults(sat[m], id), answer)
  PROVE  /\ OnlyOn(m)
         /\ channel'[m] = IF channel[m] = "new" THEN "open" ELSE channel[m]
         /\ sat[m].active = 0 =>
              \/ answer = "fault" /\ Keeps(m)
              \/ /\ channel[m] # "broken"
                 /\ sat'[m] = [active |-> id, queue |-> << >>, next |-> 0]
                 /\ \A p \in Ids \union {0} : work'[p][m] = work[p][m]
  <1> DEFINE s == sat[m]
             fresh == [active |-> id, queue |-> << >>, next |-> 0]
  <1>1. s.active = 0 => BeginPublicationResults(s, id) = {Result(fresh, "true")}
    BY DEF BeginPublicationResults, IsReady
  <1>2. PICK r : \/ answer = "fault" /\ Keeps(m)
                 \/ /\ channel[m] # "broken"
                    /\ r \in BeginPublicationResults(s, id)
                    /\ answer \in {r.answer, "fault"}
                    /\ sat'[m] = r.session
                    /\ IF r.session.next > s.next
                       THEN work'[s.active][m] = Append(work[s.active][m], s.queue[s.next + 1])
                       ELSE IF r.session # s /\ r.session = RolledBack(s)
                       THEN work'[s.active][m] = << >>
                       ELSE work'[s.active][m] = work[s.active][m]
    BY CallEffect
  <1>3. /\ OnlyOn(m) /\ s \in Sessions(Ids, Steps)
        /\ channel'[m] = IF channel[m] = "new" THEN "open" ELSE channel[m]
    BY CallEffect
  <1>4. fresh.next = 0 /\ fresh.active = id /\ id # 0
    BY DEF Ids
  <1>5. s.next \in Nat /\ RolledBack(s).active = 0
    BY <1>3, SessionFields DEF RolledBack, Sessions
  <1>6. ~(fresh.next > s.next) /\ fresh # RolledBack(s)
    BY <1>4, <1>5
  <1> HIDE DEF fresh
  <1>7. s.active = 0 /\ r \in BeginPublicationResults(s, id) => r.session = fresh
    BY <1>1 DEF Result
  <1> QED
    BY <1>2, <1>3, <1>6, <1>7 DEF OnlyOn, fresh

LEMMA EnqueueCall ==
  ASSUME SatelliteTypes, NEW m \in Machines, NEW step \in Steps, NEW answer,
         Calls(m, EnqueueResults(sat[m], step), answer)
  PROVE  /\ OnlyOn(m)
         /\ channel'[m] = IF channel[m] = "new" THEN "open" ELSE channel[m]
         /\ \A p \in Ids \union {0} : work'[p][m] = work[p][m]
         /\ sat'[m].active = sat[m].active
         /\ sat'[m].next = sat[m].next
         /\ answer # "fault" =>
              /\ channel[m] # "broken"
              /\ sat'[m].queue = Append(sat[m].queue, [step |-> step, package |-> sat[m].active])
         /\ channel[m] = "broken" => sat'[m] = sat[m]
  <1> DEFINE s == sat[m]
             op == [step |-> step, package |-> s.active]
             t == [s EXCEPT !.queue = Append(s.queue, op)]
  <1>1. EnqueueResults(s, step) = {Result(t, "none")}
    BY DEF EnqueueResults
  <1>2. s \in Sessions(Ids, Steps)
    BY CallEffect
  <1>3. /\ s.active \in Ids \union {0} /\ s.queue \in Seq(Operation) /\ Len(s.queue) \in Nat
        /\ s.next \in Nat
    BY <1>2, SessionFields
  <1>4. op \in Operation
    BY <1>3 DEF Operation
  <1>5. Len(Append(s.queue, op)) = Len(s.queue) + 1
    BY <1>3, <1>4, AppendProperties
  <1>6. t.active = s.active /\ t.next = s.next /\ t.queue = Append(s.queue, op)
    BY <1>2 DEF Sessions
  <1>7. RolledBack(s).queue = s.queue
    BY <1>2 DEF RolledBack, Sessions
  <1> HIDE DEF t, op
  <1>8. t # RolledBack(s) /\ ~(t.next > s.next)
    BY <1>3, <1>5, <1>6, <1>7
  <1>9. /\ OnlyOn(m)
        /\ channel'[m] = IF channel[m] = "new" THEN "open" ELSE channel[m]
        /\ \/ answer = "fault" /\ Keeps(m)
           \/ /\ channel[m] # "broken"
              /\ sat'[m] = t
              /\ work'[s.active][m] = work[s.active][m]
    BY <1>1, <1>8, CallEffect DEF Result
  <1> QED
    BY <1>6, <1>9 DEF OnlyOn, Keeps, op

LEMMA ExecuteCall ==
  ASSUME SatelliteTypes, NEW m \in Machines, NEW answer, Calls(m, ExecuteResults(sat[m]), answer)
  PROVE  /\ OnlyOn(m)
         /\ channel'[m] = IF channel[m] = "new" THEN "open" ELSE channel[m]
         /\ Keeps(m) \/ (channel[m] # "broken" /\ (Executes(m) \/ Undoes(m)))
         /\ answer = "true" => channel[m] # "broken" /\ Executes(m)
  <1> DEFINE s == sat[m]
             t == [s EXCEPT !.next = s.next + 1]
  <1>1. s \in Sessions(Ids, Steps)
    BY CallEffect
  <1>2. s.active \in Ids \union {0} /\ Len(s.queue) \in Nat /\ s.next \in Nat
    BY <1>1, SessionFields
  <1>3. ExecuteResults(s) \subseteq
          {Result(s, "false"), Result(RolledBack(s), "false"), Result(s, "fault")} \union
          (IF s.next < Len(s.queue) THEN {Result(t, "true")} ELSE {})
    BY DEF ExecuteResults
  <1>4. t.next = s.next + 1 /\ RolledBack(s).next = s.next
    BY <1>1 DEF RolledBack, Sessions
  <1>5. s.active = 0 => RolledBack(s) = s
    BY <1>1 DEF RolledBack, Sessions
  <1> HIDE DEF t
  <1>6. PICK r : \/ answer = "fault" /\ Keeps(m)
                 \/ /\ channel[m] # "broken"
                    /\ r \in ExecuteResults(s)
                    /\ answer \in {r.answer, "fault"}
                    /\ sat'[m] = r.session
                    /\ IF r.session.next > s.next
                       THEN work'[s.active][m] = Append(work[s.active][m], s.queue[s.next + 1])
                       ELSE IF r.session # s /\ r.session = RolledBack(s)
                       THEN work'[s.active][m] = << >>
                       ELSE work'[s.active][m] = work[s.active][m]
    BY CallEffect
  <1>7. OnlyOn(m) /\ channel'[m] = IF channel[m] = "new" THEN "open" ELSE channel[m]
    BY CallEffect
  <1>8. CASE answer = "fault" /\ Keeps(m)
    BY <1>7, <1>8
  <1>9. CASE ~(answer = "fault" /\ Keeps(m))
    <2>1. CASE r = Result(t, "true") /\ s.next < Len(s.queue)
      <3>1. r.session = t /\ t.next > s.next
        BY <1>2, <1>4, <2>1 DEF Result
      <3>2. channel[m] # "broken" /\ sat'[m] = t
              /\ work'[s.active][m] = Append(work[s.active][m], s.queue[s.next + 1])
        BY <1>6, <1>9, <3>1
      <3> QED
        BY <1>7, <2>1, <3>2 DEF Executes, t
    <2>2. CASE r.session = s /\ r.answer # "true"
      <3>1. work'[s.active][m] = work[s.active][m] /\ sat'[m] = s /\ answer # "true"
        BY <1>2, <1>6, <1>9, <2>2
      <3> QED
        BY <1>7, <3>1 DEF Keeps, OnlyOn
    <2>3. CASE r = Result(RolledBack(s), "false") /\ RolledBack(s) # s
      BY <1>2, <1>4, <1>5, <1>6, <1>7, <1>9, <2>3 DEF Result, Undoes
    <2>4. r \in ExecuteResults(s)
      BY <1>6, <1>9
    <2> QED
      BY <1>3, <2>1, <2>2, <2>3, <2>4 DEF Result
  <1> QED
    BY <1>8, <1>9

LEMMA RollbackCall ==
  ASSUME SatelliteTypes, NEW m \in Machines, NEW answer, Calls(m, RollbackResults(sat[m]), answer)
  PROVE  /\ OnlyOn(m)
         /\ channel'[m] = IF channel[m] = "new" THEN "open" ELSE channel[m]
         /\ Keeps(m) \/ (channel[m] # "broken" /\ Undoes(m))
  <1> DEFINE s == sat[m]
  <1>1. s \in Sessions(Ids, Steps)
    BY CallEffect
  <1>2. s.active \in Ids \union {0} /\ s.next \in Nat
    BY <1>1, SessionFields
  <1>3. RolledBack(s).next = s.next /\ (s.active = 0 => RolledBack(s) = s)
    BY <1>1 DEF RolledBack, Sessions
  <1>4. RollbackResults(s) = {Result(RolledBack(s), "true"), Result(s, "fault")}
    BY DEF RollbackResults
  <1>5. /\ OnlyOn(m)
        /\ channel'[m] = IF channel[m] = "new" THEN "open" ELSE channel[m]
        /\ \/ Keeps(m)
           \/ /\ channel[m] # "broken"
              /\ sat'[m] \in {s, RolledBack(s)}
              /\ IF sat'[m] # s THEN work'[s.active][m] = << >>
                 ELSE work'[s.active][m] = work[s.active][m]
    BY <1>2, <1>3, <1>4, CallEffect DEF Result
  <1> QED
    BY <1>2, <1>3, <1>5 DEF OnlyOn, Keeps, Undoes

LEMMA CompleteCall ==
  ASSUME SatelliteTypes, NEW m \in Machines, NEW answer, Calls(m, CompleteResults(sat[m]), answer)
  PROVE  /\ OnlyOn(m)
         /\ channel'[m] = IF channel[m] = "new" THEN "open" ELSE channel[m]
         /\ Keeps(m) \/ (channel[m] # "broken" /\ Completes(m))
         /\ answer # "fault" => channel[m] # "broken" /\ Completes(m)
  <1> DEFINE s == sat[m]
             t == [active |-> 0, queue |-> << >>, next |-> s.next]
  <1>1. s \in Sessions(Ids, Steps) /\ s.next \in Nat
    BY CallEffect, SessionFields
  <1>2. CompleteResults(s) = {Result(t, answer2) : answer2 \in {"true", "fault"}}
    BY DEF CompleteResults
  <1>3. t = RolledBack(s) => s.queue = << >>
    BY <1>1 DEF RolledBack, Sessions
  <1>4. t.next = s.next
    OBVIOUS
  <1> HIDE DEF t
  <1>5. /\ OnlyOn(m)
        /\ channel'[m] = IF channel[m] = "new" THEN "open" ELSE channel[m]
        /\ \/ answer = "fault" /\ Keeps(m)
           \/ /\ channel[m] # "broken"
              /\ sat'[m] = t
              /\ \/ work'[s.active][m] = work[s.active][m]
                 \/ t = RolledBack(s) /\ work'[s.active][m] = << >>
    BY <1>1, <1>2, <1>4, CallEffect DEF Result
  <1> QED
    BY <1>3, <1>5 DEF Completes, t

-----------------------------------------------------------------------------
(* The inductive invariant of the satellites.                              *)

Untouched(p) == \A m \in Machines : work[p][m] = << >> /\ sat[m].active # p

Done(p, m) == work[p][m] = FullWork(p, m) /\ sat[m].active # p

\* A publication is being run.
InRun == pc \in {"machine", "begin"} \union Engaged

\* A channel breaks when its satellite restarts, and then carries no further call.
BrokenIsFree == \A m \in Machines : channel[m] = "broken" => sat[m].active = 0

NewIsUntouched == \A p \in Ids : New(p) => Untouched(p)

WorkIsBeginning ==
  \A p \in Scheduled, m \in Machines :
    /\ work[p][m] # << >> => m \in Affected(p)
    /\ IsBeginning(work[p][m], FullWork(p, m))

CompleteIsDone ==
  \A p \in Scheduled : StateOf(p) = "Complete" => \A m \in Affected(p) : Done(p, m)

PartialIsActive ==
  \A p \in Scheduled, m \in Machines :
    work[p][m] \in {<< >>, FullWork(p, m)} \/ <<p, m>> \in orphans \/ sat[m].active = p

\* The satellites the validation has passed are free,
ValidatedIsFree ==
  pc \in Validating => \A m \in Affected(current) \ remaining : sat[m].active = 0

\* those the loop over the machines has still to visit are free and have done nothing,
RemainingIsFree ==
  InRun =>
    \A m \in remaining :
      m # machine \/ pc \in {"machine", "begin"} => sat[m].active = 0 /\ work[current][m] = << >>

\* and those it has left have done everything.
VisitedIsDone ==
  InRun => \A m \in Affected(current) \ remaining : Done(current, m)

\* The session of the satellite that is being deployed to is where the thread believes it
\* to be, as long as the channel is open.
SessionAsExpected ==
  pc \in Engaged =>
    /\ channel[machine] # "new"
    /\ channel[machine] = "open" =>
         /\ sat[machine].active = current
         /\ sat[machine].queue =
              CASE pc = "configure" -> Executed(current, machine, at)
                [] pc = "run" -> FullWork(current, machine)
                [] OTHER -> << >>
         /\ work[current][machine] = IF pc = "run" THEN Executed(current, machine, at) ELSE << >>
         /\ sat[machine].next = Len(work[current][machine])

WorkInv ==
  /\ BrokenIsFree
  /\ NewIsUntouched
  /\ WorkIsBeginning
  /\ CompleteIsDone
  /\ PartialIsActive

LoopInv ==
  /\ ValidatedIsFree
  /\ RemainingIsFree
  /\ VisitedIsDone
  /\ SessionAsExpected

SatInv == TypeInv /\ RowsInv /\ WorkInv /\ LoopInv

-----------------------------------------------------------------------------
(* What a step does to the satellites.                                     *)

SameWork(m) == \A p \in Ids \union {0} : work'[p][m] = work[p][m]

Accepts(m) ==
  /\ sat[m].active = 0
  /\ sat'[m] = [active |-> current, queue |-> << >>, next |-> 0]
  /\ SameWork(m)

Enqueues(m) == sat'[m].active = sat[m].active /\ SameWork(m)

Restarts(m) ==
  /\ sat'[m] = FreshSession
  /\ SameWork(m)
  /\ sat[m].active # 0 => <<sat[m].active, m>> \in orphans'

\* A call that changes a satellite goes over a channel that is not broken.
CallStep(m) ==
  /\ channel[m] # "broken" /\ channel'[m] # "broken"
  /\ \A p \in Ids \union {0} : p # sat[m].active => work'[p][m] = work[p][m]
  /\ \/ Undoes(m)
     \/ /\ pc \in AtMachine /\ m = machine
        /\ \/ pc = "begin" /\ Accepts(m)
           \/ pc = "configure" /\ Enqueues(m)
           \/ pc = "run" /\ at < Len(CurrentSteps) /\ NextStep \notin TestSteps /\ Executes(m)
           \/ pc = "run" /\ at = Len(CurrentSteps) /\ Completes(m)

Rests(m) == Keeps(m) /\ (channel'[m] = "broken" => channel[m] = "broken")

SatelliteStep(m) == Rests(m) \/ Restarts(m) \/ CallStep(m)

LEMMA OthersRest ==
  ASSUME NEW m \in Machines, OnlyOn(m), NEW other \in Machines, other # m
  PROVE  Rests(other)
  BY DEF OnlyOn, Rests, Keeps

LEMMA CallerRests ==
  ASSUME NEW m \in Machines, OnlyOn(m), Keeps(m),
         channel'[m] = IF channel[m] = "new" THEN "open" ELSE channel[m]
  PROVE  \A other \in Machines : Rests(other)
  BY OthersRest DEF Rests

LEMMA EveryoneRests ==
  ASSUME SatelliteTypes, UNCHANGED <<sat, work>>, UNCHANGED channel \/ channel' = [m \in Machines |-> "new"]
  PROVE  \A m \in Machines : Rests(m)
  BY DEF Rests, Keeps, SatelliteTypes

LEMMA CallIsStep ==
  ASSUME NEW m \in Machines, OnlyOn(m), channel[m] # "broken",
         channel'[m] = IF channel[m] = "new" THEN "open" ELSE channel[m],
         \/ Undoes(m)
         \/ /\ pc \in AtMachine /\ m = machine
            /\ \/ pc = "begin" /\ Accepts(m)
               \/ pc = "configure" /\ Enqueues(m)
               \/ pc = "run" /\ at < Len(CurrentSteps) /\ NextStep \notin TestSteps /\ Executes(m)
               \/ pc = "run" /\ at = Len(CurrentSteps) /\ Completes(m)
  PROVE  \A other \in Machines : SatelliteStep(other)
  BY OthersRest DEF SatelliteStep, CallStep, OnlyOn

LEMMA SatellitesStep ==
  ASSUME TypeInv, RemainingIsFree, [Next]_vars
  PROVE  /\ orphans \subseteq orphans'
         /\ \A m \in Machines : SatelliteStep(m)
  <1> DEFINE Goal == orphans \subseteq orphans' /\ \A m \in Machines : SatelliteStep(m)
  <1> SUFFICES Goal
    OBVIOUS
  <1>0. RowTypes /\ ThreadTypes /\ Control /\ SatelliteTypes
    BY TypeParts DEF TypeInv
  <1>1. ASSUME UNCHANGED orphans, UNCHANGED <<sat, work>>,
               UNCHANGED channel \/ channel' = [m \in Machines |-> "new"]
        PROVE  Goal
    BY <1>0, <1>1, EveryoneRests DEF SatelliteStep
  <1>2. ASSUME UNCHANGED satellites PROVE Goal
    BY <1>1, <1>2 DEF satellites
  <1>3. pc \in AtMachine => /\ machine \in Machines /\ machine \in remaining /\ current \in Ids
                            /\ CurrentSteps \in Seq(Steps) /\ Len(CurrentSteps) \in Nat
    BY <1>0, AtAMachine DEF Control, AtMachine, InDeploy
  <1>4. at \in Nat
    BY <1>0 DEF ThreadTypes
  <1>5. ASSUME NEW m \in Machines, OnlyOn(m), Keeps(m),
               channel'[m] = IF channel[m] = "new" THEN "open" ELSE channel[m]
        PROVE  Goal
    BY <1>5, CallerRests DEF SatelliteStep, OnlyOn
  <1>6. ASSUME NEW m \in Machines, NEW answer, Calls(m, IsReadyResults(sat[m]), answer) PROVE Goal
    BY <1>0, <1>5, <1>6, ReadyCall
  <1>7. ASSUME NEW m \in Machines, NEW answer, Calls(m, TransferResults(sat[m]), answer) PROVE Goal
    BY <1>0, <1>5, <1>7, TransferCall
  <1>8. ASSUME NEW m \in Machines, OnlyOn(m), channel[m] # "broken",
               channel'[m] = IF channel[m] = "new" THEN "open" ELSE channel[m],
               \/ Undoes(m)
               \/ /\ pc \in AtMachine /\ m = machine
                  /\ \/ pc = "begin" /\ Accepts(m)
                     \/ pc = "configure" /\ Enqueues(m)
                     \/ pc = "run" /\ at < Len(CurrentSteps) /\ NextStep \notin TestSteps /\ Executes(m)
                     \/ pc = "run" /\ at = Len(CurrentSteps) /\ Completes(m)
        PROVE  Goal
    BY <1>8, CallIsStep DEF OnlyOn
  <1>9. ASSUME NEW m \in Machines, RollBackAgent(m) PROVE Goal
    <2>1. PICK answer : Calls(m, RollbackResults(sat[m]), answer)
      BY <1>9 DEF RollBackAgent
    <2> QED
      BY <1>0, <1>5, <1>8, <2>1, RollbackCall
  <1>10. CASE BeginPublication
    <2>1. PICK answer : Calls(machine, BeginPublicationResults(sat[machine], current), answer)
      BY <1>10 DEF BeginPublication
    <2>2. pc = "begin" /\ pc \in AtMachine
      BY <1>10 DEF BeginPublication, AtMachine
    <2>3. sat[machine].active = 0
      BY <1>3, <2>2 DEF RemainingIsFree, InRun
    <2>4. /\ OnlyOn(machine)
          /\ channel'[machine] = IF channel[machine] = "new" THEN "open" ELSE channel[machine]
          /\ \/ Keeps(machine)
             \/ channel[machine] # "broken" /\ Accepts(machine)
      BY <1>0, <1>3, <2>1, <2>2, <2>3, BeginCall DEF Accepts, SameWork
    <2> QED
      BY <1>3, <1>5, <1>8, <2>2, <2>4
  <1>11. CASE ConfigureStep
    <2>1. PICK answer : Calls(machine, EnqueueResults(sat[machine], NextStep), answer)
      BY <1>11 DEF ConfigureStep
    <2>2. pc = "configure" /\ pc \in AtMachine /\ at < Len(CurrentSteps)
      BY <1>11 DEF ConfigureStep, AtMachine, Engaged
    <2>3. NextStep \in Steps
      BY <1>3, <1>4, <2>2 DEF NextStep
    <2>4. /\ OnlyOn(machine)
          /\ channel'[machine] = IF channel[machine] = "new" THEN "open" ELSE channel[machine]
          /\ \/ Keeps(machine)
             \/ channel[machine] # "broken" /\ Enqueues(machine)
      BY <1>0, <1>3, <2>1, <2>2, <2>3, EnqueueCall DEF Enqueues, SameWork, Keeps
    <2> QED
      BY <1>3, <1>5, <1>8, <2>2, <2>4
  <1>12. CASE ExecuteStep
    <2>1. PICK answer : Calls(machine, ExecuteResults(sat[machine]), answer)
      BY <1>12 DEF ExecuteStep
    <2>2. pc = "run" /\ pc \in AtMachine /\ at < Len(CurrentSteps) /\ NextStep \notin TestSteps
      BY <1>12 DEF ExecuteStep, AtMachine, Engaged
    <2> QED
      BY <1>0, <1>3, <1>5, <1>8, <2>1, <2>2, ExecuteCall
  <1>13. CASE CompleteMachine
    <2>1. PICK answer : Calls(machine, CompleteResults(sat[machine]), answer)
      BY <1>13 DEF CompleteMachine
    <2>2. pc = "run" /\ pc \in AtMachine /\ at = Len(CurrentSteps)
      BY <1>13 DEF CompleteMachine, AtMachine, Engaged
    <2> QED
      BY <1>0, <1>3, <1>5, <1>8, <2>1, <2>2, CompleteCall
  <1>14. ASSUME NEW m \in Machines, RestartSatellite(m) PROVE Goal
    <2>1. /\ sat' = [sat EXCEPT ![m] = FreshSession]
          /\ channel' = [channel EXCEPT ![m] = IF @ = "open" THEN "broken" ELSE @]
          /\ orphans' = IF sat[m].active = 0 THEN orphans ELSE orphans \union {<<sat[m].active, m>>}
          /\ UNCHANGED work
      BY <1>14 DEF RestartSatellite
    <2>2. Restarts(m)
      BY <1>0, <2>1 DEF Restarts, SameWork, SatelliteTypes
    <2>3. \A other \in Machines : other # m => Rests(other)
      BY <1>0, <2>1 DEF Rests, Keeps, SatelliteTypes
    <2> QED
      BY <2>1, <2>2, <2>3 DEF SatelliteStep
  <1>15. ASSUME NEW m \in Machines, CheckMachine(m) PROVE Goal
    BY <1>6, <1>15 DEF CheckMachine
  <1>16. CASE ValidateReady
    BY <1>3, <1>6, <1>16 DEF ValidateReady, AtMachine
  <1>17. CASE ResetPackage
    BY <1>3, <1>7, <1>17 DEF ResetPackage, AtMachine, Engaged
  <1>18. CASE UploadPackage
    BY <1>3, <1>7, <1>18 DEF UploadPackage, AtMachine, Engaged
  <1>19. ASSUME NEW p, StartJob(p) PROVE Goal
    BY <1>1, <1>19 DEF StartJob
  <1>20. CASE PackageMissing \/ TestRunThrows \/ RestartServer
    BY <1>1, <1>20 DEF PackageMissing, TestRunThrows, RestartServer
  <1>21. CASE \/ SelectPublications \/ StartPublication \/ SkipTestStep \/ StartRunning
              \/ FinishPublication
    BY <1>2, <1>21 DEF SelectPublications, StartPublication, SkipTestStep, StartRunning,
                       FinishPublication
  <1>22. ASSUME NEW passed, RunTests(passed) PROVE Goal
    BY <1>2, <1>22 DEF RunTests
  <1>23. ASSUME NEW package, NEW environment, SchedulePublication(package, environment) PROVE Goal
    BY <1>2, <1>23 DEF SchedulePublication
  <1>24. ASSUME NEW p, ReadForCancel(p) \/ SaveCanceled(p) PROVE Goal
    BY <1>2, <1>24 DEF ReadForCancel, SaveCanceled
  <1>25. CASE UNCHANGED vars
    BY <1>2, <1>25 DEF vars
  <1> HIDE DEF Goal
  <1> QED
    BY <1>9, <1>10, <1>11, <1>12, <1>13, <1>14, <1>15, <1>16, <1>17, <1>18, <1>19, <1>20, <1>21,
       <1>22, <1>23, <1>24, <1>25 DEF Next, DeployerNext

\* A publication is finished by the end of its deployment or by a machine that fails; that a
\* machine of the publication is not ready when the loop comes to it never happens.
LEMMA Finishes ==
  ASSUME TypeInv, RemainingIsFree, [Next]_vars, NEW p \in Scheduled, NEW state \in {"Complete", "Error"},
         StateOf(p)' = state, StateOf(p) # state
  PROVE  /\ p = current
         /\ \/ state = "Complete" /\ FinishPublication
            \/ state = "Error" /\ pc \in {"begin"} \union Engaged /\ FailMachine
  <1> DEFINE Goal == /\ p = current
                     /\ \/ state = "Complete" /\ FinishPublication
                        \/ state = "Error" /\ pc \in {"begin"} \union Engaged /\ FailMachine
  <1> SUFFICES Goal
    OBVIOUS
  <1>0. RowTypes /\ Control /\ SatelliteTypes /\ publications \in Seq(Publication)
    BY TypeParts DEF TypeInv, RowTypes
  <1>1. ASSUME UNCHANGED publications PROVE FALSE
    BY <1>1 DEF StateOf
  <1>2. ASSUME NEW q \in Scheduled, NEW other \in PublicationStates,
               publications' = [publications EXCEPT ![q].state = other]
        PROVE  p = q /\ state = other
    <2>1. /\ StateOf(q)' = other
          /\ \A r \in Scheduled : r # q => StateOf(r)' = StateOf(r)
      BY <1>0, <1>2, SavedRow
    <2> QED
      BY <2>1
  <1>3. ASSUME pc \in InDeploy, NEW other \in {"InProgress", "Complete", "Error"}, SetPublication(other)
        PROVE  p = current /\ state = other
    BY <1>0, <1>2, <1>3, AtAMachine DEF SetPublication, PublicationStates
  <1>4. ASSUME NEW package \in Packages, NEW environment \in Environments,
               SchedulePublication(package, environment)
        PROVE  FALSE
    BY <1>0, <1>4, AddedRow DEF SchedulePublication
  <1>5. ASSUME NEW q \in Scheduled, SaveCanceled(q) PROVE FALSE
    BY <1>2, <1>5 DEF SaveCanceled, PublicationStates
  <1>6. ASSUME pc \in {"begin"} \union Engaged, FailMachine PROVE Goal
    BY <1>3, <1>6 DEF FailMachine, InDeploy, AtMachine
  <1>7. CASE FinishPublication
    <2>1. pc = "machine" /\ SetPublication("Complete")
      BY <1>7 DEF FinishPublication
    <2> QED
      BY <1>3, <1>7, <2>1 DEF InDeploy
  <1>8. CASE StartPublication
    BY <1>3, <1>8 DEF StartPublication, InDeploy
  <1>9. ASSUME NEW m \in Machines, CheckMachine(m) PROVE FALSE
    <2>1. PICK answer : /\ Calls(m, IsReadyResults(sat[m]), answer)
                        /\ answer = "false" \/ UNCHANGED publications
      BY <1>9 DEF CheckMachine
    <2>2. pc = "machine" /\ m \in remaining
      BY <1>9 DEF CheckMachine
    <2>3. sat[m].active = 0
      BY <2>2 DEF RemainingIsFree, InRun
    <2> QED
      BY <1>0, <1>1, <2>1, <2>3, ReadyCall
  <1>10. CASE BeginPublication
    BY <1>1, <1>6, <1>10 DEF BeginPublication, Proceed
  <1>11. CASE ResetPackage \/ UploadPackage
    BY <1>1, <1>6, <1>11 DEF ResetPackage, UploadPackage, Proceed, Engaged
  <1>12. CASE ConfigureStep \/ SkipTestStep \/ StartRunning
    BY <1>1, <1>6, <1>12 DEF ConfigureStep, SkipTestStep, StartRunning, Proceed, Engaged
  <1>13. CASE ExecuteStep \/ TestRunThrows
    BY <1>1, <1>6, <1>13 DEF ExecuteStep, TestRunThrows, Proceed, Engaged
  <1>14. CASE CompleteMachine
    BY <1>1, <1>6, <1>14 DEF CompleteMachine, Engaged
  <1>15. ASSUME NEW passed, RunTests(passed) PROVE FALSE
    BY <1>1, <1>15 DEF RunTests, Proceed
  <1>16. ASSUME NEW q, StartJob(q) \/ ReadForCancel(q) PROVE FALSE
    BY <1>1, <1>16 DEF StartJob, ReadForCancel, database
  <1>17. ASSUME NEW m, RollBackAgent(m) \/ RestartSatellite(m) PROVE FALSE
    BY <1>1, <1>17 DEF RollBackAgent, RestartSatellite, database
  <1>18. CASE SelectPublications \/ ValidateReady \/ PackageMissing \/ RestartServer
    BY <1>1, <1>18 DEF SelectPublications, ValidateReady, PackageMissing, RestartServer, database
  <1>19. CASE UNCHANGED vars
    BY <1>1, <1>19 DEF vars, database
  <1> HIDE DEF Goal
  <1> QED
    BY <1>4, <1>5, <1>7, <1>8, <1>9, <1>10, <1>11, <1>12, <1>13, <1>14, <1>15, <1>16, <1>17,
       <1>18, <1>19 DEF Next, DeployerNext, Goal

\* What a step at a machine finds there.
LEMMA AtTheSatellite ==
  ASSUME SatInv, pc \in AtMachine, pc # "validateReady"
  PROVE  /\ current \in Scheduled /\ current \in Ids
         /\ machine \in Machines /\ machine \in Affected(current)
         /\ StateOf(current) \in {"InProgress", "Canceled"}
         /\ ~New(current)
         /\ pc \in Engaged /\ channel[machine] # "broken" => sat[machine].active = current
  <1>1. RowTypes /\ Control /\ SatelliteTypes
    BY TypeParts DEF SatInv, TypeInv
  <1>2. pc \in InDeploy /\ pc \in {"machine", "begin"} \union Engaged
    BY DEF InDeploy, AtMachine
  <1>3. /\ current \in Scheduled /\ current \in Ids
        /\ machine \in Machines /\ machine \in Affected(current)
    BY <1>1, <1>2, AtAMachine
  <1>4. Running = current /\ current # 0 /\ Running \notin Selected
    BY <1>2, SelectedAndRunning DEF SatInv
  <1>5. StateOf(current) \in {"InProgress", "Canceled"}
    BY <1>4 DEF SatInv, RowsInv
  <1>6. pc \in Engaged /\ channel[machine] # "broken" => sat[machine].active = current
    BY <1>1, <1>3 DEF SatInv, LoopInv, SessionAsExpected, SatelliteTypes
  <1> QED
    BY <1>3, <1>4, <1>5, <1>6 DEF New

\* A satellite that is active for something else afterwards has accepted the publication
\* in progress.
LEMMA ActiveStep ==
  ASSUME SatInv, NEW m \in Machines, SatelliteStep(m)
  PROVE  /\ sat[m] \in Sessions(Ids, Steps) /\ sat[m].active \in Ids \union {0}
         /\ \/ sat'[m].active \in {0, sat[m].active}
            \/ m = machine /\ pc = "begin" /\ sat'[m].active = current /\ SameWork(m)
         /\ \A p \in Ids \union {0} : p # sat[m].active => work'[p][m] = work[p][m]
  <1>1. sat[m] \in Sessions(Ids, Steps) /\ sat[m].active \in Ids \union {0}
    BY TypeParts, SessionFields DEF SatInv, TypeInv, SatelliteTypes
  <1>2. RolledBack(sat[m]).active = 0 /\ [sat[m] EXCEPT !.next = sat[m].next + 1].active = sat[m].active
    BY <1>1 DEF RolledBack, Sessions
  <1>3. CASE Rests(m)
    BY <1>1, <1>3 DEF Rests, Keeps
  <1>4. CASE Restarts(m)
    BY <1>1, <1>4 DEF Restarts, FreshSession, SameWork
  <1>5. CASE CallStep(m)
    <2>1. \A p \in Ids \union {0} : p # sat[m].active => work'[p][m] = work[p][m]
      BY <1>5 DEF CallStep
    <2>2. CASE Undoes(m) \/ Executes(m)
      BY <1>1, <1>2, <2>1, <2>2 DEF Undoes, Executes
    <2>3. CASE Completes(m) \/ Enqueues(m)
      BY <1>1, <2>1, <2>3 DEF Completes, Enqueues
    <2>4. CASE m = machine /\ pc = "begin" /\ Accepts(m)
      BY <1>1, <2>1, <2>4 DEF Accepts
    <2> QED
      BY <1>5, <2>2, <2>3, <2>4 DEF CallStep
  <1> QED
    BY <1>3, <1>4, <1>5 DEF SatelliteStep

\* What the satellite executes next is the next operation of the work of the publication.
LEMMA NextExecuted ==
  ASSUME SatInv, pc = "run", channel[machine] # "broken", at < Len(CurrentSteps),
         NextStep \notin TestSteps, Executes(machine)
  PROVE  /\ sat[machine].active = current
         /\ work'[current][machine] = Executed(current, machine, at + 1)
         /\ Len(work'[current][machine]) = Len(work[current][machine]) + 1
         /\ sat'[machine].queue = sat[machine].queue
         /\ sat'[machine].active = current
         /\ sat'[machine].next = sat[machine].next + 1
  <1> DEFINE n == Len(CurrentSteps)
             before == Executed(current, machine, at)
             full == FullWork(current, machine)
             op == [step |-> NextStep, package |-> current]
             s == sat[machine]
  <1>1. RowTypes /\ ThreadTypes /\ SatelliteTypes
    BY TypeParts DEF SatInv, TypeInv
  <1>2. current \in Scheduled /\ machine \in Machines /\ sat[machine].active = current
    BY AtTheSatellite DEF AtMachine, Engaged
  <1>3. /\ s.queue = full /\ work[current][machine] = before
        /\ s.next = Len(before)
    BY <1>1, <1>2 DEF SatInv, LoopInv, SessionAsExpected, Engaged, SatelliteTypes
  <1>4. n \in Nat /\ at \in 0 .. n - 1 /\ at + 1 \in 0 .. n /\ at \in 0 .. n
    BY <1>1, <1>2, ExecutedFacts DEF ThreadTypes, CurrentSteps
  <1>5. /\ before \in Seq(Operation) /\ full \in Seq(Operation)
        /\ Executed(current, machine, at + 1) = Append(before, op)
        /\ IsBeginning(Executed(current, machine, at + 1), full)
    BY <1>1, <1>2, <1>4, ExecutedFacts DEF CurrentSteps, NextStep
  <1>6. full[Len(before) + 1] = op /\ Len(Append(before, op)) = Len(before) + 1
    <2> HIDE DEF before, op, full
    <2>1. Len(before) \in Nat /\ Len(Append(before, op)) = Len(before) + 1
            /\ Append(before, op)[Len(before) + 1] = op
      BY <1>5
    <2> QED
      BY <1>5, <2>1 DEF IsBeginning
  <1>7. work'[current][machine] = Append(before, op)
    BY <1>2, <1>3, <1>6 DEF Executes
  <1>8. sat'[machine] = [s EXCEPT !.next = s.next + 1] /\ s \in Sessions(Ids, Steps)
    BY <1>1, <1>2 DEF Executes, SatelliteTypes
  <1>9. sat'[machine].queue = s.queue /\ sat'[machine].active = s.active /\ sat'[machine].next = s.next + 1
    BY <1>8 DEF Sessions
  <1> QED
    BY <1>2, <1>3, <1>5, <1>6, <1>7, <1>9

\* When all the steps are passed, the satellite has executed the full work.
LEMMA AllExecuted ==
  ASSUME SatInv, pc = "run", channel[machine] # "broken", at = Len(CurrentSteps)
  PROVE  /\ sat[machine].active = current
         /\ sat[machine].queue = FullWork(current, machine)
         /\ work[current][machine] = FullWork(current, machine)
  <1>1. RowTypes /\ SatelliteTypes
    BY TypeParts DEF SatInv, TypeInv
  <1>2. current \in Scheduled /\ machine \in Machines /\ sat[machine].active = current
    BY AtTheSatellite DEF AtMachine, Engaged
  <1>3. /\ sat[machine].queue = FullWork(current, machine)
        /\ work[current][machine] = Executed(current, machine, at)
    BY <1>1, <1>2 DEF SatInv, LoopInv, SessionAsExpected, Engaged, SatelliteTypes
  <1>4. FullWork(current, machine) = Executed(current, machine, at)
    BY <1>1, <1>2, ExecutedFacts DEF CurrentSteps
  <1> QED
    BY <1>2, <1>3, <1>4

LEMMA WorkStep ==
  ASSUME SatInv, [Next]_vars
  PROVE  WorkInv'
  <1>1. TypeInv /\ RowsInv /\ WorkInv /\ RowTypes /\ SatelliteTypes
    BY TypeParts DEF SatInv, TypeInv
  <1>2. /\ orphans \subseteq orphans'
        /\ \A m \in Machines : SatelliteStep(m)
    BY <1>1, SatellitesStep DEF SatInv, LoopInv
  <1>3. /\ RowsKept
        /\ \A p : New(p)' => New(p)
        /\ \A p \in Scheduled' \ Scheduled : StateOf(p)' = "Queued"
    BY <1>1, RowsStep
  <1>4. TypeInv' /\ RowTypes'
    BY <1>1, TypeNext DEF TypeInv, TypeOK, RowTypes
  <1>5. \A p \in Scheduled' : p \in Ids
    BY <1>4, DeploymentAssumption DEF RowTypes, Scheduled, Ids
  <1>6. BrokenIsFree'
    <2>1. SUFFICES ASSUME NEW m \in Machines, channel'[m] = "broken" PROVE sat'[m].active = 0
      BY DEF BrokenIsFree
    <2>2. Rests(m) \/ Restarts(m)
      BY <1>2, <2>1 DEF SatelliteStep, CallStep
    <2> QED
      BY <1>1, <2>1, <2>2 DEF WorkInv, BrokenIsFree, Rests, Keeps, Restarts, FreshSession
  <1>7. NewIsUntouched'
    <2>1. SUFFICES ASSUME NEW p \in Ids, New(p)', NEW m \in Machines
                   PROVE  work'[p][m] = << >> /\ sat'[m].active # p
      BY DEF NewIsUntouched, Untouched
    <2>2. New(p) /\ work[p][m] = << >> /\ sat[m].active # p
      BY <1>1, <1>3, <2>1 DEF WorkInv, NewIsUntouched, Untouched
    <2>3. pc = "begin" => current # p
      BY <2>2, AtTheSatellite DEF AtMachine
    <2>4. SatelliteStep(m) /\ 0 # p
      BY <1>2 DEF Ids
    <2> QED
      BY <2>2, <2>3, <2>4, ActiveStep
  <1>8. ASSUME NEW p \in Scheduled' \ Scheduled, NEW m \in Machines
        PROVE  work'[p][m] = << >> /\ New(p)' /\ StateOf(p)' = "Queued"
    BY <1>3, <1>5, <1>7, <1>8 DEF NewIsUntouched, Untouched, New
  <1>9. ASSUME NEW p \in Scheduled
        PROVE  /\ p \in Ids /\ Affected(p)' = Affected(p) /\ Affected(p) \subseteq Machines
               /\ \A m \in Machines : FullWork(p, m)' = FullWork(p, m) /\ FullWork(p, m) \in Seq(Operation)
    BY <1>1, <1>3, KeptRows, RowFields, ExecutedFacts
  <1>10. ASSUME NEW p \in Scheduled, NEW m \in Machines
         PROVE  \/ work'[p][m] \in {work[p][m], << >>}
                \/ /\ p = current /\ m = machine /\ pc = "run" /\ at < Len(CurrentSteps)
                   /\ channel[m] # "broken" /\ NextStep \notin TestSteps /\ Executes(m)
                   /\ sat[m].active = p
    <2>1. SatelliteStep(m) /\ p \in Ids
      BY <1>2, <1>9
    <2>2. CASE p # sat[m].active
      BY <2>1, <2>2, ActiveStep
    <2>3. CASE p = sat[m].active
      <3>1. CASE /\ m = machine /\ pc = "run" /\ at < Len(CurrentSteps)
                 /\ channel[m] # "broken" /\ NextStep \notin TestSteps /\ Executes(m)
        BY <2>3, <3>1, AtTheSatellite DEF AtMachine, Engaged
      <3> QED
        BY <2>1, <2>3, <3>1 DEF SatelliteStep, Rests, Keeps, Restarts, CallStep, Undoes, Accepts,
                                Enqueues, Completes, SameWork
    <2> QED
      BY <2>2, <2>3
  <1>11. WorkIsBeginning'
    <2>1. SUFFICES ASSUME NEW p \in Scheduled', NEW m \in Machines
                   PROVE  /\ work'[p][m] # << >> => m \in Affected(p)'
                          /\ IsBeginning(work'[p][m], FullWork(p, m)')
      BY DEF WorkIsBeginning, IsBeginning
    <2>2. ASSUME NEW t \in Seq(Operation) PROVE IsBeginning(<< >>, t)
      BY DEF IsBeginning
    <2>3. CASE p \notin Scheduled
      <3> DEFINE steps == StepsOf(p, m)'
      <3>1. publications'[p] \in Publication
        BY <1>4 DEF RowTypes, Scheduled
      <3>2. steps \in Seq(Steps) /\ Len(steps) \in 0 .. Len(steps)
        BY <3>1, DeploymentAssumption DEF Publication, StepsOf, BundleVersionOf, PackageOf
      <3>3. WorkUpTo(steps, p)[Len(steps)] \in Seq(Operation)
        <4> HIDE DEF steps
        <4> QED
          BY <1>5, <3>2, WorkUpToDef
      <3>4. FullWork(p, m)' \in Seq(Operation)
        BY <3>3 DEF FullWork
      <3> QED
        BY <1>8, <2>2, <2>3, <3>4
    <2>4. CASE p \in Scheduled
      <3>1. /\ work[p][m] # << >> => m \in Affected(p)
            /\ IsBeginning(work[p][m], FullWork(p, m))
        BY <1>1, <2>4 DEF WorkInv, WorkIsBeginning
      <3>2. CASE work'[p][m] \in {work[p][m], << >>}
        BY <1>9, <2>2, <2>4, <3>1, <3>2
      <3>3. CASE ~(work'[p][m] \in {work[p][m], << >>})
        <4>1. /\ p = current /\ m = machine /\ pc = "run" /\ at < Len(CurrentSteps)
              /\ channel[m] # "broken" /\ NextStep \notin TestSteps /\ Executes(m)
          BY <1>10, <2>4, <3>3
        <4>2. work'[p][m] = Executed(p, m, at + 1)
          BY <4>1, NextExecuted
        <4>3. at + 1 \in 0 .. Len(StepsOf(p, m))
          BY <1>1, <2>4, <4>1, TypeParts, ExecutedFacts DEF CurrentSteps, ThreadTypes, TypeInv
        <4>4. IsBeginning(work'[p][m], FullWork(p, m))
          BY <1>1, <2>4, <4>2, <4>3, ExecutedFacts
        <4>5. m \in Affected(p)
          BY <4>1, AtTheSatellite DEF AtMachine, Engaged
        <4> QED
          BY <1>9, <2>4, <4>4, <4>5
      <3> QED
        BY <3>2, <3>3
    <2> QED
      BY <2>3, <2>4
  <1>12. CompleteIsDone'
    <2>1. SUFFICES ASSUME NEW p \in Scheduled', StateOf(p)' = "Complete", NEW m \in Affected(p)'
                   PROVE  work'[p][m] = FullWork(p, m)' /\ sat'[m].active # p
      BY DEF CompleteIsDone, Done
    <2>2. p \in Scheduled
      BY <1>3, <2>1
    <2>3. m \in Affected(p) /\ m \in Machines /\ p \in Ids /\ p # 0
      BY <1>9, <2>1, <2>2 DEF Ids
    <2>4. CASE StateOf(p) = "Complete"
      <3>1. work[p][m] = FullWork(p, m) /\ sat[m].active # p
        BY <1>1, <2>2, <2>3, <2>4 DEF WorkInv, CompleteIsDone, Done
      <3>2. pc = "begin" => current # p
        BY <2>4, AtTheSatellite DEF AtMachine
      <3> QED
        BY <1>2, <1>9, <2>2, <2>3, <3>1, <3>2, ActiveStep
    <2>5. CASE StateOf(p) # "Complete"
      <3>1. p = current /\ pc = "machine" /\ remaining = {} /\ UNCHANGED satellites
        BY <1>1, <2>1, <2>2, <2>5, Finishes DEF FinishPublication, SatInv, LoopInv
      <3>2. Done(p, m)
        BY <2>3, <3>1 DEF SatInv, LoopInv, VisitedIsDone, InRun
      <3> QED
        BY <1>9, <2>2, <2>3, <3>1, <3>2 DEF Done, satellites
    <2> QED
      BY <2>4, <2>5
  <1>13. PartialIsActive'
    <2>1. SUFFICES ASSUME NEW p \in Scheduled', NEW m \in Machines
                   PROVE  \/ work'[p][m] \in {<< >>, FullWork(p, m)'}
                          \/ <<p, m>> \in orphans'
                          \/ sat'[m].active = p
      BY DEF PartialIsActive
    <2>2. CASE p \notin Scheduled
      BY <1>8, <2>2
    <2>3. CASE p \in Scheduled
      <3>1. \/ work[p][m] \in {<< >>, FullWork(p, m)} \/ <<p, m>> \in orphans \/ sat[m].active = p
        BY <1>1, <2>3 DEF WorkInv, PartialIsActive
      <3>2. p \in Ids /\ p # 0 /\ FullWork(p, m)' = FullWork(p, m) /\ SatelliteStep(m)
        BY <1>2, <1>9, <2>3 DEF Ids
      <3>3. CASE p # sat[m].active
        BY <1>2, <3>1, <3>2, <3>3, ActiveStep
      <3>4. CASE p = sat[m].active
        <4>1. CASE Rests(m) \/ Restarts(m)
          BY <3>2, <3>4, <4>1 DEF Rests, Keeps, Restarts
        <4>2. CASE CallStep(m)
          <5>1. CASE Undoes(m)
            BY <3>4, <5>1 DEF Undoes
          <5>2. CASE pc = "begin" /\ Accepts(m)
            BY <3>2, <3>4, <5>2 DEF Accepts
          <5>3. CASE pc = "configure" /\ Enqueues(m)
            BY <3>4, <5>3 DEF Enqueues
          <5>4. CASE /\ m = machine /\ pc = "run" /\ at < Len(CurrentSteps)
                     /\ NextStep \notin TestSteps /\ Executes(m)
            BY <3>4, <4>2, <5>4, NextExecuted DEF CallStep
          <5>5. CASE m = machine /\ pc = "run" /\ at = Len(CurrentSteps) /\ Completes(m)
            BY <3>2, <3>4, <4>2, <5>5, AllExecuted DEF CallStep, Completes
          <5> QED
            BY <4>2, <5>1, <5>2, <5>3, <5>4, <5>5 DEF CallStep
        <4> QED
          BY <3>2, <4>1, <4>2 DEF SatelliteStep
      <3> QED
        BY <3>3, <3>4
    <2> QED
      BY <2>2, <2>3
  <1> QED
    BY <1>6, <1>7, <1>11, <1>12, <1>13 DEF WorkInv

-----------------------------------------------------------------------------
(* The loop over the machines.                                             *)

LEMMA LoopEnds ==
  ASSUME pc' \in {"idle", "batch"}
  PROVE  LoopInv'
  BY DEF LoopInv, ValidatedIsFree, RemainingIsFree, VisitedIsDone, SessionAsExpected, Validating,
         InRun, Engaged

LEMMA EndJobEnds ==
  ASSUME NEW rest, EndJob(rest)
  PROVE  LoopInv'
  BY LoopEnds DEF EndJob

\* What the loop over the machines of the publication in progress works on.
LEMMA InTheLoop ==
  ASSUME SatInv, RowsKept, pc \in InDeploy
  PROVE  /\ current \in Scheduled /\ current \in Ids
         /\ remaining \subseteq Affected(current) /\ Affected(current) \subseteq Machines
         /\ \A p : p = current => /\ Affected(p)' = Affected(p)
                                  /\ \A m \in Machines : FullWork(p, m)' = FullWork(p, m)
                                  /\ \A m \in Machines : \A i : Executed(p, m, i)' = Executed(p, m, i)
  <1>1. RowTypes /\ Control
    BY TypeParts DEF SatInv, TypeInv
  <1>2. /\ current \in Scheduled /\ current \in Ids
        /\ remaining \subseteq Affected(current) /\ Affected(current) \subseteq Machines
    BY <1>1, AtAMachine DEF Control
  <1>3. ASSUME NEW p \in Scheduled
        PROVE  /\ Affected(p)' = Affected(p)
               /\ \A m \in Machines : FullWork(p, m)' = FullWork(p, m)
               /\ \A m \in Machines : \A i : Executed(p, m, i)' = Executed(p, m, i)
    BY <1>3, KeptRows, KeptWork
  <1> QED
    BY <1>2, <1>3

\* The users of the web site and the clock do not disturb a deployment.
LEMMA LoopKept ==
  ASSUME SatInv, RowsKept, UNCHANGED <<deployer, sat, channel, work>>
  PROVE  LoopInv'
  <1>1. UNCHANGED <<pc, current, remaining, machine, at>>
    BY DEF deployer
  <1>2. ASSUME pc \in InDeploy
        PROVE  /\ Affected(current)' = Affected(current)
               /\ remaining \subseteq Machines
               /\ \A m \in Machines : FullWork(current, m)' = FullWork(current, m)
               /\ \A m \in Machines : Executed(current, m, at)' = Executed(current, m, at)
    <2>1. PICK p : p = current
      OBVIOUS
    <2>2. /\ Affected(p)' = Affected(p) /\ remaining \subseteq Machines
          /\ \A m \in Machines : FullWork(p, m)' = FullWork(p, m)
          /\ \A m \in Machines : \A i : Executed(p, m, i)' = Executed(p, m, i)
      BY <1>2, <2>1, InTheLoop
    <2> QED
      BY <1>1, <2>1, <2>2 DEF Affected, FullWork, Executed, StepsOf, BundleVersionOf, PackageOf
  <1>3. pc \in AtMachine => machine \in remaining
    BY TypeParts DEF SatInv, TypeInv, Control
  <1>4. LoopInv
    BY DEF SatInv
  <1>5. ValidatedIsFree'
    BY <1>1, <1>2, <1>4 DEF LoopInv, ValidatedIsFree, Validating, InDeploy, AtMachine
  <1>6. RemainingIsFree'
    BY <1>1, <1>4 DEF LoopInv, RemainingIsFree, InRun
  <1>7. VisitedIsDone'
    <2>1. SUFFICES ASSUME InRun, NEW m \in Affected(current), m \notin remaining PROVE Done(current, m)'
      BY <1>1, <1>2 DEF VisitedIsDone, InRun, InDeploy, AtMachine
    <2>2. Done(current, m) /\ m \in Machines
      BY <1>4, <2>1, InTheLoop DEF LoopInv, VisitedIsDone, InRun, InDeploy, AtMachine
    <2> QED
      BY <1>1, <1>2, <2>1, <2>2 DEF Done, InRun, InDeploy, AtMachine
  <1>8. SessionAsExpected'
    <2>1. CASE pc \in Engaged
      <3>1. /\ machine \in Machines
            /\ FullWork(current, machine)' = FullWork(current, machine)
            /\ Executed(current, machine, at)' = Executed(current, machine, at)
        <4>1. pc \in InDeploy /\ machine \in Machines
          BY <1>2, <1>3, <2>1 DEF InDeploy, AtMachine
        <4>2. PICK m \in Machines : m = machine
          BY <4>1
        <4>3. FullWork(current, m)' = FullWork(current, m)
                /\ Executed(current, m, at)' = Executed(current, m, at)
          BY <1>2, <4>1
        <4> QED
          BY <1>1, <4>2, <4>3 DEF FullWork, Executed, StepsOf, BundleVersionOf, PackageOf
      <3> QED
        BY <1>1, <1>4, <2>1, <3>1 DEF LoopInv, SessionAsExpected
    <2>2. CASE pc \notin Engaged
      BY <1>1, <2>2 DEF SessionAsExpected
    <2> QED
      BY <2>1, <2>2
  <1> QED
    BY <1>5, <1>6, <1>7, <1>8 DEF LoopInv

\* A restart frees the satellite; the open channel to it is broken.
LEMMA LoopRestart ==
  ASSUME SatInv, NEW m \in Machines, RestartSatellite(m)
  PROVE  LoopInv'
  <1>1. /\ sat' = [sat EXCEPT ![m] = FreshSession]
        /\ channel' = [channel EXCEPT ![m] = IF @ = "open" THEN "broken" ELSE @]
        /\ UNCHANGED <<publications, pc, current, remaining, machine, at, work>>
    BY DEF RestartSatellite, database, deployer
  <1>2. RowTypes /\ Control /\ SatelliteTypes /\ LoopInv
    BY TypeParts DEF SatInv, TypeInv
  <1>3. /\ sat'[m].active = 0 /\ channel'[m] = IF channel[m] = "open" THEN "broken" ELSE channel[m]
        /\ \A other \in Machines : other # m => sat'[other] = sat[other] /\ channel'[other] = channel[other]
    BY <1>1, <1>2 DEF SatelliteTypes, FreshSession
  <1>4. pc \in InDeploy => /\ current # 0 /\ remaining \subseteq Machines /\ Affected(current) \subseteq Machines
                           /\ pc \in AtMachine => machine \in Machines
    BY <1>2, AtAMachine
  <1>5. /\ Affected(current)' = Affected(current)
        /\ FullWork(current, machine)' = FullWork(current, machine)
        /\ Executed(current, machine, at)' = Executed(current, machine, at)
    BY <1>1 DEF Affected, FullWork, Executed, StepsOf, BundleVersionOf, PackageOf
  <1>6. \A p, other : FullWork(p, other)' = FullWork(p, other)
    BY <1>1 DEF FullWork, StepsOf, BundleVersionOf, PackageOf
  <1>7. ValidatedIsFree'
    BY <1>1, <1>2, <1>3, <1>4, <1>5 DEF LoopInv, ValidatedIsFree, Validating, InDeploy, AtMachine
  <1>8. RemainingIsFree'
    BY <1>1, <1>2, <1>3, <1>4 DEF LoopInv, RemainingIsFree, InRun, InDeploy, AtMachine
  <1>9. VisitedIsDone'
    <2>1. SUFFICES ASSUME InRun, NEW other \in Affected(current), other \notin remaining
                   PROVE  work[current][other] = FullWork(current, other) /\ sat'[other].active # current
      BY <1>1, <1>5, <1>6 DEF VisitedIsDone, Done, InRun
    <2>2. Done(current, other)
      BY <1>2, <2>1 DEF LoopInv, VisitedIsDone
    <2> QED
      BY <1>3, <1>4, <2>1, <2>2 DEF Done, InRun, InDeploy, AtMachine
  <1>10. SessionAsExpected'
    <2>1. CASE pc \in Engaged
      <3>1. machine \in Machines
        BY <1>4, <2>1 DEF InDeploy, AtMachine
      <3>2. CASE machine = m
        <4>1. channel[m] # "new" /\ channel'[m] # "new" /\ channel'[m] # "open"
          BY <1>2, <1>3, <2>1, <3>1, <3>2 DEF LoopInv, SessionAsExpected
        <4> QED
          BY <1>1, <3>2, <4>1 DEF SessionAsExpected
      <3>3. CASE machine # m
        BY <1>1, <1>2, <1>3, <1>5, <2>1, <3>1, <3>3 DEF LoopInv, SessionAsExpected
      <3> QED
        BY <3>2, <3>3
    <2>2. CASE pc \notin Engaged
      BY <1>1, <2>2 DEF SessionAsExpected
    <2> QED
      BY <2>1, <2>2
  <1> QED
    BY <1>7, <1>8, <1>9, <1>10 DEF LoopInv

\* Nothing is being run before and after a step of the validation.
LEMMA LoopValidates ==
  ASSUME SatInv, RowsKept, pc \in Validating, pc' \in Validating, UNCHANGED current,
         remaining \ remaining' \subseteq {machine}, pc = "validate" => UNCHANGED remaining,
         \A m \in Machines \ remaining : Rests(m),
         pc = "validateReady" => sat'[machine].active = 0
  PROVE  LoopInv'
  <1>1. pc \in InDeploy
    BY DEF Validating, InDeploy, AtMachine
  <1>2. /\ remaining \subseteq Affected(current) /\ Affected(current) \subseteq Machines
        /\ Affected(current)' = Affected(current)
    <2>1. PICK p : p = current
      OBVIOUS
    <2>2. /\ remaining \subseteq Affected(p) /\ Affected(p) \subseteq Machines
          /\ Affected(p)' = Affected(p)
      BY <1>1, <2>1, InTheLoop
    <2> QED
      BY <2>1, <2>2 DEF Affected, StepsOf, BundleVersionOf, PackageOf
  <1>3. ValidatedIsFree'
    <2>1. SUFFICES ASSUME NEW m \in Affected(current), m \notin remaining'
                   PROVE  sat'[m].active = 0
      BY <1>2 DEF ValidatedIsFree
    <2>2. CASE m \in remaining
      BY <2>1, <2>2 DEF Validating
    <2>3. CASE m \notin remaining
      <3>1. sat[m].active = 0
        BY <2>1, <2>3 DEF SatInv, LoopInv, ValidatedIsFree
      <3> QED
        BY <1>2, <2>1, <2>3, <3>1 DEF Rests, Keeps
    <2> QED
      BY <2>2, <2>3
  <1> QED
    BY <1>3 DEF LoopInv, RemainingIsFree, VisitedIsDone, SessionAsExpected, InRun, Engaged, Validating

\* The thread goes on with the machine it is at; no other satellite is called.
LEMMA LoopProceeds ==
  ASSUME SatInv, pc \in {"begin"} \union Engaged, pc' \in Engaged,
         UNCHANGED <<publications, current, remaining, machine>>,
         \A m \in Machines : m # machine => Rests(m)
  PROVE  ValidatedIsFree' /\ RemainingIsFree' /\ VisitedIsDone'
  <1>1. pc \in InDeploy /\ pc \in AtMachine /\ InRun
    BY DEF InDeploy, AtMachine, InRun
  <1>2. /\ current \in Scheduled /\ current \in Ids
        /\ remaining \subseteq Affected(current) /\ Affected(current) \subseteq Machines
    BY <1>1, UnchangedRows, InTheLoop
  <1>3. machine \in remaining
    BY <1>1, TypeParts DEF SatInv, TypeInv, Control
  <1>4. Affected(current)' = Affected(current)
          /\ \A m : FullWork(current, m)' = FullWork(current, m)
    BY DEF Affected, FullWork, StepsOf, BundleVersionOf, PackageOf
  <1>5. RemainingIsFree'
    BY <1>1, <1>2 DEF SatInv, LoopInv, RemainingIsFree, Rests, Keeps, Engaged
  <1>6. VisitedIsDone'
    <2>1. SUFFICES ASSUME NEW m \in Affected(current), m \notin remaining
                   PROVE  work'[current][m] = FullWork(current, m) /\ sat'[m].active # current
      BY <1>4 DEF VisitedIsDone, Done
    <2>2. Done(current, m)
      BY <1>1, <2>1 DEF SatInv, LoopInv, VisitedIsDone
    <2> QED
      BY <1>2, <1>3, <2>1, <2>2 DEF Done, Rests, Keeps
  <1> QED
    BY <1>5, <1>6 DEF ValidatedIsFree, Validating, Engaged

\* What the thread relies on at the machine it is at, as a fact about the next state.
LEMMA LoopSession ==
  ASSUME SatInv, pc \in {"begin"} \union Engaged, pc' \in Engaged,
         UNCHANGED <<publications, current, remaining, machine>>,
         \A m \in Machines : m # machine => Rests(m),
         channel'[machine] # "new",
         channel'[machine] = "open" =>
           /\ sat'[machine].active = current
           /\ sat'[machine].queue =
                CASE pc' = "configure" -> Executed(current, machine, at')
                  [] pc' = "run" -> FullWork(current, machine)
                  [] OTHER -> << >>
           /\ work'[current][machine] = IF pc' = "run" THEN Executed(current, machine, at') ELSE << >>
           /\ sat'[machine].next = Len(work'[current][machine])
  PROVE  LoopInv'
  <1>1. /\ FullWork(current, machine)' = FullWork(current, machine)
        /\ Executed(current, machine, at)' = Executed(current, machine, at')
    BY DEF FullWork, Executed, StepsOf, BundleVersionOf, PackageOf
  <1>2. SessionAsExpected'
    BY <1>1 DEF SessionAsExpected
  <1> QED
    BY <1>2, LoopProceeds DEF LoopInv

\* The session the thread relies on before it goes on.
LEMMA SessionBefore ==
  ASSUME SatInv, pc \in Engaged
  PROVE  /\ channel[machine] \in {"open", "broken"}
         /\ channel[machine] = "open" =>
              /\ sat[machine].active = current
              /\ pc \in {"reset", "upload"} => sat[machine].queue = << >>
              /\ pc = "configure" => sat[machine].queue = Executed(current, machine, at)
              /\ pc # "run" => work[current][machine] = << >>
              /\ pc = "run" => /\ sat[machine].queue = FullWork(current, machine)
                               /\ work[current][machine] = Executed(current, machine, at)
              /\ sat[machine].next = Len(work[current][machine])
  <1>1. machine \in Machines /\ SatelliteTypes
    BY AtTheSatellite, TypeParts DEF SatInv, TypeInv, AtMachine, Engaged
  <1> QED
    BY <1>1 DEF SatInv, LoopInv, SessionAsExpected, SatelliteTypes, Engaged

\* The steps the thread passes and what they add to the work.
LEMMA StepsPassed ==
  ASSUME SatInv, pc \in {"configure", "run"}
  PROVE  /\ at \in Nat /\ Len(CurrentSteps) \in Nat /\ at <= Len(CurrentSteps)
         /\ Executed(current, machine, 0) = << >>
         /\ FullWork(current, machine) = Executed(current, machine, Len(CurrentSteps))
         /\ at < Len(CurrentSteps) =>
              /\ NextStep \in Steps
              /\ NextStep \in TestSteps =>
                   Executed(current, machine, at + 1) = Executed(current, machine, at)
              /\ NextStep \notin TestSteps =>
                   Executed(current, machine, at + 1)
                     = Append(Executed(current, machine, at), [step |-> NextStep, package |-> current])
  <1>1. RowTypes /\ ThreadTypes /\ Control
    BY TypeParts DEF SatInv, TypeInv
  <1>2. current \in Scheduled /\ machine \in Machines
    BY AtTheSatellite DEF AtMachine, Engaged
  <1>3. /\ at \in Nat /\ Len(CurrentSteps) \in Nat /\ at <= Len(CurrentSteps)
        /\ CurrentSteps \in Seq(Steps)
    BY <1>1, AtAMachine DEF ThreadTypes, Control, InDeploy, AtMachine, Engaged
  <1>4. at < Len(CurrentSteps) => at \in 0 .. Len(CurrentSteps) - 1 /\ NextStep \in Steps
    BY <1>3 DEF NextStep
  <1> QED
    BY <1>1, <1>2, <1>3, <1>4, ExecutedFacts DEF CurrentSteps, NextStep

LEMMA LoopStep ==
  ASSUME SatInv, [Next]_vars
  PROVE  LoopInv'
  <1>1. TypeInv /\ RowsInv /\ WorkInv /\ LoopInv /\ RowTypes /\ ThreadTypes /\ Control /\ SatelliteTypes
    BY TypeParts DEF SatInv, TypeInv
  <1>2. RowsKept
    BY <1>1, RowsStep
  <1>3. pc \in AtMachine \ {"validateReady"} =>
          /\ current \in Scheduled /\ current \in Ids /\ machine \in Machines /\ machine \in remaining
    BY <1>1, AtTheSatellite DEF Control
  <1>4. ASSUME UNCHANGED <<deployer, sat, channel, work>> PROVE LoopInv'
    BY <1>2, <1>4, LoopKept
  <1>5. CASE \/ \E package \in Packages, environment \in Environments :
                  SchedulePublication(package, environment)
             \/ \E p \in Scheduled : ReadForCancel(p) \/ SaveCanceled(p)
             \/ UNCHANGED vars
    BY <1>4, <1>5 DEF SchedulePublication, ReadForCancel, SaveCanceled, vars, satellites
  <1>6. CASE SelectPublications \/ RestartServer
    BY <1>6, LoopEnds DEF SelectPublications, RestartServer
  <1>7. CASE PackageMissing \/ FinishPublication \/ TestRunThrows
    BY <1>7, EndJobEnds DEF PackageMissing, FinishPublication, TestRunThrows, FailMachine
  <1>8. ASSUME FailMachine PROVE LoopInv'
    BY <1>8, EndJobEnds DEF FailMachine
  <1>9. ASSUME NEW p \in Ids, StartJob(p) PROVE LoopInv'
    <2>1. pc' = "validate" /\ current' = p /\ remaining' = Affected(p) /\ UNCHANGED publications
      BY <1>9 DEF StartJob
    <2>2. Affected(p)' = Affected(p)
      BY <2>1 DEF Affected, StepsOf, BundleVersionOf, PackageOf
    <2> QED
      BY <2>1, <2>2 DEF LoopInv, ValidatedIsFree, RemainingIsFree, VisitedIsDone, SessionAsExpected,
                        InRun, Engaged
  <1>10. ASSUME NEW m \in Machines, RollBackAgent(m) PROVE LoopInv'
    <2>1. PICK answer : /\ Calls(m, RollbackResults(sat[m]), answer)
                        /\ \/ pc' = "validateReady" /\ UNCHANGED <<current, remaining>>
                           \/ EndJob(batch)
      BY <1>10 DEF RollBackAgent
    <2>2. pc = "validate" /\ m \in remaining
      BY <1>10 DEF RollBackAgent
    <2>3. \A other \in Machines \ remaining : Rests(other)
      BY <1>1, <2>1, <2>2, RollbackCall, OthersRest
    <2> QED
      BY <1>2, <2>1, <2>2, <2>3, EndJobEnds, LoopValidates DEF Validating
  <1>11. CASE ValidateReady
    <2>1. PICK answer : /\ Calls(machine, IsReadyResults(sat[machine]), answer)
                        /\ \/ /\ answer = "true" /\ pc' = "validate" /\ UNCHANGED current
                              /\ remaining' = remaining \ {machine}
                           \/ EndJob(batch)
      BY <1>11 DEF ValidateReady
    <2>2. pc = "validateReady" /\ machine \in Machines
      BY <1>1, <1>11, AtAMachine DEF ValidateReady, InDeploy, AtMachine
    <2>3. /\ OnlyOn(machine) /\ Keeps(machine)
          /\ channel'[machine] = IF channel[machine] = "new" THEN "open" ELSE channel[machine]
          /\ answer = "true" => sat[machine].active = 0
      BY <1>1, <2>1, <2>2, ReadyCall
    <2>4. \A other \in Machines : Rests(other)
      BY <2>2, <2>3, CallerRests
    <2>5. answer = "true" => sat'[machine].active = 0
      BY <2>3 DEF Keeps
    <2> QED
      BY <1>2, <2>1, <2>2, <2>4, <2>5, EndJobEnds, LoopValidates DEF Validating
  <1>12. CASE StartPublication
    <2>1. /\ pc = "validate" /\ pc' = "machine" /\ remaining = {} /\ remaining' = Affected(current)
          /\ UNCHANGED <<current, machine, satellites>>
      BY <1>12 DEF StartPublication
    <2>2. current \in Scheduled /\ current \in Ids /\ Affected(current) \subseteq Machines
      BY <1>1, <2>1, AtAMachine DEF InDeploy
    <2>3. Affected(current)' = Affected(current)
      BY <1>2, <2>1, <2>2 DEF RowsKept, Affected, StepsOf, BundleVersionOf, PackageOf
    <2>4. \A m \in Affected(current) : sat[m].active = 0
      BY <1>1, <2>1 DEF LoopInv, ValidatedIsFree, Validating
    <2>5. New(current)
      BY <2>1 DEF New, Selected
    <2>6. \A m \in Machines : work[current][m] = << >>
      BY <1>1, <2>2, <2>5 DEF WorkInv, NewIsUntouched, Untouched
    <2>7. RemainingIsFree'
      BY <2>1, <2>2, <2>4, <2>6 DEF RemainingIsFree, satellites
    <2> QED
      BY <2>1, <2>3, <2>7 DEF LoopInv, ValidatedIsFree, VisitedIsDone, SessionAsExpected, Validating, Engaged
  <1>13. ASSUME NEW m \in Machines, CheckMachine(m) PROVE LoopInv'
    <2>1. PICK answer : /\ Calls(m, IsReadyResults(sat[m]), answer)
                        /\ \/ /\ pc' = "begin" /\ machine' = m
                              /\ UNCHANGED <<publications, batch, bundle, current, remaining, at>>
                           \/ EndJob(batch)
                           \/ AbandonGroup
      BY <1>13 DEF CheckMachine
    <2>2. CASE pc' = "begin" /\ machine' = m
               /\ UNCHANGED <<publications, batch, bundle, current, remaining, at>>
      <3>1. \A other \in Machines : Rests(other)
        BY <1>1, <2>1, ReadyCall, CallerRests
      <3>2. pc = "machine" /\ InRun /\ pc \in InDeploy
        BY <1>13 DEF CheckMachine, InRun, InDeploy
      <3>3. /\ Affected(current)' = Affected(current)
            /\ \A other : FullWork(current, other)' = FullWork(current, other)
        BY <2>2 DEF Affected, FullWork, StepsOf, BundleVersionOf, PackageOf
      <3>4. /\ current \in Ids /\ remaining \subseteq Machines /\ Affected(current) \subseteq Machines
        BY <1>2, <3>2, InTheLoop
      <3>5. RemainingIsFree'
        BY <1>1, <2>2, <3>1, <3>2, <3>4 DEF LoopInv, RemainingIsFree, Rests, Keeps
      <3>6. VisitedIsDone'
        BY <1>1, <2>2, <3>1, <3>2, <3>3, <3>4 DEF LoopInv, VisitedIsDone, Done, Rests, Keeps
      <3> QED
        BY <2>2, <3>5, <3>6 DEF LoopInv, ValidatedIsFree, SessionAsExpected, Validating, Engaged
    <2> QED
      BY <2>1, <2>2, EndJobEnds DEF AbandonGroup
  <1>14. CASE BeginPublication
    <2>1. PICK answer : /\ Calls(machine, BeginPublicationResults(sat[machine], current), answer)
                        /\ answer = "fault" => FailMachine
                        /\ answer # "fault" => Proceed("reset")
      BY <1>14 DEF BeginPublication
    <2>2. CASE answer # "fault"
      <3>1. pc = "begin" /\ pc \in AtMachine \ {"validateReady"} /\ InRun
        BY <1>14 DEF BeginPublication, AtMachine, InRun
      <3>2. sat[machine].active = 0 /\ work[current][machine] = << >>
        BY <1>1, <1>3, <3>1 DEF LoopInv, RemainingIsFree
      <3>3. /\ OnlyOn(machine)
            /\ channel'[machine] = IF channel[machine] = "new" THEN "open" ELSE channel[machine]
            /\ sat'[machine] = [active |-> current, queue |-> << >>, next |-> 0]
            /\ work'[current][machine] = work[current][machine]
        BY <1>1, <1>3, <2>1, <2>2, <3>1, <3>2, BeginCall
      <3>4. pc' = "reset" /\ UNCHANGED <<publications, current, remaining, machine>>
        BY <2>1, <2>2 DEF Proceed
      <3>5. /\ sat'[machine].active = current /\ sat'[machine].queue = << >>
            /\ sat'[machine].next = 0 /\ work'[current][machine] = << >>
        BY <3>2, <3>3
      <3>6. \A m \in Machines : m # machine => Rests(m)
        BY <1>3, <3>1, <3>3, OthersRest
      <3> QED
        BY <3>1, <3>3, <3>4, <3>5, <3>6, LoopSession DEF Engaged
    <2> QED
      BY <1>8, <2>1, <2>2
  <1>15. CASE ResetPackage
    <2>1. PICK answer : /\ Calls(machine, TransferResults(sat[machine]), answer)
                        /\ answer = "fault" => FailMachine
                        /\ answer # "fault" => Proceed("upload")
      BY <1>15 DEF ResetPackage
    <2>2. CASE answer # "fault"
      <3>1. pc = "reset" /\ pc \in AtMachine \ {"validateReady"} /\ pc \in Engaged
        BY <1>15 DEF ResetPackage, AtMachine, Engaged
      <3>2. /\ OnlyOn(machine) /\ Keeps(machine)
            /\ channel'[machine] = IF channel[machine] = "new" THEN "open" ELSE channel[machine]
        BY <1>1, <1>3, <2>1, <3>1, TransferCall
      <3>3. pc' = "upload" /\ UNCHANGED <<publications, current, remaining, machine>>
        BY <2>1, <2>2 DEF Proceed
      <3>4. \A m \in Machines : m # machine => Rests(m)
        BY <1>3, <3>1, <3>2, OthersRest
      <3>5. channel'[machine] # "new" /\ (channel'[machine] = "open" =>
              /\ sat'[machine].active = current /\ sat'[machine].queue = << >>
              /\ work'[current][machine] = << >> /\ sat'[machine].next = Len(work'[current][machine]))
        BY <1>3, <3>1, <3>2, SessionBefore DEF Keeps
      <3> QED
        BY <3>1, <3>3, <3>4, <3>5, LoopSession DEF Engaged
    <2> QED
      BY <1>8, <2>1, <2>2
  <1>16. CASE UploadPackage
    <2>1. PICK answer : /\ Calls(machine, TransferResults(sat[machine]), answer)
                        /\ answer = "fault" => FailMachine
                        /\ answer # "fault" => Proceed("configure") /\ at' = 0
      BY <1>16 DEF UploadPackage
    <2>2. CASE answer # "fault"
      <3>1. pc = "upload" /\ pc \in AtMachine \ {"validateReady"} /\ pc \in Engaged
        BY <1>16 DEF UploadPackage, AtMachine, Engaged
      <3>2. /\ OnlyOn(machine) /\ Keeps(machine)
            /\ channel'[machine] = IF channel[machine] = "new" THEN "open" ELSE channel[machine]
        BY <1>1, <1>3, <2>1, <3>1, TransferCall
      <3>3. pc' = "configure" /\ at' = 0 /\ UNCHANGED <<publications, current, remaining, machine>>
        BY <2>1, <2>2 DEF Proceed
      <3>4. \A m \in Machines : m # machine => Rests(m)
        BY <1>3, <3>1, <3>2, OthersRest
      <3>5. Executed(current, machine, 0) = << >>
        BY <1>1, <1>3, <3>1, ExecutedFacts
      <3>6. channel'[machine] # "new" /\ (channel'[machine] = "open" =>
              /\ sat'[machine].active = current /\ sat'[machine].queue = Executed(current, machine, at')
              /\ work'[current][machine] = << >> /\ sat'[machine].next = Len(work'[current][machine]))
        BY <1>3, <3>1, <3>2, <3>3, <3>5, SessionBefore DEF Keeps
      <3> QED
        BY <3>1, <3>3, <3>4, <3>6, LoopSession DEF Engaged
    <2> QED
      BY <1>8, <2>1, <2>2
  <1>17. CASE ConfigureStep
    <2>1. PICK answer : /\ Calls(machine, EnqueueResults(sat[machine], NextStep), answer)
                        /\ answer = "fault" => FailMachine
                        /\ answer # "fault" => Proceed("configure") /\ at' = at + 1
      BY <1>17 DEF ConfigureStep
    <2>2. CASE answer # "fault"
      <3>1. /\ pc = "configure" /\ pc \in AtMachine \ {"validateReady"} /\ pc \in Engaged
            /\ at < Len(CurrentSteps) /\ NextStep \notin TestSteps
        BY <1>17 DEF ConfigureStep, AtMachine, Engaged
      <3>2. NextStep \in Steps
        BY <3>1, StepsPassed
      <3>3. /\ OnlyOn(machine)
            /\ channel'[machine] = IF channel[machine] = "new" THEN "open" ELSE channel[machine]
            /\ work'[current][machine] = work[current][machine]
            /\ sat'[machine].active = sat[machine].active
            /\ sat'[machine].next = sat[machine].next
            /\ sat'[machine].queue
                 = Append(sat[machine].queue, [step |-> NextStep, package |-> sat[machine].active])
        BY <1>1, <1>3, <2>1, <2>2, <3>1, <3>2, EnqueueCall
      <3>4. pc' = "configure" /\ at' = at + 1 /\ UNCHANGED <<publications, current, remaining, machine>>
        BY <2>1, <2>2 DEF Proceed
      <3>5. \A m \in Machines : m # machine => Rests(m)
        BY <1>3, <3>1, <3>3, OthersRest
      <3>6. channel'[machine] # "new" /\ (channel'[machine] = "open" =>
              /\ sat'[machine].active = current /\ sat'[machine].queue = Executed(current, machine, at')
              /\ work'[current][machine] = << >> /\ sat'[machine].next = Len(work'[current][machine]))
        BY <3>1, <3>3, <3>4, SessionBefore, StepsPassed
      <3> QED
        BY <3>1, <3>4, <3>5, <3>6, LoopSession DEF Engaged
    <2> QED
      BY <1>8, <2>1, <2>2
  <1>18. ASSUME pc \in {"configure", "run"}, at < Len(CurrentSteps), NextStep \in TestSteps,
                Proceed(pc), at' = at + 1, UNCHANGED satellites
         PROVE  LoopInv'
    <2>1. pc' = pc /\ pc \in Engaged /\ UNCHANGED <<publications, current, remaining, machine>>
      BY <1>18 DEF Proceed, Engaged
    <2>2. \A m \in Machines : m # machine => Rests(m)
      BY <1>1, <1>18, EveryoneRests DEF satellites
    <2>3. Executed(current, machine, at + 1) = Executed(current, machine, at)
      BY <1>18, StepsPassed
    <2>4. UNCHANGED <<sat, channel, work>>
      BY <1>18 DEF satellites
    <2> QED
      BY <1>18, <2>1, <2>2, <2>3, <2>4, SessionBefore, LoopSession
  <1>19. CASE SkipTestStep
    BY <1>18, <1>19 DEF SkipTestStep
  <1>20. ASSUME NEW passed \in BOOLEAN, RunTests(passed) PROVE LoopInv'
    BY <1>18, <1>20 DEF RunTests
  <1>21. CASE StartRunning
    <2>1. /\ pc = "configure" /\ pc \in Engaged /\ at = Len(CurrentSteps) /\ pc' = "run" /\ at' = 0
          /\ UNCHANGED <<publications, current, remaining, machine>>
          /\ UNCHANGED <<sat, channel, work>>
      BY <1>21 DEF StartRunning, Proceed, satellites, Engaged
    <2>2. \A m \in Machines : m # machine => Rests(m)
      BY <1>1, <2>1, EveryoneRests
    <2> QED
      BY <2>1, <2>2, SessionBefore, StepsPassed, LoopSession DEF Engaged
  <1>22. CASE ExecuteStep
    <2>1. PICK answer : /\ Calls(machine, ExecuteResults(sat[machine]), answer)
                        /\ answer # "true" => FailMachine
                        /\ answer = "true" => Proceed("run") /\ at' = at + 1
      BY <1>22 DEF ExecuteStep
    <2>2. CASE answer = "true"
      <3>1. /\ pc = "run" /\ pc \in AtMachine \ {"validateReady"} /\ pc \in Engaged
            /\ at < Len(CurrentSteps) /\ NextStep \notin TestSteps
        BY <1>22 DEF ExecuteStep, AtMachine, Engaged
      <3>2. /\ OnlyOn(machine) /\ channel[machine] # "broken" /\ Executes(machine)
            /\ channel'[machine] = IF channel[machine] = "new" THEN "open" ELSE channel[machine]
        BY <1>1, <1>3, <2>1, <2>2, <3>1, ExecuteCall
      <3>3. /\ sat'[machine].active = current /\ sat'[machine].queue = sat[machine].queue
            /\ sat'[machine].next = sat[machine].next + 1
            /\ work'[current][machine] = Executed(current, machine, at + 1)
            /\ Len(work'[current][machine]) = Len(work[current][machine]) + 1
        BY <3>1, <3>2, NextExecuted
      <3>4. pc' = "run" /\ at' = at + 1 /\ UNCHANGED <<publications, current, remaining, machine>>
        BY <2>1, <2>2 DEF Proceed
      <3>5. \A m \in Machines : m # machine => Rests(m)
        BY <1>3, <3>1, <3>2, OthersRest
      <3> QED
        BY <3>1, <3>2, <3>3, <3>4, <3>5, SessionBefore, LoopSession DEF Engaged
    <2> QED
      BY <1>8, <2>1, <2>2
  <1>23. CASE CompleteMachine
    <2>1. PICK answer : /\ Calls(machine, CompleteResults(sat[machine]), answer)
                        /\ answer = "fault" => FailMachine
                        /\ answer # "fault" =>
                             /\ remaining' = remaining \ {machine} /\ machine' = NoMachine
                             /\ pc' = "machine" /\ UNCHANGED <<publications, current>>
      BY <1>23 DEF CompleteMachine
    <2>2. CASE answer # "fault"
      <3>1. /\ pc = "run" /\ pc \in AtMachine \ {"validateReady"} /\ pc \in Engaged /\ pc \in InDeploy
            /\ at = Len(CurrentSteps) /\ InRun
        BY <1>23 DEF CompleteMachine, AtMachine, Engaged, InRun, InDeploy
      <3>2. /\ OnlyOn(machine) /\ channel[machine] # "broken" /\ Completes(machine)
        BY <1>1, <1>3, <2>1, <2>2, <3>1, CompleteCall
      <3>3. /\ sat[machine].active = current /\ sat[machine].queue = FullWork(current, machine)
            /\ work[current][machine] = FullWork(current, machine)
        BY <3>1, <3>2, AllExecuted
      <3>4. sat'[machine].active = 0 /\ work'[current][machine] = FullWork(current, machine)
        BY <3>2, <3>3 DEF Completes
      <3>5. \A m \in Machines : m # machine => Rests(m)
        BY <1>3, <3>1, <3>2, OthersRest
      <3>6. /\ current \in Ids /\ current # 0
            /\ remaining \subseteq Machines /\ Affected(current) \subseteq Machines
        BY <1>1, <3>1, AtAMachine
      <3>7. /\ Affected(current)' = Affected(current)
            /\ \A m : FullWork(current, m)' = FullWork(current, m)
        BY <2>1, <2>2 DEF Affected, FullWork, StepsOf, BundleVersionOf, PackageOf
      <3>8. RemainingIsFree'
        BY <1>1, <2>1, <2>2, <3>1, <3>5, <3>6 DEF LoopInv, RemainingIsFree, Rests, Keeps
      <3>9. VisitedIsDone'
        <4>1. SUFFICES ASSUME NEW m \in Affected(current), m \notin remaining \ {machine}
                       PROVE  work'[current][m] = FullWork(current, m) /\ sat'[m].active # current
          BY <2>1, <2>2, <3>7 DEF VisitedIsDone, Done
        <4>2. CASE m = machine
          BY <3>4, <3>6, <4>2
        <4>3. CASE m # machine
          BY <1>1, <3>1, <3>5, <3>6, <4>1, <4>3 DEF LoopInv, VisitedIsDone, Done, Rests, Keeps
        <4> QED
          BY <4>2, <4>3
      <3> QED
        BY <2>1, <2>2, <3>8, <3>9 DEF LoopInv, ValidatedIsFree, SessionAsExpected, Validating, Engaged
    <2> QED
      BY <1>8, <2>1, <2>2
  <1>24. ASSUME NEW m \in Machines, RestartSatellite(m) PROVE LoopInv'
    BY <1>24, LoopRestart
  <1> QED
    BY <1>5, <1>6, <1>7, <1>9, <1>10, <1>11, <1>12, <1>13, <1>14, <1>15, <1>16, <1>17, <1>19,
       <1>20, <1>21, <1>22, <1>23, <1>24 DEF Next, DeployerNext

LEMMA SatInit == Init => SatInv
  <1> SUFFICES ASSUME Init PROVE SatInv
    OBVIOUS
  <1>1. TypeInv
    BY TypeInit
  <1>2. Scheduled = {} /\ Selected = {} /\ Running = 0
    BY DEF Init, Scheduled, Selected, Running
  <1>3. RowsInv
    BY <1>2 DEF RowsInv
  <1>4. WorkInv
    BY <1>2 DEF Init, WorkInv, BrokenIsFree, NewIsUntouched, Untouched, WorkIsBeginning,
                CompleteIsDone, PartialIsActive, FreshSession, Ids
  <1>5. LoopInv
    BY DEF Init, LoopInv, ValidatedIsFree, RemainingIsFree, VisitedIsDone, SessionAsExpected,
           Validating, InRun, Engaged
  <1> QED
    BY <1>1, <1>3, <1>4, <1>5 DEF SatInv

LEMMA SatNext == SatInv /\ [Next]_vars => SatInv'
  <1> SUFFICES ASSUME SatInv, [Next]_vars PROVE SatInv'
    OBVIOUS
  <1>1. TypeInv /\ RowsInv
    BY DEF SatInv
  <1>2. TypeInv'
    BY <1>1, TypeNext
  <1>3. RowsInv'
    BY <1>1, RowsStep
  <1> QED
    BY <1>2, <1>3, WorkStep, LoopStep DEF SatInv

LEMMA SatAlways == Spec => []SatInv
  BY SatInit, SatNext, PTL DEF Spec

\* A publication is reported complete only if every machine concerned has executed all its
\* operations in order, from its own package, and no later rollback undoes any of them.
\* The satellites' sessions carry the proof: a channel that is still open has seen every
\* call of the deployment, so the index and the queue of the satellite are the thread's.
THEOREM DeploymentCompleteMeansDeployed == Spec => []CompleteMeansDeployed
  <1>1. SatInv => CompleteMeansDeployed
    BY DEF SatInv, WorkInv, CompleteIsDone, Done, CompleteMeansDeployed
  <1> QED
    BY <1>1, SatAlways, PTL

\* What any machine has executed and not undone is a beginning of the full work of the
\* publication, a failed deployment included.
THEOREM DeploymentStepsInOrder == Spec => []StepsInOrder
  <1>1. SatInv => StepsInOrder
    <2>1. SUFFICES ASSUME SatInv, NEW p \in Scheduled, NEW m \in Machines, work[p][m] # << >>
                   PROVE  /\ m \in Affected(p)
                          /\ Len(work[p][m]) <= Len(FullWork(p, m))
                          /\ work[p][m] = SubSeq(FullWork(p, m), 1, Len(work[p][m]))
      BY DEF StepsInOrder
    <2> DEFINE done == work[p][m]
               full == FullWork(p, m)
    <2>2. m \in Affected(p) /\ IsBeginning(done, full)
      BY <2>1 DEF SatInv, WorkInv, WorkIsBeginning
    <2>3. done \in Seq(Operation) /\ full \in Seq(Operation)
      BY <2>1, TypeParts, RowFields, ExecutedFacts DEF SatInv, TypeInv, SatelliteTypes
    <2> HIDE DEF done, full
    <2>4. done = SubSeq(full, 1, Len(done))
      BY <2>2, <2>3 DEF IsBeginning
    <2> QED
      BY <2>2, <2>4 DEF IsBeginning, done, full
  <1> QED
    BY <1>1, SatAlways, PTL

\* While a publication is run on a machine, another one has left there a full deployment
\* or nothing, or a restart of the satellite has lost its undo log.
THEOREM DeploymentNoMixedDeployments == Spec => []NoMixedDeployments
  <1>1. SatInv => NoMixedDeployments
    <2>1. SUFFICES ASSUME SatInv, pc \in Engaged, NEW q \in Scheduled \ {current}
                   PROVE  \/ work[q][machine] \in {<< >>, FullWork(q, machine)}
                          \/ <<q, machine>> \in orphans
      BY DEF NoMixedDeployments, Engaged
    <2>2. machine \in Machines /\ SatelliteTypes /\ q \in Ids /\ q # 0
      BY <2>1, AtTheSatellite, TypeParts, RowFields DEF SatInv, TypeInv, AtMachine, Engaged, Ids
    <2>3. channel[machine] \in {"open", "broken"}
      BY <2>1, SessionBefore
    <2>4. sat[machine].active \in {0, current}
      BY <2>1, <2>2, <2>3, SessionBefore DEF SatInv, WorkInv, BrokenIsFree
    <2> QED
      BY <2>1, <2>2, <2>4 DEF SatInv, WorkInv, PartialIsActive
  <1> QED
    BY <1>1, SatAlways, PTL

-----------------------------------------------------------------------------
(* The rows of the machines.                                               *)

MachineState(p, m) == machinePublications[p][m]

ExpectedState(m) ==
  CASE m \notin remaining -> "Complete"
    [] m = machine /\ pc = "upload" -> "Uploading"
    [] m = machine /\ pc = "configure" -> "Configuring"
    [] m = machine /\ pc = "run" -> "Running"
    [] OTHER -> "Queued"

\* No machine has begun what is new.
NewRows == \A p \in Ids : New(p) => \A m \in Machines : MachineState(p, m) \in {"None", "Undefined"}

\* The rows of the publication in progress say where the thread is.
RunRows == InRun => \A m \in Affected(current) : MachineState(current, m) = ExpectedState(m)

\* The rows of a publication agree with its state.
RowsAgree(p) ==
  /\ StateOf(p) = "Complete" => \A m \in Affected(p) : MachineState(p, m) = "Complete"
  /\ StateOf(p) = "Error" =>
       /\ \E m \in Affected(p) : MachineState(p, m) = "Error"
       /\ \A m \in Affected(p) : MachineState(p, m) \notin ActiveMachineStates
  /\ \A m1, m2 \in Affected(p) :
       MachineState(p, m1) \in ActiveMachineStates /\ MachineState(p, m2) \in ActiveMachineStates
         => m1 = m2

MachineRowsInv == NewRows /\ RunRows /\ \A p \in Scheduled : RowsAgree(p)

IInv == SatInv /\ MachineRowsInv

\* How the state of a machine publication can change: the job adds what is missing, the
\* publication is started, or the machine being deployed to gets on or fails.
RowStep(p, m) ==
  LET before == MachineState(p, m)
      after == machinePublications'[p][m] IN
    \/ after = before
    \/ p \in Selected /\ before = "None" /\ after = "Undefined"
    \/ p \in Selected /\ p = current /\ StartPublication /\ m \in Affected(p) /\ after = "Queued"
    \/ /\ p = current /\ m = machine /\ pc \in {"begin"} \union Engaged
       /\ \/ pc = "reset" /\ after = "Uploading"
          \/ pc = "upload" /\ after = "Configuring"
          \/ pc = "configure" /\ after = "Running"
          \/ pc = "run" /\ after = "Complete"
          \/ after = "Error" /\ FailMachine

LEMMA SetMachineStep ==
  ASSUME TypeInv, pc \in {"begin"} \union Engaged, NEW state, SetMachine(machine, state),
         NEW p \in Ids, NEW m \in Machines, machinePublications'[p][m] # MachineState(p, m)
  PROVE  p = current /\ m = machine /\ machinePublications'[p][m] = state
  BY TypeParts DEF TypeInv, RowTypes, SetMachine, MachineState

LEMMA RowsOfMachinesStep ==
  ASSUME TypeInv, [Next]_vars, NEW p \in Ids, NEW m \in Machines
  PROVE  RowStep(p, m)
  <1>0. RowTypes /\ ThreadTypes /\ Control
    BY TypeParts DEF TypeInv
  <1>1. ASSUME UNCHANGED machinePublications PROVE RowStep(p, m)
    BY <1>1 DEF RowStep, MachineState
  <1>2. ASSUME pc \in {"begin"} \union Engaged, FailMachine PROVE RowStep(p, m)
    BY <1>2, SetMachineStep DEF RowStep, FailMachine
  <1>3. ASSUME NEW q \in Ids, StartJob(q) PROVE RowStep(p, m)
    <2>1. /\ q \in batch
          /\ machinePublications' = [machinePublications EXCEPT ![q] =
               [n \in Machines |-> IF n \in Affected(q) /\ @[n] = "None" THEN "Undefined" ELSE @[n]]]
      BY <1>3 DEF StartJob
    <2> QED
      BY <1>0, <2>1 DEF RowStep, MachineState, RowTypes, Selected
  <1>4. CASE StartPublication
    <2>1. /\ pc = "validate"
          /\ machinePublications' = [machinePublications EXCEPT ![current] =
               [n \in Machines |-> IF n \in Affected(current) THEN "Queued" ELSE @[n]]]
      BY <1>4 DEF StartPublication
    <2> QED
      BY <1>0, <1>4, <2>1 DEF RowStep, MachineState, RowTypes, Selected
  <1>5. CASE ResetPackage
    BY <1>2, <1>5, SetMachineStep DEF ResetPackage, RowStep, Engaged
  <1>6. CASE UploadPackage
    BY <1>2, <1>6, SetMachineStep DEF UploadPackage, RowStep, Engaged
  <1>7. CASE StartRunning
    BY <1>7, SetMachineStep DEF StartRunning, RowStep, Engaged
  <1>8. CASE CompleteMachine
    BY <1>2, <1>8, SetMachineStep DEF CompleteMachine, RowStep, Engaged
  <1>9. CASE BeginPublication
    BY <1>1, <1>2, <1>9 DEF BeginPublication
  <1>10. CASE ConfigureStep
    BY <1>1, <1>2, <1>10 DEF ConfigureStep, Engaged
  <1>11. CASE ExecuteStep
    BY <1>1, <1>2, <1>11 DEF ExecuteStep, Engaged
  <1>12. CASE TestRunThrows
    BY <1>2, <1>12 DEF TestRunThrows, Engaged
  <1>13. CASE \/ \E passed \in BOOLEAN : RunTests(passed)
              \/ \E package \in Packages, environment \in Environments :
                   SchedulePublication(package, environment)
              \/ \E q \in Scheduled : ReadForCancel(q) \/ SaveCanceled(q)
    BY <1>1, <1>13 DEF RunTests, SchedulePublication, ReadForCancel, SaveCanceled, database
  <1>14. CASE \E n \in Machines : RollBackAgent(n) \/ CheckMachine(n) \/ RestartSatellite(n)
    BY <1>1, <1>14 DEF RollBackAgent, CheckMachine, RestartSatellite, database
  <1>15. CASE SelectPublications \/ ValidateReady \/ PackageMissing
    BY <1>1, <1>15 DEF SelectPublications, ValidateReady, PackageMissing, database
  <1>16. CASE SkipTestStep \/ FinishPublication \/ RestartServer \/ UNCHANGED vars
    BY <1>1, <1>16 DEF SkipTestStep, FinishPublication, RestartServer, vars, database
  <1> QED
    BY <1>3, <1>4, <1>5, <1>6, <1>7, <1>8, <1>9, <1>10, <1>11, <1>12, <1>13, <1>14, <1>15, <1>16
       DEF Next, DeployerNext

\* What is selected or begun, and in which state the row of a machine is when it changes.
LEMMA RowsBefore ==
  ASSUME IInv
  PROVE  /\ pc \in {"begin"} \union Engaged =>
              /\ current \in Scheduled /\ machine \in Machines /\ ~New(current)
              /\ machine \in Affected(current) /\ machine \in remaining
              /\ StateOf(current) \in {"InProgress", "Canceled"}
              /\ MachineState(current, machine) =
                   CASE pc = "upload" -> "Uploading" [] pc = "configure" -> "Configuring"
                     [] pc = "run" -> "Running" [] OTHER -> "Queued"
              /\ \A m \in Affected(current) :
                   m # machine => MachineState(current, m) \in {"Queued", "Complete"}
         /\ \A p \in Selected : /\ StateOf(p) \in {"Queued", "Canceled"} /\ p \in Ids
                                /\ \A m \in Machines : MachineState(p, m) \in {"None", "Undefined"}
  <1>1. SatInv /\ TypeInv /\ RowsInv /\ Control /\ RowTypes /\ NewRows /\ RunRows
    BY TypeParts DEF IInv, SatInv, TypeInv, MachineRowsInv
  <1>2. ASSUME pc \in {"begin"} \union Engaged
        PROVE  /\ current \in Scheduled /\ machine \in Machines /\ ~New(current)
               /\ machine \in Affected(current) /\ machine \in remaining
               /\ StateOf(current) \in {"InProgress", "Canceled"}
               /\ InRun
    BY <1>1, <1>2, AtTheSatellite DEF AtMachine, Engaged, Control, InRun
  <1>3. ASSUME pc \in {"begin"} \union Engaged
        PROVE  /\ MachineState(current, machine) =
                    CASE pc = "upload" -> "Uploading" [] pc = "configure" -> "Configuring"
                      [] pc = "run" -> "Running" [] OTHER -> "Queued"
               /\ \A m \in Affected(current) :
                    m # machine => MachineState(current, m) \in {"Queued", "Complete"}
    BY <1>1, <1>2, <1>3 DEF RunRows, ExpectedState
  <1>4. ASSUME NEW p \in Selected
        PROVE  /\ StateOf(p) \in {"Queued", "Canceled"} /\ p \in Ids
               /\ \A m \in Machines : MachineState(p, m) \in {"None", "Undefined"}
    <2>1. p \in Ids
      BY <1>1, SelectedAndRunning, RowFields
    <2> QED
      BY <1>1, <2>1 DEF RowsInv, NewRows, New
  <1> QED
    BY <1>2, <1>3, <1>4

LEMMA NewRowsStep ==
  ASSUME IInv, [Next]_vars
  PROVE  NewRows'
  <1>1. TypeInv /\ NewRows /\ Control /\ RowTypes
    BY TypeParts DEF IInv, SatInv, TypeInv, MachineRowsInv
  <1>2. SUFFICES ASSUME NEW p \in Ids, New(p)', NEW m \in Machines
                 PROVE  machinePublications'[p][m] \in {"None", "Undefined"}
    BY DEF NewRows, MachineState
  <1>3. New(p)
    BY <1>1, <1>2, RowsStep
  <1>4. MachineState(p, m) \in {"None", "Undefined"}
    BY <1>1, <1>3 DEF NewRows
  <1>5. ~(p = current /\ StartPublication)
    <2>1. SUFFICES ASSUME p = current, StartPublication PROVE FALSE
      OBVIOUS
    <2>2. /\ pc = "validate" /\ pc' = "machine" /\ SetPublication("InProgress")
          /\ UNCHANGED <<batch, current>>
      BY <2>1 DEF StartPublication
    <2>3. p \in Scheduled /\ p \notin batch
      BY <1>1, <2>1, <2>2 DEF Control, InDeploy
    <2>4. Scheduled' = Scheduled /\ StateOf(p)' = "InProgress"
      BY <1>1, <2>1, <2>2, <2>3, SetPublicationTypes DEF PublicationStates
    <2> QED
      BY <1>2, <2>2, <2>3, <2>4 DEF New, Selected
  <1>6. ~(p = current /\ pc \in {"begin"} \union Engaged)
    BY <1>3, RowsBefore
  <1> QED
    BY <1>1, <1>4, <1>5, <1>6, RowsOfMachinesStep DEF RowStep

LEMMA AffectedKept ==
  ASSUME SatInv, RowsKept, pc \in InDeploy, UNCHANGED current
  PROVE  Affected(current)' = Affected(current)
  <1>1. PICK p : p = current
    OBVIOUS
  <1>2. Affected(p)' = Affected(p)
    BY <1>1, InTheLoop
  <1> QED
    BY <1>1, <1>2 DEF Affected, StepsOf, BundleVersionOf, PackageOf

\* A machine gets on and the rows of the others stay as they are.
LEMMA RunRowsMove ==
  ASSUME IInv, RowsKept, pc \in {"begin"} \union Engaged, UNCHANGED current,
         NEW state \in MachineStates, SetMachine(machine, state),
         \/ /\ UNCHANGED <<remaining, machine>>
            /\ \/ pc' = "upload" /\ state = "Uploading"
               \/ pc' = "configure" /\ state = "Configuring"
               \/ pc' = "run" /\ state = "Running"
         \/ remaining' = remaining \ {machine} /\ pc' = "machine" /\ state = "Complete"
  PROVE  RunRows'
  <1>1. SatInv /\ TypeInv /\ RowTypes /\ RunRows
    BY TypeParts DEF IInv, SatInv, TypeInv, MachineRowsInv
  <1>2. pc \in InDeploy /\ InRun
    BY DEF InDeploy, AtMachine, InRun
  <1>3. /\ current \in Ids /\ machine \in Machines /\ machine \in remaining
        /\ Affected(current) \subseteq Machines
    BY <1>1, <1>2, RowsBefore, InTheLoop DEF RowTypes
  <1>4. /\ machinePublications'[current][machine] = state
        /\ \A m \in Machines : m # machine => machinePublications'[current][m] = MachineState(current, m)
    BY <1>1, <1>3 DEF SetMachine, RowTypes, MachineState
  <1>5. Affected(current)' = Affected(current)
    BY <1>1, <1>2, AffectedKept
  <1>6. SUFFICES ASSUME NEW m \in Affected(current)
                 PROVE  machinePublications'[current][m] = ExpectedState(m)'
    BY <1>5 DEF RunRows, MachineState
  <1>7. CASE m = machine
    BY <1>3, <1>4, <1>7 DEF ExpectedState
  <1>8. CASE m # machine
    <2>1. MachineState(current, m) = ExpectedState(m) /\ m \in Machines
      BY <1>1, <1>2, <1>3 DEF RunRows
    <2>2. ExpectedState(m)' = ExpectedState(m)
      BY <1>8 DEF ExpectedState
    <2> QED
      BY <1>4, <1>8, <2>1, <2>2
  <1> QED
    BY <1>7, <1>8

\* No row changes, and the thread stays where the rows say it is.
LEMMA RunRowsStay ==
  ASSUME IInv, RowsKept, UNCHANGED <<current, remaining, machinePublications>>,
         \/ UNCHANGED <<pc, machine>>
         \/ pc \in {"machine", "begin"} /\ pc' \in {"begin", "reset"}
  PROVE  RunRows'
  <1>1. SatInv /\ RunRows
    BY DEF IInv, MachineRowsInv
  <1>2. CASE InRun
    <2>1. Affected(current)' = Affected(current)
      BY <1>1, <1>2, AffectedKept DEF InRun, InDeploy, AtMachine
    <2>2. \A m : ExpectedState(m)' = ExpectedState(m)
      BY DEF ExpectedState
    <2> QED
      BY <1>1, <1>2, <2>1, <2>2 DEF RunRows, MachineState
  <1>3. CASE ~InRun
    BY <1>3 DEF RunRows, InRun
  <1> QED
    BY <1>2, <1>3

LEMMA RunRowsEnd ==
  ASSUME pc' \notin {"machine", "begin"} \union Engaged
  PROVE  RunRows'
  BY DEF RunRows, InRun

LEMMA RunRowsStep ==
  ASSUME IInv, [Next]_vars
  PROVE  RunRows'
  <1>0. /\ SatInv /\ TypeInv /\ RowTypes /\ ThreadTypes /\ Control /\ RunRows
        /\ RowsKept
    BY TypeParts, RowsStep DEF IInv, SatInv, TypeInv, MachineRowsInv
  <1>1. ASSUME NEW rest, EndJob(rest) PROVE RunRows'
    BY <1>1, RunRowsEnd DEF EndJob, Engaged
  <1>2. ASSUME FailMachine PROVE RunRows'
    BY <1>1, <1>2 DEF FailMachine
  <1>3. ASSUME UNCHANGED <<deployer, machinePublications>> PROVE RunRows'
    BY <1>0, <1>3, RunRowsStay DEF deployer
  <1>4. CASE UNCHANGED vars
    BY <1>3, <1>4 DEF vars, database
  <1>5. CASE \/ \E package \in Packages, environment \in Environments :
                  SchedulePublication(package, environment)
             \/ \E q \in Scheduled : ReadForCancel(q) \/ SaveCanceled(q)
             \/ \E n \in Machines : RestartSatellite(n)
    BY <1>3, <1>5 DEF SchedulePublication, ReadForCancel, SaveCanceled, RestartSatellite, database
  <1>6. CASE \/ SelectPublications
             \/ \E q \in Ids : StartJob(q)
             \/ RestartServer
    BY <1>6, RunRowsEnd DEF SelectPublications, StartJob, RestartServer, Engaged
  <1>7. CASE (\E n \in Machines : RollBackAgent(n)) \/ ValidateReady \/ PackageMissing
    BY <1>1, <1>7, RunRowsEnd DEF RollBackAgent, ValidateReady, PackageMissing, Engaged
  <1>8. CASE StartPublication
    <2>1. /\ pc = "validate" /\ pc' = "machine" /\ UNCHANGED current
          /\ remaining' = Affected(current)
          /\ machinePublications' = [machinePublications EXCEPT ![current] =
               [m \in Machines |-> IF m \in Affected(current) THEN "Queued" ELSE @[m]]]
      BY <1>8 DEF StartPublication
    <2>2. current \in Ids /\ Affected(current) \subseteq Machines
      BY <1>0, <2>1, InTheLoop DEF InDeploy
    <2>3. Affected(current)' = Affected(current)
      BY <1>0, <2>1, AffectedKept DEF InDeploy
    <2>4. \A m \in Affected(current) : machinePublications'[current][m] = "Queued"
      BY <1>0, <2>1, <2>2 DEF RowTypes
    <2>5. \A m \in Affected(current) : ExpectedState(m)' = "Queued"
      BY <2>1 DEF ExpectedState
    <2> QED
      BY <2>1, <2>3, <2>4, <2>5 DEF RunRows, MachineState
  <1>9. CASE \E n \in Machines : CheckMachine(n)
    <2>1. PICK n \in Machines : CheckMachine(n)
      BY <1>9
    <2>2. \/ UNCHANGED <<current, remaining, machinePublications>> /\ pc = "machine" /\ pc' = "begin"
          \/ \E rest : EndJob(rest)
      BY <2>1 DEF CheckMachine, AbandonGroup
    <2> QED
      BY <1>0, <1>1, <2>2, RunRowsStay
  <1>10. CASE BeginPublication
    <2>1. \/ FailMachine
          \/ UNCHANGED <<current, remaining, machinePublications>> /\ pc = "begin" /\ pc' = "reset"
      BY <1>10 DEF BeginPublication, Proceed
    <2> QED
      BY <1>0, <1>2, <2>1, RunRowsStay
  <1>11. CASE ResetPackage
    BY <1>0, <1>2, <1>11, RunRowsMove DEF ResetPackage, Proceed, Engaged, MachineStates
  <1>12. CASE UploadPackage
    BY <1>0, <1>2, <1>12, RunRowsMove DEF UploadPackage, Proceed, Engaged, MachineStates
  <1>13. CASE ConfigureStep \/ SkipTestStep \/ ExecuteStep \/ (\E passed \in BOOLEAN : RunTests(passed))
             \/ TestRunThrows
    <2>1. \/ FailMachine
          \/ UNCHANGED <<current, remaining, machinePublications, pc, machine>>
      BY <1>13 DEF ConfigureStep, SkipTestStep, ExecuteStep, RunTests, TestRunThrows, Proceed
    <2> QED
      BY <1>0, <1>2, <2>1, RunRowsStay
  <1>14. CASE StartRunning
    BY <1>0, <1>14, RunRowsMove DEF StartRunning, Proceed, Engaged, MachineStates
  <1>15. CASE CompleteMachine
    BY <1>0, <1>2, <1>15, RunRowsMove DEF CompleteMachine, Engaged, MachineStates
  <1>16. CASE FinishPublication
    BY <1>1, <1>16 DEF FinishPublication
  <1> QED
    BY <1>4, <1>5, <1>6, <1>7, <1>8, <1>9, <1>10, <1>11, <1>12, <1>13, <1>14, <1>15, <1>16
       DEF Next, DeployerNext

LEMMA RowsAgreeStep ==
  ASSUME IInv, [Next]_vars
  PROVE  \A p \in Scheduled' : RowsAgree(p)'
  <1>0. /\ SatInv /\ TypeInv /\ RowTypes /\ RowsInv /\ RemainingIsFree /\ RunRows
        /\ RowsKept /\ RowsInv' /\ NewRows' /\ TypeInv'
        /\ \A p \in Scheduled' \ Scheduled : StateOf(p)' = "Queued"
        /\ \A p \in Scheduled : RowsAgree(p)
    BY TypeParts, RowsStep, NewRowsStep, TypeNext DEF IInv, SatInv, TypeInv, MachineRowsInv, LoopInv
  <1>1. SUFFICES ASSUME NEW p \in Scheduled' PROVE RowsAgree(p)'
    OBVIOUS
  <1>2. p \in Ids
    BY <1>0, <1>1, DeploymentAssumption DEF TypeInv, TypeOK, Scheduled, Ids
  <1> DEFINE after(m) == machinePublications'[p][m]
  <1>3. CASE New(p)'
    <2>1. \A m \in Machines : after(m) \in {"None", "Undefined"}
      BY <1>0, <1>2, <1>3 DEF NewRows, MachineState
    <2>2. StateOf(p)' \in {"Queued", "Canceled"}
      BY <1>0, <1>3 DEF New, RowsInv
    <2>3. Affected(p)' \subseteq Machines
      <3>1. publications'[p] \in Publication
        BY <1>0, <1>1 DEF TypeInv, TypeOK, Scheduled
      <3> QED
        BY <3>1, DeploymentAssumption DEF Affected, Publication
    <2> QED
      BY <2>1, <2>2, <2>3 DEF RowsAgree, MachineState, ActiveMachineStates
  <1>4. CASE ~New(p)'
    <2>1. p \in Scheduled
      BY <1>0, <1>4 DEF New
    <2>2. Affected(p)' = Affected(p) /\ Affected(p) \subseteq Machines
      BY <1>0, <2>1, KeptRows, RowFields
    <2>3. \A m \in Machines : RowStep(p, m)
      BY <1>0, <1>2, RowsOfMachinesStep
    <2>4. \A state \in {"Complete", "Error"} : StateOf(p)' = state /\ StateOf(p) # state =>
            /\ p = current
            /\ \/ state = "Complete" /\ FinishPublication
               \/ state = "Error" /\ pc \in {"begin"} \union Engaged /\ FailMachine
      BY <1>0, <2>1, Finishes
    <2>5. FinishPublication => pc = "machine"
      BY DEF FinishPublication
    <2>6. RowsAgree(p)
      BY <1>0, <2>1
    <2>7. CASE p \in Selected
      <3>1. /\ StateOf(p) \in {"Queued", "Canceled"}
            /\ pc \in {"machine", "begin"} \union Engaged => p # current
        BY <1>0, <2>7, SelectedAndRunning, RowsBefore DEF RowsInv
      <3>2. StateOf(p)' \notin {"Complete", "Error"}
        BY <2>4, <2>5, <2>7, <3>1, RowsBefore
      <3>3. \A m \in Machines : after(m) \notin ActiveMachineStates
        BY <1>2, <2>3, <2>7, <3>1, RowsBefore DEF RowStep, ActiveMachineStates
      <3> QED
        BY <2>2, <3>2, <3>3 DEF RowsAgree, MachineState
    <2>8. CASE p \notin Selected /\ p = current /\ pc \in {"begin"} \union Engaged
      <3>1. /\ machine \in Affected(p) /\ machine \in Machines
            /\ StateOf(p) \in {"InProgress", "Canceled"}
            /\ \A m \in Affected(p) : m # machine => MachineState(p, m) \in {"Queued", "Complete"}
        BY <2>8, RowsBefore
      <3>2. \A m \in Affected(p) : m # machine => after(m) \in {"Queued", "Complete"}
        BY <2>2, <2>3, <2>8, <3>1 DEF RowStep
      <3>3. \A m1, m2 \in Affected(p) :
              after(m1) \in ActiveMachineStates /\ after(m2) \in ActiveMachineStates => m1 = m2
        BY <3>2 DEF ActiveMachineStates
      <3>4. StateOf(p)' # "Complete"
        BY <2>4, <2>5, <2>8, <3>1 DEF Engaged
      <3>5. StateOf(p)' = "Error" => after(machine) = "Error"
        <4>1. SUFFICES ASSUME FailMachine PROVE after(machine) = "Error"
          BY <2>4, <3>1
        <4> QED
          BY <1>0, <1>2, <2>8, <3>1, <4>1 DEF FailMachine, SetMachine, RowTypes
      <3> QED
        BY <2>2, <3>1, <3>2, <3>3, <3>4, <3>5 DEF RowsAgree, MachineState, ActiveMachineStates
    <2>9. CASE p \notin Selected /\ ~(p = current /\ pc \in {"begin"} \union Engaged)
      <3>1. \A m \in Machines : after(m) = MachineState(p, m)
        BY <2>3, <2>9 DEF RowStep
      <3>2. StateOf(p)' = "Error" => StateOf(p) = "Error"
        BY <2>4, <2>9
      <3>3. StateOf(p)' = "Complete" => \A m \in Affected(p) : after(m) = "Complete"
        <4>1. SUFFICES ASSUME StateOf(p)' = "Complete", StateOf(p) # "Complete", NEW m \in Affected(p)
                       PROVE  after(m) = "Complete"
          BY <2>2, <2>6, <3>1 DEF RowsAgree
        <4>2. p = current /\ pc = "machine" /\ remaining = {}
          BY <2>4, <4>1 DEF FinishPublication
        <4>3. MachineState(p, m) = "Complete"
          BY <1>0, <4>1, <4>2 DEF RunRows, InRun, ExpectedState
        <4> QED
          BY <2>2, <3>1, <4>3
      <3> QED
        BY <2>2, <2>6, <3>1, <3>2, <3>3 DEF RowsAgree, MachineState
    <2> QED
      BY <2>7, <2>8, <2>9
  <1> QED
    BY <1>3, <1>4

LEMMA IInvAlways == Spec => []IInv
  <1>1. Init => IInv
    <2>1. SUFFICES ASSUME Init PROVE MachineRowsInv
      BY SatInit DEF IInv
    <2>2. pc = "idle" /\ Scheduled = {} /\ machinePublications = [p \in Ids |-> [m \in Machines |-> "None"]]
      BY <2>1 DEF Init, Scheduled
    <2> QED
      BY <2>2 DEF MachineRowsInv, NewRows, RunRows, InRun, Engaged, MachineState
  <1>2. IInv /\ [Next]_vars => IInv'
    BY SatNext, NewRowsStep, RunRowsStep, RowsAgreeStep DEF IInv, MachineRowsInv
  <1> QED
    BY <1>1, <1>2, PTL DEF Spec

\* The state of a publication and those of its machines agree.
THEOREM DeploymentMachinesAgree == Spec => []MachinesAgree
  <1>1. IInv => MachinesAgree
    <2> DEFINE states(p) == {machinePublications[p][m] : m \in Affected(p)}
               active(p) == {m \in Affected(p) : machinePublications[p][m] \in ActiveMachineStates}
    <2>1. SUFFICES ASSUME IInv, NEW p \in Scheduled
                   PROVE  /\ StateOf(p) = "Complete" => states(p) \subseteq {"Complete"}
                          /\ StateOf(p) = "Error" =>
                               "Error" \in states(p) /\ states(p) \intersect ActiveMachineStates = {}
                          /\ StateOf(p) = "Queued" => states(p) \subseteq {"None", "Undefined"}
                          /\ Cardinality(active(p)) <= 1
      BY DEF MachinesAgree
    <2>2. p \in Ids /\ Affected(p) \subseteq Machines
      BY <2>1, TypeParts, RowFields DEF IInv, SatInv, TypeInv
    <2>3. RowsAgree(p)
      BY <2>1 DEF IInv, MachineRowsInv
    <2>4. StateOf(p) = "Queued" => \A m \in Affected(p) : MachineState(p, m) \in {"None", "Undefined"}
      BY <2>1, <2>2 DEF IInv, MachineRowsInv, NewRows, New
    <2>5. Cardinality(active(p)) <= 1
      <3>1. CASE active(p) = {}
        BY <3>1, FS_EmptySet
      <3>2. CASE active(p) # {}
        <4>1. PICK m : m \in active(p)
          BY <3>2
        <4>2. active(p) = {m}
          BY <2>3, <4>1 DEF RowsAgree, MachineState
        <4> HIDE DEF active
        <4> QED
          BY <4>2, FS_Singleton
      <3> QED
        BY <3>1, <3>2
    <2> QED
      BY <2>3, <2>4, <2>5 DEF RowsAgree, MachineState
  <1> QED
    BY <1>1, IInvAlways, PTL

\* No step takes a machine publication back or out of its last state.
THEOREM DeploymentNoSecondRun == Spec => NoSecondRun
  <1> DEFINE Forward == \A p \in Ids : \A m \in Machines :
                          LET before == machinePublications[p][m]
                              after == machinePublications'[p][m] IN
                            after = before \/ Stage(before) < Stage(after)
  <1>1. IInv /\ [Next]_vars => [Forward]_vars
    <2>1. SUFFICES ASSUME IInv, [Next]_vars, NEW p \in Ids, NEW m \in Machines,
                          machinePublications'[p][m] # MachineState(p, m)
                   PROVE  Stage(MachineState(p, m)) < Stage(machinePublications'[p][m])
      BY DEF MachineState
    <2>2. RowStep(p, m)
      BY <2>1, RowsOfMachinesStep DEF IInv, SatInv
    <2>3. CASE p \in Selected
      <3>1. MachineState(p, m) \in {"None", "Undefined"}
        BY <2>1, <2>3, RowsBefore
      <3>2. pc \in {"begin"} \union Engaged => p # current
        BY <2>1, <2>3, RowsBefore DEF New
      <3> QED
        BY <2>1, <2>2, <3>1, <3>2 DEF RowStep, Stage
    <2>4. CASE p \notin Selected
      <3>1. p = current /\ m = machine /\ pc \in {"begin"} \union Engaged
        BY <2>1, <2>2, <2>4 DEF RowStep
      <3> QED
        BY <2>1, <2>2, <2>4, <3>1, RowsBefore DEF RowStep, Stage, Engaged
    <2> QED
      BY <2>3, <2>4
  <1> QED
    BY <1>1, IInvAlways, PTL DEF Spec, NoSecondRun
-----------------------------------------------------------------------------
(* A tick comes to its end.                                                *)

\* What is left of a tick: publications, then phases of the one being deployed, then machines
\* of the phase, then stations on the way through a machine, then steps of the station.
Phase ==
  CASE pc \in Validating -> 2
    [] pc \in {"machine", "begin"} \union Engaged -> 1
    [] OTHER -> 0

Station ==
  CASE pc = "machine" -> 5
    [] pc = "begin" -> 4
    [] pc = "reset" -> 3
    [] pc = "upload" -> 2
    [] pc \in {"configure", "validate"} -> 1
    [] OTHER -> 0

StepsLeft == IF pc \in {"configure", "run"} THEN Len(CurrentSteps) - at ELSE 0

Closer ==
  \/ batch' \subseteq batch /\ batch' # batch
  \/ batch' = batch /\ Phase' < Phase
  \/ UNCHANGED <<batch, Phase>> /\ remaining' \subseteq remaining /\ remaining' # remaining
  \/ UNCHANGED <<batch, Phase, remaining>> /\ Station' < Station
  \/ UNCHANGED <<batch, Phase, remaining, Station>> /\ StepsLeft' \in 0 .. StepsLeft - 1

\* Nothing is done twice in a tick, and nothing but the thread itself makes it longer.
TickMovesOn ==
  [][/\ DeployerNext /\ pc # "idle" => Closer
     /\ DeployerNext \/ pc' = "idle" \/ UNCHANGED <<deployer, StepsLeft>>]_vars

LEMMA EndJobIsCloser ==
  ASSUME TypeInv, pc \in InDeploy, NEW rest, rest \subseteq batch, EndJob(rest)
  PROVE  Closer
  <1>1. batch' = rest /\ pc' \in {"idle", "batch"}
    BY DEF EndJob
  <1>2. Phase' = 0 /\ Phase \in {1, 2}
    BY <1>1 DEF Phase, InDeploy, AtMachine, Validating, Engaged
  <1> QED
    BY <1>1, <1>2 DEF Closer

LEMMA ProceedIsCloser ==
  ASSUME TypeInv, pc \in {"begin"} \union Engaged, NEW next \in Engaged, Proceed(next),
         \/ next # pc /\ pc = "begin"
         \/ <<pc, next>> \in {<<"reset", "upload">>, <<"upload", "configure">>, <<"configure", "run">>}
         \/ next = pc /\ pc \in {"configure", "run"} /\ at < Len(CurrentSteps) /\ at' = at + 1
  PROVE  Closer
  <1>1. /\ pc' = next /\ batch' = batch /\ remaining' = remaining /\ current' = current
        /\ machine' = machine /\ publications' = publications
    BY DEF Proceed
  <1>2. Phase' = 1 /\ Phase = 1
    BY <1>1 DEF Phase, Validating, Engaged
  <1>3. CASE next # pc
    <2>1. Station' < Station
      BY <1>1, <1>3 DEF Station, Engaged
    <2> QED
      BY <1>1, <1>2, <2>1 DEF Closer
  <1>4. CASE next = pc
    <2>1. Station' = Station
      BY <1>1, <1>4 DEF Station
    <2>2. CurrentSteps' = CurrentSteps
      BY <1>1 DEF CurrentSteps, StepsOf, BundleVersionOf, PackageOf
    <2>3. at < Len(CurrentSteps) /\ at' = at + 1 /\ pc \in {"configure", "run"} /\ at \in Nat
      BY <1>4, TypeParts DEF TypeInv, ThreadTypes
    <2>4. Len(CurrentSteps) \in Nat
      BY <2>3, AtAMachine, TypeParts DEF TypeInv, InDeploy, AtMachine, Engaged
    <2>5. StepsLeft = Len(CurrentSteps) - at /\ StepsLeft' = Len(CurrentSteps) - at'
      BY <1>1, <1>4, <2>2, <2>3 DEF StepsLeft
    <2>6. StepsLeft' \in 0 .. StepsLeft - 1
      BY <2>3, <2>4, <2>5
    <2> QED
      BY <1>1, <1>2, <2>1, <2>6 DEF Closer
  <1> QED
    BY <1>3, <1>4

LEMMA DeployerIsCloser ==
  ASSUME TypeInv, DeployerNext, pc # "idle"
  PROVE  Closer
  <1>0. ThreadTypes /\ Control
    BY TypeParts DEF TypeInv
  <1>1. ASSUME pc \in InDeploy, EndJob(batch) PROVE Closer
    BY <1>1, EndJobIsCloser
  <1>2. ASSUME pc \in InDeploy, FailMachine PROVE Closer
    BY <1>1, <1>2 DEF FailMachine
  <1>3. CASE SelectPublications
    BY <1>3 DEF SelectPublications
  <1>4. ASSUME NEW p \in Ids, StartJob(p) PROVE Closer
    BY <1>4 DEF StartJob, Closer
  <1>5. ASSUME NEW m \in Machines, RollBackAgent(m) PROVE Closer
    <2>1. pc = "validate"
      BY <1>5 DEF RollBackAgent
    <2>2. \/ pc' = "validateReady" /\ UNCHANGED <<batch, remaining>>
          \/ EndJob(batch)
      BY <1>5 DEF RollBackAgent
    <2>3. CASE pc' = "validateReady" /\ UNCHANGED <<batch, remaining>>
      <3>1. Phase = 2 /\ Phase' = 2 /\ Station = 1 /\ Station' = 0
        BY <2>1, <2>3 DEF Phase, Station, Validating, Engaged
      <3> QED
        BY <2>3, <3>1 DEF Closer
    <2> QED
      BY <1>1, <2>1, <2>2, <2>3 DEF InDeploy
  <1>6. CASE ValidateReady
    <2>1. pc = "validateReady"
      BY <1>6 DEF ValidateReady
    <2>2. \/ pc' = "validate" /\ remaining' = remaining \ {machine} /\ UNCHANGED batch
          \/ EndJob(batch)
      BY <1>6 DEF ValidateReady
    <2>3. machine \in remaining
      BY <1>0, <2>1 DEF Control, AtMachine
    <2>4. CASE pc' = "validate" /\ remaining' = remaining \ {machine} /\ UNCHANGED batch
      <3>1. Phase = 2 /\ Phase' = 2
        BY <2>1, <2>4 DEF Phase, Validating, Engaged
      <3> QED
        BY <2>3, <2>4, <3>1 DEF Closer
    <2> QED
      BY <1>1, <2>1, <2>2, <2>4 DEF InDeploy, AtMachine
  <1>7. CASE PackageMissing
    BY <1>1, <1>7 DEF PackageMissing, InDeploy
  <1>8. CASE StartPublication
    <2>1. pc = "validate" /\ pc' = "machine" /\ batch' = batch
      BY <1>8 DEF StartPublication
    <2> QED
      BY <2>1 DEF Closer, Phase, Validating, Engaged
  <1>9. ASSUME NEW m \in Machines, CheckMachine(m) PROVE Closer
    <2>1. pc = "machine"
      BY <1>9 DEF CheckMachine
    <2>2. \/ pc' = "begin" /\ UNCHANGED <<batch, remaining>>
          \/ EndJob(batch)
          \/ AbandonGroup
      BY <1>9 DEF CheckMachine
    <2>3. CASE AbandonGroup
      BY <2>1, <2>3, EndJobIsCloser DEF AbandonGroup, InDeploy
    <2>4. CASE pc' = "begin" /\ UNCHANGED <<batch, remaining>>
      <3>1. Phase = 1 /\ Phase' = 1 /\ Station = 5 /\ Station' = 4
        BY <2>1, <2>4 DEF Phase, Station, Validating, Engaged
      <3> QED
        BY <2>4, <3>1 DEF Closer
    <2> QED
      BY <1>1, <2>1, <2>2, <2>3, <2>4 DEF InDeploy
  <1>10. CASE BeginPublication
    BY <1>2, <1>10, ProceedIsCloser DEF BeginPublication, InDeploy, AtMachine, Engaged
  <1>11. CASE ResetPackage
    BY <1>2, <1>11, ProceedIsCloser DEF ResetPackage, InDeploy, AtMachine, Engaged
  <1>12. CASE UploadPackage
    BY <1>2, <1>12, ProceedIsCloser DEF UploadPackage, InDeploy, AtMachine, Engaged
  <1>13. CASE ConfigureStep
    BY <1>2, <1>13, ProceedIsCloser DEF ConfigureStep, InDeploy, AtMachine, Engaged
  <1>14. CASE SkipTestStep
    BY <1>14, ProceedIsCloser DEF SkipTestStep, Engaged
  <1>15. CASE StartRunning
    BY <1>15, ProceedIsCloser DEF StartRunning, Engaged
  <1>16. CASE ExecuteStep
    BY <1>2, <1>16, ProceedIsCloser DEF ExecuteStep, InDeploy, AtMachine, Engaged
  <1>17. ASSUME NEW passed \in BOOLEAN, RunTests(passed) PROVE Closer
    BY <1>17, ProceedIsCloser DEF RunTests, Engaged
  <1>18. CASE TestRunThrows
    BY <1>2, <1>18 DEF TestRunThrows, InDeploy, AtMachine, Engaged
  <1>19. CASE CompleteMachine
    <2>1. pc = "run"
      BY <1>19 DEF CompleteMachine
    <2>2. \/ pc' = "machine" /\ remaining' = remaining \ {machine} /\ UNCHANGED batch
          \/ FailMachine
      BY <1>19 DEF CompleteMachine
    <2>3. machine \in remaining
      BY <1>0, <2>1 DEF Control, AtMachine, Engaged
    <2>4. CASE pc' = "machine" /\ remaining' = remaining \ {machine} /\ UNCHANGED batch
      <3>1. Phase = 1 /\ Phase' = 1
        BY <2>1, <2>4 DEF Phase, Validating, Engaged
      <3> QED
        BY <2>3, <2>4, <3>1 DEF Closer
    <2> QED
      BY <1>2, <2>1, <2>2, <2>4 DEF InDeploy, AtMachine, Engaged
  <1>20. CASE FinishPublication
    BY <1>1, <1>20 DEF FinishPublication, InDeploy
  <1> QED
    BY <1>3, <1>4, <1>5, <1>6, <1>7, <1>8, <1>9, <1>10, <1>11, <1>12, <1>13, <1>14, <1>15, <1>16,
       <1>17, <1>18, <1>19, <1>20 DEF DeployerNext

LEMMA OthersLeaveTick ==
  ASSUME TypeInv, [Next]_vars
  PROVE  DeployerNext \/ pc' = "idle" \/ UNCHANGED <<deployer, StepsLeft>>
  <1>1. \/ DeployerNext \/ pc' = "idle" \/ UNCHANGED deployer
    BY DEF Next, vars, SchedulePublication, ReadForCancel, SaveCanceled, RestartSatellite, RestartServer
  <1>2. ASSUME UNCHANGED deployer PROVE StepsLeft' = StepsLeft
    <2>1. pc' = pc /\ at' = at /\ current' = current /\ machine' = machine
      BY <1>2 DEF deployer
    <2>2. CASE pc \in {"configure", "run"}
      <3>1. current \in Scheduled
        BY <2>2, AtAMachine, TypeParts DEF TypeInv, InDeploy, AtMachine, Engaged
      <3>2. RowsKept
        BY RowsStep
      <3>3. CurrentSteps' = CurrentSteps
        BY <2>1, <3>1, <3>2 DEF RowsKept, CurrentSteps, StepsOf, BundleVersionOf
      <3> QED
        BY <2>1, <3>3 DEF StepsLeft
    <2> QED
      BY <2>1, <2>2 DEF StepsLeft
  <1> QED
    BY <1>1, <1>2

\* Every step that the timer thread takes in a tick brings the end of the tick closer, and nothing
\* else puts it off: no call is repeated, no machine and no publication visited again, and what users
\* schedule meanwhile waits for the next tick (DeployScheduledPublications, DeploymentManager.Deploy).
\* With finitely many machines, no tick goes on for ever.
THEOREM DeploymentTickMovesOn == Spec => TickMovesOn
  <1>1. TypeInv /\ [Next]_vars =>
          /\ DeployerNext /\ pc # "idle" => Closer
          /\ DeployerNext \/ pc' = "idle" \/ UNCHANGED <<deployer, StepsLeft>>
    BY DeployerIsCloser, OthersLeaveTick
  <1> QED
    BY <1>1, TypesAlways, PTL DEF Spec, TickMovesOn
-----------------------------------------------------------------------------
(* Cancellations.                                                          *)

\* Canceled, and neither selected nor running.
Free(p) == p \in Scheduled /\ StateOf(p) = "Canceled" /\ p \notin Selected /\ p # Running

LEMMA QueueKeepsCanceled ==
  ASSUME TypeInv, [Queue!Next]_(Queue!vars), NEW p \in Ids, Free(p)
  PROVE  Free(p)'
  <1>0. p \in Scheduled /\ StateOf(p) = "Canceled" /\ p \notin Selected /\ p # Running
    BY DEF Free
  <1>1. publications \in Seq(Publication) /\ p # 0 /\ Queue!Scheduled = Scheduled
        /\ \A q : Queue!StateOf(q) = StateOf(q)
    BY <1>0, TypeParts DEF TypeInv, RowTypes, Scheduled, Queue!Scheduled, Queue!StateOf, StateOf
  <1>2. CASE UNCHANGED Queue!vars
    BY <1>0, <1>2 DEF Queue!vars, Scheduled, StateOf, Free
  <1>3. CASE Queue!SchedulePublications
    BY <1>0, <1>1, <1>3 DEF Queue!SchedulePublications, Scheduled, StateOf, Free
  <1>4. ASSUME NEW q \in Scheduled, NEW state, Queue!SetState(q, state), q # p \/ state = "Canceled"
        PROVE  p \in Scheduled' /\ StateOf(p)' = "Canceled"
    BY <1>0, <1>1, <1>4 DEF Queue!SetState, Scheduled, StateOf
  <1>5. ASSUME NEW q \in Scheduled, Queue!ReadForCancel(q) \/ Queue!SaveCanceled(q) \/ Queue!Start(q)
        PROVE  Free(p)'
    <2>1. CASE Queue!ReadForCancel(q)
      BY <1>0, <2>1 DEF Queue!ReadForCancel, Scheduled, StateOf, Free
    <2>2. CASE Queue!SaveCanceled(q)
      BY <1>0, <1>4, <2>2 DEF Queue!SaveCanceled, Free
    <2>3. CASE Queue!Start(q)
      BY <1>0, <1>4, <2>3 DEF Queue!Start, Free
    <2> QED
      BY <1>5, <2>1, <2>2, <2>3
  <1>6. CASE Queue!SelectPublications
    BY <1>0, <1>1, <1>6 DEF Queue!SelectPublications, Queue!Deployable, Scheduled, StateOf, Free
  <1>7. ASSUME NEW S, Queue!Skip(S) \/ Queue!BreakOff(S)
        PROVE  Free(p)'
    BY <1>0, <1>1, <1>7 DEF Queue!Skip, Queue!BreakOff, Scheduled, StateOf, Free
  <1>8. ASSUME NEW result, Queue!Finish(result)
        PROVE  Free(p)'
    <2>1. Running \in Scheduled
      BY <1>8, SelectedAndRunning DEF Queue!Finish
    <2> QED
      BY <1>0, <1>1, <1>4, <1>8, <2>1 DEF Queue!Finish, Free
  <1>9. CASE Queue!Restart
    BY <1>0, <1>1, <1>9 DEF Queue!Restart, Scheduled, StateOf, Free
  <1> QED
    BY <1>1, <1>2, <1>3, <1>5, <1>6, <1>7, <1>8, <1>9 DEF Queue!Next

LEMMA CanceledStays ==
  ASSUME NEW p \in Ids
  PROVE  TypeInv /\ Free(p) /\ [Next]_vars => Free(p)'
  BY QueueStep, QueueKeepsCanceled

LEMMA CanceledIsFree ==
  ASSUME NEW p \in Ids
  PROVE  /\ CanceledAndFree(p) => Free(p)
         /\ Free(p) => Canceled(p)
  BY DEF CanceledAndFree, Canceled, Free, Selected, Running, Scheduled

\* A publication that is canceled while the timer thread does not hold it is never deployed:
\* no tick selects it, and no late save of another request takes the cancellation back
\* (PackagesController.Cancel, DeployScheduledPublications).
THEOREM DeploymentCancelHonoured == Spec => CancelHonoured
  <1> SUFFICES ASSUME NEW p \in Ids
               PROVE  Spec => [](CanceledAndFree(p) => []Canceled(p))
    BY DEF CancelHonoured
  <1> QED
    BY CanceledIsFree, CanceledStays, TypesAlways, PTL DEF Spec
=============================================================================
