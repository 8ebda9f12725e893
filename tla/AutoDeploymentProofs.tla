------------------------- MODULE AutoDeploymentProofs -------------------------
(***************************************************************************)
(* Proofs about AutoDeployment, for any number of bundle versions,         *)
(* callbacks of the timer, commits, publications and faults: one callback  *)
(* works at a time, automatic publications go out once and in order, and   *)
(* the tick implements PublicationQueue.                                   *)
(***************************************************************************)
EXTENDS AutoDeployment, FiniteSetTheorems, SequenceTheorems, WellFoundedInduction, TLAPS

Package == [bundle : Bundles, file : BOOLEAN]

Publication == [package : DOMAIN packages, environment : Environments, state : PublicationStates]

ThreadType(rows) ==
  [pc : Stages, packing : SUBSET Bundles, chosen : SUBSET Bundles,
   batch : SUBSET rows, bundle : Bundles \union {NoBundle}, current : rows \union {NoPublication}]

\* What a callback holds of the queue at each stage of its tick.
Shape(t) ==
  /\ t.pc \notin {"deploy", "validate", "run"} => t.batch = {}
  /\ t.pc \in {"validate", "run"} => t.current # NoPublication /\ t.current \notin t.batch

\* No callback but c does anything: a consequence of what CallbackArrives assumes of the timer.
Alone(threads, c) ==
  \A d \in Callbacks \ {c} : threads[d].pc = "off" /\ threads[d].batch = {}

OneThread ==
  /\ \A c \in Callbacks : Shape(thread[c])
  /\ \A c \in Callbacks : ~At(c, "off") => Alone(thread, c)
  /\ isTimerRunning <=> \E c \in Callbacks : thread[c].pc \notin {"off", "tested"}

RowTypes ==
  /\ packages \in Seq(Package)
  /\ publications \in Seq(Publication)
  /\ cancelling \subseteq Scheduled
  /\ automatic \subseteq Scheduled

\* The bundle versions about to be scheduled have a package and an environment.
ChosenReady ==
  \A c \in Callbacks : At(c, "save") =>
    \A b \in thread[c].chosen : PackagesOf(b) # {} /\ AutoDeployTo[b] # NoEnvironment

RestTypes ==
  /\ toPack \subseteq Bundles /\ leftover \subseteq Bundles /\ failing \subseteq Bundles
  /\ bundleState \in [Bundles -> BundleStates]
  /\ commits \in 0 .. MaxCommits /\ faults \in 0 .. MaxFaults

ThreadTypes ==
  /\ isTimerRunning \in BOOLEAN
  /\ thread \in [Callbacks -> ThreadType(Scheduled)]

TypeInv == TypeOK /\ OneThread /\ ChosenReady

\* Rows are only added; those of packages stay as they are, those of publications keep what
\* they are for.
RowsKept ==
  /\ DOMAIN packages \subseteq DOMAIN packages'
  /\ \A k \in DOMAIN packages : packages'[k] = packages[k]
  /\ Scheduled \subseteq Scheduled'
  /\ \A p \in Scheduled : /\ publications'[p].package = publications[p].package
                          /\ publications'[p].environment = publications[p].environment

LEMMA TypeParts == TypeOK <=> RowTypes /\ RestTypes /\ ThreadTypes
  BY DEF TypeOK, RowTypes, RestTypes, ThreadTypes, Package, Publication, ThreadType

-----------------------------------------------------------------------------
(* The callbacks.                                                          *)

\* A callback that works alone goes on.
LEMMA ThreadStep ==
  ASSUME TypeInv, NEW c \in Callbacks, Alone(thread, c), Scheduled \subseteq Scheduled',
         NEW t \in ThreadType(Scheduled'), Shape(t), thread' = [thread EXCEPT ![c] = t],
         isTimerRunning' = (t.pc \notin {"off", "tested"})
  PROVE  ThreadTypes' /\ OneThread'
  <1>1. thread \in [Callbacks -> ThreadType(Scheduled)] /\ OneThread
    BY TypeParts DEF TypeInv, ThreadTypes
  <1>2. /\ thread'[c] = t
        /\ \A d \in Callbacks \ {c} : thread'[d] = thread[d]
    BY <1>1
  <1>3. \A d \in Callbacks : thread'[d] \in ThreadType(Scheduled')
    <2>1. ThreadType(Scheduled) \subseteq ThreadType(Scheduled')
      BY DEF ThreadType
    <2> QED
      BY <1>1, <1>2, <2>1
  <1>4. Alone(thread', c)
    BY <1>2 DEF Alone
  <1>5. \A d \in Callbacks : Shape(thread'[d])
    BY <1>1, <1>2 DEF OneThread
  <1>6. \A d \in Callbacks : thread'[d].pc # "off" => Alone(thread', d)
    BY <1>2, <1>4 DEF Alone
  <1>7. isTimerRunning' <=> \E d \in Callbacks : thread'[d].pc \notin {"off", "tested"}
    BY <1>2, <1>4 DEF Alone
  <1> QED
    BY <1>1, <1>3, <1>5, <1>6, <1>7 DEF ThreadTypes, OneThread, At

\* The users and the commits leave the callbacks alone.
LEMMA ThreadRests ==
  ASSUME TypeInv, Scheduled \subseteq Scheduled', UNCHANGED <<thread, isTimerRunning>>
  PROVE  ThreadTypes' /\ OneThread'
  <1>1. /\ thread \in [Callbacks -> ThreadType(Scheduled)] /\ OneThread
        /\ ThreadType(Scheduled) \subseteq ThreadType(Scheduled')
        /\ isTimerRunning \in BOOLEAN
    BY TypeParts DEF TypeInv, ThreadTypes, ThreadType
  <1> QED
    BY <1>1 DEF ThreadTypes, OneThread, At, Alone

-----------------------------------------------------------------------------
(* The rows.                                                               *)

LEMMA SavedState ==
  ASSUME RowTypes, UNCHANGED packages, NEW p \in Scheduled, NEW state \in PublicationStates,
         publications' = [publications EXCEPT ![p].state = state]
  PROVE  /\ publications' \in Seq(Publication')
         /\ Scheduled' = Scheduled
         /\ RowsKept
         /\ StateOf(p)' = state
         /\ \A q \in Scheduled : q # p => StateOf(q)' = StateOf(q)
  <1> DEFINE row == [publications[p] EXCEPT !.state = state]
  <1>1. publications \in Seq(Publication) /\ publications[p] \in Publication
    BY DEF RowTypes, Scheduled
  <1>2. row \in Publication /\ row.state = state /\ row.package = publications[p].package
        /\ row.environment = publications[p].environment
    BY <1>1 DEF Publication
  <1>3. publications' = [publications EXCEPT ![p] = row]
    BY <1>1 DEF Scheduled
  <1> HIDE DEF row
  <1>4. /\ publications' \in Seq(Publication)
        /\ Len(publications') = Len(publications)
        /\ DOMAIN publications' = DOMAIN publications
        /\ publications'[p] = row
        /\ \A q \in Scheduled : q # p => publications'[q] = publications[q]
    BY <1>1, <1>2, <1>3 DEF Scheduled
  <1>5. Publication' = Publication
    BY DEF Publication, PublicationStates
  <1> QED
    BY <1>2, <1>4, <1>5 DEF RowsKept, Scheduled, StateOf

LEMMA AddedPackage ==
  ASSUME RowTypes, NEW b \in Bundles, NEW file \in BOOLEAN, AddPackage(b, file), UNCHANGED publications
  PROVE  /\ packages' \in Seq(Package)
         /\ publications' \in Seq(Publication')
         /\ RowsKept
  <1>1. [bundle |-> b, file |-> file] \in Package
    BY DEF Package
  <1>2. /\ packages' \in Seq(Package) /\ DOMAIN packages \subseteq DOMAIN packages'
        /\ \A k \in DOMAIN packages : packages'[k] = packages[k]
    BY <1>1 DEF AddPackage, RowTypes
  <1>3. Publication \subseteq Publication'
    BY <1>2 DEF Publication
  <1>4. \A q \in DOMAIN publications : publications'[q] \in Publication'
    BY <1>3 DEF RowTypes
  <1> QED
    BY <1>2, <1>4 DEF RowsKept, Scheduled, RowTypes

\* Rows are added behind the others.
LEMMA AddedRows ==
  ASSUME RowTypes, UNCHANGED packages, NEW rows \in Seq(Publication), publications' = publications \o rows
  PROVE  /\ publications' \in Seq(Publication')
         /\ RowsKept
         /\ Len(publications') = Len(publications) + Len(rows)
         /\ \A q \in Scheduled : publications'[q] = publications[q] /\ StateOf(q)' = StateOf(q)
         /\ \A i \in 1 .. Len(rows) : publications'[Len(publications) + i] = rows[i]
  <1>1. Publication' = Publication
    BY DEF Publication, PublicationStates
  <1>2. /\ publications' \in Seq(Publication) /\ Len(publications') = Len(publications) + Len(rows)
        /\ \A i \in 1 .. Len(publications) + Len(rows) :
             publications'[i] = IF i <= Len(publications) THEN publications[i]
                                ELSE rows[i - Len(publications)]
    BY DEF RowTypes
  <1>3. Scheduled = 1 .. Len(publications) /\ Scheduled' = 1 .. Len(publications') /\ Len(rows) \in Nat
        /\ Len(publications) \in Nat
    BY <1>2 DEF RowTypes, Scheduled
  <1> HIDE DEF Scheduled
  <1>4. \A q \in Scheduled : publications'[q] = publications[q] /\ q \in Scheduled'
    BY <1>2, <1>3
  <1>5. \A i \in 1 .. Len(rows) : publications'[Len(publications) + i] = rows[i]
    BY <1>2, <1>3
  <1> QED
    BY <1>1, <1>2, <1>3, <1>4, <1>5 DEF RowsKept, StateOf

-----------------------------------------------------------------------------
(* The latest package.                                                     *)

LEMMA LatestIs ==
  ASSUME RowTypes, NEW b, PackagesOf(b) # {}
  PROVE  /\ Latest(b) \in PackagesOf(b)
         /\ Latest(b) \in DOMAIN packages
         /\ packages[Latest(b)].bundle = b
         /\ \A k \in PackagesOf(b) : k <= Latest(b)
  <1> DEFINE n == Len(packages)
             behind == {n - k : k \in PackagesOf(b)}
  <1>1. n \in Nat /\ PackagesOf(b) \subseteq 1 .. n /\ DOMAIN packages = 1 .. n
    BY DEF RowTypes, PackagesOf
  <1>2. behind \subseteq Nat /\ behind # {}
    BY <1>1
  <1>3. PICK least \in behind : \A i \in behind : <<i, least>> \notin OpToRel(<, Nat)
    <2> HIDE DEF behind
    <2> QED
      BY <1>2, NatLessThanWellFounded, WFMin
  <1>4. \A i \in behind : least <= i
    <2> SUFFICES ASSUME NEW i \in behind, i < least PROVE FALSE
      <3> HIDE DEF behind
      <3> QED
        BY <1>2
    <2>1. <<i, least>> \in OpToRel(<, Nat)
      BY <1>2 DEF OpToRel
    <2> QED
      BY <1>3, <2>1
  <1>5. PICK k \in PackagesOf(b) : least = n - k
    OBVIOUS
  <1>6. \A l \in PackagesOf(b) : l <= k
    <2> SUFFICES ASSUME NEW l \in PackagesOf(b) PROVE l <= k
      OBVIOUS
    <2>1. least <= n - l
      BY <1>4
    <2> QED
      BY <1>1, <1>5, <2>1
  <1>7. Latest(b) \in PackagesOf(b) /\ \A l \in PackagesOf(b) : l <= Latest(b)
    BY <1>6 DEF Latest
  <1> QED
    BY <1>7 DEF PackagesOf

-----------------------------------------------------------------------------
(* Type correctness.                                                       *)

\* A bundle version keeps its packages.
LEMMA KeptPackages ==
  ASSUME RowsKept
  PROVE  \A b : PackagesOf(b) \subseteq PackagesOf(b)'
  BY DEF RowsKept, PackagesOf

LEMMA KeptRows ==
  ASSUME RowTypes, RowsKept, NEW p \in Scheduled
  PROVE  p \in Scheduled' /\ BundleOf(p)' = BundleOf(p) /\ HasFile(p)' = HasFile(p)
  <1>1. publications[p] \in Publication
    BY DEF RowTypes, Scheduled
  <1> QED
    BY <1>1 DEF RowsKept, BundleOf, HasFile, Publication

LEMMA SameRows ==
  ASSUME RowTypes, UNCHANGED <<packages, publications>>
  PROVE  RowsKept /\ Scheduled' = Scheduled /\ publications' \in Seq(Publication') /\ packages' \in Seq(Package)
  BY DEF RowTypes, RowsKept, Scheduled, Publication, PublicationStates

\* A working callback is alone.
LEMMA AtWork ==
  ASSUME TypeInv, NEW c \in Callbacks, ~At(c, "off")
  PROVE  Alone(thread, c)
  BY DEF TypeInv, OneThread

LEMMA OneFault ==
  ASSUME RestTypes, Fail \/ UNCHANGED faults
  PROVE  faults' \in 0 .. MaxFaults
  BY AutoDeploymentAssumption DEF RestTypes, Fail

\* What a callback does with its own locals.
LEMMA Locals ==
  ASSUME TypeInv, NEW c \in Callbacks
  PROVE  /\ thread[c] \in ThreadType(Scheduled) /\ Shape(thread[c]) /\ thread[c].pc \in Stages
         /\ \A pc \in Stages : [thread[c] EXCEPT !.pc = pc] \in ThreadType(Scheduled)
         /\ \A t : thread' = [thread EXCEPT ![c] = t] => thread'[c] = t
  BY TypeParts DEF TypeInv, ThreadTypes, ThreadType, OneThread

\* Choosing is left to the step that does it.
LEMMA NotChosen ==
  ASSUME TypeInv, RowsKept, NEW c \in Callbacks, NEW t \in ThreadType(Scheduled'),
         thread' = [thread EXCEPT ![c] = t], t.pc # "save"
  PROVE  ChosenReady'
  <1>1. thread \in [Callbacks -> ThreadType(Scheduled)] /\ ChosenReady
    BY TypeParts DEF TypeInv, ThreadTypes
  <1>2. \A d \in Callbacks : At(d, "save")' => thread'[d] = thread[d] /\ At(d, "save")
    BY <1>1 DEF At
  <1> QED
    BY <1>1, <1>2, KeptPackages DEF ChosenReady


\* A step of the callback c that changes its locals to t and keeps the table of packages.
LEMMA StepTypes ==
  ASSUME TypeInv, RowsKept, RowTypes', RestTypes', NEW c \in Callbacks, Alone(thread, c),
         NEW t \in ThreadType(Scheduled'), Shape(t), t.pc # "save", thread' = [thread EXCEPT ![c] = t],
         isTimerRunning' = (t.pc \notin {"off", "tested"})
  PROVE  TypeInv'
  <1>1. ThreadTypes' /\ OneThread'
    BY ThreadStep DEF RowsKept
  <1>2. ChosenReady'
    BY NotChosen
  <1>3. TypeOK'
    BY <1>1 DEF TypeOK, RowTypes, RestTypes, ThreadTypes, Package, Publication, ThreadType
  <1> QED
    BY <1>1, <1>2, <1>3 DEF TypeInv

\* A step of no callback.
LEMMA OtherTypes ==
  ASSUME TypeInv, RowsKept, RowTypes', RestTypes', UNCHANGED <<thread, isTimerRunning>>
  PROVE  TypeInv'
  <1>1. ThreadTypes' /\ OneThread'
    BY ThreadRests DEF RowsKept
  <1>2. ChosenReady'
    BY KeptPackages DEF TypeInv, ChosenReady, At
  <1>3. TypeOK'
    BY <1>1 DEF TypeOK, RowTypes, RestTypes, ThreadTypes, Package, Publication, ThreadType
  <1> QED
    BY <1>1, <1>2, <1>3 DEF TypeInv

\* The end of a deployment, whatever its outcome.
LEMMA ContinueTypes ==
  ASSUME TypeInv, RowTypes', Scheduled' = Scheduled, RowsKept, NEW c \in Callbacks,
         thread[c].pc \in {"validate", "run"}, NEW rest \in SUBSET thread[c].batch,
         NEW groupState \in {"Idle", "Error"}, Continue(c, rest, groupState),
         UNCHANGED <<toPack, leftover, failing, isTimerRunning, commits>>, Fail \/ UNCHANGED faults
  PROVE  TypeInv'
  <1> DEFINE b == thread[c].bundle
             done == \A p \in rest : BundleOf(p) # b
             t == [thread[c] EXCEPT !.pc = "deploy", !.batch = rest,
                     !.bundle = IF done THEN NoBundle ELSE b, !.current = NoPublication]
  <1>1. thread[c] \in ThreadType(Scheduled) /\ RestTypes /\ thread \in [Callbacks -> ThreadType(Scheduled)]
    BY TypeParts DEF TypeInv, ThreadTypes
  <1>2. t \in ThreadType(Scheduled) /\ Shape(t) /\ t.pc = "deploy"
    BY <1>1 DEF ThreadType, Shape, Stages
  <1>3. thread' = [thread EXCEPT ![c] = t]
    BY <1>1 DEF Continue
  <1>4. bundleState' \in [Bundles -> BundleStates]
    <2>1. bundleState' = [bundleState EXCEPT ![b] = IF done THEN groupState ELSE @]
      BY DEF Continue
    <2>2. bundleState \in [Bundles -> BundleStates] /\ groupState \in BundleStates
      BY <1>1 DEF RestTypes, BundleStates
    <2> HIDE DEF b, done
    <2> QED
      BY <2>1, <2>2
  <1>5. RestTypes'
    BY <1>1, <1>4, OneFault DEF RestTypes
  <1>6. Alone(thread, c) /\ isTimerRunning
    BY AtWork DEF At, TypeInv, OneThread
  <1> HIDE DEF t
  <1> QED
    BY <1>2, <1>3, <1>5, <1>6, StepTypes

\* What the callback has chosen is saved.
LEMMA SavedAutomatic ==
  ASSUME TypeInv, NEW c \in Callbacks, SaveAutomatic(c)
  PROVE  \E order :
           LET chosen == thread[c].chosen
               n == Cardinality(chosen)
               rows == [i \in 1 .. n |-> Queued(Latest(order[i]), AutoDeployTo[order[i]])]
           IN /\ n \in Nat
              /\ order \in Injection(1 .. n, chosen)
              /\ \A i \in 1 .. n : order[i] \in chosen /\ order[i] \in Bundles
              /\ rows \in Seq(Publication)
              /\ Len(rows) = n
              /\ publications' = publications \o rows
              /\ automatic' = automatic \union {Len(publications) + i : i \in 1 .. n}
  <1> DEFINE chosen == thread[c].chosen
             n == Cardinality(chosen)
             rows(order) == [i \in 1 .. n |-> Queued(Latest(order[i]), AutoDeployTo[order[i]])]
  <1>1. PICK order \in [1 .. n -> chosen] :
          /\ \A b \in chosen : \E i \in 1 .. n : order[i] = b
          /\ publications' = publications \o rows(order)
          /\ automatic' = automatic \union {Len(publications) + i : i \in 1 .. n}
    BY DEF SaveAutomatic
  <1>2. chosen \subseteq Bundles /\ RowTypes /\ At(c, "save")
    BY Locals, TypeParts DEF TypeInv, ThreadType, SaveAutomatic
  <1>3. IsFiniteSet(chosen) /\ n \in Nat
    BY <1>2, AutoDeploymentAssumption, FS_Subset, FS_CardinalityType
  <1>4. order \in Injection(1 .. n, chosen)
    <2>1. IsFiniteSet(1 .. n) /\ Cardinality(1 .. n) = n
      BY <1>3, FS_Interval
    <2>2. order \in Surjection(1 .. n, chosen)
      BY <1>1 DEF Surjection
    <2> HIDE DEF chosen
    <2> QED
      BY <2>1, <2>2, FS_SurjSameCardinalityImpliesInj
  <1>5. \A i \in 1 .. n : rows(order)[i] \in Publication
    <2> SUFFICES ASSUME NEW i \in 1 .. n
                 PROVE  Queued(Latest(order[i]), AutoDeployTo[order[i]]) \in Publication
      OBVIOUS
    <2>1. order[i] \in chosen /\ order[i] \in Bundles
      BY <1>1, <1>2
    <2>2. PackagesOf(order[i]) # {} /\ AutoDeployTo[order[i]] # NoEnvironment
      BY <1>2, <2>1 DEF TypeInv, ChosenReady
    <2>3. Latest(order[i]) \in DOMAIN packages /\ AutoDeployTo[order[i]] \in Environments
      BY <1>2, <2>1, <2>2, LatestIs, AutoDeploymentAssumption
    <2> QED
      BY <2>3 DEF Queued, Publication, PublicationStates
  <1>6. rows(order) \in Seq(Publication) /\ Len(rows(order)) = n
    BY <1>3, <1>5
  <1>7. \A i \in 1 .. n : order[i] \in chosen /\ order[i] \in Bundles
    BY <1>1, <1>2
  <1> QED
    BY <1>1, <1>3, <1>4, <1>6, <1>7

LEMMA TickTypes ==
  ASSUME TypeInv, NEW c \in Callbacks, Tick(c)
  PROVE  TypeInv' /\ RowsKept
  <1> DEFINE Goal == TypeInv' /\ RowsKept
             To(pc) == [thread[c] EXCEPT !.pc = pc]
  <1> SUFFICES Goal
    OBVIOUS
  <1>0. /\ RowTypes /\ RestTypes /\ ThreadTypes /\ OneThread /\ ChosenReady
        /\ thread[c] \in ThreadType(Scheduled) /\ Shape(thread[c]) /\ thread[c].pc \in Stages
    BY TypeParts, Locals DEF TypeInv
  \* Steps that leave the rows of packages and publications alone.
  <1>1. ASSUME UNCHANGED <<packages, publications, cancelling, automatic>>
        PROVE  RowsKept /\ Scheduled' = Scheduled /\ RowTypes'
    BY <1>0, <1>1, SameRows DEF RowTypes
  <1>2. ~At(c, "off") => Alone(thread, c)
    BY AtWork
  <1>3. thread[c].pc \notin {"off", "tested"} => isTimerRunning /\ ~At(c, "off")
    BY <1>0 DEF OneThread, At
  <1>4. CASE CallbackArrives(c)
    <2>1. Alone(thread, c)
      <3>1. \A d \in Callbacks : thread[d].pc \in {"off", "tested"} /\ thread[d].pc # "tested"
        BY <1>0, <1>4 DEF CallbackArrives, OneThread, At
      <3>2. \A d \in Callbacks : thread[d].pc = "off"
        BY <3>1
      <3> QED
        BY <1>0, <3>2 DEF Alone, OneThread, Shape
    <2>2. To("tested") \in ThreadType(Scheduled) /\ Shape(To("tested")) /\ To("tested").pc = "tested"
      BY <1>0, <1>4 DEF CallbackArrives, At, ThreadType, Shape, Stages
    <2>3. /\ thread' = [thread EXCEPT ![c] = To("tested")]
          /\ isTimerRunning' = FALSE /\ RestTypes'
          /\ UNCHANGED <<packages, publications, cancelling, automatic>>
      BY <1>0, <1>4 DEF CallbackArrives, GoTo, disk, queue, RestTypes, ThreadTypes
    <2> HIDE DEF To
    <2> QED
      BY <1>1, <2>1, <2>2, <2>3, StepTypes
  <1>5. CASE StartTick(c)
    <2>1. To("build") \in ThreadType(Scheduled) /\ Shape(To("build")) /\ To("build").pc = "build"
      BY <1>0, <1>5 DEF StartTick, At, ThreadType, Shape, Stages
    <2>2. /\ thread' = [thread EXCEPT ![c] = To("build")]
          /\ isTimerRunning' /\ RestTypes'
          /\ UNCHANGED <<packages, publications, cancelling, automatic>>
          /\ ~At(c, "off")
      BY <1>0, <1>5 DEF StartTick, StateAtStart, BundleStates, GoTo, disk, queue, RestTypes, ThreadTypes, At
    <2>3. isTimerRunning' = TRUE
      BY <1>5 DEF StartTick
    <2> HIDE DEF To
    <2> QED
      BY <1>1, <1>2, <2>1, <2>2, <2>3, StepTypes
  <1>6. CASE EndTick(c)
    <2>1. Off \in ThreadType(Scheduled) /\ Shape(Off) /\ Off.pc = "off"
      BY DEF Off, NoBundle, NoPublication, ThreadType, Shape, Stages
    <2>2. /\ thread' = [thread EXCEPT ![c] = Off]
          /\ isTimerRunning' = FALSE /\ RestTypes'
          /\ UNCHANGED <<packages, publications, cancelling, automatic>>
          /\ ~At(c, "off")
      BY <1>0, <1>6 DEF EndTick, disk, queue, RestTypes, At
    <2> HIDE DEF Off
    <2> QED
      BY <1>1, <1>2, <2>1, <2>2, StepTypes
  <1>7. CASE BeginPackaging(c)
    <2> DEFINE t == [thread[c] EXCEPT !.pc = "package", !.packing = toPack]
    <2>1. t \in ThreadType(Scheduled) /\ Shape(t) /\ t.pc = "package"
      BY <1>0, <1>7 DEF BeginPackaging, At, ThreadType, Shape, Stages, RestTypes
    <2>2. /\ thread' = [thread EXCEPT ![c] = t]
          /\ RestTypes'
          /\ UNCHANGED <<packages, publications, cancelling, automatic, isTimerRunning>>
          /\ thread[c].pc = "build"
      BY <1>0, <1>7 DEF BeginPackaging, disk, queue, RestTypes, At, ThreadTypes, BundleStates
    <2> HIDE DEF t
    <2> QED
      BY <1>1, <1>2, <1>3, <2>1, <2>2, StepTypes
  <1>8. ASSUME NEW b \in Bundles, PackBundle(c, b) \/ PackBundleFails(c, b) PROVE Goal
    <2> DEFINE t == [thread[c] EXCEPT !.packing = @ \ {b}]
    <2>1. thread[c].pc = "package"
      BY <1>8 DEF PackBundle, PackBundleFails, At
    <2>2. t \in ThreadType(Scheduled) /\ Shape(t) /\ t.pc = "package"
      BY <1>0, <2>1 DEF ThreadType, Shape
    <2>3. /\ thread' = [thread EXCEPT ![c] = t]
          /\ UNCHANGED <<publications, cancelling, automatic, isTimerRunning>>
      BY <1>0, <1>8 DEF PackBundle, PackBundleFails, queue, ThreadTypes
    <2>4. RestTypes'
      <3>1. toPack' \subseteq Bundles /\ failing' \subseteq Bundles /\ leftover' \subseteq Bundles
        BY <1>0, <1>8 DEF PackBundle, PackBundleFails, RestTypes
      <3>2. bundleState' \in [Bundles -> BundleStates]
        BY <1>0, <1>8 DEF PackBundle, PackBundleFails, RestTypes, BundleStates
      <3>3. commits' = commits /\ faults' \in 0 .. MaxFaults
        BY <1>0, <1>8, OneFault DEF PackBundle, PackBundleFails
      <3> QED
        BY <1>0, <3>1, <3>2, <3>3 DEF RestTypes
    <2>5. UNCHANGED packages \/ \E file \in BOOLEAN : AddPackage(b, file)
      BY <1>8 DEF PackBundle, PackBundleFails, SavedInLoop
    <2>6. RowsKept /\ packages' \in Seq(Package) /\ publications' \in Seq(Publication')
      BY <1>0, <2>3, <2>5, AddedPackage, SameRows
    <2>7. RowTypes' /\ Scheduled' = Scheduled
      BY <1>0, <2>3, <2>6 DEF RowTypes, Scheduled
    <2> HIDE DEF t
    <2> QED
      BY <1>2, <1>3, <2>1, <2>2, <2>3, <2>4, <2>6, <2>7, StepTypes
  <1>9. CASE EndPackaging(c)
    <2>1. To("choose") \in ThreadType(Scheduled) /\ Shape(To("choose")) /\ To("choose").pc = "choose"
      BY <1>0, <1>9 DEF EndPackaging, At, ThreadType, Shape, Stages
    <2>2. /\ thread' = [thread EXCEPT ![c] = To("choose")]
          /\ RestTypes'
          /\ UNCHANGED <<packages, publications, cancelling, automatic, isTimerRunning>>
          /\ thread[c].pc = "package"
      BY <1>0, <1>9 DEF EndPackaging, GoTo, disk, queue, RestTypes, ThreadTypes, At, BundleStates
    <2> HIDE DEF To
    <2> QED
      BY <1>1, <1>2, <1>3, <2>1, <2>2, StepTypes
  <1>10. CASE ChooseAutomatic(c)
    <2> DEFINE t == [thread[c] EXCEPT !.pc = "save", !.chosen = {b \in Bundles : ToSchedule(b)}]
    <2>1. t \in ThreadType(Scheduled) /\ Shape(t) /\ t.pc = "save" /\ t.chosen = {b \in Bundles : ToSchedule(b)}
      BY <1>0, <1>10 DEF ChooseAutomatic, At, ThreadType, Shape, Stages
    <2>2. /\ thread' = [thread EXCEPT ![c] = t]
          /\ RestTypes'
          /\ UNCHANGED <<packages, publications, cancelling, automatic, isTimerRunning>>
          /\ thread[c].pc = "choose"
      BY <1>0, <1>10 DEF ChooseAutomatic, disk, queue, RestTypes, At, ThreadTypes
    <2> HIDE DEF t
    <2>3. RowsKept /\ Scheduled' = Scheduled /\ RowTypes'
      BY <1>1, <2>2
    <2>4. ThreadTypes' /\ OneThread'
      BY <1>2, <1>3, <2>1, <2>2, <2>3, ThreadStep DEF RowsKept
    <2>5. ChosenReady'
      <3> SUFFICES ASSUME NEW d \in Callbacks, At(d, "save")', NEW b \in thread'[d].chosen
                   PROVE  PackagesOf(b)' # {} /\ AutoDeployTo[b] # NoEnvironment
        BY DEF ChosenReady
      <3>1. thread'[c] = t /\ \A e \in Callbacks \ {c} : thread'[e].pc = "off"
        BY <1>0, <1>2, <1>3, <2>2 DEF ThreadTypes, Alone
      <3>2. ToSchedule(b)
        BY <2>1, <3>1 DEF At
      <3> QED
        BY <2>2, <3>2 DEF ToSchedule, PackagesOf
    <2>6. TypeOK'
      BY <2>2, <2>3, <2>4
         DEF TypeOK, RowTypes, RestTypes, ThreadTypes, Package, Publication, ThreadType
    <2> QED
      BY <2>3, <2>4, <2>5, <2>6 DEF TypeInv
  <1>11. CASE SaveAutomatic(c)
    <2> DEFINE t == [thread[c] EXCEPT !.pc = "select", !.chosen = {}]
    <2>1. t \in ThreadType(Scheduled) /\ Shape(t) /\ t.pc = "select"
      BY <1>0, <1>11 DEF SaveAutomatic, At, ThreadType, Shape, Stages
    <2>2. /\ thread' = [thread EXCEPT ![c] = t]
          /\ RestTypes'
          /\ UNCHANGED <<packages, cancelling, isTimerRunning>>
          /\ thread[c].pc = "save"
      BY <1>0, <1>11 DEF SaveAutomatic, disk, queue, RestTypes, At, ThreadTypes
    <2>3. PICK rows \in Seq(Publication), n \in Nat :
            /\ Len(rows) = n
            /\ publications' = publications \o rows
            /\ automatic' = automatic \union {Len(publications) + i : i \in 1 .. n}
      BY <1>11, SavedAutomatic
    <2>4. /\ RowsKept /\ publications' \in Seq(Publication')
          /\ Len(publications') = Len(publications) + n
      BY <1>0, <2>2, <2>3, AddedRows
    <2>5. Len(publications) \in Nat /\ Scheduled \subseteq Scheduled'
      BY <1>0, <2>4 DEF RowTypes, RowsKept
    <2>6. automatic' \subseteq Scheduled'
      BY <1>0, <2>3, <2>4, <2>5 DEF RowTypes, Scheduled
    <2>7. RowTypes'
      BY <1>0, <2>2, <2>4, <2>5, <2>6 DEF RowTypes
    <2>8. t \in ThreadType(Scheduled')
      BY <2>1, <2>5 DEF ThreadType
    <2> HIDE DEF t
    <2> QED
      BY <1>2, <1>3, <2>1, <2>2, <2>4, <2>7, <2>8, StepTypes
  <1>12. CASE SelectPublications(c)
    <2> DEFINE t == [thread[c] EXCEPT !.pc = "deploy", !.batch = Deployable]
    <2>1. t \in ThreadType(Scheduled) /\ Shape(t) /\ t.pc = "deploy"
      BY <1>0 DEF Deployable, ThreadType, Shape, Stages
    <2>2. /\ thread' = [thread EXCEPT ![c] = t]
          /\ RestTypes'
          /\ UNCHANGED <<packages, publications, cancelling, automatic, isTimerRunning>>
          /\ thread[c].pc = "select"
      BY <1>0, <1>12 DEF SelectPublications, disk, queue, RestTypes, At, ThreadTypes
    <2> HIDE DEF t
    <2> QED
      BY <1>1, <1>2, <1>3, <2>1, <2>2, StepTypes
  <1>13. ASSUME NEW p \in Scheduled, StartJob(c, p) PROVE Goal
    <2> DEFINE t == [thread[c] EXCEPT !.pc = "validate", !.batch = @ \ {p},
                              !.bundle = BundleOf(p), !.current = p]
    <2>1. BundleOf(p) \in Bundles /\ p # NoPublication
      <3>1. publications[p] \in Publication /\ p # 0
        BY <1>0 DEF RowTypes, Scheduled
      <3>2. packages[publications[p].package] \in Package
        BY <1>0, <3>1 DEF RowTypes, Publication
      <3> QED
        BY <3>1, <3>2 DEF BundleOf, Package, NoPublication
    <2>2. t \in ThreadType(Scheduled) /\ Shape(t) /\ t.pc = "validate"
      BY <1>0, <2>1 DEF ThreadType, Shape, Stages
    <2>3. /\ thread' = [thread EXCEPT ![c] = t]
          /\ RestTypes'
          /\ UNCHANGED <<packages, publications, cancelling, automatic, isTimerRunning>>
          /\ thread[c].pc = "deploy"
      BY <1>0, <1>13, <2>1 DEF StartJob, disk, queue, RestTypes, At, ThreadTypes, BundleStates
    <2> HIDE DEF t
    <2> QED
      BY <1>1, <1>2, <1>3, <2>2, <2>3, StepTypes
  <1>14. ASSUME thread[c].pc \in {"validate", "run"}, NEW state \in PublicationStates,
                publications' = [publications EXCEPT ![thread[c].current].state = state],
                UNCHANGED <<packages, cancelling, automatic>>
         PROVE  RowsKept /\ Scheduled' = Scheduled /\ RowTypes'
    <2>1. thread[c].current \in Scheduled
      BY <1>0, <1>14 DEF Shape, ThreadType
    <2> QED
      BY <1>0, <1>14, <2>1, SavedState DEF RowTypes
  <1>15. CASE StartPublication(c)
    <2>1. To("run") \in ThreadType(Scheduled) /\ Shape(To("run")) /\ To("run").pc = "run"
      BY <1>0, <1>15 DEF StartPublication, At, ThreadType, Shape, Stages
    <2>2. /\ thread' = [thread EXCEPT ![c] = To("run")]
          /\ RestTypes'
          /\ UNCHANGED <<packages, cancelling, automatic, isTimerRunning>>
          /\ thread[c].pc = "validate"
      BY <1>0, <1>15 DEF StartPublication, GoTo, disk, queue, RestTypes, ThreadTypes, At
    <2>3. RowsKept /\ Scheduled' = Scheduled /\ RowTypes'
      BY <1>14, <1>15, <2>2 DEF StartPublication, PublicationStates
    <2> HIDE DEF To
    <2> QED
      BY <1>2, <1>3, <2>1, <2>2, <2>3, StepTypes
  <1>16. CASE LeaveQueued(c)
    <2>1. /\ thread[c].pc = "validate" /\ Continue(c, thread[c].batch, "Idle")
          /\ UNCHANGED <<packages, publications, cancelling, automatic>>
          /\ UNCHANGED <<toPack, leftover, failing, isTimerRunning, commits>>
          /\ Fail \/ UNCHANGED faults
      BY <1>16 DEF LeaveQueued, At, disk, queue
    <2> QED
      BY <1>1, <2>1, ContinueTypes
  <1>17. ASSUME NEW result \in {"Complete", "Error"}, FinishPublication(c, result) PROVE Goal
    <2>1. /\ thread[c].pc = "run" /\ Continue(c, thread[c].batch, "Idle")
          /\ UNCHANGED <<packages, cancelling, automatic>>
          /\ UNCHANGED <<toPack, leftover, failing, isTimerRunning, commits>>
          /\ Fail \/ UNCHANGED faults
      BY <1>17 DEF FinishPublication, At, disk
    <2>2. RowsKept /\ Scheduled' = Scheduled /\ RowTypes'
      BY <1>14, <1>17, <2>1 DEF FinishPublication, PublicationStates
    <2> QED
      BY <2>1, <2>2, ContinueTypes
  <1>18. CASE DeployThrows(c)
    <2>1. PICK rest \in SUBSET thread[c].batch :
            /\ thread[c].pc \in {"validate", "run"} /\ Continue(c, rest, "Error")
            /\ UNCHANGED <<packages, publications, cancelling, automatic>>
            /\ UNCHANGED <<toPack, leftover, failing, isTimerRunning, commits>>
            /\ Fail \/ UNCHANGED faults
      BY <1>18 DEF DeployThrows, disk, queue
    <2> QED
      BY <1>1, <2>1, ContinueTypes
  <1> QED
    BY <1>4, <1>5, <1>6, <1>7, <1>8, <1>9, <1>10, <1>11, <1>12, <1>13, <1>15, <1>16, <1>17, <1>18
       DEF Tick

LEMMA TypeNext ==
  ASSUME TypeInv, [Next]_vars
  PROVE  TypeInv' /\ RowsKept
  <1>0. RowTypes /\ RestTypes /\ ThreadTypes
    BY TypeParts DEF TypeInv
  <1>1. ASSUME UNCHANGED <<packages, publications, automatic>>, cancelling' \subseteq Scheduled
        PROVE  RowsKept /\ Scheduled' = Scheduled /\ RowTypes'
    BY <1>0, <1>1, SameRows DEF RowTypes
  <1>2. CASE \E c \in Callbacks : Tick(c)
    BY <1>2, TickTypes
  <1>3. ASSUME NEW b \in Bundles, Commit(b) \/ CommitFailing(b) PROVE TypeInv' /\ RowsKept
    <2>1. /\ UNCHANGED <<packages, publications, automatic, cancelling, thread, isTimerRunning>>
          /\ RestTypes'
      BY <1>0, <1>3, AutoDeploymentAssumption DEF Commit, CommitFailing, Fail, queue, RestTypes, BundleStates
    <2>2. cancelling' \subseteq Scheduled
      BY <1>0, <2>1 DEF RowTypes
    <2> QED
      BY <1>1, <2>1, <2>2, OtherTypes
  <1>4. ASSUME NEW k \in DOMAIN packages, NEW e \in Environments, SchedulePublication(k, e)
        PROVE  TypeInv' /\ RowsKept
    <2> DEFINE rows == <<Queued(k, e)>>
    <2>1. rows \in Seq(Publication) /\ publications' = publications \o rows
      BY <1>0, <1>4 DEF SchedulePublication, Queued, Publication, PublicationStates, RowTypes
    <2>2. /\ UNCHANGED <<packages, automatic, cancelling, thread, isTimerRunning>>
          /\ RestTypes'
      BY <1>0, <1>4 DEF SchedulePublication, disk, RestTypes
    <2> HIDE DEF rows
    <2>3. RowsKept /\ publications' \in Seq(Publication')
      BY <1>0, <2>1, <2>2, AddedRows
    <2>4. RowTypes'
      BY <1>0, <2>2, <2>3 DEF RowTypes, RowsKept
    <2> QED
      BY <2>2, <2>3, <2>4, OtherTypes
  <1>5. ASSUME NEW p \in Scheduled, ReadForCancel(p) PROVE TypeInv' /\ RowsKept
    <2>1. /\ UNCHANGED <<packages, publications, automatic, thread, isTimerRunning>>
          /\ RestTypes' /\ cancelling' \subseteq Scheduled
      BY <1>0, <1>5 DEF ReadForCancel, disk, RestTypes, RowTypes, Deployable
    <2> QED
      BY <1>1, <2>1, OtherTypes
  <1>6. ASSUME NEW p \in Scheduled, SaveCanceled(p) PROVE TypeInv' /\ RowsKept
    <2>1. /\ UNCHANGED <<packages, automatic, thread, isTimerRunning>>
          /\ RestTypes' /\ cancelling' \subseteq Scheduled
          /\ publications' = [publications EXCEPT ![p].state = "Canceled"]
      BY <1>0, <1>6 DEF SaveCanceled, disk, RestTypes, RowTypes
    <2>2. RowsKept /\ Scheduled' = Scheduled /\ publications' \in Seq(Publication')
      BY <1>0, <2>1, SavedState DEF PublicationStates
    <2>3. RowTypes'
      BY <1>0, <2>1, <2>2 DEF RowTypes
    <2> QED
      BY <2>1, <2>2, <2>3, OtherTypes
  <1>7. CASE RestartServer
    <2>1. /\ UNCHANGED <<packages, publications, automatic>> /\ cancelling' \subseteq Scheduled
          /\ thread' = [c \in Callbacks |-> Off] /\ isTimerRunning' = FALSE
      BY <1>7 DEF RestartServer, disk
    <2>2. RestTypes'
      BY <1>0, <1>7, OneFault DEF RestartServer, disk, RestTypes, BundleStates
    <2>3. Off \in ThreadType(Scheduled) /\ Shape(Off) /\ Off.pc = "off" /\ Off.batch = {}
      BY DEF Off, NoBundle, NoPublication, ThreadType, Shape, Stages
    <2> HIDE DEF Off
    <2>4. RowsKept /\ Scheduled' = Scheduled /\ RowTypes'
      BY <1>1, <2>1
    <2>5. ThreadTypes' /\ OneThread' /\ ChosenReady'
      BY <2>1, <2>3, <2>4 DEF ThreadTypes, OneThread, Alone, At, ChosenReady
    <2>6. TypeOK'
      BY <2>2, <2>4, <2>5
         DEF TypeOK, RowTypes, RestTypes, ThreadTypes, Package, Publication, ThreadType
    <2> QED
      BY <2>4, <2>5, <2>6 DEF TypeInv
  <1>8. CASE UNCHANGED vars
    <2>1. /\ UNCHANGED <<packages, publications, automatic, cancelling, thread, isTimerRunning>>
          /\ RestTypes'
      BY <1>0, <1>8 DEF vars, disk, queue, RestTypes
    <2>2. cancelling' \subseteq Scheduled
      BY <1>0, <2>1 DEF RowTypes
    <2> QED
      BY <1>1, <2>1, <2>2, OtherTypes
  <1> QED
    BY <1>2, <1>3, <1>4, <1>5, <1>6, <1>7, <1>8 DEF Next

LEMMA TypesAlways == Spec => []TypeInv
  <1>1. Init => TypeInv
    <2> SUFFICES ASSUME Init PROVE TypeInv
      OBVIOUS
    <2>1. Off \in ThreadType({}) /\ Shape(Off) /\ Off.pc = "off" /\ Off.batch = {}
      BY DEF Off, NoBundle, NoPublication, ThreadType, Shape, Stages
    <2>2. Scheduled = {} /\ thread = [c \in Callbacks |-> Off] /\ isTimerRunning = FALSE
      BY DEF Init, Scheduled
    <2>3. RowTypes
      BY DEF Init, RowTypes, Scheduled
    <2>4. RestTypes
      BY AutoDeploymentAssumption DEF Init, RestTypes, BundleStates
    <2> HIDE DEF Off
    <2>5. ThreadTypes /\ OneThread /\ ChosenReady
      BY <2>1, <2>2 DEF ThreadTypes, OneThread, ChosenReady, Alone, At
    <2> QED
      BY <2>3, <2>4, <2>5, TypeParts DEF TypeInv
  <1>2. TypeInv /\ [Next]_vars => TypeInv'
    BY TypeNext
  <1> QED
    BY <1>1, <1>2, PTL DEF Spec

\* The rows, the states of the bundle versions and the locals of every callback keep their
\* types: no publication is for a package that has no row, and nothing is scheduled on no
\* environment.
THEOREM AutoDeploymentTypeCorrect == Spec => []TypeOK
  BY TypesAlways, PTL DEF TypeInv

-----------------------------------------------------------------------------
(* The queue.                                                              *)

\* Selected and Running, of any state of the callbacks.
Batches(t) == UNION {t[c].batch : c \in Callbacks}

Validated(t) == {t[c].current : c \in {d \in Callbacks : t[d].pc = "validate"}}

Held(t) == Batches(t) \union Validated(t)

Begun(t) ==
  IF \E c \in Callbacks : t[c].pc = "run"
  THEN t[CHOOSE c \in Callbacks : t[c].pc = "run"].current
  ELSE NoPublication

LEMMA OneHolds ==
  ASSUME NEW t, NEW c \in Callbacks, Alone(t, c)
  PROVE  /\ Held(t) = t[c].batch \union IF t[c].pc = "validate" THEN {t[c].current} ELSE {}
         /\ Begun(t) = IF t[c].pc = "run" THEN t[c].current ELSE NoPublication
  <1> DEFINE mine == t[c].batch \union IF t[c].pc = "validate" THEN {t[c].current} ELSE {}
  <1>1. \A d \in Callbacks \ {c} : t[d].pc = "off" /\ t[d].batch = {}
    BY DEF Alone
  <1>2. \A p : p \in Held(t) <=> \/ \E d \in Callbacks : p \in t[d].batch
                                \/ \E d \in Callbacks : (t[d].pc = "validate" /\ p = t[d].current)
    <2>1. \A p : p \in Batches(t) <=> \E d \in Callbacks : p \in t[d].batch
      BY DEF Batches
    <2>2. \A p : p \in Validated(t) <=> \E d \in Callbacks : t[d].pc = "validate" /\ p = t[d].current
      BY DEF Validated
    <2> QED
      BY <2>1, <2>2 DEF Held
  <1>3. \A p : p \in mine <=> p \in t[c].batch \/ (t[c].pc = "validate" /\ p = t[c].current)
    OBVIOUS
  <1>4. Held(t) = mine
    <2>1. \A p : p \in Held(t) <=> p \in mine
      <3> HIDE DEF mine
      <3> QED
        BY <1>1, <1>2, <1>3
    <2> HIDE DEF mine
    <2> QED
      BY <2>1
  <1>5. CASE t[c].pc = "run"
    <2> DEFINE d == CHOOSE d \in Callbacks : t[d].pc = "run"
    <2>1. d \in Callbacks /\ t[d].pc = "run"
      BY <1>5
    <2>2. d = c
      BY <1>1, <2>1
    <2> QED
      BY <1>4, <1>5, <2>2 DEF Begun
  <1>6. CASE t[c].pc # "run"
    <2>1. ~\E d \in Callbacks : t[d].pc = "run"
      BY <1>1, <1>6
    <2> QED
      BY <1>4, <1>6, <2>1 DEF Begun
  <1> QED
    BY <1>5, <1>6

LEMMA TickAlone ==
  ASSUME TypeInv, NEW c \in Callbacks, Tick(c)
  PROVE  Alone(thread, c) /\ Alone(thread', c)
  <1>1. OneThread /\ ThreadTypes
    BY TypeParts DEF TypeInv
  <1>2. Alone(thread, c)
    <2>1. CASE CallbackArrives(c)
      <3>1. \A d \in Callbacks : thread[d].pc \in {"off", "tested"} /\ thread[d].pc # "tested"
        BY <1>1, <2>1 DEF CallbackArrives, OneThread, At
      <3>2. \A d \in Callbacks : thread[d].pc = "off"
        BY <3>1
      <3> QED
        BY <1>1, <3>2 DEF Alone, OneThread, Shape
    <2>2. CASE ~CallbackArrives(c)
      <3>1. ~At(c, "off")
        BY <2>2 DEF Tick, StartTick, BeginPackaging, PackBundle, PackBundleFails, EndPackaging,
           ChooseAutomatic, SaveAutomatic, SelectPublications, StartJob, StartPublication,
           LeaveQueued, FinishPublication, DeployThrows, EndTick, At
      <3> QED
        BY <3>1, AtWork
    <2> QED
      BY <2>1, <2>2
  <1>3. \A d \in Callbacks \ {c} : thread'[d] = thread[d]
    BY <1>1 DEF ThreadTypes, Tick, CallbackArrives, StartTick, BeginPackaging, PackBundle,
       PackBundleFails, EndPackaging, ChooseAutomatic, SaveAutomatic, SelectPublications, StartJob,
       StartPublication, LeaveQueued, FinishPublication, DeployThrows, EndTick, Continue, GoTo
  <1> QED
    BY <1>2, <1>3 DEF Alone

LEMMA SelectedIsHeld == Selected = Held(thread) /\ Running = Begun(thread)
  <1>1. Selected = Held(thread)
    BY DEF Selected, Held, Batches, Validated, At
  <1>2. Running = Begun(thread)
    BY DEF Running, Begun, At
  <1> QED
    BY <1>1, <1>2

\* What the callback at work holds of the queue before and after its step.
LEMMA TickHolds ==
  ASSUME TypeInv, NEW c \in Callbacks, Tick(c)
  PROVE  /\ Selected = thread[c].batch \union IF thread[c].pc = "validate" THEN {thread[c].current} ELSE {}
         /\ Running = IF thread[c].pc = "run" THEN thread[c].current ELSE NoPublication
         /\ Selected' = thread'[c].batch \union IF thread'[c].pc = "validate" THEN {thread'[c].current} ELSE {}
         /\ Running' = IF thread'[c].pc = "run" THEN thread'[c].current ELSE NoPublication
  <1>1. Selected' = Held(thread')
    BY DEF Selected, Held, Batches, Validated, At
  <1>2. Running' = Begun(thread')
    BY DEF Running, Begun, At
  <1> QED
    BY <1>1, <1>2, TickAlone, OneHolds, SelectedIsHeld

\* The module of the queue names the same rows.
LEMMA QueueNames ==
  ASSUME RowTypes
  PROVE  /\ PublicationQueue!Scheduled = Scheduled
         /\ PublicationQueue!Deployable = Deployable
         /\ Publication \subseteq PublicationQueue!Publication
  <1>1. PublicationQueue!Scheduled = Scheduled
    BY DEF PublicationQueue!Scheduled, Scheduled, RowTypes
  <1>2. PublicationQueue!Deployable = Deployable
    BY <1>1 DEF PublicationQueue!Deployable, Deployable, PublicationQueue!StateOf, StateOf,
                PublicationQueue!Supersedes, Supersedes
  <1>3. DOMAIN packages \subseteq Nat
    BY DEF RowTypes
  <1>4. Publication \subseteq PublicationQueue!Publication
    BY <1>3 DEF PublicationQueue!Publication, Publication, PublicationQueue!PublicationStates,
                PublicationStates
  <1> QED
    BY <1>1, <1>2, <1>4

LEMMA RowsJoinQueue ==
  ASSUME RowTypes, UNCHANGED packages, NEW rows \in Seq(Publication), publications' = publications \o rows,
         \A i \in 1 .. Len(rows) : rows[i].state = "Queued",
         UNCHANGED <<cancelling, Selected, Running>>
  PROVE  PublicationQueue!Next
  <1>1. /\ publications' \in Seq(Publication')
        /\ Len(publications') = Len(publications) + Len(rows)
        /\ \A q \in Scheduled : publications'[q] = publications[q]
        /\ \A i \in 1 .. Len(rows) : publications'[Len(publications) + i] = rows[i]
    BY AddedRows
  <1>2. publications' \in Seq(PublicationQueue!Publication)
    <2>1. Publication' = Publication
      BY DEF Publication, PublicationStates
    <2> QED
      BY <1>1, <2>1, QueueNames
  <1>3. Len(publications) \in Nat /\ Len(rows) \in Nat /\ Scheduled = 1 .. Len(publications)
    BY DEF RowTypes, Scheduled
  <1>4. \A q \in 1 .. Len(publications') :
          q \notin 1 .. Len(publications) => publications'[q].state = "Queued"
    <2> SUFFICES ASSUME NEW q \in 1 .. Len(publications'), q \notin 1 .. Len(publications)
                 PROVE  publications'[q].state = "Queued"
      OBVIOUS
    <2>1. q - Len(publications) \in 1 .. Len(rows) /\ q = Len(publications) + (q - Len(publications))
      BY <1>1, <1>3
    <2> QED
      BY <1>1, <2>1
  <1>5. PublicationQueue!SchedulePublications
    BY <1>1, <1>2, <1>3, <1>4
       DEF PublicationQueue!SchedulePublications, PublicationQueue!Scheduled, PublicationQueue!StateOf
  <1> QED
    BY <1>5 DEF PublicationQueue!Next

LEMMA TickQueue ==
  ASSUME TypeInv, NEW c \in Callbacks, Tick(c)
  PROVE  \/ PublicationQueue!Next
         \/ UNCHANGED <<publications, cancelling, Selected, Running>>
  <1> DEFINE Goal == \/ PublicationQueue!Next
                     \/ UNCHANGED <<publications, cancelling, Selected, Running>>
             now == thread[c]
             then == thread'[c]
  <1> SUFFICES Goal
    OBVIOUS
  <1>0. /\ RowTypes /\ ThreadTypes /\ OneThread /\ ChosenReady
        /\ now \in ThreadType(Scheduled) /\ Shape(now)
        /\ Selected = now.batch \union IF now.pc = "validate" THEN {now.current} ELSE {}
        /\ Running = IF now.pc = "run" THEN now.current ELSE NoPublication
        /\ Selected' = then.batch \union IF then.pc = "validate" THEN {then.current} ELSE {}
        /\ Running' = IF then.pc = "run" THEN then.current ELSE NoPublication
        /\ now.pc \in {"validate", "run"} => now.current \in Scheduled /\ now.current # 0
    BY TypeParts, Locals, TickHolds DEF TypeInv, Shape, ThreadType, NoPublication
  <1>1. ASSUME UNCHANGED <<publications, cancelling>>,
               now.pc \notin {"validate", "run"}, then.pc \notin {"validate", "run"},
               then.batch = now.batch
        PROVE  Goal
    BY <1>0, <1>1
  <1>2. CASE CallbackArrives(c) \/ StartTick(c) \/ EndPackaging(c)
    <2>1. /\ UNCHANGED <<publications, cancelling>>
          /\ now.pc \notin {"validate", "run"} /\ then.pc \notin {"validate", "run"}
          /\ then.batch = now.batch
      BY <1>0, <1>2 DEF CallbackArrives, StartTick, EndPackaging, GoTo, At, queue, ThreadTypes, ThreadType
    <2> QED
      BY <1>1, <2>1
  <1>3. CASE BeginPackaging(c) \/ ChooseAutomatic(c)
    <2>1. /\ UNCHANGED <<publications, cancelling>>
          /\ now.pc \notin {"validate", "run"} /\ then.pc \notin {"validate", "run"}
          /\ then.batch = now.batch
      BY <1>0, <1>3 DEF BeginPackaging, ChooseAutomatic, At, queue, ThreadTypes, ThreadType
    <2> QED
      BY <1>1, <2>1
  <1>4. ASSUME NEW b \in Bundles, PackBundle(c, b) \/ PackBundleFails(c, b) PROVE Goal
    <2>1. /\ UNCHANGED <<publications, cancelling>>
          /\ now.pc \notin {"validate", "run"} /\ then.pc \notin {"validate", "run"}
          /\ then.batch = now.batch
      BY <1>0, <1>4 DEF PackBundle, PackBundleFails, At, queue, ThreadTypes, ThreadType
    <2> QED
      BY <1>1, <2>1
  <1>5. CASE EndTick(c)
    <2>1. /\ UNCHANGED <<publications, cancelling>>
          /\ now.pc \notin {"validate", "run"} /\ then.pc \notin {"validate", "run"}
          /\ then.batch = now.batch
      BY <1>0, <1>5 DEF EndTick, At, queue, ThreadTypes, ThreadType, Off
    <2> QED
      BY <1>1, <2>1
  <1>6. CASE SaveAutomatic(c)
    <2>1. PICK rows \in Seq(Publication) :
            /\ publications' = publications \o rows
            /\ \A i \in 1 .. Len(rows) : rows[i].state = "Queued"
      BY <1>6, SavedAutomatic DEF Queued
    <2>2. /\ UNCHANGED <<packages, cancelling>> /\ now.pc = "save" /\ then.pc = "select"
          /\ then.batch = now.batch
      BY <1>0, <1>6 DEF SaveAutomatic, At, disk, ThreadTypes, ThreadType
    <2>3. UNCHANGED <<Selected, Running>>
      BY <1>0, <2>2
    <2> QED
      BY <1>0, <2>1, <2>2, <2>3, RowsJoinQueue
  <1>7. CASE SelectPublications(c)
    <2>1. /\ UNCHANGED <<publications, cancelling>> /\ now.pc = "select" /\ then.pc = "deploy"
          /\ then.batch = Deployable
      BY <1>0, <1>7 DEF SelectPublications, At, queue, ThreadTypes, ThreadType
    <2>2. PublicationQueue!SelectPublications
      BY <1>0, <2>1, QueueNames DEF PublicationQueue!SelectPublications, Shape, NoPublication
    <2> QED
      BY <2>2 DEF PublicationQueue!Next
  <1>8. ASSUME NEW p \in Scheduled, StartJob(c, p) PROVE Goal
    <2>1. /\ UNCHANGED <<publications, cancelling>> /\ now.pc = "deploy" /\ then.pc = "validate"
          /\ p \in now.batch /\ then.batch = now.batch \ {p} /\ then.current = p
      BY <1>0, <1>8 DEF StartJob, At, queue, ThreadTypes, ThreadType
    <2> QED
      BY <1>0, <2>1
  <1>9. CASE StartPublication(c)
    <2>1. /\ publications' = [publications EXCEPT ![now.current].state = "InProgress"]
          /\ UNCHANGED cancelling /\ now.pc = "validate" /\ then.pc = "run"
          /\ then.batch = now.batch /\ then.current = now.current
      BY <1>0, <1>9 DEF StartPublication, GoTo, At, ThreadTypes, ThreadType
    <2>2. now.current \in Scheduled /\ now.current \notin now.batch
      BY <1>0, <2>1 DEF Shape
    <2>3. PublicationQueue!Start(now.current)
      BY <1>0, <2>1, <2>2 DEF PublicationQueue!Start, PublicationQueue!SetState, NoPublication
    <2> QED
      BY <1>0, <2>2, <2>3, QueueNames DEF PublicationQueue!Next
  <1>10. ASSUME NEW rest \in SUBSET now.batch, NEW state, Continue(c, rest, state)
         PROVE  then.pc = "deploy" /\ then.batch = rest /\ Selected' = rest /\ Running' = 0
    <2>1. then.pc = "deploy" /\ then.batch = rest
      BY <1>0, <1>10 DEF Continue, ThreadTypes, ThreadType
    <2> QED
      BY <1>0, <2>1 DEF NoPublication
  <1>11. ASSUME now.pc \in {"validate", "run"}, UNCHANGED <<publications, cancelling>>,
                NEW rest \in SUBSET now.batch, NEW state, Continue(c, rest, state)
         PROVE  Goal
    <2>1. Selected' = rest /\ Running' = 0 /\ rest \subseteq Selected
      BY <1>0, <1>10, <1>11
    <2>2. CASE now.pc = "validate"
      <3>1. PublicationQueue!Skip(Selected \ rest)
        BY <1>0, <1>11, <2>1, <2>2 DEF PublicationQueue!Skip, NoPublication
      <3> QED
        BY <3>1 DEF PublicationQueue!Next
    <2>3. CASE now.pc = "run"
      <3>1. PublicationQueue!BreakOff(Selected \ rest)
        BY <1>0, <1>11, <2>1, <2>3 DEF PublicationQueue!BreakOff
      <3> QED
        BY <3>1 DEF PublicationQueue!Next
    <2> QED
      BY <1>11, <2>2, <2>3
  <1>12. CASE LeaveQueued(c)
    BY <1>11, <1>12 DEF LeaveQueued, At, queue
  <1>13. CASE DeployThrows(c)
    <2>1. /\ now.pc \in {"validate", "run"} /\ UNCHANGED <<publications, cancelling>>
          /\ \E rest \in SUBSET now.batch : Continue(c, rest, "Error")
      BY <1>13 DEF DeployThrows, queue
    <2> QED
      BY <1>11, <2>1
  <1>14. ASSUME NEW result \in {"Complete", "Error"}, FinishPublication(c, result) PROVE Goal
    <2>1. /\ publications' = [publications EXCEPT ![now.current].state = result]
          /\ UNCHANGED cancelling /\ now.pc = "run" /\ Continue(c, now.batch, "Idle")
      BY <1>14 DEF FinishPublication, At
    <2>2. Selected' = Selected /\ Running' = 0 /\ Running = now.current /\ Running # 0
      BY <1>0, <1>10, <2>1
    <2>3. PublicationQueue!Finish(result)
      BY <2>1, <2>2 DEF PublicationQueue!Finish, PublicationQueue!SetState
    <2> QED
      BY <2>3 DEF PublicationQueue!Next
  <1> QED
    BY <1>2, <1>3, <1>4, <1>5, <1>6, <1>7, <1>8, <1>9, <1>12, <1>13, <1>14 DEF Tick

LEMMA QueueStep ==
  ASSUME TypeInv, [Next]_vars
  PROVE  [PublicationQueue!Next]_(PublicationQueue!vars)
  <1>0. RowTypes /\ ThreadTypes /\ OneThread
    BY TypeParts DEF TypeInv
  <1>1. ASSUME UNCHANGED <<publications, cancelling, Selected, Running>>
        PROVE  [PublicationQueue!Next]_(PublicationQueue!vars)
    BY <1>1 DEF PublicationQueue!vars
  <1>2. ASSUME UNCHANGED thread PROVE UNCHANGED <<Selected, Running>>
    BY <1>2 DEF Selected, Running, At
  <1>3. CASE \E c \in Callbacks : Tick(c)
    BY <1>1, <1>3, TickQueue
  <1>4. CASE (\E b \in Bundles : Commit(b) \/ CommitFailing(b)) \/ UNCHANGED vars
    BY <1>1, <1>2, <1>4 DEF Commit, CommitFailing, vars, queue
  <1>5. ASSUME NEW k \in DOMAIN packages, NEW e \in Environments, SchedulePublication(k, e)
        PROVE  PublicationQueue!Next
    <2> DEFINE rows == <<Queued(k, e)>>
    <2>1. rows \in Seq(Publication) /\ publications' = publications \o rows
      BY <1>0, <1>5 DEF SchedulePublication, Queued, Publication, PublicationStates, RowTypes
    <2>2. \A i \in 1 .. Len(rows) : rows[i].state = "Queued"
      BY DEF Queued
    <2>3. UNCHANGED <<packages, cancelling, Selected, Running>>
      BY <1>2, <1>5 DEF SchedulePublication, disk
    <2> HIDE DEF rows
    <2> QED
      BY <1>0, <2>1, <2>2, <2>3, RowsJoinQueue
  <1>6. ASSUME NEW p \in Scheduled, ReadForCancel(p) PROVE PublicationQueue!Next
    <2>1. PublicationQueue!ReadForCancel(p)
      BY <1>0, <1>2, <1>6, QueueNames DEF ReadForCancel, PublicationQueue!ReadForCancel
    <2> QED
      BY <1>0, <1>6, <2>1, QueueNames DEF PublicationQueue!Next
  <1>7. ASSUME NEW p \in Scheduled, SaveCanceled(p) PROVE PublicationQueue!Next
    <2>1. PublicationQueue!SaveCanceled(p)
      BY <1>2, <1>7 DEF SaveCanceled, PublicationQueue!SaveCanceled, PublicationQueue!SetState
    <2> QED
      BY <1>0, <1>7, <2>1, QueueNames DEF PublicationQueue!Next
  <1>8. CASE RestartServer
    <2>1. Selected' = {} /\ Running' = 0
      BY <1>8 DEF RestartServer, Selected, Running, At, Off, NoPublication
    <2>2. PublicationQueue!Restart
      BY <1>8, <2>1 DEF RestartServer, PublicationQueue!Restart
    <2> QED
      BY <2>2 DEF PublicationQueue!Next
  <1> QED
    BY <1>3, <1>4, <1>5, <1>6, <1>7, <1>8 DEF Next

\* As long as a callback that has tested the flag sets it before the timer fires again (assumed
\* in CallbackArrives), the callbacks together keep the contract of the queue, which is one for
\* a single thread: with scheduling, packaging, cancellations and restarts in the same ticks.
THEOREM AutoDeploymentImplementsQueue == Spec => ImplementsQueue
  <1>1. Init => PublicationQueue!Init
    BY DEF Init, PublicationQueue!Init, Selected, Running, At, Off, NoPublication
  <1>2. TypeInv /\ [Next]_vars => [PublicationQueue!Next]_(PublicationQueue!vars)
    BY QueueStep
  <1> QED
    BY <1>1, <1>2, TypesAlways, PTL DEF Spec, ImplementsQueue, PublicationQueue!Spec

\* Implementing the queue, the callbacks have its properties.
QueueFacts == INSTANCE PublicationQueueProofs WITH
  Packages <- Nat, selected <- Selected, running <- Running

LEMMA QueueFactsApply ==
  /\ PublicationQueue!Spec => QueueFacts!Spec
  /\ QueueFacts!NoStaleStart => PublicationQueue!NoStaleStart
  /\ QueueFacts!NeverQueuedAgain => PublicationQueue!NeverQueuedAgain
  <1>1. PublicationQueue!Init => QueueFacts!Init
    BY DEF PublicationQueue!Init, QueueFacts!Init
  <1>2. [PublicationQueue!Next]_(PublicationQueue!vars) => [QueueFacts!Next]_(QueueFacts!vars)
    BY DEF PublicationQueue!vars, QueueFacts!vars, PublicationQueue!Next, QueueFacts!Next,
           PublicationQueue!SchedulePublications, QueueFacts!SchedulePublications,
           PublicationQueue!Publication, QueueFacts!Publication,
           PublicationQueue!PublicationStates, QueueFacts!PublicationStates,
           PublicationQueue!ReadForCancel, QueueFacts!ReadForCancel,
           PublicationQueue!SaveCanceled, QueueFacts!SaveCanceled,
           PublicationQueue!SelectPublications, QueueFacts!SelectPublications,
           PublicationQueue!Start, QueueFacts!Start, PublicationQueue!Skip, QueueFacts!Skip,
           PublicationQueue!BreakOff, QueueFacts!BreakOff, PublicationQueue!Finish, QueueFacts!Finish,
           PublicationQueue!Restart, QueueFacts!Restart, PublicationQueue!SetState, QueueFacts!SetState,
           PublicationQueue!Scheduled, QueueFacts!Scheduled, PublicationQueue!StateOf, QueueFacts!StateOf,
           PublicationQueue!Deployable, QueueFacts!Deployable, PublicationQueue!Supersedes, QueueFacts!Supersedes
  <1> DEFINE
        Fresh1 == \A p \in QueueFacts!Scheduled :
          QueueFacts!StateOf(p) # "InProgress" /\ QueueFacts!StateOf(p)' = "InProgress" =>
            \A q \in QueueFacts!Scheduled : QueueFacts!Supersedes(q, p) => QueueFacts!Waiting(q)
        Fresh2 == \A p \in PublicationQueue!Scheduled :
          PublicationQueue!StateOf(p) # "InProgress" /\ PublicationQueue!StateOf(p)' = "InProgress" =>
            \A q \in PublicationQueue!Scheduled : PublicationQueue!Supersedes(q, p) => PublicationQueue!Waiting(q)
  <1>3. [Fresh1]_(QueueFacts!vars) => [Fresh2]_(PublicationQueue!vars)
    BY DEF PublicationQueue!vars, QueueFacts!vars, PublicationQueue!Scheduled, QueueFacts!Scheduled,
           PublicationQueue!StateOf, QueueFacts!StateOf, PublicationQueue!Supersedes, QueueFacts!Supersedes,
           PublicationQueue!Waiting, QueueFacts!Waiting
  <1>4. QueueFacts!NoStaleStart => PublicationQueue!NoStaleStart
    BY <1>3, PTL DEF QueueFacts!NoStaleStart, PublicationQueue!NoStaleStart
  <1> DEFINE
        Once1 == \A p \in QueueFacts!Scheduled :
          QueueFacts!StateOf(p) # "Queued" => QueueFacts!StateOf(p)' # "Queued"
        Once2 == \A p \in PublicationQueue!Scheduled :
          PublicationQueue!StateOf(p) # "Queued" => PublicationQueue!StateOf(p)' # "Queued"
  <1>5. [Once1]_(QueueFacts!vars) => [Once2]_(PublicationQueue!vars)
    BY DEF PublicationQueue!vars, QueueFacts!vars, PublicationQueue!Scheduled, QueueFacts!Scheduled,
           PublicationQueue!StateOf, QueueFacts!StateOf
  <1>6. QueueFacts!NeverQueuedAgain => PublicationQueue!NeverQueuedAgain
    BY <1>5, PTL DEF QueueFacts!NeverQueuedAgain, PublicationQueue!NeverQueuedAgain
  <1> QED
    BY <1>1, <1>2, <1>4, <1>6, PTL DEF PublicationQueue!Spec, QueueFacts!Spec

\* No callback starts a publication that a later one of the same package and environment has
\* overtaken, be they scheduled by users or by the automatic deployment
\* (ScheduleAutoDeployToTest, DeployScheduledPublications): the theorem about the queue holds of
\* what implements it.
THEOREM AutoDeploymentNoStaleStart == Spec => PublicationQueue!NoStaleStart
  BY QueueFactsApply, QueueFacts!QueueNoStaleStart, AutoDeploymentImplementsQueue
     DEF ImplementsQueue

\* Nor is a publication queued a second time, whichever callback started it and whether a user
\* scheduled it or the automatic deployment did: no later tick takes it up again.
THEOREM AutoDeploymentNeverQueuedAgain == Spec => PublicationQueue!NeverQueuedAgain
  BY QueueFactsApply, QueueFacts!QueueNeverQueuedAgain, AutoDeploymentImplementsQueue
     DEF ImplementsQueue

-----------------------------------------------------------------------------
(* The automatic deployment.                                               *)

\* An automatic publication goes where the row of its bundle version says.
AutomaticRows ==
  \A p \in automatic : publications[p].environment = AutoDeployTo[BundleOf(p)]

\* What has been chosen is as the query found it, as far as automatic publications go: the
\* latest package has none, and none waits for the bundle version.
ChosenFresh ==
  \A c \in Callbacks : At(c, "save") =>
    \A b \in thread[c].chosen, p \in automatic :
      /\ publications[p].package # Latest(b)
      /\ BundleOf(p) = b => StateOf(p) # "Queued"

\* Deploy has found the file of what it deploys.
RunningHasFile ==
  \A c \in Callbacks : At(c, "run") => HasFile(thread[c].current)

AutomaticInv ==
  /\ TypeInv
  /\ AutomaticRows
  /\ ChosenFresh
  /\ OneAutomaticEach
  /\ AutomaticInOrder

FileInv ==
  /\ TypeInv
  /\ RunningHasFile
  /\ NothingWithoutFile

-----------------------------------------------------------------------------
\* A publication does not wait again, and the tick takes up nothing but what waits: the
\* contract of the queue says both.
LEMMA NoReturn ==
  ASSUME TypeInv, [Next]_vars, NEW p \in Scheduled
  PROVE  /\ StateOf(p) # "Queued" => StateOf(p)' # "Queued"
         /\ p \in Selected' /\ p \notin Selected => StateOf(p) = "Queued"
  <1>0. RowTypes
    BY TypeParts DEF TypeInv
  <1>1. [PublicationQueue!Next]_(PublicationQueue!vars)
    BY QueueStep
  <1>2. PublicationQueue!Scheduled = Scheduled /\ PublicationQueue!Deployable = Deployable
    BY <1>0, QueueNames
  <1>3. ASSUME UNCHANGED publications PROVE StateOf(p)' = StateOf(p)
    BY <1>3 DEF StateOf
  <1>4. ASSUME NEW q, NEW state, state # "Queued", PublicationQueue!SetState(q, state)
        PROVE  StateOf(p) # "Queued" => StateOf(p)' # "Queued"
    <2>1. publications' = [publications EXCEPT ![q].state = state]
      BY <1>4 DEF PublicationQueue!SetState
    <2>2. publications[p] \in Publication /\ p \in DOMAIN publications
      BY <1>0 DEF RowTypes, Scheduled
    <2>3. CASE q = p
      BY <1>4, <2>1, <2>2, <2>3 DEF StateOf, Publication
    <2>4. CASE q # p
      BY <2>1, <2>2, <2>4 DEF StateOf
    <2> QED
      BY <2>3, <2>4
  <1>5. CASE PublicationQueue!SchedulePublications
    BY <1>2, <1>5 DEF PublicationQueue!SchedulePublications, StateOf
  <1>6. CASE \E q : PublicationQueue!ReadForCancel(q) \/ PublicationQueue!SaveCanceled(q)
    BY <1>3, <1>4, <1>6 DEF PublicationQueue!ReadForCancel, PublicationQueue!SaveCanceled
  <1>7. CASE \E q : PublicationQueue!Start(q)
    BY <1>4, <1>7 DEF PublicationQueue!Start
  <1>8. CASE PublicationQueue!SelectPublications
    BY <1>2, <1>3, <1>8 DEF PublicationQueue!SelectPublications, Deployable
  <1>9. CASE \E S : PublicationQueue!Skip(S) \/ PublicationQueue!BreakOff(S)
    BY <1>3, <1>9 DEF PublicationQueue!Skip, PublicationQueue!BreakOff
  <1>10. CASE \E result \in {"Complete", "Error"} : PublicationQueue!Finish(result)
    BY <1>4, <1>10 DEF PublicationQueue!Finish
  <1>11. CASE PublicationQueue!Restart \/ UNCHANGED PublicationQueue!vars
    BY <1>3, <1>11 DEF PublicationQueue!Restart, PublicationQueue!vars
  <1> QED
    BY <1>1, <1>5, <1>6, <1>7, <1>8, <1>9, <1>10, <1>11 DEF PublicationQueue!Next

LEMMA AutomaticKept ==
  ASSUME [Next]_vars, ~\E c \in Callbacks : SaveAutomatic(c)
  PROVE  automatic' = automatic
  <1>1. CASE \E c \in Callbacks : Tick(c)
    <2>1. PICK c \in Callbacks : Tick(c)
      BY <1>1
    <2> QED
      BY <2>1 DEF Tick, CallbackArrives, StartTick, BeginPackaging, PackBundle, PackBundleFails,
         EndPackaging, ChooseAutomatic, SelectPublications, StartJob, StartPublication, LeaveQueued,
         FinishPublication, DeployThrows, EndTick, queue
  <1>2. CASE ~\E c \in Callbacks : Tick(c)
    BY <1>2 DEF Next, Commit, CommitFailing, SchedulePublication, ReadForCancel, SaveCanceled,
       RestartServer, vars, queue
  <1> QED
    BY <1>1, <1>2

\* Between the query and the save the packages stay as they are.
LEMMA AtSave ==
  ASSUME TypeInv, [Next]_vars, NEW c \in Callbacks, At(c, "save")'
  PROVE  \/ ChooseAutomatic(c)
         \/ At(c, "save") /\ UNCHANGED <<thread, packages, automatic>>
  <1>0. ThreadTypes
    BY TypeParts DEF TypeInv
  <1>1. ASSUME NEW d \in Callbacks, Tick(d) PROVE ChooseAutomatic(c)
    <2>1. d = c
      BY <1>1, TickAlone DEF Alone, At
    <2>2. thread[c] \in ThreadType(Scheduled)
      BY <1>0 DEF ThreadTypes
    <2>3. CASE CallbackArrives(c) \/ StartTick(c) \/ EndPackaging(c) \/ StartPublication(c)
      BY <1>0, <2>2, <2>3 DEF CallbackArrives, StartTick, EndPackaging, StartPublication, GoTo, At, ThreadTypes,
         ThreadType
    <2>4. CASE BeginPackaging(c) \/ SaveAutomatic(c) \/ SelectPublications(c) \/ EndTick(c)
      BY <1>0, <2>2, <2>4 DEF BeginPackaging, SaveAutomatic, SelectPublications, EndTick, At, ThreadTypes,
         ThreadType, Off
    <2>5. ASSUME NEW b, PackBundle(c, b) \/ PackBundleFails(c, b) PROVE FALSE
      BY <1>0, <2>2, <2>5 DEF PackBundle, PackBundleFails, At, ThreadTypes, ThreadType
    <2>6. ASSUME NEW p, StartJob(c, p) PROVE FALSE
      BY <1>0, <2>2, <2>6 DEF StartJob, At, ThreadTypes, ThreadType
    <2>7. ASSUME NEW rest, NEW state, Continue(c, rest, state) PROVE FALSE
      BY <1>0, <2>2, <2>7 DEF Continue, At, ThreadTypes, ThreadType
    <2> QED
      BY <1>1, <2>1, <2>3, <2>4, <2>5, <2>6, <2>7
         DEF Tick, LeaveQueued, DeployThrows, FinishPublication
  <1>2. CASE ~\E d \in Callbacks : Tick(d)
    BY <1>0, <1>2 DEF Next, Commit, CommitFailing, SchedulePublication, ReadForCancel, SaveCanceled,
       RestartServer, vars, queue, disk, At, Off
  <1> QED
    BY <1>1, <1>2

\* What the callback saves are the latest packages of different bundle versions.
LEMMA SavedRows ==
  ASSUME AutomaticInv, NEW c \in Callbacks, SaveAutomatic(c)
  PROVE  /\ RowsKept
         /\ automatic \subseteq Scheduled
         /\ \A p \in automatic' \ automatic :
              \E b \in thread[c].chosen :
                /\ p \in Scheduled' /\ p \notin Scheduled
                /\ publications'[p] = Queued(Latest(b), AutoDeployTo[b])
                /\ BundleOf(p)' = b
                /\ \A q \in automatic' \ automatic : BundleOf(q)' = b => q = p
  <1> DEFINE chosen == thread[c].chosen
             n == Cardinality(chosen)
             rows(order) == [i \in 1 .. n |-> Queued(Latest(order[i]), AutoDeployTo[order[i]])]
  <1>1. PICK order \in Injection(1 .. n, chosen) :
          /\ n \in Nat
          /\ \A i \in 1 .. n : order[i] \in chosen /\ order[i] \in Bundles
          /\ rows(order) \in Seq(Publication)
          /\ Len(rows(order)) = n
          /\ publications' = publications \o rows(order)
          /\ automatic' = automatic \union {Len(publications) + i : i \in 1 .. n}
    BY SavedAutomatic DEF AutomaticInv
  <1>2. RowTypes /\ ChosenReady /\ At(c, "save") /\ UNCHANGED packages /\ Len(publications) \in Nat
        /\ Scheduled = 1 .. Len(publications)
    BY TypeParts DEF AutomaticInv, TypeInv, SaveAutomatic, disk, RowTypes, Scheduled
  <1>3. /\ RowsKept
        /\ Len(publications') = Len(publications) + n
        /\ \A i \in 1 .. n : publications'[Len(publications) + i] = rows(order)[i]
    <2> HIDE DEF rows, n
    <2> QED
      BY <1>1, <1>2, AddedRows
  <1>4. ASSUME NEW i \in 1 .. n, NEW p, p = Len(publications) + i
        PROVE  /\ p \in Scheduled' /\ p \notin Scheduled
               /\ publications'[p] = Queued(Latest(order[i]), AutoDeployTo[order[i]])
               /\ BundleOf(p)' = order[i]
    <2>1. publications'[p] = Queued(Latest(order[i]), AutoDeployTo[order[i]])
      BY <1>3, <1>4
    <2>2. p \in Scheduled' /\ p \notin Scheduled
      <3>1. Scheduled' = 1 .. Len(publications')
        BY <1>1, <1>2, <1>3 DEF Scheduled
      <3> HIDE DEF n
      <3> QED
        BY <1>1, <1>2, <1>3, <1>4, <3>1
    <2>3. PackagesOf(order[i]) # {}
      BY <1>1, <1>2 DEF ChosenReady
    <2>4. packages[Latest(order[i])].bundle = order[i]
      BY <1>2, <2>3, LatestIs
    <2> QED
      BY <1>2, <2>1, <2>2, <2>4 DEF BundleOf, Queued
  <1>5. ASSUME NEW p \in automatic' \ automatic
        PROVE  \E i \in 1 .. n : p = Len(publications) + i
    BY <1>1
  <1>6. ASSUME NEW p \in automatic' \ automatic
        PROVE  \E b \in chosen :
                /\ p \in Scheduled' /\ p \notin Scheduled
                /\ publications'[p] = Queued(Latest(b), AutoDeployTo[b])
                /\ BundleOf(p)' = b
                /\ \A q \in automatic' \ automatic : BundleOf(q)' = b => q = p
    <2>1. PICK i \in 1 .. n : p = Len(publications) + i
      BY <1>5
    <2>2. ASSUME NEW q \in automatic' \ automatic, BundleOf(q)' = order[i] PROVE q = p
      <3>1. PICK j \in 1 .. n : q = Len(publications) + j
        BY <1>5
      <3>2. order[j] = order[i]
        BY <1>4, <2>2, <3>1
      <3>3. j = i
        BY <1>1, <3>2 DEF Injection, IsInjective
      <3> QED
        BY <2>1, <3>1, <3>3
    <2> QED
      BY <1>1, <1>4, <2>1, <2>2
  <1> QED
    BY <1>2, <1>3, <1>6 DEF RowTypes

\* An automatic publication keeps its package, its environment and its bundle version.
LEMMA AutomaticStays ==
  ASSUME TypeInv, RowsKept, NEW p \in automatic
  PROVE  /\ p \in Scheduled
         /\ publications'[p].package = publications[p].package
         /\ publications'[p].environment = publications[p].environment
         /\ BundleOf(p)' = BundleOf(p)
  <1>1. RowTypes /\ p \in Scheduled
    BY TypeParts DEF TypeInv, RowTypes
  <1> QED
    BY <1>1, KeptRows DEF RowsKept

\* While the callback is about to save, it holds nothing of the queue.
LEMMA NothingSelected ==
  ASSUME TypeInv, NEW c \in Callbacks, SaveAutomatic(c)
  PROVE  Selected' = {}
  <1>1. thread[c].pc = "save" /\ thread' = [thread EXCEPT ![c].pc = "select", ![c].chosen = {}]
    BY DEF SaveAutomatic, At
  <1>2. thread[c] \in ThreadType(Scheduled) /\ Shape(thread[c]) /\ ThreadTypes
    BY TypeParts, Locals DEF TypeInv
  <1>3. thread'[c].pc = "select" /\ thread'[c].batch = {}
    BY <1>1, <1>2 DEF ThreadTypes, ThreadType, Shape
  <1>4. Tick(c)
    BY DEF Tick
  <1> QED
    BY <1>3, <1>4, TickHolds

LEMMA AutomaticNext ==
  ASSUME AutomaticInv, [Next]_vars
  PROVE  AutomaticInv'
  <1>1. TypeInv' /\ RowsKept /\ TypeInv
    BY TypeNext DEF AutomaticInv
  <1>2. RowTypes
    BY <1>1, TypeParts DEF TypeInv
  <1>3. CASE \E c \in Callbacks : SaveAutomatic(c)
    <2>1. PICK c \in Callbacks : SaveAutomatic(c)
      BY <1>3
    <2>2. ASSUME NEW p \in automatic' \ automatic
          PROVE  \E b \in thread[c].chosen :
                   /\ p \in Scheduled' /\ p \notin Scheduled
                   /\ publications'[p] = Queued(Latest(b), AutoDeployTo[b])
                   /\ BundleOf(p)' = b
                   /\ \A q \in automatic' \ automatic : BundleOf(q)' = b => q = p
                   /\ \A q \in automatic : /\ publications[q].package # Latest(b)
                                           /\ BundleOf(q) = b => StateOf(q) # "Queued"
      <3>1. At(c, "save") /\ ChosenFresh
        BY <2>1 DEF SaveAutomatic, AutomaticInv
      <3>2. PICK b \in thread[c].chosen :
                   /\ p \in Scheduled' /\ p \notin Scheduled
                   /\ publications'[p] = Queued(Latest(b), AutoDeployTo[b])
                   /\ BundleOf(p)' = b
                   /\ \A q \in automatic' \ automatic : BundleOf(q)' = b => q = p
        BY <2>1, SavedRows
      <3> QED
        BY <3>1, <3>2 DEF ChosenFresh
    <2>3. UNCHANGED packages
      BY <2>1 DEF SaveAutomatic, disk
    <2>4. AutomaticRows'
      <3> SUFFICES ASSUME NEW p \in automatic'
                   PROVE  publications'[p].environment = AutoDeployTo[BundleOf(p)']
        BY DEF AutomaticRows
      <3>1. CASE p \in automatic
        BY <1>1, <3>1, AutomaticStays DEF AutomaticInv, AutomaticRows
      <3>2. CASE p \notin automatic
        <4>1. PICK b \in thread[c].chosen : /\ publications'[p] = Queued(Latest(b), AutoDeployTo[b])
                                           /\ BundleOf(p)' = b
          BY <2>2, <3>2
        <4>2. publications'[p].environment = AutoDeployTo[b]
          BY <4>1 DEF Queued
        <4> QED
          BY <4>1, <4>2
      <3> QED
        BY <3>1, <3>2
    <2>5. OneAutomaticEach'
      <3> SUFFICES ASSUME NEW p \in automatic', NEW q \in automatic',
                          publications'[p].package = publications'[q].package
                   PROVE  p = q
        BY DEF OneAutomaticEach
      <3>1. CASE p \in automatic /\ q \in automatic
        BY <1>1, <3>1, AutomaticStays DEF AutomaticInv, OneAutomaticEach
      <3>2. ASSUME NEW new \in automatic' \ automatic, NEW old \in automatic
            PROVE  publications'[new].package # publications'[old].package
        <4>1. PICK b \in thread[c].chosen : /\ publications'[new] = Queued(Latest(b), AutoDeployTo[b])
                                           /\ publications[old].package # Latest(b)
          BY <2>2
        <4>2. publications'[new].package = Latest(b)
          BY <4>1 DEF Queued
        <4> QED
          BY <1>1, <4>1, <4>2, AutomaticStays
      <3>4. CASE p \notin automatic /\ q \notin automatic
        <4>1. BundleOf(p)' = BundleOf(q)'
          BY DEF BundleOf
        <4> QED
          BY <2>2, <3>4, <4>1
      <3> QED
        BY <3>1, <3>2, <3>4
    <2>6. AutomaticInOrder'
      <3> SUFFICES ASSUME NEW p \in automatic', NEW q \in automatic', p < q,
                          BundleOf(p)' = BundleOf(q)'
                   PROVE  /\ publications'[p].package <= publications'[q].package
                          /\ StateOf(p)' # "Queued" /\ p \notin Selected'
        BY DEF AutomaticInOrder
      <3>1. Selected' = {}
        BY <1>1, <2>1, NothingSelected
      <3>2. CASE p \in automatic /\ q \in automatic
        BY <1>1, <3>1, <3>2, AutomaticStays, NoReturn DEF AutomaticInv, AutomaticInOrder
      <3>3. CASE p \in automatic /\ q \notin automatic
        <4>1. /\ BundleOf(p)' = BundleOf(p) /\ p \in Scheduled
              /\ publications'[p].package = publications[p].package
          BY <1>1, <3>3, AutomaticStays
        <4>2. StateOf(p) # "Queued"
          BY <2>2, <3>3, <4>1
        <4>3. PICK b \in thread[c].chosen : /\ publications'[q] = Queued(Latest(b), AutoDeployTo[b])
                                           /\ BundleOf(q)' = b
          BY <2>2, <3>3
        <4>4. publications[p].package \in PackagesOf(b)
          <5>1. publications[p] \in Publication
            BY <1>2, <4>1 DEF RowTypes, Scheduled
          <5>2. publications[p].package \in DOMAIN packages
            BY <5>1 DEF Publication
          <5>3. packages[publications[p].package].bundle = b
            BY <4>1, <4>3 DEF BundleOf
          <5> QED
            BY <5>2, <5>3 DEF PackagesOf
        <4>5. publications[p].package <= Latest(b)
          BY <1>2, <4>4, LatestIs
        <4>6. publications'[q].package = Latest(b)
          BY <4>3 DEF Queued
        <4> QED
          BY <1>1, <3>1, <4>1, <4>2, <4>5, <4>6, NoReturn
      <3>4. CASE p \notin automatic /\ q \in automatic
        <4>1. p \notin Scheduled /\ p \in Scheduled' /\ q \in Scheduled
          BY <1>1, <2>2, <3>4, AutomaticStays
        <4>2. Scheduled = 1 .. Len(publications) /\ Scheduled' = 1 .. Len(publications') /\ Len(publications) \in Nat
              /\ publications' \in Seq(Publication')
          BY <1>1, <1>2, TypeParts DEF RowTypes, Scheduled, TypeInv, TypeOK, Publication
        <4> QED
          BY <4>1, <4>2
      <3>5. CASE p \notin automatic /\ q \notin automatic
        <4>1. p = q
          BY <2>2, <3>5
        <4>2. p \in Nat
          BY <1>1, <2>2, <3>5 DEF TypeInv, TypeOK, Scheduled
        <4> QED
          BY <4>1, <4>2
      <3> QED
        BY <3>2, <3>3, <3>4, <3>5
    <2>7. ChosenFresh'
      <3> SUFFICES ASSUME NEW d \in Callbacks, At(d, "save")' PROVE FALSE
        BY DEF ChosenFresh
      <3>1. Tick(c)
        BY <2>1 DEF Tick
      <3>2. thread'[c].pc = "select"
        BY <1>1, <2>1, TypeParts DEF SaveAutomatic, TypeInv, ThreadTypes, ThreadType
      <3> QED
        BY <1>1, <3>1, <3>2, TickAlone DEF Alone, At
    <2> QED
      BY <1>1, <2>4, <2>5, <2>6, <2>7 DEF AutomaticInv
  <1>4. CASE ~\E c \in Callbacks : SaveAutomatic(c)
    <2>1. automatic' = automatic
      BY <1>4, AutomaticKept
    <2>2. ASSUME NEW p \in automatic
          PROVE  /\ p \in Scheduled
                 /\ publications'[p].package = publications[p].package
                 /\ publications'[p].environment = publications[p].environment
                 /\ BundleOf(p)' = BundleOf(p)
                 /\ StateOf(p) # "Queued" => StateOf(p)' # "Queued"
                 /\ p \in Selected' /\ p \notin Selected => StateOf(p) = "Queued"
      BY <1>1, AutomaticStays, NoReturn
    <2>3. AutomaticRows' /\ OneAutomaticEach' /\ AutomaticInOrder'
      BY <2>1, <2>2 DEF AutomaticInv, AutomaticRows, OneAutomaticEach, AutomaticInOrder
    <2>4. ChosenFresh'
      <3> SUFFICES ASSUME NEW c \in Callbacks, At(c, "save")', NEW b \in thread'[c].chosen,
                          NEW p \in automatic
                   PROVE  publications'[p].package # Latest(b)' /\ (BundleOf(p)' = b => StateOf(p)' # "Queued")
        BY <2>1 DEF ChosenFresh
      <3>1. UNCHANGED packages => Latest(b)' = Latest(b)
        BY DEF Latest, PackagesOf
      <3>2. CASE At(c, "save") /\ UNCHANGED <<thread, packages, automatic>>
        BY <2>2, <3>1, <3>2 DEF AutomaticInv, ChosenFresh
      <3>3. CASE ChooseAutomatic(c)
        <4>1. UNCHANGED <<packages, publications>> /\ ToSchedule(b)
          <5>1. thread' = [thread EXCEPT ![c].pc = "save", ![c].chosen = {e \in Bundles : ToSchedule(e)}]
            BY <3>3 DEF ChooseAutomatic
          <5>2. thread'[c].chosen = {e \in Bundles : ToSchedule(e)}
            BY <1>1, <5>1, TypeParts DEF TypeInv, ThreadTypes, ThreadType
          <5> QED
            BY <3>3, <5>2 DEF ChooseAutomatic, disk, queue
        <4>2. publications[p].package # Latest(b)
          BY <2>2, <4>1 DEF ToSchedule, Published
        <4>3. BundleOf(p) = b => StateOf(p) # "Queued"
          BY <2>2, <4>1 DEF ToSchedule, QueuedThere, AutomaticInv, AutomaticRows
        <4> QED
          BY <2>2, <3>1, <4>1, <4>2, <4>3 DEF StateOf
      <3> QED
        BY <1>1, <3>2, <3>3, AtSave
    <2> QED
      BY <1>1, <2>3, <2>4 DEF AutomaticInv
  <1> QED
    BY <1>3, <1>4

LEMMA AutomaticAlways == Spec => []AutomaticInv
  <1>1. Init => AutomaticRows /\ ChosenFresh /\ OneAutomaticEach /\ AutomaticInOrder
    BY DEF Init, AutomaticRows, ChosenFresh, OneAutomaticEach, AutomaticInOrder
  <1>2. TypeInv /\ AutomaticRows /\ ChosenFresh /\ OneAutomaticEach /\ AutomaticInOrder <=> AutomaticInv
    BY DEF AutomaticInv
  <1>3. AutomaticInv /\ [Next]_vars => AutomaticInv'
    BY AutomaticNext
  <1> QED
    BY <1>1, <1>2, <1>3, TypesAlways, PTL DEF Spec

\* No package is scheduled automatically twice, whatever becomes of its publication and
\* whoever else schedules it.
THEOREM AutoDeploymentOneAutomaticEach == Spec => []OneAutomaticEach
  BY AutomaticAlways, PTL DEF AutomaticInv

\* A publication that is scheduled automatically is never for an older package than an earlier
\* one of the same bundle version, and by then the earlier one neither waits nor is in the list
\* of the tick.
THEOREM AutoDeploymentInOrder == Spec => []AutomaticInOrder
  BY AutomaticAlways, PTL DEF AutomaticInv

-----------------------------------------------------------------------------
(* The files of packages.                                                  *)

\* A callback that deploys has found the file, or goes on doing so.
LEMMA AtRun ==
  ASSUME TypeInv, [Next]_vars, NEW c \in Callbacks, At(c, "run")'
  PROVE  \/ StartPublication(c) /\ thread'[c].current = thread[c].current
         \/ At(c, "run") /\ UNCHANGED thread
  <1>0. ThreadTypes
    BY TypeParts DEF TypeInv
  <1>1. ASSUME NEW d \in Callbacks, Tick(d)
        PROVE  StartPublication(c) /\ thread'[c].current = thread[c].current
    <2>1. d = c
      BY <1>1, TickAlone DEF Alone, At
    <2>2. thread[c] \in ThreadType(Scheduled)
      BY <1>0 DEF ThreadTypes
    <2>3. CASE CallbackArrives(c) \/ StartTick(c) \/ EndPackaging(c) \/ ChooseAutomatic(c)
      BY <1>0, <2>2, <2>3 DEF CallbackArrives, StartTick, EndPackaging, ChooseAutomatic, GoTo, At,
         ThreadTypes, ThreadType
    <2>4. CASE BeginPackaging(c) \/ SaveAutomatic(c) \/ SelectPublications(c) \/ EndTick(c)
      BY <1>0, <2>2, <2>4 DEF BeginPackaging, SaveAutomatic, SelectPublications, EndTick, At, ThreadTypes,
         ThreadType, Off
    <2>5. ASSUME NEW b, PackBundle(c, b) \/ PackBundleFails(c, b) PROVE FALSE
      BY <1>0, <2>2, <2>5 DEF PackBundle, PackBundleFails, At, ThreadTypes, ThreadType
    <2>6. ASSUME NEW p, StartJob(c, p) PROVE FALSE
      BY <1>0, <2>2, <2>6 DEF StartJob, At, ThreadTypes, ThreadType
    <2>7. ASSUME NEW rest, NEW state, Continue(c, rest, state) PROVE FALSE
      BY <1>0, <2>2, <2>7 DEF Continue, At, ThreadTypes, ThreadType
    <2>8. CASE StartPublication(c)
      BY <1>0, <2>2, <2>8 DEF StartPublication, GoTo, ThreadTypes, ThreadType
    <2> QED
      BY <1>1, <2>1, <2>3, <2>4, <2>5, <2>6, <2>7, <2>8
         DEF Tick, LeaveQueued, DeployThrows, FinishPublication
  <1>2. CASE ~\E d \in Callbacks : Tick(d)
    BY <1>0, <1>2 DEF Next, Commit, CommitFailing, SchedulePublication, ReadForCancel, SaveCanceled,
       RestartServer, vars, At, Off
  <1> QED
    BY <1>1, <1>2

Started == {"InProgress", "Complete", "Error"}

\* The one state a step saves is that of a publication whose file has been found, or is no
\* state of a publication that has been started.
LEMMA StateSaved ==
  ASSUME TypeInv, RunningHasFile, UNCHANGED packages, NEW p \in Scheduled, NEW state \in PublicationStates,
         publications' = [publications EXCEPT ![p].state = state],
         state \in Started => HasFile(p), NothingWithoutFile
  PROVE  NothingWithoutFile'
  <1>1. RowTypes
    BY TypeParts DEF TypeInv
  <1>2. /\ Scheduled' = Scheduled /\ RowsKept /\ StateOf(p)' = state
        /\ \A q \in Scheduled : q # p => StateOf(q)' = StateOf(q)
    BY <1>1, SavedState
  <1>3. \A q \in Scheduled : HasFile(q)' = HasFile(q)
    BY <1>1, <1>2, KeptRows
  <1> QED
    BY <1>2, <1>3 DEF NothingWithoutFile, Started

\* New rows have not been started.
LEMMA StateAdded ==
  ASSUME TypeInv, NothingWithoutFile, UNCHANGED packages, NEW rows \in Seq(Publication),
         publications' = publications \o rows, \A i \in 1 .. Len(rows) : rows[i].state = "Queued"
  PROVE  NothingWithoutFile'
  <1>1. RowTypes
    BY TypeParts DEF TypeInv
  <1>2. /\ RowsKept
        /\ publications' \in Seq(Publication')
        /\ Len(publications') = Len(publications) + Len(rows)
        /\ \A q \in Scheduled : StateOf(q)' = StateOf(q)
        /\ \A i \in 1 .. Len(rows) : publications'[Len(publications) + i] = rows[i]
    BY <1>1, AddedRows
  <1> SUFFICES ASSUME NEW q \in Scheduled', StateOf(q)' \in Started PROVE HasFile(q)'
    BY DEF NothingWithoutFile, Started
  <1>3. CASE q \in Scheduled
    BY <1>1, <1>2, <1>3, KeptRows DEF NothingWithoutFile, Started
  <1>4. CASE q \notin Scheduled
    <2>1. Scheduled = 1 .. Len(publications) /\ Scheduled' = 1 .. Len(publications')
          /\ Len(publications) \in Nat /\ Len(rows) \in Nat
      BY <1>1, <1>2 DEF RowTypes, Scheduled
    <2>2. q - Len(publications) \in 1 .. Len(rows) /\ q = Len(publications) + (q - Len(publications))
      BY <1>2, <1>4, <2>1
    <2>3. publications'[q].state = "Queued"
      BY <1>2, <2>2
    <2> QED
      BY <2>3 DEF StateOf, Started
  <1> QED
    BY <1>3, <1>4

LEMMA FileNext ==
  ASSUME FileInv, [Next]_vars
  PROVE  FileInv'
  <1>0. TypeInv /\ RunningHasFile /\ NothingWithoutFile /\ RowTypes
    BY TypeParts DEF FileInv, TypeInv
  <1>1. TypeInv' /\ RowsKept
    BY <1>0, TypeNext
  <1>2. \A p \in Scheduled : p \in Scheduled' /\ HasFile(p)' = HasFile(p)
    BY <1>0, <1>1, KeptRows
  <1>3. RunningHasFile'
    <2> SUFFICES ASSUME NEW c \in Callbacks, At(c, "run")', NEW p, p = thread'[c].current
                 PROVE  HasFile(p)'
      BY DEF RunningHasFile
    <2>1. p = thread[c].current /\ (At(c, "run") \/ At(c, "validate")) /\ HasFile(p)
      BY <1>0, AtRun DEF StartPublication, RunningHasFile
    <2>2. p \in Scheduled
      <3>1. thread[c] \in ThreadType(Scheduled) /\ Shape(thread[c])
        BY <1>0, Locals
      <3> QED
        BY <2>1, <3>1 DEF ThreadType, Shape, At
    <2> QED
      BY <1>2, <2>1, <2>2
  <1>4. NothingWithoutFile'
    <2>1. ASSUME UNCHANGED publications PROVE NothingWithoutFile'
      BY <1>0, <1>2, <2>1 DEF NothingWithoutFile, Scheduled, StateOf
    <2>2. ASSUME NEW c \in Callbacks, thread[c].pc \in {"validate", "run"}, HasFile(thread[c].current),
                 NEW state \in PublicationStates, UNCHANGED packages,
                 publications' = [publications EXCEPT ![thread[c].current].state = state]
          PROVE  NothingWithoutFile'
      <3>1. thread[c].current \in Scheduled
        BY <1>0, <2>2, Locals DEF ThreadType, Shape
      <3> QED
        BY <1>0, <2>2, <3>1, StateSaved
    <2>3. ASSUME NEW c \in Callbacks, Tick(c) PROVE NothingWithoutFile'
      <3>1. CASE StartPublication(c)
        BY <2>2, <3>1 DEF StartPublication, At, disk, PublicationStates
      <3>2. ASSUME NEW result \in {"Complete", "Error"}, FinishPublication(c, result)
            PROVE  NothingWithoutFile'
        BY <1>0, <2>2, <3>2 DEF FinishPublication, At, disk, PublicationStates, RunningHasFile
      <3>3. CASE SaveAutomatic(c)
        <4>1. PICK rows \in Seq(Publication) :
                /\ publications' = publications \o rows
                /\ \A i \in 1 .. Len(rows) : rows[i].state = "Queued"
          BY <1>0, <3>3, SavedAutomatic DEF Queued
        <4>2. UNCHANGED packages
          BY <3>3 DEF SaveAutomatic, disk
        <4> QED
          BY <1>0, <4>1, <4>2, StateAdded
      <3> QED
        BY <2>1, <2>3, <3>1, <3>2, <3>3 DEF Tick, CallbackArrives, StartTick, BeginPackaging, PackBundle,
           PackBundleFails, EndPackaging, ChooseAutomatic, SelectPublications, StartJob, LeaveQueued,
           DeployThrows, EndTick, queue
    <2>4. CASE \E b \in Bundles : Commit(b) \/ CommitFailing(b)
      BY <2>1, <2>4 DEF Commit, CommitFailing, queue
    <2>5. ASSUME NEW k \in DOMAIN packages, NEW e \in Environments, SchedulePublication(k, e)
          PROVE  NothingWithoutFile'
      <3> DEFINE rows == <<Queued(k, e)>>
      <3>1. /\ rows \in Seq(Publication) /\ publications' = publications \o rows
            /\ \A i \in 1 .. Len(rows) : rows[i].state = "Queued"
        BY <1>0, <2>5 DEF SchedulePublication, Queued, Publication, PublicationStates, RowTypes
      <3>2. UNCHANGED packages
        BY <2>5 DEF SchedulePublication, disk
      <3> HIDE DEF rows
      <3> QED
        BY <1>0, <3>1, <3>2, StateAdded
    <2>6. ASSUME NEW p \in Scheduled, ReadForCancel(p) \/ SaveCanceled(p) PROVE NothingWithoutFile'
      <3>1. CASE ReadForCancel(p)
        BY <2>1, <3>1 DEF ReadForCancel
      <3>2. CASE SaveCanceled(p)
        BY <1>0, <3>2, StateSaved DEF SaveCanceled, disk, PublicationStates, Started
      <3> QED
        BY <2>6, <3>1, <3>2
    <2>7. CASE RestartServer \/ UNCHANGED vars
      BY <2>1, <2>7 DEF RestartServer, vars, queue
    <2> QED
      BY <2>3, <2>4, <2>5, <2>6, <2>7 DEF Next
  <1> QED
    BY <1>1, <1>3, <1>4 DEF FileInv

\* A package that was not finished, or whose file has the name of another, never reaches a
\* machine, whoever has scheduled it and whatever was saved over its state.
THEOREM AutoDeploymentNothingWithoutFile == Spec => []NothingWithoutFile
  <1>1. Init => RunningHasFile /\ NothingWithoutFile
    BY DEF Init, RunningHasFile, NothingWithoutFile, Scheduled, At, Off
  <1>2. TypeInv /\ RunningHasFile /\ NothingWithoutFile <=> FileInv
    BY DEF FileInv
  <1>3. FileInv /\ [Next]_vars => FileInv'
    BY FileNext
  <1> QED
    BY <1>1, <1>2, <1>3, TypesAlways, PTL DEF Spec
=============================================================================
