---------------------------- MODULE PipelineProofs ----------------------------
(* Type correctness of Pipeline and the invariants of its marks. *)
EXTENDS Pipeline, TLAPS

(***************************************************************************)
(* A build runs only in the stage BuildProjects, and a bundle is being     *)
(* packaged only in the stage PackageBundles.                              *)
(***************************************************************************)
StageOfWork ==
    /\ building # NoOne => pc = "build"
    /\ bundle # NoOne => pc \in {"pack", "clean", "mark"}

TypeInv == TypeOK /\ StageOfWork

LEMMA Values ==
    /\ Stamps \subseteq 0..BrokenCopy
    /\ Commits \subseteq Stamps
    /\ 0 \in Stamps /\ NoCopy \in 0..BrokenCopy /\ BrokenCopy \in 0..BrokenCopy
    /\ NoEntry \in Entries /\ NoMark \in Marks /\ NoDraft \in [Projects -> Entries]
BY PipelineConstants DEF Stamps, Commits, BrokenCopy, NoCopy, NoEntry, Entries, NoMark, Marks,
                         Results, NoDraft

LEMMA ProjectValues ==
    ASSUME TypeOK, NEW p \in Projects
    PROVE  /\ SourceOf[p] \in Sources
           /\ RevisionOf(p) \in Stamps
           /\ DiskOf(p) \in 0..BrokenCopy
           /\ mark[p] \in Marks /\ mark[p].built \in Stamps
           /\ mark[p].result \in Results /\ mark[p].packaged \in Stamps
           /\ binaries[p] \in Stamps
BY PipelineConstants DEF TypeOK, RevisionOf, DiskOf, Marks

LEMMA BreakOffTypes ==
    ASSUME TypeOK, NEW p \in Projects, BreakOff(p)
    PROVE  binaries' \in [Projects -> Stamps] /\ torn' \in SUBSET Projects
<1>1. PICK left \in {binaries[p], 0} \cup ({DiskOf(p)} \cap Commits) :
         /\ binaries' = [binaries EXCEPT ![p] = left]
         /\ torn' = IF left = 0 /\ mark[p].built = RevisionOf(p) THEN torn \cup {p} ELSE torn
  BY DEF BreakOff
<1>2. left \in Stamps
  BY ProjectValues, Values
<1> QED  BY <1>1, <1>2 DEF TypeOK

LEMMA PipelineTypeInit == Init => TypeInv
BY Values, PipelineConstants DEF Init, TypeInv, TypeOK, StageOfWork, Commits

LEMMA PipelineTypeNext == TypeInv /\ [Next]_vars => TypeInv'
<1> SUFFICES ASSUME TypeInv, [Next]_vars PROVE TypeInv'
    OBVIOUS
<1> USE DEF TypeInv, StageOfWork
<1>1. ASSUME NEW s \in Sources, Commit(s) PROVE TypeInv'
  <2>1. head' \in [Sources -> Commits]
    BY <1>1, PipelineConstants DEF TypeOK, Commit, Commits
  <2> QED  BY <1>1, <2>1 DEF TypeOK, Commit, database, tick, job
<1>2. ASSUME NEW s \in Sources, ArchiveVersion(s) PROVE TypeInv'
  BY <1>2 DEF TypeOK, ArchiveVersion, repository, tick, job
<1>3. CASE StartTick
  BY <1>3 DEF TypeOK, StartTick, repository, database, job
<1>4. ASSUME NEW s \in Sources, ArchiveSource(s) PROVE TypeInv'
  <2>1. /\ disk' \in [Sources -> 0..BrokenCopy]
        /\ binaries' \in [Projects -> Stamps]
        /\ archive' \in [Sources -> {"Normal", "Archiving", "Archived"}]
    BY <1>4, Values DEF TypeOK, ArchiveSource
  <2>2. todo' \in SUBSET Sources
    BY <1>4 DEF TypeOK, ArchiveSource
  <2> QED  BY <1>4, <2>1, <2>2 DEF TypeOK, ArchiveSource, job
<1>5. ASSUME NEW s \in Sources, ArchiveFails(s) PROVE TypeInv'
  <2>1. /\ disk' \in [Sources -> 0..BrokenCopy]
        /\ binaries' \in [Projects -> Stamps]
    BY <1>5, Values DEF TypeOK, ArchiveFails
  <2>2. todo' \in SUBSET Sources /\ faults' \in 0..MaxFaults
    BY <1>5, PipelineConstants DEF TypeOK, ArchiveFails, Fault
  <2> QED  BY <1>5, <2>1, <2>2 DEF TypeOK, ArchiveFails, database, job
<1>6. CASE BeginTake
  BY <1>6 DEF TypeOK, BeginTake, repository, database, job
<1>7. ASSUME NEW s \in Sources, TakeSource(s) PROVE TypeInv'
  <2>1. /\ disk' \in [Sources -> 0..BrokenCopy]
        /\ revision' \in [Sources -> Stamps]
    BY <1>7, Values DEF TypeOK, TakeSource
  <2>2. todo' \in SUBSET Sources
    BY <1>7 DEF TypeOK, TakeSource
  <2> QED  BY <1>7, <2>1, <2>2 DEF TypeOK, TakeSource, job
<1>8. ASSUME NEW s \in Sources, TakeFails(s) PROVE TypeInv'
  <2>1. disk' \in [Sources -> 0..BrokenCopy]
    BY <1>8, Values DEF TypeOK, TakeFails
  <2>2. todo' \in SUBSET Sources /\ faults' \in 0..MaxFaults
    BY <1>8, PipelineConstants DEF TypeOK, TakeFails, Fault
  <2> QED  BY <1>8, <2>1, <2>2 DEF TypeOK, TakeFails, database, job
<1>9. ASSUME NEW s \in Sources, SourceMissing(s) PROVE TypeInv'
  BY <1>9 DEF TypeOK, SourceMissing, repository, job
<1>10. CASE BeginBuild
  BY <1>10 DEF TypeOK, BeginBuild, repository, database, job
<1>11. ASSUME NEW b \in Bundles, VisitBundle(b) PROVE TypeInv'
  <2>1. queue' \in SUBSET Projects
    BY <1>11, PipelineConstants DEF VisitBundle, ToRebuild
  <2> QED  BY <1>11, <2>1 DEF TypeOK, VisitBundle, repository, database
<1>12. ASSUME NEW p \in Projects, StartBuild(p) PROVE TypeInv'
  <2>1. seenMark' \in [Projects -> Marks]
    BY <1>12 DEF TypeOK, StartBuild, Marks, Results
  <2>2. mark' \in [Projects -> Marks]
    BY <1>12 DEF TypeOK, StartBuild, Marks, Results
  <2> QED  BY <1>12, <2>1, <2>2 DEF TypeOK, StartBuild, repository
<1>13. ASSUME NEW p \in Projects, NEW success \in BOOLEAN, FinishBuild(p, success) PROVE TypeInv'
  <2>1. binaries' \in [Projects -> Stamps]
    <3>1. (IF success THEN DiskOf(p) ELSE 0) \in Stamps
      BY <1>13, Values DEF FinishBuild
    <3> QED  BY <1>13, <3>1 DEF TypeOK, FinishBuild
  <2>2. mark' \in [Projects -> Marks]
    <3>1. [built |-> RevisionOf(p), result |-> IF success THEN "Done" ELSE "Error",
           packaged |-> mark[p].packaged] \in Marks
      BY ProjectValues DEF Marks, Results
    <3> QED  BY <1>13, <3>1 DEF TypeOK, FinishBuild
  <2> QED  BY <1>13, <2>1, <2>2 DEF TypeOK, FinishBuild, tick
<1>14. ASSUME NEW p \in Projects, BuildThrows(p) PROVE TypeInv'
  <2>1. binaries' \in [Projects -> Stamps] /\ torn' \in SUBSET Projects
    BY <1>14, BreakOffTypes DEF TypeOK, BuildThrows
  <2>2. faults' \in 0..MaxFaults
    BY <1>14, PipelineConstants DEF TypeOK, BuildThrows, Fault
  <2> QED  BY <1>14, <2>1, <2>2 DEF TypeOK, BuildThrows, database, tick
<1>15. CASE BeginPack
  BY <1>15 DEF TypeOK, BeginPack, ToPack, repository, database, job
<1>16. ASSUME NEW b \in Bundles, StartPackage(b) PROVE TypeInv'
  BY <1>16, PipelineConstants DEF TypeOK, StartPackage, repository, database
<1>17. ASSUME NEW p \in Projects, PackProject(p) PROVE TypeInv'
  <2>1. CASE ~IsPackable(p)
    BY <1>17, <2>1 DEF TypeOK, PackProject, database, tick
  <2>2. CASE IsPackable(p)
    <3>1. ~HasParcel(p) => ContentOf(p) \in Stamps
      <4>1. binaries[p] \in Stamps
        BY ProjectValues
      <4>2. ~HasParcel(p) => DiskOf(p) \in Stamps
        BY <1>17, <2>2, Values DEF PackProject, CanPack
      <4> QED  BY <4>1, <4>2 DEF ContentOf
    <3>2. parcel' \in [Projects -> Entries]
      <4>1. CASE HasParcel(p)
        BY <1>17, <2>2, <4>1 DEF TypeOK, PackProject
      <4>2. CASE ~HasParcel(p)
        <5>1. [revision |-> RevisionOf(p), content |-> ContentOf(p)] \in Entries
          BY <3>1, <4>2, ProjectValues DEF Entries
        <5> QED  BY <1>17, <2>2, <4>2, <5>1 DEF TypeOK, PackProject
      <4> QED  BY <4>1, <4>2
    <3>3. draft' \in [Projects -> Entries]
      BY <1>17, <2>2, <3>2 DEF TypeOK, PackProject
    <3> QED  BY <1>17, <3>2, <3>3 DEF TypeOK, PackProject, database, tick
  <2> QED  BY <2>1, <2>2
<1>18. CASE SavePackage
  BY <1>18, Values DEF TypeOK, SavePackage, repository, tick
<1>19. CASE DeleteParcels
  BY <1>19, Values DEF TypeOK, DeleteParcels, database, tick, job
<1>20. CASE MarkPackaged
  <2>1. mark' \in [Projects -> Marks]
    BY <1>20, ProjectValues DEF TypeOK, MarkPackaged, Packaged, Marks
  <2> QED  BY <1>20, <2>1 DEF TypeOK, MarkPackaged, repository, tick
<1>21. CASE PackThrows
  <2>1. faults' \in 0..MaxFaults
    BY <1>21, PipelineConstants DEF TypeOK, PackThrows, Fault
  <2> QED  BY <1>21, <2>1, Values DEF TypeOK, PackThrows, repository, database, tick
<1>22. CASE EndTick
  BY <1>22, Values DEF TypeOK, EndTick, ForgetTick, repository, database, job
<1>23. CASE RestartServer
  <2>1. binaries' \in [Projects -> Stamps] /\ torn' \in SUBSET Projects
    BY <1>23, BreakOffTypes DEF TypeOK, RestartServer
  <2>2. faults' \in 0..MaxFaults
    BY <1>23, PipelineConstants DEF TypeOK, RestartServer, Fault
  <2> QED  BY <1>23, <2>1, <2>2, Values DEF TypeOK, RestartServer, ForgetTick, database
<1>24. CASE UNCHANGED vars
  BY <1>24 DEF TypeOK, vars, repository, database, tick, job
<1> QED
  BY <1>1, <1>2, <1>3, <1>4, <1>5, <1>6, <1>7, <1>8, <1>9, <1>10, <1>11, <1>12, <1>13, <1>14,
     <1>15, <1>16, <1>17, <1>18, <1>19, <1>20, <1>21, <1>22, <1>23, <1>24, Zenon
  DEF Next, TimerThread

\* The variables of the pipeline keep their types; the list of work belongs to the stage.
THEOREM PipelineTypeCorrect == Spec => []TypeOK
<1>1. Spec => []TypeInv
  BY PipelineTypeInit, PipelineTypeNext, PTL DEF Spec
<1> QED  BY <1>1, PTL DEF TypeInv

-----------------------------------------------------------------------------
(***************************************************************************)
(* MarksBacked.  A mark is never ahead of the revision, and a package in   *)
(* the making, or just saved, is labelled with the revision as it is: the  *)
(* revision does not change while a bundle is packaged.  So saving a       *)
(* package keeps the marks backed, and so does marking its projects.       *)
(***************************************************************************)
RevisionsKnown == \A s \in Sources : revision[s] <= head[s]

MarksWithinRevision == \A p \in Projects : mark[p].packaged <= RevisionOf(p)

DraftLabelled ==
    (bundle # NoOne /\ pc = "pack") =>
        \A p \in ProjectsOf[bundle] \ queue : IsPackable(p) => draft[p].revision = RevisionOf(p)

PackageLabelled ==
    pc \in {"clean", "mark"} =>
        /\ bundle \in Bundles
        /\ \A p \in ProjectsOf[bundle] :
              IsPackable(p) => package[bundle][p].revision = RevisionOf(p)

LabelInv ==
    /\ TypeInv
    /\ RevisionsKnown
    /\ MarksWithinRevision
    /\ DraftLabelled
    /\ PackageLabelled
    /\ MarksBacked

LEMMA LabelsInit == Init => LabelInv
<1> SUFFICES ASSUME Init PROVE LabelInv
    OBVIOUS
<1>1. TypeInv
  BY PipelineTypeInit
<1>2. RevisionsKnown /\ DraftLabelled /\ PackageLabelled
  BY DEF Init, RevisionsKnown, DraftLabelled, PackageLabelled
<1>3. \A p \in Projects : mark[p].packaged = 0
  BY DEF Init, NoMark
<1>4. MarksWithinRevision /\ MarksBacked
  BY <1>1, <1>3, ProjectValues DEF TypeInv, MarksWithinRevision, MarksBacked, Stamps
<1> QED  BY <1>1, <1>2, <1>4 DEF LabelInv

\* What an action that saves no revision, no package and no packaging mark has to keep.
LEMMA LabelsKept ==
    ASSUME LabelInv, TypeInv', head' \in [Sources -> Nat], \A s \in Sources : head'[s] >= head[s],
           UNCHANGED <<revision, package>>,
           \A p \in Projects : mark'[p].packaged = mark[p].packaged,
           DraftLabelled', PackageLabelled'
    PROVE  LabelInv'
<1>1. RevisionsKnown'
  BY DEF LabelInv, TypeInv, TypeOK, RevisionsKnown, Commits, Stamps
<1>2. MarksWithinRevision' /\ MarksBacked'
  BY DEF LabelInv, MarksWithinRevision, MarksBacked, RevisionOf, IsPackable
<1> QED  BY <1>1, <1>2 DEF LabelInv

LEMMA LabelsNext == LabelInv /\ [Next]_vars => LabelInv'
<1> SUFFICES ASSUME LabelInv, [Next]_vars PROVE LabelInv'
    OBVIOUS
<1>0. TypeInv /\ TypeInv'
  BY PipelineTypeNext DEF LabelInv
<1>h. /\ head \in [Sources -> Nat]
      /\ \A s \in Sources : head[s] >= head[s]
  BY <1>0, PipelineConstants DEF TypeInv, TypeOK, Commits
<1> USE DEF DraftLabelled, PackageLabelled
<1>1. ASSUME NEW s \in Sources, Commit(s) PROVE LabelInv'
  <2>1. head' \in [Sources -> Nat] /\ \A t \in Sources : head'[t] >= head[t]
    BY <1>0, <1>1, PipelineConstants DEF TypeInv, TypeOK, Commit, Commits
  <2> QED  BY <1>0, <1>1, <2>1, LabelsKept DEF LabelInv, Commit, database, tick, job, RevisionOf
<1>2. ASSUME NEW s \in Sources, ArchiveVersion(s) PROVE LabelInv'
  BY <1>0, <1>h, <1>2, LabelsKept DEF LabelInv, ArchiveVersion, repository, tick, job, RevisionOf
<1>3. CASE StartTick
  BY <1>0, <1>h, <1>3, LabelsKept
  DEF LabelInv, TypeInv, StageOfWork, StartTick, repository, database, job
<1>4. ASSUME NEW s \in Sources, ArchiveSource(s) PROVE LabelInv'
  BY <1>0, <1>h, <1>4, LabelsKept DEF LabelInv, ArchiveSource, job, RevisionOf
<1>5. ASSUME NEW s \in Sources, ArchiveFails(s) PROVE LabelInv'
  BY <1>0, <1>h, <1>5, LabelsKept DEF LabelInv, ArchiveFails, database, job, RevisionOf
<1>6. CASE BeginTake
  BY <1>0, <1>h, <1>6, LabelsKept DEF LabelInv, BeginTake, repository, database, job
<1>7. ASSUME NEW s \in Sources, TakeSource(s) PROVE LabelInv'
  <2>1. \A t \in Sources : revision'[t] >= revision[t] /\ revision'[t] <= head'[t]
    BY <1>0, <1>7 DEF LabelInv, TypeInv, TypeOK, RevisionsKnown, TakeSource, Commits, Stamps
  <2>2. \A p \in Projects : mark'[p].packaged <= RevisionOf(p)'
    <3>1. SUFFICES ASSUME NEW p \in Projects PROVE mark[p].packaged <= RevisionOf(p)'
      BY <1>7 DEF TakeSource
    <3>2. /\ SourceOf[p] \in Sources /\ mark[p].packaged \in Stamps
          /\ RevisionOf(p) \in Stamps /\ RevisionOf(p)' \in Stamps
      BY <1>0, ProjectValues DEF TypeInv, TypeOK, RevisionOf
    <3>3. mark[p].packaged <= RevisionOf(p) /\ RevisionOf(p) <= RevisionOf(p)'
      BY <2>1, <3>2 DEF LabelInv, MarksWithinRevision, RevisionOf, Stamps
    <3> QED  BY <3>2, <3>3 DEF Stamps
  <2>3. MarksBacked'
    BY <1>7 DEF LabelInv, MarksBacked, TakeSource, IsPackable
  <2> QED  BY <1>0, <1>7, <2>1, <2>2, <2>3
           DEF LabelInv, TypeInv, StageOfWork, RevisionsKnown, MarksWithinRevision, TakeSource,
               job
<1>8. ASSUME NEW s \in Sources, TakeFails(s) PROVE LabelInv'
  BY <1>0, <1>h, <1>8, LabelsKept DEF LabelInv, TakeFails, database, job, RevisionOf
<1>9. ASSUME NEW s \in Sources, SourceMissing(s) PROVE LabelInv'
  BY <1>0, <1>h, <1>9, LabelsKept DEF LabelInv, SourceMissing, repository, job, RevisionOf
<1>10. CASE BeginBuild
  BY <1>0, <1>h, <1>10, LabelsKept DEF LabelInv, BeginBuild, repository, database, job
<1>11. ASSUME NEW b \in Bundles, VisitBundle(b) PROVE LabelInv'
  BY <1>0, <1>h, <1>11, LabelsKept DEF LabelInv, VisitBundle, repository, database
<1>12. ASSUME NEW p \in Projects, StartBuild(p) PROVE LabelInv'
  <2>1. \A q \in Projects : mark'[q].packaged = mark[q].packaged
    BY <1>0, <1>12 DEF TypeInv, TypeOK, StartBuild, Marks
  <2> QED  BY <1>0, <1>h, <1>12, <2>1, LabelsKept DEF LabelInv, StartBuild, repository
<1>13. ASSUME NEW p \in Projects, NEW success \in BOOLEAN, FinishBuild(p, success) PROVE LabelInv'
  <2>1. \A q \in Projects : mark'[q].packaged = mark[q].packaged
    BY <1>0, <1>13 DEF TypeInv, TypeOK, FinishBuild, Marks
  <2>2. pc' = pc /\ UNCHANGED <<head, revision, package, bundle, queue, draft>>
    BY <1>13 DEF FinishBuild
  <2> QED  BY <1>0, <1>h, <2>1, <2>2, LabelsKept DEF LabelInv, RevisionOf
<1>14. ASSUME NEW p \in Projects, BuildThrows(p) PROVE LabelInv'
  <2>1. building # NoOne
    BY <1>14, PipelineConstants DEF BuildThrows
  <2> QED  BY <1>0, <1>h, <1>14, <2>1, LabelsKept
           DEF LabelInv, TypeInv, StageOfWork, BuildThrows, database, tick, RevisionOf
<1>15. CASE BeginPack
  BY <1>0, <1>h, <1>15, LabelsKept
  DEF LabelInv, TypeInv, StageOfWork, BeginPack, repository, database, job
<1>16. ASSUME NEW b \in Bundles, StartPackage(b) PROVE LabelInv'
  BY <1>0, <1>h, <1>16, LabelsKept DEF LabelInv, StartPackage, repository, database
<1>17. ASSUME NEW p \in Projects, PackProject(p) PROVE LabelInv'
  <2>1. ASSUME NEW q \in ProjectsOf[bundle] \ queue', IsPackable(q)
        PROVE  draft'[q].revision = RevisionOf(q)
    <3>1. CASE q = p
      BY <1>0, <1>17, <2>1, <3>1 DEF TypeInv, TypeOK, PackProject, HasParcel
    <3>2. CASE q # p
      <4>1. q \in ProjectsOf[bundle] \ queue
        BY <1>17, <2>1, <3>2 DEF PackProject
      <4>2. draft[q].revision = RevisionOf(q)
        BY <1>17, <2>1, <4>1 DEF LabelInv, PackProject
      <4>3. q \in Projects
        BY <1>0, <1>17, <4>1, PipelineConstants DEF TypeInv, TypeOK, PackProject
      <4>4. draft'[q] = draft[q]
        BY <1>0, <1>17, <3>2, <4>3 DEF TypeInv, TypeOK, PackProject
      <4> QED  BY <4>2, <4>4
    <3> QED  BY <3>1, <3>2
  <2> QED  BY <1>0, <1>h, <1>17, <2>1, LabelsKept
           DEF LabelInv, PackProject, database, tick, RevisionOf, IsPackable
<1>18. CASE SavePackage
  <2>1. bundle \in Bundles /\ bundle' = bundle /\ pc' = "clean" /\ UNCHANGED <<mark, revision>>
    BY <1>0, <1>18 DEF TypeInv, TypeOK, SavePackage
  <2>2. ASSUME NEW p \in ProjectsOf[bundle], IsPackable(p)
        PROVE  package'[bundle][p].revision = RevisionOf(p)
    BY <1>0, <1>18, <2>1, <2>2 DEF LabelInv, TypeInv, TypeOK, SavePackage
  <2>3. \A b \in Bundles : b # bundle => package'[b] = package[b]
    BY <1>0, <1>18 DEF TypeInv, TypeOK, SavePackage
  <2>4. MarksBacked'
    <3>1. SUFFICES ASSUME NEW p \in Projects, IsPackable(p), mark[p].packaged # 0
                   PROVE  \E b \in Bundles : /\ p \in ProjectsOf[b]
                                             /\ package'[b][p].revision >= mark[p].packaged
      BY <2>1 DEF MarksBacked, IsPackable
    <3>2. PICK b \in Bundles : /\ p \in ProjectsOf[b]
                               /\ package[b][p].revision >= mark[p].packaged
      BY <3>1 DEF LabelInv, MarksBacked
    <3>3. CASE b = bundle
      BY <1>0, <2>1, <2>2, <3>1, <3>2, <3>3, ProjectValues
      DEF LabelInv, TypeInv, MarksWithinRevision, Stamps
    <3>4. CASE b # bundle
      BY <2>3, <3>2, <3>4
    <3> QED  BY <3>3, <3>4
  <2>5. RevisionsKnown' /\ MarksWithinRevision'
    BY <1>18, <2>1 DEF LabelInv, RevisionsKnown, MarksWithinRevision, RevisionOf, SavePackage,
                       repository
  <2> QED  BY <1>0, <2>1, <2>2, <2>4, <2>5 DEF LabelInv, RevisionOf, IsPackable
<1>19. CASE DeleteParcels
  BY <1>0, <1>h, <1>19, LabelsKept
  DEF LabelInv, DeleteParcels, database, tick, job, RevisionOf
<1>20. CASE MarkPackaged
  <2>1. /\ bundle \in Bundles /\ bundle' = NoOne /\ pc' = "pack"
        /\ UNCHANGED <<head, revision, package>> /\ mark' = Packaged(bundle)
    BY <1>20 DEF LabelInv, MarkPackaged, repository
  <2>2. \A p \in Projects : /\ p \in ProjectsOf[bundle] => mark'[p].packaged = RevisionOf(p)
                            /\ p \notin ProjectsOf[bundle] => mark'[p] = mark[p]
    BY <1>0, <2>1 DEF TypeInv, TypeOK, Packaged, Marks
  <2>3. MarksWithinRevision'
    BY <1>0, <2>1, <2>2, ProjectValues
    DEF LabelInv, TypeInv, MarksWithinRevision, RevisionOf, Stamps
  <2>4. MarksBacked'
    <3>1. SUFFICES ASSUME NEW p \in Projects, IsPackable(p), mark'[p].packaged # 0
                   PROVE  \E b \in Bundles : /\ p \in ProjectsOf[b]
                                             /\ package[b][p].revision >= mark'[p].packaged
      BY <2>1 DEF MarksBacked, IsPackable
    <3>2. CASE p \in ProjectsOf[bundle]
      <4>1. package[bundle][p].revision = RevisionOf(p)
        BY <1>20, <3>1, <3>2 DEF LabelInv, MarkPackaged
      <4>2. RevisionOf(p) >= RevisionOf(p)
        BY <1>0, ProjectValues DEF TypeInv, Stamps
      <4> QED  BY <2>1, <2>2, <3>2, <4>1, <4>2
    <3>3. CASE p \notin ProjectsOf[bundle]
      BY <2>2, <3>1, <3>3 DEF LabelInv, MarksBacked
    <3> QED  BY <3>2, <3>3
  <2> QED  BY <1>0, <2>1, <2>3, <2>4 DEF LabelInv, RevisionsKnown
<1>21. CASE PackThrows
  BY <1>0, <1>h, <1>21, LabelsKept DEF LabelInv, PackThrows, repository, database, tick
<1>22. CASE EndTick
  BY <1>0, <1>h, <1>22, LabelsKept DEF LabelInv, EndTick, ForgetTick, repository, database, job
<1>23. CASE RestartServer
  BY <1>0, <1>h, <1>23, LabelsKept DEF LabelInv, RestartServer, ForgetTick, database
<1>24. CASE UNCHANGED vars
  BY <1>0, <1>h, <1>24, LabelsKept
  DEF LabelInv, vars, repository, database, tick, job, RevisionOf
<1> QED
  BY <1>1, <1>2, <1>3, <1>4, <1>5, <1>6, <1>7, <1>8, <1>9, <1>10, <1>11, <1>12, <1>13, <1>14,
     <1>15, <1>16, <1>17, <1>18, <1>19, <1>20, <1>21, <1>22, <1>23, <1>24, Zenon
  DEF Next, TimerThread

\* A revision recorded as packaged is the label of a package, or an older one: no failure makes
\* the code skip a package.
THEOREM PipelineMarksBacked == Spec => []MarksBacked
<1>1. Spec => []LabelInv
  BY LabelsInit, LabelsNext, PTL DEF Spec
<1> QED  BY <1>1, PTL DEF LabelInv

-----------------------------------------------------------------------------
(***************************************************************************)
(* BuildMarksSound.  While a build runs, the row of its project does not   *)
(* say Done, unless the revision it is Done for is the current one: then   *)
(* this is the second build of the tick, and torn records how it ends.     *)
(* The working copy is never older than the recorded revision, because the *)
(* revision is saved last.                                                 *)
(***************************************************************************)
OnlyArchivedDeleted == pc = "archive" => \A s \in todo : archive[s] # "Normal"

CopyNotOlder ==
    \A s \in Sources : /\ revision[s] <= head[s]
                       /\ disk[s] \in Commits => disk[s] >= revision[s]

BuiltWithinRevision == \A p \in Projects : mark[p].built <= RevisionOf(p)

Announced(p) == mark[p].result = "Done" => mark[p].built = RevisionOf(p)

BuildAnnounced ==
    /\ building # NoOne => seenMark[building].result = "Not started"
    /\ pc = "build" =>
           \A p \in Projects : seenMark[p].result = "Not started" => Announced(p)

BuildInv ==
    /\ TypeInv
    /\ OnlyArchivedDeleted
    /\ CopyNotOlder
    /\ BuiltWithinRevision
    /\ BuildAnnounced
    /\ BuildMarksSound

\* The values that belong to one source.
LEMMA SourceValues ==
    ASSUME TypeOK, NEW s \in Sources
    PROVE  /\ head[s] \in Commits /\ head[s] \in Nat /\ head[s] # 0
           /\ revision[s] \in Nat /\ disk[s] \in Nat
           /\ NoCopy \notin Commits /\ BrokenCopy \notin Commits
<1>1. head[s] \in Commits /\ revision[s] \in Stamps /\ disk[s] \in 0..BrokenCopy
  BY DEF TypeOK
<1>2. MaxCommits \in Nat
  BY PipelineConstants
<1> QED  BY <1>1, <1>2 DEF Commits, Stamps, NoCopy, BrokenCopy

\* A step that touches one source keeps CopyNotOlder if it holds of that source.
LEMMA CopyKept ==
    ASSUME CopyNotOlder, NEW s \in Sources,
           \A t \in Sources \ {s} : /\ head'[t] = head[t] /\ disk'[t] = disk[t]
                                    /\ revision'[t] = revision[t],
           revision'[s] <= head'[s],
           disk'[s] \in Commits => disk'[s] >= revision'[s]
    PROVE  CopyNotOlder'
BY DEF CopyNotOlder

LEMMA BuildsInit == Init => BuildInv
<1> SUFFICES ASSUME Init PROVE BuildInv
    OBVIOUS
<1>1. TypeInv
  BY PipelineTypeInit
<1>2. OnlyArchivedDeleted /\ CopyNotOlder /\ BuildAnnounced
  BY PipelineConstants DEF Init, OnlyArchivedDeleted, CopyNotOlder, BuildAnnounced, NoCopy, Commits
<1>3. \A p \in Projects : mark[p].built = 0 /\ mark[p].result = "none"
  BY DEF Init, NoMark
<1>4. BuiltWithinRevision /\ BuildMarksSound
  BY <1>1, <1>3, ProjectValues DEF TypeInv, BuiltWithinRevision, BuildMarksSound, Stamps
<1> QED  BY <1>1, <1>2, <1>4 DEF BuildInv

\* What an action that neither builds nor touches the sources has to keep.
LEMMA BuildsKept ==
    ASSUME BuildInv, TypeInv',
           UNCHANGED <<head, disk, binaries, revision, torn>>,
           \A s \in Sources : archive'[s] = "Normal" => archive[s] = "Normal",
           \A p \in Projects : /\ mark'[p].built = mark[p].built
                               /\ mark'[p].result = mark[p].result,
           OnlyArchivedDeleted', BuildAnnounced'
    PROVE  BuildInv'
<1>1. CopyNotOlder'
  BY DEF BuildInv, CopyNotOlder
<1>2. BuiltWithinRevision'
  BY DEF BuildInv, BuiltWithinRevision, RevisionOf
<1>3. BuildMarksSound'
  <2>1. \A p \in Projects : SourceOf[p] \in Sources
    BY PipelineConstants
  <2> QED  BY <2>1 DEF BuildInv, BuildMarksSound
<1> QED  BY <1>1, <1>2, <1>3 DEF BuildInv

\* A project whose build is broken off stays sound, or is torn.
LEMMA BreakOffSound ==
    ASSUME BuildInv, NEW p \in Projects, BreakOff(p), Announced(p), UNCHANGED <<mark, archive>>
    PROVE  BuildMarksSound'
<1>1. PICK left \in {binaries[p], 0} \cup ({DiskOf(p)} \cap Commits) :
         /\ binaries' = [binaries EXCEPT ![p] = left]
         /\ torn' = IF left = 0 /\ mark[p].built = RevisionOf(p) THEN torn \cup {p} ELSE torn
  BY DEF BreakOff
<1>2. SUFFICES ASSUME NEW q \in Projects, mark[q].result = "Done",
                      archive[SourceOf[q]] = "Normal", q \notin torn'
               PROVE  binaries'[q] # 0 /\ binaries'[q] >= mark[q].built
  BY DEF BuildMarksSound
<1>3. binaries[q] # 0 /\ binaries[q] >= mark[q].built
  BY <1>1, <1>2 DEF BuildInv, BuildMarksSound
<1>4. CASE q # p \/ left = binaries[p]
  BY <1>1, <1>3, <1>4 DEF BuildInv, TypeInv, TypeOK
<1>5. CASE q = p /\ left = 0
  BY <1>1, <1>2, <1>5 DEF Announced
<1>6. CASE q = p /\ left = DiskOf(p) /\ left \in Commits
  <2>1. binaries'[q] = DiskOf(p)
    BY <1>1, <1>6 DEF BuildInv, TypeInv, TypeOK
  <2>2. DiskOf(p) \in Nat /\ DiskOf(p) # 0
    BY <1>6, PipelineConstants DEF Commits
  <2>3. DiskOf(p) >= RevisionOf(p) /\ mark[p].built <= RevisionOf(p)
    BY <1>6, PipelineConstants DEF BuildInv, CopyNotOlder, BuiltWithinRevision, DiskOf, RevisionOf
  <2>4. mark[p].built \in Nat /\ RevisionOf(p) \in Nat
    BY ProjectValues, PipelineConstants DEF BuildInv, TypeInv, Stamps
  <2> QED  BY <1>6, <2>1, <2>2, <2>3, <2>4
<1> QED  BY <1>1, <1>4, <1>5, <1>6

LEMMA BuildsNext == BuildInv /\ [Next]_vars => BuildInv'
<1> SUFFICES ASSUME BuildInv, [Next]_vars PROVE BuildInv'
    OBVIOUS
<1>0. TypeInv /\ TypeInv'
  BY PipelineTypeNext DEF BuildInv
<1>p. \A p \in Projects : p # NoOne /\ SourceOf[p] \in Sources
  BY PipelineConstants
<1> USE DEF OnlyArchivedDeleted, BuildAnnounced
<1>1. ASSUME NEW s \in Sources, Commit(s) PROVE BuildInv'
  <2>a. /\ \A t \in Sources \ {s} : head'[t] = head[t]
        /\ head'[s] = head[s] + 1 /\ UNCHANGED <<disk, revision>>
    BY <1>0, <1>1 DEF TypeInv, TypeOK, Commit, database
  <2>b. revision[s] <= head[s] /\ (disk[s] \in Commits => disk[s] >= revision[s])
    BY DEF BuildInv, CopyNotOlder
  <2>c. revision[s] <= head[s] + 1
    BY <1>0, <2>b, SourceValues DEF TypeInv
  <2>1. CopyNotOlder'
    BY <2>a, <2>b, <2>c, CopyKept DEF BuildInv
  <2>2. BuiltWithinRevision' /\ BuildMarksSound'
    BY <1>1 DEF BuildInv, BuiltWithinRevision, BuildMarksSound, Commit, database, RevisionOf
  <2> QED  BY <1>0, <1>1, <2>1, <2>2
           DEF BuildInv, Commit, database, tick, job, Announced, RevisionOf
<1>2. ASSUME NEW s \in Sources, ArchiveVersion(s) PROVE BuildInv'
  <2>1. \A t \in Sources : archive'[t] = "Normal" => archive[t] = "Normal"
    BY <1>0, <1>2 DEF TypeInv, TypeOK, ArchiveVersion
  <2>2. OnlyArchivedDeleted'
    BY <1>0, <1>2, <2>1 DEF BuildInv, TypeInv, TypeOK, ArchiveVersion, tick
  <2> QED  BY <1>0, <1>2, <2>1, <2>2, BuildsKept
           DEF BuildInv, ArchiveVersion, repository, tick, job, Announced, RevisionOf
<1>3. CASE StartTick
  BY <1>0, <1>3, BuildsKept DEF BuildInv, StartTick, repository, database, job
<1>4. ASSUME NEW s \in Sources, ArchiveSource(s) PROVE BuildInv'
  <2>a. /\ \A t \in Sources \ {s} : disk'[t] = disk[t]
        /\ disk'[s] = NoCopy /\ UNCHANGED <<head, revision>>
    BY <1>0, <1>4 DEF TypeInv, TypeOK, ArchiveSource
  <2>b. revision[s] <= head[s] /\ disk'[s] \notin Commits
    BY <1>0, <2>a, SourceValues DEF BuildInv, TypeInv, CopyNotOlder
  <2>1. CopyNotOlder'
    BY <2>a, <2>b, CopyKept DEF BuildInv
  <2>2. BuildMarksSound'
    BY <1>0, <1>4, <1>p DEF BuildInv, TypeInv, TypeOK, BuildMarksSound, ArchiveSource
  <2>3. OnlyArchivedDeleted'
    BY <1>0, <1>4 DEF BuildInv, TypeInv, TypeOK, ArchiveSource
  <2>4. BuiltWithinRevision' /\ BuildAnnounced'
    BY <1>4 DEF BuildInv, BuiltWithinRevision, ArchiveSource, job, RevisionOf
  <2> QED  BY <1>0, <2>1, <2>2, <2>3, <2>4 DEF BuildInv
<1>5. ASSUME NEW s \in Sources, ArchiveFails(s) PROVE BuildInv'
  <2>a. /\ \A t \in Sources \ {s} : disk'[t] = disk[t]
        /\ disk'[s] = BrokenCopy /\ UNCHANGED <<head, revision>>
    BY <1>0, <1>5 DEF TypeInv, TypeOK, ArchiveFails, database
  <2>b. revision[s] <= head[s] /\ disk'[s] \notin Commits
    BY <1>0, <2>a, SourceValues DEF BuildInv, TypeInv, CopyNotOlder
  <2>1. CopyNotOlder'
    BY <2>a, <2>b, CopyKept DEF BuildInv
  <2>2. BuildMarksSound'
    <3>1. archive[s] # "Normal"
      BY <1>5 DEF BuildInv, ArchiveFails
    <3>2. \A p \in Projects : SourceOf[p] # s => binaries'[p] = binaries[p]
      BY <1>0, <1>5 DEF TypeInv, TypeOK, ArchiveFails, ProjectsFrom
    <3> QED  BY <1>5, <3>1, <3>2 DEF BuildInv, BuildMarksSound, ArchiveFails, database
  <2>3. OnlyArchivedDeleted'
    BY <1>0, <1>5 DEF BuildInv, ArchiveFails, database
  <2>4. BuiltWithinRevision' /\ BuildAnnounced'
    BY <1>5 DEF BuildInv, BuiltWithinRevision, ArchiveFails, job, database, RevisionOf
  <2> QED  BY <1>0, <2>1, <2>2, <2>3, <2>4 DEF BuildInv
<1>6. CASE BeginTake
  BY <1>0, <1>6, BuildsKept DEF BuildInv, BeginTake, repository, database, job
<1>7. ASSUME NEW s \in Sources, TakeSource(s) PROVE BuildInv'
  <2>a. /\ \A t \in Sources \ {s} : disk'[t] = disk[t] /\ revision'[t] = revision[t]
        /\ disk'[s] = head[s] /\ revision'[s] = head[s] /\ UNCHANGED head
    BY <1>0, <1>7 DEF TypeInv, TypeOK, TakeSource
  <2>b. head[s] <= head[s] /\ head[s] >= head[s]
    BY <1>0, SourceValues DEF TypeInv
  <2>c. CopyNotOlder'
    BY <2>a, <2>b, CopyKept DEF BuildInv
  <2>d. \A t \in Sources : revision'[t] >= revision[t]
    <3>1. revision[s] <= head[s] /\ \A t \in Sources : revision[t] \in Nat
      BY <1>0, SourceValues DEF BuildInv, TypeInv, CopyNotOlder
    <3>2. revision'[s] >= revision[s]
      BY <1>0, <2>a, <3>1, SourceValues DEF TypeInv
    <3>3. \A t \in Sources \ {s} : revision'[t] >= revision[t]
      BY <2>a, <3>1
    <3> QED  BY <3>2, <3>3
  <2>1. CopyNotOlder' /\ \A t \in Sources : revision'[t] >= revision[t]
    BY <2>c, <2>d
  <2>2. BuiltWithinRevision'
    <3>1. SUFFICES ASSUME NEW p \in Projects PROVE mark[p].built <= RevisionOf(p)'
      BY <1>7 DEF BuiltWithinRevision, TakeSource
    <3>2. /\ mark[p].built \in Stamps
          /\ RevisionOf(p) \in Stamps /\ RevisionOf(p)' \in Stamps
      BY <1>0, <1>p, ProjectValues DEF TypeInv, TypeOK, RevisionOf
    <3>3. mark[p].built <= RevisionOf(p) /\ RevisionOf(p) <= RevisionOf(p)'
      BY <1>p, <2>1, <3>2 DEF BuildInv, BuiltWithinRevision, RevisionOf, Stamps
    <3> QED  BY <3>2, <3>3 DEF Stamps
  <2>3. BuildMarksSound' /\ OnlyArchivedDeleted'
    BY <1>7 DEF BuildInv, BuildMarksSound, TakeSource
  <2>4. BuildAnnounced'
    BY <1>0, <1>7 DEF BuildInv, TypeInv, StageOfWork, TakeSource, job
  <2> QED  BY <1>0, <2>1, <2>2, <2>3, <2>4 DEF BuildInv
<1>8. ASSUME NEW s \in Sources, TakeFails(s) PROVE BuildInv'
  <2>a. /\ \A t \in Sources \ {s} : disk'[t] = disk[t]
        /\ disk'[s] \in {head[s], BrokenCopy, disk[s]} /\ UNCHANGED <<head, revision>>
    BY <1>0, <1>8 DEF TypeInv, TypeOK, TakeFails, database
  <2>b. revision[s] <= head[s] /\ (disk[s] \in Commits => disk[s] >= revision[s])
    BY DEF BuildInv, CopyNotOlder
  <2>c. disk'[s] \in Commits => disk'[s] >= revision[s]
    BY <1>0, <2>a, <2>b, SourceValues DEF TypeInv
  <2>1. CopyNotOlder'
    BY <2>a, <2>b, <2>c, CopyKept DEF BuildInv
  <2>2. BuiltWithinRevision' /\ BuildMarksSound' /\ OnlyArchivedDeleted' /\ BuildAnnounced'
    BY <1>8 DEF BuildInv, BuiltWithinRevision, BuildMarksSound, TakeFails, database, job,
                RevisionOf
  <2> QED  BY <1>0, <2>1, <2>2 DEF BuildInv
<1>9. ASSUME NEW s \in Sources, SourceMissing(s) PROVE BuildInv'
  <2>1. \A t \in Sources : archive'[t] = "Normal" => archive[t] = "Normal"
    BY <1>0, <1>9 DEF TypeInv, TypeOK, SourceMissing
  <2> QED  BY <1>0, <1>9, <2>1, BuildsKept DEF BuildInv, SourceMissing, repository, job
<1>10. CASE BeginBuild
  <2>1. \A p \in Projects : mark[p].result = "Not started" => Announced(p)
    BY DEF Announced
  <2>2. building = NoOne
    BY <1>0, <1>10 DEF TypeInv, StageOfWork, BeginBuild
  <2> QED  BY <1>0, <1>10, <2>1, <2>2, BuildsKept
           DEF BuildInv, BeginBuild, repository, database, job, Announced, RevisionOf
<1>11. ASSUME NEW b \in Bundles, VisitBundle(b) PROVE BuildInv'
  BY <1>0, <1>11, BuildsKept
  DEF BuildInv, VisitBundle, repository, database, Announced, RevisionOf
<1>12. ASSUME NEW p \in Projects, StartBuild(p) PROVE BuildInv'
  <2>1. /\ mark'[p].built = mark[p].built
        /\ mark'[p].result \in {mark[p].result, "Not started"}
        /\ seenMark[p].result # "Not started" => mark'[p].result = "Not started"
        /\ seenMark'[p].result = "Not started"
        /\ \A q \in Projects : q # p => mark'[q] = mark[q] /\ seenMark'[q] = seenMark[q]
    BY <1>0, <1>12 DEF TypeInv, TypeOK, StartBuild, Marks
  <2>2. /\ UNCHANGED <<head, disk, binaries, archive, revision, torn>>
        /\ pc = "build" /\ pc' = "build" /\ building' = p
    BY <1>12 DEF StartBuild, repository
  <2>3. BuildAnnounced'
    BY <2>1, <2>2 DEF BuildInv, Announced, RevisionOf
  <2>4. BuiltWithinRevision' /\ BuildMarksSound' /\ CopyNotOlder' /\ OnlyArchivedDeleted'
    BY <2>1, <2>2 DEF BuildInv, BuiltWithinRevision, BuildMarksSound, CopyNotOlder, RevisionOf
  <2> QED  BY <1>0, <2>3, <2>4 DEF BuildInv
<1>13. ASSUME NEW p \in Projects, NEW success \in BOOLEAN, FinishBuild(p, success) PROVE BuildInv'
  <2>1. /\ UNCHANGED <<head, disk, archive, revision, torn, seenMark, pc>>
        /\ pc = "build" /\ building' = NoOne /\ DiskOf(p) \in Commits
    BY <1>0, <1>13, <1>p DEF TypeInv, StageOfWork, FinishBuild, tick
  <2>2. /\ mark'[p].built = RevisionOf(p)
        /\ mark'[p].result = IF success THEN "Done" ELSE "Error"
        /\ \A q \in Projects : q # p => mark'[q] = mark[q]
    BY <1>0, <1>13 DEF TypeInv, TypeOK, FinishBuild
  <2>3. /\ success => binaries'[p] = DiskOf(p)
        /\ \A q \in Projects : q # p => binaries'[q] = binaries[q]
    BY <1>0, <1>13 DEF TypeInv, TypeOK, FinishBuild
  <2>4. DiskOf(p) # 0 /\ DiskOf(p) >= RevisionOf(p) /\ RevisionOf(p) <= RevisionOf(p)
    <3>1. DiskOf(p) >= RevisionOf(p)
      BY <1>p, <2>1 DEF BuildInv, CopyNotOlder, DiskOf, RevisionOf
    <3>2. DiskOf(p) # 0 /\ RevisionOf(p) \in Nat
      BY <1>0, <1>p, <2>1, SourceValues DEF TypeInv, DiskOf, RevisionOf, NoCopy
    <3> QED  BY <3>1, <3>2
  <2>5. BuildAnnounced'
    BY <2>1, <2>2 DEF BuildInv, Announced, RevisionOf
  <2>6. BuiltWithinRevision' /\ CopyNotOlder' /\ OnlyArchivedDeleted'
    BY <2>1, <2>2, <2>4 DEF BuildInv, BuiltWithinRevision, CopyNotOlder, RevisionOf
  <2>7. BuildMarksSound'
    BY <2>1, <2>2, <2>3, <2>4 DEF BuildInv, BuildMarksSound
  <2> QED  BY <1>0, <2>5, <2>6, <2>7 DEF BuildInv
<1>14. ASSUME NEW p \in Projects, BuildThrows(p) PROVE BuildInv'
  <2>1. /\ UNCHANGED <<head, disk, mark, archive, revision, seenMark, pc>>
        /\ pc = "build" /\ building' = NoOne /\ building = p
    BY <1>0, <1>14, <1>p DEF TypeInv, StageOfWork, BuildThrows, database, tick
  <2>2. Announced(p)
    BY <1>p, <2>1 DEF BuildInv
  <2>3. BuildMarksSound'
    <3>1. CASE DiskOf(p) \in Commits
      BY <1>14, <2>1, <2>2, <3>1, BreakOffSound DEF BuildThrows
    <3>2. CASE DiskOf(p) \notin Commits
      BY <1>14, <2>1, <3>2 DEF BuildInv, BuildMarksSound, BuildThrows
    <3> QED  BY <3>1, <3>2
  <2> QED  BY <1>0, <2>1, <2>3
           DEF BuildInv, CopyNotOlder, BuiltWithinRevision, Announced, RevisionOf
<1>15. CASE BeginPack
  BY <1>0, <1>15, BuildsKept DEF BuildInv, BeginPack, repository, database, job
<1>16. ASSUME NEW b \in Bundles, StartPackage(b) PROVE BuildInv'
  BY <1>0, <1>16, BuildsKept DEF BuildInv, StartPackage, repository, database
<1>17. ASSUME NEW p \in Projects, PackProject(p) PROVE BuildInv'
  BY <1>0, <1>17, BuildsKept DEF BuildInv, PackProject, database, tick
<1>18. CASE SavePackage
  BY <1>0, <1>18, BuildsKept DEF BuildInv, SavePackage, repository, tick
<1>19. CASE DeleteParcels
  BY <1>0, <1>19, BuildsKept DEF BuildInv, DeleteParcels, database, tick, job
<1>20. CASE MarkPackaged
  <2>1. \A p \in Projects : mark'[p].built = mark[p].built /\ mark'[p].result = mark[p].result
    BY <1>0, <1>20 DEF TypeInv, TypeOK, MarkPackaged, Packaged, Marks
  <2> QED  BY <1>0, <1>20, <2>1, BuildsKept DEF BuildInv, MarkPackaged, repository, tick
<1>21. CASE PackThrows
  <2>1. building = NoOne /\ pc # "archive"
    BY <1>0, <1>21 DEF TypeInv, StageOfWork, PackThrows
  <2> QED  BY <1>0, <1>21, <2>1, BuildsKept DEF BuildInv, PackThrows, repository, database, tick
<1>22. CASE EndTick
  <2>1. building = NoOne
    BY <1>0, <1>22 DEF TypeInv, StageOfWork, EndTick
  <2> QED  BY <1>0, <1>22, <2>1, BuildsKept
           DEF BuildInv, EndTick, ForgetTick, repository, database, job
<1>23. CASE RestartServer
  <2>1. /\ UNCHANGED <<head, disk, mark, archive, revision>>
        /\ pc' = "idle" /\ building' = NoOne
    BY <1>23 DEF RestartServer, ForgetTick, database
  <2>2. BuildMarksSound'
    <3>1. CASE building = NoOne \/ DiskOf(building) \notin Commits
      BY <1>23, <2>1, <3>1 DEF BuildInv, BuildMarksSound, RestartServer
    <3>2. CASE building # NoOne /\ DiskOf(building) \in Commits
      <4>1. building \in Projects /\ Announced(building)
        BY <1>0, <3>2 DEF BuildInv, TypeInv, TypeOK, StageOfWork
      <4> QED  BY <1>23, <2>1, <3>2, <4>1, BreakOffSound DEF RestartServer
    <3> QED  BY <3>1, <3>2
  <2> QED  BY <1>0, <2>1, <2>2 DEF BuildInv, CopyNotOlder, BuiltWithinRevision, RevisionOf
<1>24. CASE UNCHANGED vars
  BY <1>0, <1>24, BuildsKept
  DEF BuildInv, vars, repository, database, tick, job, Announced, RevisionOf
<1> QED
  BY <1>1, <1>2, <1>3, <1>4, <1>5, <1>6, <1>7, <1>8, <1>9, <1>10, <1>11, <1>12, <1>13, <1>14,
     <1>15, <1>16, <1>17, <1>18, <1>19, <1>20, <1>21, <1>22, <1>23, <1>24, Zenon
  DEF Next, TimerThread

\* A build recorded as Done has complete output of its revision or a later commit, except after
\* a second build in the same tick that was broken off.
THEOREM PipelineBuildMarksSound == Spec => []BuildMarksSound
<1>1. Spec => []BuildInv
  BY BuildsInit, BuildsNext, PTL DEF Spec
<1> QED  BY <1>1, PTL DEF BuildInv

-----------------------------------------------------------------------------
(***************************************************************************)
(* PackagesMoveForward.  A build output that the tick relies on is         *)
(* complete: it was when the tick began, and a project that is built in    *)
(* between says so in the context of the tick.  And nothing that a package *)
(* or a package file holds is ever newer than the working copy or the      *)
(* build output: a file left behind by a failed attempt, which is taken as *)
(* it is, has the current revision, and no package was made since from     *)
(* anything else.                                                          *)
(***************************************************************************)
Packing == pc \in {"pack", "clean", "mark"}

\* What the tick takes for built is complete, also when the source was archived in between.
SeenComplete ==
    \A p \in Projects : (SourceOf[p] \in seenNormal /\ p \notin torn) =>
        /\ pc = "take" /\ mark[p].result = "Done" => binaries[p] # 0
        /\ (pc = "build" \/ Packing) /\ seenMark[p].result = "Done" =>
               binaries[p] # 0 /\ building # p

ReadyToPack ==
    /\ Packing => \A b \in (todo \cup {bundle}) \cap Bundles : \A p \in ProjectsOf[b] :
           /\ SourceOf[p] \in seenNormal
           /\ KindOf[p] = "zip" \/ seenMark[p].result = "Done"
    /\ (pc = "pack" /\ bundle # NoOne) => queue \subseteq ProjectsOf[bundle]

\* c is no newer than what a package made now would hold.
NotAhead(p, c) ==
    /\ c <= head[SourceOf[p]]
    /\ DiskOf(p) \in Commits => c <= DiskOf(p)
    /\ (KindOf[p] # "zip" /\ binaries[p] # 0) => c <= binaries[p]

NothingAhead(p) ==
    /\ NotAhead(p, parcel[p].content)
    /\ \A b \in Bundles : NotAhead(p, package[b][p].content)

CopyWithinHead ==
    /\ \A s \in Sources : disk[s] \in Commits => disk[s] <= head[s]
    /\ \A p \in Projects : /\ binaries[p] <= head[SourceOf[p]]
                           /\ DiskOf(p) \in Commits => binaries[p] <= DiskOf(p)

\* The package file of p is as good as anything packaged before.
Forward(p) ==
    p \notin torn =>
        /\ parcel[p].content # 0
        /\ \A b \in Bundles : package[b][p].content <= parcel[p].content

ParcelsForward ==
    \A p \in Projects :
        /\ parcel[p].revision <= RevisionOf(p)
        /\ IsPackable(p) /\ HasParcel(p) => Forward(p)

DraftFromParcels ==
    /\ pc \in {"clean", "mark"} => draft = NoDraft
    /\ \A p \in Projects : draft[p] \in {NoEntry, parcel[p]}
    /\ (pc = "pack" /\ bundle # NoOne) =>
           \A p \in ProjectsOf[bundle] \ queue : IsPackable(p) => draft[p] = parcel[p] /\ Forward(p)

ForwardInv ==
    /\ BuildInv
    /\ SeenComplete
    /\ ReadyToPack
    /\ CopyWithinHead
    /\ \A p \in Projects : NothingAhead(p)
    /\ ParcelsForward
    /\ DraftFromParcels

LEMMA ForwardInit == Init => ForwardInv
<1> SUFFICES ASSUME Init PROVE ForwardInv
    OBVIOUS
<1>1. BuildInv
  BY BuildsInit
<1>2. SeenComplete /\ ReadyToPack
  BY DEF Init, SeenComplete, ReadyToPack, Packing
<1>3. /\ \A p \in Projects : /\ parcel[p] = NoEntry /\ draft[p] = NoEntry /\ binaries[p] = 0
                             /\ SourceOf[p] \in Sources
      /\ \A b \in Bundles, p \in Projects : package[b][p] = NoEntry
      /\ \A s \in Sources : head[s] = 1 /\ disk[s] = NoCopy /\ revision[s] = 0
      /\ NoCopy \notin Commits
  BY PipelineConstants DEF Init, NoDraft, NoCopy, Commits
<1>4. \A p \in Projects : DiskOf(p) \notin Commits /\ head[SourceOf[p]] = 1 /\ RevisionOf(p) = 0
  BY <1>3 DEF DiskOf, RevisionOf
<1>5. CopyWithinHead /\ \A p \in Projects : NothingAhead(p)
  BY <1>3, <1>4 DEF CopyWithinHead, NothingAhead, NotAhead, NoEntry
<1>6. ParcelsForward
  BY <1>3, <1>4 DEF ParcelsForward, HasParcel, NoEntry
<1>7. DraftFromParcels
  BY <1>3 DEF Init, DraftFromParcels
<1> QED  BY <1>1, <1>2, <1>5, <1>6, <1>7 DEF ForwardInv

LEMMA SeenCompleteNext == ForwardInv /\ [Next]_vars => SeenComplete'
<1> SUFFICES ASSUME ForwardInv, [Next]_vars PROVE SeenComplete'
    OBVIOUS
<1>0. /\ TypeOK /\ TypeOK' /\ StageOfWork /\ SeenComplete /\ BuildMarksSound
      /\ \A p \in Projects : p # NoOne /\ SourceOf[p] \in Sources
  BY PipelineTypeNext, PipelineConstants DEF ForwardInv, BuildInv, TypeInv
<1>a. ASSUME UNCHANGED <<seenNormal, torn, mark, binaries, seenMark, building>>, pc' = pc
      PROVE  SeenComplete'
  BY <1>0, <1>a DEF SeenComplete, Packing
<1>b. ASSUME UNCHANGED <<seenNormal, torn, binaries, seenMark, building>>,
             pc = "build" \/ Packing, Packing'
      PROVE  SeenComplete'
  BY <1>0, <1>b DEF SeenComplete, Packing
<1>c. ASSUME pc' \in {"idle", "archive"} PROVE SeenComplete'
  BY <1>c DEF SeenComplete, Packing
<1>d. ASSUME NEW p \in Projects, building = p, building' = NoOne,
             UNCHANGED <<pc, seenNormal, seenMark>>, torn \subseteq torn',
             \A q \in Projects : q # p => binaries'[q] = binaries[q]
      PROVE  SeenComplete'
  BY <1>0, <1>d DEF SeenComplete, StageOfWork, Packing
<1>1. ASSUME NEW s \in Sources, Commit(s) \/ ArchiveVersion(s) \/ TakeSource(s) \/ TakeFails(s)
                                  \/ SourceMissing(s)
      PROVE  SeenComplete'
  BY <1>1, <1>a DEF Commit, ArchiveVersion, TakeSource, TakeFails, SourceMissing, repository,
                    database, tick, job
<1>2. CASE StartTick \/ EndTick \/ RestartServer
  BY <1>2, <1>c DEF StartTick, EndTick, RestartServer, ForgetTick
<1>3. ASSUME NEW s \in Sources, ArchiveSource(s) \/ ArchiveFails(s) PROVE SeenComplete'
  BY <1>3, <1>c DEF ArchiveSource, ArchiveFails
<1>4. CASE BeginTake
  BY <1>0, <1>4 DEF SeenComplete, BuildMarksSound, BeginTake, repository, database, Packing
<1>5. CASE BeginBuild
  <2>1. /\ pc = "take" /\ pc' = "build" /\ seenMark' = mark
        /\ UNCHANGED <<binaries, seenNormal, torn, building>>
    BY <1>5 DEF BeginBuild, repository, job
  <2> QED  BY <1>0, <2>1 DEF SeenComplete, StageOfWork, Packing
<1>6. ASSUME NEW b \in Bundles, VisitBundle(b) \/ StartPackage(b) PROVE SeenComplete'
  BY <1>6, <1>a DEF VisitBundle, StartPackage, repository, database
<1>7. ASSUME NEW p \in Projects, StartBuild(p) PROVE SeenComplete'
  <2>1. /\ pc = "build" /\ pc' = "build" /\ building' = p
        /\ UNCHANGED <<binaries, seenNormal, torn>>
    BY <1>7 DEF StartBuild, repository
  <2>2. \A q \in Projects : IF q = p THEN seenMark'[q].result = "Not started"
                                     ELSE seenMark'[q] = seenMark[q]
    <3>1. /\ seenMark' = [seenMark EXCEPT ![p].result = "Not started"]
          /\ seenMark \in [Projects -> Marks]
      BY <1>0, <1>7 DEF TypeOK, StartBuild
    <3> QED  BY <3>1 DEF Marks
  <2> QED  BY <1>0, <2>1, <2>2 DEF SeenComplete, Packing
<1>8. ASSUME NEW p \in Projects, NEW success \in BOOLEAN, FinishBuild(p, success)
      PROVE  SeenComplete'
  BY <1>0, <1>8, <1>d DEF TypeOK, FinishBuild, tick
<1>9. ASSUME NEW p \in Projects, BuildThrows(p) PROVE SeenComplete'
  <2>1. /\ \A q \in Projects : q # p => binaries'[q] = binaries[q]
        /\ torn \subseteq torn'
    BY <1>0, <1>9 DEF TypeOK, BuildThrows, BreakOff
  <2> QED  BY <1>9, <1>d, <2>1 DEF BuildThrows, tick
<1>10. CASE BeginPack \/ SavePackage \/ DeleteParcels \/ MarkPackaged
  BY <1>10, <1>b DEF BeginPack, SavePackage, DeleteParcels, MarkPackaged, repository, tick, job,
                     Packing
<1>11. ASSUME NEW p \in Projects, PackProject(p) PROVE SeenComplete'
  BY <1>11, <1>a DEF PackProject, database, tick
<1>12. CASE PackThrows
  BY <1>0, <1>12, <1>b DEF StageOfWork, PackThrows, repository, tick, Packing
<1>13. CASE UNCHANGED vars
  BY <1>13, <1>a DEF vars, repository, database, tick, job
<1> QED
  BY <1>1, <1>2, <1>3, <1>4, <1>5, <1>6, <1>7, <1>8, <1>9, <1>10, <1>11, <1>12, <1>13, Zenon
  DEF Next, TimerThread

LEMMA ReadyToPackNext == ForwardInv /\ [Next]_vars => ReadyToPack'
<1> SUFFICES ASSUME ForwardInv, [Next]_vars PROVE ReadyToPack'
    OBVIOUS
<1>0. TypeOK /\ StageOfWork /\ ReadyToPack /\ NoOne \notin Bundles
  BY PipelineConstants DEF ForwardInv, BuildInv, TypeInv
<1>a. ASSUME UNCHANGED <<pc, todo, bundle, seenNormal, seenMark, queue>> PROVE ReadyToPack'
  BY <1>0, <1>a DEF ReadyToPack, Packing
<1>b. ASSUME pc' \in {"idle", "archive", "take", "build"} PROVE ReadyToPack'
  BY <1>b DEF ReadyToPack, Packing
<1>c. ASSUME Packing, UNCHANGED <<todo, seenNormal, seenMark>>, bundle' \in {bundle, NoOne},
             (pc' = "pack" /\ bundle' # NoOne) => pc = "pack" /\ queue' \subseteq queue
      PROVE  ReadyToPack'
  BY <1>0, <1>c DEF ReadyToPack, Packing
<1>1. ASSUME NEW s \in Sources, Commit(s) \/ ArchiveVersion(s) PROVE ReadyToPack'
  BY <1>1, <1>a DEF Commit, ArchiveVersion, tick, job
<1>2. CASE StartTick \/ EndTick \/ RestartServer \/ BeginTake \/ BeginBuild
  BY <1>2, <1>b DEF StartTick, EndTick, RestartServer, ForgetTick, BeginTake, BeginBuild
<1>3. ASSUME NEW s \in Sources, ArchiveSource(s) \/ ArchiveFails(s) \/ TakeSource(s) \/ TakeFails(s)
                                  \/ SourceMissing(s)
      PROVE  ReadyToPack'
  BY <1>3, <1>b DEF ArchiveSource, ArchiveFails, TakeSource, TakeFails, SourceMissing
<1>4. ASSUME NEW b \in Bundles, VisitBundle(b) PROVE ReadyToPack'
  BY <1>4, <1>b DEF VisitBundle
<1>5. ASSUME NEW p \in Projects, StartBuild(p) PROVE ReadyToPack'
  BY <1>5, <1>b DEF StartBuild
<1>6. ASSUME NEW p \in Projects, NEW success \in BOOLEAN, FinishBuild(p, success) \/ BuildThrows(p)
      PROVE  ReadyToPack'
  BY <1>0, <1>6, <1>b, PipelineConstants DEF StageOfWork, FinishBuild, BuildThrows
<1>7. CASE BeginPack
  <2>1. /\ pc = "build" /\ pc' = "pack" /\ todo' = ToPack
        /\ UNCHANGED <<bundle, seenNormal, seenMark>>
    BY <1>7 DEF BeginPack, job
  <2> QED  BY <1>0, <2>1 DEF ReadyToPack, StageOfWork, ToPack
<1>8. ASSUME NEW b \in Bundles, StartPackage(b) PROVE ReadyToPack'
  <2>1. /\ pc = "pack" /\ pc' = "pack" /\ b \in todo /\ todo' = todo \ {b} /\ bundle' = b
        /\ queue' = ProjectsOf[b] /\ UNCHANGED <<seenNormal, seenMark>>
    BY <1>8 DEF StartPackage
  <2> QED  BY <1>0, <2>1 DEF ReadyToPack, Packing
<1>9. ASSUME NEW p \in Projects, PackProject(p) PROVE ReadyToPack'
  BY <1>9, <1>c DEF PackProject, tick, Packing
<1>10. CASE SavePackage \/ DeleteParcels \/ MarkPackaged
  BY <1>10, <1>c DEF SavePackage, DeleteParcels, MarkPackaged, tick, job, Packing
<1>11. CASE PackThrows
  BY <1>0, <1>11, <1>c DEF StageOfWork, PackThrows, tick, Packing
<1>12. CASE UNCHANGED vars
  BY <1>12, <1>a DEF vars, tick, job
<1> QED
  BY <1>1, <1>2, <1>3, <1>4, <1>5, <1>6, <1>7, <1>8, <1>9, <1>10, <1>11, <1>12, Zenon
  DEF Next, TimerThread

Levels == CopyWithinHead /\ \A p \in Projects : NothingAhead(p)

\* The numbers that belong to one project.
LEMMA LevelValues ==
    ASSUME TypeOK, NEW p \in Projects
    PROVE  /\ SourceOf[p] \in Sources
           /\ head[SourceOf[p]] \in Nat /\ DiskOf(p) \in Nat /\ binaries[p] \in Nat
           /\ RevisionOf(p) \in Nat
           /\ parcel[p].content \in Nat /\ parcel[p].revision \in Nat
           /\ draft[p].content \in Nat
           /\ \A b \in Bundles : package[b][p].content \in Nat
           /\ 0 \notin Commits
<1>1. SourceOf[p] \in Sources
  BY PipelineConstants
<1>2. /\ parcel[p] \in Entries /\ draft[p] \in Entries
      /\ \A b \in Bundles : package[b][p] \in Entries
      /\ binaries[p] \in Stamps
  BY DEF TypeOK
<1>3. Stamps \subseteq Nat /\ 0 \notin Commits
  BY PipelineConstants DEF Stamps, Commits
<1>4. head[SourceOf[p]] \in Nat /\ DiskOf(p) \in Nat /\ RevisionOf(p) \in Nat
  BY <1>1, SourceValues DEF DiskOf, RevisionOf
<1> QED  BY <1>1, <1>2, <1>3, <1>4 DEF Entries

\* Repositories, working copies and build outputs only move forward, or vanish.
CopiesMoveForward ==
    /\ \A s \in Sources : /\ head[s] <= head'[s]
                          /\ disk'[s] \in {disk[s], head'[s]} \/ disk'[s] \notin Commits
    /\ \A p \in Projects : \/ binaries'[p] \in {binaries[p], 0}
                           \/ binaries'[p] = DiskOf(p) /\ DiskOf(p) \in Commits /\ DiskOf(p)' = DiskOf(p)

LEMMA LevelsForward ==
    ASSUME Levels, TypeOK, TypeOK', CopiesMoveForward, UNCHANGED <<parcel, package>>
    PROVE  Levels'
<1>1. ASSUME NEW p \in Projects
      PROVE  /\ head[SourceOf[p]] \in Nat /\ head'[SourceOf[p]] \in Nat
             /\ DiskOf(p) \in Nat /\ DiskOf(p)' \in Nat
             /\ binaries[p] \in Nat /\ binaries'[p] \in Nat
             /\ SourceOf[p] \in Sources /\ 0 \notin Commits
  BY LevelValues, PipelineConstants DEF TypeOK, DiskOf, Commits, Stamps, BrokenCopy
<1>2. ASSUME NEW p \in Projects
      PROVE  /\ head[SourceOf[p]] <= head'[SourceOf[p]]
             /\ DiskOf(p)' \in Commits => DiskOf(p)' = DiskOf(p) \/ DiskOf(p)' = head'[SourceOf[p]]
             /\ \/ binaries'[p] = binaries[p] \/ binaries'[p] = 0
                \/ binaries'[p] = DiskOf(p) /\ DiskOf(p) \in Commits /\ DiskOf(p)' = DiskOf(p)
             /\ DiskOf(p) \in Commits => DiskOf(p) <= head[SourceOf[p]]
             /\ binaries[p] <= head[SourceOf[p]]
             /\ DiskOf(p) \in Commits => binaries[p] <= DiskOf(p)
  BY <1>1 DEF CopiesMoveForward, Levels, CopyWithinHead, DiskOf
<1>3. ASSUME NEW p \in Projects, NEW c \in Nat, NotAhead(p, c) PROVE NotAhead(p, c)'
  <2> USE DEF NotAhead
  <2>1. c <= head'[SourceOf[p]] /\ (DiskOf(p)' \in Commits => c <= DiskOf(p)')
    BY <1>1, <1>2, <1>3
  <2>2. (KindOf[p] # "zip" /\ binaries'[p] # 0) => c <= binaries'[p]
    BY <1>1, <1>2, <1>3
  <2> QED  BY <2>1, <2>2
<1>4. ASSUME NEW p \in Projects PROVE NothingAhead(p)'
  <2>1. NotAhead(p, parcel[p].content) /\ \A b \in Bundles : NotAhead(p, package[b][p].content)
    BY DEF Levels, NothingAhead
  <2>2. parcel[p].content \in Nat /\ \A b \in Bundles : package[b][p].content \in Nat
    BY LevelValues
  <2>3. NotAhead(p, parcel[p].content)'
    BY <1>3, <2>1, <2>2 DEF NotAhead
  <2>4. ASSUME NEW b \in Bundles PROVE NotAhead(p, package[b][p].content)'
    BY <1>3, <2>1, <2>2 DEF NotAhead
  <2> QED  BY <2>1, <2>2, <2>3, <2>4 DEF NothingAhead
<1>5. CopyWithinHead'
  <2>1. ASSUME NEW s \in Sources, disk'[s] \in Commits PROVE disk'[s] <= head'[s]
    <3>1. /\ head[s] \in Nat /\ head'[s] \in Nat /\ disk[s] \in Nat
      BY SourceValues DEF TypeOK, Commits
    <3>2. head[s] <= head'[s] /\ disk'[s] \in {disk[s], head'[s]}
      BY <2>1 DEF CopiesMoveForward
    <3>3. disk[s] \in Commits => disk[s] <= head[s]
      BY DEF Levels, CopyWithinHead
    <3> QED  BY <2>1, <3>1, <3>2, <3>3
  <2>2. ASSUME NEW p \in Projects
        PROVE  /\ binaries'[p] <= head'[SourceOf[p]]
               /\ DiskOf(p)' \in Commits => binaries'[p] <= DiskOf(p)'
    BY <1>1, <1>2
  <2> QED  BY <2>1, <2>2 DEF CopyWithinHead
<1> QED  BY <1>4, <1>5 DEF Levels

\* What a packager finds in the working copy or the build output is not ahead of them, and with
\* a build output that is complete nothing packaged before is ahead of it.
LEMMA NewContent ==
    ASSUME Levels, TypeOK, NEW p \in Projects, IsPackable(p), DiskOf(p) \in Commits
    PROVE  /\ ContentOf(p) \in Nat
           /\ NotAhead(p, ContentOf(p))
           /\ KindOf[p] = "zip" \/ binaries[p] # 0 =>
                 /\ ContentOf(p) # 0
                 /\ \A b \in Bundles : package[b][p].content <= ContentOf(p)
<1>1. /\ head[SourceOf[p]] \in Nat /\ DiskOf(p) \in Nat /\ binaries[p] \in Nat
      /\ SourceOf[p] \in Sources /\ DiskOf(p) # 0
      /\ \A b \in Bundles : package[b][p].content \in Nat
  BY LevelValues
<1>2. /\ DiskOf(p) <= head[SourceOf[p]]
      /\ binaries[p] <= head[SourceOf[p]] /\ binaries[p] <= DiskOf(p)
  BY <1>1 DEF Levels, CopyWithinHead, DiskOf
<1>3. \A b \in Bundles : /\ package[b][p].content <= DiskOf(p)
                         /\ (KindOf[p] # "zip" /\ binaries[p] # 0) =>
                               package[b][p].content <= binaries[p]
  BY DEF Levels, NothingAhead, NotAhead
<1>4. CASE KindOf[p] = "zip"
  <2>1. ContentOf(p) = DiskOf(p)
    BY <1>4 DEF ContentOf
  <2>2. NotAhead(p, ContentOf(p))
    BY <1>1, <1>2, <1>4, <2>1 DEF NotAhead
  <2> QED  BY <1>1, <1>3, <2>1, <2>2
<1>5. CASE KindOf[p] # "zip"
  <2>1. ContentOf(p) = binaries[p]
    BY <1>5 DEF ContentOf
  <2>2. NotAhead(p, ContentOf(p))
    BY <1>1, <1>2, <2>1 DEF NotAhead
  <2> QED  BY <1>1, <1>3, <1>5, <2>1, <2>2
<1> QED  BY <1>4, <1>5

LEMMA LevelsNext == ForwardInv /\ [Next]_vars => Levels'
<1> SUFFICES ASSUME ForwardInv, [Next]_vars PROVE Levels'
    OBVIOUS
<1>0. TypeOK /\ TypeOK' /\ StageOfWork /\ Levels
  BY PipelineTypeNext DEF ForwardInv, BuildInv, TypeInv, Levels
<1>v. /\ \A s \in Sources : /\ head[s] \in Nat /\ head[s] <= head[s]
                            /\ NoCopy \notin Commits /\ BrokenCopy \notin Commits
      /\ \A p \in Projects : SourceOf[p] \in Sources
  BY <1>0, SourceValues, PipelineConstants
<1>a. ASSUME UNCHANGED <<head, disk, binaries, parcel, package>> PROVE Levels'
  BY <1>0, <1>v, <1>a, LevelsForward DEF CopiesMoveForward
<1>1. ASSUME NEW s \in Sources, Commit(s) PROVE Levels'
  <2>1. /\ \A t \in Sources : head[t] <= head'[t]
        /\ UNCHANGED <<disk, binaries, parcel, package>>
    BY <1>0, <1>v, <1>1 DEF TypeOK, Commit, database
  <2> QED  BY <1>0, <2>1, LevelsForward DEF CopiesMoveForward
<1>2. ASSUME NEW s \in Sources, ArchiveSource(s) \/ ArchiveFails(s) PROVE Levels'
  <2>1. /\ \A t \in Sources : disk'[t] = disk[t] \/ disk'[t] \in {NoCopy, BrokenCopy}
        /\ \A p \in Projects : binaries'[p] \in {binaries[p], 0}
        /\ UNCHANGED <<head, parcel, package>>
    BY <1>0, <1>2 DEF TypeOK, ArchiveSource, ArchiveFails, database
  <2>2. CopiesMoveForward
    BY <1>v, <2>1 DEF CopiesMoveForward
  <2> QED  BY <1>0, <2>1, <2>2, LevelsForward
<1>3. ASSUME NEW s \in Sources, TakeSource(s) \/ TakeFails(s) PROVE Levels'
  <2>1. /\ \A t \in Sources : disk'[t] \in {disk[t], head[t], BrokenCopy}
        /\ UNCHANGED <<head, binaries, parcel, package>>
    BY <1>0, <1>3 DEF TypeOK, TakeSource, TakeFails, database
  <2>2. CopiesMoveForward
    BY <1>v, <2>1 DEF CopiesMoveForward
  <2> QED  BY <1>0, <2>1, <2>2, LevelsForward
<1>4. ASSUME NEW p \in Projects, UNCHANGED <<head, disk, parcel, package>>,
             NEW left \in {binaries[p], 0} \cup ({DiskOf(p)} \cap Commits),
             binaries' = [binaries EXCEPT ![p] = left]
      PROVE  Levels'
  <2>1. \A q \in Projects : \/ binaries'[q] \in {binaries[q], 0}
                            \/ binaries'[q] = DiskOf(q) /\ DiskOf(q) \in Commits
    BY <1>0, <1>4 DEF TypeOK
  <2>2. CopiesMoveForward
    BY <1>v, <1>4, <2>1 DEF CopiesMoveForward, DiskOf
  <2> QED  BY <1>0, <1>4, <2>2, LevelsForward
<1>5. ASSUME NEW p \in Projects, NEW success \in BOOLEAN, FinishBuild(p, success) PROVE Levels'
  <2>1. (IF success THEN DiskOf(p) ELSE 0) \in {binaries[p], 0} \cup ({DiskOf(p)} \cap Commits)
    BY <1>5 DEF FinishBuild
  <2> QED  BY <1>4, <1>5, <2>1 DEF FinishBuild
<1>6. ASSUME NEW p \in Projects, BuildThrows(p) PROVE Levels'
  <2>1. UNCHANGED <<head, disk, parcel, package>>
    BY <1>6 DEF BuildThrows, database
  <2> QED  BY <1>a, <1>4, <1>6, <2>1 DEF BuildThrows, BreakOff
<1>7. CASE RestartServer
  <2>1. UNCHANGED <<head, disk, parcel, package>>
    BY <1>7 DEF RestartServer, database
  <2>2. building # NoOne => building \in Projects
    BY <1>0 DEF TypeOK
  <2> QED  BY <1>a, <1>4, <1>7, <2>1, <2>2 DEF RestartServer, BreakOff
<1>8. ASSUME UNCHANGED <<head, disk, binaries>>,
             \A p \in Projects :
                 /\ \/ parcel'[p].content \in {0, parcel[p].content}
                    \/ parcel'[p].content \in Nat /\ NotAhead(p, parcel'[p].content)
                 /\ \A b \in Bundles :
                        package'[b][p].content \in {0, package[b][p].content, parcel[p].content}
      PROVE  Levels'
  <2>1. ASSUME NEW p \in Projects PROVE NotAhead(p, 0)
    BY <2>1, <1>0, LevelValues DEF NotAhead
  <2>2. ASSUME NEW p \in Projects, NEW c, NotAhead(p, c) PROVE NotAhead(p, c)'
    BY <1>8, <2>2 DEF NotAhead, DiskOf
  <2>3. ASSUME NEW p \in Projects PROVE NothingAhead(p)'
    <3>1. NotAhead(p, parcel[p].content) /\ \A b \in Bundles : NotAhead(p, package[b][p].content)
      BY <1>0 DEF Levels, NothingAhead
    <3>2. NotAhead(p, parcel'[p].content)
      BY <1>8, <2>1, <3>1
    <3>3. \A b \in Bundles : NotAhead(p, package'[b][p].content)
      BY <1>8, <2>1, <3>1
    <3>4. NotAhead(p, parcel[p].content)'
      BY <1>8, <3>2 DEF NotAhead, DiskOf
    <3>5. \A b \in Bundles : NotAhead(p, package[b][p].content)'
      BY <1>8, <3>3 DEF NotAhead, DiskOf
    <3> QED  BY <3>4, <3>5 DEF NothingAhead
  <2> QED  BY <1>0, <1>8, <2>3 DEF Levels, CopyWithinHead, DiskOf
<1>9. ASSUME NEW p \in Projects, PackProject(p) PROVE Levels'
  <2>1. UNCHANGED <<head, disk, binaries, package>>
    BY <1>9 DEF PackProject, database
  <2>2. CASE ~IsPackable(p) \/ HasParcel(p)
    BY <1>9, <1>a, <2>1, <2>2 DEF PackProject
  <2>3. CASE IsPackable(p) /\ ~HasParcel(p)
    <3>1. /\ parcel' = [parcel EXCEPT ![p] = [revision |-> RevisionOf(p), content |-> ContentOf(p)]]
          /\ DiskOf(p) \in Commits
      BY <1>9, <2>3 DEF PackProject, CanPack
    <3>2. ContentOf(p) \in Nat /\ NotAhead(p, ContentOf(p))
      BY <1>0, <2>3, <3>1, NewContent
    <3>3. \A q \in Projects : parcel'[q].content = parcel[q].content
                              \/ (parcel'[q].content \in Nat /\ NotAhead(q, parcel'[q].content))
      BY <1>0, <3>1, <3>2 DEF TypeOK
    <3> QED  BY <1>8, <2>1, <3>3
  <2> QED  BY <2>2, <2>3
<1>10. CASE SavePackage
  <2>1. /\ UNCHANGED <<head, disk, binaries, parcel>>
        /\ package' = [package EXCEPT ![bundle] = draft]
    BY <1>10 DEF SavePackage, repository
  <2>2. \A p \in Projects : draft[p].content \in {0, parcel[p].content}
    BY DEF ForwardInv, DraftFromParcels, NoEntry
  <2>3. \A p \in Projects, b \in Bundles :
            package'[b][p].content \in {0, package[b][p].content, parcel[p].content}
    BY <1>0, <2>1, <2>2 DEF TypeOK
  <2> QED  BY <1>8, <2>1, <2>3
<1>11. CASE DeleteParcels
  <2>1. /\ UNCHANGED <<head, disk, binaries, package>>
        /\ \A p \in Projects : parcel'[p].content \in {0, parcel[p].content}
    BY <1>11 DEF DeleteParcels, database, NoEntry
  <2> QED  BY <1>8, <2>1
<1>12. ASSUME NEW s \in Sources, ArchiveVersion(s) \/ SourceMissing(s) PROVE Levels'
  BY <1>12, <1>a DEF ArchiveVersion, SourceMissing, repository
<1>13. ASSUME NEW b \in Bundles, VisitBundle(b) \/ StartPackage(b) PROVE Levels'
  BY <1>13, <1>a DEF VisitBundle, StartPackage, repository, database
<1>14. ASSUME NEW p \in Projects, StartBuild(p) PROVE Levels'
  BY <1>14, <1>a DEF StartBuild, repository
<1>15. CASE StartTick \/ BeginTake \/ BeginBuild \/ BeginPack \/ EndTick \/ MarkPackaged \/ PackThrows
  BY <1>15, <1>a DEF StartTick, BeginTake, BeginBuild, BeginPack, EndTick, MarkPackaged, PackThrows,
                     repository, database
<1>16. CASE UNCHANGED vars
  BY <1>16, <1>a DEF vars, repository, database
<1> QED
  BY <1>1, <1>2, <1>3, <1>5, <1>6, <1>7, <1>9, <1>10, <1>11, <1>12, <1>13, <1>14, <1>15, <1>16, Zenon
  DEF Next, TimerThread

\* The package file that a package is made from is as good as anything packaged before.
LEMMA PackedForward ==
    ASSUME ForwardInv, NEW p \in Projects, PackProject(p), IsPackable(p)
    PROVE  Forward(p)' /\ parcel'[p].revision <= RevisionOf(p) /\ draft'[p] = parcel'[p]
<1>1. /\ TypeOK /\ Levels /\ SeenComplete /\ ReadyToPack /\ ParcelsForward
      /\ RevisionOf(p) \in Nat
  BY LevelValues DEF ForwardInv, BuildInv, TypeInv, Levels
<1>2. UNCHANGED <<package, torn>> /\ draft'[p] = parcel'[p]
  BY <1>1 DEF TypeOK, PackProject, database
<1>3. CASE HasParcel(p)
  <2>1. parcel' = parcel
    BY <1>3 DEF PackProject
  <2> QED  BY <1>1, <1>2, <1>3, <2>1 DEF ParcelsForward, Forward
<1>4. CASE ~HasParcel(p)
  <2>1. /\ parcel'[p] = [revision |-> RevisionOf(p), content |-> ContentOf(p)]
        /\ DiskOf(p) \in Commits
    BY <1>1, <1>4 DEF TypeOK, PackProject, CanPack
  <2>2. p \notin torn => KindOf[p] = "zip" \/ binaries[p] # 0
    <3>1. pc = "pack" /\ bundle \in Bundles /\ p \in ProjectsOf[bundle]
      BY <1>1 DEF TypeOK, ReadyToPack, PackProject
    <3>2. SourceOf[p] \in seenNormal /\ (KindOf[p] = "zip" \/ seenMark[p].result = "Done")
      BY <1>1, <3>1 DEF ReadyToPack, Packing
    <3> QED  BY <1>1, <3>1, <3>2 DEF SeenComplete, Packing
  <2>3. p \notin torn => /\ ContentOf(p) # 0
                         /\ \A b \in Bundles : package[b][p].content <= ContentOf(p)
    BY <1>1, <2>1, <2>2, NewContent
  <2>4. RevisionOf(p) <= RevisionOf(p)
    BY <1>1
  <2> QED  BY <1>2, <2>1, <2>3, <2>4 DEF Forward
<1> QED  BY <1>3, <1>4

LEMMA ParcelsForwardNext == ForwardInv /\ [Next]_vars => ParcelsForward'
<1> SUFFICES ASSUME ForwardInv, [Next]_vars PROVE ParcelsForward'
    OBVIOUS
<1>0. /\ TypeOK /\ TypeOK' /\ StageOfWork /\ ParcelsForward
      /\ \A p \in Projects : SourceOf[p] \in Sources
  BY PipelineTypeNext, PipelineConstants DEF ForwardInv, BuildInv, TypeInv
<1>a. ASSUME UNCHANGED <<parcel, package, revision>>, torn \subseteq torn' PROVE ParcelsForward'
  BY <1>0, <1>a DEF ParcelsForward, Forward, HasParcel, RevisionOf, IsPackable
<1>1. ASSUME NEW s \in Sources, TakeSource(s) PROVE ParcelsForward'
  <2>1. /\ UNCHANGED <<parcel, package, torn>>
        /\ \A t \in Sources : revision'[t] = revision[t] \/ (t = s /\ revision'[t] = head[s])
        /\ revision[s] <= head[s] /\ revision[s] \in Nat /\ head[s] \in Nat
    BY <1>0, <1>1, SourceValues DEF TypeOK, TakeSource, ForwardInv, BuildInv, CopyNotOlder
  <2>2. ASSUME NEW p \in Projects
        PROVE  /\ parcel[p].revision <= RevisionOf(p)'
               /\ HasParcel(p)' => HasParcel(p)
    <3>1. /\ parcel[p].revision \in Nat /\ RevisionOf(p) \in Nat
          /\ parcel[p].revision <= RevisionOf(p)
      BY <1>0, LevelValues DEF ParcelsForward
    <3>2. RevisionOf(p)' = RevisionOf(p) \/ (SourceOf[p] = s /\ RevisionOf(p)' = head[s])
      BY <1>0, <2>1 DEF RevisionOf
    <3>3. RevisionOf(p) <= RevisionOf(p)' /\ RevisionOf(p)' \in Nat
      BY <2>1, <3>1, <3>2 DEF RevisionOf
    <3> QED  BY <2>1, <3>1, <3>3 DEF HasParcel
  <2> QED  BY <1>0, <2>1, <2>2 DEF ParcelsForward, Forward, IsPackable
<1>2. ASSUME NEW p \in Projects, FinishBuild(p, TRUE) \/ FinishBuild(p, FALSE) \/ BuildThrows(p)
      PROVE  ParcelsForward'
  BY <1>2, <1>a DEF FinishBuild, BuildThrows, BreakOff, database
<1>3. CASE RestartServer
  BY <1>3, <1>a DEF RestartServer, BreakOff, database
<1>4. ASSUME NEW p \in Projects, PackProject(p) PROVE ParcelsForward'
  <2>1. UNCHANGED <<package, revision, torn>>
    BY <1>4 DEF PackProject, database
  <2>2. CASE ~IsPackable(p)
    BY <1>4, <1>a, <2>1, <2>2 DEF PackProject
  <2>3. CASE IsPackable(p)
    <3>1. \A q \in Projects : q # p => parcel'[q] = parcel[q]
      BY <1>0, <1>4, <2>3 DEF TypeOK, PackProject
    <3>2. Forward(p)' /\ parcel'[p].revision <= RevisionOf(p)
      BY <1>4, <2>3, PackedForward
    <3> QED  BY <1>0, <2>1, <3>1, <3>2 DEF ParcelsForward, Forward, HasParcel, RevisionOf, IsPackable
  <2> QED  BY <2>2, <2>3
<1>5. CASE SavePackage
  <2>1. /\ UNCHANGED <<parcel, revision, torn>>
        /\ package' = [package EXCEPT ![bundle] = draft]
    BY <1>5 DEF SavePackage, repository
  <2>2. \A p \in Projects : draft[p].content = 0 \/ draft[p].content = parcel[p].content
    BY DEF ForwardInv, DraftFromParcels, NoEntry
  <2>3. ASSUME NEW p \in Projects, Forward(p) PROVE Forward(p)'
    <3>1. SUFFICES ASSUME p \notin torn, NEW b \in Bundles
                   PROVE  package'[b][p].content <= parcel[p].content
      BY <2>1, <2>3 DEF Forward
    <3>2. package'[b][p] = package[b][p] \/ package'[b][p] = draft[p]
      BY <1>0, <2>1 DEF TypeOK
    <3>3. parcel[p].content \in Nat /\ package[b][p].content <= parcel[p].content
      BY <1>0, <2>3, <3>1, LevelValues DEF Forward
    <3> QED  BY <2>2, <3>2, <3>3
  <2> QED  BY <1>0, <2>1, <2>3 DEF ParcelsForward, HasParcel, RevisionOf, IsPackable
<1>6. CASE DeleteParcels
  <2>1. /\ UNCHANGED <<package, revision, torn>>
        /\ \A p \in Projects : parcel'[p] \in {NoEntry, parcel[p]}
    BY <1>6 DEF DeleteParcels, database
  <2>2. ASSUME NEW p \in Projects
        PROVE  parcel'[p].revision <= RevisionOf(p) /\ (HasParcel(p)' => parcel'[p] = parcel[p])
    BY <1>0, <2>1, LevelValues DEF ParcelsForward, HasParcel, RevisionOf, NoEntry
  <2>3. ASSUME NEW p \in Projects, HasParcel(p)' PROVE HasParcel(p) /\ (Forward(p) => Forward(p)')
    BY <2>1, <2>2, <2>3 DEF HasParcel, RevisionOf, Forward
  <2> QED  BY <1>0, <2>1, <2>2, <2>3 DEF ParcelsForward, RevisionOf, IsPackable
<1>7. ASSUME NEW s \in Sources, Commit(s) \/ ArchiveVersion(s) \/ ArchiveSource(s) \/ ArchiveFails(s)
                                  \/ TakeFails(s) \/ SourceMissing(s)
      PROVE  ParcelsForward'
  BY <1>7, <1>a DEF Commit, ArchiveVersion, ArchiveSource, ArchiveFails, TakeFails, SourceMissing,
                    repository, database
<1>8. ASSUME NEW b \in Bundles, VisitBundle(b) \/ StartPackage(b) PROVE ParcelsForward'
  BY <1>8, <1>a DEF VisitBundle, StartPackage, repository, database
<1>9. ASSUME NEW p \in Projects, StartBuild(p) PROVE ParcelsForward'
  BY <1>9, <1>a DEF StartBuild, repository
<1>10. CASE StartTick \/ BeginTake \/ BeginBuild \/ BeginPack \/ EndTick \/ MarkPackaged \/ PackThrows
  BY <1>10, <1>a DEF StartTick, BeginTake, BeginBuild, BeginPack, EndTick, MarkPackaged, PackThrows,
                     repository, database
<1>11. CASE UNCHANGED vars
  BY <1>11, <1>a DEF vars, repository, database
<1>12. ASSUME NEW p \in Projects, NEW success \in BOOLEAN, FinishBuild(p, success)
       PROVE  ParcelsForward'
  BY <1>2, <1>12
<1> QED
  BY <1>1, <1>2, <1>3, <1>4, <1>5, <1>6, <1>7, <1>8, <1>9, <1>10, <1>11, <1>12, Zenon
  DEF Next, TimerThread

LEMMA DraftNext == ForwardInv /\ [Next]_vars => DraftFromParcels'
<1> SUFFICES ASSUME ForwardInv, [Next]_vars PROVE DraftFromParcels'
    OBVIOUS
<1>0. /\ TypeOK /\ StageOfWork /\ DraftFromParcels
      /\ \A p \in Projects : p # NoOne
      /\ \A b \in Bundles : b # NoOne
  BY PipelineConstants DEF ForwardInv, BuildInv, TypeInv
<1>p. \A b \in Bundles : ProjectsOf[b] \subseteq Projects
  BY PipelineConstants
<1>a. ASSUME UNCHANGED <<draft, parcel, package, pc, bundle, queue, torn>> PROVE DraftFromParcels'
  BY <1>0, <1>a DEF DraftFromParcels, Forward, IsPackable
<1>b. ASSUME UNCHANGED <<draft, parcel>>, pc' \notin {"clean", "mark"}, pc' # "pack" \/ bundle' = NoOne
      PROVE  DraftFromParcels'
  BY <1>0, <1>b DEF DraftFromParcels
<1>c. ASSUME draft' = NoDraft, pc' # "pack" \/ bundle' = NoOne PROVE DraftFromParcels'
  BY <1>c DEF DraftFromParcels, NoDraft
<1>1. ASSUME NEW s \in Sources, Commit(s) \/ ArchiveVersion(s) PROVE DraftFromParcels'
  BY <1>1, <1>a DEF Commit, ArchiveVersion, repository, database, job
<1>2. ASSUME NEW s \in Sources, ArchiveSource(s) \/ ArchiveFails(s) \/ TakeSource(s) \/ TakeFails(s)
                                  \/ SourceMissing(s)
      PROVE  DraftFromParcels'
  BY <1>2, <1>b DEF ArchiveSource, ArchiveFails, TakeSource, TakeFails, SourceMissing, repository,
                    job
<1>3. CASE StartTick \/ BeginTake \/ BeginBuild \/ EndTick
  BY <1>3, <1>b DEF StartTick, BeginTake, BeginBuild, EndTick, ForgetTick, repository, job
<1>4. CASE BeginPack
  <2>1. bundle = NoOne
    BY <1>0, <1>4 DEF StageOfWork, BeginPack
  <2> QED  BY <1>4, <1>b, <2>1 DEF BeginPack, repository, job
<1>5. ASSUME NEW b \in Bundles, VisitBundle(b) PROVE DraftFromParcels'
  BY <1>5, <1>b DEF VisitBundle, repository
<1>6. ASSUME NEW p \in Projects, StartBuild(p) PROVE DraftFromParcels'
  BY <1>6, <1>b DEF StartBuild, repository
<1>7. ASSUME NEW p \in Projects, NEW success \in BOOLEAN, FinishBuild(p, success) \/ BuildThrows(p)
      PROVE  DraftFromParcels'
  <2>1. pc = "build" /\ pc' = pc /\ UNCHANGED <<draft, parcel>>
    BY <1>0, <1>7 DEF StageOfWork, FinishBuild, BuildThrows, tick
  <2> QED  BY <1>b, <2>1
<1>8. ASSUME NEW b \in Bundles, StartPackage(b) PROVE DraftFromParcels'
  <2>1. /\ pc' = "pack" /\ bundle' = b /\ queue' = ProjectsOf[b] /\ UNCHANGED <<draft, parcel>>
    BY <1>8 DEF StartPackage, repository
  <2> QED  BY <1>0, <2>1 DEF DraftFromParcels
<1>9. ASSUME NEW p \in Projects, PackProject(p) PROVE DraftFromParcels'
  <2>1. /\ pc = "pack" /\ pc' = "pack" /\ bundle' = bundle /\ bundle \in Bundles
        /\ queue' = queue \ {p} /\ UNCHANGED <<package, torn>>
    BY <1>0, <1>9 DEF TypeOK, PackProject, database
  <2>2. \A q \in Projects : q # p \/ ~IsPackable(p) =>
            draft'[q] = draft[q] /\ parcel'[q] = parcel[q]
    BY <1>0, <1>9 DEF TypeOK, PackProject
  <2>3. IsPackable(p) => draft'[p] = parcel'[p] /\ Forward(p)'
    BY <1>9, PackedForward
  <2>4. \A q \in Projects : draft'[q] \in {NoEntry, parcel'[q]}
    BY <1>0, <2>2, <2>3 DEF DraftFromParcels
  <2>5. ASSUME NEW q \in ProjectsOf[bundle] \ queue', IsPackable(q)
        PROVE  draft'[q] = parcel'[q] /\ Forward(q)'
    <3>1. CASE q = p
      BY <2>3, <2>5, <3>1
    <3>2. CASE q # p
      <4>1. q \in Projects /\ q \in ProjectsOf[bundle] \ queue
        BY <1>p, <2>1, <2>5, <3>2
      <4>2. draft[q] = parcel[q] /\ Forward(q)
        BY <1>0, <2>1, <2>5, <4>1 DEF DraftFromParcels
      <4> QED  BY <2>1, <2>2, <3>2, <4>1, <4>2 DEF Forward
    <3> QED  BY <3>1, <3>2
  <2> QED  BY <2>1, <2>4, <2>5 DEF DraftFromParcels, IsPackable
<1>10. CASE SavePackage
  BY <1>10, <1>c DEF SavePackage
<1>11. CASE DeleteParcels
  BY <1>0, <1>11, <1>c DEF DeleteParcels, DraftFromParcels, job
<1>12. CASE MarkPackaged
  BY <1>0, <1>12, <1>c DEF MarkPackaged, DraftFromParcels
<1>13. CASE PackThrows \/ RestartServer
  BY <1>13, <1>c DEF PackThrows, RestartServer
<1>14. CASE UNCHANGED vars
  BY <1>14, <1>a DEF vars, repository, database, tick, job
<1> QED
  BY <1>1, <1>2, <1>3, <1>4, <1>5, <1>6, <1>7, <1>8, <1>9, <1>10, <1>11, <1>12, <1>13, <1>14, Zenon
  DEF Next, TimerThread

LEMMA ForwardNext == ForwardInv /\ [Next]_vars => ForwardInv'
BY BuildsNext, SeenCompleteNext, ReadyToPackNext, LevelsNext, ParcelsForwardNext, DraftNext
DEF ForwardInv, Levels

\* Only the save of a package changes one, and by then its projects have all been taken from
\* package files that are as good as anything packaged before.
LEMMA SavedForward ==
    ASSUME ForwardInv, [Next]_vars, NEW b \in Bundles, package'[b] # package[b],
           NEW p \in ProjectsOf[b], IsPackable(p), p \notin torn
    PROVE  package'[b][p].content # 0 /\ package'[b][p].content >= package[b][p].content
<1>1. TypeOK /\ DraftFromParcels /\ p \in Projects
  BY PipelineConstants DEF ForwardInv, BuildInv, TypeInv
<1>2. SavePackage
  BY DEF Next, TimerThread, vars, repository, database, Commit, ArchiveVersion, StartTick,
         ArchiveSource, ArchiveFails, BeginTake, TakeSource, TakeFails, SourceMissing, BeginBuild,
         VisitBundle, StartBuild, FinishBuild, BuildThrows, BeginPack, StartPackage, PackProject,
         DeleteParcels, MarkPackaged, PackThrows, EndTick, RestartServer
<1>3. b = bundle /\ package'[b] = draft /\ pc = "pack" /\ bundle # NoOne /\ queue = {}
  BY <1>1, <1>2 DEF TypeOK, SavePackage
<1>4. draft[p] = parcel[p] /\ Forward(p)
  BY <1>1, <1>3 DEF DraftFromParcels
<1>5. parcel[p].content \in Nat /\ package[b][p].content \in Nat
  BY <1>1, LevelValues
<1> QED  BY <1>3, <1>4, <1>5 DEF Forward

\* A later package of a bundle never holds an older or an incomplete build of a project, also
\* when it takes what failed attempts and broken off ticks have left behind.
THEOREM PipelinePackagesMoveForward == Spec => PackagesMoveForward
<1>1. ForwardInv /\ [Next]_vars =>
        [\A b \in Bundles : package'[b] # package[b] =>
            \A p \in ProjectsOf[b] :
                (IsPackable(p) /\ p \notin torn)
                    => (package'[b][p].content # 0
                        /\ package'[b][p].content >= package[b][p].content)]_vars
  BY SavedForward
<1> QED  BY <1>1, ForwardInit, ForwardNext, PTL DEF Spec, PackagesMoveForward
=============================================================================
