----------------------------- MODULE SourcesProofs -----------------------------
(***************************************************************************)
(* Proofs about Sources, for every kind of repository and any number of    *)
(* versions, projects, commits and faults: which commits the revisions     *)
(* report, and which projects the rows of a version stand for.             *)
(***************************************************************************)
EXTENDS Sources, SequenceTheorems, WellFoundedInduction, TLAPS

\* The revision being polled is a commit of its branch, later than the one saved before.
PollInv ==
  /\ stage \in {"loaded", "saved"} => disk[version] \in Commits(version)
  /\ stage = "loaded" => revision[version] < disk[version]
  /\ stage = "saved" => revision[version] = disk[version]

\* What a version has saved and parsed are commits of its branch.
CommitsInv ==
  /\ Len(log) <= MaxCommits
  /\ \A v \in Versions :
       /\ revision[v] \in Commits(v) \union {NoCommit}
       /\ parsed[v] \in Commits(v) \union {NoCommit}
  /\ \A p \in projects : p.since \in DOMAIN log

TypeInv ==
  /\ TypeOK
  /\ CommitsInv
  /\ PollInv

\* The last row of revisions is the revision that has been saved, and none reports later
\* commits.
RevisionRows ==
  \A v \in Versions :
    LET rows == revisions[v] IN
      IF rows = << >> THEN revision[v] = NoCommit
      ELSE /\ rows[Len(rows)].name = revision[v]
           /\ revision[v] # NoCommit
           /\ rows[1].name <= revision[v]
           /\ \A i \in DOMAIN rows : \A n \in rows[i].infos : n <= revision[v]

ReportInv ==
  /\ TypeInv
  /\ RevisionRows
  /\ SvnCommitsReportedOnce

ProjectsInv ==
  /\ TypeInv
  /\ ProjectsOfOneCommit

RowsInv ==
  /\ TypeInv
  /\ OneProjectForVersions

-----------------------------------------------------------------------------
(* Commits.                                                                *)

LEMMA LogTypes ==
  ASSUME TypeInv
  PROVE  /\ Len(log) \in Nat /\ DOMAIN log = 1 .. Len(log) /\ DOMAIN log \subseteq Numbers
         /\ MaxCommits \in Nat
         /\ \A n \in DOMAIN log : log[n].branch \in Versions /\ log[n].listing \in [Guids -> Nat]
         /\ \A v : Commits(v) \subseteq Numbers /\ Commits(v) \subseteq DOMAIN log
  <1>1. log \in Seq([branch : Versions, listing : Listings]) /\ Len(log) <= MaxCommits
    BY DEF TypeInv, TypeOK, CommitsInv
  <1>2. Listings \subseteq [Guids -> Nat] /\ MaxCommits \in Nat
    BY SourcesAssumption
  <1>3. Len(log) \in Nat /\ DOMAIN log = 1 .. Len(log) /\ DOMAIN log \subseteq Numbers
    BY <1>1, <1>2 DEF Numbers
  <1>4. \A n \in DOMAIN log : log[n] \in [branch : Versions, listing : Listings]
    BY <1>1, <1>3, ElementOfSeq
  <1> QED
    BY <1>2, <1>3, <1>4 DEF Commits

LEMMA LastIs ==
  ASSUME TypeInv, NEW v, Commits(v) # {}
  PROVE  Last(v) \in Commits(v) /\ \A n \in Commits(v) : n <= Last(v)
  <1> DEFINE behind == {Len(log) - n : n \in Commits(v)}
  <1>1. Len(log) \in Nat /\ Commits(v) \subseteq 1 .. Len(log)
    BY LogTypes
  <1>2. behind \subseteq Nat /\ behind # {}
    BY <1>1
  <1>3. PICK least \in behind : \A i \in behind : <<i, least>> \notin OpToRel(<, Nat)
    <2> HIDE DEF behind
    <2> QED
      BY <1>2, NatLessThanWellFounded, WFMin
  <1>4. ASSUME NEW i \in behind PROVE least <= i
    <2> SUFFICES ASSUME i < least PROVE FALSE
      <3> HIDE DEF behind
      <3> QED
        BY <1>2
    <2>1. <<i, least>> \in OpToRel(<, Nat)
      BY <1>2 DEF OpToRel
    <2> QED
      BY <1>3, <2>1
  <1>5. PICK last \in Commits(v) : least = Len(log) - last
    OBVIOUS
  <1>6. ASSUME NEW n \in Commits(v) PROVE n <= last
    <2>1. least <= Len(log) - n
      BY <1>4
    <2> QED
      BY <1>1, <1>5, <2>1
  <1> QED
    BY <1>6 DEF Last

\* The log is only ever added to.
LEMMA LogGrows ==
  ASSUME TypeInv, [Next]_vars
  PROVE  /\ \A n \in DOMAIN log : n \in DOMAIN log' /\ log'[n] = log[n]
         /\ \A v : Commits(v) \subseteq Commits(v)'
         /\ \A v, n : n \in Commits(v)' \ Commits(v) => n > Len(log)
  <1>1. CASE \E v \in Versions, listing \in Listings : Commit(v, listing)
    <2>1. PICK v \in Versions, listing \in Listings :
            log' = Append(log, [branch |-> v, listing |-> listing])
      BY <1>1 DEF Commit
    <2>2. /\ log \in Seq([branch : Versions, listing : Listings])
          /\ Len(log) \in Nat /\ DOMAIN log = 1 .. Len(log)
      BY LogTypes DEF TypeInv, TypeOK
    <2>3. /\ DOMAIN log' = 1 .. Len(log) + 1
          /\ \A n \in 1 .. Len(log) : log'[n] = log[n]
      BY <2>1, <2>2
    <2> QED
      BY <2>2, <2>3 DEF Commits
  <1>2. CASE UNCHANGED log
    BY <1>2 DEF Commits
  <1> QED
    BY <1>1, <1>2 DEF Next, TimerNext, vars, repository, DeleteBranch, ArchiveVersion, CreateVersion,
       BeginTick, BeginTake, ArchiveSource, ArchiveFails, LoadSources, SourceMissing,
       LoadSourcesFails, SaveRevision, LoadSourcesInfoFails, ParseProjects, ParseFails,
       RestartServer

-----------------------------------------------------------------------------
(* Type correctness.                                                       *)

LEMMA InitTypeInv == Init => TypeInv
  <1> SUFFICES ASSUME Init PROVE TypeInv
    OBVIOUS
  <1>1. /\ FirstVersion \in Versions /\ FirstListing \in Listings
        /\ MaxCommits \in Nat \ {0} /\ MaxFaults \in Nat
    BY SourcesAssumption
  <1>2. log \in Seq([branch : Versions, listing : Listings]) /\ Len(log) = 1
    <2> DEFINE first == [branch |-> FirstVersion, listing |-> FirstListing]
    <2>1. first \in [branch : Versions, listing : Listings] /\ log = <<first>>
      BY <1>1 DEF Init
    <2> QED
      BY <2>1
  <1>3. << >> \in Seq([name : Numbers, parent : Numbers \union {NoCommit}, infos : SUBSET Numbers])
    BY EmptySeq
  <1>4. revisions \in [Versions ->
          Seq([name : Numbers, parent : Numbers \union {NoCommit}, infos : SUBSET Numbers])]
    BY <1>3 DEF Init
  <1>5. TypeOK
    BY <1>1, <1>2, <1>4 DEF Init, TypeOK
  <1>6. CommitsInv /\ PollInv
    BY <1>1, <1>2 DEF Init, CommitsInv, PollInv
  <1> QED
    BY <1>5, <1>6 DEF TypeInv

\* A step that neither polls nor adds a commit keeps the types, if what it changes has them.
LEMMA QuietTypes ==
  ASSUME TypeInv, UNCHANGED <<kind, log, tables, parsed>>,
         gone' \subseteq Versions,
         disk' \in [Versions -> Numbers \union {NoCopy, Broken}],
         archiveState' \in [Versions -> {"none", "Normal", "Archiving", "Archived"}],
         isHead' \subseteq Versions,
         todo' \subseteq Versions,
         brokenOff' \subseteq Versions,
         faults' \in 0 .. MaxFaults,
         \/ stage' \in {"off", "archive", "take"} /\ UNCHANGED version
         \/ UNCHANGED <<stage, version, disk>>
  PROVE  TypeInv'
  <1>1. TypeOK'
    BY DEF TypeInv, TypeOK, tables, Project
  <1>2. CommitsInv'
    BY DEF TypeInv, CommitsInv, tables, Commits
  <1>3. PollInv'
    BY DEF TypeInv, PollInv, tables, Commits
  <1> QED
    BY <1>1, <1>2, <1>3 DEF TypeInv

LEMMA FailTypes == TypeInv /\ Fail => faults' \in 0 .. MaxFaults
  BY SourcesAssumption DEF TypeInv, TypeOK, Fail

LEMMA CommitTypes ==
  ASSUME TypeInv, NEW v \in Versions, NEW listing \in Listings, Commit(v, listing)
  PROVE  TypeInv'
  <1> DEFINE commit == [branch |-> v, listing |-> listing]
             Entry == [branch : Versions, listing : Listings]
  <1>1. /\ log \in Seq(Entry) /\ commit \in Entry /\ log' = Append(log, commit)
        /\ Len(log) < MaxCommits /\ MaxCommits \in Nat
    BY SourcesAssumption DEF TypeInv, TypeOK, Commit
  <1>2. log' \in Seq(Entry) /\ Len(log') = Len(log) + 1
    BY <1>1
  <1>3. TypeOK'
    BY <1>2 DEF TypeInv, TypeOK, Commit, tables, timer, history, Project
  <1>4. /\ \A n \in DOMAIN log : n \in DOMAIN log'
        /\ \A w : Commits(w) \subseteq Commits(w)'
    BY LogGrows DEF Next
  <1>5. CommitsInv'
    BY <1>1, <1>2, <1>4 DEF TypeInv, CommitsInv, Commit, tables, history
  <1>6. PollInv'
    BY <1>4 DEF TypeInv, PollInv, Commit, tables, timer
  <1> QED
    BY <1>3, <1>5, <1>6 DEF TypeInv

LEMMA LoadTypes ==
  ASSUME TypeInv, NEW v \in Versions, LoadSources(v)
  PROVE  TypeInv'
  <1>1. Last(v) \in Commits(v) /\ \A n \in Commits(v) : n <= Last(v)
    BY LastIs DEF LoadSources, Found
  <1>2. Commits(v) \subseteq Numbers
    BY LogTypes
  <1>3. disk' \in [Versions -> Numbers \union {NoCopy, Broken}]
    BY <1>1, <1>2 DEF LoadSources, TypeInv, TypeOK
  <1>4. CASE revision[v] = Last(v)
    <2>1. UNCHANGED <<kind, log, gone, tables, history, archiveState, isHead, faults, version>>
          /\ stage' = "take" /\ todo' \subseteq Versions
      BY <1>4 DEF LoadSources, EndPoll, repository, TypeInv, TypeOK
    <2> QED
      BY <1>3, <2>1, QuietTypes DEF history, TypeInv, TypeOK
  <1>5. CASE revision[v] # Last(v)
    <2>1. /\ stage' = "loaded" /\ version' = v /\ disk'[v] = Last(v)
          /\ UNCHANGED <<kind, log, gone, tables, history, archiveState, isHead, faults, todo>>
      BY <1>3, <1>5 DEF LoadSources, repository, TypeInv, TypeOK
    <2>2. TypeOK'
      BY <1>3, <2>1 DEF TypeInv, TypeOK, tables, history, Project
    <2>3. revision[v] < Last(v)
      <3>1. revision[v] \in Commits(v) \union {NoCommit}
        BY DEF TypeInv, CommitsInv
      <3> QED
        BY <1>1, <1>2, <1>5, <3>1 DEF NoCommit, Numbers
    <2>4. CommitsInv' /\ PollInv'
      BY <1>1, <2>1, <2>3 DEF TypeInv, CommitsInv, PollInv, tables, history, Commits
    <2> QED
      BY <2>2, <2>4 DEF TypeInv
  <1> QED
    BY <1>4, <1>5

RevisionRow == [name : Numbers, parent : Numbers \union {NoCommit}, infos : SUBSET Numbers]

\* The row that saving a revision appends.
LEMMA SavedRow ==
  ASSUME TypeInv, SaveRevision
  PROVE  LET row == [name   |-> disk[version],
                     parent |-> Parent(version),
                     infos  |-> Infos(version, disk[version])]
         IN /\ row \in RevisionRow
            /\ revisions[version] \in Seq(RevisionRow)
            /\ revisions' = [revisions EXCEPT ![version] = Append(@, row)]
            /\ revision' = [revision EXCEPT ![version] = disk[version]]
            /\ disk[version] \in Commits(version)
            /\ revision[version] < disk[version]
            /\ revision[version] \in Commits(version) \union {NoCommit}
  <1>1. /\ version \in Versions /\ revisions[version] \in Seq(RevisionRow)
        /\ disk[version] \in Commits(version) /\ revision[version] < disk[version]
        /\ revision[version] \in Commits(version) \union {NoCommit}
    BY DEF TypeInv, TypeOK, CommitsInv, PollInv, SaveRevision, RevisionRow
  <1>2. disk[version] \in Numbers /\ Infos(version, disk[version]) \subseteq Numbers
    BY <1>1, LogTypes DEF Infos
  <1>3. Parent(version) \in Numbers \union {NoCommit}
    <2>1. CASE revisions[version] = << >>
      BY <2>1 DEF Parent
    <2>2. CASE revisions[version] # << >>
      <3>1. revisions[version][Len(revisions[version])] \in RevisionRow
        BY <1>1, <2>2
      <3> QED
        BY <2>2, <3>1 DEF Parent, RevisionRow
    <2> QED
      BY <2>1, <2>2
  <1> QED
    BY <1>1, <1>2, <1>3 DEF SaveRevision, RevisionRow

LEMMA SaveTypes ==
  ASSUME TypeInv, SaveRevision
  PROVE  TypeInv'
  <1> DEFINE row == [name   |-> disk[version],
                     parent |-> Parent(version),
                     infos  |-> Infos(version, disk[version])]
  <1>1. /\ row \in RevisionRow
        /\ revisions[version] \in Seq(RevisionRow)
        /\ revisions' = [revisions EXCEPT ![version] = Append(@, row)]
        /\ revision' = [revision EXCEPT ![version] = disk[version]]
        /\ disk[version] \in Commits(version)
    BY SavedRow
  <1>2. disk[version] \in Numbers /\ version \in Versions
    BY <1>1, LogTypes DEF TypeInv, TypeOK
  <1> HIDE DEF row
  <1>3. revisions' \in [Versions -> Seq(RevisionRow)]
    <2>1. Append(revisions[version], row) \in Seq(RevisionRow)
      BY <1>1
    <2>2. revisions \in [Versions -> Seq(RevisionRow)]
      BY DEF TypeInv, TypeOK, RevisionRow
    <2> QED
      BY <1>1, <2>1, <2>2
  <1>4. TypeOK'
    BY <1>1, <1>2, <1>3
       DEF TypeInv, TypeOK, SaveRevision, repository, history, Project, RevisionRow
  <1>5. CommitsInv' /\ PollInv'
    BY <1>1, <1>2
       DEF TypeInv, TypeOK, CommitsInv, PollInv, SaveRevision, repository, history, Commits
  <1> QED
    BY <1>4, <1>5 DEF TypeInv

LEMMA ParseTypes ==
  ASSUME TypeInv, ParseProjects
  PROVE  TypeInv'
  <1>1. version \in Versions /\ disk[version] \in Commits(version) /\ disk[version] \in Numbers
        /\ disk[version] \in DOMAIN log
    BY LogTypes DEF TypeInv, TypeOK, PollInv, ParseProjects
  <1>2. NewProjects(version) \subseteq Project
    BY <1>1 DEF NewProjects, Project
  <1>3. projects' \subseteq Project
    BY <1>2 DEF ParseProjects, TypeInv, TypeOK
  <1>4. /\ projects' = projects \union NewProjects(version)
        /\ projectVersions' = (projectVersions \ Rows(version)) \union Deleted(version)
             \union Updated(version) \union Live(version, NewProjects(version))
    BY DEF ParseProjects
  <1> DEFINE Row(ps) == [project : ps, version : Versions, isDeleted : BOOLEAN, asOf : Numbers]
  <1>5. projectVersions \subseteq Row(projects) /\ projectVersions \subseteq Row(projects')
    BY <1>4 DEF TypeInv, TypeOK
  <1>6. Deleted(version) \subseteq Row(projects')
    BY <1>5 DEF Deleted, Rows
  <1>7. ASSUME NEW ps, ps \subseteq projects' PROVE Live(version, ps) \subseteq Row(projects')
    <2>1. ASSUME NEW p \in ps
          PROVE  [project |-> p, version |-> version, isDeleted |-> FALSE, asOf |-> disk[version]]
                   \in Row(projects')
      BY <1>1, <1>7, <2>1
    <2> HIDE DEF Row
    <2> QED
      BY <2>1 DEF Live
  <1>8. Updated(version) \subseteq Row(projects')
    BY <1>4, <1>7 DEF Updated
  <1>9. projectVersions' \subseteq Row(projects')
    BY <1>4, <1>5, <1>6, <1>7, <1>8
  <1>10. TypeOK'
    BY <1>1, <1>3, <1>9
       DEF TypeInv, TypeOK, ParseProjects, EndPoll, repository, Project
  <1>11. \A p \in projects' : p.since \in DOMAIN log
    BY <1>1, <1>4 DEF NewProjects, TypeInv, CommitsInv
  <1>12. CommitsInv'
    BY <1>1, <1>11 DEF TypeInv, TypeOK, CommitsInv, ParseProjects, repository, Commits
  <1>13. PollInv'
    BY DEF PollInv, ParseProjects, EndPoll
  <1> QED
    BY <1>10, <1>12, <1>13 DEF TypeInv

LEMMA NextTypeInv == TypeInv /\ [Next]_vars => TypeInv'
  <1> SUFFICES ASSUME TypeInv, [Next]_vars PROVE TypeInv'
    OBVIOUS
  <1>1. ASSUME NEW v \in Versions, NEW listing \in Listings, Commit(v, listing) PROVE TypeInv'
    BY <1>1, CommitTypes
  <1>2. ASSUME NEW v \in Versions, DeleteBranch(v) \/ ArchiveVersion(v) PROVE TypeInv'
    BY <1>2, QuietTypes DEF DeleteBranch, ArchiveVersion, repository, timer, history, TypeInv, TypeOK
  <1>3. ASSUME NEW from \in Versions, NEW new \in Versions, CreateVersion(from, new) PROVE TypeInv'
    BY <1>3, QuietTypes DEF CreateVersion, repository, timer, history, TypeInv, TypeOK
  <1>4. CASE BeginTick \/ BeginTake
    BY <1>4, QuietTypes DEF BeginTick, BeginTake, InState, repository, history, TypeInv, TypeOK
  <1>5. ASSUME NEW v \in Versions, ArchiveSource(v) \/ SourceMissing(v) PROVE TypeInv'
    BY <1>5, QuietTypes
       DEF ArchiveSource, SourceMissing, Polls, EndPoll, repository, history, TypeInv, TypeOK
  <1>6. ASSUME NEW v \in Versions, ArchiveFails(v) PROVE TypeInv'
    BY <1>6, QuietTypes, FailTypes DEF ArchiveFails, repository, history, TypeInv, TypeOK
  <1>7. ASSUME NEW v \in Versions, LoadSourcesFails(v) PROVE TypeInv'
    <2>1. faults' \in 0 .. MaxFaults
      BY <1>7, FailTypes DEF LoadSourcesFails, TypeInv, TypeOK
    <2> QED
      BY <1>7, <2>1, QuietTypes DEF LoadSourcesFails, EndPoll, repository, history, TypeInv, TypeOK
  <1>8. ASSUME NEW v \in Versions, LoadSources(v) PROVE TypeInv'
    BY <1>8, LoadTypes
  <1>9. CASE SaveRevision
    BY <1>9, SaveTypes
  <1>10. CASE LoadSourcesInfoFails
    BY <1>10, QuietTypes, FailTypes
       DEF LoadSourcesInfoFails, EndPoll, repository, history, TypeInv, TypeOK
  <1>11. CASE ParseProjects
    BY <1>11, ParseTypes
  <1>12. CASE ParseFails
    BY <1>12, QuietTypes, FailTypes DEF ParseFails, EndPoll, repository, TypeInv, TypeOK
  <1>13. CASE RestartServer
    BY <1>13, QuietTypes, FailTypes DEF RestartServer, repository, TypeInv, TypeOK
  <1>14. CASE UNCHANGED vars
    BY <1>14, QuietTypes DEF vars, repository, timer, history, TypeInv, TypeOK
  <1> QED
    BY <1>1, <1>2, <1>3, <1>4, <1>5, <1>6, <1>7, <1>8, <1>9, <1>10, <1>11, <1>12, <1>13, <1>14
       DEF Next, TimerNext

\* Rows, working copies and the locals of the timer thread keep their types.
THEOREM SourcesTypeCorrect == Spec => []TypeOK
  <1>1. TypeInv => TypeOK
    BY DEF TypeInv
  <1> QED
    BY <1>1, InitTypeInv, NextTypeInv, PTL DEF Spec

-----------------------------------------------------------------------------
(* The commits that the revisions report.                                  *)

\* Without a new revision, new commits are beyond what has been reported.
LEMMA ReportKept ==
  ASSUME ReportInv, [Next]_vars, UNCHANGED <<kind, revision, revisions>>
  PROVE  RevisionRows' /\ SvnCommitsReportedOnce'
  <1>1. RevisionRows'
    BY DEF ReportInv, RevisionRows
  <1>2. \A v \in Versions : revision[v] \in Commits(v) \union {NoCommit}
    BY DEF ReportInv, TypeInv, CommitsInv
  <1>3. ASSUME NEW v \in Versions, NEW first
        PROVE  {n \in Commits(v)' : first <= n /\ n <= revision[v]}
                 = {n \in Commits(v) : first <= n /\ n <= revision[v]}
    <2>1. /\ Commits(v) \subseteq Commits(v)'
          /\ \A n \in Commits(v)' \ Commits(v) : n > Len(log)
      BY LogGrows DEF ReportInv
    <2>2. revision[v] \in 0 .. Len(log) /\ Len(log) \in Nat
      BY <1>2, LogTypes DEF ReportInv, NoCommit
    <2>3. \A n \in Commits(v)' : n \in Nat
      <3>1. log' \in Seq([branch : Versions, listing : Listings])
        BY NextTypeInv DEF ReportInv, TypeInv, TypeOK
      <3> QED
        BY <3>1 DEF Commits
    <2> QED
      BY <2>1, <2>2, <2>3
  <1>4. SvnCommitsReportedOnce'
    BY <1>3 DEF ReportInv, SvnCommitsReportedOnce
  <1> QED
    BY <1>1, <1>4

LEMMA ReportSaved ==
  ASSUME ReportInv, SaveRevision
  PROVE  RevisionRows' /\ SvnCommitsReportedOnce'
  <1> DEFINE v == version
             n == disk[version]
             row == [name |-> n, parent |-> Parent(v), infos |-> Infos(v, n)]
             rows == revisions[v]
             new == revisions'[v]
  <1>1. /\ row \in RevisionRow /\ rows \in Seq(RevisionRow)
        /\ revisions' = [revisions EXCEPT ![v] = Append(@, row)]
        /\ revision' = [revision EXCEPT ![v] = n]
        /\ n \in Commits(v) /\ revision[v] < n
        /\ revision[v] \in Commits(v) \union {NoCommit}
    BY SavedRow DEF ReportInv
  <1>2. /\ v \in Versions /\ n \in Nat /\ n # NoCommit /\ revision[v] \in Nat
        /\ new = Append(rows, row) /\ revision'[v] = n
        /\ \A w \in Versions \ {v} : revisions'[w] = revisions[w] /\ revision'[w] = revision[w]
        /\ \A m \in Commits(v) : m \in Nat
    <2>1. TypeInv /\ v \in Versions /\ DOMAIN revisions = Versions /\ DOMAIN revision = Versions
      BY DEF ReportInv, TypeInv, TypeOK
    <2>2. MaxCommits \in Nat /\ Commits(v) \subseteq 1 .. MaxCommits
      BY <2>1, LogTypes DEF Numbers
    <2>3. n \in 1 .. MaxCommits /\ revision[v] \in 0 .. MaxCommits
      BY <1>1, <2>2 DEF NoCommit
    <2>4. new = Append(rows, row) /\ revision'[v] = n
      BY <1>1, <2>1
    <2>5. \A w \in Versions \ {v} : revisions'[w] = revisions[w] /\ revision'[w] = revision[w]
      BY <1>1, <2>1
    <2> HIDE DEF v, n, row, rows, new
    <2> QED
      BY <2>1, <2>2, <2>3, <2>4, <2>5 DEF NoCommit
  <1>3. UNCHANGED kind /\ \A w : Commits(w)' = Commits(w)
    BY DEF SaveRevision, repository, Commits
  <1>4. /\ Len(rows) \in Nat /\ Len(new) = Len(rows) + 1 /\ DOMAIN new = 1 .. Len(rows) + 1
        /\ DOMAIN rows = 1 .. Len(rows)
        /\ new[Len(rows) + 1] = row /\ \A i \in 1 .. Len(rows) : new[i] = rows[i]
    BY <1>1, <1>2
  <1>5. rows # << >> => /\ Parent(v) = revision[v] /\ revision[v] # NoCommit
                        /\ rows[1].name <= revision[v]
                        /\ rows[1] \in RevisionRow
                        /\ \A i \in DOMAIN rows : \A m \in rows[i].infos : m <= revision[v]
    BY <1>1, <1>2, <1>4 DEF ReportInv, RevisionRows, Parent
  <1>6. row.infos \subseteq 1 .. n /\ row.name = n
    BY <1>1, <1>2, LogTypes DEF Infos, ReportInv, Numbers
  <1>7. \A i \in DOMAIN rows : \A m \in rows[i].infos : m \in Nat
    <2>1. \A i \in DOMAIN rows : rows[i] \in RevisionRow
      BY <1>1, ElementOfSeq, <1>4
    <2> QED
      BY <2>1 DEF RevisionRow, Numbers
  <1> HIDE DEF v, n, row, rows, new
  <1>8. RevisionRows'
    <2>1. \A i \in DOMAIN new : \A m \in new[i].infos : m <= n
      <3> SUFFICES ASSUME NEW i \in DOMAIN new, NEW m \in new[i].infos PROVE m <= n
        OBVIOUS
      <3>1. CASE i = Len(rows) + 1
        BY <1>4, <1>6, <3>1
      <3>2. CASE i # Len(rows) + 1
        <4>1. i \in DOMAIN rows /\ m \in rows[i].infos
          BY <1>4, <3>2
        <4>2. rows # << >> /\ m \in Nat
          BY <1>4, <1>7, <4>1
        <4> QED
          BY <1>1, <1>2, <1>5, <4>1, <4>2
      <3> QED
        BY <3>1, <3>2
    <2>2. new[1].name <= n
      <3>1. CASE rows = << >>
        BY <1>2, <1>4, <1>6, <3>1
      <3>2. CASE rows # << >>
        <4>1. new[1] = rows[1] /\ rows[1].name \in Nat
          BY <1>4, <1>5, <3>2 DEF RevisionRow, Numbers
        <4> QED
          BY <1>1, <1>2, <1>5, <3>2, <4>1
      <3> QED
        BY <3>1, <3>2
    <2>3. new # << >> /\ new[Len(new)].name = n
      BY <1>4, <1>6
    <2> QED
      BY <1>2, <2>1, <2>2, <2>3 DEF ReportInv, RevisionRows, new
  <1>9. ASSUME kind = "svn"
        PROVE  /\ UNION {new[i].infos : i \in DOMAIN new}
                    = {m \in Commits(v) : new[1].name <= m /\ m <= n}
               /\ \A i, j \in DOMAIN new : i # j => new[i].infos \intersect new[j].infos = {}
    <2>1. CASE rows = << >>
      <3>1. row.infos = {n}
        BY <1>9, <2>1 DEF Infos, Parent, row, rows
      <3>2. DOMAIN new = {1} /\ new[1] = row
        BY <1>4, <2>1
      <3>3. {m \in Commits(v) : n <= m /\ m <= n} = {n}
        <4>1. \A m \in Commits(v) : n <= m /\ m <= n <=> m = n
          BY <1>2
        <4> QED
          BY <1>1, <4>1
      <3> QED
        BY <1>6, <3>1, <3>2, <3>3
    <2>2. CASE rows # << >>
      <3>1. row.infos = {m \in Commits(v) : revision[v] < m /\ m <= n}
        <4>1. Parent(v) # NoCommit
          BY <1>5, <2>2
        <4> QED
          BY <1>5, <1>9, <2>2, <4>1 DEF Infos, row
      <3>2. /\ UNION {rows[i].infos : i \in DOMAIN rows}
                 = {m \in Commits(v) : rows[1].name <= m /\ m <= revision[v]}
            /\ \A i, j \in DOMAIN rows : i # j => rows[i].infos \intersect rows[j].infos = {}
        BY <1>2, <1>9, <2>2 DEF ReportInv, SvnCommitsReportedOnce, rows
      <3>3. new[1] = rows[1] /\ rows[1].name \in Nat
        BY <1>4, <1>5, <2>2 DEF RevisionRow, Numbers
      <3>4. {new[i].infos : i \in DOMAIN new} = {rows[i].infos : i \in DOMAIN rows} \union {row.infos}
        BY <1>4
      <3>5. UNION {new[i].infos : i \in DOMAIN new}
              = (UNION {rows[i].infos : i \in DOMAIN rows}) \union row.infos
        BY <3>4
      <3>6. {m \in Commits(v) : rows[1].name <= m /\ m <= n}
              = {m \in Commits(v) : rows[1].name <= m /\ m <= revision[v]} \union row.infos
        <4>1. \A m \in Commits(v) :
                rows[1].name <= m /\ m <= n
                  <=> (rows[1].name <= m /\ m <= revision[v]) \/ (revision[v] < m /\ m <= n)
          BY <1>1, <1>2, <1>5, <2>2, <3>3
        <4> QED
          BY <3>1, <4>1
      <3>7. \A i \in DOMAIN rows : rows[i].infos \intersect row.infos = {}
        BY <1>2, <1>5, <1>7, <2>2, <3>1
      <3>8. \A i, j \in DOMAIN new : i # j => new[i].infos \intersect new[j].infos = {}
        BY <1>4, <3>2, <3>7
      <3> QED
        BY <3>2, <3>3, <3>5, <3>6, <3>8
    <2> QED
      BY <2>1, <2>2
  <1>10. SvnCommitsReportedOnce'
    <2> SUFFICES ASSUME kind' = "svn", NEW w \in Versions, revisions'[w] # << >>
                 PROVE  /\ UNION {revisions'[w][i].infos : i \in DOMAIN revisions'[w]}
                             = {m \in Commits(w)' : revisions'[w][1].name <= m /\ m <= revision'[w]}
                        /\ \A i, j \in DOMAIN revisions'[w] :
                             i # j => revisions'[w][i].infos \intersect revisions'[w][j].infos = {}
      BY DEF SvnCommitsReportedOnce
    <2>1. CASE w = v
      BY <1>2, <1>3, <1>9, <2>1 DEF new
    <2>2. CASE w # v
      BY <1>2, <1>3, <2>2 DEF ReportInv, SvnCommitsReportedOnce
    <2> QED
      BY <2>1, <2>2
  <1> QED
    BY <1>8, <1>10

LEMMA InitReportInv == Init => ReportInv
  <1> SUFFICES ASSUME Init PROVE ReportInv
    OBVIOUS
  <1> QED
    BY InitTypeInv DEF Init, ReportInv, RevisionRows, SvnCommitsReportedOnce

LEMMA NextReportInv == ReportInv /\ [Next]_vars => ReportInv'
  <1> SUFFICES ASSUME ReportInv, [Next]_vars PROVE RevisionRows' /\ SvnCommitsReportedOnce'
    BY NextTypeInv DEF ReportInv
  <1>1. CASE SaveRevision
    BY <1>1, ReportSaved
  <1>2. CASE ~SaveRevision
    <2>1. UNCHANGED <<kind, revision, revisions>>
      BY <1>2 DEF Next, TimerNext, vars, repository, tables, Commit, DeleteBranch, ArchiveVersion,
         CreateVersion, BeginTick, BeginTake, ArchiveSource, ArchiveFails, LoadSources,
         SourceMissing, LoadSourcesFails, LoadSourcesInfoFails, ParseProjects, ParseFails,
         RestartServer
    <2> QED
      BY <2>1, ReportKept
  <1> QED
    BY <1>1, <1>2

\* With Subversion, every commit to a branch since the first poll belongs to exactly one of the
\* rows of revisions, however many commits a poll finds and whichever polls failed between.
THEOREM SourcesSvnCommitsReportedOnce == Spec => []SvnCommitsReportedOnce
  <1>1. ReportInv => SvnCommitsReportedOnce
    BY DEF ReportInv
  <1> QED
    BY <1>1, InitReportInv, NextReportInv, PTL DEF Spec

-----------------------------------------------------------------------------
(* The projects of a version.                                              *)

LiveRows(v) == {pv \in Rows(v) : ~pv.isDeleted}

\* Its rows are those of one commit: a project for each guid that the commit lists.
ProjectsOf(v, commit) ==
  /\ {pv.project.guid : pv \in LiveRows(v)} = {g \in Guids : log[commit].listing[g] > 0}
  /\ \A pv \in LiveRows(v) : pv.asOf = commit

\* Until they are parsed again, they stay so.
LEMMA ProjectsKept ==
  ASSUME ProjectsInv, [Next]_vars, NEW v \in Versions,
         parsed'[v] = parsed[v], Rows(v)' = Rows(v)
  PROVE  /\ parsed[v] = NoCommit => LiveRows(v)' = {}
         /\ parsed[v] # NoCommit => ProjectsOf(v, parsed[v])'
  <1>1. LiveRows(v)' = LiveRows(v)
    BY DEF LiveRows
  <1>2. /\ parsed[v] = NoCommit => LiveRows(v) = {}
        /\ parsed[v] # NoCommit => ProjectsOf(v, parsed[v])
    BY DEF ProjectsInv, ProjectsOfOneCommit, ProjectsOf, LiveRows
  <1>3. ASSUME parsed[v] # NoCommit PROVE ProjectsOf(v, parsed[v])'
    <2>1. parsed[v] \in DOMAIN log
      BY <1>3, LogTypes DEF ProjectsInv, TypeInv, CommitsInv
    <2>2. log'[parsed[v]] = log[parsed[v]]
      BY <2>1, LogGrows DEF ProjectsInv
    <2> QED
      BY <1>1, <1>2, <1>3, <2>2 DEF ProjectsOf
  <1> QED
    BY <1>1, <1>2, <1>3

\* A parse replaces the rows of its version by those of the commit.
LEMMA ProjectsParsed ==
  ASSUME TypeInv, ParseProjects
  PROVE  /\ \A v \in Versions \ {version} : Rows(v)' = Rows(v)
         /\ LiveRows(version)' = Updated(version) \union Live(version, NewProjects(version))
         /\ {pv.project.guid : pv \in LiveRows(version)'} = {g \in Guids : Listing(version)[g] > 0}
         /\ \A pv \in LiveRows(version)' : pv.asOf = disk[version]
  <1> DEFINE v == version
             live == Updated(v) \union Live(v, NewProjects(v))
  <1>1. /\ version \in Versions /\ disk[v] \in DOMAIN log /\ Listing(v) \in [Guids -> Nat]
    BY LogTypes DEF TypeInv, TypeOK, PollInv, ParseProjects, Listing
  <1>2. /\ projectVersions' = (projectVersions \ Rows(v)) \union Deleted(v) \union live
        /\ \A pv \in projectVersions : pv.version \in Versions /\ pv.isDeleted \in BOOLEAN
                                       /\ pv.project \in projects /\ pv.project.guid \in Guids
        /\ projects \subseteq Project
    BY DEF ParseProjects, TypeInv, TypeOK, Project
  <1>3. \A pv \in Deleted(v) : pv.version = v /\ pv.isDeleted
    BY DEF Deleted, Rows, TypeInv, TypeOK
  <1>4. \A pv \in live : pv.version = v /\ ~pv.isDeleted /\ pv.asOf = disk[v]
    BY DEF Updated, Live
  <1>5. \A w \in Versions \ {v} : Rows(w)' = Rows(w)
    BY <1>2, <1>3, <1>4 DEF Rows
  <1>6. LiveRows(v)' = live
    <2>1. version' = version
      BY DEF ParseProjects
    <2>2. \A pv \in projectVersions \ Rows(v) : pv.version # v
      BY DEF Rows
    <2> HIDE DEF live
    <2> QED
      BY <1>2, <1>3, <1>4, <2>1, <2>2 DEF LiveRows, Rows
  <1>7. ASSUME NEW pv \in live PROVE pv.project.guid \in Guids /\ Listing(v)[pv.project.guid] > 0
    <2>1. CASE pv \in Updated(v)
      BY <1>2, <2>1 DEF Updated, Live, Project
    <2>2. CASE pv \in Live(v, NewProjects(v))
      <3>1. PICK p \in NewProjects(v) : pv.project = p
        BY <2>2 DEF Live
      <3>2. p.guid \in Guids /\ p.copy \in 1 .. 2 /\ p.copy <= Listing(v)[p.guid]
        BY <3>1 DEF NewProjects
      <3> QED
        BY <1>1, <3>1, <3>2
    <2> QED
      BY <2>1, <2>2
  <1>8. ASSUME NEW g \in Guids, Listing(v)[g] > 0 PROVE \E pv \in live : pv.project.guid = g
    <2>1. CASE \E p \in projects : p.guid = g
      <3>1. PICK p \in projects : p.guid = g
        BY <2>1
      <3>2. [project |-> p, version |-> v, isDeleted |-> FALSE, asOf |-> disk[v]] \in Updated(v)
        BY <1>8, <3>1 DEF Updated, Live
      <3> QED
        BY <3>1, <3>2
    <2>2. CASE \A p \in projects : p.guid # g
      <3> DEFINE p == [guid |-> g, since |-> disk[v], copy |-> 1]
      <3>1. p \in NewProjects(v)
        BY <1>1, <1>8, <2>2 DEF NewProjects
      <3>2. [project |-> p, version |-> v, isDeleted |-> FALSE, asOf |-> disk[v]]
              \in Live(v, NewProjects(v))
        BY <3>1 DEF Live
      <3> QED
        BY <3>2
    <2> QED
      BY <2>1, <2>2
  <1>9. {pv.project.guid : pv \in live} = {g \in Guids : Listing(v)[g] > 0}
    <2> HIDE DEF live
    <2> QED
      BY <1>7, <1>8
  <1> QED
    BY <1>4, <1>5, <1>6, <1>9

LEMMA NextProjectsInv == ProjectsInv /\ [Next]_vars => ProjectsInv'
  <1> SUFFICES ASSUME ProjectsInv, [Next]_vars, NEW v \in Versions
               PROVE  /\ \/ parsed'[v] = revision'[v]
                         \/ v \in brokenOff'
                         \/ stage' = "saved" /\ version' = v
                      /\ parsed'[v] = NoCommit => LiveRows(v)' = {}
                      /\ parsed'[v] # NoCommit => ProjectsOf(v, parsed[v])'
    BY NextTypeInv DEF ProjectsInv, ProjectsOfOneCommit, ProjectsOf, LiveRows
  <1>1. /\ TypeInv /\ v \in DOMAIN parsed /\ v \in DOMAIN revision /\ version \in Versions
        /\ parsed[v] = revision[v] \/ v \in brokenOff \/ (stage = "saved" /\ version = v)
    BY DEF ProjectsInv, ProjectsOfOneCommit, TypeInv, TypeOK
  <1>2. CASE ParseProjects
    <2>1. /\ parsed' = [parsed EXCEPT ![version] = disk[version]]
          /\ brokenOff' = brokenOff \ {version}
          /\ UNCHANGED <<revision, log, disk, version>>
          /\ stage = "saved" /\ revision[version] = disk[version]
          /\ disk[version] \in Commits(version)
      BY <1>1, <1>2 DEF ParseProjects, repository, TypeInv, PollInv
    <2>2. CASE v = version
      <3>1. parsed'[v] = disk[v] /\ disk[v] # NoCommit
        BY <1>1, <2>1, <2>2, LogTypes DEF NoCommit, Numbers
      <3>2. ProjectsOf(v, parsed[v])'
        BY <1>1, <1>2, <2>1, <2>2, <3>1, ProjectsParsed DEF ProjectsOf, Listing
      <3> QED
        BY <2>1, <2>2, <3>1, <3>2
    <2>3. CASE v # version
      <3>1. parsed'[v] = parsed[v] /\ Rows(v)' = Rows(v)
        BY <1>1, <1>2, <2>1, <2>3, ProjectsParsed
      <3>2. /\ parsed[v] = NoCommit => LiveRows(v)' = {}
            /\ parsed[v] # NoCommit => ProjectsOf(v, parsed[v])'
        BY <3>1, ProjectsKept
      <3> QED
        BY <1>1, <2>1, <2>3, <3>1, <3>2 DEF ProjectsOf
    <2> QED
      BY <2>2, <2>3
  <1>3. CASE ~ParseProjects
    <2>1. UNCHANGED <<projects, projectVersions, parsed>>
      BY <1>3 DEF Next, TimerNext, vars, repository, tables, history, Commit, DeleteBranch,
         ArchiveVersion, CreateVersion, BeginTick, BeginTake, ArchiveSource, ArchiveFails,
         LoadSources, SourceMissing, LoadSourcesFails, SaveRevision, LoadSourcesInfoFails,
         ParseFails, RestartServer
    <2>2. /\ parsed[v] = NoCommit => LiveRows(v)' = {}
          /\ parsed[v] # NoCommit => ProjectsOf(v, parsed[v])'
      BY <2>1, ProjectsKept DEF Rows
    <2>3. \/ parsed'[v] = revision'[v]
          \/ v \in brokenOff'
          \/ stage' = "saved" /\ version' = v
      <3>1. CASE SaveRevision
        BY <1>1, <2>1, <3>1 DEF SaveRevision, history
      <3>2. CASE ParseFails \/ RestartServer
        BY <1>1, <2>1, <3>2 DEF ParseFails, RestartServer, tables
      <3>3. CASE ~SaveRevision /\ ~ParseFails /\ ~RestartServer
        <4>1. /\ UNCHANGED <<revision, brokenOff>>
              /\ stage = "saved" => UNCHANGED <<stage, version>>
          BY <1>3, <3>3 DEF Next, TimerNext, vars, repository, tables, timer, history, Commit,
             DeleteBranch, ArchiveVersion, CreateVersion, BeginTick, BeginTake, ArchiveSource,
             ArchiveFails, LoadSources, SourceMissing, LoadSourcesFails, LoadSourcesInfoFails, Polls
        <4> QED
          BY <1>1, <2>1, <4>1
      <3> QED
        BY <3>1, <3>2, <3>3
    <2> QED
      BY <2>1, <2>2, <2>3 DEF ProjectsOf
  <1> QED
    BY <1>2, <1>3

\* The projects of a version are those of the last commit parsed completely, which is the saved
\* revision except while its parse runs or when it broke off.
THEOREM SourcesProjectsOfOneCommit == Spec => []ProjectsOfOneCommit
  <1>1. Init => ProjectsInv
    BY InitTypeInv DEF Init, ProjectsInv, ProjectsOfOneCommit, Rows
  <1>2. ProjectsInv => ProjectsOfOneCommit
    BY DEF ProjectsInv
  <1> QED
    BY <1>1, <1>2, NextProjectsInv, PTL DEF Spec

-----------------------------------------------------------------------------
(* Rows for the same guid.                                                 *)

LEMMA NextRowsInv == RowsInv /\ [Next]_vars => RowsInv'
  <1> SUFFICES ASSUME RowsInv, [Next]_vars PROVE OneProjectForVersions'
    BY NextTypeInv DEF RowsInv
  <1>1. \A p \in projects : p.since \in DOMAIN log /\ log'[p.since] = log[p.since]
    BY LogGrows DEF RowsInv, TypeInv, CommitsInv
  <1>2. CASE ParseProjects
    <2>1. /\ projects' = projects \union NewProjects(version) /\ UNCHANGED log
          /\ Listing(version) = log[disk[version]].listing
          /\ Listing(version) \in [Guids -> Nat]
      BY <1>2, LogTypes DEF ParseProjects, repository, Listing, RowsInv, TypeInv, PollInv
    <2>2. ASSUME NEW p \in NewProjects(version), NEW q \in projects PROVE p.guid # q.guid
      BY DEF NewProjects
    <2>3. ASSUME NEW p \in NewProjects(version), NEW q \in NewProjects(version),
                 p.guid = q.guid, p # q
          PROVE  p.since = q.since /\ log[p.since].listing[p.guid] > 1
      <3>1. /\ p \in [guid : Guids, since : {disk[version]}, copy : 1 .. 2]
            /\ q \in [guid : Guids, since : {disk[version]}, copy : 1 .. 2]
            /\ p.copy <= Listing(version)[p.guid] /\ q.copy <= Listing(version)[q.guid]
        BY DEF NewProjects
      <3>2. p.since = disk[version] /\ q.since = disk[version] /\ p.copy # q.copy
        BY <2>3, <3>1
      <3>3. p.copy = 2 \/ q.copy = 2
        BY <3>1, <3>2
      <3> QED
        BY <2>1, <2>3, <3>1, <3>2, <3>3
    <2> QED
      BY <2>1, <2>2, <2>3 DEF RowsInv, OneProjectForVersions
  <1>3. CASE ~ParseProjects
    <2>1. UNCHANGED projects
      BY <1>3 DEF Next, TimerNext, vars, repository, tables, history, Commit, DeleteBranch,
         ArchiveVersion, CreateVersion, BeginTick, BeginTake, ArchiveSource, ArchiveFails,
         LoadSources, SourceMissing, LoadSourcesFails, SaveRevision, LoadSourcesInfoFails,
         ParseFails, RestartServer
    <2> QED
      BY <1>1, <2>1 DEF RowsInv, OneProjectForVersions
  <1> QED
    BY <1>2, <1>3

\* A guid has more than one row only if the commit that created them lists it more than once:
\* the versions share the rows of their projects.
THEOREM SourcesOneProjectForVersions == Spec => []OneProjectForVersions
  <1>1. Init => RowsInv
    BY InitTypeInv DEF Init, RowsInv, OneProjectForVersions
  <1>2. RowsInv => OneProjectForVersions
    BY DEF RowsInv
  <1> QED
    BY <1>1, <1>2, NextRowsInv, PTL DEF Spec
=============================================================================
