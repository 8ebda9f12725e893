---------------------------- MODULE BundleVersions ----------------------------
(***************************************************************************)
(* The versions of one bundle, as the web requests of several users edit   *)
(* them: the deployment steps with their order (MoveUp, MoveDown, SaveXStep,*)
(* DeleteStep of BundleVersionDeploymentController), the project versions  *)
(* a bundle version refers to, which are what its packages contain         *)
(* (UpdateProjectReference), and new versions that start as a copy of      *)
(* another (BundlesController.CreateNewVersion).  A request reads what it  *)
(* needs, computes its changes, and saves them in one transaction; between *)
(* the two, other requests save theirs.                                    *)
(***************************************************************************)
EXTENDS Integers, FiniteSets, Sequences, SequencesExt

CONSTANTS
  Users,
  ProjectVersions,
  Projects,
  ProjectOf,          \* ProjectOf[p]: the project p is a version of
  TestProjects,       \* project versions that RunVsTests steps take
  NoProject,          \* the property ProjectId of a step that has none
  SingleInstance,     \* IsSingleInstance of the bundle
  MaxVersions,        \* bound on the versions
  MaxSteps,           \* bound on the rows DeploymentStep ever created
  MaxRequests         \* bound on the requests

ASSUME BundleVersionsAssumption ==
  /\ ProjectOf \in [ProjectVersions -> Projects]
  /\ TestProjects \subseteq ProjectVersions
  /\ NoProject \notin ProjectVersions
  /\ SingleInstance \in BOOLEAN
  /\ MaxVersions \in Nat \ {0}
  /\ MaxSteps \in Nat
  /\ MaxRequests \in Nat

VARIABLES
  steps,        \* the table DeploymentStep: a row for each id, with its property ProjectId
  refs,         \* refs[v]: ProjectVersions of bundle version v
  isHead,       \* the versions with IsHead
  autoDeploy,   \* the versions with AutoDeployToEnvironment
  lastVersion,  \* the last id of a bundle version
  lastStep,     \* the last id of a step
  request,      \* request[u]: the changes that the request of u is about to save
  requests,     \* requests so far
  stale,        \* history: stale[u]: what others have saved of what the request of u touches
  clashed,      \* history: what of which version a stale request has been saved over
  uneven,       \* history: versions in which a step before the last has been deleted
  left          \* history: projects of steps deleted since the references were last updated

tables == <<steps, refs, isHead, autoDeploy, lastVersion, lastStep>>
history == <<clashed, uneven, left>>
vars == <<tables, request, requests, stale, history>>

Versions == 1 .. MaxVersions
Ids == 1 .. MaxSteps

NoRequest == [kind |-> "none"]

\* A bundle with a version that has no step yet and is deployed automatically.
Init ==
  /\ steps = << >>
  /\ refs = [v \in Versions |-> {}]
  /\ isHead = {1}
  /\ autoDeploy = {1}
  /\ lastVersion = 1
  /\ lastStep = 0
  /\ request = [u \in Users |-> NoRequest]
  /\ requests = 0
  /\ stale = [u \in Users |-> {}]
  /\ clashed = {}
  /\ uneven = {}
  /\ left = [v \in Versions |-> {}]

StepsOf(v) == {id \in DOMAIN steps : steps[id].version = v}

ProjectsOf(ids) == {steps[id].project : id \in ids} \ {NoProject}

-----------------------------------------------------------------------------
(* Requests: what they read and the changes they compute.                  *)

Nothing == << >>
NoStep == 0

\* What a request to a version changes, or computes its changes from: its head, the order of
\* its steps, or its references.
Touches(r) ==
  (IF r.kind = "create" THEN {"head"} ELSE {})
  \union (IF r.kind \in {"up", "down", "add", "delete"} THEN {"order"} ELSE {})
  \union (IF r.updated \/ r.kind = "delete" THEN {"references"} ELSE {})

Open(u, r) ==
  /\ request[u] = NoRequest
  /\ requests < MaxRequests
  /\ request' = [request EXCEPT ![u] = r]
  /\ requests' = requests + 1
  /\ UNCHANGED <<tables, stale, history>>

\* What is asked, of which step or, for a new one and a new version, none; and the changes: new
\* values of OrderIndex and of ProjectId, rows added and deleted, whether the references are
\* updated, and which are added and removed.
Changes(kind, v, step) ==
  [kind |-> kind, version |-> v, step |-> step, order |-> Nothing, project |-> Nothing,
   added |-> << >>, deleted |-> {}, updated |-> FALSE, linked |-> {}, unlinked |-> {},
   head |-> FALSE, auto |-> FALSE]

\* id comes directly before next in a list ordered by OrderIndex, equal ones in any order.
Before(id, next) ==
  LET v == steps[next].version IN
  /\ id \in StepsOf(v) \ {next}
  /\ steps[id].order <= steps[next].order
  /\ ~\E other \in StepsOf(v) :
        steps[id].order < steps[other].order /\ steps[other].order < steps[next].order

Exchanged(kind, step, id, next) ==
  [Changes(kind, steps[step].version, step) EXCEPT
     !.order = [i \in {id, next} |-> IF i = id THEN steps[id].order + 1
                                             ELSE steps[next].order - 1]]

\* Mistaken variant: the step changes places with the one below it.
MoveUpDown(u, id) ==
  \E next \in DOMAIN steps :
    /\ Before(id, next)
    /\ Open(u, Exchanged("up", id, id, next))

MoveUp(u, id) ==
  \E previous \in DOMAIN steps :
    /\ Before(previous, id)
    /\ Open(u, Exchanged("up", id, previous, id))

MoveDown(u, id) ==
  \E next \in DOMAIN steps :
    /\ Before(id, next)
    /\ Open(u, Exchanged("down", id, id, next))

\* Mistaken variant: what no step uses is removed, but nothing is added.
UpdateProjectReferenceRemoving(r, used, projectId) ==
  [r EXCEPT !.updated = TRUE, !.unlinked = refs[r.version] \ used]

\* Mistaken variant: the model of a step being deleted has no project, and that is added too.
UpdateProjectReferenceUnchecked(r, used, projectId) ==
  [r EXCEPT !.updated = TRUE,
            !.unlinked = refs[r.version] \ used,
            !.linked = {projectId} \ refs[r.version]]

\* The references no step uses are removed, the one of the model is added.
UpdateProjectReference(r, used, projectId) ==
  [r EXCEPT !.updated = TRUE,
            !.unlinked = refs[r.version] \ used,
            !.linked = {projectId} \ (refs[r.version] \union {NoProject})]

\* GetDeploymentStep of a model without an id: a new step behind the ones there are.
AddStep(u, v, p) ==
  LET row == [order |-> Cardinality(StepsOf(v)) + 1, project |-> p]
      r == [Changes("add", v, NoStep) EXCEPT !.added = <<row>>]
  IN
  /\ v <= lastVersion
  /\ Open(u, IF p = NoProject THEN r
             ELSE UpdateProjectReference(r, ProjectsOf(StepsOf(v)) \union {p}, p))

\* The project of a step may be exchanged for another one; the type of a step stays.
SaveStep(u, id, p) ==
  LET v == steps[id].version
      r == [Changes("save", v, id) EXCEPT
              !.project = IF p = steps[id].project THEN Nothing ELSE [i \in {id} |-> p]]
  IN
  /\ {p, steps[id].project} \subseteq ProjectVersions
  /\ p \in TestProjects <=> steps[id].project \in TestProjects
  /\ Open(u, UpdateProjectReference(r, ProjectsOf(StepsOf(v) \ {id}) \union {p}, p))

\* The references are updated while the step is still there, and not for RunVsTests.
DeleteStep(u, id) ==
  LET v == steps[id].version
      r == [Changes("delete", v, id) EXCEPT !.deleted = {id}]
  IN Open(u, IF steps[id].project \in TestProjects \union {NoProject} THEN r
             ELSE UpdateProjectReference(r, ProjectsOf(StepsOf(v)), NoProject))

\* The steps in the order they are copied, each with the project version it is mapped to.
CopiesOf(v, mapping) ==
  LET ids == SetToSeq(StepsOf(v)) IN
  [i \in DOMAIN ids |->
     [order |-> steps[ids[i]].order,
      project |-> IF steps[ids[i]].project = NoProject THEN NoProject
                  ELSE mapping[steps[ids[i]].project]]]

\* A step whose project the version does not refer to, or whose project does not exist in the
\* chosen source, ends the request with an exception.
CreateNewVersion(u, v) ==
  LET used == ProjectsOf(StepsOf(v)) IN
  /\ v <= lastVersion
  /\ lastVersion < MaxVersions
  /\ used \subseteq refs[v]
  /\ \E mapping \in [used -> ProjectVersions] :
       /\ \A p \in used : ProjectOf[mapping[p]] = ProjectOf[p]
       /\ Open(u, [Changes("create", v, NoStep) EXCEPT
                     !.added = CopiesOf(v, mapping),
                     !.linked = {mapping[p] : p \in used},
                     !.head = v \in isHead,
                     !.auto = v \in autoDeploy])

-----------------------------------------------------------------------------
(* SaveChanges: one transaction.                                           *)

\* The version a request writes its rows for: a new one, or the one it has read.
Target(r) == IF r.kind = "create" THEN lastVersion + 1 ELSE r.version

\* A row to change or delete is gone, a reference to remove is gone or one to add is there.
Conflict(r) ==
  \/ ~(DOMAIN r.order \union DOMAIN r.project \union r.deleted \subseteq DOMAIN steps)
  \/ ~(r.unlinked \subseteq refs[Target(r)])
  \/ r.linked \intersect refs[Target(r)] # {}

SavedSteps(r) ==
  [id \in (DOMAIN steps \ r.deleted) \union (lastStep + 1 .. lastStep + Len(r.added)) |->
     IF id > lastStep
     THEN [version |-> Target(r), order |-> r.added[id - lastStep].order,
           project |-> r.added[id - lastStep].project]
     ELSE [version |-> steps[id].version,
           order   |-> IF id \in DOMAIN r.order THEN r.order[id] ELSE steps[id].order,
           project |-> IF id \in DOMAIN r.project THEN r.project[id] ELSE steps[id].project]]

\* Mistaken variant: the version it starts from remains the head.
SavedHeadsAll(r) == IF r.head THEN isHead \union {Target(r)} ELSE isHead

SavedHeads(r) == IF r.head THEN (isHead \ {r.version}) \union {Target(r)} ELSE isHead

SavedAutoDeploy(r) ==
  (IF r.kind = "create" /\ SingleInstance THEN autoDeploy \ {r.version} ELSE autoDeploy)
  \union (IF r.auto THEN {Target(r)} ELSE {})

IsLast(id) == \A other \in StepsOf(steps[id].version) : steps[other].order <= steps[id].order

Upset(r) ==
  IF r.kind = "create"
  THEN IF r.version \in uneven \/ <<r.version, "order">> \in clashed THEN {Target(r)} ELSE {}
  ELSE IF \A id \in r.deleted : IsLast(id) THEN {} ELSE {r.version}

\* What a save of r makes stale in the request of w.
Overwrites(r, w) ==
  IF request[w] # NoRequest /\ request[w].version = r.version
  THEN Touches(request[w]) \intersect Touches(r)
  ELSE {}

Save(u) ==
  LET r == request[u] IN
  /\ r # NoRequest
  /\ Target(r) <= MaxVersions
  /\ lastStep + Len(r.added) <= MaxSteps
  /\ ~Conflict(r)
  /\ steps' = SavedSteps(r)
  /\ refs' = [refs EXCEPT ![Target(r)] = (@ \ r.unlinked) \union r.linked]
  /\ isHead' = SavedHeads(r)
  /\ autoDeploy' = SavedAutoDeploy(r)
  /\ lastVersion' = IF r.kind = "create" THEN Target(r) ELSE lastVersion
  /\ lastStep' = lastStep + Len(r.added)
  /\ request' = [request EXCEPT ![u] = NoRequest]
  /\ uneven' = uneven \union Upset(r)
  /\ left' = [left EXCEPT ![r.version] =
                (IF r.updated THEN {} ELSE @) \union ProjectsOf(r.deleted)]
  /\ stale' = [w \in Users |-> IF w = u THEN {} ELSE stale[w] \union Overwrites(r, w)]
  /\ clashed' = clashed \union {<<r.version, aspect>> : aspect \in stale[u]}
  /\ UNCHANGED requests

\* An exception, from a conflict or anything else, or a restart: nothing has been saved.
BreakOff(u) ==
  /\ request[u] # NoRequest
  /\ request' = [request EXCEPT ![u] = NoRequest]
  /\ stale' = [stale EXCEPT ![u] = {}]
  /\ UNCHANGED <<tables, requests, history>>

-----------------------------------------------------------------------------
Next ==
  \E u \in Users :
    \/ \E id \in DOMAIN steps :
         \/ MoveUp(u, id)
         \/ MoveDown(u, id)
         \/ DeleteStep(u, id)
         \/ \E p \in ProjectVersions : SaveStep(u, id, p)
    \/ \E v \in Versions, p \in ProjectVersions \union {NoProject} : AddStep(u, v, p)
    \/ \E v \in Versions : CreateNewVersion(u, v)
    \/ Save(u)
    \/ BreakOff(u)

Spec == Init /\ [][Next]_vars

-----------------------------------------------------------------------------
(* Properties.                                                             *)

Aspects == {"head", "order", "references"}

Row == [version : Versions, order : Int, project : ProjectVersions \union {NoProject}]

TypeOK ==
  /\ DOMAIN steps \subseteq Ids
  /\ \A id \in DOMAIN steps : steps[id] \in Row
  /\ refs \in [Versions -> SUBSET ProjectVersions]
  /\ isHead \subseteq Versions
  /\ autoDeploy \subseteq Versions
  /\ lastVersion \in Versions
  /\ lastStep \in 0 .. MaxSteps
  /\ DOMAIN request = Users
  /\ requests \in 0 .. MaxRequests
  /\ stale \in [Users -> SUBSET Aspects]
  /\ clashed \subseteq Versions \X Aspects
  /\ uneven \subseteq Versions
  /\ left \in [Versions -> SUBSET ProjectVersions]

\* Packages are made of the projects a version refers to, and its page and its deployments
\* look the project of each step up among them: whatever requests are saved in between, it
\* refers to the project of every step, and beyond them only to projects of steps that were
\* deleted after the references had last been updated; unless a request has been saved whose
\* references another one had changed after it had read them.
ReferencesMatchSteps ==
  \A v \in Versions : <<v, "references">> \notin clashed =>
    LET used == ProjectsOf(StepsOf(v)) IN
      /\ used \subseteq refs[v]
      /\ refs[v] \subseteq used \union left[v]

\* However many versions are created, a bundle has one head version, and with a single instance
\* at most one that is deployed automatically: two of them would replace one another in every
\* tick (CreateNewVersion); unless a version is created from one that had another one created
\* from it after it had been read.
OneSuccessor ==
  (\A v \in Versions : <<v, "head">> \notin clashed) =>
    /\ Cardinality(isHead) = 1
    /\ SingleInstance => Cardinality(autoDeploy) <= 1

\* Step a is listed, and run, before step b.
Above(a, b) == steps[a].version = steps[b].version /\ steps[a].order < steps[b].order

\* The request asks for a to change places with b, the one below it.
Exchanges(r, a, b) ==
  /\ Before(a, b)
  /\ \/ r.kind = "up" /\ r.step = b
     \/ r.kind = "down" /\ r.step = a

\* Each request changes the lists as its button says: a step is deleted only by its own request;
\* a step moves up or down past one neighbour and every two others stay as they were; and a new
\* one comes last.  After a step before the last has been deleted, a move may fail to pass the
\* neighbour and a new step may come anywhere, but no other two steps change places.  Nothing is
\* said of the steps of a version once a request has been saved over a list that another one
\* had changed after it had been read.
ListsChangeAsAsked == [][
  \A u \in Users : Save(u) =>
    LET r == request[u]
        kept == {id \in DOMAIN steps : id \in DOMAIN steps'
                                        /\ <<steps[id].version, "order">> \notin clashed'}
    IN /\ DOMAIN steps \ DOMAIN steps' = IF r.kind = "delete" THEN {r.step} ELSE {}
       /\ \A a, b \in kept :
            /\ Above(a, b) => ~Above(b, a)' \/ Exchanges(r, a, b)
            /\ steps[a].version \notin uneven =>
                 (Above(a, b)' <=> Exchanges(r, b, a) \/ (Above(a, b) /\ ~Exchanges(r, a, b)))
       /\ (r.kind = "add" /\ r.version \notin uneven) =>
            \A a \in kept \intersect StepsOf(r.version), b \in DOMAIN steps' \ DOMAIN steps :
              Above(a, b)'
  ]_vars
=============================================================================
