-------------------------- MODULE BundleVersionsProofs --------------------------
(***************************************************************************)
(* Proofs about BundleVersions, for any number of users, projects,         *)
(* versions, steps and requests: what packages contain and what steps      *)
(* deploy stay together, a bundle has one head, and lists of steps change  *)
(* as the buttons say.                                                     *)
(***************************************************************************)
EXTENDS BundleVersions, FiniteSetTheorems, SequenceTheorems, TLAPS

NewRow == [order : Int, project : ProjectVersions \union {NoProject}]

\* A list of steps whose orders are the numbers from 1 on, without gaps and ties.
Even(S, rows) ==
  /\ \A id \in S : rows[id].order \in 1 .. Cardinality(S)
  /\ \A a, b \in S : rows[a].order = rows[b].order => a = b

-----------------------------------------------------------------------------
(* What is known of a request for as long as it is open.                   *)

\* Its fields.
IsRequest(r) ==
  /\ r.kind \in {"up", "down", "add", "save", "delete", "create"}
  /\ r.version \in 1 .. lastVersion
  /\ \A id \in DOMAIN r.order : r.order[id] \in Int
  /\ \A id \in DOMAIN r.project : r.project[id] \in ProjectVersions
  /\ r.added \in Seq(NewRow)
  /\ r.updated \in BOOLEAN
  /\ r.linked \subseteq ProjectVersions

\* What it changes, by its kind.
KeepsReferences(r) == ~r.updated /\ r.linked = {} /\ r.unlinked = {}

Moves(r) ==
  /\ r.kind \in {"up", "down"}
  /\ r.step \in DOMAIN r.order
  /\ DOMAIN r.project = {} /\ r.added = << >> /\ r.deleted = {}
  /\ KeepsReferences(r)

Adds(r) ==
  /\ r.kind = "add"
  /\ DOMAIN r.order = {} /\ DOMAIN r.project = {} /\ r.deleted = {}
  /\ Len(r.added) = 1
  /\ IF r.added[1].project = NoProject THEN KeepsReferences(r) ELSE r.updated

Edits(r) ==
  /\ r.kind = "save"
  /\ DOMAIN r.order = {} /\ r.added = << >> /\ r.deleted = {}
  /\ r.updated

Deletes(r) ==
  /\ r.kind = "delete"
  /\ DOMAIN r.order = {} /\ DOMAIN r.project = {} /\ r.added = << >>
  /\ r.deleted = {r.step}
  /\ KeepsReferences(r) \/ r.updated

Creates(r) ==
  /\ r.kind = "create"
  /\ DOMAIN r.order = {} /\ DOMAIN r.project = {} /\ r.deleted = {} /\ r.unlinked = {}
  /\ ~r.updated
  /\ r.linked = {r.added[i].project : i \in DOMAIN r.added} \ {NoProject}

Shape(r) ==
  /\ r.kind # "create" => ~r.head /\ ~r.auto
  /\ Moves(r) \/ Adds(r) \/ Edits(r) \/ Deletes(r) \/ Creates(r)

\* The rows it changes are those of steps of its version, if they are still there.
Belongs(r) ==
  \A id \in DOMAIN r.order \union DOMAIN r.project \union r.deleted :
    /\ id \in 1 .. lastStep
    /\ id \in DOMAIN steps => steps[id].version = r.version

\* A copy is a list like the one it is made from.
Copied(r) ==
  r.kind = "create" /\ r.version \notin uneven /\ <<r.version, "order">> \notin clashed
    => Even(DOMAIN r.added, r.added)

Sound(r) == IsRequest(r) /\ Shape(r) /\ Belongs(r) /\ Copied(r)

-----------------------------------------------------------------------------
(* What is known of it until another request makes it stale: its changes   *)
(* are those that it would compute now.                                    *)

\* The references that remain are those to the projects used.
Updates(r, used, added) ==
  /\ r.updated
  /\ r.unlinked = refs[r.version] \ used
  /\ r.linked = added \ refs[r.version]

FitsReferences(r) ==
  /\ r.kind = "add" /\ r.added[1].project # NoProject =>
       LET p == r.added[1].project
       IN Updates(r, ProjectsOf(StepsOf(r.version)) \union {p}, {p})
  /\ r.kind = "save" =>
       \E id \in StepsOf(r.version), p \in ProjectVersions :
         /\ IF p = steps[id].project THEN DOMAIN r.project = {}
            ELSE DOMAIN r.project = {id} /\ r.project[id] = p
         /\ Updates(r, ProjectsOf(StepsOf(r.version) \ {id}) \union {p}, {p})
  /\ r.kind = "delete" => KeepsReferences(r) \/ Updates(r, ProjectsOf(StepsOf(r.version)), {})

\* A move exchanges two neighbours, and a new step comes behind the others.
FitsOrder(r) ==
  /\ r.kind \in {"up", "down"} =>
       \E a, b \in StepsOf(r.version) :
         /\ Before(a, b)
         /\ r.step = IF r.kind = "up" THEN b ELSE a
         /\ DOMAIN r.order = {a, b}
         /\ r.order[a] = steps[a].order + 1
         /\ r.order[b] = steps[b].order - 1
  /\ r.kind = "add" => r.added[1].order = Cardinality(StepsOf(r.version)) + 1

FitsHead(r) ==
  r.kind = "create" => (r.head <=> r.version \in isHead) /\ (r.auto <=> r.version \in autoDeploy)

Fits(r, old) ==
  /\ "references" \notin old => FitsReferences(r)
  /\ "order" \notin old => FitsOrder(r)
  /\ "head" \notin old => FitsHead(r)

-----------------------------------------------------------------------------
(* The invariant.                                                          *)

\* Steps have ids and versions that have been given away, and a version to come refers to
\* nothing.
Given ==
  /\ DOMAIN steps \subseteq 1 .. lastStep
  /\ \A id \in DOMAIN steps : steps[id].version <= lastVersion
  /\ \A v \in Versions : v > lastVersion => refs[v] = {}

RequestOf(u) ==
  IF request[u] = NoRequest THEN stale[u] = {}
  ELSE Sound(request[u]) /\ Fits(request[u], stale[u])

Requests ==
  /\ request = [u \in Users |-> request[u]]
  /\ \A u \in Users : RequestOf(u)

\* Unless a request whose head was stale has been saved, a head, and at most one version of a
\* single instance that is deployed automatically.
Heads ==
  (\A v \in Versions : <<v, "head">> \notin clashed) =>
    /\ \E v \in Versions : isHead = {v}
    /\ SingleInstance => autoDeploy = {} \/ \E v \in Versions : autoDeploy = {v}

ReferencesOf(v) ==
  /\ ProjectsOf(StepsOf(v)) \subseteq refs[v]
  /\ refs[v] \subseteq ProjectsOf(StepsOf(v)) \union left[v]

References == \A v \in Versions : <<v, "references">> \notin clashed => ReferencesOf(v)

EvenLists ==
  \A v \in Versions : v \notin uneven /\ <<v, "order">> \notin clashed => Even(StepsOf(v), steps)

TypeInv == TypeOK /\ Given

Inv == TypeInv /\ Requests /\ Heads /\ References /\ EvenLists

-----------------------------------------------------------------------------
(* Sets of steps.                                                          *)

LEMMA SequenceOf ==
  ASSUME NEW S, IsFiniteSet(S)
  PROVE  /\ SetToSeq(S) \in [1 .. Cardinality(S) -> S]
         /\ Cardinality(S) \in Nat
         /\ IsInjective(SetToSeq(S))
         /\ \A x \in S : \E i \in 1 .. Cardinality(S) : SetToSeq(S)[i] = x
  <1> DEFINE n == Cardinality(S)
  <1>1. n \in Nat /\ IsFiniteSet(1 .. n) /\ Cardinality(1 .. n) = n
    BY FS_CardinalityType, FS_Interval
  <1>2. \E f : f \in Bijection(1 .. n, S)
    BY FS_NatBijection, <1>1, FS_CountingElements DEF ExistsBijection
  <1>3. \E f \in [1 .. n -> S] : IsInjective(f)
    BY <1>2 DEF Bijection, Injection, IsInjective
  <1>4. SetToSeq(S) \in [1 .. n -> S] /\ IsInjective(SetToSeq(S))
    BY <1>3 DEF SetToSeq
  <1>5. SetToSeq(S) \in Injection(1 .. n, S)
    BY <1>4 DEF Injection, IsInjective
  <1>6. SetToSeq(S) \in Surjection(1 .. n, S)
    BY <1>1, <1>5, FS_Injection
  <1> QED
    BY <1>1, <1>4, <1>6 DEF Surjection

LEMMA FiniteSteps ==
  ASSUME TypeInv, NEW v
  PROVE  IsFiniteSet(StepsOf(v)) /\ Cardinality(StepsOf(v)) \in Nat
  <1>1. StepsOf(v) \subseteq 1 .. MaxSteps /\ MaxSteps \in Nat
    BY BundleVersionsAssumption DEF TypeInv, TypeOK, Ids, StepsOf
  <1>2. IsFiniteSet(1 .. MaxSteps)
    BY <1>1, FS_Interval
  <1> QED
    BY <1>1, <1>2, FS_Subset, FS_CardinalityType

\* The steps, and the projects they have.
LEMMA StepTypes ==
  ASSUME TypeInv
  PROVE  /\ \A v : \A id \in StepsOf(v) :
               /\ id \in DOMAIN steps /\ id \in 1 .. lastStep
               /\ steps[id].version = v /\ v \in 1 .. lastVersion
               /\ steps[id].order \in Int
               /\ steps[id].project \in ProjectVersions \union {NoProject}
         /\ \A id \in DOMAIN steps : id \in StepsOf(steps[id].version)
         /\ \A ids : ids \subseteq DOMAIN steps => ProjectsOf(ids) \subseteq ProjectVersions
         /\ \A v : ProjectsOf(StepsOf(v)) \subseteq ProjectVersions
  <1>1. \A id \in DOMAIN steps :
          /\ steps[id].version \in Versions /\ steps[id].version <= lastVersion
          /\ id \in 1 .. lastStep
          /\ steps[id].order \in Int
          /\ steps[id].project \in ProjectVersions \union {NoProject}
    BY DEF TypeInv, TypeOK, Given, Row
  <1>2. \A v : v \in Versions /\ v <= lastVersion => v \in 1 .. lastVersion
    BY BundleVersionsAssumption DEF TypeInv, TypeOK, Versions
  <1>3. \A ids : ids \subseteq DOMAIN steps => ProjectsOf(ids) \subseteq ProjectVersions
    BY <1>1 DEF ProjectsOf
  <1>4. \A v : StepsOf(v) \subseteq DOMAIN steps
    BY DEF StepsOf
  <1>5. \A v : ProjectsOf(StepsOf(v)) \subseteq ProjectVersions
    BY <1>3, <1>4
  <1> QED
    BY <1>1, <1>2, <1>3, <1>5 DEF StepsOf

-----------------------------------------------------------------------------
(* Opening a request, and steps that change no table.                      *)

\* What the facts about a request and the tables depend on.
TablesStay == UNCHANGED <<tables, clashed, uneven, left>>

LEMMA RequestStays ==
  ASSUME TablesStay, NEW r, NEW old
  PROVE  /\ Sound(r) => Sound(r)'
         /\ Fits(r, old) => Fits(r, old)'
  <1>1. /\ steps' = steps /\ refs' = refs /\ isHead' = isHead /\ autoDeploy' = autoDeploy
        /\ lastVersion' = lastVersion /\ lastStep' = lastStep
        /\ clashed' = clashed /\ uneven' = uneven
        /\ \A v : StepsOf(v)' = StepsOf(v) /\ \A ids : ProjectsOf(ids)' = ProjectsOf(ids)
        /\ \A a, b : Before(a, b)' = Before(a, b)
    BY DEF TablesStay, tables, StepsOf, ProjectsOf, Before
  <1>2. IsRequest(r) => IsRequest(r)'
    BY <1>1 DEF IsRequest, NewRow
  <1>3. Shape(r) => Shape(r)'
    BY DEF Shape, Moves, Adds, Edits, Deletes, Creates, KeepsReferences
  <1>4. Belongs(r) => Belongs(r)'
    BY <1>1 DEF Belongs
  <1>5. Copied(r) => Copied(r)'
    BY <1>1 DEF Copied, Even
  <1>6. \A used, added : Updates(r, used, added)' = Updates(r, used, added)
    BY <1>1 DEF Updates
  <1>7. FitsReferences(r) => FitsReferences(r)'
    <2>1. steps' = steps /\ refs' = refs
      BY <1>1
    <2> QED
      BY <2>1 DEF FitsReferences, KeepsReferences, Updates, StepsOf, ProjectsOf
  <1>8. FitsOrder(r) => FitsOrder(r)'
    BY <1>1 DEF FitsOrder, StepsOf, Before
  <1>9. FitsHead(r) => FitsHead(r)'
    BY <1>1 DEF FitsHead
  <1> QED
    BY <1>2, <1>3, <1>4, <1>5, <1>7, <1>8, <1>9 DEF Sound, Fits

LEMMA TableFactsStay ==
  ASSUME TypeInv, Heads, References, EvenLists, TablesStay
  PROVE  Given' /\ Heads' /\ References' /\ EvenLists'
  <1>1. Given' /\ Heads' /\ References'
    BY DEF TypeInv, TablesStay, tables, Given, Heads, References, ReferencesOf, StepsOf, ProjectsOf
  <1>2. EvenLists'
    BY DEF EvenLists, TablesStay, tables, Even, StepsOf
  <1> QED
    BY <1>1, <1>2

\* A request that has read the tables as they are.
Computes(r) == Sound(r) /\ Fits(r, {})

LEMMA OpenKeepsInv ==
  ASSUME Inv, NEW u \in Users, NEW r, Computes(r), Open(u, r)
  PROVE  Inv'
  <1>0. /\ TypeOK /\ TypeInv /\ Requests /\ Heads /\ References /\ EvenLists
        /\ TablesStay
    BY DEF Inv, TypeInv, Open, TablesStay, history
  <1>1. r # NoRequest
    BY DEF Computes, Sound, IsRequest, NoRequest
  <1>2. /\ request' = [request EXCEPT ![u] = r]
        /\ request = [w \in Users |-> request[w]]
        /\ request[u] = NoRequest /\ stale' = stale
    BY <1>0 DEF Open, Requests
  <1>3. /\ request' = [w \in Users |-> request'[w]]
        /\ request'[u] = r
        /\ \A w \in Users : w # u => request'[w] = request[w]
    BY <1>2
  <1>4. Requests'
    <2> SUFFICES ASSUME NEW w \in Users, NEW q, q = request'[w], NEW old, old = stale'[w]
                 PROVE  IF q = NoRequest THEN old = {} ELSE Sound(q)' /\ Fits(q, old)'
      BY <1>3 DEF Requests, RequestOf
    <2>1. CASE w # u
      <3>1. q = request[w] /\ old = stale[w]
        BY <1>2, <1>3, <2>1
      <3>2. IF q = NoRequest THEN old = {} ELSE Sound(q) /\ Fits(q, old)
        BY <1>0, <3>1 DEF Requests, RequestOf
      <3> QED
        BY <1>0, <3>2, RequestStays
    <2>2. CASE w = u
      <3>1. q = r /\ old = stale[u]
        BY <1>2, <1>3, <2>2
      <3>2. old = {}
        BY <1>0, <1>2, <3>1 DEF Requests, RequestOf
      <3>3. Sound(q) /\ Fits(q, old)
        BY <3>1, <3>2 DEF Computes
      <3> QED
        BY <1>0, <1>1, <3>1, <3>3, RequestStays
    <2> QED
      BY <2>1, <2>2
  <1>5. TypeOK'
    <2>1. /\ UNCHANGED <<steps, refs, isHead, autoDeploy, lastVersion, lastStep>>
          /\ UNCHANGED <<stale, clashed, uneven, left>>
          /\ requests < MaxRequests /\ requests' = requests + 1
      BY DEF Open, tables, history
    <2>2. requests' \in 0 .. MaxRequests
      BY <1>0, <2>1, BundleVersionsAssumption DEF TypeOK
    <2> QED
      BY <1>0, <1>3, <2>1, <2>2 DEF TypeOK, Row
  <1> QED
    BY <1>0, <1>4, <1>5, TableFactsStay DEF Inv, TypeInv

\* A step that opens no request and saves none.
LEMMA QuietStepKeepsInv ==
  ASSUME Inv, TablesStay, UNCHANGED requests,
         request' = [w \in Users |-> request'[w]], stale' \in [Users -> SUBSET Aspects],
         \A w \in Users : IF request'[w] = NoRequest THEN stale'[w] = {}
                          ELSE request'[w] = request[w] /\ stale'[w] = stale[w]
  PROVE  Inv'
  <1>0. TypeOK /\ TypeInv /\ Requests /\ Heads /\ References /\ EvenLists
    BY DEF Inv, TypeInv
  <1>1. Requests'
    <2> SUFFICES ASSUME NEW w \in Users, NEW q, q = request'[w], NEW old, old = stale'[w]
                 PROVE  IF q = NoRequest THEN old = {} ELSE Sound(q)' /\ Fits(q, old)'
      BY DEF Requests, RequestOf
    <2>1. IF q = NoRequest THEN old = {} ELSE q = request[w] /\ old = stale[w]
      OBVIOUS
    <2>2. IF q = NoRequest THEN old = {} ELSE Sound(q) /\ Fits(q, old)
      BY <1>0, <2>1 DEF Requests, RequestOf
    <2> QED
      BY <2>2, RequestStays
  <1>2. TypeOK'
    <2>1. UNCHANGED <<steps, refs, isHead, autoDeploy, lastVersion, lastStep, clashed, uneven, left>>
      BY DEF TablesStay, tables
    <2>2. DOMAIN request' = Users
      OBVIOUS
    <2> QED
      BY <1>0, <2>1, <2>2 DEF TypeOK, Row
  <1> QED
    BY <1>0, <1>1, <1>2, TableFactsStay DEF Inv, TypeInv

LEMMA BreakOffKeepsInv ==
  ASSUME Inv, NEW u \in Users, BreakOff(u)
  PROVE  Inv'
  <1>1. /\ request = [w \in Users |-> request[w]] /\ stale \in [Users -> SUBSET Aspects]
        /\ \A w \in Users : request[w] = NoRequest => stale[w] = {}
    BY DEF Inv, TypeInv, TypeOK, Requests, RequestOf
  <1>2. TablesStay /\ UNCHANGED requests
    BY DEF BreakOff, TablesStay, history
  <1>3. /\ request' = [request EXCEPT ![u] = NoRequest]
        /\ stale' = [stale EXCEPT ![u] = {}]
    BY DEF BreakOff
  <1>4. /\ request' = [w \in Users |-> request'[w]]
        /\ stale' \in [Users -> SUBSET Aspects]
        /\ request'[u] = NoRequest /\ stale'[u] = {}
        /\ \A w \in Users : w # u => request'[w] = request[w] /\ stale'[w] = stale[w]
    BY <1>1, <1>3
  <1> QED
    BY <1>1, <1>2, <1>4, QuietStepKeepsInv

LEMMA StutterKeepsInv ==
  ASSUME Inv, UNCHANGED vars
  PROVE  Inv'
  <1>1. /\ request = [w \in Users |-> request[w]] /\ stale \in [Users -> SUBSET Aspects]
        /\ \A w \in Users : request[w] = NoRequest => stale[w] = {}
    BY DEF Inv, TypeInv, TypeOK, Requests, RequestOf
  <1>2. TablesStay /\ UNCHANGED <<request, requests, stale>>
    BY DEF vars, TablesStay, history
  <1> QED
    BY <1>1, <1>2, QuietStepKeepsInv

-----------------------------------------------------------------------------
(* What each request computes.                                             *)

LEMMA NoRow == << >> \in Seq(NewRow)
  OBVIOUS

\* What changes a step of a version belongs to it.
LEMMA StepsBelong ==
  ASSUME TypeInv, NEW r, DOMAIN r.order \union DOMAIN r.project \union r.deleted \subseteq StepsOf(r.version)
  PROVE  Belongs(r)
  BY StepTypes DEF Belongs

LEMMA MoveComputes ==
  ASSUME TypeInv, NEW kind \in {"up", "down"}, NEW id \in DOMAIN steps, NEW next \in DOMAIN steps,
         Before(id, next), NEW step, step = IF kind = "up" THEN next ELSE id
  PROVE  Computes(Exchanged(kind, step, id, next))
  <1> DEFINE v == steps[step].version
             order == [i \in {id, next} |-> IF i = id THEN steps[id].order + 1
                                            ELSE steps[next].order - 1]
  <1>1. /\ id \in StepsOf(v) /\ next \in StepsOf(v) /\ id # next
        /\ step \in {id, next}
    BY DEF Before, StepsOf
  <1>2. v \in 1 .. lastVersion /\ steps[id].order \in Int /\ steps[next].order \in Int
    BY <1>1, StepTypes
  <1>3. /\ DOMAIN order = {id, next} /\ order[id] = steps[id].order + 1
        /\ order[next] = steps[next].order - 1
    BY <1>1
  <1> PICK r : r = Exchanged(kind, step, id, next)
    OBVIOUS
  <1>4. /\ r.kind = kind /\ r.version = v /\ r.step = step /\ r.order = order
        /\ DOMAIN r.project = {} /\ r.added = << >> /\ r.deleted = {}
        /\ r.updated = FALSE /\ r.linked = {} /\ r.unlinked = {}
        /\ r.head = FALSE /\ r.auto = FALSE
    BY DEF Exchanged, Changes, Nothing
  <1> HIDE DEF order, v
  <1>5. IsRequest(r)
    <2>1. \A i \in DOMAIN r.order : r.order[i] \in Int
      BY <1>2, <1>3, <1>4
    <2> QED
      BY <1>2, <1>4, <2>1, NoRow DEF IsRequest
  <1>6. Moves(r)
    BY <1>1, <1>3, <1>4 DEF Moves, KeepsReferences
  <1>7. Belongs(r)
    BY <1>1, <1>3, <1>4, StepsBelong
  <1>8. Sound(r)
    BY <1>4, <1>5, <1>6, <1>7 DEF Sound, Shape, Copied
  <1>9. FitsOrder(r)
    BY <1>1, <1>3, <1>4 DEF FitsOrder
  <1> QED
    BY <1>4, <1>8, <1>9 DEF Computes, Fits, FitsReferences, FitsHead

LEMMA AddComputes ==
  ASSUME TypeInv, NEW u \in Users, NEW v \in Versions, NEW p \in ProjectVersions \union {NoProject},
         AddStep(u, v, p)
  PROVE  \E r : Computes(r) /\ Open(u, r)
  <1> DEFINE row == [order |-> Cardinality(StepsOf(v)) + 1, project |-> p]
             r == [Changes("add", v, NoStep) EXCEPT !.added = <<row>>]
             used == ProjectsOf(StepsOf(v)) \union {p}
             q == UpdateProjectReference(r, used, p)
  <1>1. row \in NewRow /\ row.project = p /\ row.order = Cardinality(StepsOf(v)) + 1
    BY FiniteSteps DEF NewRow
  <1>2. v \in 1 .. lastVersion
    BY BundleVersionsAssumption DEF AddStep, Versions, TypeInv, TypeOK
  <1> HIDE DEF row
  <1>3. /\ r.kind = "add" /\ r.version = v /\ DOMAIN r.order = {} /\ DOMAIN r.project = {}
        /\ r.added = <<row>> /\ r.deleted = {} /\ r.updated = FALSE /\ r.linked = {} /\ r.unlinked = {}
        /\ r.head = FALSE /\ r.auto = FALSE
    BY DEF Changes, Nothing
  <1>4. /\ q.kind = "add" /\ q.version = v /\ DOMAIN q.order = {} /\ DOMAIN q.project = {}
        /\ q.added = <<row>> /\ q.deleted = {} /\ q.updated = TRUE
        /\ q.unlinked = refs[v] \ used /\ q.linked = {p} \ (refs[v] \union {NoProject})
        /\ q.head = FALSE /\ q.auto = FALSE
    BY DEF Changes, Nothing, UpdateProjectReference
  <1>5. Open(u, IF p = NoProject THEN r ELSE q)
    BY DEF AddStep, row
  <1> HIDE DEF r, q
  <1>6. /\ <<row>> \in Seq(NewRow) /\ Len(<<row>>) = 1 /\ <<row>>[1] = row
    BY <1>1
  <1>7. CASE p = NoProject
    <2>1. IsRequest(r)
      BY <1>2, <1>3, <1>6 DEF IsRequest
    <2>2. Adds(r)
      BY <1>1, <1>3, <1>6, <1>7 DEF Adds, KeepsReferences
    <2>3. Sound(r)
      BY <1>3, <2>1, <2>2 DEF Sound, Shape, Belongs, Copied
    <2>4. Fits(r, {})
      BY <1>1, <1>3, <1>6, <1>7 DEF Fits, FitsReferences, FitsOrder, FitsHead
    <2> QED
      BY <1>5, <1>7, <2>3, <2>4 DEF Computes
  <1>8. CASE p # NoProject
    <2>1. IsRequest(q)
      BY <1>2, <1>4, <1>6, <1>8 DEF IsRequest
    <2>2. Adds(q)
      BY <1>1, <1>4, <1>6, <1>8 DEF Adds
    <2>3. Sound(q)
      BY <1>4, <2>1, <2>2 DEF Sound, Shape, Belongs, Copied
    <2>4. q.linked = {p} \ refs[v]
      BY <1>4, <1>8
    <2>5. Updates(q, ProjectsOf(StepsOf(v)) \union {p}, {p})
      BY <1>4, <2>4 DEF Updates
    <2>6. Fits(q, {})
      BY <1>1, <1>4, <1>6, <2>5 DEF Fits, FitsReferences, FitsOrder, FitsHead
    <2> QED
      BY <1>5, <1>8, <2>3, <2>6 DEF Computes
  <1> QED
    BY <1>7, <1>8

LEMMA SaveComputes ==
  ASSUME TypeInv, NEW u \in Users, NEW id \in DOMAIN steps, NEW p \in ProjectVersions, SaveStep(u, id, p)
  PROVE  \E r : Computes(r) /\ Open(u, r)
  <1> DEFINE v == steps[id].version
             project == IF p = steps[id].project THEN Nothing ELSE [i \in {id} |-> p]
             r == [Changes("save", v, id) EXCEPT !.project = project]
             used == ProjectsOf(StepsOf(v) \ {id}) \union {p}
             q == UpdateProjectReference(r, used, p)
  <1>1. v \in 1 .. lastVersion /\ id \in StepsOf(v) /\ p # NoProject
    BY StepTypes, BundleVersionsAssumption
  <1>2. IF p = steps[id].project THEN DOMAIN project = {}
        ELSE DOMAIN project = {id} /\ project[id] = p
    BY DEF Nothing
  <1>3. Open(u, q)
    BY DEF SaveStep
  <1> HIDE DEF project
  <1>4. /\ q.kind = "save" /\ q.version = v /\ DOMAIN q.order = {} /\ q.project = project
        /\ q.added = << >> /\ q.deleted = {} /\ q.updated = TRUE
        /\ q.unlinked = refs[v] \ used /\ q.linked = {p} \ (refs[v] \union {NoProject})
        /\ q.head = FALSE /\ q.auto = FALSE
    BY DEF Changes, Nothing, UpdateProjectReference
  <1> HIDE DEF q
  <1>5. IsRequest(q)
    <2>1. \A i \in DOMAIN project : project[i] \in ProjectVersions
      BY <1>2
    <2> QED
      BY <1>1, <1>4, <2>1, NoRow DEF IsRequest
  <1>6. Belongs(q)
    BY <1>1, <1>2, <1>4, StepsBelong
  <1>7. Sound(q)
    BY <1>4, <1>5, <1>6 DEF Sound, Shape, Edits, Copied
  <1>8. Updates(q, used, {p})
    BY <1>1, <1>4 DEF Updates
  <1> HIDE DEF used
  <1>9. \E i \in StepsOf(q.version), w \in ProjectVersions :
          /\ IF w = steps[i].project THEN DOMAIN q.project = {}
             ELSE DOMAIN q.project = {i} /\ q.project[i] = w
          /\ Updates(q, ProjectsOf(StepsOf(q.version) \ {i}) \union {w}, {w})
    <2>1. IF p = steps[id].project THEN DOMAIN q.project = {}
             ELSE DOMAIN q.project = {id} /\ q.project[id] = p
      BY <1>2, <1>4
    <2>2. Updates(q, ProjectsOf(StepsOf(q.version) \ {id}) \union {p}, {p})
      BY <1>4, <1>8 DEF used
    <2> QED
      BY <1>1, <1>4, <2>1, <2>2
  <1>10. FitsReferences(q)
    BY <1>4, <1>9 DEF FitsReferences
  <1>11. Fits(q, {})
    BY <1>4, <1>10 DEF Fits, FitsOrder, FitsHead
  <1> QED
    BY <1>3, <1>7, <1>11 DEF Computes

LEMMA DeleteComputes ==
  ASSUME TypeInv, NEW u \in Users, NEW id \in DOMAIN steps, DeleteStep(u, id)
  PROVE  \E r : Computes(r) /\ Open(u, r)
  <1> DEFINE v == steps[id].version
             r == [Changes("delete", v, id) EXCEPT !.deleted = {id}]
             used == ProjectsOf(StepsOf(v))
             q == UpdateProjectReference(r, used, NoProject)
  <1>1. v \in 1 .. lastVersion /\ id \in StepsOf(v)
    BY StepTypes
  <1>2. Open(u, r) \/ Open(u, q)
    BY DEF DeleteStep
  <1>3. /\ r.kind = "delete" /\ r.version = v /\ r.step = id
        /\ DOMAIN r.order = {} /\ DOMAIN r.project = {}
        /\ r.added = << >> /\ r.deleted = {id} /\ r.updated = FALSE /\ r.linked = {} /\ r.unlinked = {}
        /\ r.head = FALSE /\ r.auto = FALSE
    BY DEF Changes, Nothing
  <1>4. /\ q.kind = "delete" /\ q.version = v /\ q.step = id
        /\ DOMAIN q.order = {} /\ DOMAIN q.project = {}
        /\ q.added = << >> /\ q.deleted = {id} /\ q.updated = TRUE
        /\ q.unlinked = refs[v] \ used /\ q.linked = {NoProject} \ (refs[v] \union {NoProject})
        /\ q.head = FALSE /\ q.auto = FALSE
    BY DEF Changes, Nothing, UpdateProjectReference
  <1> HIDE DEF q, r
  <1>5. Belongs(r) /\ Belongs(q)
    BY <1>1, <1>3, <1>4, StepsBelong
  <1>6. IsRequest(r) /\ Deletes(r) /\ KeepsReferences(r)
    BY <1>1, <1>3, NoRow DEF IsRequest, Deletes, KeepsReferences
  <1>7. q.linked = {}
    BY <1>4
  <1>8. IsRequest(q) /\ Deletes(q) /\ Updates(q, ProjectsOf(StepsOf(q.version)), {})
    BY <1>1, <1>4, <1>7, NoRow DEF IsRequest, Deletes, Updates
  <1>9. Sound(r) /\ Sound(q)
    BY <1>3, <1>4, <1>5, <1>6, <1>8 DEF Sound, Shape, Copied
  <1>10. Fits(r, {}) /\ Fits(q, {})
    BY <1>3, <1>4, <1>6, <1>8 DEF Fits, FitsReferences, FitsOrder, FitsHead
  <1> QED
    BY <1>2, <1>9, <1>10 DEF Computes

\* The rows copied are one for each step, with the projects the steps are mapped to.
LEMMA CopiesAre ==
  ASSUME TypeInv, NEW v, NEW mapping \in [ProjectsOf(StepsOf(v)) -> ProjectVersions]
  PROVE  /\ CopiesOf(v, mapping) \in Seq(NewRow)
         /\ {CopiesOf(v, mapping)[i].project : i \in DOMAIN CopiesOf(v, mapping)} \ {NoProject}
              = {mapping[p] : p \in ProjectsOf(StepsOf(v))}
  <1> DEFINE ids == SetToSeq(StepsOf(v))
             n == Cardinality(StepsOf(v))
             copies == CopiesOf(v, mapping)
             To(id) == IF steps[id].project = NoProject THEN NoProject ELSE mapping[steps[id].project]
  <1>1. /\ n \in Nat /\ ids \in [1 .. n -> StepsOf(v)]
        /\ \A id \in StepsOf(v) : \E i \in 1 .. n : ids[i] = id
    BY SequenceOf, FiniteSteps
  <1> HIDE DEF n, ids
  <1>2. copies = [i \in 1 .. n |-> [order |-> steps[ids[i]].order, project |-> To(ids[i])]]
    BY <1>1 DEF CopiesOf, ids
  <1>3. \A id \in StepsOf(v) : /\ steps[id].order \in Int
                               /\ steps[id].project \in ProjectVersions \union {NoProject}
                               /\ steps[id].project # NoProject => steps[id].project \in ProjectsOf(StepsOf(v))
    BY StepTypes DEF ProjectsOf
  <1>4. \A id \in StepsOf(v) : To(id) \in ProjectVersions \union {NoProject}
    BY <1>3
  <1>5. \A i \in 1 .. n : [order |-> steps[ids[i]].order, project |-> To(ids[i])] \in NewRow
    <2> HIDE DEF To
    <2> QED
      BY <1>1, <1>3, <1>4 DEF NewRow
  <1>6. copies \in Seq(NewRow) /\ DOMAIN copies = 1 .. n
    <2> HIDE DEF To, copies
    <2> QED
      BY <1>1, <1>2, <1>5
  <1>7. \A i \in 1 .. n : copies[i].project = To(ids[i])
    <2> HIDE DEF To, copies
    <2> QED
      BY <1>2
  <1> HIDE DEF copies
  <1>8. ASSUME NEW q \in {copies[i].project : i \in DOMAIN copies} \ {NoProject}
        PROVE  q \in {mapping[p] : p \in ProjectsOf(StepsOf(v))}
    <2>1. PICK i \in 1 .. n : q = To(ids[i]) /\ q # NoProject
      BY <1>6, <1>7
    <2>2. ids[i] \in StepsOf(v) /\ steps[ids[i]].project # NoProject /\ q = mapping[steps[ids[i]].project]
      BY <1>1, <2>1
    <2> QED
      BY <1>3, <2>2
  <1>9. ASSUME NEW p \in ProjectsOf(StepsOf(v))
        PROVE  mapping[p] \in {copies[i].project : i \in DOMAIN copies} \ {NoProject}
    <2>1. PICK id \in StepsOf(v) : p = steps[id].project /\ p # NoProject
      BY DEF ProjectsOf
    <2>2. PICK i \in 1 .. n : ids[i] = id
      BY <1>1
    <2>3. copies[i].project = mapping[p]
      BY <1>7, <2>1, <2>2
    <2>4. mapping[p] # NoProject
      BY BundleVersionsAssumption
    <2> QED
      BY <1>6, <2>3, <2>4
  <1> QED
    BY <1>6, <1>8, <1>9 DEF copies

\* Copies of an even list are one.
LEMMA CopiesAreEven ==
  ASSUME TypeInv, NEW v, NEW mapping, Even(StepsOf(v), steps)
  PROVE  Even(DOMAIN CopiesOf(v, mapping), CopiesOf(v, mapping))
  <1> DEFINE ids == SetToSeq(StepsOf(v))
             n == Cardinality(StepsOf(v))
             copies == CopiesOf(v, mapping)
  <1>1. n \in Nat /\ ids \in [1 .. n -> StepsOf(v)] /\ IsInjective(ids)
    BY SequenceOf, FiniteSteps
  <1>2. ids \in Seq(StepsOf(v)) /\ DOMAIN ids = 1 .. n
    BY <1>1
  <1>3. /\ DOMAIN copies = 1 .. n
        /\ \A i \in 1 .. n : copies[i].order = steps[ids[i]].order
    BY <1>2 DEF CopiesOf
  <1> HIDE DEF ids, n, copies
  <1>4. Cardinality(DOMAIN copies) = n /\ DOMAIN copies = 1 .. n
    BY <1>1, <1>3, FS_Interval
  <1>5. \A i \in 1 .. n : copies[i].order = steps[ids[i]].order /\ ids[i] \in StepsOf(v)
    BY <1>1, <1>3
  <1>6. \A i \in 1 .. n : copies[i].order \in 1 .. n
    BY <1>5 DEF Even, n
  <1>7. \A i, j \in 1 .. n : copies[i].order = copies[j].order => i = j
    BY <1>1, <1>5 DEF Even, IsInjective
  <1> QED
    BY <1>4, <1>6, <1>7 DEF Even, copies

LEMMA CreateComputes ==
  ASSUME TypeInv, EvenLists, NEW u \in Users, NEW v \in Versions, CreateNewVersion(u, v)
  PROVE  \E r : Computes(r) /\ Open(u, r)
  <1> DEFINE used == ProjectsOf(StepsOf(v))
             R(mapping) == [Changes("create", v, NoStep) EXCEPT
                     !.added = CopiesOf(v, mapping),
                     !.linked = {mapping[p] : p \in used},
                     !.head = v \in isHead,
                     !.auto = v \in autoDeploy]
  <1>1. v \in 1 .. lastVersion
    BY BundleVersionsAssumption DEF CreateNewVersion, Versions, TypeInv, TypeOK
  <1>2. PICK mapping \in [used -> ProjectVersions] : Open(u, R(mapping))
    BY DEF CreateNewVersion
  <1>3. /\ CopiesOf(v, mapping) \in Seq(NewRow)
        /\ {CopiesOf(v, mapping)[i].project : i \in DOMAIN CopiesOf(v, mapping)} \ {NoProject}
              = {mapping[p] : p \in used}
    BY CopiesAre
  <1>4. PICK r : r = R(mapping)
    OBVIOUS
  <1>5. /\ r.kind = "create" /\ r.version = v /\ DOMAIN r.order = {} /\ DOMAIN r.project = {}
        /\ r.added = CopiesOf(v, mapping) /\ r.deleted = {} /\ r.updated = FALSE
        /\ r.linked = {mapping[p] : p \in used}
        /\ r.unlinked = {} /\ r.head = (v \in isHead) /\ r.auto = (v \in autoDeploy)
    BY <1>4 DEF Changes, Nothing
  <1>6. r.linked \subseteq ProjectVersions
    BY <1>5
  <1> HIDE DEF R, used
  <1>7. IsRequest(r)
    BY <1>1, <1>3, <1>5, <1>6 DEF IsRequest
  <1>8. Creates(r)
    <2>1. r.linked = {r.added[i].project : i \in DOMAIN r.added} \ {NoProject}
      BY <1>3, <1>5
    <2> QED
      BY <1>5, <2>1 DEF Creates
  <1>9. Copied(r)
    <2>1. v \notin uneven /\ <<v, "order">> \notin clashed => Even(StepsOf(v), steps)
      BY DEF EvenLists
    <2> QED
      BY <1>5, <2>1, CopiesAreEven DEF Copied
  <1>10. Sound(r)
    BY <1>5, <1>7, <1>8, <1>9 DEF Sound, Shape, Belongs
  <1>11. FitsHead(r)
    BY <1>5 DEF FitsHead
  <1>12. Fits(r, {})
    BY <1>5, <1>11 DEF Fits, FitsReferences, FitsOrder
  <1> QED
    BY <1>2, <1>4, <1>10, <1>12 DEF Computes


-----------------------------------------------------------------------------
(* Saving a request.                                                       *)

\* The rows that a save leaves.
Saved(r) ==
  /\ Target(r) \in Versions
  /\ Len(r.added) \in Nat
  /\ DOMAIN r.order \union DOMAIN r.project \union r.deleted \subseteq DOMAIN steps
  /\ DOMAIN steps' = (DOMAIN steps \ r.deleted) \union (lastStep + 1 .. lastStep + Len(r.added))
  /\ \A id \in DOMAIN steps \ r.deleted :
       /\ id <= lastStep
       /\ steps'[id].version = steps[id].version
       /\ steps'[id].order = IF id \in DOMAIN r.order THEN r.order[id] ELSE steps[id].order
       /\ steps'[id].project = IF id \in DOMAIN r.project THEN r.project[id] ELSE steps[id].project
  /\ \A id \in lastStep + 1 .. lastStep + Len(r.added) :
       /\ id \notin DOMAIN steps
       /\ steps'[id].version = Target(r)
       /\ steps'[id].order = r.added[id - lastStep].order
       /\ steps'[id].project = r.added[id - lastStep].project
  /\ \A id \in DOMAIN steps' : \E x, y, z : steps'[id] = [version |-> x, order |-> y, project |-> z]
  /\ refs' = [refs EXCEPT ![Target(r)] = (@ \ r.unlinked) \union r.linked]
  /\ refs'[Target(r)] = (refs[Target(r)] \ r.unlinked) \union r.linked
  /\ \A v \in Versions : v # Target(r) => refs'[v] = refs[v]

LEMMA SavedRows ==
  ASSUME TypeInv, Requests, NEW u \in Users, NEW r, r = request[u], Save(u)
  PROVE  Sound(r) /\ Fits(r, stale[u]) /\ Saved(r)
  <1>1. Sound(r) /\ Fits(r, stale[u]) /\ IsRequest(r) /\ r # NoRequest
    BY DEF Save, Requests, RequestOf, Sound
  <1>2. lastVersion \in Nat /\ lastStep \in Nat /\ r.version \in 1 .. lastVersion
    BY <1>1, BundleVersionsAssumption DEF TypeInv, TypeOK, IsRequest, Versions
  <1>3. Target(r) \in Versions
    BY <1>2, BundleVersionsAssumption DEF Save, Target, Versions
  <1>4. Len(r.added) \in Nat
    BY <1>1 DEF IsRequest
  <1>5. /\ DOMAIN r.order \union DOMAIN r.project \union r.deleted \subseteq DOMAIN steps
        /\ DOMAIN steps \subseteq 1 .. lastStep
    BY DEF Save, Conflict, TypeInv, Given
  <1>6. steps' = SavedSteps(r)
    BY DEF Save
  <1>7. DOMAIN steps' = (DOMAIN steps \ r.deleted) \union (lastStep + 1 .. lastStep + Len(r.added))
    BY <1>6 DEF SavedSteps
  <1>8. ASSUME NEW id \in DOMAIN steps \ r.deleted
        PROVE  /\ id <= lastStep
               /\ steps'[id].version = steps[id].version
               /\ steps'[id].order = IF id \in DOMAIN r.order THEN r.order[id] ELSE steps[id].order
               /\ steps'[id].project = IF id \in DOMAIN r.project THEN r.project[id] ELSE steps[id].project
               /\ \E x, y, z : steps'[id] = [version |-> x, order |-> y, project |-> z]
    <2> DEFINE o == IF id \in DOMAIN r.order THEN r.order[id] ELSE steps[id].order
               p == IF id \in DOMAIN r.project THEN r.project[id] ELSE steps[id].project
    <2>1. id <= lastStep /\ ~(id > lastStep)
      BY <1>2, <1>5
    <2>2. steps'[id] = [version |-> steps[id].version, order |-> o, project |-> p]
      BY <1>6, <2>1 DEF SavedSteps
    <2>3. o = IF id \in DOMAIN r.order THEN r.order[id] ELSE steps[id].order
      OBVIOUS
    <2>4. p = IF id \in DOMAIN r.project THEN r.project[id] ELSE steps[id].project
      OBVIOUS
    <2> HIDE DEF o, p
    <2>5. /\ steps'[id].version = steps[id].version /\ steps'[id].order = o
          /\ steps'[id].project = p
      BY <2>2
    <2>6. \E x, y, z : steps'[id] = [version |-> x, order |-> y, project |-> z]
      BY <2>2, Zenon
    <2> QED
      BY <2>1, <2>3, <2>4, <2>5, <2>6
  <1>9. ASSUME NEW id \in lastStep + 1 .. lastStep + Len(r.added)
        PROVE  /\ id \notin DOMAIN steps
               /\ steps'[id].version = Target(r)
               /\ steps'[id].order = r.added[id - lastStep].order
               /\ steps'[id].project = r.added[id - lastStep].project
               /\ \E x, y, z : steps'[id] = [version |-> x, order |-> y, project |-> z]
    <2>1. id > lastStep
      BY <1>2, <1>4
    <2>2. id \notin DOMAIN steps
      BY <1>2, <1>5, <2>1
    <2>3. steps'[id] = [version |-> Target(r), order |-> r.added[id - lastStep].order,
                        project |-> r.added[id - lastStep].project]
      BY <1>6, <2>1, <2>2 DEF SavedSteps
    <2>4. /\ steps'[id].version = Target(r) /\ steps'[id].order = r.added[id - lastStep].order
          /\ steps'[id].project = r.added[id - lastStep].project
      BY <2>3
    <2>5. \E x, y, z : steps'[id] = [version |-> x, order |-> y, project |-> z]
      BY <2>3, Zenon
    <2> QED
      BY <2>2, <2>4, <2>5
  <1>10. /\ refs' = [refs EXCEPT ![Target(r)] = (@ \ r.unlinked) \union r.linked]
         /\ refs \in [Versions -> SUBSET ProjectVersions]
    BY DEF Save, TypeInv, TypeOK
  <1>11. \A id \in DOMAIN steps' : \E x, y, z : steps'[id] = [version |-> x, order |-> y, project |-> z]
    BY <1>7, <1>8, <1>9
  <1>12. /\ refs'[Target(r)] = (refs[Target(r)] \ r.unlinked) \union r.linked
         /\ \A v \in Versions : v # Target(r) => refs'[v] = refs[v]
    BY <1>3, <1>10
  <1> QED
    BY <1>1, <1>3, <1>4, <1>5, <1>7, <1>8, <1>9, <1>10, <1>11, <1>12 DEF Saved

\* What a save may do to rows of other versions: nothing.
LEMMA Reach ==
  ASSUME TypeInv, NEW r, Sound(r), Saved(r)
  PROVE  /\ r.version \in Versions /\ r.version \in 1 .. lastVersion
         /\ DOMAIN r.order \union DOMAIN r.project \union r.deleted \subseteq StepsOf(r.version)
         /\ r.kind = "create" => DOMAIN r.order \union DOMAIN r.project \union r.deleted = {}
         /\ r.kind # "create" => Target(r) = r.version
         /\ r.kind = "create" => Target(r) = lastVersion + 1 /\ Target(r) # r.version
  <1>1. lastVersion \in Nat /\ r.version \in 1 .. lastVersion /\ r.version \in Versions
    BY BundleVersionsAssumption DEF TypeInv, TypeOK, Sound, IsRequest, Versions
  <1>2. r.kind = "create" => Target(r) = lastVersion + 1 /\ Target(r) # r.version
    BY <1>1 DEF Target
  <1>3. r.kind # "create" => Target(r) = r.version
    BY DEF Target
  <1>4. DOMAIN r.order \union DOMAIN r.project \union r.deleted \subseteq StepsOf(r.version)
    BY DEF Sound, Belongs, Saved, StepsOf
  <1>5. r.kind = "create" => DOMAIN r.order \union DOMAIN r.project \union r.deleted = {}
    BY DEF Sound, Shape, Moves, Adds, Edits, Deletes, Creates
  <1> QED
    BY <1>1, <1>2, <1>3, <1>4, <1>5

\* The other requests stay open.
LEMMA SavedRequests ==
  ASSUME TypeInv, Requests, NEW u \in Users, NEW r, r = request[u], Save(u)
  PROVE  /\ request' = [w \in Users |-> request'[w]]
         /\ request'[u] = NoRequest /\ stale'[u] = {}
         /\ \A w \in Users : w # u => /\ request'[w] = request[w]
                                      /\ stale'[w] = stale[w] \union Overwrites(r, w)
         /\ stale' \in [Users -> SUBSET Aspects]
         /\ UNCHANGED requests
         /\ clashed \subseteq clashed' /\ uneven \subseteq uneven'
         /\ \A aspect \in stale[u] : <<r.version, aspect>> \in clashed'
  <1>1. /\ request' = [request EXCEPT ![u] = NoRequest] /\ request = [w \in Users |-> request[w]]
        /\ stale' = [w \in Users |-> IF w = u THEN {} ELSE stale[w] \union Overwrites(r, w)]
        /\ clashed' = clashed \union {<<r.version, aspect>> : aspect \in stale[u]}
        /\ UNCHANGED requests /\ uneven \subseteq uneven'
    BY DEF Save, Requests
  <1>2. \A w \in Users : Overwrites(r, w) \subseteq Aspects
    BY DEF Overwrites, Touches, Aspects
  <1>3. stale' \in [Users -> SUBSET Aspects]
    BY <1>1, <1>2 DEF TypeInv, TypeOK
  <1> QED
    BY <1>1, <1>3

LEMMA SavedTypes ==
  ASSUME TypeInv, Requests, NEW u \in Users, NEW r, r = request[u], Save(u)
  PROVE  TypeInv'
  <1> DEFINE t == Target(r)
             n == Len(r.added)
  <1>1. /\ IsRequest(r)
        /\ t \in Versions
        /\ n \in Nat
        /\ r.deleted \subseteq DOMAIN steps
        /\ DOMAIN steps' = (DOMAIN steps \ r.deleted) \union (lastStep + 1 .. lastStep + n)
        /\ \A id \in DOMAIN steps \ r.deleted :
              /\ id <= lastStep
              /\ steps'[id].version = steps[id].version
              /\ steps'[id].order = IF id \in DOMAIN r.order THEN r.order[id] ELSE steps[id].order
              /\ steps'[id].project = IF id \in DOMAIN r.project THEN r.project[id]
                                      ELSE steps[id].project
        /\ \A id \in DOMAIN steps' : \E x, y, z : steps'[id] = [version |-> x, order |-> y, project |-> z]
        /\ \A id \in lastStep + 1 .. lastStep + n :
              /\ id \notin DOMAIN steps
              /\ steps'[id].version = t
              /\ steps'[id].order = r.added[id - lastStep].order
              /\ steps'[id].project = r.added[id - lastStep].project
        /\ refs' = [refs EXCEPT ![t] = (@ \ r.unlinked) \union r.linked]
        /\ \A v \in Versions : v # t => refs'[v] = refs[v]
    <2>1. Sound(r) /\ Saved(r)
      BY SavedRows
    <2> QED
      BY <2>1 DEF Saved, Sound
  <1>2. /\ TypeOK /\ Given /\ lastVersion \in Nat /\ lastStep \in Nat /\ r.version \in Versions
        /\ lastVersion \in Versions
        /\ r.version \in 1 .. lastVersion
    BY <1>1, BundleVersionsAssumption DEF TypeInv, TypeOK, IsRequest, Versions
  <1>3. lastStep' = lastStep + n /\ lastStep' <= MaxSteps /\ lastVersion' = IF r.kind = "create" THEN t ELSE lastVersion
    BY DEF Save
  <1>4. lastVersion' \in Versions /\ lastVersion <= lastVersion' /\ t <= lastVersion'
    BY <1>1, <1>2, <1>3 DEF Target, Versions
  <1> HIDE DEF t, n
  <1>5. lastStep' \in 0 .. MaxSteps /\ lastStep <= lastStep' /\ lastStep' \in Nat
    BY <1>1, <1>2, <1>3, BundleVersionsAssumption
  <1>6. DOMAIN steps' \subseteq 1 .. lastStep'
    <2>1. \A id \in lastStep + 1 .. lastStep + n : id \in 1 .. lastStep'
      BY <1>1, <1>2, <1>3
    <2>2. \A id \in DOMAIN steps : id \in 1 .. lastStep'
      BY <1>2, <1>5 DEF Given
    <2> QED
      BY <1>1, <2>1, <2>2
  <1>7. ASSUME NEW id \in DOMAIN steps'
        PROVE  /\ steps'[id].version \in Versions /\ steps'[id].version <= lastVersion'
               /\ steps'[id].order \in Int
               /\ steps'[id].project \in ProjectVersions \union {NoProject}
    <2>1. CASE id \in DOMAIN steps \ r.deleted
      <3>1. steps[id] \in Row /\ steps[id].version <= lastVersion
        BY <1>2, <2>1 DEF TypeOK, Given
      <3>2. steps'[id].version \in Versions /\ steps'[id].version <= lastVersion'
        BY <1>1, <1>2, <1>4, <2>1, <3>1 DEF Row, Versions
      <3>3. steps'[id].order \in Int /\ steps'[id].project \in ProjectVersions \union {NoProject}
        BY <1>1, <2>1, <3>1 DEF Row, IsRequest
      <3> QED
        BY <3>2, <3>3
    <2>2. CASE id \in lastStep + 1 .. lastStep + n
      <3>1. id - lastStep \in 1 .. n
        BY <1>1, <1>2, <2>2
      <3>2. r.added[id - lastStep] \in NewRow
        BY <1>1, <3>1 DEF IsRequest, n
      <3> QED
        BY <1>1, <1>4, <2>2, <3>2 DEF NewRow
    <2> QED
      BY <1>1, <2>1, <2>2
  <1>8. \A id \in DOMAIN steps' : steps'[id] \in Row
    <2> SUFFICES ASSUME NEW id \in DOMAIN steps' PROVE steps'[id] \in Row
      OBVIOUS
    <2>1. PICK v, o, p : steps'[id] = [version |-> v, order |-> o, project |-> p]
      BY <1>1
    <2>2. v \in Versions /\ o \in Int /\ p \in ProjectVersions \union {NoProject}
      BY <1>7, <2>1
    <2> QED
      BY <2>1, <2>2 DEF Row
  <1>9. refs' \in [Versions -> SUBSET ProjectVersions]
    BY <1>1, <1>2 DEF TypeOK, IsRequest
  <1>10. isHead' \subseteq Versions /\ autoDeploy' \subseteq Versions
    BY <1>1, <1>2 DEF Save, SavedHeads, SavedAutoDeploy, TypeOK, t
  <1>11. uneven' \subseteq Versions /\ clashed' \subseteq Versions \X Aspects
    <2>1. uneven' \subseteq Versions
      BY <1>1, <1>2 DEF Save, Upset, TypeOK, t
    <2>2. stale[u] \subseteq Aspects
      BY <1>2 DEF TypeOK
    <2> QED
      BY <1>2, <2>1, <2>2 DEF Save, TypeOK
  <1>12. left' \in [Versions -> SUBSET ProjectVersions]
    <2>1. ProjectsOf(r.deleted) \subseteq ProjectVersions
      BY <1>1, StepTypes
    <2>2. left' = [left EXCEPT ![r.version] = (IF r.updated THEN {} ELSE @) \union ProjectsOf(r.deleted)]
      BY DEF Save
    <2> QED
      BY <1>2, <2>1, <2>2 DEF TypeOK
  <1>13. DOMAIN request' = Users /\ stale' \in [Users -> SUBSET Aspects] /\ UNCHANGED requests
    <2>1. request' = [w \in Users |-> request'[w]]
      BY SavedRequests
    <2> QED
      BY <2>1, SavedRequests
  <1>14. TypeOK'
    <2>1. DOMAIN steps' \subseteq Ids
      BY <1>5, <1>6, BundleVersionsAssumption DEF Ids
    <2>2. Row' = Row
      BY DEF Row
    <2>3. requests' \in 0 .. MaxRequests
      BY <1>2, <1>13 DEF TypeOK
    <2> QED
      BY <1>4, <1>5, <1>8, <1>9, <1>10, <1>11, <1>12, <1>13, <2>1, <2>2, <2>3 DEF TypeOK
  <1>15. Given'
    <2>1. \A v \in Versions : v > lastVersion' => refs'[v] = {}
      BY <1>1, <1>2, <1>4 DEF Given, Versions
    <2> QED
      BY <1>6, <1>7, <2>1 DEF Given
  <1> QED
    BY <1>14, <1>15 DEF TypeInv

\* Another open request is still one: ids are not given away twice.
LEMMA SoundKept ==
  ASSUME TypeInv, Requests, NEW u \in Users, NEW r, r = request[u], Save(u), NEW q, Sound(q)
  PROVE  Sound(q)'
  <1>1. /\ Saved(r) /\ lastStep \in Nat /\ lastVersion \in Nat /\ Len(r.added) \in Nat
        /\ clashed \subseteq clashed' /\ uneven \subseteq uneven'
        /\ r.version \in 1 .. lastVersion
    <2>1. Saved(r) /\ Sound(r)
      BY SavedRows
    <2>2. clashed \subseteq clashed' /\ uneven \subseteq uneven'
      BY SavedRequests
    <2>3. lastStep \in Nat /\ lastVersion \in Nat
      BY BundleVersionsAssumption DEF TypeInv, TypeOK, Versions
    <2>4. Len(r.added) \in Nat
      BY <2>1 DEF Saved
    <2>5. r.version \in 1 .. lastVersion
      BY <2>1 DEF Sound, IsRequest
    <2> QED
      BY <2>1, <2>2, <2>3, <2>4, <2>5
  <1>2. lastStep' = lastStep + Len(r.added)
    BY DEF Save
  <1>3. lastVersion' = IF r.kind = "create" THEN lastVersion + 1 ELSE lastVersion
    BY DEF Save, Target
  <1>4. IsRequest(q)'
    <2>1. q.version \in 1 .. lastVersion'
      BY <1>1, <1>3 DEF Sound, IsRequest
    <2> QED
      BY <2>1 DEF Sound, IsRequest, NewRow
  <1>5. Shape(q)'
    BY DEF Sound, Shape, Moves, Adds, Edits, Deletes, Creates, KeepsReferences
  <1>6. Belongs(q)'
    <2> SUFFICES ASSUME NEW id \in DOMAIN q.order \union DOMAIN q.project \union q.deleted
                 PROVE  /\ id \in 1 .. lastStep'
                        /\ id \in DOMAIN steps' => steps'[id].version = q.version
      BY DEF Belongs
    <2>1. id \in 1 .. lastStep /\ (id \in DOMAIN steps => steps[id].version = q.version)
      BY DEF Sound, Belongs
    <2>2. id \in 1 .. lastStep' /\ id \notin lastStep + 1 .. lastStep + Len(r.added)
      BY <1>1, <1>2, <2>1
    <2>3. ASSUME id \in DOMAIN steps' PROVE id \in DOMAIN steps /\ steps'[id].version = steps[id].version
      BY <1>1, <2>2, <2>3 DEF Saved
    <2> QED
      BY <2>1, <2>2, <2>3
  <1>7. Copied(q)'
    BY <1>1 DEF Sound, Copied, Even
  <1> QED
    BY <1>4, <1>5, <1>6, <1>7 DEF Sound

-----------------------------------------------------------------------------
(* What a save leaves as the other requests have read it.                  *)

\* The references of v and the projects its steps use stay as they are.
SameUse(v) ==
  /\ refs'[v] = refs[v]
  /\ StepsOf(v) \subseteq StepsOf(v)'
  /\ \A id \in StepsOf(v) : steps'[id].project = steps[id].project
  /\ \A id \in StepsOf(v)' : id \notin StepsOf(v) => steps'[id].project = NoProject

LEMMA UseStays ==
  ASSUME NEW v, SameUse(v)
  PROVE  /\ ProjectsOf(StepsOf(v))' = ProjectsOf(StepsOf(v))
         /\ \A id \in StepsOf(v) : ProjectsOf(StepsOf(v) \ {id})' = ProjectsOf(StepsOf(v) \ {id})
  <1>1. ASSUME NEW id PROVE ProjectsOf(StepsOf(v) \ {id})' = ProjectsOf(StepsOf(v) \ {id})
    <2>1. \A q : q \in ProjectsOf(StepsOf(v) \ {id})'
             <=> \E i \in StepsOf(v)' : i # id /\ q = steps'[i].project /\ q # NoProject
      BY DEF ProjectsOf
    <2>2. \A q : q \in ProjectsOf(StepsOf(v) \ {id})
             <=> \E i \in StepsOf(v) : i # id /\ q = steps[i].project /\ q # NoProject
      BY DEF ProjectsOf
    <2>3. ASSUME NEW q, q \in ProjectsOf(StepsOf(v) \ {id})' PROVE q \in ProjectsOf(StepsOf(v) \ {id})
      <3>1. PICK i \in StepsOf(v)' : i # id /\ q = steps'[i].project /\ q # NoProject
        BY <2>1, <2>3
      <3>2. i \in StepsOf(v) /\ q = steps[i].project
        BY <3>1 DEF SameUse
      <3> QED
        BY <2>2, <3>1, <3>2
    <2>4. ASSUME NEW q, q \in ProjectsOf(StepsOf(v) \ {id}) PROVE q \in ProjectsOf(StepsOf(v) \ {id})'
      <3>1. PICK i \in StepsOf(v) : i # id /\ q = steps[i].project /\ q # NoProject
        BY <2>2, <2>4
      <3>2. i \in StepsOf(v)' /\ q = steps'[i].project
        BY <3>1 DEF SameUse
      <3> QED
        BY <2>1, <3>1, <3>2
    <2> QED
      BY <2>3, <2>4
  <1>2. ProjectsOf(StepsOf(v))' = ProjectsOf(StepsOf(v))
    <2>1. \A q : q \in ProjectsOf(StepsOf(v))' <=> \E i \in StepsOf(v)' : q = steps'[i].project /\ q # NoProject
      BY DEF ProjectsOf
    <2>2. \A q : q \in ProjectsOf(StepsOf(v)) <=> \E i \in StepsOf(v) : q = steps[i].project /\ q # NoProject
      BY DEF ProjectsOf
    <2>3. \A q : q \in ProjectsOf(StepsOf(v))' <=> q \in ProjectsOf(StepsOf(v))
      BY <2>1, <2>2 DEF SameUse
    <2> QED
      BY <2>3
  <1> QED
    BY <1>1, <1>2

\* The steps of v and their orders stay as they are.
SameOrders(v) ==
  /\ StepsOf(v)' = StepsOf(v)
  /\ \A id \in StepsOf(v) : /\ steps[id].version = v /\ steps'[id].version = v
                            /\ steps'[id].order = steps[id].order

\* The steps of a version after a save.
LEMMA StepsAfter ==
  ASSUME TypeInv, NEW r, Sound(r), Saved(r), NEW v
  PROVE  /\ v # Target(r) => StepsOf(v)' = StepsOf(v)
         /\ v = Target(r) => StepsOf(v)' = (StepsOf(v) \ r.deleted)
                                             \union (lastStep + 1 .. lastStep + Len(r.added))
         /\ \A id \in StepsOf(v) \ r.deleted :
              /\ steps'[id].project = IF id \in DOMAIN r.project THEN r.project[id] ELSE steps[id].project
              /\ steps'[id].order = IF id \in DOMAIN r.order THEN r.order[id] ELSE steps[id].order
              /\ steps[id].version = v /\ steps'[id].version = v
         /\ \A id \in lastStep + 1 .. lastStep + Len(r.added) :
              /\ id \notin StepsOf(v)
              /\ steps'[id].project = r.added[id - lastStep].project
              /\ steps'[id].order = r.added[id - lastStep].order
  <1>1. /\ r.deleted \subseteq StepsOf(r.version)
        /\ r.kind = "create" => r.deleted = {}
        /\ r.kind # "create" => Target(r) = r.version
    BY Reach
  <1>2. \A id \in StepsOf(v) : id \in DOMAIN steps /\ steps[id].version = v
    BY DEF StepsOf
  <1>3. \A id : id \in StepsOf(v)' <=> id \in DOMAIN steps' /\ steps'[id].version = v
    BY DEF StepsOf
  <1>4. \A id : id \in StepsOf(v) <=> id \in DOMAIN steps /\ steps[id].version = v
    BY DEF StepsOf
  <1>5. ASSUME v # Target(r) PROVE StepsOf(v)' = StepsOf(v)
    <2>1. \A id \in StepsOf(v) : id \notin r.deleted
      BY <1>1, <1>2, <1>5 DEF StepsOf
    <2>2. \A id : id \in StepsOf(v)' <=> id \in StepsOf(v)
      BY <1>3, <1>4, <1>5, <2>1 DEF Saved
    <2> QED
      BY <2>2
  <1>6. ASSUME v = Target(r)
        PROVE  StepsOf(v)' = (StepsOf(v) \ r.deleted) \union (lastStep + 1 .. lastStep + Len(r.added))
    <2>1. \A id : id \in StepsOf(v)' <=> \/ id \in StepsOf(v) \ r.deleted
                                        \/ id \in lastStep + 1 .. lastStep + Len(r.added)
      BY <1>3, <1>4, <1>6 DEF Saved
    <2> QED
      BY <2>1
  <1>7. \A id \in StepsOf(v) \ r.deleted :
          /\ steps'[id].project = IF id \in DOMAIN r.project THEN r.project[id] ELSE steps[id].project
          /\ steps'[id].order = IF id \in DOMAIN r.order THEN r.order[id] ELSE steps[id].order
          /\ steps[id].version = v /\ steps'[id].version = v
    BY <1>2 DEF Saved
  <1>8. \A id \in lastStep + 1 .. lastStep + Len(r.added) :
          /\ id \notin StepsOf(v)
          /\ steps'[id].project = r.added[id - lastStep].project
          /\ steps'[id].order = r.added[id - lastStep].order
    BY <1>2 DEF Saved
  <1> QED
    BY <1>5, <1>6, <1>7, <1>8

\* Nothing is added.
LEMMA NoneAdded ==
  ASSUME TypeInv, NEW r, r.added = << >>
  PROVE  lastStep + 1 .. lastStep + Len(r.added) = {}
  <1>1. lastStep \in Nat /\ Len(r.added) = 0
    BY BundleVersionsAssumption DEF TypeInv, TypeOK
  <1> QED
    BY <1>1

\* A save leaves other versions as they are.
LEMMA OthersStay ==
  ASSUME TypeInv, NEW r, Sound(r), Saved(r), NEW v \in Versions, v # Target(r)
  PROVE  SameUse(v) /\ SameOrders(v)
  <1>1. \A id \in StepsOf(v) : id \notin DOMAIN r.order \union DOMAIN r.project \union r.deleted
    BY Reach DEF StepsOf
  <1>2. StepsOf(v)' = StepsOf(v) /\ refs'[v] = refs[v]
    <2>1. StepsOf(v)' = StepsOf(v)
      BY StepsAfter
    <2> QED
      BY <2>1 DEF Saved
  <1>3. \A id \in StepsOf(v) : /\ steps'[id].project = steps[id].project
                              /\ steps'[id].order = steps[id].order
                              /\ steps[id].version = v /\ steps'[id].version = v
    BY <1>1, StepsAfter
  <1> QED
    BY <1>2, <1>3 DEF SameUse, SameOrders

\* And its own if it does not touch its references ...
LEMMA UseKept ==
  ASSUME TypeInv, NEW r, Sound(r), Saved(r), NEW v \in Versions,
         v # Target(r) \/ (r.kind # "create" /\ "references" \notin Touches(r))
  PROVE  SameUse(v)
  <1>1. CASE v # Target(r)
    BY <1>1, OthersStay
  <1>2. CASE v = Target(r) /\ r.kind # "create" /\ "references" \notin Touches(r)
    <2>1. r.kind # "delete" /\ ~r.updated
      BY <1>2 DEF Touches
    <2>2. Moves(r) \/ (Adds(r) /\ r.added[1].project = NoProject)
      BY <1>2, <2>1 DEF Sound, Shape, Adds, Edits, Deletes, Creates
    <2>3. /\ DOMAIN r.project = {} /\ r.deleted = {} /\ r.linked = {} /\ r.unlinked = {}
          /\ r.added = << >> \/ (Len(r.added) = 1 /\ r.added[1].project = NoProject)
      BY <2>2 DEF Moves, Adds, KeepsReferences
    <2>4. refs'[v] = refs[v]
      BY <1>2, <2>3 DEF Saved
    <2>5. /\ StepsOf(v)' = StepsOf(v) \union (lastStep + 1 .. lastStep + Len(r.added))
          /\ \A id \in StepsOf(v) : steps'[id].project = steps[id].project
          /\ \A id \in lastStep + 1 .. lastStep + Len(r.added) :
               steps'[id].project = r.added[id - lastStep].project
      <3>1. StepsOf(v) \ r.deleted = StepsOf(v)
        BY <2>3
      <3> QED
        BY <1>2, <2>3, <3>1, StepsAfter
    <2>6. lastStep \in Nat
      BY BundleVersionsAssumption DEF TypeInv, TypeOK
    <2>7. \A id \in lastStep + 1 .. lastStep + Len(r.added) : id - lastStep = 1 /\ r.added[1].project = NoProject
      <3> SUFFICES ASSUME NEW id \in lastStep + 1 .. lastStep + Len(r.added)
                   PROVE  id - lastStep = 1 /\ r.added[1].project = NoProject
        OBVIOUS
      <3>1. r.added # << >>
        BY NoneAdded
      <3>2. Len(r.added) = 1 /\ r.added[1].project = NoProject
        BY <2>3, <3>1
      <3> QED
        BY <2>6, <3>2
    <2>8. \A id \in lastStep + 1 .. lastStep + Len(r.added) : steps'[id].project = NoProject
      BY <2>5, <2>7
    <2> QED
      BY <2>4, <2>5, <2>8 DEF SameUse
  <1> QED
    BY <1>1, <1>2

\* ... or the order of its steps.
LEMMA OrdersKept ==
  ASSUME TypeInv, NEW r, Sound(r), Saved(r), NEW v \in Versions,
         v # Target(r) \/ (r.kind # "create" /\ "order" \notin Touches(r))
  PROVE  SameOrders(v)
  <1>1. CASE v # Target(r)
    BY <1>1, OthersStay
  <1>2. CASE v = Target(r) /\ r.kind # "create" /\ "order" \notin Touches(r)
    <2>1. Edits(r)
      BY <1>2 DEF Touches, Sound, Shape, Moves, Adds, Deletes, Creates
    <2>2. DOMAIN r.order = {} /\ r.deleted = {} /\ r.added = << >>
      BY <2>1 DEF Edits
    <2>3. StepsOf(v)' = StepsOf(v)
      <3>1. StepsOf(v)' = (StepsOf(v) \ r.deleted) \union (lastStep + 1 .. lastStep + Len(r.added))
        BY <1>2, StepsAfter
      <3>2. lastStep + 1 .. lastStep + Len(r.added) = {}
        BY <2>2, NoneAdded
      <3> QED
        BY <2>2, <3>1, <3>2
    <2>4. \A id \in StepsOf(v) : /\ steps'[id].order = steps[id].order
                                /\ steps[id].version = v /\ steps'[id].version = v
      BY <2>2, StepsAfter
    <2> QED
      BY <2>3, <2>4 DEF SameOrders
  <1> QED
    BY <1>1, <1>2

\* Heads change only where a version is created.
LEMMA HeadsKept ==
  ASSUME NEW u \in Users, NEW r, r = request[u], Save(u), Sound(r), NEW v,
         r.kind = "create" => v # r.version /\ v # Target(r)
  PROVE  /\ v \in isHead' <=> v \in isHead
         /\ v \in autoDeploy' <=> v \in autoDeploy
  <1>1. isHead' = SavedHeads(r) /\ autoDeploy' = SavedAutoDeploy(r)
    BY DEF Save
  <1>2. r.kind # "create" => ~r.head /\ ~r.auto
    BY DEF Sound, Shape
  <1>3. CASE r.kind = "create"
    BY <1>1, <1>3 DEF SavedHeads, SavedAutoDeploy
  <1>4. CASE r.kind # "create"
    BY <1>1, <1>2, <1>4 DEF SavedHeads, SavedAutoDeploy
  <1> QED
    BY <1>3, <1>4

\* Another open request would still compute its changes, or has become stale.
LEMMA FitsKept ==
  ASSUME TypeInv, Requests, NEW u \in Users, NEW r, r = request[u], Save(u),
         NEW w \in Users, w # u, NEW q, q = request[w], q # NoRequest, NEW old, old = stale'[w]
  PROVE  Fits(q, old)'
  <1>1. /\ Sound(r) /\ Saved(r) /\ Sound(q) /\ Fits(q, stale[w])
        /\ old = stale[w] \union Overwrites(r, w)
    BY SavedRows, SavedRequests DEF Requests, RequestOf
  <1>2. q.version \in Versions /\ q.version \in 1 .. lastVersion /\ lastVersion \in Nat
    BY <1>1, BundleVersionsAssumption DEF TypeInv, TypeOK, Sound, IsRequest, Versions
  <1>3. ASSUME NEW aspect, aspect \notin old, aspect \in Touches(q)
        PROVE  /\ aspect \notin stale[w]
               /\ q.version # r.version \/ aspect \notin Touches(r)
    BY <1>1, <1>3 DEF Overwrites
  <1>4. ASSUME NEW aspect, q.version # r.version \/ aspect \notin Touches(r)
        PROVE  q.version # Target(r) \/ (r.kind # "create" /\ aspect \notin Touches(r))
    <2>1. CASE r.kind = "create"
      BY <1>1, <1>2, <2>1, Reach
    <2>2. CASE r.kind # "create"
      BY <1>1, <1>4, <2>2, Reach
    <2> QED
      BY <2>1, <2>2
  <1>5. ASSUME "references" \notin old PROVE FitsReferences(q)'
    <2>1. CASE "references" \notin Touches(q)
      <3>1. q.kind # "delete" /\ ~q.updated
        BY <2>1 DEF Touches
      <3>2. q.kind # "save" /\ (q.kind = "add" => q.added[1].project = NoProject)
        BY <1>1, <3>1 DEF Sound, Shape, Moves, Adds, Edits, Deletes, Creates
      <3> QED
        BY <3>1, <3>2 DEF FitsReferences
    <2>2. CASE "references" \in Touches(q)
      <3>1. "references" \notin stale[w] /\ SameUse(q.version)
        <4>1. q.version # r.version \/ "references" \notin Touches(r)
          BY <1>3, <1>5, <2>2
        <4>2. q.version # Target(r) \/ (r.kind # "create" /\ "references" \notin Touches(r))
          BY <1>4, <4>1
        <4> QED
          BY <1>1, <1>2, <1>3, <1>5, <2>2, <4>2, UseKept
      <3>2. FitsReferences(q)
        BY <1>1, <3>1 DEF Fits
      <3>3. /\ ProjectsOf(StepsOf(q.version))' = ProjectsOf(StepsOf(q.version))
            /\ \A id \in StepsOf(q.version) :
                 ProjectsOf(StepsOf(q.version) \ {id})' = ProjectsOf(StepsOf(q.version) \ {id})
            /\ refs'[q.version] = refs[q.version]
        BY <3>1, UseStays DEF SameUse
      <3>4. \A used, added : Updates(q, used, added) => Updates(q, used, added)'
        BY <3>3 DEF Updates
      <3>5. ASSUME q.kind = "add", q.added[1].project # NoProject
            PROVE  LET p == q.added[1].project
                   IN Updates(q, ProjectsOf(StepsOf(q.version)) \union {p}, {p})'
        <4>1. PICK p : p = q.added[1].project
          OBVIOUS
        <4>2. Updates(q, ProjectsOf(StepsOf(q.version)) \union {p}, {p})
          BY <3>2, <3>5, <4>1 DEF FitsReferences
        <4> QED
          BY <3>3, <4>1, <4>2 DEF Updates
      <3>6. ASSUME q.kind = "save"
            PROVE  (\E id \in StepsOf(q.version), p \in ProjectVersions :
                      /\ IF p = steps[id].project THEN DOMAIN q.project = {}
                         ELSE DOMAIN q.project = {id} /\ q.project[id] = p
                      /\ Updates(q, ProjectsOf(StepsOf(q.version) \ {id}) \union {p}, {p}))'
        <4>1. PICK id \in StepsOf(q.version), p \in ProjectVersions :
                /\ IF p = steps[id].project THEN DOMAIN q.project = {}
                   ELSE DOMAIN q.project = {id} /\ q.project[id] = p
                /\ Updates(q, ProjectsOf(StepsOf(q.version) \ {id}) \union {p}, {p})
          BY <3>2, <3>6 DEF FitsReferences
        <4>2. id \in StepsOf(q.version)' /\ steps'[id].project = steps[id].project
          BY <3>1 DEF SameUse
        <4>3. Updates(q, ProjectsOf(StepsOf(q.version) \ {id}) \union {p}, {p})'
          BY <3>3, <4>1 DEF Updates
        <4> QED
          BY <4>1, <4>2, <4>3
      <3>7. ASSUME q.kind = "delete"
            PROVE  KeepsReferences(q) \/ Updates(q, ProjectsOf(StepsOf(q.version)), {})'
        BY <3>2, <3>3, <3>7 DEF FitsReferences, Updates
      <3>8. KeepsReferences(q)' = KeepsReferences(q)
        BY DEF KeepsReferences
      <3> QED
        BY <3>5, <3>6, <3>7, <3>8 DEF FitsReferences
    <2> QED
      BY <2>1, <2>2
  <1>6. ASSUME "order" \notin old PROVE FitsOrder(q)'
    <2>1. CASE "order" \notin Touches(q)
      <3>1. q.kind \notin {"up", "down", "add"}
        BY <2>1 DEF Touches
      <3> QED
        BY <3>1 DEF FitsOrder
    <2>2. CASE "order" \in Touches(q)
      <3>1. "order" \notin stale[w] /\ SameOrders(q.version)
        <4>1. q.version # r.version \/ "order" \notin Touches(r)
          BY <1>3, <1>6, <2>2
        <4>2. q.version # Target(r) \/ (r.kind # "create" /\ "order" \notin Touches(r))
          BY <1>4, <4>1
        <4> QED
          BY <1>1, <1>2, <1>3, <1>6, <2>2, <4>2, OrdersKept
      <3>2. FitsOrder(q)
        BY <1>1, <3>1 DEF Fits
      <3>3. ASSUME q.kind \in {"up", "down"}
            PROVE  (\E a, b \in StepsOf(q.version) :
                      /\ Before(a, b)
                      /\ q.step = IF q.kind = "up" THEN b ELSE a
                      /\ DOMAIN q.order = {a, b}
                      /\ q.order[a] = steps[a].order + 1
                      /\ q.order[b] = steps[b].order - 1)'
        <4>1. PICK a, b \in StepsOf(q.version) :
                /\ Before(a, b)
                /\ q.step = IF q.kind = "up" THEN b ELSE a
                /\ DOMAIN q.order = {a, b}
                /\ q.order[a] = steps[a].order + 1
                /\ q.order[b] = steps[b].order - 1
          BY <3>2, <3>3 DEF FitsOrder
        <4>2. a \in StepsOf(q.version)' /\ b \in StepsOf(q.version)' /\ Before(a, b)'
          BY <3>1, <4>1 DEF SameOrders, Before
        <4>3. q.order[a] = steps'[a].order + 1 /\ q.order[b] = steps'[b].order - 1
          BY <3>1, <4>1 DEF SameOrders
        <4> QED
          BY <4>1, <4>2, <4>3
      <3>4. q.kind = "add" => q.added[1].order = Cardinality(StepsOf(q.version))' + 1
        BY <3>1, <3>2 DEF FitsOrder, SameOrders
      <3> QED
        BY <3>3, <3>4 DEF FitsOrder
    <2> QED
      BY <2>1, <2>2
  <1>7. ASSUME "head" \notin old PROVE FitsHead(q)'
    <2> SUFFICES ASSUME q.kind = "create"
                 PROVE  (q.head <=> q.version \in isHead') /\ (q.auto <=> q.version \in autoDeploy')
      BY DEF FitsHead
    <2>1. "head" \in Touches(q)
      BY DEF Touches
    <2>2. "head" \notin stale[w] /\ (q.version # r.version \/ "head" \notin Touches(r))
      BY <1>3, <1>7, <2>1
    <2>3. (q.head <=> q.version \in isHead) /\ (q.auto <=> q.version \in autoDeploy)
      BY <1>1, <2>2 DEF Fits, FitsHead
    <2>4. r.kind = "create" => q.version # r.version /\ q.version # Target(r)
      BY <1>1, <1>2, <2>2, Reach DEF Touches
    <2> QED
      BY <1>1, <2>3, <2>4, HeadsKept
  <1> QED
    BY <1>5, <1>6, <1>7 DEF Fits

LEMMA SaveKeepsRequests ==
  ASSUME TypeInv, Requests, NEW u \in Users, Save(u)
  PROVE  Requests'
  <1> PICK r : r = request[u]
    OBVIOUS
  <1>1. /\ request' = [w \in Users |-> request'[w]]
        /\ request'[u] = NoRequest /\ stale'[u] = {}
        /\ \A w \in Users : w # u => request'[w] = request[w]
        /\ \A w \in Users : w # u => stale'[w] = stale[w] \union Overwrites(r, w)
    BY SavedRequests
  <1> SUFFICES ASSUME NEW w \in Users, NEW q, q = request'[w], NEW old, old = stale'[w]
               PROVE  IF q = NoRequest THEN old = {} ELSE Sound(q)' /\ Fits(q, old)'
    BY <1>1 DEF Requests, RequestOf
  <1>2. CASE w = u
    BY <1>1, <1>2
  <1>3. CASE w # u /\ q = NoRequest
    <2>1. request[w] = NoRequest
      BY <1>1, <1>3
    <2>2. stale[w] = {} /\ Overwrites(r, w) = {}
      BY <2>1 DEF Requests, RequestOf, Overwrites
    <2> QED
      BY <1>1, <1>3, <2>2
  <1>4. CASE w # u /\ q # NoRequest
    <2>1. q = request[w]
      BY <1>1, <1>4
    <2>2. Sound(q)
      BY <1>4, <2>1 DEF Requests, RequestOf
    <2>3. Sound(q)'
      BY <2>2, SoundKept
    <2>4. Fits(q, old)'
      BY <1>4, <2>1, FitsKept
    <2> QED
      BY <2>3, <2>4, <1>4
  <1> QED
    BY <1>2, <1>3, <1>4

-----------------------------------------------------------------------------
(* What a save makes of its own version.                                   *)

\* The projects the steps of the version a request writes to use after the save.
LEMMA UsedAfter ==
  ASSUME TypeInv, NEW r, Sound(r), Saved(r), NEW v, v = Target(r)
  PROVE  \A q : q \in ProjectsOf(StepsOf(v))' <=>
           /\ q # NoProject
           /\ \/ \E id \in StepsOf(v) \ r.deleted :
                   q = IF id \in DOMAIN r.project THEN r.project[id] ELSE steps[id].project
              \/ \E i \in 1 .. Len(r.added) : q = r.added[i].project
  <1>1. /\ StepsOf(v)' = (StepsOf(v) \ r.deleted) \union (lastStep + 1 .. lastStep + Len(r.added))
        /\ \A id \in StepsOf(v) \ r.deleted :
             steps'[id].project = IF id \in DOMAIN r.project THEN r.project[id] ELSE steps[id].project
        /\ \A id \in lastStep + 1 .. lastStep + Len(r.added) :
             steps'[id].project = r.added[id - lastStep].project
    BY StepsAfter
  <1>2. lastStep \in Nat /\ Len(r.added) \in Nat
    BY BundleVersionsAssumption DEF TypeInv, TypeOK, Saved
  <1>3. \A q : q \in ProjectsOf(StepsOf(v))' <=> \E id \in StepsOf(v)' : q = steps'[id].project /\ q # NoProject
    BY DEF ProjectsOf
  <1>4. ASSUME NEW q, NEW i \in 1 .. Len(r.added), q = r.added[i].project
        PROVE  \E id \in lastStep + 1 .. lastStep + Len(r.added) : q = steps'[id].project
    <2>1. lastStep + i \in lastStep + 1 .. lastStep + Len(r.added) /\ (lastStep + i) - lastStep = i
      BY <1>2
    <2>2. steps'[lastStep + i].project = r.added[i].project
      BY <1>1, <2>1
    <2> QED
      BY <1>4, <2>1, <2>2
  <1>5. ASSUME NEW id \in lastStep + 1 .. lastStep + Len(r.added)
        PROVE  \E i \in 1 .. Len(r.added) : steps'[id].project = r.added[i].project
    <2>1. id - lastStep \in 1 .. Len(r.added)
      BY <1>2
    <2> QED
      BY <1>1, <2>1
  <1> SUFFICES ASSUME NEW q
               PROVE  q \in ProjectsOf(StepsOf(v))' <=>
                        /\ q # NoProject
                        /\ \/ \E id \in StepsOf(v) \ r.deleted :
                                q = IF id \in DOMAIN r.project THEN r.project[id] ELSE steps[id].project
                           \/ \E i \in 1 .. Len(r.added) : q = r.added[i].project
    OBVIOUS
  <1>6. ASSUME q \in ProjectsOf(StepsOf(v))'
        PROVE  /\ q # NoProject
               /\ \/ \E id \in StepsOf(v) \ r.deleted :
                       q = IF id \in DOMAIN r.project THEN r.project[id] ELSE steps[id].project
                  \/ \E i \in 1 .. Len(r.added) : q = r.added[i].project
    <2>1. PICK id \in StepsOf(v)' : q = steps'[id].project /\ q # NoProject
      BY <1>3, <1>6
    <2>2. CASE id \in StepsOf(v) \ r.deleted
      BY <1>1, <2>1, <2>2
    <2>3. CASE id \in lastStep + 1 .. lastStep + Len(r.added)
      BY <1>5, <2>1, <2>3
    <2> QED
      BY <1>1, <2>2, <2>3
  <1>7. ASSUME q # NoProject, NEW id \in StepsOf(v) \ r.deleted,
               q = IF id \in DOMAIN r.project THEN r.project[id] ELSE steps[id].project
        PROVE  q \in ProjectsOf(StepsOf(v))'
    BY <1>1, <1>3, <1>7
  <1>8. ASSUME q # NoProject, NEW i \in 1 .. Len(r.added), q = r.added[i].project
        PROVE  q \in ProjectsOf(StepsOf(v))'
    BY <1>1, <1>3, <1>4, <1>8
  <1> QED
    BY <1>6, <1>7, <1>8

LEMMA SavedReferences ==
  ASSUME Inv, NEW u \in Users, NEW r, r = request[u], Save(u)
  PROVE  References'
  <1>0. /\ TypeInv /\ References /\ Sound(r) /\ Fits(r, stale[u]) /\ Saved(r) /\ IsRequest(r)
        /\ Moves(r) \/ Adds(r) \/ Edits(r) \/ Deletes(r) \/ Creates(r)
        /\ r.version \in Versions
        /\ left' = [left EXCEPT ![r.version] = (IF r.updated THEN {} ELSE @) \union ProjectsOf(r.deleted)]
        /\ left \in [Versions -> SUBSET ProjectVersions]
    <2>1. TypeInv /\ References /\ Requests
      BY DEF Inv
    <2>2. Sound(r) /\ Fits(r, stale[u]) /\ Saved(r)
      BY <2>1, SavedRows
    <2>3. r.version \in Versions
      BY <2>1, <2>2, Reach
    <2>4. left' = [left EXCEPT ![r.version] = (IF r.updated THEN {} ELSE @) \union ProjectsOf(r.deleted)]
      BY DEF Save
    <2> QED
      BY <2>1, <2>2, <2>3, <2>4 DEF TypeInv, TypeOK, Sound, Shape
  <1>1. /\ \A v \in Versions : v # r.version => left'[v] = left[v]
        /\ left'[r.version] = (IF r.updated THEN {} ELSE left[r.version]) \union ProjectsOf(r.deleted)
    BY <1>0
  <1> SUFFICES ASSUME NEW v \in Versions, <<v, "references">> \notin clashed'
               PROVE  /\ ProjectsOf(StepsOf(v))' \subseteq refs'[v]
                      /\ refs'[v] \subseteq ProjectsOf(StepsOf(v))' \union left'[v]
    BY DEF References, ReferencesOf
  <1> DEFINE used == ProjectsOf(StepsOf(v))
  <1>2. used \subseteq refs[v] /\ refs[v] \subseteq used \union left[v]
    <2>1. <<v, "references">> \notin clashed
      BY SavedRequests DEF Inv
    <2> QED
      BY <1>0, <2>1 DEF References, ReferencesOf
  <1>3. ASSUME SameUse(v), ~r.updated
        PROVE  /\ ProjectsOf(StepsOf(v))' \subseteq refs'[v]
               /\ refs'[v] \subseteq ProjectsOf(StepsOf(v))' \union left'[v]
    <2>1. left[v] \subseteq left'[v]
      BY <1>1, <1>3
    <2>2. ProjectsOf(StepsOf(v))' = used /\ refs'[v] = refs[v]
      BY <1>3, UseStays DEF SameUse
    <2> QED
      BY <1>2, <2>1, <2>2
  <1>4. CASE v # Target(r)
    <2>1. SameUse(v)
      BY <1>0, <1>4, OthersStay
    <2>2. CASE r.updated
      <3>1. r.kind # "create"
        BY <1>0, <2>2 DEF Moves, Adds, Edits, Deletes, Creates
      <3>2. v # r.version
        BY <1>0, <1>4, <3>1, Reach
      <3>3. ProjectsOf(StepsOf(v))' = used /\ refs'[v] = refs[v] /\ left'[v] = left[v]
        BY <1>1, <2>1, <3>2, UseStays DEF SameUse
      <3> QED
        BY <1>2, <3>3
    <2> QED
      BY <1>0, <1>3, <2>1, <2>2 DEF IsRequest
  <1>5. CASE v = Target(r) /\ r.kind # "create" /\ "references" \notin Touches(r)
    <2>1. SameUse(v)
      BY <1>0, <1>5, UseKept
    <2>2. ~r.updated
      BY <1>5 DEF Touches
    <2> QED
      BY <1>3, <2>1, <2>2
  <1>6. ASSUME v = Target(r)
        PROVE  /\ refs'[v] = (refs[v] \ r.unlinked) \union r.linked
               /\ \A q : q \in ProjectsOf(StepsOf(v))' <=>
                    /\ q # NoProject
                    /\ \/ \E id \in StepsOf(v) \ r.deleted :
                            q = IF id \in DOMAIN r.project THEN r.project[id] ELSE steps[id].project
                       \/ \E i \in 1 .. Len(r.added) : q = r.added[i].project
    <2>1. refs'[v] = (refs[v] \ r.unlinked) \union r.linked
      BY <1>0, <1>6 DEF Saved
    <2> QED
      BY <1>0, <1>6, <2>1, UsedAfter
  <1>7. \A ids, q : q \in ProjectsOf(ids) <=> q # NoProject /\ \E id \in ids : q = steps[id].project
    BY DEF ProjectsOf
  <1>8. ASSUME v = Target(r), r.kind # "create"
        PROVE  v = r.version /\ FitsReferences(r)
    <2>1. v = r.version
      BY <1>0, <1>8, Reach
    <2>2. "references" \notin stale[u]
      BY <2>1, SavedRequests DEF Inv
    <2> QED
      BY <1>0, <2>1, <2>2 DEF Fits
  <1>9. CASE v = Target(r) /\ Adds(r) /\ "references" \in Touches(r)
    <2>1. v = r.version /\ r.kind = "add" /\ r.updated /\ FitsReferences(r)
      BY <1>8, <1>9 DEF Adds, Touches
    <2>2. PICK p : p = r.added[1].project
      OBVIOUS
    <2>3. p # NoProject
      BY <1>9, <2>1, <2>2 DEF Adds, KeepsReferences
    <2>4. Updates(r, ProjectsOf(StepsOf(r.version)) \union {p}, {p})
      BY <2>1, <2>2, <2>3 DEF FitsReferences
    <2>5. /\ Len(r.added) = 1 /\ DOMAIN r.project = {} /\ r.deleted = {}
          /\ r.unlinked = refs[v] \ (used \union {p}) /\ r.linked = {p} \ refs[v]
      BY <1>9, <2>1, <2>4 DEF Adds, Updates
    <2>6. \A q : q \in ProjectsOf(StepsOf(v))' <=> q \in used \/ q = p
      <3>1. \A q : q \in ProjectsOf(StepsOf(v))' <=>
                    /\ q # NoProject
                    /\ (\E id \in StepsOf(v) : q = steps[id].project) \/ q = p
        BY <1>6, <1>9, <2>2, <2>5
      <3> QED
        BY <1>7, <2>3, <3>1
    <2> HIDE DEF used
    <2> QED
      BY <1>2, <1>6, <1>9, <2>5, <2>6
  <1>10. CASE v = Target(r) /\ Edits(r)
    <2>1. v = r.version /\ r.kind = "save" /\ FitsReferences(r)
      BY <1>8, <1>10 DEF Edits
    <2>2. PICK id \in StepsOf(v), p \in ProjectVersions :
            /\ IF p = steps[id].project THEN DOMAIN r.project = {}
               ELSE DOMAIN r.project = {id} /\ r.project[id] = p
            /\ Updates(r, ProjectsOf(StepsOf(v) \ {id}) \union {p}, {p})
      BY <2>1 DEF FitsReferences
    <2> DEFINE others == ProjectsOf(StepsOf(v) \ {id})
    <2>3. /\ r.added = << >> /\ r.deleted = {} /\ p # NoProject
          /\ r.unlinked = refs[v] \ (others \union {p}) /\ r.linked = {p} \ refs[v]
      BY <1>10, <2>1, <2>2, BundleVersionsAssumption DEF Edits, Updates
    <2>4. \A q : q \in ProjectsOf(StepsOf(v))' <=>
                   /\ q # NoProject
                   /\ \E i \in StepsOf(v) : q = IF i \in DOMAIN r.project THEN r.project[i] ELSE steps[i].project
      BY <1>6, <1>10, <2>3
    <2>5. \A i \in StepsOf(v) : (IF i \in DOMAIN r.project THEN r.project[i] ELSE steps[i].project)
                                  = IF i = id THEN p ELSE steps[i].project
      BY <2>2
    <2>6. \A q : q \in ProjectsOf(StepsOf(v))' <=> q \in others \/ q = p
      BY <1>7, <2>2, <2>3, <2>4, <2>5
    <2>7. others \subseteq used
      BY <1>7
    <2> HIDE DEF used, others
    <2> QED
      BY <1>2, <1>6, <1>10, <2>3, <2>6, <2>7
  <1>11. CASE v = Target(r) /\ Deletes(r)
    <2>1. v = r.version /\ r.kind = "delete" /\ FitsReferences(r)
      BY <1>8, <1>11 DEF Deletes
    <2>2. PICK id \in StepsOf(v) : r.deleted = {id}
      BY <1>0, <1>11, <2>1, Reach DEF Deletes
    <2>3. /\ r.added = << >> /\ DOMAIN r.project = {} /\ r.linked = {}
          /\ r.unlinked = {} \/ r.unlinked = refs[v] \ used
          /\ r.updated => r.unlinked = refs[v] \ used
      BY <1>11, <2>1 DEF Deletes, Updates, KeepsReferences, FitsReferences
    <2>4. \A q : q \in ProjectsOf(StepsOf(v))' <=>
                   q # NoProject /\ \E i \in StepsOf(v) \ {id} : q = steps[i].project
      BY <1>6, <1>11, <2>2, <2>3
    <2>5. \A q : q \in used <=> q \in ProjectsOf(StepsOf(v))' \/ q \in ProjectsOf({id})
      BY <1>7, <2>2, <2>4
    <2>6. ProjectsOf({id}) \subseteq left'[v] /\ (~r.updated => left[v] \subseteq left'[v])
      BY <1>1, <2>1, <2>2
    <2>7. refs'[v] = refs[v] \ r.unlinked
      BY <1>6, <1>11, <2>3
    <2>8. used \subseteq refs'[v]
      BY <1>2, <2>3, <2>7
    <2>9. CASE r.updated
      <3>1. refs'[v] \subseteq used
        BY <2>3, <2>7, <2>9
      <3> HIDE DEF used
      <3> QED
        BY <2>5, <2>6, <2>8, <3>1
    <2>10. CASE ~r.updated
      <3> HIDE DEF used
      <3> QED
        BY <1>2, <2>5, <2>6, <2>7, <2>8, <2>10
    <2> QED
      BY <1>0, <2>9, <2>10 DEF IsRequest
  <1>12. CASE v = Target(r) /\ Creates(r)
    <2>1. v > lastVersion
      BY <1>0, <1>12, Reach, BundleVersionsAssumption DEF Creates, TypeInv, TypeOK, Versions
    <2>2. refs[v] = {} /\ StepsOf(v) = {}
      <3>1. refs[v] = {}
        BY <1>0, <2>1 DEF TypeInv, Given
      <3>2. \A id : id \notin StepsOf(v)
        BY <1>0, <2>1, StepTypes, BundleVersionsAssumption DEF TypeInv, TypeOK, Versions
      <3> QED
        BY <3>1, <3>2
    <2>3. r.unlinked = {} /\ r.linked = {r.added[i].project : i \in DOMAIN r.added} \ {NoProject}
      BY <1>12 DEF Creates
    <2>4. DOMAIN r.added = 1 .. Len(r.added)
      BY <1>0 DEF IsRequest
    <2>5. \A q : q \in ProjectsOf(StepsOf(v))' <=> q # NoProject /\ \E i \in 1 .. Len(r.added) : q = r.added[i].project
      BY <1>6, <1>12, <2>2
    <2>6. refs'[v] = r.linked
      BY <1>6, <1>12, <2>2, <2>3
    <2> QED
      BY <2>3, <2>4, <2>5, <2>6
  <1>13. Moves(r) => r.kind # "create" /\ "references" \notin Touches(r)
    BY DEF Moves, Touches, KeepsReferences
  <1>14. Adds(r) => r.kind # "create"
    BY DEF Adds
  <1> QED
    BY <1>0, <1>4, <1>5, <1>9, <1>10, <1>11, <1>12, <1>13, <1>14

LEMMA SavedHeadsAre ==
  ASSUME Inv, NEW u \in Users, NEW r, r = request[u], Save(u)
  PROVE  Heads'
  <1>0. /\ Sound(r) /\ Fits(r, stale[u]) /\ Target(r) \in Versions /\ r.version \in Versions
        /\ Heads
    <2>1. TypeInv /\ Requests /\ Heads
      BY DEF Inv
    <2>2. Sound(r) /\ Fits(r, stale[u]) /\ Saved(r)
      BY <2>1, SavedRows
    <2>3. r.version \in Versions
      BY <2>1, <2>2, Reach
    <2>4. Target(r) \in Versions
      BY <2>2 DEF Saved
    <2> QED
      BY <2>1, <2>2, <2>3, <2>4
  <1>1. isHead' = SavedHeads(r) /\ autoDeploy' = SavedAutoDeploy(r)
    BY DEF Save
  <1> SUFFICES ASSUME \A v \in Versions : <<v, "head">> \notin clashed'
               PROVE  /\ \E v \in Versions : isHead' = {v}
                      /\ SingleInstance => autoDeploy' = {} \/ \E v \in Versions : autoDeploy' = {v}
    BY DEF Heads
  <1>2. /\ \A v \in Versions : <<v, "head">> \notin clashed
        /\ "head" \notin stale[u]
    BY <1>0, SavedRequests DEF Inv
  <1>3. /\ r.kind # "create" => ~r.head /\ ~r.auto
        /\ r.kind = "create" => (r.head <=> r.version \in isHead) /\ (r.auto <=> r.version \in autoDeploy)
    BY <1>0, <1>2 DEF Sound, Shape, Fits, FitsHead
  <1>4. \E v \in Versions : isHead' = {v}
    <2>1. PICK h \in Versions : isHead = {h}
      BY <1>0, <1>2 DEF Heads
    <2>2. CASE r.head
      <3>1. r.version = h
        BY <1>3, <2>1, <2>2
      <3>2. isHead' = {Target(r)}
        BY <1>1, <2>1, <2>2, <3>1 DEF SavedHeads
      <3> QED
        BY <1>0, <3>2
    <2>3. CASE ~r.head
      BY <1>1, <2>1, <2>3 DEF SavedHeads
    <2> QED
      BY <2>2, <2>3
  <1>5. ASSUME SingleInstance PROVE autoDeploy' = {} \/ \E v \in Versions : autoDeploy' = {v}
    <2>1. autoDeploy = {} \/ \E v \in Versions : autoDeploy = {v}
      BY <1>0, <1>2, <1>5 DEF Heads
    <2>2. CASE r.kind # "create"
      <3>1. autoDeploy' = autoDeploy
        BY <1>1, <1>3, <2>2 DEF SavedAutoDeploy
      <3> QED
        BY <2>1, <3>1
    <2>3. CASE r.kind = "create" /\ r.auto
      <3>1. autoDeploy \ {r.version} = {}
        BY <1>3, <2>1, <2>3
      <3>2. autoDeploy' = {Target(r)}
        BY <1>1, <1>5, <2>3, <3>1 DEF SavedAutoDeploy
      <3> QED
        BY <1>0, <3>2
    <2>4. CASE r.kind = "create" /\ ~r.auto
      <3>1. autoDeploy' = autoDeploy \ {r.version}
        BY <1>1, <1>5, <2>4 DEF SavedAutoDeploy
      <3>2. autoDeploy' = autoDeploy
        BY <1>3, <2>4, <3>1
      <3> QED
        BY <2>1, <3>2
    <2> QED
      BY <2>2, <2>3, <2>4
  <1> QED
    BY <1>4, <1>5

-----------------------------------------------------------------------------
(* Even lists.                                                             *)

\* Every number is the order of a step.
LEMMA EvenIsOnto ==
  ASSUME NEW S, IsFiniteSet(S), NEW rows, Even(S, rows)
  PROVE  /\ Cardinality(S) \in Nat
         /\ \A i \in 1 .. Cardinality(S) : \E id \in S : rows[id].order = i
  <1> DEFINE n == Cardinality(S)
             o == [id \in S |-> rows[id].order]
  <1>1. n \in Nat /\ IsFiniteSet(1 .. n) /\ Cardinality(1 .. n) = n
    BY FS_CardinalityType, FS_Interval
  <1>2. o \in Injection(S, 1 .. n)
    BY DEF Even, Injection, IsInjective
  <1>3. o \in Surjection(S, 1 .. n)
    BY <1>1, <1>2, FS_Injection
  <1>4. \A i \in 1 .. n : \E id \in S : o[id] = i
    BY <1>3 DEF Surjection
  <1> QED
    BY <1>1, <1>4

\* Neighbours in an even list have consecutive orders.
LEMMA NeighboursOfEven ==
  ASSUME NEW S, IsFiniteSet(S), NEW rows, Even(S, rows), NEW a \in S, NEW b \in S, a # b,
         rows[a].order <= rows[b].order,
         \A c \in S : ~(rows[a].order < rows[c].order /\ rows[c].order < rows[b].order)
  PROVE  rows[b].order = rows[a].order + 1
  <1> DEFINE n == Cardinality(S)
             x == rows[a].order
             y == rows[b].order
  <1>1. n \in Nat /\ \A i \in 1 .. n : \E id \in S : rows[id].order = i
    BY EvenIsOnto
  <1>2. x \in 1 .. n /\ y \in 1 .. n /\ x # y /\ x <= y
    BY DEF Even
  <1> HIDE DEF n, x, y
  <1>3. CASE y = x + 1
    BY <1>3 DEF x, y
  <1>4. CASE y # x + 1
    <2>1. x + 1 \in 1 .. n /\ x < x + 1 /\ x + 1 < y
      BY <1>1, <1>2, <1>4
    <2>2. PICK c \in S : rows[c].order = x + 1
      BY <1>1, <2>1
    <2> QED
      BY <2>1, <2>2 DEF x, y
  <1> QED
    BY <1>3, <1>4

\* It remains even when two neighbours change places, ...
LEMMA EvenSwapped ==
  ASSUME NEW S, NEW rows, NEW new, Even(S, rows), NEW a \in S, NEW b \in S, a # b,
         Cardinality(S) \in Nat, rows[b].order = rows[a].order + 1,
         \A id \in S \ {a, b} : new[id].order = rows[id].order,
         new[a].order = rows[a].order + 1, new[b].order = rows[b].order - 1
  PROVE  Even(S, new)
  <1> DEFINE n == Cardinality(S)
             other(id) == IF id = a THEN b ELSE IF id = b THEN a ELSE id
  <1>1. \A id \in S : rows[id].order \in 1 .. n
    BY DEF Even
  <1> HIDE DEF n
  <1>2. n \in Nat
    BY DEF n
  <1>3. \A id \in S : other(id) \in S /\ new[id].order = rows[other(id)].order
    BY <1>1, <1>2
  <1>4. \A c, d \in S : other(c) = other(d) => c = d
    OBVIOUS
  <1> HIDE DEF other
  <1> QED
    BY <1>1, <1>3, <1>4 DEF Even, n

\* ... when a step is added behind the last, ...
LEMMA EvenAdded ==
  ASSUME NEW S, IsFiniteSet(S), NEW rows, NEW new, Even(S, rows), NEW last, last \notin S,
         \A id \in S : new[id].order = rows[id].order,
         new[last].order = Cardinality(S) + 1
  PROVE  Even(S \union {last}, new)
  <1> DEFINE n == Cardinality(S)
             T == S \union {last}
  <1>1. n \in Nat /\ Cardinality(T) = n + 1
    BY FS_CardinalityType, FS_AddElement
  <1>2. /\ \A id \in S : rows[id].order \in 1 .. n
        /\ \A c, d \in S : rows[c].order = rows[d].order => c = d
    BY DEF Even
  <1>3. \A id \in S : new[id].order \in 1 .. n /\ new[id].order # n + 1
    <2> HIDE DEF n
    <2> QED
      BY <1>1, <1>2
  <1>4. new[last].order = n + 1
    OBVIOUS
  <1>5. \A id \in T : new[id].order \in 1 .. (n + 1)
    <2> HIDE DEF n
    <2> QED
      BY <1>1, <1>3, <1>4
  <1>6. \A c, d \in T : new[c].order = new[d].order => c = d
    <2> HIDE DEF n
    <2> QED
      BY <1>2, <1>3, <1>4
  <1> QED
    BY <1>1, <1>5, <1>6 DEF Even

\* ... and when the last is deleted.
LEMMA EvenDeleted ==
  ASSUME NEW S, IsFiniteSet(S), NEW rows, NEW new, Even(S, rows), NEW last \in S,
         \A id \in S : rows[id].order <= rows[last].order,
         \A id \in S \ {last} : new[id].order = rows[id].order
  PROVE  Even(S \ {last}, new)
  <1> DEFINE n == Cardinality(S)
             T == S \ {last}
  <1>1. /\ n \in Nat /\ Cardinality(T) = n - 1
        /\ \A i \in 1 .. n : \E id \in S : rows[id].order = i
    BY EvenIsOnto, FS_RemoveElement
  <1>2. /\ \A id \in S : rows[id].order \in 1 .. n
        /\ \A c, d \in S : rows[c].order = rows[d].order => c = d
    BY DEF Even
  <1>3. rows[last].order = n
    <2> HIDE DEF n
    <2>1. n \in 1 .. n
      BY <1>1, <1>2
    <2>2. PICK id \in S : rows[id].order = n
      BY <1>1, <2>1
    <2> QED
      BY <1>1, <1>2, <2>2
  <1>4. \A id \in T : new[id].order \in 1 .. (n - 1)
    <2> HIDE DEF n
    <2> QED
      BY <1>1, <1>2, <1>3
  <1>5. \A c, d \in T : new[c].order = new[d].order => c = d
    BY <1>2
  <1> QED
    BY <1>1, <1>4, <1>5 DEF Even

\* What a save of a move or a new step does, when nobody has changed the list since it was read.
MovesNeighbours(r, a, b) ==
  /\ a \in StepsOf(r.version) /\ b \in StepsOf(r.version) /\ a # b
  /\ Before(a, b)
  /\ r.step = IF r.kind = "up" THEN b ELSE a
  /\ steps[a].order <= steps[b].order
  /\ \A c \in StepsOf(r.version) : ~(steps[a].order < steps[c].order /\ steps[c].order < steps[b].order)
  /\ StepsOf(r.version)' = StepsOf(r.version)
  /\ \A id \in StepsOf(r.version) \ {a, b} : steps'[id].order = steps[id].order
  /\ steps'[a].order = steps[a].order + 1
  /\ steps'[b].order = steps[b].order - 1

LEMMA SavedMove ==
  ASSUME TypeInv, NEW r, Sound(r), Saved(r), Moves(r), FitsOrder(r)
  PROVE  \E a, b : MovesNeighbours(r, a, b)
  <1> DEFINE S == StepsOf(r.version)
  <1>1. r.kind \in {"up", "down"} /\ r.deleted = {} /\ r.added = << >>
    BY DEF Moves
  <1>2. PICK a, b \in S : /\ Before(a, b)
                          /\ r.step = IF r.kind = "up" THEN b ELSE a
                          /\ DOMAIN r.order = {a, b}
                          /\ r.order[a] = steps[a].order + 1
                          /\ r.order[b] = steps[b].order - 1
    BY <1>1 DEF FitsOrder
  <1>3. steps[a].version = r.version /\ steps[b].version = r.version
    BY <1>2 DEF StepsOf
  <1>4. /\ a # b /\ steps[a].order <= steps[b].order
        /\ \A c \in S : ~(steps[a].order < steps[c].order /\ steps[c].order < steps[b].order)
    BY <1>2, <1>3 DEF Before
  <1>5. S' = S
    <2>1. r.version = Target(r)
      BY <1>1, Reach
    <2>2. S' = (S \ r.deleted) \union (lastStep + 1 .. lastStep + Len(r.added))
      BY <2>1, StepsAfter
    <2>3. lastStep + 1 .. lastStep + Len(r.added) = {}
      BY <1>1, NoneAdded
    <2> QED
      BY <1>1, <2>2, <2>3
  <1>6. \A id \in S : steps'[id].order = IF id \in DOMAIN r.order THEN r.order[id] ELSE steps[id].order
    BY <1>1, StepsAfter
  <1>7. /\ \A id \in S \ {a, b} : steps'[id].order = steps[id].order
        /\ steps'[a].order = steps[a].order + 1
        /\ steps'[b].order = steps[b].order - 1
    BY <1>2, <1>6
  <1> QED
    BY <1>2, <1>4, <1>5, <1>7 DEF MovesNeighbours

LEMMA SavedAddition ==
  ASSUME TypeInv, NEW r, Sound(r), Saved(r), Adds(r)
  PROVE  LET last == lastStep + 1
             S == StepsOf(r.version)
         IN /\ last \notin S /\ StepsOf(r.version)' = S \union {last}
            /\ DOMAIN steps' = DOMAIN steps \union {last} /\ last \notin DOMAIN steps
            /\ \A id \in S : steps'[id].order = steps[id].order
            /\ FitsOrder(r) => steps'[last].order = Cardinality(S) + 1
  <1> DEFINE last == lastStep + 1
             S == StepsOf(r.version)
  <1>1. r.kind = "add" /\ r.deleted = {} /\ DOMAIN r.order = {} /\ Len(r.added) = 1
    BY DEF Adds
  <1>2. lastStep \in Nat
    BY BundleVersionsAssumption DEF TypeInv, TypeOK
  <1>3. lastStep + 1 .. lastStep + Len(r.added) = {last} /\ last - lastStep = 1
    BY <1>1, <1>2
  <1>4. r.version = Target(r)
    BY <1>1, Reach
  <1> HIDE DEF last
  <1>5. S' = S \union {last}
    <2>1. S' = (S \ r.deleted) \union (lastStep + 1 .. lastStep + Len(r.added))
      BY <1>4, StepsAfter
    <2> QED
      BY <1>1, <1>3, <2>1
  <1>6. \A id \in S : steps'[id].order = steps[id].order
    BY <1>1, StepsAfter
  <1>7. last \notin S /\ steps'[last].order = r.added[1].order
    BY <1>3, StepsAfter
  <1>8. FitsOrder(r) => r.added[1].order = Cardinality(S) + 1
    BY <1>1 DEF FitsOrder
  <1>9. DOMAIN steps' = DOMAIN steps \union {last} /\ last \notin DOMAIN steps
    BY <1>1, <1>3 DEF Saved
  <1> QED
    BY <1>5, <1>6, <1>7, <1>8, <1>9 DEF last

LEMMA SavedEven ==
  ASSUME Inv, NEW u \in Users, NEW r, r = request[u], Save(u),
         NEW v \in Versions, v \notin uneven', <<v, "order">> \notin clashed'
  PROVE  Even(StepsOf(v), steps)'
  <1> DEFINE S == StepsOf(v)
  <1>1. /\ TypeInv /\ Sound(r) /\ Saved(r) /\ Fits(r, stale[u])
        /\ Moves(r) \/ Adds(r) \/ Edits(r) \/ Deletes(r) \/ Creates(r)
        /\ \A aspect \in stale[u] : <<r.version, aspect>> \in clashed'
        /\ uneven' = uneven \union Upset(r)
        /\ clashed \subseteq clashed'
    <2>1. TypeInv /\ Requests
      BY DEF Inv
    <2>2. Sound(r) /\ Saved(r) /\ Fits(r, stale[u])
      BY <2>1, SavedRows
    <2>3. /\ \A aspect \in stale[u] : <<r.version, aspect>> \in clashed'
          /\ clashed \subseteq clashed'
      BY <2>1, SavedRequests
    <2>4. uneven' = uneven \union Upset(r)
      BY DEF Save
    <2> QED
      BY <2>1, <2>2, <2>3, <2>4 DEF Sound, Shape
  <1>2. v \notin Upset(r) /\ Even(S, steps)
    BY <1>1 DEF Inv, EvenLists
  <1>3. IsFiniteSet(S) /\ Cardinality(S) \in Nat
    BY <1>1, FiniteSteps
  <1> SUFFICES Even(S', steps')
    BY DEF Even
  <1>4. CASE v # Target(r) \/ (r.kind # "create" /\ "order" \notin Touches(r))
    <2>1. SameOrders(v)
      BY <1>1, <1>4, OrdersKept
    <2> QED
      BY <1>2, <2>1 DEF SameOrders, Even
  <1>5. CASE v = Target(r) /\ r.kind = "create"
    <2> DEFINE m == Len(r.added)
    <2>1. r.version \notin uneven /\ <<r.version, "order">> \notin clashed /\ r.deleted = {}
      BY <1>1, <1>2, <1>5, Reach DEF Upset
    <2>2. Even(DOMAIN r.added, r.added)
      BY <1>1, <1>5, <2>1 DEF Sound, Copied
    <2>3. m \in Nat /\ DOMAIN r.added = 1 .. m /\ lastStep \in Nat /\ lastVersion \in Nat
      BY <1>1, BundleVersionsAssumption DEF Sound, IsRequest, TypeInv, TypeOK, Versions
    <2>4. S = {}
      <3>1. v = lastVersion + 1
        BY <1>1, <1>5, Reach
      <3>2. \A id : id \notin S
        BY <1>1, <2>3, <3>1, StepTypes
      <3> QED
        BY <3>2
    <2> DEFINE T == lastStep + 1 .. lastStep + m
    <2>5. S' = T
      <3>1. S' = (S \ r.deleted) \union T
        BY <1>1, <1>5, StepsAfter
      <3> QED
        BY <2>4, <3>1
    <2>6. Cardinality(T) = m /\ Cardinality(1 .. m) = m
      <3>1. lastStep + m - (lastStep + 1) + 1 = m /\ m - 1 + 1 = m
        <4> HIDE DEF m
        <4> QED
          BY <2>3
      <3>2. m = 0 => lastStep + 1 > lastStep + m
        <4> HIDE DEF m
        <4> QED
          BY <2>3
      <3> HIDE DEF m
      <3> QED
        BY <2>3, <3>1, <3>2, FS_Interval
    <2>7. \A id \in T : steps'[id].order = r.added[id - lastStep].order
      BY <1>1, StepsAfter
    <2> HIDE DEF m
    <2>8. \A id \in T : id - lastStep \in 1 .. m
      BY <2>3
    <2>9. \A id \in T : steps'[id].order \in 1 .. m
      BY <2>2, <2>3, <2>6, <2>7, <2>8 DEF Even
    <2>10. \A x, y \in T : steps'[x].order = steps'[y].order => x = y
      <3> SUFFICES ASSUME NEW x \in T, NEW y \in T, steps'[x].order = steps'[y].order PROVE x = y
        OBVIOUS
      <3>1. r.added[x - lastStep].order = r.added[y - lastStep].order
        BY <2>7
      <3>2. x - lastStep \in DOMAIN r.added /\ y - lastStep \in DOMAIN r.added
        BY <2>3, <2>8
      <3>3. x - lastStep = y - lastStep
        BY <2>2, <3>1, <3>2 DEF Even
      <3>4. x \in Int /\ y \in Int /\ lastStep \in Int
        BY <2>3
      <3> QED
        BY <3>3, <3>4
    <2> QED
      BY <2>5, <2>6, <2>9, <2>10 DEF Even
  <1>6. ASSUME v = Target(r), r.kind # "create", r.kind \in {"up", "down", "add"}
        PROVE  v = r.version /\ FitsOrder(r)
    <2>1. v = r.version
      BY <1>1, <1>6, Reach
    <2>2. "order" \notin stale[u]
      BY <1>1, <2>1
    <2> QED
      BY <1>1, <2>1, <2>2 DEF Fits
  <1>7. CASE v = Target(r) /\ Moves(r)
    <2>1. v = r.version /\ FitsOrder(r)
      BY <1>6, <1>7 DEF Moves
    <2>2. PICK a, b : MovesNeighbours(r, a, b)
      BY <1>1, <1>7, <2>1, SavedMove
    <2>3. /\ a \in S /\ b \in S /\ a # b /\ steps[a].order <= steps[b].order
          /\ \A c \in S : ~(steps[a].order < steps[c].order /\ steps[c].order < steps[b].order)
          /\ S' = S
          /\ \A id \in S \ {a, b} : steps'[id].order = steps[id].order
          /\ steps'[a].order = steps[a].order + 1
          /\ steps'[b].order = steps[b].order - 1
      BY <2>1, <2>2 DEF MovesNeighbours
    <2> HIDE DEF S
    <2>4. steps[b].order = steps[a].order + 1
      BY ONLY <1>2, <1>3, <2>3, NeighboursOfEven
    <2>5. Even(S, steps')
      BY ONLY <1>2, <1>3, <2>3, <2>4, EvenSwapped
    <2> QED
      BY <2>3, <2>5
  <1>8. CASE v = Target(r) /\ Adds(r)
    <2>1. v = r.version /\ FitsOrder(r)
      BY <1>6, <1>8 DEF Adds
    <2> DEFINE last == lastStep + 1
    <2>2. /\ last \notin S /\ S' = S \union {last}
          /\ \A id \in S : steps'[id].order = steps[id].order
          /\ steps'[last].order = Cardinality(S) + 1
      BY <1>1, <1>8, <2>1, SavedAddition
    <2> HIDE DEF S, last
    <2>3. Even(S \union {last}, steps')
      BY ONLY <1>2, <1>3, <2>2, EvenAdded
    <2> QED
      BY <2>2, <2>3
  <1>9. CASE v = Target(r) /\ Deletes(r)
    <2>1. /\ r.kind = "delete" /\ v = r.version /\ DOMAIN r.order = {} /\ r.added = << >>
          /\ r.deleted = {r.step}
      BY <1>1, <1>9, Reach DEF Deletes
    <2> DEFINE last == r.step
    <2>2. last \in S /\ IsLast(last)
      BY <1>1, <1>2, <2>1, Reach DEF Upset
    <2>3. \A id \in S : steps[id].order <= steps[last].order
      BY <2>2 DEF IsLast, StepsOf
    <2>4. S' = S \ {last}
      <3>1. S' = (S \ r.deleted) \union (lastStep + 1 .. lastStep + Len(r.added))
        BY <1>1, <1>9, StepsAfter
      <3>2. lastStep + 1 .. lastStep + Len(r.added) = {}
        BY <1>1, <2>1, NoneAdded
      <3> QED
        BY <2>1, <3>1, <3>2
    <2>5. \A id \in S \ {last} : steps'[id].order = steps[id].order
      BY <1>1, <2>1, StepsAfter
    <2> HIDE DEF S, last
    <2>6. Even(S \ {last}, steps')
      BY ONLY <1>2, <1>3, <2>2, <2>3, <2>5, EvenDeleted
    <2> QED
      BY <2>4, <2>6
  <1>10. Edits(r) => r.kind # "create" /\ "order" \notin Touches(r)
    BY DEF Edits, Touches
  <1>11. Creates(r) => r.kind = "create"
    BY DEF Creates
  <1> QED
    BY <1>1, <1>4, <1>5, <1>7, <1>8, <1>9, <1>10, <1>11

-----------------------------------------------------------------------------
(* The invariant holds.                                                    *)

LEMMA SaveKeepsInv ==
  ASSUME Inv, NEW u \in Users, Save(u)
  PROVE  Inv'
  <1>1. TypeInv /\ Requests
    BY DEF Inv
  <1>2. TypeInv' /\ Requests'
    BY <1>1, SavedTypes, SaveKeepsRequests
  <1>3. Heads' /\ References'
    BY SavedHeadsAre, SavedReferences
  <1>4. EvenLists'
    <2> SUFFICES ASSUME NEW v \in Versions, v \notin uneven', <<v, "order">> \notin clashed'
                 PROVE  Even(StepsOf(v), steps)'
      BY DEF EvenLists
    <2> QED
      BY SavedEven
  <1> QED
    BY <1>2, <1>3, <1>4 DEF Inv

LEMMA InitInv == Init => Inv
  <1> SUFFICES ASSUME Init PROVE Inv
    OBVIOUS
  <1>1. DOMAIN steps = {} /\ \A v \in Versions : refs[v] = {} /\ StepsOf(v) = {} /\ left[v] = {}
    BY DEF Init, StepsOf
  <1>2. 1 \in Versions
    BY BundleVersionsAssumption DEF Versions
  <1>3. TypeOK
    BY <1>1, <1>2, BundleVersionsAssumption DEF Init, TypeOK
  <1>4. Given
    BY <1>1 DEF Init, Given
  <1>5. Requests
    BY DEF Init, Requests, RequestOf
  <1>6. Heads
    BY <1>2 DEF Init, Heads
  <1>7. References
    BY <1>1 DEF References, ReferencesOf, ProjectsOf
  <1>8. EvenLists
    BY <1>1 DEF EvenLists, Even
  <1> QED
    BY <1>3, <1>4, <1>5, <1>6, <1>7, <1>8 DEF Inv, TypeInv

LEMMA NextInv == Inv /\ [Next]_vars => Inv'
  <1> SUFFICES ASSUME Inv, [Next]_vars PROVE Inv'
    OBVIOUS
  <1>1. TypeInv /\ EvenLists
    BY DEF Inv
  <1>2. ASSUME NEW u \in Users, \E r : Computes(r) /\ Open(u, r) PROVE Inv'
    BY <1>2, OpenKeepsInv
  <1>3. ASSUME NEW u \in Users, NEW id \in DOMAIN steps, MoveUp(u, id) \/ MoveDown(u, id)
        PROVE  \E r : Computes(r) /\ Open(u, r)
    <2>1. CASE MoveUp(u, id)
      <3>1. PICK previous \in DOMAIN steps :
              Before(previous, id) /\ Open(u, Exchanged("up", id, previous, id))
        BY <2>1 DEF MoveUp
      <3>2. Computes(Exchanged("up", id, previous, id))
        BY <1>1, <3>1, MoveComputes
      <3> QED
        BY <3>1, <3>2
    <2>2. CASE MoveDown(u, id)
      <3>1. PICK next \in DOMAIN steps :
              Before(id, next) /\ Open(u, Exchanged("down", id, id, next))
        BY <2>2 DEF MoveDown
      <3>2. Computes(Exchanged("down", id, id, next))
        BY <1>1, <3>1, MoveComputes
      <3> QED
        BY <3>1, <3>2
    <2> QED
      BY <1>3, <2>1, <2>2
  <1>4. CASE Next
    <2>1. PICK u \in Users :
            \/ \E id \in DOMAIN steps :
                 \/ MoveUp(u, id)
                 \/ MoveDown(u, id)
                 \/ DeleteStep(u, id)
                 \/ \E p \in ProjectVersions : SaveStep(u, id, p)
            \/ \E v \in Versions, p \in ProjectVersions \union {NoProject} : AddStep(u, v, p)
            \/ \E v \in Versions : CreateNewVersion(u, v)
            \/ Save(u)
            \/ BreakOff(u)
      BY <1>4 DEF Next
    <2>2. CASE \E id \in DOMAIN steps : MoveUp(u, id) \/ MoveDown(u, id)
      BY <1>2, <1>3, <2>2
    <2>3. CASE \E id \in DOMAIN steps : DeleteStep(u, id)
      BY <1>1, <1>2, <2>3, DeleteComputes
    <2>4. CASE \E id \in DOMAIN steps, p \in ProjectVersions : SaveStep(u, id, p)
      BY <1>1, <1>2, <2>4, SaveComputes
    <2>5. CASE \E v \in Versions, p \in ProjectVersions \union {NoProject} : AddStep(u, v, p)
      BY <1>1, <1>2, <2>5, AddComputes
    <2>6. CASE \E v \in Versions : CreateNewVersion(u, v)
      BY <1>1, <1>2, <2>6, CreateComputes
    <2>7. CASE Save(u)
      BY <2>7, SaveKeepsInv
    <2>8. CASE BreakOff(u)
      BY <2>8, BreakOffKeepsInv
    <2> QED
      BY <2>1, <2>2, <2>3, <2>4, <2>5, <2>6, <2>7, <2>8
  <1>5. CASE UNCHANGED vars
    BY <1>5, StutterKeepsInv
  <1> QED
    BY <1>4, <1>5

LEMMA InvAlways == Spec => []Inv
  BY InitInv, NextInv, PTL DEF Spec

\* The rows of steps, references and versions, the counters and the histories keep their types.
THEOREM BundleVersionsTypeCorrect == Spec => []TypeOK
  BY InvAlways, PTL DEF Inv, TypeInv

\* A version refers to the project of every step, and beyond them only to those of steps
\* deleted since the references were last updated: what requests open at the same time have
\* computed from rows they had read fits the rows they are saved over, until one is saved whose
\* references another one had changed.
THEOREM BundleVersionsReferencesMatchSteps == Spec => []ReferencesMatchSteps
  <1>1. Inv => ReferencesMatchSteps
    BY DEF Inv, References, ReferencesOf, ReferencesMatchSteps
  <1> QED
    BY <1>1, InvAlways, PTL

\* A bundle has one head version, and with a single instance at most one that is deployed
\* automatically, however many versions are created at the same time, until one is created from
\* a version that had another one created from it after it had been read.
THEOREM BundleVersionsOneSuccessor == Spec => []OneSuccessor
  <1>1. Inv => OneSuccessor
    <2> SUFFICES ASSUME Inv, \A v \in Versions : <<v, "head">> \notin clashed
                 PROVE  /\ Cardinality(isHead) = 1
                        /\ SingleInstance => Cardinality(autoDeploy) <= 1
      BY DEF OneSuccessor
    <2>1. Cardinality(isHead) = 1
      BY FS_Singleton DEF Inv, Heads
    <2>2. ASSUME SingleInstance PROVE Cardinality(autoDeploy) <= 1
      <3>1. autoDeploy = {} \/ \E v \in Versions : autoDeploy = {v}
        BY <2>2 DEF Inv, Heads
      <3>2. Cardinality(autoDeploy) = 0 \/ Cardinality(autoDeploy) = 1
        BY <3>1, FS_Singleton, FS_EmptySet
      <3> QED
        BY <3>2
    <2> QED
      BY <2>1, <2>2
  <1> QED
    BY <1>1, InvAlways, PTL

-----------------------------------------------------------------------------
(* Lists change as asked.                                                  *)

\* The steps a save of r says something of.
KeptOf == {id \in DOMAIN steps : id \in DOMAIN steps' /\ <<steps[id].version, "order">> \notin clashed'}

\* What is known of a save.
LEMMA SaveFacts ==
  ASSUME Inv, NEW u \in Users, NEW r, r = request[u], Save(u)
  PROVE  /\ TypeInv /\ Sound(r) /\ Saved(r) /\ EvenLists
         /\ Moves(r) \/ Adds(r) \/ Edits(r) \/ Deletes(r) \/ Creates(r)
         /\ clashed \subseteq clashed'
         /\ <<r.version, "order">> \notin clashed' => FitsOrder(r)
         /\ \A id \in KeptOf : /\ id \in DOMAIN steps \ r.deleted
                               /\ steps'[id].version = steps[id].version
                               /\ steps'[id].order = IF id \in DOMAIN r.order THEN r.order[id]
                                                     ELSE steps[id].order
                               /\ steps[id].order \in Int
  <1>1. TypeInv /\ Requests /\ EvenLists
    BY DEF Inv
  <1>2. Sound(r) /\ Fits(r, stale[u]) /\ Saved(r)
    BY <1>1, SavedRows
  <1>3. clashed \subseteq clashed' /\ \A aspect \in stale[u] : <<r.version, aspect>> \in clashed'
    BY <1>1, SavedRequests
  <1>4. <<r.version, "order">> \notin clashed' => FitsOrder(r)
    BY <1>2, <1>3 DEF Fits
  <1>5. ASSUME NEW id \in KeptOf
        PROVE  /\ id \in DOMAIN steps \ r.deleted
               /\ steps'[id].version = steps[id].version
               /\ steps'[id].order = IF id \in DOMAIN r.order THEN r.order[id] ELSE steps[id].order
               /\ steps[id].order \in Int
    <2>1. id \in DOMAIN steps /\ id \in DOMAIN steps'
      BY DEF KeptOf
    <2>2. id \in DOMAIN steps \ r.deleted
      BY <1>2, <2>1 DEF Saved
    <2>3. steps[id].order \in Int
      BY <1>1, <2>1, StepTypes
    <2> QED
      BY <1>2, <2>2, <2>3 DEF Saved
  <1> QED
    BY <1>1, <1>2, <1>3, <1>4, <1>5 DEF Sound, Shape

\* A step is deleted only by its own request.
LEMMA DeletedAsAsked ==
  ASSUME Inv, NEW u \in Users, NEW r, r = request[u], Save(u)
  PROVE  DOMAIN steps \ DOMAIN steps' = IF r.kind = "delete" THEN {r.step} ELSE {}
  <1>1. Saved(r) /\ (Moves(r) \/ Adds(r) \/ Edits(r) \/ Deletes(r) \/ Creates(r))
    BY SaveFacts
  <1>2. DOMAIN steps \ DOMAIN steps' = r.deleted
    BY <1>1 DEF Saved
  <1>3. r.deleted = IF r.kind = "delete" THEN {r.step} ELSE {}
    BY <1>1 DEF Moves, Adds, Edits, Deletes, Creates
  <1> QED
    BY <1>2, <1>3

\* A step moves past one neighbour, and every two others stay as they were.
LEMMA MovedAsAsked ==
  ASSUME Inv, NEW u \in Users, NEW r, r = request[u], Save(u), NEW a \in KeptOf, NEW b \in KeptOf
  PROVE  /\ Above(a, b) => ~Above(b, a)' \/ Exchanges(r, a, b)
         /\ steps[a].version \notin uneven =>
              (Above(a, b)' <=> Exchanges(r, b, a) \/ (Above(a, b) /\ ~Exchanges(r, a, b)))
  <1>1. /\ TypeInv /\ Sound(r) /\ Saved(r) /\ EvenLists
        /\ Moves(r) \/ Adds(r) \/ Edits(r) \/ Deletes(r) \/ Creates(r)
        /\ clashed \subseteq clashed'
        /\ <<r.version, "order">> \notin clashed' => FitsOrder(r)
    BY SaveFacts
  <1>2. \A id \in {a, b} : /\ id \in DOMAIN steps \ r.deleted
                           /\ steps'[id].version = steps[id].version
                           /\ steps'[id].order = IF id \in DOMAIN r.order THEN r.order[id]
                                                 ELSE steps[id].order
                           /\ steps[id].order \in Int
                           /\ <<steps[id].version, "order">> \notin clashed'
    BY SaveFacts DEF KeptOf
  <1> DEFINE v == steps[a].version
             S == StepsOf(v)
  <1>3. CASE steps[b].version # v
    <2>1. ~Exchanges(r, a, b) /\ ~Exchanges(r, b, a)
      BY <1>3 DEF Exchanges, Before, StepsOf
    <2>2. ~Above(a, b) /\ ~Above(b, a)' /\ ~Above(a, b)'
      BY <1>2, <1>3 DEF Above
    <2> QED
      BY <2>1, <2>2
  <1>4. ASSUME \A id \in {a, b} : id \notin DOMAIN r.order,
               ~Exchanges(r, a, b), ~Exchanges(r, b, a)
        PROVE  /\ Above(a, b) => ~Above(b, a)'
               /\ Above(a, b)' <=> Above(a, b)
    BY <1>2, <1>4 DEF Above
  <1>5. CASE ~Moves(r)
    <2>1. DOMAIN r.order = {} /\ r.kind \notin {"up", "down"}
      BY <1>1, <1>5 DEF Adds, Edits, Deletes, Creates
    <2>2. ~Exchanges(r, a, b) /\ ~Exchanges(r, b, a)
      BY <2>1 DEF Exchanges
    <2> QED
      BY <1>4, <2>1, <2>2
  <1>6. CASE Moves(r) /\ steps[b].version = v /\ v # r.version
    <2>1. \A id \in DOMAIN r.order : steps[id].version = r.version
      BY <1>1, Reach DEF StepsOf
    <2>2. r.step \in DOMAIN r.order
      BY <1>6 DEF Moves
    <2>3. ~Exchanges(r, a, b) /\ ~Exchanges(r, b, a)
      BY <1>6, <2>1, <2>2 DEF Exchanges
    <2> QED
      BY <1>4, <1>6, <2>1, <2>3
  <1>7. CASE Moves(r) /\ steps[b].version = v /\ v = r.version
    <2>1. FitsOrder(r)
      BY <1>1, <1>2, <1>7
    <2>2. PICK p, s : MovesNeighbours(r, p, s)
      BY <1>1, <1>7, <2>1, SavedMove
    <2>3. /\ p \in S /\ s \in S /\ p # s /\ Before(p, s)
          /\ r.step = IF r.kind = "up" THEN s ELSE p
          /\ steps[p].order <= steps[s].order
          /\ \A c \in S : ~(steps[p].order < steps[c].order /\ steps[c].order < steps[s].order)
          /\ \A id \in S \ {p, s} : steps'[id].order = steps[id].order
          /\ steps'[p].order = steps[p].order + 1
          /\ steps'[s].order = steps[s].order - 1
      BY <1>7, <2>2 DEF MovesNeighbours
    <2>4. a \in S /\ b \in S /\ steps'[a].version = steps'[b].version /\ steps[a].version = steps[b].version
      BY <1>2, <1>7 DEF StepsOf
    <2>5. \A c \in S : steps[c].order \in Int /\ steps[c].version = v
      BY <1>1, StepTypes
    <2>6. r.kind \in {"up", "down"}
      BY <1>7 DEF Moves
    <2>7. Exchanges(r, p, s)
      BY <2>3, <2>6 DEF Exchanges
    <2>8. /\ Above(a, b) <=> steps[a].order < steps[b].order
          /\ Above(b, a)' <=> steps'[b].order < steps'[a].order
          /\ Above(a, b)' <=> steps'[a].order < steps'[b].order
      BY <2>4 DEF Above
    <2> HIDE DEF S, v
    <2>9. Above(a, b) => ~Above(b, a)' \/ Exchanges(r, a, b)
      <3> SUFFICES ASSUME steps[a].order < steps[b].order, steps'[b].order < steps'[a].order
                   PROVE  a = p /\ b = s
        BY <2>7, <2>8
      <3> QED
        BY <2>3, <2>4, <2>5
    <2>10. ASSUME v \notin uneven
           PROVE  Above(a, b)' <=> Exchanges(r, b, a) \/ (Above(a, b) /\ ~Exchanges(r, a, b))
      <3>1. Even(S, steps) /\ IsFiniteSet(S)
        <4>1. v \in Versions /\ <<v, "order">> \notin clashed
          BY <1>1, <1>2, <1>7, Reach DEF v
        <4> QED
          BY <1>1, <2>10, <4>1, FiniteSteps DEF EvenLists, S
      <3>2. steps[s].order = steps[p].order + 1
        BY ONLY <2>3, <3>1, NeighboursOfEven
      <3>3. \A c, d \in S : steps[c].order = steps[d].order => c = d
        BY <3>1 DEF Even
      <3>4. ASSUME NEW c \in S, NEW d \in S, Exchanges(r, c, d) PROVE c = p /\ d = s
        <4>1. /\ c # d /\ steps[c].order <= steps[d].order
              /\ \A o \in S : ~(steps[c].order < steps[o].order /\ steps[o].order < steps[d].order)
          BY <2>5, <3>4 DEF Exchanges, Before, S
        <4>2. steps[d].order = steps[c].order + 1
          BY ONLY <3>1, <4>1, c \in S, d \in S, NeighboursOfEven
        <4>3. c = p \/ d = s
          BY <2>3, <2>6, <3>4 DEF Exchanges
        <4>4. steps[c].order = steps[p].order
          BY <2>3, <2>5, <3>2, <4>2, <4>3
        <4>5. c = p
          BY <2>3, <3>3, <4>4
        <4>6. d = s
          BY <2>3, <3>2, <3>3, <4>2, <4>5
        <4> QED
          BY <4>5, <4>6
      <3>5. /\ Exchanges(r, a, b) <=> a = p /\ b = s
            /\ Exchanges(r, b, a) <=> b = p /\ a = s
        BY <2>4, <2>7, <3>4
      <3>6. (steps'[a].order < steps'[b].order) <=>
               (b = p /\ a = s) \/ (steps[a].order < steps[b].order /\ ~(a = p /\ b = s))
        <4>1. \A c \in S \ {p, s} : steps[c].order # steps[p].order /\ steps[c].order # steps[s].order
          BY <2>3, <3>3
        <4> QED
          BY <2>3, <2>4, <2>5, <3>2, <4>1
      <3> QED
        BY <2>8, <3>5, <3>6
    <2> QED
      BY <2>9, <2>10 DEF v
  <1> QED
    BY <1>3, <1>5, <1>6, <1>7

\* A new step comes last.
LEMMA AddedAsAsked ==
  ASSUME Inv, NEW u \in Users, NEW r, r = request[u], Save(u), r.kind = "add", r.version \notin uneven,
         NEW a \in KeptOf \intersect StepsOf(r.version), NEW b \in DOMAIN steps' \ DOMAIN steps
  PROVE  Above(a, b)'
  <1> DEFINE S == StepsOf(r.version)
             n == Cardinality(S)
  <1>1. /\ TypeInv /\ Sound(r) /\ Saved(r) /\ EvenLists
        /\ Moves(r) \/ Adds(r) \/ Edits(r) \/ Deletes(r) \/ Creates(r)
        /\ clashed \subseteq clashed'
        /\ <<r.version, "order">> \notin clashed' => FitsOrder(r)
        /\ steps'[a].version = steps[a].version
    BY SaveFacts
  <1>2. steps[a].version = r.version /\ a \in S /\ <<r.version, "order">> \notin clashed'
    BY DEF StepsOf, KeptOf
  <1>3. Adds(r) /\ FitsOrder(r)
    BY <1>1, <1>2 DEF Moves, Edits, Deletes, Creates
  <1>4. /\ DOMAIN steps' = DOMAIN steps \union {lastStep + 1}
        /\ \A id \in S : steps'[id].order = steps[id].order
        /\ steps'[lastStep + 1].order = n + 1
    BY <1>1, <1>3, SavedAddition
  <1>5. b = lastStep + 1 /\ steps'[b].order = n + 1
    BY <1>4
  <1>6. steps'[b].version = r.version
    <2>1. b \in lastStep + 1 .. lastStep + Len(r.added)
      BY <1>1 DEF Saved
    <2>2. Target(r) = r.version
      BY DEF Target
    <2> QED
      BY <1>1, <2>1, <2>2 DEF Saved
  <1>7. n \in Nat /\ steps[a].order \in 1 .. n
    <2>1. r.version \in Versions /\ <<r.version, "order">> \notin clashed
      BY <1>1, <1>2, Reach
    <2> QED
      BY <1>1, <1>2, <2>1, FiniteSteps DEF EvenLists, Even
  <1> HIDE DEF n
  <1>8. steps'[a].order < steps'[b].order
    BY <1>2, <1>4, <1>5, <1>7
  <1> QED
    BY <1>1, <1>2, <1>6, <1>8 DEF Above

\* Each save changes the lists as the button of its request says: a step is deleted only by its own
\* request, a step moves past one neighbour and every two others stay as they were, and a new one
\* comes last, whatever other requests have been saved since it was computed; unless one of them
\* has changed the list of the same version.  After a step before the last has been deleted, no
\* two steps change places that the request does not ask to.
THEOREM BundleVersionsListsChangeAsAsked == Spec => ListsChangeAsAsked
  <1>1. Inv /\ [Next]_vars =>
          [\A u \in Users : Save(u) =>
             LET r == request[u]
                 kept == {id \in DOMAIN steps : id \in DOMAIN steps'
                                                 /\ <<steps[id].version, "order">> \notin clashed'}
             IN /\ DOMAIN steps \ DOMAIN steps' = IF r.kind = "delete" THEN {r.step} ELSE {}
                /\ \A a, b \in kept :
                     /\ Above(a, b) => ~Above(b, a)' \/ Exchanges(r, a, b)
                     /\ steps[a].version \notin uneven =>
                          (Above(a, b)' <=> Exchanges(r, b, a) \/ (Above(a, b) /\ ~Exchanges(r, a, b)))
                /\ (r.kind = "add" /\ r.version \notin uneven) =>
                     \A a \in kept \intersect StepsOf(r.version), b \in DOMAIN steps' \ DOMAIN steps :
                       Above(a, b)'
          ]_vars
    <2> SUFFICES ASSUME Inv, NEW u \in Users, Save(u), NEW r, r = request[u]
                 PROVE  /\ DOMAIN steps \ DOMAIN steps' = IF r.kind = "delete" THEN {r.step} ELSE {}
                        /\ \A a, b \in KeptOf :
                             /\ Above(a, b) => ~Above(b, a)' \/ Exchanges(r, a, b)
                             /\ steps[a].version \notin uneven =>
                                  (Above(a, b)' <=> \/ Exchanges(r, b, a)
                                                    \/ Above(a, b) /\ ~Exchanges(r, a, b))
                        /\ (r.kind = "add" /\ r.version \notin uneven) =>
                             \A a \in KeptOf \intersect StepsOf(r.version),
                                b \in DOMAIN steps' \ DOMAIN steps : Above(a, b)'
      BY DEF KeptOf
    <2>1. DOMAIN steps \ DOMAIN steps' = IF r.kind = "delete" THEN {r.step} ELSE {}
      BY DeletedAsAsked
    <2>2. \A a, b \in KeptOf :
            /\ Above(a, b) => ~Above(b, a)' \/ Exchanges(r, a, b)
            /\ steps[a].version \notin uneven =>
                 (Above(a, b)' <=> \/ Exchanges(r, b, a)
                                   \/ Above(a, b) /\ ~Exchanges(r, a, b))
      BY MovedAsAsked
    <2>3. (r.kind = "add" /\ r.version \notin uneven) =>
            \A a \in KeptOf \intersect StepsOf(r.version), b \in DOMAIN steps' \ DOMAIN steps :
              Above(a, b)'
      BY AddedAsAsked
    <2> QED
      BY <2>1, <2>2, <2>3
  <1> QED
    BY <1>1, InvAlways, PTL DEF ListsChangeAsAsked, Spec
=============================================================================
