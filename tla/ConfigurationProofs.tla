-------------------------- MODULE ConfigurationProofs --------------------------
(***************************************************************************)
(* Which value of a variable a deployment uses, for any users, machines,   *)
(* environments and values; what the merge of any changes into any         *)
(* document does, and what the configuration files say after any number of *)
(* configuration steps.                                                    *)
(***************************************************************************)
EXTENDS Configuration, WellFoundedInduction, TLAPS

-----------------------------------------------------------------------------
(* The values of a variable.                                               *)

DataFieldValue == [scope : Scopes, value : Values]

VariablesTypeOK ==
  /\ rows \in Seq(DataFieldValue)
  /\ request \in [Users -> [value : Values, scope : Scopes, row : Nat] \union {NoRequest}]
  /\ saves \in Nat
  /\ lastSaved \in [Scopes -> Values \union {Nowhere}]
  /\ overlapped \subseteq Scopes

\* A value has been saved for a scope if and only if it has a row.
SavedHasRow == \A s \in Scopes : lastSaved[s] # Nowhere <=> RowsOf(s) # {}

\* A scope with two requests open is one that requests have overlapped on.
OneAtATime ==
  \A u, w \in Users :
    (u # w /\ request[u] # NoRequest /\ request[w] # NoRequest
      /\ request[u].scope = request[w].scope) => request[u].scope \in overlapped

\* Without overlaps a scope has one row, and that holds the value saved last.
OneRow ==
  \A s \in Scopes \ overlapped : \A i \in RowsOf(s) :
    rows[i].value = lastSaved[s] /\ \A j \in RowsOf(s) : i = j

\* A request writes to a row of its scope, and without overlaps adds one only if there is none.
RightRow ==
  \A u \in Users : request[u] # NoRequest =>
    LET r == request[u] IN
      /\ r.row # 0 => r.row \in RowsOf(r.scope)
      /\ (r.row = 0 /\ r.scope \notin overlapped) => RowsOf(r.scope) = {}

\* The inductive invariant.  SavedValueIsUsed alone says nothing about the requests that are
\* still open: one that has found no row must not add a second one.
VariablesInv == VariablesTypeOK /\ SavedHasRow /\ OneAtATime /\ OneRow /\ RightRow

LEMMA FirstRowIsFirst ==
  ASSUME NEW S, S \subseteq Nat, S # {}
  PROVE  FirstRow(S) \in S /\ \A j \in S : FirstRow(S) <= j
  <1>1. PICK n \in S : \A k \in S : <<k, n>> \notin OpToRel(<, Nat)
    BY NatLessThanWellFounded, WFMin
  <1>2. n \in Nat /\ \A k \in S : k \in Nat
    BY <1>1
  <1>3. ASSUME NEW k \in S PROVE n <= k
    <2>1. ~(k < n)
      BY <1>1, <1>2 DEF OpToRel
    <2> QED
      BY <1>2, <2>1
  <1> QED
    BY <1>1, <1>3 DEF FirstRow

LEMMA RowsAreNumbered ==
  ASSUME VariablesTypeOK, NEW s
  PROVE  /\ RowsOf(s) \subseteq 1 .. Len(rows) /\ RowsOf(s) \subseteq Nat /\ 0 \notin RowsOf(s)
         /\ RowsOf(s) # {} => FirstRow(RowsOf(s)) \in RowsOf(s)
  <1>1. RowsOf(s) \subseteq 1 .. Len(rows) /\ RowsOf(s) \subseteq Nat /\ 0 \notin RowsOf(s)
    BY DEF VariablesTypeOK, RowsOf
  <1> QED
    BY <1>1, FirstRowIsFirst

\* A user's own request, once open, is not the absent one.
LEMMA Requests ==
  ASSUME VariablesTypeOK, NEW u \in Users, request[u] # NoRequest
  PROVE  /\ request[u] \in [value : Values, scope : Scopes, row : Nat]
         /\ request[u].value \in Values /\ request[u].scope \in Scopes /\ request[u].row \in Nat
         /\ request[u].value # Nowhere
  BY VariablesAssumption DEF VariablesTypeOK

LEMMA VariablesInitInv == VariablesInit => VariablesInv
  <1> SUFFICES ASSUME VariablesInit PROVE VariablesInv
    OBVIOUS
  <1>1. VariablesTypeOK
    BY DEF VariablesInit, VariablesTypeOK
  <1>2. \A s : RowsOf(s) = {}
    BY DEF VariablesInit, RowsOf
  <1> QED
    BY <1>1, <1>2 DEF VariablesInit, VariablesInv, SavedHasRow, OneAtATime, OneRow, RightRow

LEMMA ReadVariableKeepsInv ==
  ASSUME VariablesInv, NEW u \in Users, NEW s \in Scopes, NEW value \in Values,
         ReadVariable(u, s, value)
  PROVE  VariablesInv'
  <1> DEFINE row == IF RowsOf(s) = {} THEN 0 ELSE FirstRow(RowsOf(s))
             r == [value |-> value, scope |-> s, row |-> row]
  <1>0. VariablesTypeOK /\ SavedHasRow /\ OneAtATime /\ OneRow /\ RightRow
    BY DEF VariablesInv
  <1>1. /\ request[u] = NoRequest
        /\ request' = [request EXCEPT ![u] = r]
        /\ saves' = saves + 1
        /\ rows' = rows /\ lastSaved' = lastSaved
        /\ overlapped' = IF \E w \in Users : request[w] # NoRequest /\ request[w].scope = s
                         THEN overlapped \union {s} ELSE overlapped
    BY DEF ReadVariable
  <1>2. row \in Nat /\ (row = 0 => RowsOf(s) = {}) /\ (row # 0 => row \in RowsOf(s))
    BY <1>0, RowsAreNumbered
  <1>3. r \in [value : Values, scope : Scopes, row : Nat] /\ r.scope = s /\ r.row = row
    BY <1>2
  <1> HIDE DEF row, r
  <1>4. /\ request'[u] = r
        /\ \A w \in Users : w # u => request'[w] = request[w]
    BY <1>0, <1>1 DEF VariablesTypeOK
  <1>5. \A t : RowsOf(t)' = RowsOf(t)
    BY <1>1 DEF RowsOf
  <1>6. overlapped \subseteq overlapped'
    BY <1>1
  <1>7. VariablesTypeOK'
    BY <1>0, <1>1, <1>3 DEF VariablesTypeOK
  <1>8. SavedHasRow'
    BY <1>0, <1>1, <1>5 DEF SavedHasRow
  <1>9. OneAtATime'
    <2> SUFFICES ASSUME NEW v \in Users, NEW w \in Users, v # w,
                        request'[v] # NoRequest, request'[w] # NoRequest,
                        request'[v].scope = request'[w].scope
                 PROVE  request'[v].scope \in overlapped'
      BY DEF OneAtATime
    <2>1. CASE v # u /\ w # u
      BY <1>0, <1>4, <1>6, <2>1 DEF OneAtATime
    <2>2. CASE v = u
      BY <1>1, <1>3, <1>4, <2>2
    <2>3. CASE w = u
      BY <1>1, <1>3, <1>4, <2>3
    <2> QED
      BY <2>1, <2>2, <2>3
  <1>10. OneRow'
    BY <1>0, <1>1, <1>5, <1>6 DEF OneRow
  <1>11. RightRow'
    <2> SUFFICES ASSUME NEW w \in Users, request'[w] # NoRequest
                 PROVE  /\ request'[w].row # 0 => request'[w].row \in RowsOf(request'[w].scope)
                        /\ (request'[w].row = 0 /\ request'[w].scope \notin overlapped') =>
                             RowsOf(request'[w].scope) = {}
      BY <1>5 DEF RightRow
    <2>1. CASE w = u
      BY <1>2, <1>3, <1>4, <2>1
    <2>2. CASE w # u
      BY <1>0, <1>4, <1>6, <2>2 DEF RightRow
    <2> QED
      BY <2>1, <2>2
  <1> QED
    BY <1>7, <1>8, <1>9, <1>10, <1>11 DEF VariablesInv

\* The rows after a save of r: its scope has the row written, every other scope what it had.
Saved(r) ==
  /\ rows' \in Seq(DataFieldValue)
  /\ RowsOf(r.scope)' # {}
  /\ RowsOf(r.scope) \subseteq RowsOf(r.scope)'
  /\ \A s \in Scopes : s # r.scope =>
       /\ RowsOf(s)' = RowsOf(s)
       /\ \A i \in RowsOf(s) : rows'[i] = rows[i]
  /\ r.scope \notin overlapped =>
       \A i \in RowsOf(r.scope)' :
         rows'[i].value = r.value /\ \A j \in RowsOf(r.scope)' : i = j

LEMMA SavedRows ==
  ASSUME VariablesInv, NEW u \in Users, SaveVariable(u)
  PROVE  Saved(request[u])
  <1> SUFFICES ASSUME NEW r, r = request[u] PROVE Saved(r)
    OBVIOUS
  <1>1. /\ VariablesTypeOK /\ OneRow /\ RightRow
        /\ r # NoRequest /\ r.value \in Values /\ r.scope \in Scopes /\ r.row \in Nat
    BY Requests DEF VariablesInv, SaveVariable
  <1>2. CASE r.row = 0
    <2> DEFINE new == [scope |-> r.scope, value |-> r.value]
    <2>1. rows' = Append(rows, new) /\ new \in DataFieldValue
      BY <1>1, <1>2 DEF SaveVariable, DataFieldValue
    <2>2. /\ rows' \in Seq(DataFieldValue) /\ Len(rows') = Len(rows) + 1
          /\ rows'[Len(rows) + 1] = new /\ \A i \in 1 .. Len(rows) : rows'[i] = rows[i]
          /\ Len(rows) \in Nat /\ DOMAIN rows = 1 .. Len(rows) /\ DOMAIN rows' = 1 .. Len(rows) + 1
      BY <1>1, <2>1 DEF VariablesTypeOK
    <2>3. RowsOf(r.scope)' = RowsOf(r.scope) \union {Len(rows) + 1}
      BY <2>2 DEF RowsOf
    <2>4. \A s \in Scopes : s # r.scope => RowsOf(s)' = RowsOf(s)
      BY <2>2 DEF RowsOf
    <2>5. \A s : RowsOf(s) \subseteq 1 .. Len(rows)
      BY <1>1, RowsAreNumbered
    <2>6. r.scope \notin overlapped => RowsOf(r.scope) = {}
      BY <1>1, <1>2 DEF RightRow
    <2> QED
      BY <2>2, <2>3, <2>4, <2>5, <2>6 DEF Saved
  <1>3. CASE r.row # 0
    <2>1. rows' = [rows EXCEPT ![r.row].value = r.value] /\ r.row \in RowsOf(r.scope)
      BY <1>1, <1>3 DEF SaveVariable, RightRow
    <2>2. /\ r.row \in DOMAIN rows /\ rows[r.row].scope = r.scope /\ rows[r.row] \in DataFieldValue
          /\ DOMAIN rows' = DOMAIN rows
      BY <1>1, <2>1 DEF RowsOf, VariablesTypeOK
    <2>3. /\ rows'[r.row].scope = r.scope /\ rows'[r.row].value = r.value
          /\ rows'[r.row] \in DataFieldValue
          /\ \A i \in DOMAIN rows : i # r.row => rows'[i] = rows[i]
      BY <1>1, <2>1, <2>2 DEF DataFieldValue
    <2>4. rows' \in Seq(DataFieldValue)
      BY <1>1, <2>1, <2>2, <2>3 DEF VariablesTypeOK
    <2>5. \A s : RowsOf(s)' = RowsOf(s)
      BY <2>2, <2>3 DEF RowsOf
    <2>6. r.scope \notin overlapped => \A i, j \in RowsOf(r.scope) : i = r.row /\ i = j
      BY <1>1, <2>1 DEF OneRow
    <2>7. \A s \in Scopes : s # r.scope => \A i \in RowsOf(s) : rows'[i] = rows[i]
      BY <2>2, <2>3 DEF RowsOf
    <2> QED
      BY <2>1, <2>3, <2>4, <2>5, <2>6, <2>7 DEF Saved
  <1> QED
    BY <1>1, <1>2, <1>3

LEMMA SaveVariableKeepsInv ==
  ASSUME VariablesInv, NEW u \in Users, SaveVariable(u)
  PROVE  VariablesInv'
  <1>1. PICK r : r = request[u]
    OBVIOUS
  <1>2. /\ VariablesTypeOK /\ SavedHasRow /\ OneAtATime /\ OneRow /\ RightRow
        /\ r # NoRequest /\ r.value \in Values /\ r.scope \in Scopes /\ r.value # Nowhere
    BY <1>1, Requests DEF VariablesInv, SaveVariable
  <1>3. /\ request' = [request EXCEPT ![u] = NoRequest]
        /\ lastSaved' = [lastSaved EXCEPT ![r.scope] = r.value]
        /\ UNCHANGED <<saves, overlapped>>
    BY <1>1 DEF SaveVariable
  <1>4. Saved(r)
    BY <1>1, SavedRows
  <1>5. /\ lastSaved'[r.scope] = r.value
        /\ \A s \in Scopes : s # r.scope => lastSaved'[s] = lastSaved[s]
        /\ \A w \in Users : request'[w] # NoRequest => w # u /\ request'[w] = request[w]
    BY <1>2, <1>3 DEF VariablesTypeOK
  <1>6. VariablesTypeOK'
    BY <1>2, <1>3, <1>4 DEF Saved, VariablesTypeOK
  <1>7. SavedHasRow'
    BY <1>2, <1>4, <1>5 DEF Saved, SavedHasRow
  <1>8. OneAtATime'
    BY <1>2, <1>3, <1>5 DEF OneAtATime
  <1>9. OneRow'
    <2> SUFFICES ASSUME NEW s \in Scopes, s \notin overlapped, NEW i \in RowsOf(s)'
                 PROVE  rows'[i].value = lastSaved'[s] /\ \A j \in RowsOf(s)' : i = j
      BY <1>3 DEF OneRow
    <2>1. CASE s = r.scope
      BY <1>4, <1>5, <2>1 DEF Saved
    <2>2. CASE s # r.scope
      BY <1>2, <1>4, <1>5, <2>2 DEF Saved, OneRow
    <2> QED
      BY <2>1, <2>2
  <1>10. RightRow'
    <2> SUFFICES ASSUME NEW w \in Users, NEW q, q = request'[w], q # NoRequest
                 PROVE  /\ q.row # 0 => q.row \in RowsOf(q.scope)'
                        /\ (q.row = 0 /\ q.scope \notin overlapped) => RowsOf(q.scope)' = {}
      BY <1>3 DEF RightRow
    <2>1. /\ w # u /\ q = request[w] /\ q.scope \in Scopes
          /\ q.row # 0 => q.row \in RowsOf(q.scope)
          /\ (q.row = 0 /\ q.scope \notin overlapped) => RowsOf(q.scope) = {}
      BY <1>2, <1>5, Requests DEF RightRow
    <2>2. q.scope = r.scope => q.scope \in overlapped
      BY <1>1, <1>2, <2>1 DEF OneAtATime
    <2> QED
      BY <1>4, <2>1, <2>2 DEF Saved
  <1> QED
    BY <1>6, <1>7, <1>8, <1>9, <1>10 DEF VariablesInv

LEMMA VariablesNextInv == VariablesInv /\ [VariablesNext]_variables => VariablesInv'
  <1> SUFFICES ASSUME VariablesInv, [VariablesNext]_variables PROVE VariablesInv'
    OBVIOUS
  <1>1. CASE VariablesNext
    BY <1>1, ReadVariableKeepsInv, SaveVariableKeepsInv DEF VariablesNext
  <1>2. CASE UNCHANGED variables
    BY <1>2 DEF variables, VariablesInv, VariablesTypeOK, SavedHasRow, OneAtATime, OneRow, RightRow, RowsOf
  <1> QED
    BY <1>1, <1>2

LEMMA InvImpliesUsed == VariablesInv => SavedValueIsUsed
  <1> SUFFICES ASSUME VariablesInv, NEW m \in Machines,
                      NEW own, own = [environment |-> EnvironmentOf[m], machine |-> m],
                      NEW all, all = [own EXCEPT !.machine = Everywhere]
               PROVE  /\ lastSaved[own] # Nowhere /\ own \notin overlapped =>
                           Resolve(m) = lastSaved[own]
                      /\ /\ lastSaved[own] = Nowhere
                         /\ lastSaved[all] # Nowhere
                         /\ all \notin overlapped
                         /\ rows[FirstRow(InEnvironment(m))].scope = all
                         => Resolve(m) = lastSaved[all]
    BY DEF SavedValueIsUsed
  <1>1. VariablesTypeOK /\ SavedHasRow /\ OneRow
    BY DEF VariablesInv
  <1>2. own \in Scopes /\ all \in Scopes /\ all.environment = EnvironmentOf[m]
    BY VariablesAssumption DEF Scopes
  <1>3. ASSUME lastSaved[own] # Nowhere, own \notin overlapped PROVE Resolve(m) = lastSaved[own]
    <2>1. RowsOf(own) # {} /\ FirstRow(RowsOf(own)) \in RowsOf(own)
      BY <1>1, <1>2, <1>3, RowsAreNumbered DEF SavedHasRow
    <2>2. rows[FirstRow(RowsOf(own))].value = lastSaved[own]
      BY <1>1, <1>2, <1>3, <2>1 DEF OneRow
    <2> QED
      BY <2>1, <2>2 DEF Resolve
  <1>4. ASSUME lastSaved[own] = Nowhere, lastSaved[all] # Nowhere, all \notin overlapped,
               rows[FirstRow(InEnvironment(m))].scope = all
        PROVE  Resolve(m) = lastSaved[all]
    <2>1. RowsOf(own) = {} /\ RowsOf(all) # {}
      BY <1>1, <1>2, <1>4 DEF SavedHasRow
    <2>2. InEnvironment(m) # {} /\ InEnvironment(m) \subseteq Nat
      BY <1>1, <1>2, <2>1 DEF InEnvironment, RowsOf, VariablesTypeOK
    <2>3. FirstRow(InEnvironment(m)) \in RowsOf(all)
      BY <1>4, <2>2, FirstRowIsFirst DEF RowsOf, InEnvironment
    <2>4. rows[FirstRow(InEnvironment(m))].value = lastSaved[all]
      BY <1>1, <1>2, <1>4, <2>3 DEF OneRow
    <2> QED
      BY <2>1, <2>2, <2>4 DEF Resolve
  <1> QED
    BY <1>3, <1>4

\* The value saved last for a machine is the one its deployments use, and without one the value
\* saved last for its environment, if that has the first row; unless two requests have saved a
\* value for the same place at once.
THEOREM VariablesSavedValueIsUsed == VariablesSpec => []SavedValueIsUsed
  BY VariablesInitInv, VariablesNextInv, InvImpliesUsed, PTL DEF VariablesSpec
-----------------------------------------------------------------------------
(* Induction.                                                              *)

LEMMA SetInduction ==
  ASSUME NEW S, 0 \in S, \A n \in Nat : n \in S => n + 1 \in S
  PROVE  Nat \subseteq S
  <1> DEFINE T == {n \in Nat : n \notin S}
  <1>1. SUFFICES ASSUME T # {} PROVE FALSE
    OBVIOUS
  <1>2. PICK n \in T : \A k \in T : <<k, n>> \notin OpToRel(<, Nat)
    BY <1>1, NatLessThanWellFounded, WFMin
  <1>3. n # 0 /\ n - 1 \in Nat /\ n - 1 \notin S
    OBVIOUS
  <1>4. <<n - 1, n>> \in OpToRel(<, Nat)
    BY <1>3 DEF OpToRel
  <1> QED
    BY <1>2, <1>3, <1>4

-----------------------------------------------------------------------------
(* The merge as a sequence of steps.                                       *)

Steps(f, d, c, n) == f[0] = Unmerged(d) /\ \A k \in 1 .. n : f[k] = MergeNode(f[k - 1], c, k)

IsMergeUpTo(f, d, c, n) == f = [k \in 0 .. n |-> f[k]] /\ Steps(f, d, c, n)

LEMMA MergeExists ==
  ASSUME NEW d, NEW c, NEW n \in Nat
  PROVE  \E f : IsMergeUpTo(f, d, c, n)
  <1> DEFINE T == {i \in Nat : \E f : IsMergeUpTo(f, d, c, i)}
  <1>1. 0 \in T
    <2> DEFINE f == [i \in 0 .. 0 |-> Unmerged(d)]
    <2>1. f[0] = Unmerged(d) /\ f = [k \in 0 .. 0 |-> f[k]]
      OBVIOUS
    <2> HIDE DEF f
    <2>2. IsMergeUpTo(f, d, c, 0)
      BY <2>1 DEF IsMergeUpTo, Steps
    <2> QED
      BY <2>2
  <1>2. ASSUME NEW i \in Nat, i \in T PROVE i + 1 \in T
    <2>1. PICK f : IsMergeUpTo(f, d, c, i)
      BY <1>2
    <2> DEFINE next == MergeNode(f[i], c, i + 1)
               g == [k \in 0 .. i + 1 |-> IF k = i + 1 THEN next ELSE f[k]]
    <2>2. g[i + 1] = next /\ (\A k \in 0 .. i : g[k] = f[k]) /\ g = [k \in 0 .. i + 1 |-> g[k]]
      <3> HIDE DEF next
      <3> QED
        OBVIOUS
    <2> HIDE DEF g
    <2>3. ASSUME NEW k \in 1 .. i + 1 PROVE g[k] = MergeNode(g[k - 1], c, k)
      <3>1. CASE k = i + 1
        <4>1. k - 1 = i /\ i \in 0 .. i
          BY <3>1
        <4>2. g[k - 1] = f[i] /\ g[k] = next
          BY <2>2, <3>1, <4>1
        <4> QED
          BY <3>1, <4>1, <4>2
      <3>2. CASE k # i + 1
        <4>1. k \in 1 .. i /\ k - 1 \in 0 .. i /\ k \in 0 .. i
          BY <3>2
        <4>2. g[k - 1] = f[k - 1] /\ g[k] = f[k] /\ f[k] = MergeNode(f[k - 1], c, k)
          BY <2>1, <2>2, <4>1 DEF IsMergeUpTo, Steps
        <4> QED
          BY <4>2
      <3> QED
        BY <3>1, <3>2
    <2>4. g[0] = Unmerged(d)
      BY <2>1, <2>2 DEF IsMergeUpTo, Steps
    <2>5. IsMergeUpTo(g, d, c, i + 1)
      BY <2>2, <2>3, <2>4 DEF IsMergeUpTo, Steps
    <2> QED
      BY <2>5
  <1> HIDE DEF T
  <1>3. n \in T
    BY <1>1, <1>2, SetInduction
  <1> QED
    BY <1>3 DEF T

LEMMA MergeSteps ==
  ASSUME NEW d, NEW c, Len(c) \in Nat
  PROVE  Steps(MergeNodes(d, c), d, c, Len(c))
  <1> DEFINE N == Len(c)
             Body(f) == [k \in 0 .. N |-> IF k = 0 THEN Unmerged(d) ELSE MergeNode(f[k - 1], c, k)]
             M == MergeNodes(d, c)
  <1>1. PICK f : IsMergeUpTo(f, d, c, N)
    BY MergeExists
  <1>2. f = Body(f)
    <2>1. ASSUME NEW k \in 0 .. N PROVE f[k] = Body(f)[k]
      <3>1. CASE k = 0
        BY <1>1, <3>1 DEF IsMergeUpTo, Steps
      <3>2. CASE k # 0
        <4>1. k \in 1 .. N
          BY <3>2
        <4>2. f[k] = MergeNode(f[k - 1], c, k)
          BY <1>1, <4>1 DEF IsMergeUpTo, Steps
        <4> QED
          BY <3>2, <4>2
      <3> QED
        BY <3>1, <3>2
    <2>2. f = [k \in 0 .. N |-> f[k]]
      BY <1>1 DEF IsMergeUpTo
    <2>3. Body(f) = [k \in 0 .. N |-> Body(f)[k]]
      OBVIOUS
    <2> HIDE DEF Body
    <2> QED
      BY <2>1, <2>2, <2>3
  <1>3. M = CHOOSE g : g = Body(g)
    BY DEF MergeNodes
  <1> HIDE DEF M
  <1>4. M = Body(M)
    <2> HIDE DEF Body
    <2> QED
      BY <1>2, <1>3
  <1>5. M[0] = Unmerged(d)
    BY <1>4
  <1>6. ASSUME NEW k \in 1 .. N PROVE M[k] = MergeNode(M[k - 1], c, k)
    <2>1. M[k] = Body(M)[k] /\ k \in 0 .. N /\ k # 0
      BY <1>4
    <2> QED
      BY <2>1
  <1> QED
    BY <1>5, <1>6 DEF Steps, M

-----------------------------------------------------------------------------
(* One change.                                                             *)

LEMMA FirstIsFirst ==
  ASSUME NEW S, S \subseteq Nat, S # {}
  PROVE  First(S) \in S /\ \A j \in S : First(S) <= j
  <1>1. PICK n \in S : \A k \in S : <<k, n>> \notin OpToRel(<, Nat)
    BY NatLessThanWellFounded, WFMin
  <1>2. n \in Nat /\ \A k \in S : k \in Nat
    BY <1>1
  <1>3. ASSUME NEW k \in S PROVE n <= k
    <2>1. ~(k < n)
      BY <1>1, <1>2 DEF OpToRel
    <2> QED
      BY <1>2, <2>1
  <1> QED
    BY <1>1, <1>3 DEF First

IsSequence(s) == s \in Seq({s[i] : i \in DOMAIN s})

LEMMA TreeIsSequence ==
  ASSUME NEW nodes, IsTree(nodes)
  PROVE  /\ Len(nodes) \in Nat /\ DOMAIN nodes = 1 .. Len(nodes) /\ IsSequence(nodes)
         /\ \A i \in DOMAIN nodes : nodes[i].parent \in 0 .. i - 1
  BY DEF IsTree, IsSequence

LEMMA MoreValues ==
  ASSUME NEW S, NEW T, S \subseteq T, NEW s \in Seq(S)
  PROVE  s \in Seq(T)
  OBVIOUS

LEMMA FunctionIsSequence ==
  ASSUME NEW n \in Nat, NEW s, s = [i \in 1 .. n |-> s[i]]
  PROVE  IsSequence(s) /\ Len(s) = n
  <1> DEFINE S == {s[i] : i \in DOMAIN s}
  <1>1. DOMAIN s = 1 .. n
    OBVIOUS
  <1>2. s \in [1 .. n -> S]
    BY <1>1
  <1>3. s \in Seq(S)
    <2> HIDE DEF S
    <2> QED
      BY <1>2
  <1> QED
    BY <1>1, <1>3 DEF IsSequence

Appended(s, e, t) ==
  /\ Len(t) = Len(s) + 1 /\ DOMAIN t = 1 .. Len(s) + 1
  /\ t[Len(s) + 1] = e /\ \A i \in 1 .. Len(s) : t[i] = s[i]
  /\ IsSequence(t)

LEMMA AppendedSequence ==
  ASSUME NEW s, IsSequence(s), NEW e
  PROVE  Appended(s, e, Append(s, e))
  <1> DEFINE S == {s[i] : i \in DOMAIN s} \union {e}
             t == Append(s, e)
  <1>1. s \in Seq(S)
    BY MoreValues DEF IsSequence
  <1>2. /\ Len(t) = Len(s) + 1 /\ DOMAIN t = 1 .. Len(s) + 1
        /\ t[Len(s) + 1] = e /\ \A i \in 1 .. Len(s) : t[i] = s[i]
        /\ t \in Seq(S) /\ Len(s) \in Nat /\ DOMAIN s = 1 .. Len(s)
    <2>1. e \in S
      OBVIOUS
    <2> HIDE DEF S
    <2> QED
      BY <1>1, <2>1
  <1>3. S \subseteq {t[i] : i \in DOMAIN t}
    <2>1. Len(s) + 1 \in DOMAIN t
      BY <1>2
    <2>2. ASSUME NEW i \in DOMAIN s PROVE i \in DOMAIN t /\ t[i] = s[i]
      BY <1>2
    <2> QED
      BY <1>2, <2>1, <2>2
  <1> HIDE DEF S
  <1> QED
    BY <1>2, <1>3, MoreValues DEF Appended, IsSequence

Replaced(s, n, e, t) ==
  /\ Len(t) = Len(s) /\ DOMAIN t = DOMAIN s
  /\ t[n] = e /\ \A i \in DOMAIN s : i # n => t[i] = s[i]
  /\ IsSequence(t)

LEMMA ReplacedSequence ==
  ASSUME NEW s, IsSequence(s), NEW n \in DOMAIN s, NEW e
  PROVE  Replaced(s, n, e, [s EXCEPT ![n] = e])
  <1> DEFINE t == [s EXCEPT ![n] = e]
  <1>1. Len(s) \in Nat /\ DOMAIN s = 1 .. Len(s)
    BY DEF IsSequence
  <1>2. /\ DOMAIN t = DOMAIN s /\ t[n] = e /\ \A i \in DOMAIN s : i # n => t[i] = s[i]
        /\ t = [i \in 1 .. Len(s) |-> t[i]]
    BY <1>1
  <1>3. IsSequence(t) /\ Len(t) = Len(s)
    <2> HIDE DEF t
    <2> QED
      BY <1>1, <1>2, FunctionIsSequence
  <1> QED
    BY <1>2, <1>3 DEF Replaced

\* A merge after n changes: its places are elements of the document, named like the changes,
\* and its tree is that of the changes.
IsMerge(b, c, n) ==
  /\ IsDocument(b.nodes)
  /\ DOMAIN b.place = 0 .. n /\ DOMAIN b.markers = 0 .. n
  /\ b.place[0] = 0
  /\ \A k \in 1 .. n :
       /\ b.place[k] \in DOMAIN b.nodes
       /\ b.nodes[b.place[k]].name = c[k].name
       /\ b.nodes[b.place[k]].parent = b.place[c[k].parent]

\* Merging one change appends an element or changes the attributes of one.
NewNode(b, a, c, k) ==
  /\ Appends(b, c, k) \/ Found(b, c, k) = {}
  /\ a.place[k] = Len(b.nodes) + 1
  /\ Len(a.nodes) = Len(b.nodes) + 1
  /\ a.nodes[a.place[k]] =
       Element(c[k].name, MergeNodeAttributes(NoAttributes, c[k].attributes), b.place[c[k].parent])

OldNode(b, a, c, k) ==
  /\ ~Appends(b, c, k)
  /\ a.place[k] \in Found(b, c, k) /\ a.place[k] = First(Found(b, c, k))
  /\ \A i \in Found(b, c, k) : a.place[k] <= i
  /\ a.place[k] \in DOMAIN b.nodes
  /\ Len(a.nodes) = Len(b.nodes)
  /\ a.nodes[a.place[k]] =
       Element(b.nodes[a.place[k]].name,
               MergeNodeAttributes(b.nodes[a.place[k]].attributes, c[k].attributes),
               b.nodes[a.place[k]].parent)

Stepped(b, a, c, k) ==
  /\ NewNode(b, a, c, k) \/ OldNode(b, a, c, k)
  /\ \A i \in DOMAIN b.nodes : i # a.place[k] => a.nodes[i] = b.nodes[i]
  /\ \A j \in 0 .. k - 1 : a.place[j] = b.place[j] /\ a.markers[j] = b.markers[j]
  /\ a.markers[k] = GetCollectionMarkers(a.nodes, a.place[k], c, k)

LEMMA MergeNodeSteps ==
  ASSUME NEW b, NEW c, IsChanges(c), NEW k \in 1 .. Len(c), IsMerge(b, c, k - 1),
         NEW a, a = MergeNode(b, c, k)
  PROVE  Stepped(b, a, c, k) /\ IsMerge(a, c, k)
  <1> DEFINE found == Found(b, c, k)
             isNew == Appends(b, c, k) \/ found = {}
             place == IF isNew THEN Len(b.nodes) + 1 ELSE First(found)
             par == c[k].parent
             new == Element(c[k].name, MergeNodeAttributes(NoAttributes, c[k].attributes), b.place[par])
             old == [b.nodes EXCEPT ![place].attributes = MergeNodeAttributes(@, c[k].attributes)]
             nodes == IF isNew THEN Append(b.nodes, new) ELSE old
  <1>1. /\ a.nodes = nodes
        /\ a.place = Extended(b.place, k, place)
        /\ a.markers = Extended(b.markers, k, GetCollectionMarkers(nodes, place, c, k))
    BY DEF MergeNode
  <1>2. /\ Len(c) \in Nat /\ DOMAIN c = 1 .. Len(c) /\ k \in Nat /\ par \in 0 .. k - 1
        /\ Len(b.nodes) \in Nat /\ DOMAIN b.nodes = 1 .. Len(b.nodes)
        /\ IsSequence(b.nodes)
        /\ \A i \in DOMAIN b.nodes : b.nodes[i].parent \in 0 .. i - 1
    <2>1. IsTree(c) /\ IsTree(b.nodes)
      BY DEF IsMerge, IsDocument, IsChanges
    <2> QED
      BY <2>1, TreeIsSequence
  <1>3. /\ DOMAIN a.place = 0 .. k /\ DOMAIN a.markers = 0 .. k
        /\ a.place[k] = place
        /\ a.markers[k] = GetCollectionMarkers(nodes, place, c, k)
        /\ \A j \in 0 .. k - 1 : a.place[j] = b.place[j] /\ a.markers[j] = b.markers[j]
    <2> HIDE DEF nodes, place
    <2> QED
      BY <1>1, <1>2 DEF Extended
  <1>4. b.place[par] \in 0 .. Len(b.nodes)
    <2> HIDE DEF par
    <2>1. CASE par = 0
      <3>1. b.place[0] = 0
        BY DEF IsMerge
      <3> QED
        BY <1>2, <2>1, <3>1
    <2>2. CASE par # 0
      <3>1. par \in 1 .. k - 1
        BY <1>2, <2>2
      <3>2. b.place[par] \in DOMAIN b.nodes
        BY <3>1 DEF IsMerge
      <3> QED
        BY <1>2, <3>2
    <2> QED
      BY <2>1, <2>2
  <1> DEFINE HasPlace(j) ==
               /\ a.place[j] \in DOMAIN a.nodes
               /\ a.nodes[a.place[j]].name = c[j].name
               /\ a.nodes[a.place[j]].parent = a.place[c[j].parent]
  <1>5. ASSUME IsDocument(a.nodes), \A j \in 1 .. k : HasPlace(j)
        PROVE  IsMerge(a, c, k)
    <2>1. a.place[0] = 0
      <3>1. 0 \in 0 .. k - 1 /\ b.place[0] = 0
        BY <1>2 DEF IsMerge
      <3> QED
        BY <1>3, <3>1
    <2>2. DOMAIN a.place = 0 .. k /\ DOMAIN a.markers = 0 .. k
      BY <1>3
    <2> QED
      BY ONLY <1>5, <2>1, <2>2 DEF IsMerge
  <1>6. CASE isNew
    <2>1. place = Len(b.nodes) + 1 /\ nodes = Append(b.nodes, new)
      BY <1>6
    <2> HIDE DEF nodes, place, found, isNew, old
    <2>2. /\ Len(nodes) = Len(b.nodes) + 1 /\ DOMAIN nodes = 1 .. Len(b.nodes) + 1
          /\ nodes[place] = new /\ \A i \in 1 .. Len(b.nodes) : nodes[i] = b.nodes[i]
          /\ IsSequence(nodes)
      <3> HIDE DEF new
      <3>1. Appended(b.nodes, new, nodes)
        BY <1>2, <2>1, AppendedSequence
      <3> QED
        BY <2>1, <3>1 DEF Appended
    <2>3. new.name = c[k].name /\ new.parent = b.place[par] /\ new = Element(new.name, new.attributes, new.parent)
      BY DEF Element
    <2>4. NewNode(b, a, c, k)
      BY <1>1, <1>3, <1>6, <2>1, <2>2 DEF NewNode, isNew, found
    <2> HIDE DEF new
    <2>5. \A i \in DOMAIN b.nodes : i # place /\ a.nodes[i] = b.nodes[i]
      BY <1>1, <1>2, <2>1, <2>2
    <2>6. Stepped(b, a, c, k)
      BY <1>1, <1>3, <2>4, <2>5 DEF Stepped
    <2>7. IsDocument(nodes)
      <3>1. ASSUME NEW i \in DOMAIN nodes
            PROVE  nodes[i].parent \in 0 .. i - 1
                   /\ nodes[i] = Element(nodes[i].name, nodes[i].attributes, nodes[i].parent)
        <4>1. CASE i = place
          <5>1. nodes[i] = new /\ i - 1 = Len(b.nodes)
            BY <1>2, <2>1, <2>2, <4>1
          <5> QED
            BY <1>4, <2>3, <5>1
        <4>2. CASE i # place
          <5>1. i \in DOMAIN b.nodes /\ nodes[i] = b.nodes[i]
            BY <1>2, <2>1, <2>2, <4>2
          <5> QED
            BY <1>2, <5>1 DEF IsMerge, IsDocument
        <4> QED
          BY <4>1, <4>2
      <3> QED
        BY <2>2, <3>1 DEF IsDocument, IsTree, IsSequence
    <2>8. ASSUME NEW j \in 1 .. k
          PROVE  /\ a.place[j] \in DOMAIN nodes
                 /\ nodes[a.place[j]].name = c[j].name
                 /\ nodes[a.place[j]].parent = a.place[c[j].parent]
      <3>1. CASE j = k
        <4>1. nodes[a.place[j]] = new /\ a.place[j] \in DOMAIN nodes
          BY <1>2, <1>3, <2>1, <2>2, <3>1
        <4> QED
          BY <1>2, <1>3, <2>3, <3>1, <4>1
      <3>2. CASE j # k
        <4> j \in 1 .. k - 1 /\ j \in 0 .. k - 1
          BY <1>2, <3>2
        <4>1. j \in 1 .. k - 1 /\ a.place[j] = b.place[j] /\ j \in DOMAIN c
          BY <1>2, <1>3
        <4>2. c[j].parent \in 0 .. j - 1
          BY <4>1, TreeIsSequence DEF IsChanges
        <4>3. a.place[c[j].parent] = b.place[c[j].parent]
          BY <1>2, <1>3, <4>1, <4>2
        <4>4. b.place[j] \in DOMAIN b.nodes /\ nodes[b.place[j]] = b.nodes[b.place[j]] /\ b.place[j] \in DOMAIN nodes
          BY <1>2, <2>1, <2>2, <4>1 DEF IsMerge
        <4> QED
          BY <4>1, <4>3, <4>4 DEF IsMerge
      <3> QED
        BY <3>1, <3>2
    <2> QED
      BY <1>1, <1>5, <2>6, <2>7, <2>8
  <1>7. CASE ~isNew
    <2>1. place = First(found) /\ nodes = old /\ found # {} /\ ~Appends(b, c, k)
      BY <1>7
    <2>2. found \subseteq DOMAIN b.nodes /\ found \subseteq Nat
      BY <1>2 DEF Found, Matches, Named
    <2>3. place \in found /\ place \in DOMAIN b.nodes /\ \A i \in found : place <= i
      <3> HIDE DEF found
      <3> QED
        BY <2>1, <2>2, FirstIsFirst
    <2>4. b.nodes[place].name = c[k].name /\ b.nodes[place].parent = b.place[par]
      BY <2>3 DEF Found, Matches, Named
    <2> DEFINE e == b.nodes[place]
               x == [e EXCEPT !.attributes = MergeNodeAttributes(@, c[k].attributes)]
    <2>5. old = [b.nodes EXCEPT ![place] = x]
      OBVIOUS
    <2>6. e = Element(e.name, e.attributes, e.parent)
      BY <2>3 DEF IsMerge, IsDocument
    <2>7. /\ x = Element(e.name, MergeNodeAttributes(e.attributes, c[k].attributes), e.parent)
          /\ x.name = e.name /\ x.parent = e.parent /\ x = Element(x.name, x.attributes, x.parent)
      BY <2>6 DEF Element
    <2> HIDE DEF nodes, place, found, isNew, old, x, new
    <2>8. /\ Len(nodes) = Len(b.nodes) /\ DOMAIN nodes = DOMAIN b.nodes
          /\ nodes[place] = x /\ \A i \in DOMAIN b.nodes : i # place => nodes[i] = b.nodes[i]
          /\ IsSequence(nodes)
      <3>1. Replaced(b.nodes, place, x, nodes)
        BY <1>2, <2>1, <2>3, <2>5, ReplacedSequence
      <3> QED
        BY <3>1 DEF Replaced
    <2>9. OldNode(b, a, c, k)
      BY <1>1, <1>3, <2>1, <2>3, <2>7, <2>8 DEF OldNode, found
    <2>10. Stepped(b, a, c, k)
      BY <1>1, <1>3, <2>8, <2>9 DEF Stepped
    <2>11. \A i \in DOMAIN b.nodes : nodes[i].name = b.nodes[i].name /\ nodes[i].parent = b.nodes[i].parent
      BY <2>7, <2>8
    <2>12. IsDocument(nodes)
      <3>1. ASSUME NEW i \in DOMAIN nodes
            PROVE  nodes[i].parent \in 0 .. i - 1
                   /\ nodes[i] = Element(nodes[i].name, nodes[i].attributes, nodes[i].parent)
        BY <1>2, <2>7, <2>8, <2>11 DEF IsMerge, IsDocument
      <3> QED
        BY <2>8, <3>1 DEF IsDocument, IsTree, IsSequence
    <2>13. ASSUME NEW j \in 1 .. k
          PROVE  /\ a.place[j] \in DOMAIN nodes
                 /\ nodes[a.place[j]].name = c[j].name
                 /\ nodes[a.place[j]].parent = a.place[c[j].parent]
      <3>1. CASE j = k
        BY <1>2, <1>3, <2>3, <2>4, <2>8, <2>11, <3>1
      <3>2. CASE j # k
        <4> j \in 1 .. k - 1 /\ j \in 0 .. k - 1
          BY <1>2, <3>2
        <4>1. j \in 1 .. k - 1 /\ a.place[j] = b.place[j] /\ j \in DOMAIN c
          BY <1>2, <1>3
        <4>2. c[j].parent \in 0 .. j - 1
          BY <4>1, TreeIsSequence DEF IsChanges
        <4>3. a.place[c[j].parent] = b.place[c[j].parent]
          BY <1>2, <1>3, <4>1, <4>2
        <4> QED
          BY <2>8, <2>11, <4>1, <4>3 DEF IsMerge
      <3> QED
        BY <3>1, <3>2
    <2> QED
      BY <1>1, <1>5, <2>10, <2>12, <2>13
  <1> QED
    BY <1>6, <1>7

-----------------------------------------------------------------------------
(* All changes.                                                            *)

IsTrace(T, d, c) ==
  /\ T[0] = Unmerged(d) /\ IsMerge(T[0], c, 0)
  /\ \A k \in 1 .. Len(c) : Stepped(T[k - 1], T[k], c, k) /\ IsMerge(T[k], c, k)

LEMMA MergeNodesTrace ==
  ASSUME NEW d, IsDocument(d), NEW c, IsChanges(c)
  PROVE  IsTrace(MergeNodes(d, c), d, c)
  <1> DEFINE T == MergeNodes(d, c)
             S == {k \in Nat : k <= Len(c) =>
                     IsMerge(T[k], c, k) /\ (k # 0 => Stepped(T[k - 1], T[k], c, k))}
  <1>1. Len(c) \in Nat
    BY TreeIsSequence DEF IsChanges
  <1>2. T[0] = Unmerged(d) /\ \A k \in 1 .. Len(c) : T[k] = MergeNode(T[k - 1], c, k)
    BY <1>1, MergeSteps DEF Steps
  <1> HIDE DEF T
  <1>3. IsMerge(T[0], c, 0)
    BY <1>2 DEF Unmerged, IsMerge
  <1>4. 0 \in S
    BY <1>3
  <1>5. ASSUME NEW k \in Nat, k \in S PROVE k + 1 \in S
    <2>1. CASE k + 1 <= Len(c)
      <3>1. k + 1 \in 1 .. Len(c) /\ (k + 1) - 1 = k /\ k <= Len(c)
        BY <1>1, <2>1
      <3>2. IsMerge(T[k], c, k) /\ T[k + 1] = MergeNode(T[k], c, k + 1)
        BY <1>2, <1>5, <3>1
      <3>3. Stepped(T[k], T[k + 1], c, k + 1) /\ IsMerge(T[k + 1], c, k + 1)
        BY <3>1, <3>2, MergeNodeSteps
      <3> QED
        BY <3>1, <3>3
    <2>2. CASE ~(k + 1 <= Len(c))
      BY <2>2
    <2> QED
      BY <2>1, <2>2
  <1> HIDE DEF S
  <1>6. Nat \subseteq S
    BY <1>4, <1>5, SetInduction
  <1>7. ASSUME NEW k \in 1 .. Len(c) PROVE Stepped(T[k - 1], T[k], c, k) /\ IsMerge(T[k], c, k)
    <2>1. k \in Nat /\ k # 0 /\ k <= Len(c) /\ k \in S
      BY <1>1, <1>6
    <2> QED
      BY <2>1 DEF S
  <1> QED
    BY <1>2, <1>3, <1>7 DEF IsTrace, T

\* What has become of a merge after t changes, b, when n have been merged, a: elements stay
\* where they are, those that are new or changed are places of the changes between.
Later(b, a, t, n) ==
  /\ Len(b.nodes) <= Len(a.nodes)
  /\ \A j \in 0 .. t : a.place[j] = b.place[j] /\ a.markers[j] = b.markers[j]
  /\ \A i \in DOMAIN b.nodes :
       /\ i \in DOMAIN a.nodes
       /\ a.nodes[i].name = b.nodes[i].name /\ a.nodes[i].parent = b.nodes[i].parent
       /\ DOMAIN b.nodes[i].attributes \subseteq DOMAIN a.nodes[i].attributes
       /\ (\A k \in t + 1 .. n : a.place[k] # i) => a.nodes[i] = b.nodes[i]
  /\ \A i \in DOMAIN a.nodes : i \notin DOMAIN b.nodes => \E k \in t + 1 .. n : a.place[k] = i

LEMMA NextIsLater ==
  ASSUME NEW c, IsChanges(c), NEW t \in Nat, NEW n \in Nat, t <= n, n + 1 <= Len(c),
         NEW b, IsMerge(b, c, t), NEW x, IsMerge(x, c, n), Later(b, x, t, n),
         NEW a, IsMerge(a, c, n + 1), Stepped(x, a, c, n + 1)
  PROVE  Later(b, a, t, n + 1)
  <1>1. /\ Len(b.nodes) \in Nat /\ DOMAIN b.nodes = 1 .. Len(b.nodes)
        /\ Len(x.nodes) \in Nat /\ DOMAIN x.nodes = 1 .. Len(x.nodes)
        /\ Len(a.nodes) \in Nat /\ DOMAIN a.nodes = 1 .. Len(a.nodes)
    <2>1. IsTree(b.nodes) /\ IsTree(x.nodes) /\ IsTree(a.nodes)
      BY DEF IsMerge, IsDocument
    <2> QED
      BY <2>1, TreeIsSequence
  <1> DEFINE k == n + 1
             p == a.place[k]
  <1>2. /\ p \in DOMAIN a.nodes
        /\ Len(a.nodes) = Len(x.nodes) \/ (Len(a.nodes) = Len(x.nodes) + 1 /\ p = Len(x.nodes) + 1)
        /\ p \in DOMAIN x.nodes =>
             /\ a.nodes[p].name = x.nodes[p].name /\ a.nodes[p].parent = x.nodes[p].parent
             /\ DOMAIN x.nodes[p].attributes \subseteq DOMAIN a.nodes[p].attributes
        /\ \A i \in DOMAIN x.nodes : i # p => a.nodes[i] = x.nodes[i]
        /\ \A j \in 0 .. n : a.place[j] = x.place[j] /\ a.markers[j] = x.markers[j]
    <2>1. CASE NewNode(x, a, c, k)
      <3>1. p = Len(x.nodes) + 1 /\ Len(a.nodes) = Len(x.nodes) + 1
        BY <2>1 DEF NewNode
      <3> QED
        BY <1>1, <3>1 DEF Stepped
    <2>2. CASE OldNode(x, a, c, k)
      <3>1. /\ p \in DOMAIN x.nodes /\ Len(a.nodes) = Len(x.nodes)
            /\ a.nodes[p].name = x.nodes[p].name /\ a.nodes[p].parent = x.nodes[p].parent
            /\ a.nodes[p].attributes = MergeNodeAttributes(x.nodes[p].attributes, c[k].attributes)
        BY <2>2 DEF OldNode, Element
      <3>2. DOMAIN x.nodes[p].attributes \subseteq DOMAIN a.nodes[p].attributes
        BY <3>1 DEF MergeNodeAttributes
      <3> QED
        BY <1>1, <3>1, <3>2 DEF Stepped
    <2> QED
      BY <2>1, <2>2 DEF Stepped
  <1>3. \A j \in t + 1 .. n : a.place[j] = x.place[j]
    BY <1>2
  <1> HIDE DEF p
  <1>4. ASSUME NEW i \in DOMAIN b.nodes
        PROVE  /\ i \in DOMAIN a.nodes
               /\ a.nodes[i].name = b.nodes[i].name /\ a.nodes[i].parent = b.nodes[i].parent
               /\ DOMAIN b.nodes[i].attributes \subseteq DOMAIN a.nodes[i].attributes
               /\ (\A j \in t + 1 .. k : a.place[j] # i) => a.nodes[i] = b.nodes[i]
    <2>1. /\ i \in DOMAIN x.nodes
          /\ x.nodes[i].name = b.nodes[i].name /\ x.nodes[i].parent = b.nodes[i].parent
          /\ DOMAIN b.nodes[i].attributes \subseteq DOMAIN x.nodes[i].attributes
      BY DEF Later
    <2>2. /\ i \in DOMAIN a.nodes
          /\ a.nodes[i].name = x.nodes[i].name /\ a.nodes[i].parent = x.nodes[i].parent
          /\ DOMAIN x.nodes[i].attributes \subseteq DOMAIN a.nodes[i].attributes
      <3>1. i \in DOMAIN a.nodes
        BY <1>1, <1>2, <2>1
      <3> QED
        BY <1>2, <2>1, <3>1
    <2>3. ASSUME \A j \in t + 1 .. k : a.place[j] # i PROVE a.nodes[i] = b.nodes[i]
      <3>1. \A j \in t + 1 .. n : x.place[j] # i
        BY <1>3, <2>3
      <3>2. p # i
        BY <2>3 DEF p
      <3> QED
        BY <1>2, <2>1, <3>1, <3>2 DEF Later
    <2> QED
      BY <2>1, <2>2, <2>3
  <1>5. ASSUME NEW i \in DOMAIN a.nodes, i \notin DOMAIN b.nodes PROVE \E j \in t + 1 .. k : a.place[j] = i
    <2>1. CASE i \in DOMAIN x.nodes
      <3>1. PICK j \in t + 1 .. n : x.place[j] = i
        BY <1>5, <2>1 DEF Later
      <3> QED
        BY <1>3, <3>1
    <2>2. CASE i \notin DOMAIN x.nodes
      <3>1. i = p
        BY <1>1, <1>2, <2>2
      <3> QED
        BY <3>1 DEF p
    <2> QED
      BY <2>1, <2>2
  <1>6. \A j \in 0 .. t : a.place[j] = b.place[j] /\ a.markers[j] = b.markers[j]
    BY <1>2 DEF Later
  <1>7. Len(b.nodes) <= Len(a.nodes)
    BY <1>1, <1>2 DEF Later
  <1> QED
    BY <1>4, <1>5, <1>6, <1>7 DEF Later

LEMMA TraceMerges ==
  ASSUME NEW d, NEW c, IsChanges(c), NEW T, IsTrace(T, d, c)
  PROVE  \A k \in 0 .. Len(c) : IsMerge(T[k], c, k)
  <1>1. Len(c) \in Nat
    BY TreeIsSequence DEF IsChanges
  <1> QED
    BY <1>1 DEF IsTrace

LEMMA TraceLater ==
  ASSUME NEW d, NEW c, IsChanges(c), NEW T, IsTrace(T, d, c),
         NEW t \in 0 .. Len(c), NEW n \in t .. Len(c)
  PROVE  Later(T[t], T[n], t, n)
  <1>1. Len(c) \in Nat /\ t \in Nat /\ n \in Nat /\ t <= n
    BY TreeIsSequence DEF IsChanges
  <1>2. \A k \in 0 .. Len(c) : IsMerge(T[k], c, k)
    BY TraceMerges
  <1> DEFINE S == {k \in Nat : t + k <= Len(c) => Later(T[t], T[t + k], t, t + k)}
  <1>3. 0 \in S
    <2>1. Later(T[t], T[t], t, t)
      <3>1. Len(T[t].nodes) \in Nat
        BY <1>2, TreeIsSequence DEF IsMerge, IsDocument
      <3> QED
        BY <3>1 DEF Later
    <2>2. t + 0 = t
      BY <1>1
    <2> QED
      BY <2>1, <2>2
  <1>4. ASSUME NEW k \in Nat, k \in S PROVE k + 1 \in S
    <2>1. CASE t + (k + 1) <= Len(c)
      <3> DEFINE u == t + k
      <3>1. /\ u \in Nat /\ t <= u /\ u + 1 <= Len(c) /\ t + (k + 1) = u + 1
            /\ u + 1 \in 1 .. Len(c) /\ (u + 1) - 1 = u /\ u \in 0 .. Len(c) /\ u + 1 \in 0 .. Len(c)
        BY <1>1, <2>1
      <3>2. Later(T[t], T[u], t, u)
        BY <1>4, <3>1
      <3> HIDE DEF u
      <3>3. Stepped(T[u], T[u + 1], c, u + 1)
        BY <3>1 DEF IsTrace
      <3>4. Later(T[t], T[u + 1], t, u + 1)
        BY <1>1, <1>2, <3>1, <3>2, <3>3, NextIsLater
      <3> QED
        BY <3>1, <3>4
    <2>2. CASE ~(t + (k + 1) <= Len(c))
      BY <2>2
    <2> QED
      BY <2>1, <2>2
  <1> HIDE DEF S
  <1>5. Nat \subseteq S
    BY <1>3, <1>4, SetInduction
  <1>6. n - t \in Nat /\ t + (n - t) = n /\ n <= Len(c)
    BY <1>1
  <1>7. n - t \in S
    BY <1>5, <1>6
  <1> QED
    BY <1>6, <1>7 DEF S

\* Besides 0, the parent of the root, which is its own place, the places differ.
LEMMA PlacesDiffer ==
  ASSUME NEW c, IsChanges(c), NEW m, IsMerge(m, c, Len(c)), Distinct(m, c),
         NEW j \in 0 .. Len(c), NEW k \in 0 .. Len(c), m.place[j] = m.place[k]
  PROVE  j = k
  <1>1. Len(c) \in Nat /\ DOMAIN c = 1 .. Len(c)
    BY TreeIsSequence DEF IsChanges
  <1>2. DOMAIN m.nodes = 1 .. Len(m.nodes) /\ Len(m.nodes) \in Nat
    BY TreeIsSequence DEF IsMerge, IsDocument
  <1>3. \A i \in 1 .. Len(c) : m.place[i] # 0 /\ m.place[0] = 0
    BY <1>2 DEF IsMerge
  <1>4. CASE j = 0 \/ k = 0
    BY <1>1, <1>3, <1>4
  <1>5. CASE j # 0 /\ k # 0
    <2>1. j \in DOMAIN c /\ k \in DOMAIN c
      BY <1>1, <1>5
    <2> QED
      BY <2>1 DEF Distinct
  <1> QED
    BY <1>4, <1>5

\* The change k of a merge with differing places, and what it has left in the end, m.
IsOwn(b, a, m, d, c, k) ==
  /\ m.place[k] = a.place[k] /\ m.nodes[m.place[k]] = a.nodes[m.place[k]]
  /\ \/ NewNode(b, a, c, k) /\ m.place[k] \notin DOMAIN d
     \/ OldNode(b, a, c, k) /\ m.place[k] \in DOMAIN d /\ b.nodes[m.place[k]] = d[m.place[k]]

LEMMA OwnPlace ==
  ASSUME NEW d, IsDocument(d), NEW c, IsChanges(c), NEW T, IsTrace(T, d, c),
         NEW m, m = T[Len(c)], Distinct(m, c), NEW k \in 1 .. Len(c)
  PROVE  IsOwn(T[k - 1], T[k], m, d, c, k)
  <1> DEFINE N == Len(c)
  <1>1. /\ N \in Nat /\ k - 1 \in 0 .. N /\ k \in 0 .. N /\ N \in 0 .. N /\ 0 \in 0 .. N
        /\ N \in k .. N /\ k - 1 \in 0 .. (k - 1) /\ k \in Nat /\ k - 1 \in 0 .. N /\ k - 1 \in Nat
        /\ N \in k - 1 .. N /\ (k - 1) + 1 = k
    BY TreeIsSequence DEF IsChanges
  <1>2. Later(T[k], m, k, N) /\ Later(T[0], T[k - 1], 0, k - 1) /\ Later(T[k - 1], m, k - 1, N)
    <2>1. Later(T[k], T[N], k, N)
      BY <1>1, TraceLater
    <2>2. Later(T[0], T[k - 1], 0, k - 1)
      BY <1>1, TraceLater
    <2>3. Later(T[k - 1], T[N], k - 1, N)
      BY <1>1, TraceLater
    <2> QED
      BY <2>1, <2>2, <2>3
  <1>3. /\ IsMerge(m, c, N) /\ IsMerge(T[k - 1], c, k - 1) /\ IsMerge(T[k], c, k)
        /\ Stepped(T[k - 1], T[k], c, k) /\ T[0].nodes = d
    BY <1>1, TraceMerges DEF IsTrace, Unmerged
  <1>4. m.place[k] = T[k].place[k] /\ T[k].place[k] \in DOMAIN T[k].nodes
    <2>1. k \in 0 .. k /\ k \in 1 .. k
      BY <1>1
    <2>2. m.place[k] = T[k].place[k]
      BY <1>2, <2>1 DEF Later
    <2>3. T[k].place[k] \in DOMAIN T[k].nodes
      BY <1>3, <2>1 DEF IsMerge
    <2> QED
      BY <2>2, <2>3
  <1>5. ASSUME NEW j \in 0 .. N, j # k PROVE m.place[j] # m.place[k]
    BY <1>1, <1>3, <1>5, PlacesDiffer
  <1>6. m.nodes[m.place[k]] = T[k].nodes[m.place[k]]
    <2>1. \A j \in k + 1 .. N : m.place[j] # m.place[k]
      BY <1>1, <1>5
    <2> QED
      BY <1>2, <1>4, <2>1 DEF Later
  <1>7. /\ Len(d) \in Nat /\ DOMAIN d = 1 .. Len(d)
        /\ Len(T[k - 1].nodes) \in Nat /\ DOMAIN T[k - 1].nodes = 1 .. Len(T[k - 1].nodes)
    BY <1>3, TreeIsSequence DEF IsDocument, IsMerge
  <1>8. CASE NewNode(T[k - 1], T[k], c, k)
    <2>1. Len(d) <= Len(T[k - 1].nodes)
      BY <1>2, <1>3 DEF Later
    <2>2. m.place[k] \notin DOMAIN d
      BY <1>4, <1>7, <1>8, <2>1 DEF NewNode
    <2> QED
      BY <1>4, <1>6, <1>8, <2>2 DEF IsOwn
  <1>9. CASE OldNode(T[k - 1], T[k], c, k)
    <2> DEFINE p == m.place[k]
    <2>1. p \in DOMAIN T[k - 1].nodes
      BY <1>4, <1>9 DEF OldNode
    <2>2. \A j \in 0 + 1 .. k - 1 : T[k - 1].place[j] # p
      <3>1. ASSUME NEW j \in 0 + 1 .. k - 1 PROVE T[k - 1].place[j] # p
        <4>1. j \in 0 .. k - 1 /\ j \in 0 .. N /\ j # k
          BY <1>1
        <4>2. m.place[j] = T[k - 1].place[j]
          BY <1>2, <4>1 DEF Later
        <4> QED
          BY <1>5, <4>1, <4>2
      <3> QED
        BY <3>1
    <2> HIDE DEF p
    <2>3. p \in DOMAIN d
      BY <1>2, <1>3, <2>1, <2>2 DEF Later
    <2>4. T[k - 1].nodes[p] = d[p]
      BY <1>2, <1>3, <2>2, <2>3 DEF Later
    <2> QED
      BY <1>4, <1>6, <1>9, <2>3, <2>4 DEF IsOwn, p
  <1> QED
    BY <1>3, <1>8, <1>9 DEF Stepped

\* What a merge with differing places does to the document.
Ends(d, c, m) ==
  /\ IsMerge(m, c, Len(c))
  /\ \A i \in DOMAIN d :
       /\ i \in DOMAIN m.nodes /\ m.nodes[i].name = d[i].name /\ m.nodes[i].parent = d[i].parent
       /\ (\A k \in DOMAIN c : m.place[k] # i) => m.nodes[i] = d[i]
  /\ \A i \in DOMAIN m.nodes : i \notin DOMAIN d => \E k \in DOMAIN c : m.place[k] = i
  /\ \A k \in DOMAIN c :
       m.nodes[m.place[k]].attributes =
         MergeNodeAttributes(IF m.place[k] \in DOMAIN d THEN d[m.place[k]].attributes ELSE NoAttributes,
                             c[k].attributes)

LEMMA MergeEnds ==
  ASSUME NEW d, IsDocument(d), NEW c, IsChanges(c), NEW m, m = ApplyChanges(d, c), Distinct(m, c)
  PROVE  Ends(d, c, m)
  <1> DEFINE N == Len(c)
             T == MergeNodes(d, c)
  <1>1. N \in Nat /\ N \in 0 .. N /\ 0 \in 0 .. N /\ DOMAIN c = 1 .. N /\ 0 + 1 = 1
    BY TreeIsSequence DEF IsChanges
  <1>2. IsTrace(T, d, c)
    BY MergeNodesTrace
  <1>3. m = T[N]
    BY DEF ApplyChanges
  <1> HIDE DEF T
  <1>4. Later(T[0], T[N], 0, N)
    BY <1>1, <1>2, TraceLater
  <1>5. IsMerge(m, c, N) /\ T[0].nodes = d
    BY <1>1, <1>2, <1>3, TraceMerges DEF IsTrace, Unmerged
  <1>6. ASSUME NEW i \in DOMAIN d
        PROVE  /\ i \in DOMAIN m.nodes /\ m.nodes[i].name = d[i].name /\ m.nodes[i].parent = d[i].parent
               /\ (\A k \in DOMAIN c : m.place[k] # i) => m.nodes[i] = d[i]
    BY <1>1, <1>3, <1>4, <1>5 DEF Later
  <1>7. \A i \in DOMAIN m.nodes : i \notin DOMAIN d => \E k \in DOMAIN c : m.place[k] = i
    BY <1>1, <1>3, <1>4, <1>5 DEF Later
  <1>8. ASSUME NEW k \in DOMAIN c
        PROVE  m.nodes[m.place[k]].attributes =
                 MergeNodeAttributes(IF m.place[k] \in DOMAIN d THEN d[m.place[k]].attributes
                                     ELSE NoAttributes, c[k].attributes)
    <2>1. IsOwn(T[k - 1], T[k], m, d, c, k)
      BY <1>1, <1>2, <1>3, OwnPlace
    <2> QED
      BY <2>1 DEF IsOwn, NewNode, OldNode, Element
  <1> QED
    BY <1>5, <1>6, <1>7, <1>8 DEF Ends

-----------------------------------------------------------------------------
(* The same changes again.                                                 *)

\* Two changes that are merged into children of the same element have the same parent.
LEMMA SameParent ==
  ASSUME NEW c, IsChanges(c), NEW m, IsMerge(m, c, Len(c)), Distinct(m, c),
         NEW j \in 1 .. Len(c), NEW p \in 0 .. Len(c),
         m.nodes[m.place[j]].parent = m.place[p]
  PROVE  c[j].parent = p
  <1>1. Len(c) \in Nat /\ DOMAIN c = 1 .. Len(c) /\ c[j].parent \in 0 .. j - 1
    BY TreeIsSequence DEF IsChanges
  <1>2. c[j].parent \in 0 .. Len(c) /\ m.place[c[j].parent] = m.place[p]
    BY <1>1 DEF IsMerge
  <1> QED
    BY <1>2, PlacesDiffer

\* Another change with the parent and the name of k makes the name a collection, in which
\* changes with differing places have keys.
LEMMA OthersHaveKeys ==
  ASSUME NEW d, NEW c, IsChanges(c), NEW T, IsTrace(T, d, c), NEW m, m = T[Len(c)], Distinct(m, c),
         NEW j \in 1 .. Len(c), NEW k \in 1 .. Len(c), j # k,
         c[j].parent = c[k].parent, c[j].name = c[k].name
  PROVE  HasKey(c, j) /\ KeyOf(c, j) = KeyOf(c, k)
  <1> DEFINE p == c[k].parent
  <1>1. Len(c) \in Nat /\ DOMAIN c = 1 .. Len(c) /\ p \in 0 .. k - 1
    BY TreeIsSequence DEF IsChanges
  <1>2. p # 0
    BY <1>1 DEF IsChanges, HasOneRoot
  <1>3. p \in 1 .. Len(c) /\ p \in 0 .. Len(c) /\ p \in 0 .. p /\ Len(c) \in p .. Len(c)
    BY <1>1, <1>2
  <1>4. Stepped(T[p - 1], T[p], c, p) /\ Later(T[p], T[Len(c)], p, Len(c))
    BY <1>3, TraceLater DEF IsTrace
  <1>5. m.markers[p] = GetCollectionMarkers(T[p].nodes, T[p].place[p], c, p)
    BY <1>3, <1>4 DEF Stepped, Later
  <1>6. Several(Named(c, p, c[j].name))
    BY <1>1 DEF Several, Named
  <1>7. c[j].name \in m.markers[p]
    BY <1>1, <1>5, <1>6 DEF GetCollectionMarkers
  <1>8. HasKey(c, j)
    BY <1>1, <1>7 DEF Distinct, Appends
  <1> QED
    BY <1>8 DEF KeyOf

LEMMA OwnAttributes ==
  ASSUME NEW b, NEW a, NEW m, NEW d, NEW c, NEW k, IsOwn(b, a, m, d, c, k)
  PROVE  \A x \in DOMAIN c[k].attributes :
           /\ x \in DOMAIN m.nodes[m.place[k]].attributes
           /\ m.nodes[m.place[k]].attributes[x] = c[k].attributes[x]
  <1> DEFINE old == IF m.place[k] \in DOMAIN d THEN d[m.place[k]].attributes ELSE NoAttributes
  <1>1. m.nodes[m.place[k]].attributes = MergeNodeAttributes(old, c[k].attributes)
    BY DEF IsOwn, NewNode, OldNode, Element
  <1> HIDE DEF old
  <1> QED
    BY <1>1 DEF MergeNodeAttributes

\* In the end change k still finds its place, and finds it first.
LEMMA FindsItsPlace ==
  ASSUME NEW d, IsDocument(d), NEW c, IsChanges(c), NEW T, IsTrace(T, d, c),
         NEW m, m = T[Len(c)], Distinct(m, c), NEW k \in 1 .. Len(c)
  PROVE  LET found == Matches(m.nodes, m.place[c[k].parent], c, k) IN
         m.place[k] \in found /\ \A i \in found : m.place[k] <= i
  <1> DEFINE N == Len(c)
             p == c[k].parent
             b == T[k - 1]
             place == m.place[k]
             found == Matches(m.nodes, m.place[p], c, k)
             key == KeyOf(c, k)
  <1>1. /\ N \in Nat /\ DOMAIN c = 1 .. N /\ p \in 0 .. k - 1 /\ p \in 0 .. N
        /\ k - 1 \in 0 .. N /\ N \in k - 1 .. N /\ N \in 0 .. N /\ (k - 1) + 1 = k /\ k \in Nat
    BY TreeIsSequence DEF IsChanges
  <1>2. /\ IsMerge(m, c, N) /\ IsMerge(b, c, k - 1) /\ Later(b, m, k - 1, N)
        /\ Stepped(b, T[k], c, k)
    <2>1. Later(T[k - 1], T[N], k - 1, N)
      BY <1>1, TraceLater
    <2> QED
      BY <1>1, <2>1, TraceMerges DEF IsTrace
  <1>3. IsOwn(b, T[k], m, d, c, k)
    BY OwnPlace
  <1>4. /\ Len(m.nodes) \in Nat /\ DOMAIN m.nodes = 1 .. Len(m.nodes)
        /\ Len(b.nodes) \in Nat /\ DOMAIN b.nodes = 1 .. Len(b.nodes)
    BY <1>2, TreeIsSequence DEF IsDocument, IsMerge
  <1>5. place \in DOMAIN m.nodes /\ m.nodes[place].name = c[k].name /\ m.nodes[place].parent = m.place[p]
    BY <1>2 DEF IsMerge
  <1>7. \A a \in DOMAIN c[k].attributes :
          a \in DOMAIN m.nodes[place].attributes /\ m.nodes[place].attributes[a] = c[k].attributes[a]
    BY <1>3, OwnAttributes
  <1>8. place \in found
    BY <1>5, <1>7 DEF Matches, Named, HasKey
  <1>9. ASSUME NEW i \in found, ~(place <= i) PROVE FALSE
    <2>1. i \in DOMAIN m.nodes /\ m.nodes[i].name = c[k].name /\ m.nodes[i].parent = m.place[p]
      BY DEF Matches, Named
    <2>2. place \in 1 .. Len(b.nodes) + 1
      <3>1. m.place[k] = T[k].place[k]
        BY <1>3 DEF IsOwn
      <3> QED
        BY <1>2, <1>4, <3>1 DEF Stepped, NewNode, OldNode
    <2>3. i \in DOMAIN b.nodes /\ i # place
      BY <1>4, <1>5, <1>9, <2>1, <2>2
    <2>4. b.nodes[i].name = c[k].name /\ b.nodes[i].parent = b.place[p]
      BY <1>1, <1>2, <2>1, <2>3 DEF Later
    <2>5. HasKey(c, k) =>
            key \in DOMAIN b.nodes[i].attributes /\ b.nodes[i].attributes[key] = c[k].attributes[key]
      <3> SUFFICES ASSUME HasKey(c, k)
                   PROVE  /\ key \in DOMAIN b.nodes[i].attributes
                          /\ b.nodes[i].attributes[key] = c[k].attributes[key]
        OBVIOUS
      <3>1. key \in DOMAIN m.nodes[i].attributes /\ m.nodes[i].attributes[key] = c[k].attributes[key]
        BY DEF Matches
      <3>2. CASE \A j \in k .. N : m.place[j] # i
        <4>1. \A j \in (k - 1) + 1 .. N : m.place[j] # i
          BY <1>1, <3>2
        <4>2. m.nodes[i] = b.nodes[i]
          BY <1>2, <2>3, <4>1 DEF Later
        <4> QED
          BY <3>1, <4>2
      <3>3. ASSUME NEW j \in k .. N, m.place[j] = i
            PROVE  /\ key \in DOMAIN b.nodes[i].attributes
                   /\ b.nodes[i].attributes[key] = c[k].attributes[key]
        <4>1. /\ j \in 1 .. N /\ j # k /\ j \in k + 1 .. N /\ j \in Nat /\ j - 1 \in k .. N
              /\ j - 1 \in 0 .. N /\ k - 1 \in 0 .. N /\ j - 1 \in k - 1 .. N
              /\ j \in 0 .. N /\ j \in DOMAIN c
          BY <1>1, <2>3, <3>3
        <4>2. c[j].parent = p
          BY <1>1, <1>2, <2>1, <3>3, <4>1, SameParent
        <4>3. c[j].name = c[k].name
          BY <1>2, <2>1, <3>3, <4>1 DEF IsMerge
        <4>4. HasKey(c, j) /\ KeyOf(c, j) = key
          BY <4>1, <4>2, <4>3, OthersHaveKeys
        <4>5. IsOwn(T[j - 1], T[j], m, d, c, j)
          BY <4>1, OwnPlace
        <4>6. Later(b, T[j - 1], k - 1, j - 1)
          BY <4>1, TraceLater
        <4>7. i \in DOMAIN T[j - 1].nodes
          BY <2>3, <4>6 DEF Later
        <4>8. OldNode(T[j - 1], T[j], c, j)
          <5>1. IsMerge(T[j - 1], c, j - 1)
            BY <4>1, TraceMerges
          <5>2. DOMAIN T[j - 1].nodes = 1 .. Len(T[j - 1].nodes) /\ Len(T[j - 1].nodes) \in Nat
            BY <5>1, TreeIsSequence DEF IsMerge, IsDocument
          <5>3. T[j].place[j] = i
            BY <3>3, <4>5 DEF IsOwn
          <5>4. i # Len(T[j - 1].nodes) + 1
            BY <4>7, <5>2
          <5> QED
            BY <4>5, <5>3, <5>4 DEF IsOwn, NewNode
        <4>9. i \in Found(T[j - 1], c, j)
          BY <3>3, <4>5, <4>8 DEF OldNode, IsOwn
        <4>10. /\ key \in DOMAIN T[j - 1].nodes[i].attributes
               /\ T[j - 1].nodes[i].attributes[key] = c[j].attributes[key]
          BY <4>4, <4>9 DEF Found, Matches
        <4>11. c[j].attributes[key] = m.nodes[i].attributes[key]
          <5>1. key \in DOMAIN c[j].attributes
            BY <4>4 DEF HasKey
          <5> QED
            BY <3>3, <4>5, <5>1, OwnAttributes
        <4>12. T[j - 1].nodes[i] = b.nodes[i]
          <5>1. ASSUME NEW l \in (k - 1) + 1 .. j - 1 PROVE T[j - 1].place[l] # i
            <6>1. l \in 0 .. N /\ l # j /\ l \in 0 .. j - 1 /\ N \in j - 1 .. N
              BY <1>1, <4>1
            <6>2. Later(T[j - 1], T[N], j - 1, N)
              BY <4>1, <6>1, TraceLater
            <6>3. m.place[l] = T[j - 1].place[l]
              BY <6>1, <6>2 DEF Later
            <6>4. m.place[l] # m.place[j]
              BY <1>2, <4>1, <6>1, PlacesDiffer
            <6> QED
              BY <3>3, <6>3, <6>4
          <5> QED
            BY <2>3, <4>6, <5>1 DEF Later
        <4> QED
          BY <3>1, <4>10, <4>11, <4>12
      <3> QED
        BY <3>2, <3>3
    <2>6. i \in Found(b, c, k)
      BY <2>3, <2>4, <2>5 DEF Found, Matches, Named
    <2>7. ~Appends(b, c, k)
      <3>1. ~Appends(m, c, k)
        BY <1>1 DEF Distinct
      <3>2. p \in 0 .. k - 1
        BY <1>1
      <3> QED
        BY <1>2, <3>1, <3>2 DEF Appends, Later
    <2>8. OldNode(b, T[k], c, k)
      BY <1>2, <2>6, <2>7 DEF Stepped, NewNode
    <2> QED
      BY <1>3, <1>9, <2>6, <2>8 DEF OldNode, IsOwn
  <1> QED
    BY <1>8, <1>9

\* Nor does the name of a change without a key become that of a collection.
LEMMA StaysSingle ==
  ASSUME NEW d, IsDocument(d), NEW c, IsChanges(c), NEW T, IsTrace(T, d, c),
         NEW m, m = T[Len(c)], Distinct(m, c), NEW k \in 1 .. Len(c), ~HasKey(c, k),
         c[k].parent # 0
  PROVE  c[k].name \notin GetCollectionMarkers(m.nodes, m.place[c[k].parent], c, c[k].parent)
  <1> DEFINE N == Len(c)
             p == c[k].parent
             b == T[p]
             name == c[k].name
  <1>1. /\ N \in Nat /\ DOMAIN c = 1 .. N /\ p \in 1 .. N /\ p \in 0 .. N /\ N \in p .. N /\ N \in 0 .. N
        /\ p \in 0 .. p /\ p \in 0 .. k - 1 /\ k - 1 \in p .. N /\ N \in k - 1 .. N /\ k - 1 \in 0 .. N
        /\ (k - 1) + 1 = k
    BY TreeIsSequence DEF IsChanges
  <1>2. /\ IsMerge(m, c, N) /\ Later(b, m, p, N) /\ Later(b, T[k - 1], p, k - 1)
        /\ Later(T[k - 1], m, k - 1, N) /\ Stepped(T[p - 1], b, c, p)
        /\ Stepped(T[k - 1], T[k], c, k) /\ IsOwn(T[k - 1], T[k], m, d, c, k)
    <2>1. Later(T[p], T[N], p, N) /\ Later(T[p], T[k - 1], p, k - 1) /\ Later(T[k - 1], T[N], k - 1, N)
      BY <1>1, TraceLater
    <2>2. IsMerge(T[N], c, N)
      BY <1>1, TraceMerges
    <2> QED
      BY <1>1, <2>1, <2>2, OwnPlace DEF IsTrace
  <1>3. m.place[p] = b.place[p] /\ m.markers[p] = GetCollectionMarkers(b.nodes, b.place[p], c, p)
    BY <1>1, <1>2 DEF Stepped, Later
  <1>4. name \notin m.markers[p]
    BY <1>1 DEF Distinct, Appends
  <1>5. /\ ~Several(Named(b.nodes, m.place[p], name)) /\ ~Several(Named(c, p, name))
        /\ name \notin c[p].collections
    BY <1>1, <1>3, <1>4 DEF GetCollectionMarkers
  <1>6. ASSUME NEW i \in Named(m.nodes, m.place[p], name), i # m.place[k]
        PROVE  i \in Named(b.nodes, m.place[p], name)
    <2>1. i \in DOMAIN m.nodes /\ m.nodes[i].parent = m.place[p] /\ m.nodes[i].name = name
      BY DEF Named
    <2>2. i \in DOMAIN b.nodes
      <3> SUFFICES ASSUME i \notin DOMAIN b.nodes PROVE FALSE
        OBVIOUS
      <3>1. PICK j \in p + 1 .. N : m.place[j] = i
        BY <1>2, <2>1 DEF Later
      <3>2. j \in 1 .. N /\ j # k
        BY <1>1, <1>6, <3>1
      <3>3. c[j].parent = p
        BY <1>1, <1>2, <2>1, <3>1, <3>2, SameParent
      <3>4. c[j].name = name
        BY <1>2, <2>1, <3>1, <3>2 DEF IsMerge
      <3>5. j \in Named(c, p, name) /\ k \in Named(c, p, name)
        BY <1>1, <3>2, <3>3, <3>4 DEF Named
      <3> QED
        BY <1>5, <3>2, <3>5 DEF Several
    <2> QED
      BY <1>2, <2>1, <2>2 DEF Later, Named
  <1>7. ASSUME NEW i \in Named(m.nodes, m.place[p], name), i # m.place[k] PROVE FALSE
    <2>1. i \in Named(b.nodes, m.place[p], name)
      BY <1>6, <1>7
    <2>2. i \in Found(T[k - 1], c, k)
      <3>1. i \in Named(T[k - 1].nodes, m.place[p], name)
        BY <1>2, <2>1 DEF Later, Named
      <3>2. m.place[p] = T[k - 1].place[p]
        BY <1>1, <1>2 DEF Later
      <3> QED
        BY <3>1, <3>2 DEF Found, Matches
    <2>3. ~Appends(T[k - 1], c, k)
      <3>1. T[k - 1].markers[p] = m.markers[p]
        BY <1>1, <1>2 DEF Later
      <3> QED
        BY <1>4, <3>1 DEF Appends
    <2>4. OldNode(T[k - 1], T[k], c, k)
      BY <1>2, <2>2, <2>3 DEF Stepped, NewNode
    <2>5. m.place[k] \in DOMAIN T[k - 1].nodes /\ m.place[k] \in Found(T[k - 1], c, k)
      BY <1>2, <2>4 DEF OldNode, IsOwn
    <2>6. m.place[k] \in DOMAIN b.nodes
      <3> SUFFICES ASSUME m.place[k] \notin DOMAIN b.nodes PROVE FALSE
        OBVIOUS
      <3>1. PICK j \in p + 1 .. k - 1 : T[k - 1].place[j] = m.place[k]
        BY <1>2, <2>5 DEF Later
      <3>2. j \in 0 .. k - 1 /\ j \in 0 .. N /\ k \in 0 .. N /\ j # k
        BY <1>1, <3>1
      <3>3. m.place[j] = m.place[k]
        BY <1>2, <3>1, <3>2 DEF Later
      <3> QED
        BY <1>2, <3>2, <3>3, PlacesDiffer
    <2>7. m.nodes[m.place[k]].name = name /\ m.nodes[m.place[k]].parent = m.place[p]
      BY <1>2 DEF IsMerge
    <2>8. m.place[k] \in Named(b.nodes, m.place[p], name)
      BY <1>2, <2>6, <2>7 DEF Later, Named
    <2> QED
      BY <1>5, <1>7, <2>1, <2>8 DEF Several
  <1>8. ~Several(Named(m.nodes, m.place[p], name))
    BY <1>7 DEF Several
  <1> QED
    BY <1>5, <1>8 DEF GetCollectionMarkers

LEMMA AttributesAgain ==
  ASSUME NEW x, NEW y, NEW z, z = MergeNodeAttributes(x, y)
  PROVE  MergeNodeAttributes(z, y) = z
  <1>1. DOMAIN z = DOMAIN x \union DOMAIN y
    BY DEF MergeNodeAttributes
  <1>2. \A a \in DOMAIN x \union DOMAIN y : a \in DOMAIN y => z[a] = y[a]
    BY DEF MergeNodeAttributes
  <1>3. z = [a \in DOMAIN x \union DOMAIN y |-> z[a]]
    BY DEF MergeNodeAttributes
  <1>4. MergeNodeAttributes(z, y) = [a \in DOMAIN x \union DOMAIN y |-> IF a \in DOMAIN y THEN y[a] ELSE z[a]]
    BY <1>1 DEF MergeNodeAttributes
  <1> QED
    BY <1>2, <1>3, <1>4

\* The state of the second merge after k changes: nothing is different.
Same(b, m, c, k) ==
  /\ IsMerge(b, c, k)
  /\ b.nodes = m.nodes
  /\ \A j \in 0 .. k : b.place[j] = m.place[j]
  /\ b.markers[0] = {}
  /\ \A j \in 1 .. k : b.markers[j] = GetCollectionMarkers(m.nodes, m.place[j], c, j)

LEMMA SameStep ==
  ASSUME NEW d, IsDocument(d), NEW c, IsChanges(c), NEW T, IsTrace(T, d, c),
         NEW m, m = T[Len(c)], Distinct(m, c), NEW k \in 1 .. Len(c),
         NEW b, Same(b, m, c, k - 1), NEW a, a = MergeNode(b, c, k)
  PROVE  Same(a, m, c, k)
  <1> DEFINE p == c[k].parent
             place == m.place[k]
  <1>1. /\ Len(c) \in Nat /\ DOMAIN c = 1 .. Len(c) /\ p \in 0 .. k - 1 /\ k \in Nat
        /\ p # 0 => p \in 1 .. k - 1
    BY TreeIsSequence DEF IsChanges
  <1>2. Stepped(b, a, c, k) /\ IsMerge(a, c, k) /\ IsMerge(b, c, k - 1)
    BY MergeNodeSteps DEF Same
  <1>3. b.place[p] = m.place[p] /\ b.nodes = m.nodes
    BY <1>1 DEF Same
  <1>4. ~Appends(b, c, k)
    <2>1. CASE HasKey(c, k)
      BY <2>1 DEF Appends
    <2>2. CASE ~HasKey(c, k) /\ p = 0
      BY <2>2 DEF Same, Appends
    <2>3. CASE ~HasKey(c, k) /\ p # 0
      <3>1. b.markers[p] = GetCollectionMarkers(m.nodes, m.place[p], c, p)
        BY <1>1, <2>3 DEF Same
      <3>2. c[k].name \notin b.markers[p]
        BY <2>3, <3>1, StaysSingle
      <3> QED
        BY <3>2 DEF Appends
    <2> QED
      BY <2>1, <2>2, <2>3
  <1>5. Found(b, c, k) = Matches(m.nodes, m.place[p], c, k)
    BY <1>3 DEF Found
  <1>6. place \in Found(b, c, k) /\ \A i \in Found(b, c, k) : place <= i
    BY <1>5, FindsItsPlace
  <1>7. OldNode(b, a, c, k)
    BY <1>2, <1>4, <1>6 DEF Stepped, NewNode
  <1>8. /\ Len(m.nodes) \in Nat /\ DOMAIN m.nodes = 1 .. Len(m.nodes) /\ IsSequence(m.nodes)
        /\ Len(a.nodes) \in Nat /\ DOMAIN a.nodes = 1 .. Len(a.nodes) /\ IsSequence(a.nodes)
    BY <1>2, <1>3, TreeIsSequence DEF IsMerge, IsDocument
  <1>9. a.place[k] = place
    <2>1. place <= a.place[k] /\ a.place[k] <= place /\ a.place[k] \in DOMAIN m.nodes
      BY <1>3, <1>6, <1>7 DEF OldNode
    <2>2. place \in DOMAIN m.nodes
      BY <1>5, <1>6 DEF Matches, Named
    <2> QED
      BY <1>8, <2>1, <2>2
  <1>10. a.nodes[place] = m.nodes[place]
    <2> DEFINE e == m.nodes[place]
    <2>1. e = Element(e.name, e.attributes, e.parent)
      BY <1>2, <1>3, <1>7, <1>9 DEF IsMerge, IsDocument, OldNode
    <2>2. a.nodes[place] = Element(e.name, MergeNodeAttributes(e.attributes, c[k].attributes), e.parent)
      BY <1>3, <1>7, <1>9 DEF OldNode
    <2>3. MergeNodeAttributes(e.attributes, c[k].attributes) = e.attributes
      <3> DEFINE old == IF place \in DOMAIN d THEN d[place].attributes ELSE NoAttributes
      <3>1. e.attributes = MergeNodeAttributes(old, c[k].attributes)
        <4>1. IsOwn(T[k - 1], T[k], m, d, c, k)
          BY OwnPlace
        <4> QED
          BY <4>1 DEF IsOwn, NewNode, OldNode, Element
      <3> HIDE DEF old, e
      <3> QED
        BY <3>1, AttributesAgain
    <2> QED
      BY <2>1, <2>2, <2>3
  <1>11. a.nodes = m.nodes
    <2>1. Len(a.nodes) = Len(m.nodes)
      BY <1>3, <1>7 DEF OldNode
    <2>2. \A i \in DOMAIN m.nodes : a.nodes[i] = m.nodes[i]
      BY <1>2, <1>3, <1>9, <1>10 DEF Stepped
    <2>3. a.nodes = [i \in 1 .. Len(m.nodes) |-> a.nodes[i]] /\ m.nodes = [i \in 1 .. Len(m.nodes) |-> m.nodes[i]]
      BY <1>8, <2>1 DEF IsSequence
    <2> QED
      BY <1>8, <2>2, <2>3
  <1>12. ASSUME NEW j \in 0 .. k PROVE a.place[j] = m.place[j]
    <2>1. CASE j = k
      BY <1>9, <2>1
    <2>2. CASE j # k
      <3>1. j \in 0 .. k - 1
        BY <1>1, <2>2
      <3> QED
        BY <1>2, <3>1 DEF Stepped, Same
    <2> QED
      BY <2>1, <2>2
  <1>13. ASSUME NEW j \in 1 .. k PROVE a.markers[j] = GetCollectionMarkers(m.nodes, m.place[j], c, j)
    <2>1. CASE j = k
      BY <1>2, <1>9, <1>11, <2>1 DEF Stepped
    <2>2. CASE j # k
      <3>1. j \in 0 .. k - 1 /\ j \in 1 .. k - 1
        BY <1>1, <2>2
      <3> QED
        BY <1>2, <3>1 DEF Stepped, Same
    <2> QED
      BY <2>1, <2>2
  <1>14. a.markers[0] = {}
    <2>1. 0 \in 0 .. k - 1
      BY <1>1
    <2> QED
      BY <1>2, <2>1 DEF Stepped, Same
  <1> QED
    BY <1>2, <1>11, <1>12, <1>13, <1>14 DEF Same

\* Merging the same changes again does not change the document.
LEMMA MergedAgain ==
  ASSUME NEW d, IsDocument(d), NEW c, IsChanges(c), Distinct(ApplyChanges(d, c), c)
  PROVE  ApplyChanges(ApplyChanges(d, c).nodes, c).nodes = ApplyChanges(d, c).nodes
  <1> DEFINE N == Len(c)
             T == MergeNodes(d, c)
             m == ApplyChanges(d, c)
             U == MergeNodes(m.nodes, c)
             S == {k \in Nat : k <= N => Same(U[k], m, c, k)}
  <1>1. N \in Nat /\ DOMAIN c = 1 .. N /\ N \in 0 .. N
    BY TreeIsSequence DEF IsChanges
  <1>2. IsTrace(T, d, c) /\ m = T[N]
    BY MergeNodesTrace DEF ApplyChanges
  <1>3. IsMerge(m, c, N)
    BY <1>1, <1>2, TraceMerges
  <1>4. U[0] = Unmerged(m.nodes) /\ \A k \in 1 .. N : U[k] = MergeNode(U[k - 1], c, k)
    BY <1>1, MergeSteps DEF Steps
  <1>5. Same(U[0], m, c, 0)
    BY <1>3, <1>4 DEF Same, Unmerged, IsMerge
  <1> HIDE DEF T, m, U
  <1>6. 0 \in S
    BY <1>5
  <1>7. ASSUME NEW k \in Nat, k \in S PROVE k + 1 \in S
    <2>1. CASE k + 1 <= N
      <3>1. k + 1 \in 1 .. N /\ (k + 1) - 1 = k /\ k <= N
        BY <1>1, <2>1
      <3>2. Same(U[k], m, c, k) /\ U[k + 1] = MergeNode(U[k], c, k + 1)
        BY <1>4, <1>7, <3>1
      <3>3. Same(U[k + 1], m, c, k + 1)
        BY <1>2, <3>1, <3>2, SameStep DEF m
      <3> QED
        BY <3>3
    <2>2. CASE ~(k + 1 <= N)
      BY <2>2
    <2> QED
      BY <2>1, <2>2
  <1> HIDE DEF S
  <1>8. N \in S
    BY <1>1, <1>6, <1>7, SetInduction
  <1>9. Same(U[N], m, c, N)
    BY <1>1, <1>8 DEF S
  <1> QED
    BY <1>9 DEF Same, U, m, ApplyChanges

-----------------------------------------------------------------------------
(* Paths.                                                                  *)

PathOf(f, nodes, i) ==
  IF nodes[i].parent = 0 THEN <<Identity(nodes[i])>>
  ELSE Append(f[nodes[i].parent], Identity(nodes[i]))

ArePaths(f, nodes, n) == f = [i \in 1 .. n |-> f[i]] /\ \A i \in 1 .. n : f[i] = PathOf(f, nodes, i)

LEMMA PathsExist ==
  ASSUME NEW nodes, IsTree(nodes), NEW n \in Nat, n <= Len(nodes)
  PROVE  \E f : ArePaths(f, nodes, n)
  <1> DEFINE S == {i \in Nat : i <= Len(nodes) => \E f : ArePaths(f, nodes, i)}
  <1>1. /\ Len(nodes) \in Nat /\ DOMAIN nodes = 1 .. Len(nodes)
        /\ \A i \in DOMAIN nodes : nodes[i].parent \in 0 .. i - 1
    BY TreeIsSequence
  <1>2. 0 \in S
    <2> DEFINE f == [i \in 1 .. 0 |-> 0]
    <2>1. f = [i \in 1 .. 0 |-> f[i]]
      OBVIOUS
    <2> HIDE DEF f
    <2>2. ArePaths(f, nodes, 0)
      BY <2>1 DEF ArePaths
    <2> QED
      BY <2>2
  <1>3. ASSUME NEW i \in Nat, i \in S, i + 1 <= Len(nodes) PROVE \E g : ArePaths(g, nodes, i + 1)
    <2>1. PICK f : ArePaths(f, nodes, i)
      BY <1>1, <1>3
    <2> DEFINE next == PathOf(f, nodes, i + 1)
               g == [j \in 1 .. i + 1 |-> IF j = i + 1 THEN next ELSE f[j]]
    <2>2. g[i + 1] = next /\ (\A j \in 1 .. i : g[j] = f[j]) /\ g = [j \in 1 .. i + 1 |-> g[j]]
      <3> HIDE DEF next
      <3> QED
        OBVIOUS
    <2> HIDE DEF g
    <2>3. ASSUME NEW j \in 1 .. i + 1 PROVE g[j] = PathOf(g, nodes, j)
      <3> DEFINE p == nodes[j].parent
      <3>1. p \in 0 .. j - 1 /\ (p # 0 => p \in 1 .. i)
        BY <1>1, <1>3
      <3>2. PathOf(g, nodes, j) = PathOf(f, nodes, j)
        <4>1. p # 0 => g[p] = f[p]
          BY <2>2, <3>1
        <4> QED
          BY <4>1 DEF PathOf
      <3>3. CASE j = i + 1
        BY <2>2, <3>2, <3>3
      <3>4. CASE j # i + 1
        <4>1. j \in 1 .. i
          BY <3>4
        <4> QED
          BY <2>1, <2>2, <3>2, <4>1 DEF ArePaths
      <3> QED
        BY <3>3, <3>4
    <2>4. ArePaths(g, nodes, i + 1)
      BY <2>2, <2>3 DEF ArePaths
    <2> QED
      BY <2>4
  <1>4. ASSUME NEW i \in Nat, i \in S PROVE i + 1 \in S
    BY <1>3, <1>4
  <1> HIDE DEF S
  <1>5. n \in S
    BY <1>2, <1>4, SetInduction
  <1> QED
    BY <1>5 DEF S

LEMMA PathsAre ==
  ASSUME NEW nodes, IsTree(nodes)
  PROVE  \A i \in DOMAIN nodes : Paths(nodes)[i] = PathOf(Paths(nodes), nodes, i)
  <1> DEFINE Body(f) == [i \in DOMAIN nodes |->
                 IF nodes[i].parent = 0 THEN <<Identity(nodes[i])>>
                 ELSE Append(f[nodes[i].parent], Identity(nodes[i]))]
             M == Paths(nodes)
  <1>1. Len(nodes) \in Nat /\ DOMAIN nodes = 1 .. Len(nodes)
    BY TreeIsSequence
  <1>2. PICK f : ArePaths(f, nodes, Len(nodes))
    BY <1>1, PathsExist
  <1>3. f = Body(f)
    <2>1. \A i \in DOMAIN nodes : f[i] = Body(f)[i]
      BY <1>1, <1>2 DEF ArePaths, PathOf
    <2>2. f = [i \in DOMAIN nodes |-> f[i]]
      BY <1>1, <1>2 DEF ArePaths
    <2>3. Body(f) = [i \in DOMAIN nodes |-> Body(f)[i]]
      OBVIOUS
    <2> HIDE DEF Body
    <2> QED
      BY <2>1, <2>2, <2>3
  <1>4. M = CHOOSE g : g = Body(g)
    BY DEF Paths
  <1> HIDE DEF M
  <1>5. M = Body(M)
    <2> HIDE DEF Body
    <2> QED
      BY <1>3, <1>4
  <1>6. \A i \in DOMAIN nodes : M[i] = PathOf(M, nodes, i)
    <2>1. ASSUME NEW i \in DOMAIN nodes PROVE M[i] = PathOf(M, nodes, i)
      <3>1. M[i] = Body(M)[i]
        BY <1>5
      <3> QED
        BY <3>1 DEF PathOf
    <2> QED
      BY <2>1
  <1> QED
    BY <1>6 DEF M

\* What holds of an element if it holds of its parent, holds of all.
LEMMA TreeInduction ==
  ASSUME NEW nodes, IsTree(nodes), NEW S,
         \A i \in DOMAIN nodes : (nodes[i].parent = 0 \/ nodes[i].parent \in S) => i \in S
  PROVE  DOMAIN nodes \subseteq S
  <1> DEFINE T == {n \in Nat : \A i \in DOMAIN nodes : i <= n => i \in S}
  <1>1. /\ Len(nodes) \in Nat /\ DOMAIN nodes = 1 .. Len(nodes)
        /\ \A i \in DOMAIN nodes : nodes[i].parent \in 0 .. i - 1
    BY TreeIsSequence
  <1>2. 0 \in T
    BY <1>1
  <1>3. ASSUME NEW n \in Nat, n \in T PROVE n + 1 \in T
    <2>1. ASSUME NEW i \in DOMAIN nodes, i <= n + 1 PROVE i \in S
      <3>1. nodes[i].parent \in 0 .. i - 1
        BY <1>1
      <3>2. nodes[i].parent = 0 \/ (nodes[i].parent \in DOMAIN nodes /\ nodes[i].parent <= n)
        BY <1>1, <2>1, <3>1
      <3> QED
        BY <1>3, <3>2
    <2> QED
      BY <2>1
  <1> HIDE DEF T
  <1>4. Len(nodes) \in T
    BY <1>1, <1>2, <1>3, SetInduction
  <1> QED
    BY <1>1, <1>4 DEF T

IsPath(p) == \E S : p \in Seq(S) /\ p # << >>

LEMMA PathsArePaths ==
  ASSUME NEW nodes, IsTree(nodes)
  PROVE  \A i \in DOMAIN nodes : IsPath(Paths(nodes)[i])
  <1> DEFINE S == {i \in DOMAIN nodes : IsPath(Paths(nodes)[i])}
  <1>1. ASSUME NEW i \in DOMAIN nodes, nodes[i].parent = 0 PROVE i \in S
    <2>1. Paths(nodes)[i] = <<Identity(nodes[i])>>
      BY <1>1, PathsAre DEF PathOf
    <2>2. ASSUME NEW x PROVE IsPath(<<x>>)
      <3>1. <<x>> \in Seq({x}) /\ <<x>> # << >>
        OBVIOUS
      <3> QED
        BY <3>1 DEF IsPath
    <2> QED
      BY <2>1, <2>2
  <1>2. ASSUME NEW i \in DOMAIN nodes, nodes[i].parent # 0, nodes[i].parent \in S PROVE i \in S
    <2>1. Paths(nodes)[i] = Append(Paths(nodes)[nodes[i].parent], Identity(nodes[i]))
      BY <1>2, PathsAre DEF PathOf
    <2>2. ASSUME NEW p, IsPath(p), NEW x PROVE IsPath(Append(p, x))
      <3>1. PICK P : p \in Seq(P)
        BY <2>2 DEF IsPath
      <3> DEFINE Q == P \union {x}
      <3>2. p \in Seq(Q) /\ x \in Q
        BY <3>1, MoreValues
      <3> HIDE DEF Q
      <3>3. Append(p, x) \in Seq(Q) /\ Append(p, x) # << >>
        BY <3>2
      <3> QED
        BY <3>3 DEF IsPath
    <2> QED
      BY <1>2, <2>1, <2>2
  <1> HIDE DEF S
  <1>3. DOMAIN nodes \subseteq S
    BY <1>1, <1>2, TreeInduction
  <1> QED
    BY <1>3 DEF S

\* Paths that continue paths are the same only if those are, and the last steps.
Differ(p, q, x, y) ==
  /\ Append(p, x) = Append(q, y) => p = q /\ x = y
  /\ Append(p, x) # <<y>>

LEMMA PathsContinue ==
  ASSUME NEW p, IsPath(p), NEW q, IsPath(q), NEW x, NEW y
  PROVE  Differ(p, q, x, y)
  <1>1. PICK P, Q : p \in Seq(P) /\ q \in Seq(Q) /\ p # << >> /\ q # << >>
    BY DEF IsPath
  <1> DEFINE S == P \union Q \union {x, y}
  <1>2. p \in Seq(S) /\ q \in Seq(S) /\ x \in S /\ y \in S
    BY <1>1, MoreValues
  <1> HIDE DEF S
  <1>3. /\ Len(p) \in Nat /\ Len(q) \in Nat /\ Len(p) # 0
        /\ p = [i \in 1 .. Len(p) |-> p[i]] /\ q = [i \in 1 .. Len(q) |-> q[i]]
    BY <1>1, <1>2
  <1>4. /\ Len(Append(p, x)) = Len(p) + 1 /\ Len(Append(q, y)) = Len(q) + 1
        /\ Append(p, x)[Len(p) + 1] = x /\ Append(q, y)[Len(q) + 1] = y
        /\ \A i \in 1 .. Len(p) : Append(p, x)[i] = p[i]
        /\ \A i \in 1 .. Len(q) : Append(q, y)[i] = q[i]
    BY <1>2
  <1>5. ASSUME Append(p, x) = Append(q, y) PROVE p = q /\ x = y
    <2>1. Len(p) = Len(q)
      <3>1. Len(Append(p, x)) = Len(Append(q, y))
        BY <1>5
      <3>2. Len(p) + 1 = Len(q) + 1
        BY ONLY <1>4, <3>1
      <3>3. \A i, j \in Nat : i + 1 = j + 1 => i = j
        OBVIOUS
      <3>4. Len(p) \in Nat /\ Len(q) \in Nat
        BY <1>3
      <3> QED
        BY ONLY <3>2, <3>3, <3>4
    <2>2. x = y
      BY <1>4, <1>5, <2>1
    <2>3. \A i \in 1 .. Len(p) : p[i] = q[i]
      BY <1>4, <1>5, <2>1
    <2> QED
      BY <1>3, <2>1, <2>2, <2>3
  <1>6. Append(p, x) # <<y>>
    <2>1. Len(<<y>>) = 1
      OBVIOUS
    <2>2. SUFFICES ASSUME Append(p, x) = <<y>> PROVE FALSE
      OBVIOUS
    <2>3. Len(Append(p, x)) = Len(<<y>>)
      BY <2>2
    <2>4. Len(p) + 1 = 1
      BY ONLY <1>4, <2>1, <2>3
    <2> QED
      BY ONLY <1>3, <2>4
  <1> QED
    BY <1>5, <1>6 DEF Differ

-----------------------------------------------------------------------------
(* What the merged document means.                                         *)

IdOf(attributes) == IF IdAttribute \in DOMAIN attributes THEN attributes[IdAttribute] ELSE ""

LEMMA MergedIds ==
  ASSUME NEW old, NEW new
  PROVE  /\ IdOf(old) = IdOf(new) => IdOf(MergeNodeAttributes(old, new)) = IdOf(new)
         /\ IdOf(MergeNodeAttributes(NoAttributes, new)) = IdOf(new)
  <1>1. DOMAIN NoAttributes = {}
    BY DEF NoAttributes
  <1> QED
    BY <1>1 DEF IdOf, MergeNodeAttributes

SameNameAndId(e, f) == e.name = f.name /\ IdOf(e.attributes) = IdOf(f.attributes)

LEMMA IdentityIs ==
  ASSUME NEW e, NEW f
  PROVE  Identity(e) = Identity(f) <=> SameNameAndId(e, f)
  BY DEF Identity, IdOf, SameNameAndId

\* The elements keep their identities, and each place has that of its change.
SameIdentities(d, c, m) ==
  /\ \A i \in DOMAIN d : Identity(m.nodes[i]) = Identity(d[i])
  /\ \A k \in DOMAIN c : Identity(m.nodes[m.place[k]]) = Identity(c[k])

LEMMA IdentitiesStay ==
  ASSUME NEW d, NEW c, IsChanges(c), NEW m, Ends(d, c, m), Addressed(d, m, c)
  PROVE  SameIdentities(d, c, m)
  <1>1. ASSUME NEW k \in DOMAIN c PROVE SameNameAndId(m.nodes[m.place[k]], c[k])
    <2> DEFINE e == m.nodes[m.place[k]]
               old == IF m.place[k] \in DOMAIN d THEN d[m.place[k]].attributes ELSE NoAttributes
    <2>1. e.attributes = MergeNodeAttributes(old, c[k].attributes)
      BY DEF Ends
    <2>2. e.name = c[k].name
      <3>1. k \in 1 .. Len(c)
        BY TreeIsSequence DEF IsChanges
      <3> QED
        BY <3>1 DEF Ends, IsMerge
    <2>3. m.place[k] \in DOMAIN d => IdOf(d[m.place[k]].attributes) = IdOf(c[k].attributes)
      BY IdentityIs DEF Addressed, SameNameAndId
    <2> HIDE DEF e
    <2>4. IdOf(e.attributes) = IdOf(c[k].attributes)
      BY <2>1, <2>3, MergedIds
    <2> QED
      BY <2>2, <2>4 DEF SameNameAndId, e
  <1>2. ASSUME NEW i \in DOMAIN d PROVE Identity(m.nodes[i]) = Identity(d[i])
    <2>1. CASE \A k \in DOMAIN c : m.place[k] # i
      BY <2>1 DEF Ends
    <2>2. ASSUME NEW k \in DOMAIN c, m.place[k] = i PROVE Identity(m.nodes[i]) = Identity(d[i])
      <3>1. Identity(d[i]) = Identity(c[k])
        BY <2>2 DEF Addressed
      <3> QED
        BY <1>1, <2>2, <3>1, IdentityIs
    <2> QED
      BY <2>1, <2>2
  <1> QED
    BY <1>1, <1>2, IdentityIs DEF SameIdentities

\* The elements of the document keep their paths, and those of the changes have the paths of
\* their places, which no other element has.
SamePaths(d, c, m) ==
  /\ \A i \in DOMAIN d : Paths(m.nodes)[i] = Paths(d)[i]
  /\ \A k \in DOMAIN c : Paths(m.nodes)[m.place[k]] = Paths(c)[k]
  /\ \A k \in DOMAIN c, i \in DOMAIN m.nodes : Paths(m.nodes)[i] = Paths(c)[k] => i = m.place[k]

LEMMA PathsStay ==
  ASSUME NEW d, IsDocument(d), NEW c, IsChanges(c), NEW m, Ends(d, c, m), Addressed(d, m, c)
  PROVE  SamePaths(d, c, m)
  <1> DEFINE new == Paths(m.nodes)
  <1>1. IsTree(d) /\ IsTree(c) /\ IsTree(m.nodes) /\ IsMerge(m, c, Len(c))
    BY DEF Ends, IsMerge, IsDocument, IsChanges
  <1>2. /\ Len(c) \in Nat /\ DOMAIN c = 1 .. Len(c)
        /\ DOMAIN m.nodes = 1 .. Len(m.nodes) /\ Len(m.nodes) \in Nat
        /\ DOMAIN d = 1 .. Len(d) /\ Len(d) \in Nat
        /\ \A k \in DOMAIN c : c[k].parent \in 0 .. k - 1
        /\ \A i \in DOMAIN m.nodes : m.nodes[i].parent \in 0 .. i - 1
        /\ \A i \in DOMAIN d : d[i].parent \in 0 .. i - 1
    BY <1>1, TreeIsSequence
  <1>3. SameIdentities(d, c, m)
    BY IdentitiesStay
  <1>4. \A i \in DOMAIN m.nodes : new[i] = PathOf(new, m.nodes, i)
    BY <1>1, PathsAre
  <1>5. \A i \in DOMAIN d : i \in DOMAIN m.nodes /\ m.nodes[i].parent = d[i].parent
    BY DEF Ends
  <1>6. \A k \in DOMAIN c :
          /\ m.place[k] \in DOMAIN m.nodes /\ m.place[k] # 0
          /\ m.nodes[m.place[k]].parent = m.place[c[k].parent] /\ m.place[0] = 0
          /\ c[k].parent = 0 \/ c[k].parent \in DOMAIN c
    <2>1. ASSUME NEW k \in DOMAIN c PROVE c[k].parent = 0 \/ c[k].parent \in DOMAIN c
      <3>1. c[k].parent \in 0 .. k - 1 /\ k \in 1 .. Len(c)
        BY <1>2
      <3> QED
        BY <1>2, <3>1
    <2>2. \A k \in 1 .. Len(c) : /\ m.place[k] \in DOMAIN m.nodes
                                 /\ m.nodes[m.place[k]].parent = m.place[c[k].parent]
      BY <1>1 DEF IsMerge
    <2>3. 0 \notin DOMAIN m.nodes /\ m.place[0] = 0
      BY <1>1, <1>2 DEF IsMerge
    <2> QED
      BY <1>2, <2>1, <2>2, <2>3
  <1> DEFINE old == Paths(d)
             asked == Paths(c)
  <1>7. /\ \A i \in DOMAIN d : old[i] = PathOf(old, d, i)
        /\ \A k \in DOMAIN c : asked[k] = PathOf(asked, c, k)
    BY <1>1, PathsAre
  <1>8. /\ \A k \in DOMAIN c : IsPath(asked[k])
        /\ \A i \in DOMAIN m.nodes : IsPath(new[i])
    BY <1>1, PathsArePaths
  <1> HIDE DEF new, old, asked
  <1>9. \A i \in DOMAIN d : new[i] = old[i]
    <2> DEFINE S == {i \in DOMAIN d : new[i] = old[i]}
    <2>1. ASSUME NEW i \in DOMAIN d, d[i].parent = 0 \/ d[i].parent \in S PROVE i \in S
      <3>1. Identity(m.nodes[i]) = Identity(d[i]) /\ m.nodes[i].parent = d[i].parent
        BY <1>3, <1>5 DEF SameIdentities
      <3>2. d[i].parent # 0 => new[d[i].parent] = old[d[i].parent]
        BY <2>1
      <3>3. PathOf(new, m.nodes, i) = PathOf(old, d, i)
        BY <3>1, <3>2 DEF PathOf
      <3> QED
        BY <1>4, <1>5, <1>7, <3>3
    <2> HIDE DEF S
    <2>2. DOMAIN d \subseteq S
      BY <1>1, <2>1, TreeInduction
    <2> QED
      BY <2>2 DEF S
  <1>10. \A k \in DOMAIN c : new[m.place[k]] = asked[k]
    <2> DEFINE S == {k \in DOMAIN c : new[m.place[k]] = asked[k]}
    <2>1. ASSUME NEW k \in DOMAIN c, c[k].parent = 0 \/ c[k].parent \in S PROVE k \in S
      <3>1. /\ Identity(m.nodes[m.place[k]]) = Identity(c[k])
            /\ m.nodes[m.place[k]].parent = m.place[c[k].parent]
        BY <1>3, <1>6 DEF SameIdentities
      <3>2. c[k].parent # 0 => m.place[c[k].parent] # 0 /\ new[m.place[c[k].parent]] = asked[c[k].parent]
        BY <1>6, <2>1
      <3>3. PathOf(new, m.nodes, m.place[k]) = PathOf(asked, c, k)
        BY <1>6, <3>1, <3>2 DEF PathOf
      <3> QED
        BY <1>4, <1>6, <1>7, <3>3
    <2> HIDE DEF S
    <2>2. DOMAIN c \subseteq S
      BY <1>1, <2>1, TreeInduction
    <2> QED
      BY <2>2 DEF S
  <1>11. \A k \in DOMAIN c : \A i \in DOMAIN m.nodes : new[i] = asked[k] => i = m.place[k]
    <2> DEFINE S == {k \in DOMAIN c : \A i \in DOMAIN m.nodes : new[i] = asked[k] => i = m.place[k]}
    <2>1. ASSUME NEW k \in DOMAIN c, c[k].parent = 0 \/ c[k].parent \in S,
                 NEW i \in DOMAIN m.nodes, new[i] = asked[k]
          PROVE  i = m.place[k]
      <3> DEFINE p == m.nodes[i].parent
                 q == c[k].parent
      <3>1. p = 0 \/ p \in DOMAIN m.nodes
        BY <1>2
      <3>2. new[i] = PathOf(new, m.nodes, i) /\ asked[k] = PathOf(asked, c, k)
        BY <1>4, <1>7
      <3>3. /\ p = m.place[q]
            /\ Identity(m.nodes[i]) = Identity(c[k])
        <4>1. CASE p = 0 /\ q = 0
          <5>1. <<Identity(m.nodes[i])>> = <<Identity(c[k])>>
            BY <2>1, <3>2, <4>1 DEF PathOf
          <5> QED
            BY <1>6, <4>1, <5>1
        <4>2. CASE p # 0 /\ q = 0
          <5>1. Append(new[p], Identity(m.nodes[i])) = <<Identity(c[k])>>
            BY <2>1, <3>2, <4>2 DEF PathOf
          <5>2. IsPath(new[p])
            BY <1>8, <3>1, <4>2
          <5>3. Differ(new[p], new[p], Identity(m.nodes[i]), Identity(c[k]))
            BY ONLY <5>2, PathsContinue
          <5> QED
            BY ONLY <5>1, <5>3 DEF Differ
        <4>3. CASE p = 0 /\ q # 0
          <5>1. Append(asked[q], Identity(c[k])) = <<Identity(m.nodes[i])>>
            BY <2>1, <3>2, <4>3 DEF PathOf
          <5>2. IsPath(asked[q])
            BY <1>6, <1>8, <4>3
          <5>3. Differ(asked[q], asked[q], Identity(c[k]), Identity(m.nodes[i]))
            BY ONLY <5>2, PathsContinue
          <5> QED
            BY ONLY <5>1, <5>3 DEF Differ
        <4>4. CASE p # 0 /\ q # 0
          <5>1. Append(new[p], Identity(m.nodes[i])) = Append(asked[q], Identity(c[k]))
            BY <2>1, <3>2, <4>4 DEF PathOf
          <5>2. new[p] = asked[q] /\ Identity(m.nodes[i]) = Identity(c[k])
            <6>1. IsPath(new[p]) /\ IsPath(asked[q])
              BY <1>6, <1>8, <3>1, <4>4
            <6>2. Differ(new[p], asked[q], Identity(m.nodes[i]), Identity(c[k]))
              BY ONLY <6>1, PathsContinue
            <6> QED
              BY ONLY <5>1, <6>2 DEF Differ
          <5> QED
            BY <2>1, <3>1, <4>4, <5>2
        <4> QED
          BY <4>1, <4>2, <4>3, <4>4
      <3>4. i \in Siblings(m.nodes, m.place[k])
        BY <1>6, <3>3 DEF Siblings
      <3>5. Identity(m.nodes[i]) = Identity(m.nodes[m.place[k]])
        BY <1>3, <3>3 DEF SameIdentities
      <3> QED
        BY <3>4, <3>5 DEF Addressed
    <2>2. ASSUME NEW k \in DOMAIN c, c[k].parent = 0 \/ c[k].parent \in S PROVE k \in S
      <3>1. \A i \in DOMAIN m.nodes : new[i] = asked[k] => i = m.place[k]
        BY <2>1, <2>2
      <3> QED
        BY <3>1
    <2> HIDE DEF S
    <2>3. DOMAIN c \subseteq S
      BY <1>1, <2>2, TreeInduction
    <2> QED
      BY <2>3 DEF S
  <1> QED
    BY <1>9, <1>10, <1>11 DEF SamePaths, new, old, asked

Existence(p) == [subject |-> <<p>>, value |-> ""]

AttributeIs(p, a, v) == [subject |-> <<p, a>>, value |-> v]

LEMMA MeaningIs ==
  ASSUME NEW nodes, NEW f
  PROVE  f \in Meaning(nodes) <=>
           \/ \E i \in DOMAIN nodes : f = Existence(Paths(nodes)[i])
           \/ \E i \in DOMAIN nodes : \E a \in DOMAIN nodes[i].attributes :
                f = AttributeIs(Paths(nodes)[i], a, nodes[i].attributes[a])
  <1> DEFINE Says(i) ==
        {Existence(Paths(nodes)[i])} \union
        {AttributeIs(Paths(nodes)[i], a, nodes[i].attributes[a]) : a \in DOMAIN nodes[i].attributes}
  <1>1. Meaning(nodes) = UNION {Says(i) : i \in DOMAIN nodes}
    BY DEF Meaning, Existence, AttributeIs
  <1>2. f \in Meaning(nodes) <=> \E i \in DOMAIN nodes : f \in Says(i)
    <2> HIDE DEF Says
    <2> QED
      BY <1>1
  <1> QED
    BY <1>2

LEMMA SubjectsDiffer ==
  ASSUME NEW p, NEW q, NEW a, NEW b, NEW v, NEW w
  PROVE  /\ Existence(p).subject # AttributeIs(q, b, w).subject
         /\ Existence(p).subject = Existence(q).subject => p = q
         /\ AttributeIs(p, a, v).subject = AttributeIs(q, b, w).subject => p = q /\ a = b
  <1>1. <<p>> # <<q, b>>
    <2>1. Len(<<p>>) = 1 /\ Len(<<q, b>>) = 2
      OBVIOUS
    <2> QED
      BY <2>1
  <1> QED
    BY <1>1 DEF Existence, AttributeIs

\* Merged into elements that are told apart, the changes do to the document what they say, and
\* no more.
LEMMA MergeMeans ==
  ASSUME NEW d, IsDocument(d), NEW c, IsChanges(c), NEW m, m = ApplyChanges(d, c), Addressed(d, m, c)
  PROVE  Meaning(m.nodes) = Overlay(Meaning(d), Meaning(c))
  <1>1. Distinct(m, c)
    BY DEF Addressed
  <1>2. Ends(d, c, m)
    BY <1>1, MergeEnds
  <1>3. SamePaths(d, c, m)
    BY <1>2, PathsStay
  <1> DEFINE new == Paths(m.nodes)
             old == Paths(d)
             asked == Paths(c)
             e(i) == m.nodes[i].attributes
  <1>4. /\ \A i \in DOMAIN d : i \in DOMAIN m.nodes /\ new[i] = old[i]
        /\ \A k \in DOMAIN c : m.place[k] \in DOMAIN m.nodes /\ new[m.place[k]] = asked[k]
        /\ \A k \in DOMAIN c, i \in DOMAIN m.nodes : new[i] = asked[k] => i = m.place[k]
    <2>1. IsMerge(m, c, Len(c)) /\ DOMAIN c = 1 .. Len(c)
      BY <1>2, TreeIsSequence DEF Ends, IsChanges
    <2> QED
      BY <1>2, <1>3, <2>1 DEF SamePaths, Ends, IsMerge
  <1>5. \A j, k \in DOMAIN c : m.place[j] = m.place[k] => j = k
    BY <1>1 DEF Distinct
  <1>6. /\ \A i \in DOMAIN d : (\A k \in DOMAIN c : m.place[k] # i) => m.nodes[i] = d[i]
        /\ \A i \in DOMAIN m.nodes : i \notin DOMAIN d => \E k \in DOMAIN c : m.place[k] = i
    BY <1>2 DEF Ends
  <1>7. ASSUME NEW k \in DOMAIN c
        PROVE  LET i == m.place[k] IN
               /\ \A a \in DOMAIN c[k].attributes : a \in DOMAIN e(i) /\ e(i)[a] = c[k].attributes[a]
               /\ \A a \in DOMAIN e(i) : a \notin DOMAIN c[k].attributes =>
                    i \in DOMAIN d /\ a \in DOMAIN d[i].attributes /\ e(i)[a] = d[i].attributes[a]
               /\ i \in DOMAIN d => \A a \in DOMAIN d[i].attributes : a \in DOMAIN e(i) /\
                    (a \notin DOMAIN c[k].attributes => e(i)[a] = d[i].attributes[a])
    <2> DEFINE x == IF m.place[k] \in DOMAIN d THEN d[m.place[k]].attributes ELSE NoAttributes
    <2>1. e(m.place[k]) = MergeNodeAttributes(x, c[k].attributes)
      BY <1>2 DEF Ends
    <2>2. /\ m.place[k] \in DOMAIN d => x = d[m.place[k]].attributes
          /\ m.place[k] \notin DOMAIN d => DOMAIN x = {}
      BY DEF NoAttributes
    <2> HIDE DEF x, e
    <2> QED
      BY <2>1, <2>2 DEF MergeNodeAttributes
  <1> HIDE DEF new, old, asked, e
  <1>8. ASSUME NEW f
        PROVE  /\ f \in Meaning(m.nodes) <=>
                    \/ \E i \in DOMAIN m.nodes : f = Existence(new[i])
                    \/ \E i \in DOMAIN m.nodes : \E a \in DOMAIN e(i) : f = AttributeIs(new[i], a, e(i)[a])
               /\ f \in Meaning(d) <=>
                    \/ \E i \in DOMAIN d : f = Existence(old[i])
                    \/ \E i \in DOMAIN d : \E a \in DOMAIN d[i].attributes :
                         f = AttributeIs(old[i], a, d[i].attributes[a])
               /\ f \in Meaning(c) <=>
                    \/ \E k \in DOMAIN c : f = Existence(asked[k])
                    \/ \E k \in DOMAIN c : \E a \in DOMAIN c[k].attributes :
                         f = AttributeIs(asked[k], a, c[k].attributes[a])
    BY MeaningIs DEF new, old, asked, e
  <1>9. ASSUME NEW f \in Meaning(c) PROVE f \in Meaning(m.nodes)
    <2>1. CASE \E k \in DOMAIN c : f = Existence(asked[k])
      BY <1>4, <1>8, <2>1
    <2>2. CASE \E k \in DOMAIN c : \E a \in DOMAIN c[k].attributes :
                 f = AttributeIs(asked[k], a, c[k].attributes[a])
      <3>1. PICK k \in DOMAIN c : \E a \in DOMAIN c[k].attributes :
                   f = AttributeIs(asked[k], a, c[k].attributes[a])
        BY <2>2
      <3>2. PICK a \in DOMAIN c[k].attributes : f = AttributeIs(asked[k], a, c[k].attributes[a])
        BY <3>1
      <3>3. /\ m.place[k] \in DOMAIN m.nodes /\ a \in DOMAIN e(m.place[k])
            /\ f = AttributeIs(new[m.place[k]], a, e(m.place[k])[a])
        BY <1>4, <1>7, <3>2
      <3> QED
        BY <1>8, <3>3
    <2> QED
      BY <1>8, <2>1, <2>2
  <1>10. ASSUME NEW f \in Meaning(d), \A g \in Meaning(c) : g.subject # f.subject
         PROVE  f \in Meaning(m.nodes)
    <2>1. CASE \E i \in DOMAIN d : f = Existence(old[i])
      BY <1>4, <1>8, <2>1
    <2>2. CASE \E i \in DOMAIN d : \E a \in DOMAIN d[i].attributes :
                 f = AttributeIs(old[i], a, d[i].attributes[a])
      <3>0. PICK i \in DOMAIN d : \E a \in DOMAIN d[i].attributes :
                   f = AttributeIs(old[i], a, d[i].attributes[a])
        BY <2>2
      <3>1. PICK a \in DOMAIN d[i].attributes : f = AttributeIs(old[i], a, d[i].attributes[a])
        BY <3>0
      <3>2. a \in DOMAIN e(i) /\ e(i)[a] = d[i].attributes[a]
        <4>1. CASE \A k \in DOMAIN c : m.place[k] # i
          BY <1>6, <4>1 DEF e
        <4>2. ASSUME NEW k \in DOMAIN c, m.place[k] = i
              PROVE  a \in DOMAIN e(i) /\ e(i)[a] = d[i].attributes[a]
          <5>1. a \notin DOMAIN c[k].attributes
            <6> SUFFICES ASSUME a \in DOMAIN c[k].attributes PROVE FALSE
              OBVIOUS
            <6> DEFINE g == AttributeIs(asked[k], a, c[k].attributes[a])
            <6>1. g \in Meaning(c)
              BY <1>8
            <6>2. asked[k] = old[i]
              BY <1>4, <4>2
            <6>3. g.subject = f.subject
              BY <3>1, <6>2 DEF AttributeIs
            <6> QED
              BY <1>10, <6>1, <6>3
          <5> QED
            BY <1>7, <4>2, <5>1
        <4> QED
          BY <4>1, <4>2
      <3>3. i \in DOMAIN m.nodes /\ f = AttributeIs(new[i], a, e(i)[a])
        BY <1>4, <3>1, <3>2
      <3> QED
        BY <1>8, <3>2, <3>3
    <2> QED
      BY <1>8, <2>1, <2>2
  <1>11. ASSUME NEW f \in Meaning(m.nodes), f \notin Meaning(c)
         PROVE  f \in Meaning(d) /\ \A g \in Meaning(c) : g.subject # f.subject
    <2>1. ASSUME NEW i \in DOMAIN m.nodes, f = Existence(new[i])
          PROVE  f \in Meaning(d) /\ \A g \in Meaning(c) : g.subject # f.subject
      <3>1. ASSUME NEW k \in DOMAIN c PROVE m.place[k] # i
        BY <1>4, <1>8, <1>11, <2>1
      <3>2. i \in DOMAIN d
        BY <1>6, <3>1
      <3>3. f \in Meaning(d)
        BY <1>4, <1>8, <2>1, <3>2
      <3>4. ASSUME NEW g \in Meaning(c), g.subject = f.subject PROVE FALSE
        <4>1. ASSUME NEW k \in DOMAIN c, g = Existence(asked[k]) PROVE FALSE
          <5>1. asked[k] = new[i]
            BY <2>1, <3>4, <4>1, SubjectsDiffer
          <5> QED
            BY <1>4, <3>1, <5>1
        <4>2. ASSUME NEW k \in DOMAIN c, NEW a \in DOMAIN c[k].attributes,
                     g = AttributeIs(asked[k], a, c[k].attributes[a])
              PROVE  FALSE
          BY <2>1, <3>4, <4>2, SubjectsDiffer
        <4> QED
          BY <1>8, <4>1, <4>2
      <3> QED
        BY <3>3, <3>4
    <2>2. ASSUME NEW i \in DOMAIN m.nodes, NEW a \in DOMAIN e(i), f = AttributeIs(new[i], a, e(i)[a])
          PROVE  f \in Meaning(d) /\ \A g \in Meaning(c) : g.subject # f.subject
      <3>1. ASSUME NEW k \in DOMAIN c, m.place[k] = i PROVE a \notin DOMAIN c[k].attributes
        <4> SUFFICES ASSUME a \in DOMAIN c[k].attributes PROVE FALSE
          OBVIOUS
        <4>1. f = AttributeIs(asked[k], a, c[k].attributes[a])
          BY <1>4, <1>7, <2>2, <3>1
        <4> QED
          BY <1>8, <1>11, <4>1
      <3>2. i \in DOMAIN d /\ a \in DOMAIN d[i].attributes /\ e(i)[a] = d[i].attributes[a]
        <4>1. CASE \A k \in DOMAIN c : m.place[k] # i
          BY <1>6, <2>2, <4>1 DEF e
        <4>2. ASSUME NEW k \in DOMAIN c, m.place[k] = i
              PROVE  i \in DOMAIN d /\ a \in DOMAIN d[i].attributes /\ e(i)[a] = d[i].attributes[a]
          BY <1>7, <3>1, <4>2
        <4> QED
          BY <4>1, <4>2
      <3>3. f \in Meaning(d)
        BY <1>4, <1>8, <2>2, <3>2
      <3>4. ASSUME NEW g \in Meaning(c), g.subject = f.subject PROVE FALSE
        <4>1. ASSUME NEW k \in DOMAIN c, g = Existence(asked[k]) PROVE FALSE
          BY <2>2, <3>4, <4>1, SubjectsDiffer
        <4>2. ASSUME NEW k \in DOMAIN c, NEW b \in DOMAIN c[k].attributes,
                     g = AttributeIs(asked[k], b, c[k].attributes[b])
              PROVE  FALSE
          <5>1. asked[k] = new[i] /\ a = b
            BY <2>2, <3>4, <4>2, SubjectsDiffer
          <5>2. m.place[k] = i
            BY <1>4, <5>1
          <5> QED
            BY <3>1, <5>1, <5>2
        <4> QED
          BY <1>8, <4>1, <4>2
      <3> QED
        BY <3>3, <3>4
    <2> QED
      BY <1>8, <2>1, <2>2
  <1> QED
    BY <1>9, <1>10, <1>11 DEF Overlay

-----------------------------------------------------------------------------
(* The configuration files of the machines.                                *)

\* Configuration steps read the values of the variable and do not change them.
THEOREM ConfigurationSavedValueIsUsed == Spec => []SavedValueIsUsed
  <1>1. Init => VariablesInv
    BY VariablesInitInv DEF Init
  <1>2. [Next]_vars => [VariablesNext]_variables
    BY DEF Next, vars, variables, ProcessConfigurationStep, Run, RunFails
  <1>3. VariablesInv /\ [Next]_vars => VariablesInv'
    BY <1>2, VariablesNextInv
  <1> QED
    BY <1>1, <1>3, InvImpliesUsed, PTL DEF Spec

\* The files are documents, and what is queued at the satellites are changes.
FilesOK ==
  /\ DOMAIN file = Configured /\ DOMAIN queued = Configured
  /\ DOMAIN expected = Configured /\ DOMAIN marked = Configured /\ DOMAIN last = Configured
  /\ \A m \in Configured :
       IsDocument(file[m]) /\ HasOneRoot(file[m]) /\ \A c \in queued[m] : IsChanges(c)

IsMerged(f, c) ==
  /\ IsChanges(c)
  /\ \E d : /\ IsDocument(d)
            /\ Distinct(ApplyChanges(d, c), c)
            /\ f = ApplyChanges(d, c).nodes

\* The last changes to a file, if distinct, were merged into some document.
LastMerged == \A m \in Configured : \A c \in last[m] : IsMerged(file[m], c)

\* The inductive invariant.  RedeployChangesNothing alone forgets where the file comes from,
\* and FileSaysWhatWasAsked that it is a document.
FilesInv == FilesOK /\ LastMerged /\ FileSaysWhatWasAsked

LEMMA MergeIsDocument ==
  ASSUME NEW d, IsDocument(d), NEW c, IsChanges(c)
  PROVE  IsDocument(ApplyChanges(d, c).nodes)
  <1>1. Len(c) \in 0 .. Len(c)
    BY TreeIsSequence DEF IsChanges
  <1>2. IsMerge(MergeNodes(d, c)[Len(c)], c, Len(c))
    BY <1>1, MergeNodesTrace, TraceMerges
  <1> QED
    BY <1>2 DEF IsMerge, ApplyChanges

LEMMA MergeKeepsRoot ==
  ASSUME NEW d, IsDocument(d), HasOneRoot(d), NEW c, IsChanges(c), CanApply(d, c)
  PROVE  HasOneRoot(ApplyChanges(d, c).nodes)
  <1> DEFINE N == Len(c)
             T == MergeNodes(d, c)
             m == ApplyChanges(d, c)
  <1>1. /\ N \in Nat /\ DOMAIN c = 1 .. N
        /\ \A k \in DOMAIN c : c[k].parent \in 0 .. k - 1
        /\ Len(d) \in Nat /\ DOMAIN d = 1 .. Len(d) /\ IsSequence(d)
        /\ \A i \in DOMAIN d : d[i].parent \in 0 .. i - 1
    BY TreeIsSequence DEF IsChanges, IsDocument
  <1>2. IsTrace(T, d, c) /\ m = T[N]
    BY MergeNodesTrace DEF ApplyChanges
  <1> HIDE DEF T, m
  <1>3. Later(T[0], m, 0, N) /\ T[0] = Unmerged(d) /\ IsMerge(m, c, N)
    <2>1. N \in 0 .. N /\ 0 \in 0 .. N
      BY <1>1
    <2> QED
      BY <1>2, <2>1, TraceLater, TraceMerges DEF IsTrace
  <1> SUFFICES ASSUME NEW i \in DOMAIN m.nodes, m.nodes[i].parent = 0 PROVE i = 1
    BY DEF HasOneRoot, m
  <1>4. CASE i \in DOMAIN d
    BY <1>3, <1>4 DEF Later, Unmerged, HasOneRoot
  <1>5. CASE i \notin DOMAIN d
    <2>1. PICK k \in 1 .. N : m.place[k] = i
      BY <1>3, <1>5 DEF Later, Unmerged
    <2>2. m.place[c[k].parent] = 0
      BY <1>3, <2>1 DEF IsMerge
    <2>3. c[k].parent = 0
      <3>1. \A j \in 1 .. N : m.place[j] # 0
        <4>1. 0 \notin DOMAIN m.nodes
          BY <1>3, TreeIsSequence DEF IsMerge, IsDocument
        <4> QED
          BY <1>3, <4>1 DEF IsMerge
      <3>2. c[k].parent = 0 \/ c[k].parent \in 1 .. N
        BY <1>1
      <3> QED
        BY <2>2, <3>1, <3>2
    <2>4. k = 1 /\ 1 \in 1 .. N /\ 1 \in 0 .. N /\ N \in 1 .. N /\ 1 \in 0 .. 1 /\ 1 - 1 = 0
      BY <1>1, <2>1, <2>3 DEF IsChanges, HasOneRoot
    <2>5. Stepped(T[0], T[1], c, 1) /\ Later(T[1], m, 1, N)
      BY <1>2, <2>4, TraceLater DEF IsTrace
    <2>6. T[1].place[1] = i
      BY <2>1, <2>4, <2>5 DEF Later
    <2>7. NewNode(T[0], T[1], c, 1)
      BY <1>3, <1>5, <2>5, <2>6 DEF Stepped, OldNode, Unmerged
    <2>8. i = Len(d) + 1
      BY <1>3, <2>6, <2>7 DEF NewNode, Unmerged
    <2>9. CASE d = NoDocument
      BY <2>8, <2>9 DEF NoDocument
    <2>10. CASE d # NoDocument
      <3>1. ~HasKey(c, 1)
        BY <2>3, <2>4 DEF HasKey, KeyOf
      <3>2. ~Appends(T[0], c, 1)
        BY <1>3, <2>3, <2>4 DEF Appends, Unmerged
      <3>3. Len(d) # 0
        <4>1. d = [j \in 1 .. Len(d) |-> d[j]]
          BY <1>1 DEF IsSequence
        <4>2. Len(d) = 0 => d = << >>
          BY <4>1
        <4> QED
          BY <2>10, <4>2 DEF NoDocument
      <3>4. 1 \in DOMAIN d /\ d[1].parent = 0 /\ d[1].name = c[1].name
        BY <1>1, <2>10, <3>3 DEF CanApply
      <3>5. 1 \in Found(T[0], c, 1)
        BY <1>3, <2>3, <2>4, <3>1, <3>4 DEF Found, Matches, Named, Unmerged
      <3> QED
        BY <2>7, <3>2, <3>5 DEF NewNode
    <2> QED
      BY <2>9, <2>10
  <1> QED
    BY <1>4, <1>5

LEMMA SubstitutedChanges ==
  ASSUME NEW c, IsChanges(c), NEW value
  PROVE  IsChanges(Substitute(c, value))
  <1> DEFINE s == Substitute(c, value)
             n == Len(c)
  <1>1. n \in Nat /\ DOMAIN c = 1 .. n /\ \A k \in DOMAIN c : c[k].parent \in 0 .. k - 1
    BY TreeIsSequence DEF IsChanges
  <1>2. ASSUME NEW k \in DOMAIN c
        PROVE  /\ s[k].parent = c[k].parent
               /\ s[k] = Change(s[k].name, s[k].attributes, s[k].key, s[k].collections, s[k].parent)
    <2> DEFINE attributes == [a \in DOMAIN c[k].attributes |->
                 IF c[k].attributes[a] = Variable THEN value ELSE c[k].attributes[a]]
    <2>1. s[k] = [c[k] EXCEPT !.attributes = attributes]
      BY DEF Substitute
    <2>2. c[k] = Change(c[k].name, c[k].attributes, c[k].key, c[k].collections, c[k].parent)
      BY DEF IsChanges
    <2> HIDE DEF attributes, s
    <2> QED
      BY <2>1, <2>2 DEF Change
  <1>3. DOMAIN s = 1 .. n /\ s = [k \in 1 .. n |-> s[k]]
    BY <1>1 DEF Substitute
  <1> HIDE DEF s
  <1>4. IsSequence(s)
    BY <1>1, <1>3, FunctionIsSequence
  <1>5. HasOneRoot(c) /\ n # 0
    <2>1. c # << >>
      BY DEF IsChanges
    <2>2. IsSequence(c)
      BY TreeIsSequence DEF IsChanges
    <2>3. c = [k \in 1 .. n |-> c[k]]
      BY <2>2 DEF IsSequence
    <2>4. n = 0 => c = << >>
      BY <2>3
    <2> QED
      BY <1>1, <2>1, <2>4 DEF IsChanges
  <1>6. s # << >>
    BY <1>1, <1>3, <1>5
  <1> QED
    BY <1>1, <1>2, <1>3, <1>4, <1>5, <1>6 DEF IsChanges, HasOneRoot, IsTree, IsSequence, s

LEMMA FilesInitially == Init => FilesInv
  <1> SUFFICES ASSUME Init PROVE FilesInv
    OBVIOUS
  <1>1. IsDocument(NoDocument) /\ HasOneRoot(NoDocument)
    <2>1. NoDocument = [i \in 1 .. 0 |-> NoDocument[i]] /\ DOMAIN NoDocument = {}
      BY DEF NoDocument
    <2>2. IsSequence(NoDocument)
      BY <2>1, FunctionIsSequence
    <2> QED
      BY <2>1, <2>2 DEF IsDocument, HasOneRoot, IsTree, IsSequence
  <1>2. FilesOK
    BY <1>1, ConfigurationAssumption DEF Init, FilesOK
  <1>3. \A M : Unmarked(M, {}) = M
    BY DEF Unmarked
  <1> QED
    BY <1>2, <1>3 DEF Init, FilesInv, LastMerged, FileSaysWhatWasAsked

\* What a document with changes over it says besides what is marked for deletion.
LEMMA AskedAndUnmarked ==
  ASSUME NEW M, NEW c, NEW D
  PROVE  Unmarked(Overlay(M, Meaning(c)), (D \ {f.subject : f \in Asked(c)}) \union ToDelete(c))
           = Overlay(Unmarked(Unmarked(M, D), ToDelete(c)), Asked(c))
  <1> DEFINE C == Meaning(c)
             T == ToDelete(c)
             A == Asked(c)
             E == (D \ {f.subject : f \in A}) \union T
             Old == Unmarked(Unmarked(M, D), T)
  <1>1. A = {f \in C : f.subject \notin T}
    BY DEF Asked
  <1> HIDE DEF C, T, A
  <1>2. ASSUME NEW f \in Overlay(M, C), f.subject \notin E PROVE f \in Overlay(Old, A)
    <2>1. f.subject \notin T
      BY <1>2
    <2>2. CASE f \in C
      BY <1>1, <2>1, <2>2 DEF Overlay
    <2>3. CASE f \notin C
      <3>1. f \in M /\ \A g \in C : g.subject # f.subject
        BY <1>2, <2>3 DEF Overlay
      <3>2. f.subject \notin {g.subject : g \in A}
        BY <1>1, <3>1
      <3>3. f \in Old
        BY <1>2, <2>1, <3>1, <3>2 DEF Unmarked
      <3> QED
        BY <1>1, <3>1, <3>3 DEF Overlay
    <2> QED
      BY <2>2, <2>3
  <1>3. ASSUME NEW f \in Overlay(Old, A) PROVE f \in Overlay(M, C) /\ f.subject \notin E
    <2>1. CASE f \in A
      BY <1>1, <2>1 DEF Overlay
    <2>2. CASE f \notin A
      <3>1. f \in Old /\ \A g \in A : g.subject # f.subject
        BY <1>3, <2>2 DEF Overlay
      <3>2. f \in M /\ f.subject \notin D /\ f.subject \notin T
        BY <3>1 DEF Unmarked
      <3>3. \A g \in C : g.subject # f.subject
        BY <1>1, <3>1, <3>2
      <3> QED
        BY <3>2, <3>3 DEF Overlay
    <2> QED
      BY <2>1, <2>2
  <1>4. Unmarked(Overlay(M, C), E) = Overlay(Old, A)
    BY <1>2, <1>3 DEF Unmarked
  <1> QED
    BY <1>4 DEF C, T, A

LEMMA RunKeepsFiles ==
  ASSUME FilesInv, NEW m \in Configured, Run(m)
  PROVE  FilesInv'
  <1>1. PICK c \in queued[m] :
          LET merge == ApplyChanges(file[m], c) IN
          /\ CanApply(file[m], c)
          /\ file' = [file EXCEPT ![m] = merge.nodes]
          /\ queued' = [queued EXCEPT ![m] = {}]
          /\ expected' = [expected EXCEPT ![m] = Overlay(Unmarked(@, ToDelete(c)), Asked(c))]
          /\ marked' = [marked EXCEPT ![m] = (@ \ {f.subject : f \in Asked(c)}) \union ToDelete(c)]
          /\ last' = [last EXCEPT ![m] = IF Distinct(merge, c) THEN {c} ELSE {}]
          /\ strayed' = IF Addressed(file[m], merge, c) THEN strayed ELSE strayed \union {m}
    BY DEF Run
  <1> DEFINE d == file[m]
             merge == ApplyChanges(d, c)
  <1>2. IsDocument(d) /\ HasOneRoot(d) /\ IsChanges(c) /\ CanApply(d, c)
    BY <1>1 DEF FilesInv, FilesOK
  <1>3. /\ DOMAIN file = Configured /\ DOMAIN queued = Configured
        /\ DOMAIN expected = Configured /\ DOMAIN marked = Configured /\ DOMAIN last = Configured
    BY DEF FilesInv, FilesOK
  <1>4. IsDocument(merge.nodes) /\ HasOneRoot(merge.nodes)
    BY <1>2, MergeIsDocument, MergeKeepsRoot
  <1>5. FilesOK'
    BY <1>1, <1>3, <1>4 DEF FilesInv, FilesOK
  <1>6. LastMerged'
    <2> SUFFICES ASSUME NEW n \in Configured, NEW x \in last'[n] PROVE IsMerged(file'[n], x)
      BY DEF LastMerged
    <2>1. CASE n = m
      <3>1. x = c /\ Distinct(merge, c) /\ file'[n] = merge.nodes
        BY <1>1, <1>3, <2>1
      <3> QED
        BY <1>2, <3>1 DEF IsMerged
    <2>2. CASE n # m
      BY <1>1, <1>3, <2>2 DEF FilesInv, LastMerged
    <2> QED
      BY <2>1, <2>2
  <1>7. FileSaysWhatWasAsked'
    <2> SUFFICES ASSUME NEW n \in Configured, n \notin strayed'
                 PROVE  Unmarked(Meaning(file'[n]), marked'[n]) = expected'[n]
      BY DEF FileSaysWhatWasAsked
    <2>1. n \notin strayed
      BY <1>1
    <2>2. CASE n = m
      <3>1. Addressed(d, merge, c)
        BY <1>1, <2>2
      <3>2. Meaning(merge.nodes) = Overlay(Meaning(d), Meaning(c))
        BY <1>2, <3>1, MergeMeans
      <3>3. Unmarked(Meaning(d), marked[m]) = expected[m]
        BY <2>1, <2>2 DEF FilesInv, FileSaysWhatWasAsked
      <3>4. /\ file'[m] = merge.nodes
            /\ expected'[m] = Overlay(Unmarked(expected[m], ToDelete(c)), Asked(c))
            /\ marked'[m] = (marked[m] \ {f.subject : f \in Asked(c)}) \union ToDelete(c)
        BY <1>1, <1>3
      <3> QED
        BY <2>2, <3>2, <3>3, <3>4, AskedAndUnmarked
    <2>3. CASE n # m
      BY <1>1, <1>3, <2>1, <2>3 DEF FilesInv, FileSaysWhatWasAsked
    <2> QED
      BY <2>2, <2>3
  <1> QED
    BY <1>5, <1>6, <1>7 DEF FilesInv

LEMMA FilesNext == FilesInv /\ [Next]_vars => FilesInv'
  <1> SUFFICES ASSUME FilesInv, [Next]_vars PROVE FilesInv'
    OBVIOUS
  <1> USE DEF FilesInv, FilesOK, LastMerged, FileSaysWhatWasAsked
  <1>1. CASE UNCHANGED files
    BY <1>1 DEF files
  <1>2. ASSUME NEW m \in Configured, NEW c \in Contents, ProcessConfigurationStep(m, c)
        PROVE  FilesInv'
    <2>1. IsChanges(Substitute(c, Resolve(m)))
      BY ConfigurationAssumption, SubstitutedChanges
    <2> QED
      BY <1>2, <2>1 DEF ProcessConfigurationStep
  <1>3. ASSUME NEW m \in Configured, Run(m) PROVE FilesInv'
    BY <1>3, RunKeepsFiles
  <1>4. ASSUME NEW m \in Configured, RunFails(m) PROVE FilesInv'
    BY <1>4 DEF RunFails
  <1> QED
    BY <1>1, <1>2, <1>3, <1>4 DEF Next, vars

\* The file of a machine says what it said at first, except where a configuration step has
\* asked for something else since, as long as each change has been merged into the only element
\* of its parent with its name and key: for any documents, changes and values.  Attributes that
\* are marked for deletion and not given a value again are left out.
THEOREM ConfigurationFileSaysWhatWasAsked == Spec => []FileSaysWhatWasAsked
  BY FilesInitially, FilesNext, PTL DEF Spec, FilesInv

\* Running the same configuration step twice is running it once, whatever is in the file and in
\* the step, unless it appends an element for want of a key or changes an element in two places.
THEOREM ConfigurationRedeployChangesNothing == Spec => []RedeployChangesNothing
  <1>1. FilesInv => RedeployChangesNothing
    BY MergedAgain DEF FilesInv, LastMerged, IsMerged, RedeployChangesNothing
  <1> QED
    BY <1>1, FilesInitially, FilesNext, PTL DEF Spec

\* What the next step of a configuration file has to find: it can be loaded.
FilesAreDocuments == \A m \in Configured : IsDocument(file[m]) /\ HasOneRoot(file[m])

\* However steps are merged, addressed or not, the file stays a document with one root, which
\* the next deployment can load (ConfigOperation.Run, AppendNewNode).
THEOREM ConfigurationFilesAreDocuments == Spec => []FilesAreDocuments
  <1>1. FilesInv => FilesAreDocuments
    BY DEF FilesInv, FilesOK, FilesAreDocuments
  <1> QED
    BY <1>1, FilesInitially, FilesNext, PTL DEF Spec

\* What a step leaves of a file: each element is where it was, with its name and its parent, and
\* has the attributes that it had.
KeepsElements(before, after) ==
  \A i \in DOMAIN before :
    /\ i \in DOMAIN after
    /\ after[i].name = before[i].name /\ after[i].parent = before[i].parent
    /\ DOMAIN before[i].attributes \subseteq DOMAIN after[i].attributes

\* No step takes anything out of a configuration file (XmlMerger.MergeNode only adds and sets).
NothingIsLost == [][\A m \in Configured : KeepsElements(file[m], file'[m])]_vars

LEMMA MergeKeepsElements ==
  ASSUME NEW d, IsDocument(d), NEW c, IsChanges(c)
  PROVE  KeepsElements(d, ApplyChanges(d, c).nodes)
  <1> DEFINE T == MergeNodes(d, c)
  <1>1. 0 \in 0 .. Len(c) /\ Len(c) \in 0 .. Len(c)
    BY TreeIsSequence DEF IsChanges
  <1>2. IsTrace(T, d, c)
    BY MergeNodesTrace
  <1> HIDE DEF T
  <1>3. Later(T[0], T[Len(c)], 0, Len(c)) /\ T[0].nodes = d
    BY <1>1, <1>2, TraceLater DEF IsTrace, Unmerged
  <1>4. KeepsElements(d, T[Len(c)].nodes)
    BY <1>3 DEF Later, KeepsElements
  <1> QED
    BY <1>4 DEF ApplyChanges, T

\* However steps are merged, no element leaves a file, is renamed or gets another parent, and no
\* attribute leaves an element: a file only grows and takes other values.  An attribute that a
\* step marks for deletion should leave; it stays, as it is created again (MergeNodeAttributes).
THEOREM ConfigurationNothingIsLost == Spec => NothingIsLost
  <1>1. FilesInv /\ [Next]_vars => \A m \in Configured : KeepsElements(file[m], file'[m])
    <2> SUFFICES ASSUME FilesInv, [Next]_vars, NEW m \in Configured
                 PROVE  KeepsElements(file[m], file'[m])
      OBVIOUS
    <2>1. CASE file' = file
      BY <2>1 DEF KeepsElements
    <2>2. ASSUME NEW n \in Configured, Run(n) PROVE KeepsElements(file[m], file'[m])
      <3>1. PICK c \in queued[n] : file' = [file EXCEPT ![n] = ApplyChanges(file[n], c).nodes]
        BY <2>2 DEF Run
      <3>2. DOMAIN file = Configured /\ IsDocument(file[n]) /\ IsChanges(c)
        BY DEF FilesInv, FilesOK
      <3>3. CASE m = n
        <4>1. file'[m] = ApplyChanges(file[n], c).nodes
          BY <3>1, <3>2, <3>3
        <4> QED
          BY <3>2, <3>3, <4>1, MergeKeepsElements
      <3>4. CASE m # n
        <4>1. file'[m] = file[m]
          BY <3>1, <3>2, <3>4
        <4> QED
          BY <4>1 DEF KeepsElements
      <3> QED
        BY <3>3, <3>4
    <2> QED
      BY <2>1, <2>2 DEF Next, vars, files, ProcessConfigurationStep, RunFails
  <1> QED
    BY <1>1, FilesInitially, FilesNext, PTL DEF Spec, NothingIsLost
=============================================================================
