------------------------------ MODULE Variables ------------------------------
(***************************************************************************)
(* A global variable: its values for environments and single machines as   *)
(* users save them (VariablesController), and the value a deployment to a  *)
(* machine uses (VariableProcessorFactory).                                *)
(***************************************************************************)
EXTENDS Naturals, Sequences

Nowhere == "none"     \* no value, no request

CONSTANTS
  Users,
  Environments,
  Machines,
  EnvironmentOf,    \* EnvironmentOf[m]: the environment of m, which has exactly one
  Everywhere,       \* the MachineId null of a value for all machines of an environment
  Values,           \* what users save, strings
  Variable,         \* the text {var:...} of the variable
  MaxRows,          \* bound on the rows DataFieldValue
  MaxSaves          \* bound on the requests that save

ASSUME VariablesAssumption ==
  /\ EnvironmentOf \in [Machines -> Environments]
  /\ Everywhere \notin Machines
  /\ Values \intersect {Variable, Nowhere} = {}
  /\ {MaxRows, MaxSaves} \subseteq Nat

VARIABLES
  rows,         \* the table DataFieldValue of the variable, in the order of its ids
  request,      \* request[u]: the value u is about to save, and the row it goes to
  saves,        \* requests so far
  lastSaved,    \* history: lastSaved[s] is the value saved last for scope s
  overlapped    \* history: scopes that two requests have worked on at once

variables == <<rows, request, saves, lastSaved, overlapped>>

\* A value is for an environment or for one machine of it.
Scopes ==
  [environment : Environments, machine : {Everywhere}]
  \union {[environment |-> EnvironmentOf[m], machine |-> m] : m \in Machines}

NoRequest == [value |-> Nowhere]

VariablesInit ==
  /\ rows = << >>
  /\ request = [u \in Users |-> NoRequest]
  /\ saves = 0
  /\ lastSaved = [s \in Scopes |-> Nowhere]
  /\ overlapped = {}

-----------------------------------------------------------------------------
(* VariablesController.Save: it looks for the row of the scope ...         *)

RowsOf(s) == {i \in DOMAIN rows : rows[i].scope = s}

FirstRow(ids) == CHOOSE i \in ids : \A j \in ids : i <= j

ReadVariable(u, s, value) ==
  /\ saves < MaxSaves
  /\ request[u] = NoRequest
  /\ saves' = saves + 1
  /\ request' = [request EXCEPT ![u] =
       [value |-> value, scope |-> s, row |-> IF RowsOf(s) = {} THEN 0 ELSE FirstRow(RowsOf(s))]]
  /\ overlapped' = IF \E w \in Users : request[w] # NoRequest /\ request[w].scope = s
                   THEN overlapped \union {s} ELSE overlapped
  /\ UNCHANGED <<rows, lastSaved>>

\* ... and saves the value there, or in a new row.
SaveVariable(u) ==
  LET r == request[u] IN
  /\ r # NoRequest
  /\ IF r.row = 0
     THEN /\ Len(rows) < MaxRows
          /\ rows' = Append(rows, [scope |-> r.scope, value |-> r.value])
     ELSE rows' = [rows EXCEPT ![r.row].value = r.value]
  /\ request' = [request EXCEPT ![u] = NoRequest]
  /\ lastSaved' = [lastSaved EXCEPT ![r.scope] = r.value]
  /\ UNCHANGED <<saves, overlapped>>

VariablesNext ==
  \E u \in Users :
    \/ \E s \in Scopes, value \in Values : ReadVariable(u, s, value)
    \/ SaveVariable(u)

VariablesSpec == VariablesInit /\ [][VariablesNext]_variables

-----------------------------------------------------------------------------
(* The value a deployment to m uses.                                       *)

InEnvironment(m) == {i \in DOMAIN rows : rows[i].scope.environment = EnvironmentOf[m]}

\* Mistaken variant: the first value of the environment, whether the machine has its own or not.
ResolveForEnvironment(m) ==
  IF InEnvironment(m) # {} THEN rows[FirstRow(InEnvironment(m))].value ELSE Variable

\* The value of the machine, else the first one of its environment, else the text remains.
Resolve(m) ==
  LET own == RowsOf([environment |-> EnvironmentOf[m], machine |-> m]) IN
  CASE own # {} -> rows[FirstRow(own)].value
    [] own = {} /\ InEnvironment(m) # {} -> rows[FirstRow(InEnvironment(m))].value
    [] OTHER -> Variable

-----------------------------------------------------------------------------
(* Properties.                                                             *)

\* A deployment uses the value saved last for its machine; without one, the value saved last
\* for its environment, if that was there before any of its machines had an own one; unless
\* two requests have saved a value for the same place at once.
SavedValueIsUsed ==
  \A m \in Machines :
    LET own == [environment |-> EnvironmentOf[m], machine |-> m]
        all == [own EXCEPT !.machine = Everywhere]
    IN /\ lastSaved[own] # Nowhere /\ own \notin overlapped => Resolve(m) = lastSaved[own]
       /\ /\ lastSaved[own] = Nowhere
          /\ lastSaved[all] # Nowhere
          /\ all \notin overlapped
          /\ rows[FirstRow(InEnvironment(m))].scope = all
          => Resolve(m) = lastSaved[all]

\* The page of the variable shows under an environment the values with no machine, and under
\* a machine its own: what a deployment to the machine uses is one of them.
PageShowsWhatIsUsed ==
  \A m \in Machines :
    \/ Resolve(m) = Variable
    \/ \E i \in InEnvironment(m) :
         rows[i].scope.machine \in {m, Everywhere} /\ rows[i].value = Resolve(m)
=============================================================================
