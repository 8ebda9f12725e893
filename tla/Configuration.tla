---------------------------- MODULE Configuration ----------------------------
(***************************************************************************)
(* The configuration files of machines, and the configuration steps with a *)
(* variable in them that deployments merge into the files while users save *)
(* values of the variable (WCFSatelliteDeploymentAgent, VariableProcessor, *)
(* ConfigOperation, over Variables and XmlMerge).                          *)
(***************************************************************************)
EXTENDS XmlMerge, Variables

CONSTANTS
  Configured,       \* the machines that configuration steps run on
  Documents,        \* files the machines may have from the start
  Contents,         \* the changes of configuration steps
  MaxDeployments    \* bound on the configuration steps that run

ASSUME ConfigurationAssumption ==
  /\ Configured \subseteq Machines
  /\ \A document \in Documents : IsDocument(document) /\ HasOneRoot(document)
  /\ \A c \in Contents : IsChanges(c)
  /\ MaxDeployments \in Nat

VARIABLES
  file,         \* file[m]: the configuration file of m
  queued,       \* queued[m]: the changes of the step queued at the satellite of m
  deployments,  \* configuration steps that have run
  expected,     \* history: expected[m] is what the file of m has been asked to say
  marked,       \* history: marked[m] is what was marked for deletion and not asked for since
  last,         \* history: last[m] is the last changes made to the file of m, if distinct
  strayed       \* history: machines whose file has had changes merged that are not addressed

files == <<file, queued, deployments, expected, marked, last, strayed>>
vars == <<variables, files>>

Init ==
  /\ VariablesInit
  /\ file \in [Configured -> Documents \union {NoDocument}]
  /\ queued = [m \in Configured |-> {}]
  /\ deployments = 0
  /\ expected = [m \in Configured |-> Meaning(file[m])]
  /\ marked = [m \in Configured |-> {}]
  /\ last = [m \in Configured |-> {}]
  /\ strayed = {}

-----------------------------------------------------------------------------
(* The agent of a deployment resolves the variable and queues the step.    *)

Substitute(c, value) ==
  [k \in DOMAIN c |-> [c[k] EXCEPT !.attributes =
     [a \in DOMAIN @ |-> IF @[a] = Variable THEN value ELSE @[a]]]]

ProcessConfigurationStep(m, c) ==
  /\ queued[m] = {}
  /\ deployments < MaxDeployments
  /\ queued' = [queued EXCEPT ![m] = {Substitute(c, Resolve(m))}]
  /\ deployments' = deployments + 1
  /\ UNCHANGED <<variables, file, expected, marked, last, strayed>>

-----------------------------------------------------------------------------
(* ConfigOperation.Run on the satellite.                                   *)

Unmarked(facts, subjects) == {f \in facts : f.subject \notin subjects}

Run(m) ==
  \E c \in queued[m] :
    LET merge == ApplyChanges(file[m], c) IN
    /\ CanApply(file[m], c)
    /\ file' = [file EXCEPT ![m] = merge.nodes]
    /\ queued' = [queued EXCEPT ![m] = {}]
    /\ expected' = [expected EXCEPT ![m] = Overlay(Unmarked(@, ToDelete(c)), Asked(c))]
    /\ marked' = [marked EXCEPT ![m] = (@ \ {f.subject : f \in Asked(c)}) \union ToDelete(c)]
    /\ last' = [last EXCEPT ![m] = IF Distinct(merge, c) THEN {c} ELSE {}]
    /\ strayed' = IF Addressed(file[m], merge, c) THEN strayed ELSE strayed \union {m}
    /\ UNCHANGED <<variables, deployments>>

\* A document cannot get a second root; nor is the file saved when something else fails.
RunFails(m) ==
  /\ queued[m] # {}
  /\ queued' = [queued EXCEPT ![m] = {}]
  /\ UNCHANGED <<variables, file, deployments, expected, marked, last, strayed>>

-----------------------------------------------------------------------------
Next ==
  \/ VariablesNext /\ UNCHANGED files
  \/ \E m \in Configured :
       \/ \E c \in Contents : ProcessConfigurationStep(m, c)
       \/ Run(m)
       \/ RunFails(m)

Spec == Init /\ [][Next]_vars

-----------------------------------------------------------------------------
(* Properties.                                                             *)

\* As long as each change is merged into the only element of its parent with its name and key,
\* the file says what it said at first, except where a step has asked for something else since:
\* the last one that did; nothing is lost, doubled or put anywhere else.  Nothing is said of an
\* attribute marked for deletion until a step gives it a value again: whether the marker takes
\* it out of the file is left open.
FileSaysWhatWasAsked ==
  \A m \in Configured \ strayed : Unmarked(Meaning(file[m]), marked[m]) = expected[m]

\* Publications run the same step again and again: doing it twice is doing it once, unless it
\* appends to a collection for want of a key, or changes an element in two places.
RedeployChangesNothing ==
  \A m \in Configured : \A c \in last[m] : ApplyChanges(file[m], c).nodes = file[m]
=============================================================================
