---------------------------- MODULE MCSatellite ----------------------------
(***************************************************************************)
(* One file of a machine that several steps write one over the other: the  *)
(* order in which they are undone matters.                                 *)
(***************************************************************************)
EXTENDS Satellite

CONSTANT webConfig

\* A site or a copy backs the file up only if it found it, a configuration step that
\* created the file deletes it again, the hosts file has to be there, and a script has no
\* Rollback at all.
MCSteps ==
  [kind : {"DeployWebSite", "CopyFilesAppend", "Configuration", "UpdateHostsFile", "RunSQLScript"},
   target : {webConfig}]
=============================================================================
