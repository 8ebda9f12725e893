---------------------------- MODULE MCDeployment ----------------------------
(***************************************************************************)
(* Two bundle versions on one environment of two machines.  The first runs *)
(* a site step, tests and a configuration step on the web server and a     *)
(* script on the database server, the second only configures the web       *)
(* server; there is one package of each.                                   *)
(***************************************************************************)
EXTENDS Deployment

CONSTANTS webServer, databaseServer, site, tests, config, script

MCMachinesOf == [environment \in Environments |-> {webServer, databaseServer}]

MCBundleOf == [package \in Packages |-> package]

MCMachineSteps ==
  [bundleVersion \in BundleVersions |->
     [m \in Machines |->
        CASE bundleVersion = 1 /\ m = webServer -> <<site, tests, config>>
          [] bundleVersion = 1 /\ m = databaseServer -> <<script>>
          [] bundleVersion = 2 /\ m = webServer -> <<config>>
          [] OTHER -> << >>]]
=============================================================================
