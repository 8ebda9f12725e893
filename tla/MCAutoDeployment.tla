-------------------------- MODULE MCAutoDeployment --------------------------
(***************************************************************************)
(* One bundle version that is deployed to the test environment by itself,  *)
(* and a live environment that only users publish to.                      *)
(***************************************************************************)
EXTENDS AutoDeployment

MCAutoDeployTo == [b \in Bundles |-> "test"]
=============================================================================
