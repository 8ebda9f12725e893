---------------------------- MODULE MCBundleVersions ----------------------------
(***************************************************************************)
(* Two users, a site with two versions to choose from, and its tests.      *)
(***************************************************************************)
EXTENDS BundleVersions, TLC

CONSTANTS anna, boris, site1, site2, tests, site, siteTests

MCProjectOf == [p \in ProjectVersions |-> IF p = tests THEN siteTests ELSE site]

\* The two versions of the site differ in nothing either.
BundleSymmetry == Permutations(Users) \union Permutations({site1, site2})
=============================================================================
