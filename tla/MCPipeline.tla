----------------------------- MODULE MCPipeline -----------------------------
(* Instances of Pipeline for TLC. *)
EXTENDS Pipeline

CONSTANTS code,                     \* the source
          web, tests, zip,          \* projects
          first, second             \* bundles

MCKindOf == [p \in Projects |-> CASE p = tests -> "test"
                                  [] p = zip   -> "zip"
                                  [] OTHER     -> "built"]

\* Everything from one source, the site in two bundles.
OneSource == [p \in Projects |-> code]
SharedSite == [b \in Bundles |-> IF b = first THEN Projects \ {zip} ELSE Projects \ {tests}]
=============================================================================
