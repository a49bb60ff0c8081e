----------------------------- MODULE MCSceneBuild -----------------------------
(* Instances of SceneBuild for TLC.                                           *)
EXTENDS SceneBuild
===============================================================================
