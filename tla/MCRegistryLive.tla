--------------------------- MODULE MCRegistryLive ---------------------------
(* Both flows of RegistryFlow.  The ladder flow has two versions and two   *)
(* requests; the legacy flow has three of each, so that two deploys race   *)
(* for the pointer that a third version holds.                             *)
EXTENDS MCRegistry, RegistryFlow
=============================================================================
