------------------------ MODULE MCConfiguredRouter ------------------------
(* One key entry and one policy with two contents each, which the router   *)
(* takes like the manager.  With a history of three snapshots and four     *)
(* versions the history drops snapshots more than once, versions are       *)
(* restored that were themselves restored, and a policy comes apart and is *)
(* brought together again in every way there is.                           *)
EXTENDS ConfiguredRouter
=============================================================================
