----------------------- MODULE MCConnectionLifecycle -----------------------
(***************************************************************************)
(* Instances of ConnectionLifecycle.  It has no unbounded state: the       *)
(* configurations only choose the threading and the discovery attempts.    *)
(***************************************************************************)
EXTENDS ConnectionLifecycle
=============================================================================
