------------------------------- MODULE MCRuns -------------------------------
(* Instances of RunLifecycle for TLC; the bounds are in the .cfg files. *)
EXTENDS RunLifecycle
=============================================================================
