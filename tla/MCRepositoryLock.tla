-------------------------- MODULE MCRepositoryLock --------------------------
(* The instance of RepositoryLock for TLC.  Liveness is checked in the same  *)
(* run, so there is no symmetry among the callers.                           *)
EXTENDS RepositoryLock
=============================================================================
