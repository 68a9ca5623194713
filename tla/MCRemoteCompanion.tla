-------------------------- MODULE MCRemoteCompanion --------------------------
(* Model-checking instance of RemoteCompanion. *)
EXTENDS RemoteCompanion
=============================================================================
