---------------------------- MODULE MCDirectClient -----------------------------
(* The instance of DirectClient for TLC: its constants are in the .cfg.    *)
EXTENDS DirectClient
=============================================================================
