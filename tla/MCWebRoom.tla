------------------------------ MODULE MCWebRoom ------------------------------
(* The instance of WebRoom for TLC.                                        *)
EXTENDS WebRoom
=============================================================================
