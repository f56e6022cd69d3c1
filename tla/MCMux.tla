--------------------------------- MODULE MCMux ---------------------------------
(* The instance of Mux for TLC; the constants are in MCMux.cfg.               *)
EXTENDS Mux
================================================================================
