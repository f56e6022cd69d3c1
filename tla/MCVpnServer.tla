----------------------------- MODULE MCVpnServer -------------------------------
(* An instance of VpnServer for TLC.                                       *)
EXTENDS VpnServer

CONSTANTS l1, l2, c1, c2

TwoListeners == {l1, l2}
TwoConnectors == {c1, c2}
=============================================================================
