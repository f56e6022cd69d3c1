------------------------------ MODULE MCFastLink -------------------------------
(* An instance of FastLink for TLC.                                        *)
EXTENDS FastLink

CONSTANTS d1, d2, d3

ThreeDownloads == {d1, d2, d3}
=============================================================================
