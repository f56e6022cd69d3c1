----------------------------- MODULE MCWebTransfer -----------------------------
(* The instance of WebTransfer for TLC: its constants are plain values.    *)
EXTENDS WebTransfer
=============================================================================
