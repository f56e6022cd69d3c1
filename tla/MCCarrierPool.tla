----------------------------- MODULE MCCarrierPool -----------------------------
(* Instances of CarrierPool for TLC.                                       *)
EXTENDS CarrierPool, TLC

CONSTANTS c1, c2, t1, t2

TwoConns == {c1, c2}
OneTicket == {t1}
TwoTickets == {t1, t2}
Symm == Permutations(TwoConns) \cup Permutations(TwoTickets)
=============================================================================
