------------------------------- MODULE MCShared --------------------------------
(* Records of the server that many tasks change: the bulk counter of a     *)
(* carrier (BulkTicket), the tokens for extra carriers (CarrierToken), the *)
(* keys of direct pools (DirectPath) and the names of secret tunnels       *)
(* (NameRegistry).  They have no state in common, so that to interleave    *)
(* them shows nothing: in a behaviour one of them moves and the others     *)
(* stay where they began.                                                  *)
EXTENDS BulkTicket, CarrierToken, DirectPath, NameRegistry, TLC

CONSTANTS t1, t2, up, down, u1, u2, j1, j2, q1, q2, q3, n1, n2, s1, s2, s3

TwoTickets == {t1, t2}
TwoHalves == {up, down}
TwoTunnels == {u1, u2}
OneGuardFirst == {u1}
TwoJoiners == {j1, j2}
ThreeConns == {q1, q2, q3}
TwoNative == {n1, n2}
ThreeSsh == {s1, s2, s3}
(* Two forwards share an identity.                                         *)
TwoIdentities == [s \in ThreeSsh |-> IF s = s3 THEN "bob" ELSE "alice"]
Symm == Permutations(ThreeConns)

VARIABLE part

SharedInit ==
    /\ part \in {"ticket", "token", "direct", "names"}
    /\ TicketInit /\ TokenInit /\ Init /\ NamesInit

SharedNext ==
    /\ UNCHANGED part
    /\ IF part = "ticket" THEN TicketNext ELSE UNCHANGED bulkVars
    /\ IF part = "token" THEN TokenNext ELSE UNCHANGED tokenVars
    /\ IF part = "direct" THEN Next ELSE UNCHANGED vars
    /\ IF part = "names" THEN NamesNext ELSE UNCHANGED namesVars

SharedSpec ==
    SharedInit /\ [][SharedNext]_<<part, bulkVars, tokenVars, vars, namesVars>>
=============================================================================
