------------------------------ MODULE CarrierToken -----------------------------
(***************************************************************************)
(* How a tunnel offers its carrier pool: the token in PendingCarriers, the *)
(* TokenGuard that removes it, the fallible send between them, and the     *)
(* extra connections that present the token.  Sources: pool.rs, and the    *)
(* setup code of server.rs and ssh_jump.rs, which builds the guard before  *)
(* the send (`GuardFirst'), and of vhost.rs and secret.rs, which builds it *)
(* after the send has returned.                                            *)
(***************************************************************************)
EXTENDS Naturals

CONSTANTS
    Tunnels,    \* tunnels that ask for carriers, each served once
    Joiners,    \* extra connections
    GuardFirst  \* the public and SSH jump tunnels among them; the others are
                \* vhost and secret tunnels

ASSUME CarrierTokenAssumption == GuardFirst \subseteq Tunnels

VARIABLES
    step,     \* per tunnel, how far its setup has come
    tokens,   \* PendingCarriers, as the tunnels whose token is in it
    guarded,  \* tunnels that hold a TokenGuard
    told,     \* tunnels whose client has read the token
    join,     \* per joiner, its serve_carrier task
    token,    \* per joiner, the token it presents
    queued    \* joiners whose carrier is in the channel of their tunnel

tokenVars == <<step, tokens, guarded, told, join, token, queued>>
joinVars == <<join, token, queued>>

TokenInit ==
    /\ step = [t \in Tunnels |-> "new"]
    /\ tokens = {} /\ guarded = {} /\ told = {} /\ queued = {}
    /\ join = [j \in Joiners |-> "none"] /\ token = [j \in Joiners |-> 0]

(* A setup whose send failed, and a tunnel that had served.                *)
Over == {"failed", "ended"}

(* pending_carriers.insert, then (GuardFirst) TokenGuard::new.  Nothing is *)
(* awaited between them.                                                   *)
OfferToken(t) ==
    /\ step[t] = "new"
    /\ step' = [step EXCEPT ![t] = "offering"]
    /\ tokens' = tokens \cup {t}
    /\ guarded' = IF t \in GuardFirst THEN guarded \cup {t} ELSE guarded
    /\ UNCHANGED <<told, joinVars>>

(* control.send(CarrierToken) has put the token on the wire ...            *)
TokenArrives(t) ==
    /\ step[t] = "offering"
    /\ step' = [step EXCEPT ![t] = "sent"]
    /\ told' = told \cup {t}
    /\ UNCHANGED <<tokens, guarded, joinVars>>

(* ... and returns: the tunnel serves, guarded in either order.            *)
SendReturns(t) ==
    /\ step[t] = "sent"
    /\ step' = [step EXCEPT ![t] = "serving"]
    /\ guarded' = guarded \cup {t}
    /\ UNCHANGED <<tokens, told, joinVars>>

DropTunnelKeepingToken(t, how) ==
    /\ step' = [step EXCEPT ![t] = how]
    /\ tokens' = IF step[t] = "serving" THEN tokens \ {t} ELSE tokens
    /\ guarded' = guarded \ {t}
    /\ queued' = {j \in queued : token[j] # t}
    /\ UNCHANGED <<told, join, token>>

(* A tunnel that ends drops its guard, if it has one, and its receiver.    *)
DropTunnel(t, how) ==
    /\ step' = [step EXCEPT ![t] = how]
    /\ tokens' = IF t \in guarded THEN tokens \ {t} ELSE tokens
    /\ guarded' = guarded \ {t}
    /\ queued' = {j \in queued : token[j] # t}
    /\ UNCHANGED <<told, join, token>>

(* The send fails or the connection is lost while it waits: `?'.           *)
SendFails(t) == step[t] \in {"offering", "sent"} /\ DropTunnel(t, "failed")

(* The tunnel loop returns.                                                *)
End(t) == step[t] = "serving" /\ DropTunnel(t, "ended")

(* An extra connection presents a token it was told.                       *)
JoinCarrier(j, t) ==
    /\ join[j] = "none" /\ t \in told
    /\ join' = [join EXCEPT ![j] = "sent"]
    /\ token' = [token EXCEPT ![j] = t]
    /\ UNCHANGED <<step, tokens, guarded, told, queued>>

(* serve_carrier: the token is looked up and the sender cloned ...         *)
LookUpToken(j) ==
    /\ join[j] = "sent"
    /\ join' = [join EXCEPT ![j] =
                   IF token[j] \in tokens THEN "found" ELSE "refused"]
    /\ UNCHANGED <<step, tokens, guarded, told, token, queued>>

(* ... and the carrier sent, which fails once the receiver is gone.        *)
HandOver(j) ==
    /\ join[j] = "found"
    /\ IF step[token[j]] \in Over
       THEN join' = [join EXCEPT ![j] = "refused"] /\ UNCHANGED queued
       ELSE /\ join' = [join EXCEPT ![j] = "holding"]
            /\ queued' = queued \cup {j}
    /\ UNCHANGED <<step, tokens, guarded, told, token>>

(* The connection ends.                                                    *)
Leave(j) ==
    /\ join[j] \in {"holding", "refused"}
    /\ join' = [join EXCEPT ![j] = "none"]
    /\ token' = [token EXCEPT ![j] = 0]
    /\ queued' = queued \ {j}
    /\ UNCHANGED <<step, tokens, guarded, told>>

TokenNext ==
    \/ \E t \in Tunnels : \/ OfferToken(t) \/ TokenArrives(t) \/ SendReturns(t)
                          \/ SendFails(t) \/ End(t)
    \/ \E j \in Joiners : \/ LookUpToken(j) \/ HandOver(j) \/ Leave(j)
                          \/ \E t \in Tunnels : JoinCarrier(j, t)

TokenSpec == TokenInit /\ [][TokenNext]_tokenVars

-----------------------------------------------------------------------------
(* pool.rs: `Removes a pending carrier token from the registry when the    *)
(* owning tunnel ends, so the token map does not leak entries across       *)
(* tunnel lifetimes'; its tests: the guard is `built BEFORE the fallible   *)
(* CarrierToken send, so that a send failure ... removes the orphaned      *)
(* token'.  It does not hold of vhost.rs and secret.rs.                    *)
NoOrphanToken == \A t \in tokens : step[t] \notin Over

(* What does hold: only a vhost or secret setup whose send failed leaves a *)
(* token behind.  That token admits nobody, however its lookup falls:      *)
(* every carrier in a channel has a task that holds its connection and a   *)
(* tunnel that has not ended.                                              *)
OrphanOnlyByFailedSend ==
    /\ \A t \in tokens : step[t] \in Over =>
           step[t] = "failed" /\ t \notin GuardFirst
    /\ \A j \in queued : join[j] = "holding" /\ step[token[j]] \notin Over
=============================================================================
