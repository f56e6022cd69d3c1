------------------------------ MODULE DirectClient -----------------------------
(***************************************************************************)
(* The client's side of the QUIC direct path (src/src/client.rs): the arms *)
(* of the listen loop that take offers, renewals and `up' signals, and the *)
(* tasks of spawn_direct, which are alike and therefore counted.  Unlike   *)
(* the TCP carrier pool nothing ticks here: a carrier that is missing is   *)
(* replaced only if the signal its task sent is never lost.                *)
(*                                                                         *)
(* The runtime is multi-threaded (main.rs, #[tokio::main]): a task may     *)
(* step in the middle of an arm, between the reading of the counter and    *)
(* what the arm does with it.                                              *)
(***************************************************************************)
EXTENDS Integers

CONSTANTS
    Target,      \* direct_udp_target
    MaxSignals   \* bound on the signals of one kind that wait or travel

ASSUME DirectClientAssumption ==
    Target \in Nat \ {0} /\ MaxSignals \in Nat \ {0}

VARIABLES
    live,         \* direct_live
    connecting,   \* tasks before the end of vhost_connect
    established,  \* tasks that accept streams
    releasing,    \* tasks between the two steps of `release'
    renewq,       \* signals in direct_renew_rx
    upq,          \* signals in direct_up_rx
    sleep,        \* direct_renew_sleep is set
    renewals,     \* renewal requests on their way to the server
    offers,       \* offers on their way to the client
    loop,         \* the arm the loop is in the middle of
    need,         \* carriers the offer arm has still to spawn
    seen,         \* direct_live as the `up' arm read it
    drained       \* history: since the last offer, a stand-down drained the
                  \* signal of a carrier lost after the counter was read

clientVars == <<live, connecting, established, releasing, renewq, upq, sleep,
          renewals, offers, loop, need, seen, drained>>
standing == <<seen, drained>>
tasks == <<connecting, established, releasing>>
wire == <<renewals, offers>>

ClientTypeOK ==
    /\ live \in Nat /\ connecting \in Nat /\ established \in Nat
    /\ releasing \in Nat /\ renewq \in Nat /\ upq \in Nat
    /\ sleep \in BOOLEAN
    /\ renewals \in Nat /\ offers \in Nat
    /\ loop \in {"select", "spawn", "standdown"}
    /\ need \in Nat /\ seen \in Nat /\ drained \in BOOLEAN

(* The server has sent the first offer.                                    *)
ClientInit ==
    /\ live = 0 /\ connecting = 0 /\ established = 0 /\ releasing = 0
    /\ renewq = 0 /\ upq = 0 /\ sleep = FALSE
    /\ renewals = 0 /\ offers = 1 /\ loop = "select" /\ need = 0
    /\ seen = 0 /\ drained = FALSE

-----------------------------------------------------------------------------
(* The loop.                                                               *)

ReceiveOfferInFull ==
    /\ loop = "select" /\ offers > 0
    /\ offers' = offers - 1
    /\ need' = Target
    /\ loop' = "spawn"
    /\ drained' = FALSE
    /\ UNCHANGED <<live, tasks, renewq, upq, sleep, renewals, seen>>

(* An offer whose address resolves: the shortfall is computed.             *)
ReceiveOffer ==
    /\ loop = "select" /\ offers > 0
    /\ offers' = offers - 1
    /\ need' = IF live < Target THEN Target - live ELSE 0
    /\ loop' = IF need' = 0 THEN "select" ELSE "spawn"
    /\ drained' = FALSE
    /\ UNCHANGED <<live, tasks, renewq, upq, sleep, renewals, seen>>

(* One whose address does not.                                             *)
ResolveFails ==
    /\ loop = "select" /\ offers > 0 /\ releasing + renewq < MaxSignals
    /\ offers' = offers - 1
    /\ renewq' = renewq + 1
    /\ UNCHANGED <<live, tasks, upq, sleep, renewals, loop, need, standing>>

(* The slot is reserved before the task is spawned.                        *)
spawn_direct ==
    /\ loop = "spawn"
    /\ live' = live + 1 /\ connecting' = connecting + 1
    /\ need' = need - 1
    /\ loop' = IF need' = 0 THEN "select" ELSE "spawn"
    /\ UNCHANGED <<established, releasing, renewq, upq, sleep, wire, standing>>

(* A renewal signal starts the backoff sleep, unless one is running.       *)
ReceiveRenew ==
    /\ loop = "select" /\ renewq > 0
    /\ renewq' = renewq - 1
    /\ sleep' = TRUE
    /\ UNCHANGED <<live, tasks, upq, wire, loop, need, standing>>

SleepOverSilently ==
    /\ loop = "select" /\ sleep /\ renewals + offers < MaxSignals
    /\ sleep' = FALSE
    /\ UNCHANGED <<live, tasks, renewq, upq, wire, loop, need, standing>>

(* The sleep is over: the loop asks for an offer.                          *)
SleepOver ==
    /\ loop = "select" /\ sleep /\ renewals + offers < MaxSignals
    /\ sleep' = FALSE
    /\ renewals' = renewals + 1
    /\ UNCHANGED <<live, tasks, renewq, upq, offers, loop, need, standing>>

ReceiveUpUnconditional ==
    /\ loop = "select" /\ upq > 0
    /\ upq' = upq - 1
    /\ seen' = live
    /\ loop' = "standdown"
    /\ UNCHANGED <<live, tasks, renewq, sleep, wire, need, drained>>

(* A carrier is up: with the pool at its target the renewal stands down.   *)
ReceiveUp ==
    /\ loop = "select" /\ upq > 0
    /\ upq' = upq - 1
    /\ seen' = live
    /\ loop' = IF seen' >= Target THEN "standdown" ELSE "select"
    /\ UNCHANGED <<live, tasks, renewq, sleep, wire, need, drained>>

(* The pool was full when the arm read the counter and is not now, and the *)
(* signal that says so is the last one there is.                           *)
DrainsLateSignal ==
    seen >= Target /\ live < Target /\ renewq > 0 /\ releasing = 0

(* ... which cancels the sleep and drains the channel.                     *)
StandDown ==
    /\ loop = "standdown"
    /\ sleep' = FALSE /\ renewq' = 0
    /\ drained' = (drained \/ DrainsLateSignal)
    /\ loop' = "select"
    /\ UNCHANGED <<live, tasks, upq, wire, need, seen>>

-----------------------------------------------------------------------------
(* The tasks of spawn_direct.                                              *)

(* vhost_connect succeeds; up_tx.send.                                     *)
Connects ==
    /\ connecting > 0 /\ upq < MaxSignals
    /\ connecting' = connecting - 1
    /\ established' = established + 1
    /\ upq' = upq + 1
    /\ UNCHANGED <<live, releasing, renewq, sleep, wire, loop, need, standing>>

(* The bind or the connect fails: `release', live.fetch_sub.               *)
ConnectFails ==
    /\ connecting > 0 /\ releasing + renewq < MaxSignals
    /\ connecting' = connecting - 1
    /\ releasing' = releasing + 1
    /\ live' = live - 1
    /\ UNCHANGED <<established, renewq, upq, sleep, wire, loop, need, standing>>

(* accept_stream fails: the same.                                          *)
CarrierCloses ==
    /\ established > 0 /\ releasing + renewq < MaxSignals
    /\ established' = established - 1
    /\ releasing' = releasing + 1
    /\ live' = live - 1
    /\ UNCHANGED <<connecting, renewq, upq, sleep, wire, loop, need, standing>>

(* `release', renew_tx.send.                                               *)
SendRenew ==
    /\ releasing > 0
    /\ releasing' = releasing - 1
    /\ renewq' = renewq + 1
    /\ UNCHANGED <<live, connecting, established, upq, sleep, wire, loop, need,
                   standing>>

(* The server answers every renewal of the registered key with an offer.   *)
ServerAnswers ==
    /\ renewals > 0
    /\ renewals' = renewals - 1
    /\ offers' = offers + 1
    /\ UNCHANGED <<live, tasks, renewq, upq, sleep, loop, need, standing>>

ClientNext ==
    \/ ReceiveOffer \/ ResolveFails \/ spawn_direct \/ ReceiveRenew \/ SleepOver
    \/ ReceiveUp \/ StandDown \/ Connects \/ ConnectFails \/ CarrierCloses
    \/ SendRenew \/ ServerAnswers

ClientSpec == ClientInit /\ [][ClientNext]_clientVars

(* The loop serves every arm that stays ready, tasks run, the server       *)
(* answers.  Failures are not forced.                                      *)
ClientFairSpec ==
    /\ ClientSpec
    /\ SF_clientVars(ReceiveOffer) /\ WF_clientVars(spawn_direct)
    /\ SF_clientVars(ReceiveRenew) /\ SF_clientVars(SleepOver)
    /\ SF_clientVars(ReceiveUp) /\ WF_clientVars(StandDown)
    /\ SF_clientVars(Connects) /\ SF_clientVars(SendRenew)
    /\ WF_clientVars(ServerAnswers)

-----------------------------------------------------------------------------
(* The counter that decides how many carriers an offer opens is the number *)
(* of tasks that connect or serve, on every exit path of a task.           *)
SlotsExact == live = connecting + established

(* `no double-provisioning, no exceeding the target': offers that cross    *)
(* renewals never open more carriers than the server would keep.           *)
WithinTarget == live + need <= Target

(* A renewal is under way somewhere between a task and the next offer.     *)
RenewalUnderWay ==
    sleep \/ renewq > 0 \/ releasing > 0 \/ renewals > 0 \/ offers > 0

(* client.rs: `Stand the renewal itself down ONLY once the pool has        *)
(* actually reached its target ... NOTHING else tops the direct pool up':  *)
(* a pool below its target has a renewal under way, with one exception of  *)
(* the code, a carrier that is lost after the `up' arm read the counter    *)
(* and whose signal the stand-down then drains.  That race is the only way *)
(* to lose a shortfall: neither mixed outcomes of one batch, nor crossing  *)
(* offers and renewals, nor a failed lookup, nor a stand-down that finds   *)
(* the sleep running leaves the pool below its target with nothing under   *)
(* way.                                                                    *)
ShortfallLostOnlyByDrain ==
    live + need < Target => RenewalUnderWay \/ drained

(* Once carriers and lookups stop failing the pool fills up, unless the    *)
(* last shortfall was drained by the race above; then it stays short.  As  *)
(* long as any renewal is under way it recovers from that too.             *)
DirectTopUp ==
    <>[][~(ConnectFails \/ CarrierCloses \/ ResolveFails)]_clientVars
        => <>[](live = Target \/ (drained /\ ~RenewalUnderWay))
=============================================================================
