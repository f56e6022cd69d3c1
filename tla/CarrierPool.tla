------------------------------ MODULE CarrierPool ------------------------------
(***************************************************************************)
(* The carrier pool of one tunnel session: the server's round-robin pool   *)
(* (src/src/pool.rs), the tunnel loop that fills it and moves its target   *)
(* (serve_tunnel of server.rs, serve_vhost_provider of vhost.rs), the task *)
(* that holds each extra connection (serve_carrier), and on the client the *)
(* dials of Client::new, the pumps, the re-dial batches and terminate_all  *)
(* (client.rs, liveness.rs).                                               *)
(*                                                                         *)
(* `AutoCarriers' is `--carriers 0' of a vhost provider: the pool starts   *)
(* at one carrier and its target moves between 1 and Ceiling.  Otherwise   *)
(* Effective = Ceiling is the operator's number.  The client is the        *)
(* unscoped one of the command line, whose tasks are detached.  A          *)
(* connection identity is used again once nothing refers to it any more.   *)
(***************************************************************************)
EXTENDS Naturals, Sequences, FiniteSets

CONSTANTS
    Main,        \* the control connection, carrier 0 of the pool
    Conns,       \* identities of extra carrier connections
    Effective,   \* carriers.clamp(1, max_carriers), 1 when AutoCarriers
    Ceiling,     \* auto_carrier_ceiling
    AutoCarriers,        \* the provider asked for `--carriers 0'
    Tickets,     \* proxied connections, each with its BulkTicket
    None,        \* a ticket pinned to no carrier
    CursorMod,   \* the cursor is kept modulo a common multiple of 1..Ceiling
    MaxNudges,   \* bound on undelivered growth nudges
    MaxMsgs      \* bound on SetCarrierTarget messages in flight

Members == Conns \cup {Main}

ASSUME CarrierAssumption ==
    /\ IsFiniteSet(Conns) /\ Main \notin Conns
    /\ None \notin Members
    /\ Ceiling \in Nat \ {0} /\ Effective \in 1 .. Ceiling
    /\ AutoCarriers \in BOOLEAN
    /\ AutoCarriers => Effective = 1
    /\ ~AutoCarriers => Effective = Ceiling
    /\ CursorMod \in Nat \ {0} /\ MaxNudges \in Nat /\ MaxMsgs \in Nat

VARIABLES
    \* the server
    serving,     \* the tunnel loop runs; its token is in PendingCarriers
    pool,        \* CarrierPool.carriers
    alive,       \* carriers whose `alive' flag is still set
    cursor,      \* CarrierPool.next
    joinq,       \* carriers sent to the loop and not received
    held,        \* per connection, its serve_carrier task
    target,      \* carrier_target
    changeAge,   \* last_target_change: "never" or how long ago
    crowdedAge,  \* last_crowded
    nudges,      \* growth nudges not yet received
    \* the client
    client,      \* "starting" (Client::new), "listening", "done", "tripped"
    acceptors,   \* carriers dialled before listen() starts
    pump,        \* carriers with a running pump
    live,        \* carrier_live
    tracked,     \* ConnActivities
    targetExtra, \* CarrierDialer.target_extra
    inflight,    \* a re-dial batch runs
    need,        \* dials left in Client::new's loop or in the batch
    \* between them
    msgs,        \* SetCarrierTarget messages in flight
    main,        \* the control connection: "open" or "dead"
    conn,        \* per extra connection: "none", "open", "dead"
    \* proxied connections
    pin,         \* the carrier each one is pinned to
    bulk         \* those classified as bulk

poolVars == <<pool, alive, cursor, joinq, held>>
targetVars == <<target, changeAge, crowdedAge, nudges>>
clientVars == <<client, acceptors, pump, live, tracked, targetExtra, inflight,
                need>>
ticketVars == <<pin, bulk>>
vars == <<serving, pool, alive, cursor, joinq, held, target, changeAge,
          crowdedAge, nudges, client, acceptors, pump, live, tracked,
          targetExtra, inflight, need, msgs, main, conn, pin, bulk>>

Elements(s) == {s[i] : i \in 1 .. Len(s)}

TypeOK ==
    /\ serving \in BOOLEAN /\ inflight \in BOOLEAN
    /\ pool \in Seq(Members) /\ joinq \in Seq(Conns)
    /\ alive \subseteq Members
    /\ cursor \in 0 .. (CursorMod - 1)
    /\ held \in [Conns -> {"none", "joining", "holding"}]
    /\ target \in 1 .. Ceiling
    /\ changeAge \in {"never", "fresh", "min", "quiet"}
    /\ crowdedAge \in {"fresh", "quiet"}
    /\ nudges \in 0 .. MaxNudges
    /\ client \in {"starting", "listening", "done", "tripped"}
    /\ acceptors \subseteq Conns /\ pump \subseteq Conns
    /\ tracked \subseteq Conns
    /\ live \in Nat /\ targetExtra \in Nat /\ need \in Nat
    /\ msgs \in Seq(1 .. Ceiling) /\ Len(msgs) <= MaxMsgs
    /\ main \in {"open", "dead"}
    /\ conn \in [Conns -> {"none", "open", "dead"}]
    /\ pin \in [Tickets -> Members \cup {None}]
    /\ bulk \subseteq Tickets

(* The token was issued and the client has read it; no carrier is up yet.  *)
Init ==
    /\ serving = TRUE
    /\ pool = <<Main>> /\ alive = {Main} /\ cursor = 0 /\ joinq = <<>>
    /\ held = [c \in Conns |-> "none"]
    /\ target = Effective /\ changeAge = "never" /\ crowdedAge = "fresh"
    /\ nudges = 0
    /\ client = "starting" /\ acceptors = {} /\ pump = {} /\ live = 0
    /\ tracked = {} /\ targetExtra = Effective - 1 /\ inflight = FALSE
    /\ need = Effective - 1
    /\ msgs = <<>> /\ main = "open" /\ conn = [c \in Conns |-> "none"]
    /\ pin = [t \in Tickets |-> None] /\ bulk = {}

-----------------------------------------------------------------------------
(* The client dials.                                                       *)

(* Nothing refers to c, so the next connection may be called c.            *)
Unreferenced(c) ==
    /\ conn[c] # "open" /\ held[c] = "none"
    /\ c \notin acceptors \cup pump \cup Elements(pool) \cup Elements(joinq)
    /\ \A t \in Tickets : pin[t] # c

(* open_carrier: connect, open the control substream, send JoinCarrier.    *)
open_carrier(c) ==
    /\ Unreferenced(c)
    /\ conn' = [conn EXCEPT ![c] = "open"]
    /\ held' = [held EXCEPT ![c] = "joining"]

(* The `extra' dials of Client::new.  A failed one is not retried there.   *)
DialInitial ==
    /\ client = "starting" /\ need > 0
    /\ need' = need - 1
    /\ \/ \E c \in Conns : open_carrier(c) /\ acceptors' = acceptors \cup {c}
       \/ UNCHANGED <<acceptors, conn, held>>
    /\ UNCHANGED <<serving, pool, alive, cursor, joinq, targetVars, client,
                   pump, live, tracked, targetExtra, inflight, msgs, main,
                   ticketVars>>

(* listen() starts: one spawn_carrier_pump per carrier already dialled.    *)
Listen ==
    /\ client = "starting" /\ need = 0
    /\ client' = "listening"
    /\ pump' = acceptors /\ tracked' = acceptors
    /\ live' = Cardinality(acceptors)
    /\ acceptors' = {}
    /\ UNCHANGED <<serving, poolVars, targetVars, targetExtra, inflight, need,
                   msgs, main, conn, ticketVars>>

(* maybe_redial_carriers, with target_extra = extra.                       *)
MaybeRedial(extra) ==
    IF live >= extra \/ inflight THEN UNCHANGED <<inflight, need>>
    ELSE inflight' = TRUE /\ need' = extra - live

(* The re-dial tick.  Without a dialer (explicit, one carrier) it does     *)
(* nothing, as here: targetExtra is 0.                                     *)
RedialTick ==
    /\ client = "listening"
    /\ MaybeRedial(targetExtra)
    /\ UNCHANGED <<serving, poolVars, targetVars, client, acceptors, pump, live,
                   tracked, targetExtra, msgs, main, conn, ticketVars>>

(* One dial of the batch succeeds: spawn_carrier_pump_scoped.  The batch   *)
(* is a detached task: it goes on when listen() has returned.              *)
Redial ==
    /\ inflight /\ need > 0
    /\ \E c \in Conns :
          /\ open_carrier(c)
          /\ pump' = pump \cup {c} /\ tracked' = tracked \cup {c}
    /\ live' = live + 1
    /\ need' = need - 1
    /\ UNCHANGED <<serving, pool, alive, cursor, joinq, targetVars, client,
                   acceptors, targetExtra, inflight, msgs, main, ticketVars>>

(* A failed dial ends the batch.                                           *)
RedialFails ==
    /\ inflight /\ need > 0
    /\ need' = 0
    /\ UNCHANGED <<serving, poolVars, targetVars, client, acceptors, pump, live,
                   tracked, targetExtra, inflight, msgs, main, conn, ticketVars>>

BatchDoneStuck ==
    /\ inflight /\ need = 0 /\ client # "listening"
    /\ inflight' = FALSE
    /\ UNCHANGED <<serving, poolVars, targetVars, client, acceptors, pump, live,
                   tracked, targetExtra, need, msgs, main, conn, ticketVars>>

BatchDone ==
    /\ inflight /\ need = 0
    /\ inflight' = FALSE
    /\ UNCHANGED <<serving, poolVars, targetVars, client, acceptors, pump, live,
                   tracked, targetExtra, need, msgs, main, conn, ticketVars>>

(* The loop receives SetCarrierTarget; a raise tops the pool up at once.   *)
SetCarrierTarget ==
    /\ client = "listening" /\ msgs # <<>>
    /\ targetExtra' = Head(msgs) - 1
    /\ msgs' = Tail(msgs)
    /\ IF targetExtra' > targetExtra THEN MaybeRedial(targetExtra')
       ELSE UNCHANGED <<inflight, need>>
    /\ UNCHANGED <<serving, poolVars, targetVars, client, acceptors, pump, live,
                   tracked, main, conn, ticketVars>>

PumpEndsUncounted(c) ==
    /\ pump' = pump \ {c} /\ tracked' = tracked \ {c}
    /\ live' = live

(* The end of a pump task.                                                 *)
PumpEnds(c) ==
    /\ pump' = pump \ {c} /\ tracked' = tracked \ {c}
    /\ live' = live - 1

(* acceptor.accept() reports that the connection is gone.                  *)
ClientSeesDown(c) ==
    /\ c \in pump /\ conn[c] = "dead"
    /\ PumpEnds(c)
    /\ UNCHANGED <<serving, poolVars, targetVars, client, acceptors,
                   targetExtra, inflight, need, msgs, main, conn, ticketVars>>

(* After listen() returned, a substream the server opens on a carrier      *)
(* finds the channel closed: the pump stops and the connection closes.     *)
PumpRefuses(c) ==
    /\ c \in pump /\ conn[c] = "open"
    /\ client \in {"done", "tripped"} /\ \E t \in Tickets : pin[t] = c
    /\ PumpEnds(c)
    /\ conn' = [conn EXCEPT ![c] = "dead"]
    /\ UNCHANGED <<serving, poolVars, targetVars, client, acceptors,
                   targetExtra, inflight, need, msgs, main, ticketVars>>

(* listen() returns when the control connection is gone.  A session that   *)
(* ends before listen() drops the carriers it had dialled.                 *)
ClientEnds ==
    /\ client \in {"starting", "listening"} /\ main = "dead"
    /\ client' = "done"
    /\ acceptors' = {}
    /\ conn' = [c \in Conns |-> IF c \in acceptors THEN "dead" ELSE conn[c]]
    /\ need' = IF client = "starting" THEN 0 ELSE need
    /\ UNCHANGED <<serving, poolVars, targetVars, pump, live, tracked,
                   targetExtra, inflight, msgs, main, ticketVars>>

(* The silence deadline passes: main_activity.terminate(), terminate_all,  *)
(* listen() fails.                                                         *)
ClientTrips ==
    /\ client = "listening"
    /\ client' = "tripped"
    /\ main' = "dead"
    /\ conn' = [c \in Conns |-> IF c \in tracked THEN "dead" ELSE conn[c]]
    /\ tracked' = {}
    /\ UNCHANGED <<serving, poolVars, targetVars, acceptors, pump, live,
                   targetExtra, inflight, need, msgs, ticketVars>>

-----------------------------------------------------------------------------
(* The server.                                                             *)

(* serve_carrier looks the token up and sends the carrier to the loop, or  *)
(* closes the connection when the tunnel has ended.                        *)
serve_carrier(c) ==
    /\ held[c] = "joining"
    /\ IF serving
       THEN /\ joinq' = Append(joinq, c)
            /\ held' = [held EXCEPT ![c] = "holding"]
            /\ alive' = alive \cup {c}
            /\ UNCHANGED conn
       ELSE /\ held' = [held EXCEPT ![c] = "none"]
            /\ conn' = [conn EXCEPT ![c] = "dead"]
            /\ UNCHANGED <<joinq, alive>>
    /\ UNCHANGED <<serving, pool, cursor, targetVars, clientVars, msgs, main,
                   ticketVars>>

(* The read of a held control substream ends: the alive flag is cleared.   *)
ServerSeesDown(c) ==
    /\ held[c] = "holding" /\ conn[c] = "dead"
    /\ held' = [held EXCEPT ![c] = "none"]
    /\ alive' = alive \ {c}
    /\ UNCHANGED <<serving, pool, cursor, joinq, targetVars, clientVars, msgs,
                   main, conn, ticketVars>>

(* CarrierPool::push, capped at the ceiling; the length counts dead        *)
(* members that no pick has pruned.                                        *)
push(c) == pool' = IF Len(pool) >= Ceiling THEN pool ELSE Append(pool, c)

(* The loop receives a carrier.                                            *)
Join ==
    /\ serving /\ joinq # <<>>
    /\ push(Head(joinq))
    /\ joinq' = Tail(joinq)
    /\ UNCHANGED <<serving, alive, cursor, held, targetVars, clientVars, msgs,
                   main, conn, ticketVars>>

(* choose_carrier with `<=' for `<'.                                       *)
ChooseLastOfEqual(loads, n, start) ==
    LET best[k \in 0 .. (n - 1)] ==
            IF k = 0 THEN start
            ELSE LET idx == (start + k) % n IN
                 IF loads[idx] <= loads[best[k - 1]] THEN idx ELSE best[k - 1]
    IN  best[n - 1]

(* The index with the strictly smallest load, looked for from `start'.     *)
choose_carrier(loads, n, start) ==
    LET best[k \in 0 .. (n - 1)] ==
            IF k = 0 THEN start
            ELSE LET idx == (start + k) % n IN
                 IF loads[idx] < loads[best[k - 1]] THEN idx ELSE best[k - 1]
    IN  best[n - 1]

(* Carrier.bulk: the bulk connections pinned to c.                         *)
Load(c) == Cardinality({t \in bulk : pin[t] = c})

(* carriers.retain(alive).                                                 *)
Pruned == SelectSeq(pool, LAMBDA c : c \in alive)

(* pick_avoiding_bulk for a new proxied connection, and the nudge of       *)
(* request_carrier_growth.  With no bulk this is `pick'.                   *)
Pick(t) ==
    /\ serving /\ pin[t] = None
    /\ pool' = Pruned
    /\ IF Pruned = <<>> THEN UNCHANGED <<cursor, pin, nudges>>
       ELSE LET n     == Len(Pruned)
                loads == [i \in 0 .. (n - 1) |-> Load(Pruned[i + 1])]
                best  == choose_carrier(loads, n, cursor % n)
            IN  /\ cursor' = (cursor + 1) % CursorMod
                /\ pin' = [pin EXCEPT ![t] = Pruned[best + 1]]
                /\ IF AutoCarriers /\ loads[best] > 0
                   THEN nudges < MaxNudges /\ nudges' = nudges + 1
                   ELSE UNCHANGED nudges
    /\ UNCHANGED <<serving, alive, joinq, held, target, changeAge, crowdedAge,
                   clientVars, msgs, main, conn, bulk>>

(* BulkTicket::record crosses the threshold.                               *)
Classify(t) ==
    /\ pin[t] # None /\ t \notin bulk
    /\ bulk' = bulk \cup {t}
    /\ UNCHANGED <<serving, poolVars, targetVars, clientVars, msgs, main, conn,
                   pin>>

(* The proxied connection ends and its ticket is dropped.                  *)
Finish(t) ==
    /\ pin[t] # None
    /\ pin' = [pin EXCEPT ![t] = None]
    /\ bulk' = bulk \ {t}
    /\ UNCHANGED <<serving, poolVars, targetVars, clientVars, msgs, main, conn>>

MoveTarget(to) ==
    /\ Len(msgs) < MaxMsgs
    /\ target' = to /\ changeAge' = "fresh"
    /\ msgs' = Append(msgs, to)

(* A nudge arrives.                                                        *)
Grow ==
    /\ serving /\ nudges > 0
    /\ nudges' = nudges - 1
    /\ crowdedAge' = "fresh"
    /\ IF target < Ceiling /\ changeAge # "fresh" THEN MoveTarget(target + 1)
       ELSE UNCHANGED <<target, changeAge, msgs>>
    /\ UNCHANGED <<serving, poolVars, clientVars, main, conn, ticketVars>>

(* The quiet-period check of the heartbeat tick.                           *)
Shrink ==
    /\ serving
    /\ target > 1 /\ crowdedAge = "quiet" /\ changeAge = "quiet"
    /\ MoveTarget(target - 1)
    /\ UNCHANGED <<serving, poolVars, crowdedAge, nudges, clientVars, main,
                   conn, ticketVars>>

(* Time passes: CARRIER_TARGET_MIN_INTERVAL, then the quiet period.        *)
Age ==
    /\ serving
    /\ \/ /\ changeAge \in {"fresh", "min"}
          /\ changeAge' = IF changeAge = "fresh" THEN "min" ELSE "quiet"
          /\ UNCHANGED crowdedAge
       \/ crowdedAge = "fresh" /\ crowdedAge' = "quiet" /\ UNCHANGED changeAge
    /\ UNCHANGED <<serving, poolVars, target, nudges, clientVars, msgs, main,
                   conn, ticketVars>>

(* The tunnel loop returns: its control connection is gone or it reaps the *)
(* client.  The TokenGuard frees the token, the receiver and the pool drop,*)
(* the control connection closes.                                          *)
ServerEnds ==
    /\ serving
    /\ serving' = FALSE /\ main' = "dead"
    /\ pool' = <<>> /\ joinq' = <<>> /\ nudges' = 0
    /\ UNCHANGED <<alive, cursor, held, target, changeAge, crowdedAge,
                   clientVars, msgs, conn, ticketVars>>

-----------------------------------------------------------------------------
(* The network.                                                            *)

ConnDies(c) ==
    /\ conn[c] = "open"
    /\ conn' = [conn EXCEPT ![c] = "dead"]
    /\ UNCHANGED <<serving, poolVars, targetVars, clientVars, msgs, main,
                   ticketVars>>

MainDies ==
    /\ main = "open"
    /\ main' = "dead"
    /\ UNCHANGED <<serving, poolVars, targetVars, clientVars, msgs, conn,
                   ticketVars>>

Next ==
    \/ DialInitial \/ Listen \/ RedialTick \/ Redial \/ RedialFails \/ BatchDone
    \/ SetCarrierTarget \/ ClientEnds \/ ClientTrips
    \/ Join \/ Grow \/ Shrink \/ Age \/ ServerEnds \/ MainDies
    \/ \E c \in Conns : \/ ClientSeesDown(c) \/ PumpRefuses(c) \/ serve_carrier(c)
                        \/ ServerSeesDown(c) \/ ConnDies(c)
    \/ \E t \in Tickets : Pick(t) \/ Classify(t) \/ Finish(t)

(* Timers fire and tasks that can run do.  A dial tried again and again    *)
(* succeeds in the end; visitors, failures and ends of a session are not   *)
(* forced, except that a loop notices a dead control connection.           *)
Fairness ==
    /\ WF_vars(DialInitial) /\ WF_vars(Listen) /\ WF_vars(RedialTick)
    /\ SF_vars(Redial) /\ WF_vars(BatchDone) /\ WF_vars(SetCarrierTarget)
    /\ WF_vars(Join) /\ WF_vars(Grow)
    /\ WF_vars(main = "dead" /\ ServerEnds) /\ WF_vars(ClientEnds)
    /\ \A c \in Conns :
          /\ WF_vars(ClientSeesDown(c)) /\ WF_vars(ServerSeesDown(c))
          /\ WF_vars(serve_carrier(c))
    /\ \A t \in Tickets : WF_vars(Finish(t))

Spec == Init /\ [][Next]_vars
FairSpec == Spec /\ Fairness

-----------------------------------------------------------------------------
(* carrier_live, which decides how many carriers are dialled, is exactly   *)
(* the number of running pumps, whichever task ends them.                  *)
LiveCount == live = Cardinality(pump)

(* The re-dial tick, the raise of the target and the batches between them  *)
(* never hold or dial more carriers than the ceiling allows.               *)
DialBudget == Cardinality(acceptors \cup pump) + need <= Ceiling - 1

(* `With auto off ... nothing in the growth path can move an explicitly    *)
(* configured pool': neither the growth nor the quiet-period arm.          *)
ExplicitTargetFixed == ~AutoCarriers => target = Effective /\ msgs = <<>>

(* A new proxied connection goes to a live carrier with the fewest bulk    *)
(* connections, the first such one from the cursor, so with no bulk the    *)
(* choice is the round robin of `pick'.                                    *)
PickLeastLoaded ==
    [][\A t \in Tickets :
          pin[t] = None /\ pin'[t] # None =>
            LET n    == Len(Pruned)
                At(k) == Pruned[((cursor + k) % n) + 1]
            IN  \E k \in 0 .. (n - 1) :
                   /\ pin'[t] = At(k)
                   /\ \A j \in 0 .. (n - 1) : Load(At(k)) <= Load(At(j))
                   /\ \A j \in 0 .. (k - 1) : Load(At(k)) < Load(At(j))]_vars

(* Once connections stop dying, a client that keeps listening has as many  *)
(* pumps as the target asks for: a batch that fails, and a carrier lost    *)
(* while a batch runs, are both made up for.                               *)
TopUp ==
    <>[][~\E c \in Conns : ConnDies(c)]_vars
        => []<>(client # "listening" \/ live >= targetExtra)

=============================================================================
