------------------------------ MODULE VpnServer -------------------------------
(***************************************************************************)
(* The VPN links of one id: listeners and connectors on the server         *)
(* (vpn_server.rs), in 1:1 and in hub mode, the address pool they lease    *)
(* from, and the hub client's table of spokes (module hub of vpn.rs).      *)
(*                                                                         *)
(* A listener and a connector stand for one handler each; a client that    *)
(* reconnects is another one.  The registry, the pool, a hub's peers and   *)
(* its event channel have locks of their own: what the code does between   *)
(* two of them is a step of its own, but for the cancellation of a token   *)
(* and the free of the lease behind it.  All links take addresses from     *)
(* the pool, whose network is 0 .. PoolSize - 1.                           *)
(***************************************************************************)
EXTENDS Naturals, Sequences, FiniteSets, FiniteSetsExt

CONSTANTS
    Listeners, Connectors, None,
    PoolSize,    \* addresses of --vpn-pool
    HubSize,     \* addresses of a hub's subnet (vpn_hub_prefix)
    MaxClients,  \* HelloVpn.max_clients of a hub
    EventCap     \* capacity of a hub's event channel

ASSUME VpnAssumption ==
    /\ Listeners \cap Connectors = {} /\ None \notin Listeners \cup Connectors \cup Nat
    /\ PoolSize \in Nat /\ EventCap \in Nat \ {0}
    /\ HubSize \in {4 * k : k \in 1 .. PoolSize} /\ MaxClients \in Nat \ {0, 1}

VARIABLES
    lst,        \* what each listener's handler does
    hub,        \* the listeners in hub mode
    registry,   \* VpnRegistry: the listener registered under the id
    msg,        \* per listener, the connector whose VpnPairMsg is in its oneshot
    partner,    \* per listener, the connector whose VpnPairMsg it has received
    cst,        \* what each connector's handler does
    target,     \* the listener whose entry each connector has read
    cancelled,  \* pairings (by connector) and hubs whose token is cancelled
    allocated,  \* VpnPool.allocated
    blocks,     \* VpnPool.hub_blocks, all of one prefix
    lease,      \* per handler, the block its lease guard holds
    peers,      \* connectors with a slot in the HubState of their hub
    addr,       \* the host number each spoke was given
    events,     \* per hub, the event channel and the control stream behind it
    relay,      \* each spoke's relay substreams on their way to the hub client
    met,        \* hub client: peers whose Join has come, not built yet
    live,       \* hub client: live_peers
    table,      \* hub client: PeerTable, per hub and host
    leaked,     \* history: blocks left by hubs refused for an overlap
    stolen,     \* history: entries a connector removed that had read another
    lost,       \* history: spokes whose Leave found the channel full
    reused      \* history: spokes at a host whose earlier Leave is not queued

lVars == <<lst, hub, msg, partner>>
pVars == <<allocated, blocks, lease, leaked>>
cVars == <<met, live, table>>
hVars == <<stolen, lost, reused>>
vars == <<lVars, registry, cst, target, cancelled, pVars, peers, addr, events,
          relay, cVars, hVars>>

Hosts == 2 .. (HubSize - 2)

Init ==
    /\ lst = [l \in Listeners |-> "out"] /\ hub = {} /\ registry = None
    /\ msg = [l \in Listeners |-> None] /\ partner = [l \in Listeners |-> None]
    /\ cst = [c \in Connectors |-> "out"] /\ target = [c \in Connectors |-> None]
    /\ cancelled = {} /\ allocated = {} /\ blocks = {} /\ leaked = {}
    /\ lease = [x \in Listeners \cup Connectors |-> None]
    /\ peers = {} /\ addr = [c \in Connectors |-> 0]
    /\ events = [l \in Listeners |-> <<>>] /\ relay = [c \in Connectors |-> "none"]
    /\ met = {} /\ live = {} /\ table = [l \in Listeners |-> [h \in Hosts |-> None]]
    /\ stolen = {} /\ lost = {} /\ reused = {}

LGoes(l, to) == lst' = [lst EXCEPT ![l] = to]
CGoes(c, to) == cst' = [cst EXCEPT ![c] = to]

-------------------------------------------------------------------------------
(* VpnPool.                                                                *)
InHubBlock(a, span) == \E b \in blocks : a < b + HubSize /\ b < a + span

(* alloc: the /30 blocks that are free.                                    *)
FreePairs ==
    {a \in 0 .. (PoolSize - 1) : a % 4 = 0 /\ a \notin allocated /\ ~InHubBlock(a, 4)}

(* Mutant of FreeHubs: the /30 blocks in use are not looked at.            *)
FreeHubsBlind ==
    {b \in 0 .. (PoolSize - 1) : b % HubSize = 0 /\ ~InHubBlock(b, HubSize)}

(* alloc_hub_subnet: the hub subnets that are free.                        *)
FreeHubs ==
    {b \in 0 .. (PoolSize - 1) :
        /\ b % HubSize = 0 /\ ~InHubBlock(b, HubSize)
        /\ \A a \in allocated : ~(a < b + HubSize /\ b < a + 4)}

-------------------------------------------------------------------------------
(* serve_vpn_listener, 1:1 mode: an id in use is refused.                  *)
RegisterPair(l) ==
    /\ lst[l] = "out"
    /\ IF registry = None THEN LGoes(l, "waiting") /\ registry' = l
                          ELSE LGoes(l, "gone") /\ UNCHANGED registry
    /\ UNCHANGED <<hub, msg, partner, cst, target, cancelled, pVars, peers, addr,
                   events, relay, cVars, hVars>>

(* Hub mode: the subnet is leased, and its guard made unless the           *)
(* advertised networks overlap it: then the handler returns without one.   *)
LeaseHub(l) ==
    /\ lst[l] = "out" /\ hub' = hub \cup {l}
    /\ \/ FreeHubs = {} /\ LGoes(l, "gone") /\ UNCHANGED pVars
       \/ /\ FreeHubs # {} /\ blocks' = blocks \cup {Min(FreeHubs)}
          /\ \/ /\ LGoes(l, "leased") /\ lease' = [lease EXCEPT ![l] = Min(FreeHubs)]
                /\ UNCHANGED leaked
             \/ /\ LGoes(l, "gone") /\ leaked' = leaked \cup {Min(FreeHubs)}
                /\ UNCHANGED lease
          /\ UNCHANGED allocated
    /\ UNCHANGED <<msg, partner, registry, cst, target, cancelled, peers, addr,
                   events, relay, cVars, hVars>>

RegisterHub(l) ==
    /\ lst[l] = "leased"
    /\ IF registry = None THEN LGoes(l, "hub") /\ registry' = l
                          ELSE LGoes(l, "closed") /\ UNCHANGED registry
    /\ UNCHANGED <<hub, msg, partner, cst, target, cancelled, pVars, peers, addr,
                   events, relay, cVars, hVars>>

(* The pairing is received: from here on the handler holds its drop guard. *)
TakePair(l) ==
    /\ lst[l] = "waiting" /\ msg[l] # None /\ LGoes(l, "paired")
    /\ partner' = [partner EXCEPT ![l] = msg[l]] /\ msg' = [msg EXCEPT ![l] = None]
    /\ UNCHANGED <<hub, registry, cst, target, cancelled, pVars, peers, addr,
                   events, relay, cVars, hVars>>

(* Mutant of EndListener: the pairing's drop guard is disarmed.            *)
EndListenerQuiet(l) ==
    /\ lst[l] \in {"waiting", "paired", "hub"} /\ LGoes(l, "closing")
    /\ msg' = [msg EXCEPT ![l] = None] /\ events' = [events EXCEPT ![l] = <<>>]
    /\ UNCHANGED <<hub, partner, cancelled, registry, cst, target, pVars, peers,
                   addr, relay, cVars, hVars>>

(* The handler ends, by EOF, a failed send, silence or its partner's       *)
(* token.  Its receivers go first, with what is in them, then the drop     *)
(* guard of the pairing it has received.                                   *)
EndListener(l) ==
    /\ lst[l] \in {"waiting", "paired", "hub"} /\ LGoes(l, "closing")
    /\ msg' = [msg EXCEPT ![l] = None] /\ events' = [events EXCEPT ![l] = <<>>]
    /\ cancelled' = cancelled \cup ({partner[l]} \ {None})
    /\ UNCHANGED <<hub, partner, registry, cst, target, pVars, peers, addr, relay,
                   cVars, hVars>>

(* Mutant of Deregister: the session of the entry is not compared.         *)
DeregisterAny(l) ==
    /\ lst[l] = "closing" /\ LGoes(l, "closed") /\ registry' = None
    /\ UNCHANGED <<hub, msg, partner, cst, target, cancelled, pVars, peers, addr,
                   events, relay, cVars, hVars>>

(* Drop for VpnDeregister: the entry, if it is of this session.            *)
Deregister(l) ==
    /\ lst[l] = "closing" /\ LGoes(l, "closed")
    /\ registry' = IF registry = l THEN None ELSE registry
    /\ UNCHANGED <<hub, msg, partner, cst, target, cancelled, pVars, peers, addr,
                   events, relay, cVars, hVars>>

(* A hub's token is cancelled and its lease freed.                         *)
CloseListener(l) ==
    /\ lst[l] = "closed" /\ LGoes(l, "gone")
    /\ cancelled' = cancelled \cup ({l} \cap hub)
    /\ blocks' = blocks \ {lease[l]} /\ lease' = [lease EXCEPT ![l] = None]
    /\ UNCHANGED <<hub, msg, partner, registry, cst, target, allocated, leaked,
                   peers, addr, events, relay, cVars, hVars>>

-------------------------------------------------------------------------------
(* serve_vpn_connector: the entry is read and let go.                      *)
LookUp(c) ==
    /\ cst[c] = "out" /\ target' = [target EXCEPT ![c] = registry]
    /\ CGoes(c, IF registry = None THEN "gone" ELSE "found")
    /\ UNCHANGED <<lVars, registry, cancelled, pVars, peers, addr, events, relay,
                   cVars, hVars>>

(* Addressing or advertised networks that do not fit are refused.          *)
Refuse(c) ==
    /\ cst[c] = "found" /\ CGoes(c, "gone")
    /\ UNCHANGED <<lVars, registry, target, cancelled, pVars, peers, addr, events,
                   relay, cVars, hVars>>

(* 1:1 mode: a /30 is leased; an exhausted pool refuses.                   *)
LeasePair(c) ==
    /\ cst[c] = "found" /\ target[c] \notin hub
    /\ IF FreePairs = {}
         THEN CGoes(c, "gone") /\ UNCHANGED <<allocated, lease>>
         ELSE /\ CGoes(c, "leased") /\ allocated' = allocated \cup {Min(FreePairs)}
              /\ lease' = [lease EXCEPT ![c] = Min(FreePairs)]
    /\ UNCHANGED <<lVars, registry, target, cancelled, blocks, leaked, peers, addr,
                   events, relay, cVars, hVars>>

FreeHosts(l) == Hosts \ {addr[d] : d \in {d \in peers : target[d] = l}}

(* Hub mode: capacity and address under one lock.                          *)
TakeSlot(c) ==
    LET l == target[c] IN
    /\ cst[c] = "found" /\ l \in hub
    /\ IF Cardinality({d \in peers : target[d] = l}) >= MaxClients \/ FreeHosts(l) = {}
         THEN CGoes(c, "gone") /\ UNCHANGED <<peers, addr, reused>>
         ELSE /\ CGoes(c, "leased") /\ peers' = peers \cup {c}
              /\ addr' = [addr EXCEPT ![c] = Min(FreeHosts(l))]
              /\ reused' = reused \cup
                    {x \in {c} : \E d \in Connectors \ {c} :
                        /\ target[d] = l /\ addr[d] = Min(FreeHosts(l))
                        /\ cst[d] = "freeing" \/ d \in lost}
    /\ UNCHANGED <<lVars, registry, target, cancelled, pVars, events, relay, cVars, stolen, lost>>

(* VpnReady has been sent.                                                 *)
SendReady(c) ==
    /\ cst[c] = "leased" /\ CGoes(c, "told")
    /\ UNCHANGED <<lVars, registry, target, cancelled, pVars, peers, addr, events,
                   relay, cVars, hVars>>

(* 1:1 mode: whatever entry is under the id by now is taken out, and its   *)
(* oneshot used if it has one whose receiver is there.                     *)
Pair(c) ==
    /\ cst[c] = "told" /\ target[c] \notin hub
    /\ IF registry # None /\ registry \notin hub /\ lst[registry] = "waiting"
         THEN CGoes(c, "in") /\ msg' = [msg EXCEPT ![registry] = c]
              /\ UNCHANGED <<cancelled, allocated, lease>>
         ELSE /\ CGoes(c, "gone") /\ cancelled' = cancelled \cup {c}
              /\ allocated' = allocated \ {lease[c]} /\ lease' = [lease EXCEPT ![c] = None]
              /\ UNCHANGED msg
    /\ registry' = None
    /\ stolen' = stolen \cup ({registry} \ {None, target[c]})
    /\ UNCHANGED <<lst, hub, partner, target, blocks, leaked, peers, addr, events,
                   relay, cVars, lost, reused>>

Receives(l) == lst[l] = "hub"

(* Hub mode: Join waits for room in the channel, or fails without its      *)
(* receiver and is forgotten.  From now on the spoke's relay substreams    *)
(* are accepted; they reach the hub client beside the control stream.      *)
Announce(c) ==
    LET l == target[c] IN
    /\ cst[c] = "told" /\ l \in hub /\ CGoes(c, "in")
    /\ relay' = [relay EXCEPT ![c] = "sent"]
    /\ IF Receives(l)
         THEN /\ Len(events[l]) < EventCap
              /\ events' = [events EXCEPT ![l] = Append(@, <<"join", c>>)]
         ELSE UNCHANGED events
    /\ UNCHANGED <<lVars, registry, target, cancelled, pVars, peers, addr, cVars, hVars>>

(* Networks overlap, VpnReady cannot be sent, or the loop ends, by EOF, a  *)
(* failed send, silence or a token.  1:1: the pairing is cancelled and the *)
(* lease freed.                                                            *)
EndPair(c) ==
    /\ cst[c] \in {"leased", "in"} /\ target[c] \notin hub /\ CGoes(c, "gone")
    /\ cancelled' = cancelled \cup {c}
    /\ allocated' = allocated \ {lease[c]} /\ lease' = [lease EXCEPT ![c] = None]
    /\ UNCHANGED <<lVars, registry, target, blocks, leaked, peers, addr, events,
                   relay, cVars, hVars>>

(* Hub mode, Drop for HubPeerGuard: the address is freed ...               *)
EndSpoke(c) ==
    /\ cst[c] \in {"leased", "in"} /\ target[c] \in hub /\ CGoes(c, "freeing")
    /\ peers' = peers \ {d \in peers : target[d] = target[c] /\ addr[d] = addr[c]}
    /\ UNCHANGED <<lVars, registry, target, cancelled, pVars, addr, events, relay,
                   cVars, hVars>>

(* ... and Leave is queued if there is room for it.                        *)
Notify(c) ==
    LET l == target[c] IN
    /\ cst[c] = "freeing" /\ CGoes(c, "gone")
    /\ IF Receives(l) /\ Len(events[l]) < EventCap
         THEN events' = [events EXCEPT ![l] = Append(@, <<"leave", c>>)] /\ UNCHANGED lost
         ELSE lost' = lost \cup {c} /\ UNCHANGED events
    /\ UNCHANGED <<lVars, registry, target, cancelled, pVars, peers, addr, relay,
                   cVars, stolen, reused>>

-------------------------------------------------------------------------------
(* The hub client.                                                         *)
(* try_build_peer, once the metadata and the substreams are there: the     *)
(* host's entry in the table is replaced.                                  *)
Build(c) ==
    /\ live' = live \cup {c} /\ met' = met \ {c}
    /\ table' = [table EXCEPT ![target[c]][addr[c]] = c]
    /\ relay' = [relay EXCEPT ![c] = "used"]

RelayArrives(c) ==
    /\ relay[c] = "sent" /\ Receives(target[c])
    /\ IF c \in met THEN Build(c)
       ELSE relay' = [relay EXCEPT ![c] = "buffered"] /\ UNCHANGED cVars
    /\ UNCHANGED <<lVars, registry, cst, target, cancelled, pVars, peers, addr,
                   events, hVars>>

(* Mutant of PeerLeaves: a Join that waits for its substreams stays.       *)
PeerLeavesPending(c) ==
    /\ live' = live \ {c}
    /\ table' = IF c \in live THEN [table EXCEPT ![target[c]][addr[c]] = None] ELSE table
    /\ UNCHANGED <<met, relay>>

(* HubEvent::Leave at the coordinator: the table's entry is removed by     *)
(* host, whoever is in it.                                                 *)
PeerLeaves(c) ==
    /\ live' = live \ {c} /\ met' = met \ {c}
    /\ table' = IF c \in live THEN [table EXCEPT ![target[c]][addr[c]] = None] ELSE table
    /\ relay' = [relay EXCEPT ![c] = IF @ = "buffered" THEN "used" ELSE @]

(* The hub's loop sends the next event on, and its client handles it.      *)
Forward(l) ==
    /\ Receives(l) /\ events[l] # <<>> /\ events' = [events EXCEPT ![l] = Tail(@)]
    /\ LET c == Head(events[l])[2] IN
       IF Head(events[l])[1] = "leave" THEN PeerLeaves(c)
       ELSE IF relay[c] = "buffered" THEN Build(c)
       ELSE met' = met \cup {c} /\ UNCHANGED <<live, table, relay>>
    /\ UNCHANGED <<lVars, registry, cst, target, cancelled, pVars, peers, addr,
                   hVars>>

(* A peer's downlink dies with its connector and reports a Leave itself.   *)
SelfReport(c) ==
    /\ c \in live /\ cst[c] \in {"freeing", "gone"} /\ Receives(target[c])
    /\ PeerLeaves(c)
    /\ UNCHANGED <<lVars, registry, cst, target, cancelled, pVars, peers, addr,
                   events, hVars>>

-------------------------------------------------------------------------------
Next ==
    \/ \E l \in Listeners : \/ RegisterPair(l) \/ LeaseHub(l) \/ RegisterHub(l)
                            \/ TakePair(l) \/ EndListener(l) \/ Deregister(l)
                            \/ CloseListener(l) \/ Forward(l)
    \/ \E c \in Connectors : \/ LookUp(c) \/ Refuse(c) \/ LeasePair(c) \/ TakeSlot(c)
                             \/ SendReady(c) \/ Pair(c) \/ Announce(c) \/ EndPair(c)
                             \/ EndSpoke(c) \/ Notify(c) \/ RelayArrives(c) \/ SelfReport(c)

(* A handler that can run does, a loop sees a cancelled token, and a hub   *)
(* forwards its events.  Nobody is made to connect, to pair or to leave.   *)
ListenerRuns(l) ==
    \/ RegisterHub(l) \/ Deregister(l) \/ CloseListener(l)
    \/ partner[l] \in cancelled /\ EndListener(l)

ConnectorRuns(c) ==
    \/ LeasePair(c) \/ TakeSlot(c) \/ SendReady(c) \/ Pair(c) \/ Announce(c) \/ Notify(c)
    \/ c \in cancelled /\ EndPair(c)
    \/ target[c] \in cancelled /\ EndSpoke(c)

Fairness ==
    /\ \A l \in Listeners : WF_vars(ListenerRuns(l)) /\ WF_vars(Forward(l))
    /\ \A c \in Connectors : WF_vars(ConnectorRuns(c))

Spec == Init /\ [][Next]_vars
FairSpec == Spec /\ Fairness
-------------------------------------------------------------------------------
Span(x) == IF x \in Listeners THEN HubSize ELSE 4

(* Every block of the pool is held by one handler, which frees it on every *)
(* path, and the blocks of two handlers never overlap; only a hub refused  *)
(* for an overlap leaves its block (the return before VpnHubLeaseGuard).   *)
LeasesExact ==
    LET held == {x \in Listeners \cup Connectors : lease[x] # None}
    IN  /\ allocated = {lease[c] : c \in held \cap Connectors}
        /\ blocks = {lease[l] : l \in held \cap Listeners} \cup leaked
        /\ \A x \in held : \A y \in held \ {x} :
              lease[x] + Span(x) <= lease[y] \/ lease[y] + Span(y) <= lease[x]

(* A listener that waits, and a hub, are found under the id: no handler of *)
(* an earlier session removes them (VpnDeregister's session), and only a   *)
(* connector takes the entry, for a pairing; excepted is an entry taken by *)
(* a connector that had read the one before it.                            *)
WaitingIsListed ==
    \A l \in Listeners :
        lst[l] \in {"waiting", "hub"} => registry = l \/ msg[l] # None \/ l \in stolen

(* A spoke that is up at the hub is the one its address routes to,         *)
(* whatever Joins, Leaves and substreams of earlier spokes at the address  *)
(* were under way; excepted is a spoke given an address whose earlier      *)
(* Leave was not queued yet, or was dropped by the full channel.           *)
SpokeRouted ==
    \A c \in live : cst[c] = "in" /\ c \notin reused => table[target[c]][addr[c]] = c

(* A connector whose listener has gone: the one it is paired with, once    *)
(* the pairing is received, or its hub.  A listener whose connector has.   *)
Orphaned(c) ==
    \E l \in Listeners :
        lst[l] = "gone" /\ (partner[l] = c \/ (l \in hub /\ target[c] = l))
Widowed(l) == \E c \in Connectors : partner[l] = c /\ cst[c] = "gone"

(* `whichever ends first ends the other': the two sides of a pairing, and  *)
(* a hub with its spokes, also those that are joining when it ends (the    *)
(* drop guards of VpnPairMsg.cancel and HubShared.cancel).                 *)
EndsTogether ==
    /\ \A c \in Connectors : Orphaned(c) ~> cst[c] = "gone"
    /\ \A l \in Listeners : Widowed(l) ~> lst[l] = "gone"
=============================================================================
