------------------------------- MODULE DirectPath ------------------------------
(***************************************************************************)
(* The server's side of the QUIC direct path of one key (a vhost           *)
(* subdomain, or an SSH jump alias): successive registrations of the key,  *)
(* the nonce each offer leaves in the pending map, the task that serves    *)
(* one incoming QUIC connection (handshake, admission, registry lookup,    *)
(* install), the close monitors, and the RAII guard that ends a            *)
(* registration.  Sources: src/src/server.rs (QUIC accept task,            *)
(* admit_direct), vhost.rs (DirectPool, Deregister, offers), ssh_jump.rs   *)
(* (SshJumpDeregister, PendingSshJumpNonce).                               *)
(*                                                                         *)
(* Each step between two shared maps or pools is an action, because tasks  *)
(* run on several threads and none of the locks spans two of them.         *)
(* `OwnerCheck' selects the SSH jump code, which binds a nonce to its      *)
(* registration; the vhost code does not.  Public tunnels run the vhost    *)
(* code with the key "port:N"; their guard drops before their listener,    *)
(* so their registrations do not overlap.                                  *)
(***************************************************************************)
EXTENDS Naturals, FiniteSets

CONSTANTS
    MaxRegs,     \* bound on registrations of the key, one after the other
    MaxOffers,   \* bound on nonces issued
    Conns,       \* QUIC connections, each dialed once
    PoolCap,     \* MAX_DIRECT_CARRIERS
    Budget,      \* slots of --udp-memory-budget
    OwnerCheck   \* the SSH jump code

ASSUME DirectAssumption ==
    /\ MaxRegs \in Nat /\ MaxOffers \in Nat
    /\ IsFiniteSet(Conns)
    /\ PoolCap \in Nat \ {0} /\ Budget \in Nat
    /\ OwnerCheck \in BOOLEAN

Regs == 1 .. MaxRegs
Nonces == 1 .. MaxOffers

VARIABLES
    registry,    \* the registration the key resolves to, or 0
    phase,       \* per registration, how far its life has come
    pending,     \* the nonce in the pending map, or 0
    issued,      \* nonces issued so far
    owner,       \* per nonce, the registration that issued it, or 0
    pool,        \* per registration, its DirectPool: pairs <<id, connection>>
    ids,         \* per registration, DirectPool.ids
    task,        \* per connection, where its accept task is
    nonce,       \* per connection, the nonce its client authenticates with
    entry,       \* per connection, the registration its task looked up, or 0
    cid,         \* per connection, its id in that pool
    open,        \* connections that are open
    permits      \* connections that hold a budget slot

vars == <<registry, phase, pending, issued, owner, pool, ids, task, nonce,
          entry, cid, open, permits>>
regVars == <<registry, phase, pending, issued, owner>>
poolVars == <<pool, ids>>
connVars == <<task, nonce, entry, cid>>

Phases == {"unborn", "live", "closed", "removed", "gone"}
TaskStates == {"free", "dialed", "matched", "admitted", "got", "installed",
               "done"}

TypeOK ==
    /\ registry \in Regs \cup {0}
    /\ phase \in [Regs -> Phases]
    /\ pending \in Nonces \cup {0} /\ issued \in 0 .. MaxOffers
    /\ owner \in [Nonces -> Regs \cup {0}]
    /\ pool \in [Regs -> SUBSET (Nat \X Conns)] /\ ids \in [Regs -> Nat]
    /\ \A r \in Regs : Cardinality(pool[r]) <= PoolCap
    /\ task \in [Conns -> TaskStates]
    /\ nonce \in [Conns -> Nonces \cup {0}]
    /\ entry \in [Conns -> Regs \cup {0}]
    /\ cid \in [Conns -> Nat]
    /\ open \subseteq Conns /\ permits \subseteq Conns

Init ==
    /\ registry = 0 /\ phase = [r \in Regs |-> "unborn"]
    /\ pending = 0 /\ issued = 0 /\ owner = [n \in Nonces |-> 0]
    /\ pool = [r \in Regs |-> {}] /\ ids = [r \in Regs |-> 0]
    /\ task = [c \in Conns |-> "free"] /\ nonce = [c \in Conns |-> 0]
    /\ entry = [c \in Conns |-> 0] /\ cid = [c \in Conns |-> 0]
    /\ open = {} /\ permits = {}

Pooled(r) == {m[2] : m \in pool[r]}

-----------------------------------------------------------------------------
(* A registration's control loop.                                          *)

(* registry.entry(key): a vacant entry is filled, an occupied one refuses  *)
(* the provider.                                                           *)
Register(r) ==
    /\ phase[r] = "unborn" /\ \A q \in Regs : q < r => phase[q] # "unborn"
    /\ registry = 0
    /\ registry' = r
    /\ phase' = [phase EXCEPT ![r] = "live"]
    /\ UNCHANGED <<pending, issued, owner, poolVars, connVars, open, permits>>

(* The first offer, or the answer to a renewal: a fresh nonce replaces the *)
(* pending one.                                                            *)
Offer(r) ==
    /\ phase[r] = "live" /\ issued < MaxOffers
    /\ issued' = issued + 1
    /\ pending' = issued + 1
    /\ owner' = [owner EXCEPT ![issued + 1] = r]
    /\ UNCHANGED <<registry, phase, poolVars, connVars, open, permits>>

(* The guard drops, first step: close_all on its own entry.                *)
CloseAll(r) ==
    /\ phase[r] = "live"
    /\ phase' = [phase EXCEPT ![r] = "closed"]
    /\ open' = open \ Pooled(r)
    /\ pool' = [pool EXCEPT ![r] = {}]
    /\ UNCHANGED <<registry, pending, issued, owner, ids, connVars, permits>>

(* Second step: registry.remove_if(is our entry).                          *)
Deregister(r) ==
    /\ phase[r] = "closed"
    /\ phase' = [phase EXCEPT ![r] = "removed"]
    /\ registry' = IF registry = r THEN 0 ELSE registry
    /\ UNCHANGED <<pending, issued, owner, poolVars, connVars, open, permits>>

(* Third step: the pending nonce, if it is ours (SSH jump), or whatever    *)
(* nonce the key has now (vhost, public).                                  *)
DropNonce(r) ==
    /\ phase[r] = "removed"
    /\ phase' = [phase EXCEPT ![r] = "gone"]
    /\ pending' = IF OwnerCheck /\ pending # 0 /\ owner[pending] # r
                  THEN pending ELSE 0
    /\ UNCHANGED <<registry, issued, owner, poolVars, connVars, open, permits>>

-----------------------------------------------------------------------------
(* One incoming QUIC connection.                                           *)

(* A client that was sent nonce n at some time dials with it.              *)
Dial(c, n) ==
    /\ task[c] = "free" /\ n <= issued
    /\ task' = [task EXCEPT ![c] = "dialed"]
    /\ nonce' = [nonce EXCEPT ![c] = n]
    /\ open' = open \cup {c}
    /\ UNCHANGED <<regVars, poolVars, entry, cid, permits>>

(* Where a task that gives up leaves its connection.                       *)
Refuse(c) ==
    /\ task' = [task EXCEPT ![c] = "done"]
    /\ open' = open \ {c}

(* vhost_server_handshake: the token must be the one of the pending nonce, *)
(* and for SSH jump that nonce must belong to the registered entry.        *)
Handshake(c) ==
    /\ task[c] = "dialed"
    /\ IF /\ pending # 0 /\ pending = nonce[c]
          /\ OwnerCheck => registry # 0 /\ owner[pending] = registry
       THEN task' = [task EXCEPT ![c] = "matched"] /\ UNCHANGED open
       ELSE Refuse(c)
    /\ UNCHANGED <<regVars, poolVars, nonce, entry, cid, permits>>

AdmitRefusedOpen(c) ==
    /\ task[c] = "matched"
    /\ task' = [task EXCEPT ![c] = "admitted"] /\ UNCHANGED open
    /\ permits' = IF Cardinality(permits) < Budget THEN permits \cup {c}
                  ELSE permits
    /\ UNCHANGED <<regVars, poolVars, nonce, entry, cid>>

(* admit_direct.                                                           *)
Admit(c) ==
    /\ task[c] = "matched"
    /\ IF Cardinality(permits) < Budget
       THEN /\ permits' = permits \cup {c}
            /\ task' = [task EXCEPT ![c] = "admitted"] /\ UNCHANGED open
       ELSE Refuse(c) /\ UNCHANGED permits
    /\ UNCHANGED <<regVars, poolVars, nonce, entry, cid>>

LookUpAnyOwner(c) ==
    /\ task[c] = "admitted"
    /\ IF registry # 0
       THEN /\ task' = [task EXCEPT ![c] = "got"] /\ UNCHANGED open
            /\ entry' = [entry EXCEPT ![c] = registry]
       ELSE Refuse(c) /\ UNCHANGED entry
    /\ UNCHANGED <<regVars, poolVars, nonce, cid, permits>>

(* registry.get(key), and for SSH jump the check of the owner matched in   *)
(* the handshake.                                                          *)
LookUp(c) ==
    /\ task[c] = "admitted"
    /\ IF registry # 0 /\ (OwnerCheck => owner[nonce[c]] = registry)
       THEN /\ task' = [task EXCEPT ![c] = "got"] /\ UNCHANGED open
            /\ entry' = [entry EXCEPT ![c] = registry]
       ELSE Refuse(c) /\ UNCHANGED entry
    /\ UNCHANGED <<regVars, poolVars, nonce, cid, permits>>

(* DirectPool::install: a full pool closes the surplus connection.         *)
Install(c) ==
    LET r == entry[c] IN
    /\ task[c] = "got"
    /\ IF Cardinality(pool[r]) < PoolCap
       THEN /\ pool' = [pool EXCEPT ![r] = @ \cup {<<ids[r], c>>}]
            /\ ids' = [ids EXCEPT ![r] = @ + 1]
            /\ cid' = [cid EXCEPT ![c] = ids[r]]
            /\ task' = [task EXCEPT ![c] = "installed"] /\ UNCHANGED open
       ELSE Refuse(c) /\ UNCHANGED <<pool, ids, cid>>
    /\ UNCHANGED <<regVars, nonce, entry, permits>>

MonitorByKey(c) ==
    /\ task[c] = "installed" /\ c \notin open
    /\ task' = [task EXCEPT ![c] = "done"]
    /\ pool' = IF registry = 0 THEN pool
               ELSE [pool EXCEPT ![registry] = {m \in @ : m[1] # cid[c]}]
    /\ UNCHANGED <<regVars, ids, nonce, entry, cid, open, permits>>

(* The close monitor removes the member from the pool it was installed in. *)
Monitor(c) ==
    /\ task[c] = "installed" /\ c \notin open
    /\ task' = [task EXCEPT ![c] = "done"]
    /\ pool' = [pool EXCEPT ![entry[c]] = {m \in @ : m[1] # cid[c]}]
    /\ UNCHANGED <<regVars, ids, nonce, entry, cid, open, permits>>

(* The admission watcher releases the slot of a closed connection.         *)
Release(c) ==
    /\ c \in permits /\ c \notin open
    /\ permits' = permits \ {c}
    /\ UNCHANGED <<regVars, poolVars, connVars, open>>

(* The client or the network ends the connection.                          *)
PeerCloses(c) ==
    /\ c \in open
    /\ open' = open \ {c}
    /\ UNCHANGED <<regVars, poolVars, connVars, permits>>

Next ==
    \/ \E r \in Regs : \/ Register(r) \/ Offer(r) \/ CloseAll(r)
                       \/ Deregister(r) \/ DropNonce(r)
    \/ \E c \in Conns, n \in Nonces : Dial(c, n)
    \/ \E c \in Conns : \/ Handshake(c) \/ Admit(c) \/ LookUp(c) \/ Install(c)
                        \/ Monitor(c) \/ Release(c) \/ PeerCloses(c)

Spec == Init /\ [][Next]_vars

-----------------------------------------------------------------------------
(* The key has one owner: no two registrations serve it together, and the  *)
(* registry names the one that does.                                       *)
KeyExclusive ==
    \A r \in Regs : phase[r] \in {"live", "closed"} <=> registry = r

(* Every admitted connection that is still open holds a slot, and there    *)
(* are no more slots than the budget: whichever branch claims, refuses or  *)
(* drops the connection, none is open outside the budget.                  *)
BudgetHeld ==
    /\ Cardinality(permits) <= Budget
    /\ \A c \in Conns :
          c \in open /\ task[c] \in {"admitted", "got", "installed", "done"}
              => c \in permits

(* A monitor of an earlier registration never takes a newer member out of  *)
(* a pool (the defect recorded at server.rs:1928): a member leaves its     *)
(* pool only once its own connection is closed.                            *)
NoLiveEviction ==
    [][\A r \in Regs : \A m \in pool[r] \ pool'[r] : m[2] \notin open']_vars

(* A carrier serves only the registration whose nonce it presented.        *)
CarrierOfOwner ==
    \A r \in Regs : \A c \in Pooled(r) : owner[nonce[c]] = r

(* A live registration's last nonce stays pending until it is replaced:    *)
(* `cannot remove a replacement entry or nonce' (ssh_jump.rs), `Only OUR   *)
(* entry: never what the label resolves to now' (vhost.rs).                *)
NonceKept ==
    \A r \in Regs :
        phase[r] = "live" /\ (\E n \in Nonces : owner[n] = r)
            => pending # 0 /\ owner[pending] = r

=============================================================================
