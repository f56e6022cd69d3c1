# bore: TLA+ models, model checking and proofs

bore exposes local services through a server. A client keeps one yamux
connection to the server, optionally several TCP connections ("carriers") and
several QUIC connections ("direct carriers"), and the server opens a substream
on one of them for every visitor. Around that core the repository has secret
tunnels between two clients, an SSH gateway and an SSH jump registry, a VPN,
UDP hole punching, file transfer, one-shot links and browser rooms.

This directory models that program in TLA+. TLC checks small instances, TLAPS
proves the main invariants for every value of the constants. `PROJECT.json`
lists the runs, the mutants that show each property can fail, the source lines
behind each definition, the hazards and the theorems. Paths below are relative
to `src/src/`.

Contents: [inventory](#1-inventory), [plan](#2-plan),
[modules and code](#3-modules-and-code), [runs](#4-runs-and-bounds),
[fairness](#5-fairness), [proofs](#6-proofs),
[divergences](#7-divergences), [known limits](#8-known-limits),
[not modelled](#9-not-modelled).

## 1. Inventory

For each component: the state it keeps, its operations, whom it talks to, what
is hard about it, and what makes it correct.

### Modelled

**yamux multiplexer (`mux.rs`).** State: an atomic count of handles (Opener
clones, Acceptor, substreams), a waker, two bounded channels, a cancellation
token, the connection owned by a driver task. Operations: `open`, `accept`,
clone and drop of handles, `terminate`, the driver's poll. Everything else in
bore sits on it. Hard: the last drop races the driver's poll; an `open` races
the driver's exit; a substream changes hands through channels whose ends may be
dropped. Correct when the count is exact, no reference is orphaned, the driver
closes exactly the unused connections, and every `open` returns.

**Carrier pool (`pool.rs`, `client.rs`, `server.rs`, `vhost.rs`).** State on
the server: the vector of carriers with their `alive` flags and bulk counters,
the round-robin cursor, the adaptive target and its clocks, the map of pending
tokens. On the client: the pumps, `carrier_live`, `target_extra`, the flag of
a running re-dial batch. Operations: offer a token, dial, join, pick, grow,
shrink, re-dial, lose a carrier, end or trip. The two halves talk through
`CarrierToken`, `JoinCarrier` and `SetCarrierTarget`. Hard: dials, losses and target changes race; dead members stay in
the vector until a pick prunes them; detached tasks outlive the loop. Correct
when counts are exact, dials stay within the ceiling, the pool refills, the
pick is the least loaded carrier, and no token outlives its tunnel.

**Direct path, server (`server.rs`, `vhost.rs`, `ssh_jump.rs`,
`holepunch.rs`).** State: per key a registration, its pending nonce and its
pool of QUIC connections; a server-wide budget. Operations: register, offer,
accept a connection (handshake, admission, look-up, install), close monitor,
deregister. Hard: an accept task holds what it looked up while the
registration ends; ids of a pool start again at 0 with each registration;
guards of old registrations run late. Correct when a key has one owner, no
connection is open outside the budget, and nothing old touches what a newer
registration owns.

**Direct path, client (`client.rs`).** State: the slot counter, tasks, the
renewal and `up` channels, the backoff sleep. Operations: take an offer,
connect, fail, close, renew, stand down. Hard: nothing ticks, so a lost signal
is never repaired. Correct when slots are exact, the target is never exceeded
and a shortfall always has a renewal under way.

**Fast links (`fast_link/session.rs`, `fast_link/pump.rs`).** State: a slot per
upload (`Waiting`, `Streaming`, `Closed`) with two gauges, a hand-over channel
of one, the replay window, and per transfer a reader and a writer task with a
fixed set of buffers. Operations: upload, claim, hand over, stream, re-arm,
expire, fail. Hard: the deadline and the failures of the upload race a claim
that is on its way; a broken download may be tried again only while every byte
is still held; two tasks end for reasons that race each other. Correct when one
download is served at a time, the body arrives in order and whole or the
uploader hears that it did not, the gauges return to zero, and no link and no
claimed download stays for ever.

**File transfer (`transfer.rs`).** State: the staging directory with the
checkpoint `state.json`, the append-only journal and the staged files; in
memory the completed chunks, the pending records, the files to sync; at the
sender the queue of chunks. Operations: start, resume, fold the journal, accept
or reject, write and mark a chunk, flush, verify, reset a damaged file, commit
by renames, clean up, answer. Hard: every pair of writes can be cut by a crash
or a power cut, several streams flush through one lock, an aborted stream may
leave a blocking thread that still appends, and the commit is several renames.
Correct when a restart counts only chunks that are there, the destination sees
whole files only, `Completed` is the truth, and the transfer ends.

**Web transfer rooms (`web_transfer.rs`, `web_transfer_http.rs`,
`web/transfer/src/state.js`).** State of a room: its owner's lease with an
epoch, peers, offers, a revision, a bounded broadcast, a destroyed flag; of a
session: a receiver and the browser's view; of a transfer: its state, attempt,
relay slot, tickets, parked legs, deadline tasks and upgrade probe. Operations:
create, resume, detach, expire, close; hello, join, snapshot, subscribe,
publish, withdraw, leave; request, ready, signal, fail, fall back, admit,
attach, pump, complete, cancel. Hard: lock sections are short, and what was
read in one is used in the next; the relay semaphore is shared with other
rooms; detached tasks (deadlines, admission waits, expiries) act on what they
find; receivers are overrun. Correct when slots, tickets and watchers follow
the current attempt, an ended transfer stays ended, a resumed room is not
evicted, and browsers see the room as it is.

**Names of secret tunnels (`secret.rs`, `sshgw.rs`).** State: three maps keyed
by name: pools, SSH owners, UDP entries with their senders; per provider a
task with guards. Operations: register natively, offer UDP candidates, end;
peek, take over, place, own and end through SSH; broker a consumer. Hard: the
maps are locked one after the other, so a takeover and the guard of an old
holder interleave with a newcomer; native guards remove by name. Correct when
a name nobody holds is free, nobody loses a name he holds, and a consumer is
paired with the provider whose candidates it got.

**VPN server and hub client (`vpn_server.rs`, module `hub` of `vpn.rs`).**
State on the server: the registry of listeners by id, the address pool with its
/30 blocks and hub subnets, per hub a table of peers, a bounded event channel
and a token, per pairing a oneshot and a token. At the hub client: peers that
wait for their metadata or substreams, live peers, and the table that routes an
overlay address. Operations: register, pair, lease, join, leave, build a peer,
tear down. Hard: a connector reads the entry of a listener and uses it several
awaits later; guards of old handlers run late; Join and Leave travel on a
channel that may be full while the address is already given to the next spoke.
Correct when blocks are held once and freed, a waiting listener can be found,
an address routes to the spoke that has it, and the two sides of a link end
together.

### Not modelled yet

| component | state and operations | hard behaviour | properties worth stating |
| --- | --- | --- | --- |
| liveness and reconnection (`liveness.rs`, `reconnect.rs`) | silence deadline of the client, reap deadline of the server, backoff | the two deadlines race after an outage | the client returns with its own name within a bound; delays stay within the cap |
| public tunnels (`server.rs`) | port listener, connection permits, reaper | accept limits against slow clients | permits are exact; a reaped tunnel frees its port |
| SSH jump registry and SSH gateway (`ssh_jump.rs`, `sshgw.rs`), the rest | forwards per connection, channel permits | a connection ends while channels open | permits are exact |
| VPN (`vpn_server.rs`, `vpn.rs`), the rest | path state of a link, broker of UDP punches, reconnect policy | a swap of the direct path for the relay under traffic | path switches lose no link; a punch pairs the two sides of one link |
| transfer links (`transfer_link/`) | one-shot status, producer, body | claim, completion and drop of the body race | one claim; a terminal status is final |
| hole punching (`holepunch.rs`, `adaptive_nat.rs`, `portmap.rs`) | rounds with generations, candidate pairs, mappings with leases | both peers must agree on round and pair | peers that complete a round complete the same one |
| web log (`weblog.rs`) | bounded queue, rotation | queue at its limit | every record is written or counted as dropped |

Out of scope: `shared.rs` and `auth.rs` (message formats), `admin*.rs`
(read-only views), `transport.rs`, `fdlimit.rs`, `main.rs` (I/O and argument
parsing), `edge.rs`, `basicauth.rs`, `certinfo.rs`, `prefixed.rs` (data
transformation on one stream), `udp_diagnostic.rs` (a measurement tool), and
the crates (`crates/russh` is third-party code).

### How the parts interact

    visitor -> vhost / public listener -> CarrierPool.pick -> Mux.open --> client pump
                                      \-> DirectPool (QUIC) ------------> client spawn_direct
    client listen loop <- CarrierToken, SetCarrierTarget, VhostUdp -- tunnel loop
                       -- JoinCarrier, VhostUdpRenew, heartbeat ---->

Tasks share `DashMap`s (one lock per key), `Mutex`es that never span two maps,
atomics and channels. The models take one step per lock, atomic operation or
channel operation wherever another task can see the difference.

## 2. Plan

1. *Done:* `Mux`, `CarrierPool`, `BulkTicket`, `CarrierToken`, `DirectPath`,
   `DirectClient`, `FastLink`, with proofs.
2. *Done:* `FileTransfer` with its abstract specification `Delivery`;
   `WebRoom` and `WebTransfer`; `NameRegistry` (secret names, takeover, UDP
   broker); `VpnServer` (leases, pairing, hub and its client), with proofs.
3. Next, in this order: `Outage` (silence
   and reap deadlines with the backoff) composed with `NameRegistry` for the
   return of a client after an outage, the one-shot claim of transfer links,
   `PublicTunnel`, `Punch`, `WebLog`.

Every safety property of the runs has its theorem, but `PickLeastLoaded` of
`CarrierPool` (section 6); the modules to come are to have theirs too.

## 3. Modules and code

Every module states its properties at the end. `MC...` modules instantiate a
specification for TLC; `...Proofs` modules hold the theorems. Operators
whose names end in a deviation (`ReleaseTwice`, `PushUncapped`, ...) are not
part of a specification: each is a plausible wrong version of the definition it
precedes, and `PROJECT.json` pairs it with the property that catches it.

**`Mux`.** `handles`, `registered` and `waking` are the shared `Liveness`
record; `pc`, `woken`, `pending`, `openersGone` are the driver task; `reqs` and
`inbound` its channels; `strm` says where each substream is. A drop is two
steps, `Release` (the `fetch_sub`) and `Wake`. The driver's poll is split into
`PollLiveness` (register the waker, then read the count), `PollRequests`,
`PollOutbound`, `PollInbound` and `Deliver`, because handles change between
them. `DropDrive` is the cancelled driver of `spawn_driver_inner`; `PeerOpens`,
`PeerAcks` and `NetChange` stand for yamux and the socket. A path that is
`"silent"` carries nothing and reports nothing: only `Terminate` ends it.

**`CarrierPool`.** The server half is `pool`, `alive`, `cursor`, `joinq`,
`held` (the `serve_carrier` tasks) and the adaptive target with its two clocks,
abstracted to how they compare with the code's two periods; `Age` lets them
pass. The client half is `Client::new` (`DialInitial`), the loop (`Listen`,
`RedialTick`, `SetCarrierTarget`, `ClientEnds`, `ClientTrips`), the pumps and
the batch (`MaybeRedial`, `Redial`, `RedialFails`, `BatchDone`). `Pick` is the
whole of `pick_avoiding_bulk`: prune, order by load, break ties from the
cursor, move the cursor. `Classify` and `Finish` summarise `BulkTicket`.

**`BulkTicket`.** `record` of `pool.rs` at the grain of its atomics:
`AddBytes`, `CompareExchange`, `Count`; `Drop` subtracts what was counted. The
specification is `TicketSpec`, that of `CarrierToken` is `TokenSpec`, that of
`DirectClient` is `ClientSpec`, that of `WebRoom` is `RoomSpec` and that of
`NameRegistry` is `NamesSpec`, so that one module can speak of several.

**`CarrierToken`.** The set-up of a pool's token: insert, send, guard, in the
order of `server.rs` and `ssh_jump.rs` (the tunnels in `GuardFirst`, which own
the token before the send) or of `vhost.rs` and `secret.rs` (the others, which
own it after), against connections that look the token up and hand themselves
over in two steps. A set-up whose send fails ends as `"failed"`, a tunnel that
served as `"ended"`.

**`DirectPath`.** One key, its successive registrations (`phase`), the nonce
map (`pending`, `owner`), pools of `<<id, connection>>` pairs, and the accept
task of each connection (`Handshake`, `Admit`, `LookUp`, `Install`, `Monitor`,
`Release`). The end of a registration is `CloseAll`, `Deregister`, `DropNonce`,
in the order of the guard. `OwnerCheck` selects the SSH jump code, which binds
a nonce to its registration.

**`DirectClient`.** Tasks of `spawn_direct` are alike and counted
(`connecting`, `established`, `releasing`). The loop's arms are `ReceiveOffer`,
`ReceiveRenew`, `SleepOver` and `ReceiveUp`; a `ReceiveUp` that reads a full
pool (`seen`) is followed by `StandDown`, which drains the renewal channel.
`main.rs` builds a multi-threaded runtime, so tasks step while the loop is
inside an arm. `drained` is a history variable: a stand-down drained the signal
of a carrier that was lost after the counter was read (section 7).

**`FastLink`.** `up` says where `serve_upload` is: `"head"` and `"linking"` up
to the wait loop, `"waiting"`, `"late"` (expired with a claim in flight),
`"cut"` (upload ended with a claim in flight), `"starting"` and `"pumping"`
(`stream_handoff`), `"rearming"`, then `"failing"` or `"expiring"` while the
outcome is reported, and `"closing"` until `SlotGuard` is dropped. `down` is the
download task, `chan` the hand-over channel. The pump is `rd` and `wr` with
the channels `free` and `full`; a chunk is the pair of offsets it lies between.
`PollCancelled` and `PollFull` are the two polls of the writer's biased
`select!`, between which the reader may cancel and drop its sender. `Frame` is
the bookkeeping of `consumed` and `replay` after every read; a read that only
carries chunk framing is left out, since it changes neither. `got` counts what
was written and flushed; what a peer received of a write that failed is not
known to the server and not modelled.

**`FileTransfer` and `Delivery`.** `phase` says where `receive_transfer` is.
The disk is `ckpt`, `jrnl` and `right` (staged chunks that hold what was sent),
each with the part that has been synced; `dst`, `dstRight` and `bak` are the
destination and the backup of an overwriting commit. A write of the checkpoint
is atomic (temporary file, sync, rename). Each stream is a record of `worker`:
`WriteChunk`, `MarkChunk`, then the flush (`TakeBatch` under `persist_lock`,
`SyncData`, `AppendBatch`), and one more flush at its end (`LastFlush`).
`Abort` leaves the append of a blocking thread behind (`late`), `LateAppend`
performs it, and `stray` is a history variable: such an append outlived the
removal of the staging directory it is for (section 7). `commit_stage` is one action per rename, so that `Kill` and
`PowerCut` fall between any two. `Delivery` is what a user is promised: files
appear whole, only where nothing is or overwriting is allowed, a single root at
once, and the sender is told the truth. `weak` says whether a power cut may
spoil what has arrived: without fsync, and after a stray append. `FileTransfer` implements it under the
mapping `Has`, which reads a destination file as `new` when all its chunks are
right and as `spoilt` when they are not.

**`WebTransfer`.** One transfer record and everything that refers to it:
`timers`, `probeTimers`, `armed` and `admits` are the spawned tasks with the
attempt they captured, `waiter` and `legs` the relay sockets, `tickets` the
server's map with the attempt that each envelope names, `busy` the RELAY_BUSY
messages that were sent and whether the recipient's queue took them. Every lock
section of
`RoomState` is one action; the relay semaphore is `Free`, and `Elsewhere` lets
other rooms take and return its permits. An action that sends through the
outbox and one that is received from a browser are connected only by what the
browser may then do: any message a participant could send at that point.

**`WebRoom`.** The registry entry and `destroyed` flag of each incarnation of a
room, owners with their lease, expiry monitors, and per browser where
`establish` is. `Send` is tokio's broadcast: a ring of `Capacity`, a receiver
that falls behind loses the oldest messages and gets `Lagged`. `Reduced` is the
reducer of the browser (`state.js`), which does not look at revisions. Events
of one lock section are sent after it, one by one (`Flush`).

**`NameRegistry`.** One name. `holder`, `owners` and `udp` are the three maps,
`pc` the place of each provider's task. `Decide` and `EvictOwner` are the two
halves of `apply_takeover`, `DropName`/`DropUdp` and `DropPool`/`DropOwner` the
two removals of each guard, `ReadUdp`/`WriteUdp` the two accesses of an offer.
`crossed` is a history variable: a pool was registered while the owner record
of an earlier holder was still there.

**`VpnServer`.** The links of one id. `lst` and `cst` are the handlers of
listeners and connectors; a client that reconnects is another handler.
`registry`, `allocated`, `blocks`, `peers` and `events` are what the handlers
share, one step per lock. A connector looks the listener up (`LookUp`), leases
(`LeasePair` or `TakeSlot`), sends `VpnReady` and only then takes the entry
(`Pair`) or announces itself (`Announce`). A listener ends in the order of its
drops: receivers and pairing guard (`EndListener`), `Deregister`, then token
and lease (`CloseListener`). `HubPeerGuard` is `EndSpoke` and `Notify`. At the
hub client `Forward`, `RelayArrives`, `Build`, `PeerLeaves` and `SelfReport` are
the coordinator, which takes events and substreams in any order. Four history
variables mark what section 7 describes: `leaked`, `stolen`, `lost`, `reused`.

External, modelled from its use: yamux, TCP and QUIC connection loss, the
delivery of control messages, tokio's broadcast channel, and what a power cut
leaves of files that were not synced.

## 4. Runs and bounds

| run | shows | instance |
| --- | --- | --- |
| `mux` | no lost wake, only idle connections closed; idle connections are released and `open` returns | 2 callers, 2 substreams, channels of 1 |
| `carrier_auto` | exact `carrier_live`, least-loaded pick | adaptive pool, 2 extra connections, 2 tickets |
| `carrier_explicit` | top-up | 2 carriers asked for, 2 connection identities |
| `shared` | exact occupancy; a token outlives its tunnel only by a failed send of a set-up that owns it afterwards; no carrier queued for an ended tunnel | 2 connections with 2 directions, threshold 3; 2 tunnels, one of each order, 2 joiners |
| | budget, owner's carriers, harmless monitors | 2 registrations, 2 nonces, 3 connections, budget 2 |
| | freed names, kept names, matched punches | 2 native and 3 SSH providers of 2 identities, 1 consumer, 2 channels each |
| `direct_client` | target; a shortfall is forgotten only by a drain that took a late signal; top-up otherwise | target 3, 3 signals of a kind |
| `fast_link` | one download, whole or reported, replay whole, order, links and claims end | 3 downloads, body of 4, window of 2, depth 2 |
| `file_transfer` | claims hold, `Delivery` is implemented, files arrive | 2 files of 2 and 1 chunks, 2 streams, flush every 2, 2 faults, 3 combinations of options |
| `web_transfer` | slot, tickets and watchers follow the attempt; negotiation ends; an ended transfer moves only by a pending probe | 5 attempts, 2 upgrade offers, 1 relay permit, rooms with and without relay-only |
| `web_room` | views agree, attached is listed, detached rooms end, closing is heard | 1 room, 2 owners, 2 browsers, broadcast of 1, 3 revisions, 1 resume |
| `vpn_server` | exact leases, waiting listeners found, spokes routed, links end on both sides | 2 listeners (1:1 or hub), 2 connectors, pool of 16, subnets of 8, 2 spokes, event channel of 1 |

`MCShared` holds four modules, `BulkTicket`, `CarrierToken`, `DirectPath` and
`NameRegistry`. They share no state, so the variable `part` picks the one that
moves in a behaviour and the others stay where they began; nothing is lost by
it, and their states are added up instead of multiplied.

Two more runs check a sentence of the repository's own comments that the code
does not keep. TLC must find each violated, on the instance of the passing run
of the same module; section 7 explains them:

| run | property | the sentence |
| --- | --- | --- |
| `pool_orphan` | `NoOrphanToken` | `pool.rs:455`: the guard is built "BEFORE the fallible send" |
| `web_ticket_name` | `TicketsNameTheirAttempt` | `web_transfer.rs:5267`: "only if the transfer still waits for this exact attempt" |

The runs list what takes several steps to violate. The type invariants
(`TypeOK`) stay in the modules as the description of the state; the counts
`RefCount`, `EveryRefOwned`, `DialBudget`, `CrossesOnce`, `KeyExclusive`,
`SlotsExact`, `GaugesExact`, `ExplicitTargetFixed` and `NonceKept` stay because
section 6 proves them for every instance.

Why the bounds are enough. In `Mux` each hazard is a race of at most two
holders with the driver; channels of one element are full as soon as one
request or substream waits, which is the case that blocks. In `CarrierPool`
two identities are reused once nothing refers to them, so a run has any number
of dials and losses; a pool of Main and two connections is enough for a tie,
for a full pool with a dead member, and for a batch that finds a carrier it
counted dead. `CursorMod` is a common multiple of the pool sizes, so the
cursor modulo it decides as the unbounded cursor does. `DirectPath` needs an
old and a new registration, hence two, and three connections so that one is
refused by a budget or pool of two. In `DirectClient` the bound on signals is
the target: a task sends one signal of each kind. In `FastLink` three
downloads are one that streams, one that claims after a re-arm and one that is
refused; the body is twice the window, so that a transfer breaks before,
at and after its edge, and larger than the depth, so that buffers must come
back. In `FileTransfer` one file has two chunks, so that it can be resumed
half-way, and two faults are one that leaves something behind and one that cuts
the recovery from it. The other five combinations of options were checked
separately, with the same properties. In `WebTransfer` five attempts allow a
negotiation, its fallback, a probe, its failure and one more fallback; without
liveness the safety properties were also checked with six. In `WebRoom` a
broadcast of one message overruns a receiver at the second event; two
incarnations of a room with one browser, and a capacity of two with four
revisions, were checked separately for safety. In `NameRegistry` three SSH
providers are an incumbent, a newcomer of its identity and a stranger, and two
native ones an old holder and the next. In `VpnServer` two listeners are an old
registration and the next, two connectors an earlier and a later spoke of one
address, or two that race for one listener; a pool of 16 holds two hub subnets
or four /30 blocks, so that each kind of block meets the other, and a channel
of one is full at the second event. Three connectors with one listener, where a
third spoke finds the hub full, were checked separately for safety. The theorems of section 6
hold for every value of these constants.

Deadlock is not checked where the system may rest: a closed connection, an
ended tunnel, a filled pool are states in which nothing needs to happen.

## 5. Fairness

Liveness is checked under the weakest fairness that the scheduling justifies.

* `Mux`: the driver is a runtime task that runs when woken; a dropper that has
  subtracted goes on to wake; a caller whose `send` or oneshot is ready is
  polled. The sending of a request has strong fairness because tokio's bounded
  channel is a fair semaphore. The peer acknowledges infinitely often if it
  could, except on a silent path, which the properties exempt. Nobody has to
  drop a handle, terminate or `accept`: most callers take the control substream
  and then hold the Acceptor without polling it again (`server.rs:2495`,
  `secret.rs:1246` and 2007, `vpn.rs:2301`, `web_transfer_cli.rs:257`).
  `OpenAnswered` is therefore conditional on the inbound channel not being full
  for ever (`Congested`).
* `CarrierPool`: pumps, carrier tasks and both loops run when ready, dials
  infinitely often possible succeed once (`SF` on `Redial`: the ticker tries
  again for ever), and a proxied connection ends some day, because an identity
  is used again only after its last visitor. Losses, trips and visitors are not
  forced.
* `DirectClient`: every arm of the loop that is ready again and again is
  served (`tokio::select!` picks at random), a dial that is tried again and
  again succeeds, the server answers. The conclusion is conditional on
  failures stopping.
* `FastLink`: every task goes on. Reads and writes end within the stall
  timeout, the wait loop at its deadline, and a claimant sends in the step
  after its claim. Nobody has to download.
* `FileTransfer`: the tasks of a run go on, a blocking thread finishes its
  append, and the sender's command is run again until it is told. Faults are
  finitely many by the bound. No fault is forced.
* `WebTransfer`: a spawned sleep ends and its task runs, a wait for the relay
  semaphore ends by its timeout, and legs and pumps end by their timeouts.
  Browsers owe nothing: no `ready`, signal, attach or completion is forced.
* `WebRoom`: a session of `establish` goes on, events are broadcast, a
  receiver that has something to read reads it, an expiry sleep ends and its
  steps follow. Nobody has to join, resume, close or leave.
* `VpnServer`: a handler that has something to do goes on, drops what it holds
  when it ends and sees a cancelled token (`ListenerRuns`, `ConnectorRuns`),
  and a hub forwards its events, so that a Join that waits for room is sent.
  Nobody has to connect, pair or leave.

## 6. Proofs

All of them are safety; each theorem's inductive invariant strengthens the
checked property as follows.

* `MuxProofs`: `OwnInv` (types, `EveryRefOwned`, and that a request in the
  channel belongs to exactly one waiting caller) is inductive by itself. It is
  needed by `CountInv`: that a drop takes the count down by one *existing*
  reference requires that the reference is where `OwnInv` says. `WakeInv` adds
  what the driver has read: a driver past the registration has a waker that a
  dropper will use. From the three follow `TypeCorrect`, `ReferenceCount`,
  `RefsOwned`, `WakeNeverLost` and `NeverClosedInUse`.
* `CarrierPoolProofs`: `DialInv` joins `LiveCount` and `DialBudget` with what
  the client's phase says about `need`, `inflight` and the acceptors; without
  it a batch could be imagined that starts during `Client::new`. Gives
  `CarrierAccounting`. `ExplicitInv` adds that a target nobody changed has no
  change date, which is the guard of the shrinking arm. Gives
  `ExplicitPoolFixed`. For `BulkTicket`, `BulkInv`: at most one half of a
  ticket is past the compare-exchange, and dropped tickets have no running
  half. Gives `Occupancy` and `CrossingOnce`. For `CarrierToken`, `TokenInv`:
  a token in the map belongs to a tunnel whose guard exists, or to one that
  owns its token after the send and has not come to serve (`TokensOwned`), a
  guard has a tunnel under way, and a queued carrier a task that holds it. Gives `NoOrphan`,
  for any mixture of the two orders: `OrphanOnlyByFailedSend`.
* `DirectProofs`: for `DirectPath`, what a task looked up, which ids a pool
  has given out, and that a monitor's id names its own member. The last is what
  makes a late monitor harmless although ids restart with each registration.
  Gives `KeyAndBudget`, `JumpOwnership` (the properties that need the owner
  check) and `StaleMonitorsHarmless` (an action property). For `DirectClient`,
  the counters with the arm the loop is in and the value it has read. Gives
  `SlotAccounting`, and `ShortfallNeverLost`: `ShortfallLostOnlyByDrain`, with
  tasks that step inside the arms.
* `FastLinkProofs`: `SlotInv` says which slot state and which download each
  place of the upload task implies, and that the replay buffer is whole or
  given up, and whole until a pump runs. Without the places `ReplayWhole`
  would not survive a re-arm. Gives `OneDownload`, `GaugesFollow` and
  `RearmKeepsAll`. `PumpInv` adds the pump: `Chain`, that the chunk being
  written, those in the full channel and the one being sent lie end to end
  between what was flushed and what was read, and `PumpPlace`, which ends of
  the two tasks go together, so that a pump that ended well has an empty
  channel behind it. Gives `DoneWhole` and `StreamOrder`.
* `NameRegistryProofs`: `NameInv`. `Guarded`: a name in a map has a task whose
  guard will remove it, which is `NameFreed`. `Held`, as long as no
  registration crossed a guard's two removals: a native provider keeps the name
  and has no owner record beside it, an SSH forward has the name and then the
  record, until the eviction that removed its pool aborts it.
  `Entries`: the sender of a UDP entry is that of the provider who made it,
  or its receiver is gone, which is what `PunchMatched` needs of a look-up. Gives `NameIsFreed`,
  `NamesAreKept` and `PunchesMatch`.
* `VpnServerProofs`: `Known` (types, and which handler a registry entry can
  name) gives `WaitingListed`. `LeaseInv` says that the allocated blocks are
  those of the leases and leaks, that two of them lie apart, and that a block
  found free lies apart from all; hub subnets are longer than pair blocks, so
  the argument is about spans and not about equal blocks. Gives
  `LeasesAreExact`. `HubInv` follows a spoke from its slot to the hub's table:
  `Slots` (of the spokes that are up, each has its own address), `UnderWay` (a
  Join comes before the Leave of its spoke, and a spoke that has ended and is
  known to the hub has its Leave on the way, unless a full channel dropped it),
  and `Succession` (the events of an earlier spoke of an address come before
  those of the later one, unless that is marked `reused`). Gives
  `SpokesAreRouted`.
* `WebTransferProofs`: `TransferInv`. `Numbers`: the current attempt and the
  one being probed have begun, and the probe is the younger. `LegsPlaced`: no
  leg has come for an attempt before its tickets were minted, and the current
  attempt is pumped only once it is active. `NamesPast`: an admission task
  names no later attempt than the current one, which bounds what an envelope
  can name. Together with the three invariants themselves this is inductive.
  Gives `SlotsFollowRelays`, `TicketsAreCurrent` (tickets are *bound* to the
  current attempt, and both envelopes name the same one, current or
  superseded), `QueuedAreWatched` (an admission task waits, or RELAY_BUSY was
  *sent* for this attempt) and, from `EndedUnlessProbed`, `EndedTransfersStay`.
  For `WebRoom`,
  `Placed` says of each session what its place in the protocol implies (an
  empty receiver before the subscription, at most what one operation commits
  to be broadcast). `OwnerInv` adds that a room has one lease, that a monitor
  past its verdict belongs to a room that is detached or `excused`, and that a
  room about to end by its revision is `excused`. Gives `AttachedListed`.
  `ViewInv` follows each pair of a browser p and a peer q: what q has to
  broadcast is true (`Pend`), p sees and hears only of peers of its room
  (`Locate`) and of a departure only when q is gone (`Part`), the *last* event
  about q in p's receiver is true unless q has a newer one to broadcast
  (`Hear`), and where nothing is under way p shows what the room has (`Show`).
  `Hear` is what a snapshot taken in the middle of the stream needs: the events
  still in the receiver are older than the snapshot, and only their order makes
  the browser end where the room is. It is stated of peers and of offers apart,
  because the snapshot reads them under two locks. Gives `ViewsAreRight`.
* `FileTransferProofs`: `TransferInv` has four parts. `TypeOK`. `RunInv` is the
  bookkeeping of one run: a chunk in a stream's hand is written and in no
  other hand (`Hands`), what waits to be recorded was written (`Batches`), the
  counter of a file, which lets verification skip it, is at most the number of
  its chunks this run has written (`Counted`), and a commit has moved or still
  has staged every file (`Commits`). `Present`
  says that claimed chunks are with the kernel as long as no power was cut, and
  `SyncInv` that they are on the disk: for what the disk claims
  (`ClaimsSynced`), for what was loaded from it (`LoadedSynced`), for a batch
  between its sync and its append (`BatchesSynced`), for an append left behind
  (`LateSynced`) and for what was moved into place (`PlaceSynced`). Each is
  needed because the claim passes from one to the next: memory, batch, journal,
  checkpoint. `ClaimsAreStaged` follows. `TransferDelivers` is the refinement:
  under `TransferInv` every step of `FileTransfer` is a step of `Delivery` or
  leaves `mode`, `Has`, `told` and `weak` alone; what makes the moves `Deliver`
  steps is that a verified file is staged whole, and what makes a power cut a
  stutter with fsync is `PlaceSynced`.

Assumptions are those of the modules' `ASSUME`s: finite sets, positive
capacities, a value `None` that is neither a handler nor a number, and the
relations between `Effective`, `Ceiling` and `AutoCarriers` that the code
establishes by clamping.

Only model-checked: all liveness properties (`IdleConnectionReleased`,
`OpenAnswered`, `TopUp`, `DirectTopUp`, `LinkEnds`, `ClaimEnds`,
`DeliversEventually`, `NegotiationEnds`, `DetachedEnds`, `ClosedIsHeard`,
`EndsTogether`), because the prover has no rules for fairness;
`PickLeastLoaded` of `CarrierPool`, because what the recursive function of
`choose_carrier` computes for every length of the pool needs an induction over
that length, which the prover's theorems of induction cannot be used for.

## 7. Divergences

What the code does where its own comments or docs say otherwise. A name in
parentheses is the run that shows it; where a passing property exempts the
behaviour instead, the text names the property and what marks the exemption.

* `CarrierPool::push` (`pool.rs:199`) counts dead members that no pick has
  pruned, so the replacement of a lost carrier can be refused while its
  connection, its pump and `carrier_live` stay; nothing dials again and the
  pool stays short. `README.md:533` says "it just runs with fewer carriers
  until the re-dial succeeds".
* `vhost.rs:1126` and `secret.rs:463` build the `TokenGuard` after the send
  that can fail, so the token stays in the map; `server.rs:3063` documents why
  the other order is needed. (`pool_orphan`)
* The driver of `mux.rs:624` waits for room in the inbound channel of 32. A peer
  that opens more substreams than that to a side whose Acceptor is held and not
  polled (section 5) stops the driver, and every `open` of that side waits until
  the connection is terminated. `OpenAnswered` exempts it by `Congested`.
* An accept task (`server.rs:1909`) can install a connection after `close_all`;
  it then outlives its registration and keeps its budget slot. `vhost.rs:578`
  says that `close_all` is there so that carriers are not kept alive.
* The stand-down of `client.rs:1930` can drain the signal of a carrier that
  failed after the counter was read: the pool stays short, with no renewal
  under way, until the next signal, although the comment at 1915 stands the
  renewal down "ONLY once the pool has actually reached its target".
  `ShortfallLostOnlyByDrain` shows that nothing else loses a shortfall and
  `DirectTopUp` that the pool fills up otherwise; `drained` marks the case.
* `upgrade_ready` (`web_transfer.rs:4190`) does not ask whether the transfer is
  live. A probe that is pending when the transfer ends can still commit: the
  ended record becomes `ActiveDirect`, and `transfers_current` is lowered again
  when it ends a second time. `docs/plans/001_plan-WebTransfer/STATE.md:841` says "exactly one terminal wins".
  `EndedUnlessProbed` states what remains true.
* `admit_relay` (`web_transfer.rs:5336`) does not compare the attempt it was
  spawned for with the one that waits when the slot is granted: it binds the
  tickets to the current one, while the envelopes name its own. The attach is
  then denied (5694), both tickets are spent and the relay slot stays with the
  attempt until the transfer ends; so does the slot of tickets nobody uses.
  (`web_ticket_name`)
* When its wait times out, `admit_relay` sends RELAY_BUSY with `send_to`, which
  drops the message on a full queue, and does not look at the result
  (`web_transfer.rs:5301`). The transfer then waits with no task and a recipient
  that has not been told to try again, although the comment at 5269 says "On
  timeout the recipient hears `RELAY_BUSY`". `QueuedIsWatched` asks only that the
  message was sent; `busy` records whether the queue took it.
* A parked leg whose timeout fires in the poll in which the hand-off succeeds
  (`web_transfer_http.rs:1208`) exits quietly, and so does the leg that handed
  over: neither aborts the attempt.
* `establish` (`web_transfer.rs:3227`) takes the snapshot of the peers, then
  that of the offers, and subscribes last. An event in between is missed for
  good, since the browser does not compare revisions: it may show a peer that
  has left. `ViewsAgree` exempts sessions an event has passed by.
* A browser that joins after `destroy`, or whose receiver is overrun after
  `RoomClosed`, does not hear of it; nobody selects on `room.cancel`, although
  its comment says "waiters select on it".
* The expiry's verdict and its removal are two steps (`web_transfer.rs:6634`):
  a room resumed between them is evicted, although the comment at 6592 says "a
  resumed or reused room is never evicted". `resume` in turn may attach a room
  that was removed since its look-up. `AttachedIsListed` exempts both.
* A pool registered between the two removals of a guard (`sshgw.rs:3010`) or
  of a takeover (`sshgw.rs:3170`) stands beside the owner record of its
  predecessor. A native holder can then be evicted, although `sshgw.rs:3045`
  says "always rejected, never evicted", and its guard later removes the
  winner's entry by name. `crossed` marks these behaviours; without it TLC
  violates `HoldersKeepNames` and `PunchMatched`.
* A provider that adopts the UDP entry of the connection it replaces keeps a
  dead sender however often it offers again (`secret.rs:256`); its consumers
  stay on the relay.
* A connector whose `VpnPairMsg` lies in the oneshot when the listener ends
  stays up: dropping the message does not cancel its token. `vpn_server.rs:238`
  says "whichever ends first ends the other", and the comment at 1723 wants to
  avoid "idling paired to nothing". `EndsTogether` speaks of pairings the
  listener has received.
* `vpn_server.rs:1708` removes whatever entry is under the id. A connector that
  read an earlier listener can take a hub's entry, after which the hub is not
  found any more, or pair a later listener while its relay opener and its
  overlap check are those of the earlier one. `stolen` marks these entries.
* A hub refused for an overlap (`vpn_server.rs:678`) leaves its subnet
  allocated: the guard is made at 691. `leaked` marks these blocks.
* The hub client removes a leaver's route by address (`vpn.rs:11342`), and the
  server frees the address before it queues the Leave, which a full channel
  drops. A late Leave then removes the route of the spoke that has the address
  now. The comment at `vpn.rs:11338` calls the removal idempotent. `SpokeRouted`
  exempts the spokes in `reused`.
* Substreams that arrive after their spoke's Leave make a pending entry that
  nothing removes, although `vpn.rs:11109` logs "dropping pending".
* `ResumeJournal::append` runs in `spawn_blocking`, which an abort of the
  transfer does not stop. An append that is still running when a later run
  removes the staging directory can write its records into the journal of the
  run after that, where they claim chunks nobody staged. `transfer.rs:513` says
  "a chunk is announced complete only after its bytes are durable". The re-hash
  before the commit finds it, unless the chunks have meanwhile been written
  again and are not on the disk yet; then a power cut can spoil a delivered
  file. It takes three faults, and was found by the proof of the
  refinement: `stray` marks it, and `ClaimsHold` and `Delivery` exempt it.
* Verification skips a file this run wrote in full (`transfer.rs:2600`). Chunk
  hashes are taken when a chunk is sent, so a source that is edited during the
  transfer is committed with bytes the manifest did not hash.

## 8. Known limits

Two behaviours of the carrier pool are reachable in the model and have no
property, because the code promises nothing about them. A re-dial batch is a
detached task (`client.rs:2480`): one that runs while the session trips opens
carriers after `terminate_all`, and nobody terminates those. And when a
control connection ends without a trip, the pump of an idle carrier waits in
`accept()` and its `serve_carrier` task in `recv()`, so that the connection
stays until the network ends it.

`NonceKept` needs the owner check of the SSH jump code: with `OwnerCheck =
FALSE` TLC finds that the guard of a vhost registration, which removes the
pending nonce by name after the name is free (`vhost.rs:626`), can remove the
nonce of the next registration, although `vhost.rs:621` says "Only OUR entry".

In `FastLink` a download can claim the slot while its upload is inside `fail`
(the slot still waits there after a malformed body or a failed re-arm line), or
hand itself over after `HANDOFF_RECV_TIMEOUT`. It is then dropped with the
channel and gets no HTTP answer; `ClaimEnds` says that it ends, not that it is
answered. The comment of `SlotState` says that `SlotGuard::drop` is the only
path that closes a waiting slot; `take_or_close` is another.

A file transfer can be stuck for ever in three ways that `DeliversEventually`
exempts or that leave the files delivered: a crash between the rename into
place and the removal of the staging directory makes every later run fail with
"destination already exists" under `fail` and `rename`, although the files are
there; a single directory cannot be renamed over a non-empty
`overwrite-backup` that a crash left; and without fsync a power cut that spoils
a moved child blocks a multi-source transfer under `fail`. A rejection after a
crash between the two renames of an overwriting commit deletes the backup with
the staging directory, and with it the user's old files. A crash inside
`remove_dir_all`, followed by a fresh start that is itself cut off between the
empty checkpoint and the removal of the journal, leaves claims that are false
until the re-hash finds them (`torn`).

Assumed of the file system: renames and removals keep their order and survive
a power cut; only contents that were not synced may be lost. `--rename` is
treated as `fail` to a free name.

In `NameRegistry` the abort of a task that waits for its own abort handle
between its two inserts (`sshgw.rs:1549`) is left out. In `VpnServer` a hub
client whose `try_build_peer` fails for want of a session index or a key
(`vpn.rs:11438-11456`) drops the pending peer; `Build` always succeeds. In
`WebTransfer` one transfer is modelled; others appear as users of the relay
slots.

Not modelled in the covered components: the bytes of a relayed stream, TLS and
HTTP, authentication (a nonce is either the pending one or not), wall-clock
durations (only their comparison with the code's thresholds), admin counters
and logging. Liveness of the server's direct path is not stated: nothing in
the server makes a client dial.

## 9. Not modelled

The table of section 1 says what remains and why it is worth modelling. The
map covers a small part of the repository's lines. Most of the remaining lines
are tests (about a third of every large file), the rest of the VPN client and hole punching
(packet handling and operating-system set-up, with a session logic that is
planned), message definitions and their validation, command line, admin views,
and the vendored SSH library. A model of those would restate parsing and I/O;
the properties that are hard to test are in the parts listed in section 2.
