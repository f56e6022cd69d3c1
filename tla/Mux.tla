---------------------------------- MODULE Mux ----------------------------------
(***************************************************************************)
(* One yamux connection of src/src/mux.rs: the driver task that owns the   *)
(* connection, the counted handles (Opener clones, the Acceptor, every     *)
(* substream) whose last drop makes the driver close, the bounded channels *)
(* of open requests and of inbound substreams, and the terminate switch.   *)
(*                                                                         *)
(* The driver's poll is split where another thread can interleave: the     *)
(* waker is registered, then the count is read, then the request channel,  *)
(* yamux's outbound side and yamux's inbound side are polled.  A drop is   *)
(* split at fetch_sub and wake().  yamux and the socket are external: what *)
(* the driver can observe of them is `net', `backlog' and the substreams   *)
(* on the wire.                                                            *)
(***************************************************************************)
EXTENDS Naturals, Sequences, FiniteSets

CONSTANTS
    Callers,      \* tasks that may hold an Opener clone and call open()
    Streams,      \* substream identities; |Streams| stands for MAX_NUM_STREAMS
    OpenCap,      \* capacity of the open-request channel (32 in the code)
    InboundCap,   \* capacity of the inbound channel (32 in the code)
    None,         \* no caller / no substream
    Cancelled     \* a request whose caller dropped the open() future

ASSUME MuxAssumption ==
    /\ IsFiniteSet(Callers) /\ Callers # {}
    /\ IsFiniteSet(Streams)
    /\ OpenCap \in Nat \ {0} /\ InboundCap \in Nat \ {0}
    /\ None \notin Callers \cup Streams \cup {Cancelled}
    /\ Cancelled \notin Callers

VARIABLES
    \* the shared Liveness record
    handles,      \* AtomicUsize
    registered,   \* the AtomicWaker holds the driver's waker
    waking,       \* droppers between a fetch_sub that returned 1 and wake()
    \* what the application holds
    opener,       \* callers that hold an Opener clone
    acceptor,     \* the Acceptor is held
    call,         \* per caller, its open(): "idle", "sending", "waiting"
    reply,        \* per caller, the substream in its oneshot, or None
    strm,         \* per substream, where it is
    terminated,   \* the Activity's cancellation token
    \* the driver task
    pc,           \* where the driver is
    woken,        \* the task is scheduled to be polled again
    pending,      \* the request being serviced: a caller, Cancelled or None
    openersGone,  \* the request channel reported that every Opener is gone
    reqs,         \* open requests in the channel
    inbound,      \* substreams in the inbound channel
    \* the connection underneath
    net,          \* "up", "silent" (nothing arrives or leaves), "closed"
    backlog       \* yamux refuses new outbound substreams until acks arrive

livenessVars == <<handles, registered, waking>>
appVars == <<opener, acceptor, call, reply>>
driverVars == <<pc, pending, openersGone>>
vars == <<handles, registered, waking, opener, acceptor, call, reply, strm,
          terminated, pc, woken, pending, openersGone, reqs, inbound, net,
          backlog>>

StreamState == {"free", "wire", "sending", "queued", "reply", "app"}
Counted == {"sending", "queued", "reply", "app"}   \* carry a ConnRef
DriverState == {"parked", "poll", "count", "recv", "outbound", "inbound",
                "deliver", "closing", "exited"}

TypeOK ==
    /\ handles \in Nat /\ waking \in Nat
    /\ registered \in BOOLEAN /\ woken \in BOOLEAN
    /\ opener \subseteq Callers
    /\ acceptor \in BOOLEAN /\ terminated \in BOOLEAN
    /\ call \in [Callers -> {"idle", "sending", "waiting"}]
    /\ reply \in [Callers -> Streams \cup {None}]
    /\ strm \in [Streams -> StreamState]
    /\ pc \in DriverState
    /\ pending \in Callers \cup {None, Cancelled}
    /\ openersGone \in BOOLEAN /\ backlog \in BOOLEAN
    /\ reqs \in Seq(Callers \cup {Cancelled})
    /\ inbound \in Seq(Streams)
    /\ net \in {"up", "silent", "closed"}

At(states) == {s \in Streams : strm[s] \in states}

\* spawn_driver_inner: opener and acceptor are counted before the task starts.
Init ==
    /\ handles = 2
    /\ registered = FALSE
    /\ waking = 0
    /\ \E c \in Callers : opener = {c}
    /\ acceptor = TRUE
    /\ call = [c \in Callers |-> "idle"]
    /\ reply = [c \in Callers |-> None]
    /\ strm = [s \in Streams |-> "free"]
    /\ terminated = FALSE
    /\ pc = "parked"
    /\ woken = TRUE
    /\ pending = None
    /\ openersGone = FALSE
    /\ reqs = <<>>
    /\ inbound = <<>>
    /\ net = "up"
    /\ backlog = FALSE

-------------------------------------------------------------------------------
(* ConnRef *)

\* Mutants: the result of fetch_sub compared with zero; a double decrement.
ReleaseNewCount(n) ==
    /\ handles' = handles - n
    /\ waking' = IF handles = 0 THEN waking + 1 ELSE waking
    /\ UNCHANGED registered

\* Drop of n references by an application thread: fetch_sub, and only the
\* drop that takes the count to zero goes on to wake the driver.
Release(n) ==
    /\ handles' = handles - n
    /\ waking' = IF handles = n THEN waking + 1 ELSE waking
    /\ UNCHANGED registered

\* Mutant: a substream handed out without a ConnRef.

\* ConnRef::new, as clone() and track() call it.
Track == handles' = handles + 1

\* waker.wake(): takes the registered waker, if any, and schedules the task.
Wake ==
    /\ waking > 0
    /\ waking' = waking - 1
    /\ woken' = (woken \/ registered)
    /\ registered' = FALSE
    /\ UNCHANGED <<handles, appVars, strm, terminated, driverVars, reqs,
                   inbound, net, backlog>>

\* Drop of one reference by the driver itself, whose own fetch_sub and wake
\* cannot interleave with its polling.  `before' is the count it drops from.
ReleaseByDriver(before) ==
    /\ handles' = before - 1
    /\ woken' = (woken \/ (before = 1 /\ registered))
    /\ registered' = (registered /\ before # 1)
    /\ UNCHANGED waking

-------------------------------------------------------------------------------
(* Opener and Acceptor, as the application uses them *)

CloneOpener(c, d) ==
    /\ c \in opener /\ d \notin opener
    /\ opener' = opener \cup {d}
    /\ Track
    /\ UNCHANGED <<registered, waking, acceptor, call, reply, strm, terminated,
                   driverVars, woken, reqs, inbound, net, backlog>>

\* The future of open() borrows the Opener, so only an idle caller drops it.
DropOpener(c) ==
    /\ c \in opener /\ call[c] = "idle"
    /\ opener' = opener \ {c}
    /\ Release(1)
    /\ UNCHANGED <<acceptor, call, reply, strm, terminated, driverVars, woken,
                   reqs, inbound, net, backlog>>

Open(c) ==
    /\ c \in opener /\ call[c] = "idle"
    /\ call' = [call EXCEPT ![c] = "sending"]
    /\ UNCHANGED <<livenessVars, opener, acceptor, reply, strm, terminated,
                   driverVars, woken, reqs, inbound, net, backlog>>

\* self.requests.send(tx).await: waits for room, fails once open_rx is gone.
SendRequest(c) ==
    /\ call[c] = "sending"
    /\ \/ /\ pc # "exited"
          /\ Len(reqs) < OpenCap
          /\ reqs' = Append(reqs, c)
          /\ call' = [call EXCEPT ![c] = "waiting"]
       \/ /\ pc = "exited"
          /\ call' = [call EXCEPT ![c] = "idle"]
          /\ UNCHANGED reqs
    /\ UNCHANGED <<livenessVars, opener, acceptor, reply, strm, terminated,
                   driverVars, woken, inbound, net, backlog>>

InChannel(c) == \E i \in 1..Len(reqs) : reqs[i] = c

\* The oneshot was dropped, or answered with an error.
Disconnected(c) ==
    call[c] = "waiting" /\ pending # c /\ reply[c] = None /\ ~InChannel(c)

\* rx.await: the substream, or disconnected().
FinishOpen(c) ==
    /\ \/ /\ call[c] = "waiting" /\ reply[c] # None
          /\ strm' = [strm EXCEPT ![reply[c]] = "app"]
          /\ reply' = [reply EXCEPT ![c] = None]
       \/ /\ Disconnected(c)
          /\ UNCHANGED <<strm, reply>>
    /\ call' = [call EXCEPT ![c] = "idle"]
    /\ UNCHANGED <<livenessVars, opener, acceptor, terminated, driverVars,
                   woken, reqs, inbound, net, backlog>>

\* Mutant: the substream in an abandoned oneshot is not dropped.

\* A substream already in the oneshot is dropped with it.
DropReply(c) ==
    IF reply[c] # None
    THEN /\ strm' = [strm EXCEPT ![reply[c]] = "free"]
         /\ reply' = [reply EXCEPT ![c] = None]
         /\ Release(1)
    ELSE UNCHANGED <<strm, reply, livenessVars>>

\* The caller drops the future (the timeouts around every open in server.rs
\* and vhost.rs): the request stays behind with a dead oneshot.
CancelOpen(c) ==
    /\ call[c] # "idle"
    /\ call' = [call EXCEPT ![c] = "idle"]
    /\ reqs' = [i \in 1..Len(reqs) |->
                  IF reqs[i] = c THEN Cancelled ELSE reqs[i]]
    /\ pending' = IF pending = c THEN Cancelled ELSE pending
    /\ DropReply(c)
    /\ UNCHANGED <<opener, acceptor, terminated, pc, openersGone, woken,
                   inbound, net, backlog>>

Accept ==
    /\ acceptor /\ inbound # <<>>
    /\ strm' = [strm EXCEPT ![Head(inbound)] = "app"]
    /\ inbound' = Tail(inbound)
    /\ UNCHANGED <<livenessVars, appVars, terminated, driverVars, woken, reqs,
                   net, backlog>>

\* Dropping the Acceptor drops the channel's receiver with the substreams
\* still in it, then the Acceptor's own reference.
DropAcceptor ==
    /\ acceptor
    /\ acceptor' = FALSE
    /\ inbound' = <<>>
    /\ strm' = [s \in Streams |-> IF strm[s] = "queued" THEN "free" ELSE strm[s]]
    /\ Release(1 + Cardinality(At({"queued"})))
    /\ UNCHANGED <<opener, call, reply, terminated, driverVars, woken, reqs,
                   net, backlog>>

DropStream(s) ==
    /\ strm[s] = "app"
    /\ strm' = [strm EXCEPT ![s] = "free"]
    /\ Release(1)
    /\ UNCHANGED <<appVars, terminated, driverVars, woken, reqs, inbound, net,
                   backlog>>

\* ConnActivity::terminate, or the cancellation of the scope of client_scoped.
Terminate ==
    /\ ~terminated
    /\ terminated' = TRUE
    /\ UNCHANGED <<livenessVars, appVars, strm, driverVars, woken, reqs,
                   inbound, net, backlog>>

-------------------------------------------------------------------------------
(* The driver task *)

\* What schedules a parked driver: a wake it was given, or readiness of a
\* channel or of the connection that its last poll left registered.  The
\* request channel is polled only while no request is pending.
Runnable ==
    \/ woken
    \/ pending = None /\ ~openersGone /\ (reqs # <<>> \/ opener = {})
    \/ pending # None /\ (~backlog \/ net = "closed")
    \/ net = "closed"
    \/ At({"wire"}) # {}

Run ==
    /\ pc = "parked" /\ Runnable
    /\ pc' = "poll"
    /\ woken' = FALSE
    /\ UNCHANGED <<livenessVars, appVars, strm, terminated, pending,
                   openersGone, reqs, inbound, net, backlog>>

\* Mutant: close as soon as the openers are gone.
UnusedOpenersGone == opener = {}

\* No opener, no acceptor, no substream.
Unused == handles = 0

\* Mutant: the count is read before the waker is registered.
PollLivenessCountFirst ==
    /\ \/ /\ pc = "poll"
          /\ pc' = IF Unused THEN "closing" ELSE "count"
          /\ UNCHANGED registered
       \/ /\ pc = "count"
          /\ registered' = TRUE
          /\ pc' = "recv"
    /\ UNCHANGED <<handles, waking, appVars, strm, terminated, woken, pending,
                   openersGone, reqs, inbound, net, backlog>>

\* Register first, then read the count.
PollLiveness ==
    /\ \/ /\ pc = "poll"
          /\ registered' = TRUE
          /\ pc' = "count"
       \/ /\ pc = "count"
          /\ pc' = IF Unused THEN "closing" ELSE "recv"
          /\ UNCHANGED registered
    /\ UNCHANGED <<handles, waking, appVars, strm, terminated, woken, pending,
                   openersGone, reqs, inbound, net, backlog>>

PollRequests ==
    /\ pc = "recv"
    /\ pc' = "outbound"
    /\ IF pending = None /\ ~openersGone /\ reqs # <<>>
       THEN /\ pending' = Head(reqs)
            /\ reqs' = Tail(reqs)
            /\ UNCHANGED openersGone
       ELSE /\ openersGone' = (openersGone \/ (pending = None /\ opener = {}))
            /\ UNCHANGED <<pending, reqs>>
    /\ UNCHANGED <<livenessVars, appVars, strm, terminated, woken, inbound, net,
                   backlog>>

\* poll_new_outbound and Step::Opened.  The substream is tracked before it is
\* sent; if the caller has gone the send fails and the substream is dropped.
\* Opening may fill yamux's backlog of unacknowledged substreams; at
\* MAX_NUM_STREAMS yamux fails the connection.
PollOutbound ==
    /\ pc = "outbound"
    /\ \/ /\ pending = None \/ (backlog /\ net # "closed")
          /\ pc' = "inbound"
          /\ UNCHANGED <<livenessVars, woken, strm, reply, pending, net, backlog>>
       \/ /\ pending # None
          /\ net = "closed" \/ (~backlog /\ At({"free"}) = {})
          /\ pc' = "poll"
          /\ pending' = None
          /\ net' = "closed"
          /\ UNCHANGED <<livenessVars, woken, strm, reply, backlog>>
       \/ /\ pending \in Callers /\ net # "closed" /\ ~backlog
          /\ \E s \in At({"free"}) :
               /\ strm' = [strm EXCEPT ![s] = "reply"]
               /\ reply' = [reply EXCEPT ![pending] = s]
          /\ Track
          /\ pc' = "poll"
          /\ pending' = None
          /\ backlog' \in BOOLEAN
          /\ UNCHANGED <<registered, waking, woken, net>>
       \/ /\ pending = Cancelled /\ net # "closed" /\ ~backlog
          /\ At({"free"}) # {}
          /\ ReleaseByDriver(handles + 1)
          /\ pc' = "poll"
          /\ pending' = None
          /\ backlog' \in BOOLEAN
          /\ UNCHANGED <<strm, reply, net>>
    /\ UNCHANGED <<opener, acceptor, call, terminated, openersGone, reqs,
                   inbound>>

\* poll_next_inbound, and the tracking that Step::Inbound starts with.
PollInbound ==
    /\ pc = "inbound"
    /\ \/ \E s \in At({"wire"}) :
            /\ strm' = [strm EXCEPT ![s] = "sending"]
            /\ Track
            /\ pc' = "deliver"
       \/ /\ net = "closed"
          /\ pc' = "closing"
          /\ UNCHANGED <<strm, handles>>
       \/ /\ net # "closed" /\ At({"wire"}) = {}
          /\ pc' = "parked"
          /\ UNCHANGED <<strm, handles>>
    /\ UNCHANGED <<registered, waking, appVars, terminated, woken, pending,
                   openersGone, reqs, inbound, net, backlog>>

\* inbound_tx.send(..).await: waits for room; if the Acceptor is gone the
\* substream is dropped and the driver goes on.
Deliver ==
    /\ pc = "deliver"
    /\ \E s \in At({"sending"}) :
         \/ /\ acceptor /\ Len(inbound) < InboundCap
            /\ strm' = [strm EXCEPT ![s] = "queued"]
            /\ inbound' = Append(inbound, s)
            /\ UNCHANGED <<livenessVars, woken>>
         \/ /\ ~acceptor
            /\ strm' = [strm EXCEPT ![s] = "free"]
            /\ ReleaseByDriver(handles)
            /\ UNCHANGED inbound
    /\ pc' = "poll"
    /\ UNCHANGED <<appVars, terminated, pending, openersGone, reqs, net,
                   backlog>>

\* Mutant: the driver ends but its side of the request channel survives.
DropRequestsKept == UNCHANGED <<reqs, pending>>

\* Dropping open_rx and `pending' disconnects every request still in them.
DropRequests == reqs' = <<>> /\ pending' = None

\* The task ends: open_rx, the pending reply, inbound_tx and a substream still
\* being delivered are dropped; substreams on the wire die with the connection.
Exit ==
    /\ pc' = "exited"
    /\ DropRequests
    /\ strm' = [s \in Streams |->
                  IF strm[s] \in {"wire", "sending"} THEN "free" ELSE strm[s]]
    /\ handles' = handles - Cardinality(At({"sending"}))
    /\ UNCHANGED <<registered, waking, appVars, terminated, woken, openersGone,
                   inbound, net, backlog>>

\* poll_close: says goodbye on the wire, so a silent path parks it for ever.
FinishClose ==
    /\ pc = "closing" /\ net # "silent"
    /\ Exit

\* The select of spawn_driver_inner drops drive() at one of its await points.
DropDrive ==
    /\ terminated
    /\ pc \in {"parked", "deliver", "closing"}
    /\ Exit

-------------------------------------------------------------------------------
(* The connection underneath *)

PeerOpens ==
    /\ net = "up" /\ pc # "exited"
    /\ \/ \E s \in At({"free"}) :
            /\ strm' = [strm EXCEPT ![s] = "wire"]
            /\ UNCHANGED net
       \/ /\ At({"free"}) = {}      \* over the limit: yamux fails the connection
          /\ net' = "closed"
          /\ UNCHANGED strm
    /\ UNCHANGED <<livenessVars, appVars, terminated, driverVars, woken, reqs,
                   inbound, backlog>>

NetChange ==
    /\ net = "up"
    /\ net' \in {"silent", "closed"}
    /\ UNCHANGED <<livenessVars, appVars, strm, terminated, driverVars, woken,
                   reqs, inbound, backlog>>

PeerAcks ==
    /\ net = "up" /\ backlog
    /\ backlog' = FALSE
    /\ UNCHANGED <<livenessVars, appVars, strm, terminated, driverVars, woken,
                   reqs, inbound, net>>

-------------------------------------------------------------------------------
Caller(c) ==
    \/ DropOpener(c) \/ Open(c) \/ SendRequest(c) \/ FinishOpen(c)
    \/ CancelOpen(c) \/ \E d \in Callers : CloneOpener(c, d)

Driver ==
    \/ Run \/ PollLiveness \/ PollRequests \/ PollOutbound \/ PollInbound
    \/ Deliver \/ FinishClose

Next ==
    \/ \E c \in Callers : Caller(c)
    \/ Accept \/ DropAcceptor \/ \E s \in Streams : DropStream(s)
    \/ Terminate \/ Wake \/ Driver \/ DropDrive
    \/ PeerOpens \/ NetChange \/ PeerAcks

\* The runtime keeps polling a runnable task and finishes a wake it started;
\* every poll polls terminate too; a live peer acks; open() is awaited, and
\* the channel's semaphore is first come first served.  Nothing makes the
\* holder of the Acceptor accept: several callers keep it for its count alone
\* once they have their control substream (server.rs:2495, secret.rs:1246,
\* vpn.rs:2301).
Fairness ==
    /\ WF_vars(Driver) /\ WF_vars(Wake) /\ SF_vars(DropDrive)
    /\ SF_vars(PeerAcks)
    /\ \A c \in Callers : SF_vars(SendRequest(c)) /\ WF_vars(FinishOpen(c))

Spec == Init /\ [][Next]_vars /\ Fairness

-------------------------------------------------------------------------------
(* Properties *)

\* The count is the number of references that exist: one per Opener clone, one
\* for the Acceptor, one per tracked substream wherever it is (ConnRef).
RefCount ==
    handles = Cardinality(opener) + (IF acceptor THEN 1 ELSE 0)
              + Cardinality(At(Counted))

\* A substream answered to a caller is in the oneshot of that one caller, who
\* still waits for it.
ReplyOwned ==
    /\ \A s \in At({"reply"}) :
         \E c \in Callers : reply[c] = s /\ call[c] = "waiting" /\ pending # c
    /\ \A c, d \in Callers : reply[c] # None /\ reply[c] = reply[d] => c = d
    /\ \A c \in Callers : reply[c] # None => strm[reply[c]] = "reply"

\* A queued substream is once in the inbound channel, and its Acceptor lives.
InboundOwned ==
    /\ \A s \in At({"queued"}) : \E i \in 1..Len(inbound) : inbound[i] = s
    /\ \A i \in 1..Len(inbound) : strm[inbound[i]] = "queued"
    /\ \A i, j \in 1..Len(inbound) : inbound[i] = inbound[j] => i = j
    /\ inbound # <<>> => acceptor

\* Every counted substream is where somebody will take or drop it: in the
\* oneshot of one waiting caller, once in the inbound channel of a held
\* Acceptor, in the driver's own delivery, or with the application; and every
\* open() in progress keeps its Opener.  A reference that were nowhere would
\* pin the connection open at both ends for ever.
EveryRefOwned ==
    /\ ReplyOwned
    /\ InboundOwned
    /\ pc # "deliver" => At({"sending"}) = {}
    /\ \A c \in Callers : call[c] # "idle" => c \in opener

\* A driver that parks while nobody holds the connection has a wake coming:
\* the drop that took the count to zero cannot fall between the registration
\* of the waker and the reading of the count (drive, "Register FIRST").
NoLostWake ==
    pc = "parked" /\ handles = 0 => woken \/ (waking > 0 /\ registered)

\* A connection that nobody terminated and whose transport did not fail is
\* closed by its driver only when no Opener, Acceptor or substream exists, so
\* never under live traffic or under an open() in progress.
IdleCloseSafe ==
    pc \in {"closing", "exited"} /\ net # "closed" /\ ~terminated =>
        /\ opener = {} /\ ~acceptor
        /\ At({"reply", "app", "queued"}) = {}
        /\ \A c \in Callers : call[c] = "idle"

\* Once nobody holds the connection its driver ends and releases the socket,
\* unless the path is silent, where only terminate can end it.
IdleConnectionReleased ==
    handles = 0 ~> pc = "exited" \/ (net = "silent" /\ ~terminated)

\* The driver waits in inbound_tx.send for room that only accept() makes.
Congested == pc = "deliver" /\ acceptor /\ Len(inbound) = InboundCap

\* open() returns: a substream, or an error once the connection is gone.  Two
\* things can leave it waiting: a silent path that nobody terminates, and an
\* Acceptor that is held and not polled while its channel is full, because
\* the driver that would service the request is blocked in the delivery of
\* an inbound substream.  A channel that keeps making room is enough.
OpenAnswered ==
    []<>~Congested =>
        \A c \in Callers :
            call[c] # "idle" ~> call[c] = "idle" \/ (net = "silent" /\ ~terminated)
================================================================================
