------------------------------- MODULE WebRoom -------------------------------
(* A web-transfer room (web_transfer.rs): the registry entry under one     *)
(* room id, the owner's lease with its epochs and expiry monitors, the     *)
(* members and their offers, and what each member's browser shows of them  *)
(* (web/transfer/src/state.js).                                            *)
(*                                                                         *)
(* Every action is one section of the room lock, one operation on the      *)
(* registry map or one send on the broadcast channel: the code never holds *)
(* two of them together.  Rooms are the incarnations, one after another    *)
(* under the same id, of a room the owner opens again.                     *)
EXTENDS Naturals, Sequences, FiniteSets

CONSTANTS
    Rooms,           \* incarnations of the room
    Owners,          \* owner control sessions
    Peers,           \* member sessions; a peer id is never used again
    NoRoom,
    Capacity,        \* of the broadcast channel
    RevisionLimit,   \* the largest room revision (u64::MAX in the code)
    MaxEpoch         \* bound: resumptions of a room

ASSUME RoomAssumption ==
    /\ NoRoom \notin Rooms /\ Capacity \in Nat \ {0}
    /\ RevisionLimit \in Nat /\ MaxEpoch \in Nat

VARIABLES
    listed,     \* the room under the id in the registry, or NoRoom
    owner,      \* RoomState::owner of each room; "none" before its creation
    epoch,      \* the room's lease generation
    destroyed,  \* rooms whose destroy has run
    lease,      \* what each owner session does, and on which room
    monitors,   \* expiry monitors: room, epoch, and how far they are
    excused,    \* rooms resumed after a monitor's verdict, or ended by revision
    members,    \* RoomState::peers
    offers,     \* the members of each room that have an offer
    revision,
    session,    \* what each member session does
    at,         \* the room of each member session
    outbox,     \* events the session has committed and not broadcast yet
    inbox,      \* its receiver on the broadcast channel
    lagged,     \* sessions whose receiver was overrun
    view,       \* the peers and the offers its browser shows
    missed      \* events that passed a session by

lifecycle == <<listed, owner, epoch, destroyed, lease, monitors, excused>>
contents == <<members, offers, revision>>
sessions == <<session, at, outbox, view>>
channel == <<inbox, lagged, missed>>
roomVars == <<lifecycle, contents, sessions, channel>>

Closed == [kind |-> "closed"]         \* RoomEvent::RoomClosed
Exhausted == [kind |-> "exhausted"]   \* not an event: the room is to be removed
Event(kind, p) == [kind |-> kind, peer |-> p]

Subscribed == {"in", "resync"}
Subscribers(r) == {p \in Peers : at[p] = r /\ session[p] \in Subscribed}

RoomInit ==
    /\ listed = NoRoom /\ owner = [r \in Rooms |-> "none"]
    /\ epoch = [r \in Rooms |-> 0] /\ destroyed = {}
    /\ lease = [o \in Owners |-> [pc |-> "idle", room |-> NoRoom]]
    /\ monitors = {} /\ excused = {}
    /\ members = [r \in Rooms |-> {}] /\ offers = [r \in Rooms |-> {}]
    /\ revision = [r \in Rooms |-> 0]
    /\ session = [p \in Peers |-> "out"] /\ at = [p \in Peers |-> NoRoom]
    /\ outbox = [p \in Peers |-> <<>>] /\ inbox = [p \in Peers |-> <<>>]
    /\ lagged = {} /\ view = [p \in Peers |-> [peers |-> {}, offers |-> {}]]
    /\ missed = [p \in Peers |-> {}]

-------------------------------------------------------------------------------
(* The event passes a session that has read the part of its snapshot the   *)
(* event is about and has not subscribed yet.                              *)
PassesBy(p, e) ==
    \/ session[p] = "viewed"
    \/ session[p] = "snapped" /\ e.kind \in {"joined", "left", "closed"}

(* events.send: the receivers of room r get the event; a full receiver     *)
(* loses its oldest one and will find that it lagged.                      *)
Send(r, e) ==
    LET full == {p \in Subscribers(r) : Len(inbox[p]) = Capacity} IN
    /\ inbox' = [p \in Peers |->
                   IF p \notin Subscribers(r) THEN inbox[p]
                   ELSE Append(IF p \in full THEN Tail(inbox[p]) ELSE inbox[p], e)]
    /\ lagged' = lagged \cup full
    /\ missed' = [p \in Peers |->
                    missed[p]
                      \cup {x \in {Closed} : p \in full /\ Head(inbox[p]) = x}
                      \cup {x \in {e} : at[p] = r /\ PassesBy(p, x)}]

(* remove_room_if_current: only the entry that still holds this room.      *)
Unlist(r) == listed' = IF listed = r THEN NoRoom ELSE listed

(* Mutant of Destroy: only the token fires, which no session watches.      *)
DestroySilently(r) == destroyed' = destroyed \cup {r} /\ UNCHANGED channel

(* destroy: once; the members are told, then the token fires.              *)
Destroy(r) ==
    /\ destroyed' = destroyed \cup {r}
    /\ IF r \in destroyed THEN UNCHANGED channel ELSE Send(r, Closed)

-------------------------------------------------------------------------------
(* create_with_id: only under a vacant id; the creator holds the lease.    *)
Create(o, r) ==
    /\ lease[o].pc = "idle" /\ owner[r] = "none" /\ listed = NoRoom
    /\ listed' = r /\ owner' = [owner EXCEPT ![r] = "attached"]
    /\ lease' = [lease EXCEPT ![o] = [pc |-> "attached", room |-> r]]
    /\ UNCHANGED <<epoch, destroyed, monitors, excused, contents, sessions, channel>>

(* OwnerLease::resume, first section: the room is looked up and the token  *)
(* compared.                                                               *)
Lookup(o) ==
    /\ lease[o].pc = "idle" /\ listed # NoRoom
    /\ lease' = [lease EXCEPT ![o] = [pc |-> "looked", room |-> listed]]
    /\ UNCHANGED <<listed, owner, epoch, destroyed, monitors, excused, contents,
                   sessions, channel>>

(* OwnerLease::resume, second section: a detached room is attached under   *)
(* the next epoch, whatever became of it since it was looked up.           *)
Resume(o) ==
    LET r == lease[o].room IN
    /\ lease[o].pc = "looked"
    /\ \/ /\ owner[r] = "detached" /\ epoch[r] < MaxEpoch
          /\ owner' = [owner EXCEPT ![r] = "attached"]
          /\ epoch' = [epoch EXCEPT ![r] = @ + 1]
          /\ lease' = [lease EXCEPT ![o].pc = "attached"]
          /\ excused' = excused \cup
                {x \in {r} : \/ listed # r
                             \/ \E m \in monitors : m.room = r /\ m.pc # "asleep"}
       \/ /\ owner[r] = "attached"
          /\ lease' = [lease EXCEPT ![o] = [pc |-> "idle", room |-> NoRoom]]
          /\ UNCHANGED <<owner, epoch, excused>>
    /\ UNCHANGED <<listed, destroyed, monitors, contents, sessions, channel>>

(* Mutant of Detach: the room is detached and nobody times it.             *)
DetachUnwatched(o) ==
    /\ lease[o].pc = "attached"
    /\ lease' = [lease EXCEPT ![o] = [pc |-> "idle", room |-> NoRoom]]
    /\ owner' = [owner EXCEPT ![lease[o].room] = "detached"]
    /\ UNCHANGED <<listed, epoch, destroyed, monitors, excused, contents, sessions,
                   channel>>

(* The control session ends, by EOF, silence or a failed heartbeat: the    *)
(* lease is dropped, the room detached and its expiry armed.               *)
Detach(o) ==
    LET r == lease[o].room IN
    /\ lease[o].pc = "attached"
    /\ lease' = [lease EXCEPT ![o] = [pc |-> "idle", room |-> NoRoom]]
    /\ owner' = [owner EXCEPT ![r] = "detached"]
    /\ monitors' = monitors \cup {[room |-> r, epoch |-> epoch[r], pc |-> "asleep"]}
    /\ UNCHANGED <<listed, epoch, destroyed, excused, contents, sessions, channel>>

(* close_explicit: the entry first, then the room, whoever won the entry.  *)
Close(o) ==
    /\ lease[o].pc = "attached"
    /\ Unlist(lease[o].room) /\ lease' = [lease EXCEPT ![o].pc = "closing"]
    /\ UNCHANGED <<owner, epoch, destroyed, monitors, excused, contents, sessions, channel>>

CloseDestroys(o) ==
    /\ lease[o].pc = "closing" /\ Destroy(lease[o].room)
    /\ lease' = [lease EXCEPT ![o] = [pc |-> "idle", room |-> NoRoom]]
    /\ UNCHANGED <<listed, owner, epoch, monitors, excused, contents, sessions>>

-------------------------------------------------------------------------------
(* Mutant of Verdict: the room is not looked at again after the grace.     *)
VerdictAlways(m) ==
    /\ m.pc = "asleep"
    /\ monitors' = (monitors \ {m}) \cup {[m EXCEPT !.pc = "due"]}
    /\ UNCHANGED <<listed, owner, epoch, destroyed, lease, excused, contents, sessions,
                   channel>>

(* The monitor of a detachment wakes after the grace: its room is stale if *)
(* it is still detached under the monitor's epoch.                         *)
Verdict(m) ==
    /\ m.pc = "asleep"
    /\ monitors' = (monitors \ {m}) \cup
          {x \in {[m EXCEPT !.pc = "due"]} :
              owner[m.room] = "detached" /\ epoch[m.room] = m.epoch}
    /\ UNCHANGED <<listed, owner, epoch, destroyed, lease, excused, contents, sessions,
                   channel>>

(* ... then, outside the lock, it takes the entry if it holds this room.   *)
Evict(m) ==
    /\ m.pc = "due" /\ Unlist(m.room)
    /\ monitors' = (monitors \ {m}) \cup
          {x \in {[m EXCEPT !.pc = "removed"]} : listed = m.room}
    /\ UNCHANGED <<owner, epoch, destroyed, lease, excused, contents, sessions, channel>>

(* ... and destroys the room whose entry it took.                          *)
ExpiryDestroys(m) ==
    /\ m.pc = "removed" /\ Destroy(m.room) /\ monitors' = monitors \ {m}
    /\ UNCHANGED <<listed, owner, epoch, lease, excused, contents, sessions>>

-------------------------------------------------------------------------------
(* authenticate_hello: a room that is listed and not destroyed.            *)
Hello(p) ==
    /\ session[p] = "out" /\ listed # NoRoom /\ listed \notin destroyed
    /\ session' = [session EXCEPT ![p] = "authed"] /\ at' = [at EXCEPT ![p] = listed]
    /\ UNCHANGED <<lifecycle, contents, outbox, view, channel>>

(* join_peer: refused when the revision is spent, else a member.           *)
Join(p) ==
    LET r == at[p] IN
    /\ session[p] = "authed"
    /\ IF revision[r] = RevisionLimit
         THEN session' = [session EXCEPT ![p] = "gone"] /\ UNCHANGED <<contents, outbox>>
         ELSE /\ session' = [session EXCEPT ![p] = "joined"]
              /\ members' = [members EXCEPT ![r] = @ \cup {p}]
              /\ revision' = [revision EXCEPT ![r] = @ + 1]
              /\ outbox' = [outbox EXCEPT ![p] = <<Event("joined", p)>>]
              /\ UNCHANGED offers
    /\ UNCHANGED <<lifecycle, at, view, channel>>

(* PeerSession::establish after the join: the peers, then the offers under *)
(* a second lock, then the subscription.                                   *)
SnapshotPeers(p) ==
    /\ session[p] = "joined" /\ outbox[p] = <<>>
    /\ session' = [session EXCEPT ![p] = "snapped"]
    /\ view' = [view EXCEPT ![p] = [peers |-> members[at[p]], offers |-> {}]]
    /\ UNCHANGED <<lifecycle, contents, at, outbox, channel>>

SnapshotOffers(p) ==
    /\ session[p] = "snapped"
    /\ session' = [session EXCEPT ![p] = "viewed"]
    /\ view' = [view EXCEPT ![p].offers = offers[at[p]]]
    /\ UNCHANGED <<lifecycle, contents, at, outbox, channel>>

Subscribe(p) ==
    /\ session[p] = "viewed" /\ session' = [session EXCEPT ![p] = "in"]
    /\ missed' = [missed EXCEPT ![p] = @ \cup {x \in {Closed} : at[p] \in destroyed}]
    /\ UNCHANGED <<lifecycle, contents, at, outbox, view, inbox, lagged>>

(* An event is broadcast after the lock that committed it is released.     *)
Flush(p) ==
    LET e == Head(outbox[p]) IN
    /\ outbox[p] # <<>>
    /\ CASE e = Exhausted -> /\ Unlist(at[p])
                             /\ outbox' = [outbox EXCEPT ![p] = <<Closed>>]
                             /\ UNCHANGED <<destroyed, channel>>
         [] e = Closed    -> /\ Destroy(at[p]) /\ outbox' = [outbox EXCEPT ![p] = Tail(@)]
                             /\ UNCHANGED listed
         [] OTHER         -> /\ Send(at[p], e) /\ outbox' = [outbox EXCEPT ![p] = Tail(@)]
                             /\ UNCHANGED <<listed, destroyed>>
    /\ UNCHANGED <<owner, epoch, lease, monitors, excused, contents, session, at, view>>

(* publish_offer and withdraw_offer, refused when the revision is spent.   *)
Publish(p) ==
    LET r == at[p] IN
    /\ session[p] = "in" /\ outbox[p] = <<>> /\ p \notin offers[r]
    /\ revision[r] < RevisionLimit
    /\ offers' = [offers EXCEPT ![r] = @ \cup {p}]
    /\ revision' = [revision EXCEPT ![r] = @ + 1]
    /\ outbox' = [outbox EXCEPT ![p] = <<Event("added", p)>>]
    /\ UNCHANGED <<lifecycle, members, session, at, view, channel>>

Withdraw(p) ==
    LET r == at[p] IN
    /\ session[p] = "in" /\ outbox[p] = <<>> /\ p \in offers[r]
    /\ revision[r] < RevisionLimit
    /\ offers' = [offers EXCEPT ![r] = @ \ {p}]
    /\ revision' = [revision EXCEPT ![r] = @ + 1]
    /\ outbox' = [outbox EXCEPT ![p] = <<Event("removed", p)>>]
    /\ UNCHANGED <<lifecycle, members, session, at, view, channel>>

(* remove_peer: the member and its offer go; the removals are broadcast,   *)
(* offers first, or, when the revision cannot count them, the room ends.   *)
Remove(p) ==
    LET r == at[p]
        gone == IF p \in offers[r] THEN <<Event("removed", p), Event("left", p)>>
                ELSE <<Event("left", p)>> IN
    /\ session' = [session EXCEPT ![p] = "gone"]
    /\ members' = [members EXCEPT ![r] = @ \ {p}]
    /\ offers' = [offers EXCEPT ![r] = @ \ {p}]
    /\ IF revision[r] + Len(gone) > RevisionLimit
         THEN /\ outbox' = [outbox EXCEPT ![p] = <<Exhausted>>]
              /\ excused' = excused \cup {r} /\ UNCHANGED revision
         ELSE /\ revision' = [revision EXCEPT ![r] = @ + Len(gone)]
              /\ outbox' = [outbox EXCEPT ![p] = gone] /\ UNCHANGED excused
    /\ inbox' = [inbox EXCEPT ![p] = <<>>] /\ lagged' = lagged \ {p}
    /\ view' = [view EXCEPT ![p] = [peers |-> {}, offers |-> {}]]
    /\ UNCHANGED <<listed, owner, epoch, destroyed, lease, monitors, at, missed>>

(* The browser leaves, is reaped, or its socket fails.                     *)
Leave(p) == session[p] = "in" /\ outbox[p] = <<>> /\ Remove(p)

(* reduce, in the browser, for one event.                                  *)
Reduced(v, e) ==
    CASE e.kind = "joined"  -> [v EXCEPT !.peers = @ \cup {e.peer}]
      [] e.kind = "added"   -> [v EXCEPT !.offers = @ \cup {e.peer}]
      [] e.kind = "removed" -> [v EXCEPT !.offers = @ \ {e.peer}]
      [] e.kind = "left"    -> IF e.peer \in v.peers
                                 THEN [peers |-> v.peers \ {e.peer},
                                       offers |-> v.offers \ {e.peer}]
                                 ELSE v

(* The session's actor takes the next event of its receiver.               *)
Receive(p) ==
    /\ session[p] = "in" /\ outbox[p] = <<>> /\ p \notin lagged /\ inbox[p] # <<>>
    /\ IF Head(inbox[p]) = Closed
         THEN Remove(p)
         ELSE /\ view' = [view EXCEPT ![p] = Reduced(@, Head(inbox[p]))]
              /\ inbox' = [inbox EXCEPT ![p] = Tail(@)]
              /\ UNCHANGED <<lifecycle, contents, session, at, outbox, lagged, missed>>

(* Mutant of ResyncPeers: an overrun receiver just goes on.                *)
ResyncPeersSkipped(p) ==
    /\ session[p] = "in" /\ outbox[p] = <<>> /\ p \in lagged
    /\ session' = [session EXCEPT ![p] = "resync"] /\ lagged' = lagged \ {p}
    /\ UNCHANGED <<lifecycle, contents, at, outbox, view, inbox, missed>>

(* RecvError::Lagged: a fresh snapshot, again in two sections, and the     *)
(* events still in the receiver after it.                                  *)
ResyncPeers(p) ==
    /\ session[p] = "in" /\ outbox[p] = <<>> /\ p \in lagged
    /\ session' = [session EXCEPT ![p] = "resync"] /\ lagged' = lagged \ {p}
    /\ view' = [view EXCEPT ![p] = [peers |-> members[at[p]], offers |-> {}]]
    /\ UNCHANGED <<lifecycle, contents, at, outbox, inbox, missed>>

ResyncOffers(p) ==
    /\ session[p] = "resync" /\ session' = [session EXCEPT ![p] = "in"]
    /\ view' = [view EXCEPT ![p].offers = offers[at[p]]]
    /\ UNCHANGED <<lifecycle, contents, at, outbox, channel>>

-------------------------------------------------------------------------------
RoomNext ==
    \/ \E o \in Owners : \/ \E r \in Rooms : Create(o, r)
                         \/ Lookup(o) \/ Resume(o) \/ Detach(o)
                         \/ Close(o) \/ CloseDestroys(o)
    \/ \E m \in monitors : Verdict(m) \/ Evict(m) \/ ExpiryDestroys(m)
    \/ \E p \in Peers :
          \/ Hello(p) \/ Join(p) \/ SnapshotPeers(p) \/ SnapshotOffers(p)
          \/ Subscribe(p) \/ Flush(p) \/ Publish(p) \/ Withdraw(p) \/ Leave(p)
          \/ Receive(p) \/ ResyncPeers(p) \/ ResyncOffers(p)

RoomSpec == RoomInit /\ [][RoomNext]_roomVars

(* Monitors wake, a section that was begun is finished, and the actor of a *)
(* session drains its receiver.  No owner and no browser is assumed to do  *)
(* anything.                                                               *)
RoomFairness ==
    /\ WF_roomVars(\E m \in monitors : Verdict(m) \/ Evict(m) \/ ExpiryDestroys(m))
    /\ \A o \in Owners : WF_roomVars(CloseDestroys(o))
    /\ \A p \in Peers :
          /\ WF_roomVars(Flush(p))
          /\ WF_roomVars(SnapshotPeers(p) \/ SnapshotOffers(p) \/ Subscribe(p))
          /\ WF_roomVars(Receive(p) \/ ResyncPeers(p) \/ ResyncOffers(p))

RoomFairSpec == RoomSpec /\ RoomFairness
-------------------------------------------------------------------------------
(* The browsers agree with the room: once a session has taken every event  *)
(* sent to it, it shows a peer and its offer exactly if the room has them, *)
(* however joins, offers, departures and overruns interleaved.  Excepted   *)
(* are peers whose own event is not broadcast yet, and, for good, peers    *)
(* with an event sent between the newcomer's snapshot and its subscription *)
(* (establish subscribes last, and browsers ignore the revisions).         *)
ViewsAgree ==
    \A p, q \in Peers :
        (/\ session[p] = "in" /\ inbox[p] = <<>> /\ p \notin lagged
         /\ at[p] \notin destroyed /\ at[q] = at[p] /\ outbox[q] = <<>>
         /\ \A e \in missed[p] \ {Closed} : e.peer # q)
        => /\ q \in view[p].peers <=> q \in members[at[p]]
           /\ q \in view[p].offers <=> q \in offers[at[p]]

(* An attached owner holds the room members find under the id: neither the *)
(* expiry of an earlier detachment nor that of an earlier room of this id  *)
(* takes it away.  Excepted are a room whose revision was spent, and a     *)
(* resume that came after a monitor's verdict or the removal it led to     *)
(* (the verdict and the removal are two steps, so are resume's).           *)
AttachedIsListed ==
    \A o \in Owners :
        lease[o].pc = "attached" =>
            listed = lease[o].room \/ lease[o].room \in excused

(* A detached room that nobody resumes is destroyed, and so is every room  *)
(* whose entry was removed (the pairing rule of remove_room_if_current).   *)
DetachedEnds ==
    \A r \in Rooms :
        (owner[r] = "detached" \/ (owner[r] = "attached" /\ listed # r))
            ~> (r \in destroyed \/ (owner[r] = "attached" /\ listed = r))

(* A destroyed room has no members in the end: each session hears of it.   *)
(* Excepted are sessions that subscribed after it was destroyed, or whose  *)
(* receiver was overrun by the departures that follow it: no session       *)
(* watches the room's cancellation token.                                  *)
ClosedIsHeard ==
    \A p \in Peers, r \in Rooms :
        r \in destroyed /\ p \in members[r]
            ~> p \notin members[r] \/ Closed \in missed[p]
=============================================================================
