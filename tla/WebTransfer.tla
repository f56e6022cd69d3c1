------------------------------ MODULE WebTransfer ------------------------------
(* One transfer of a web-transfer room, as the server sees it              *)
(* (web_transfer.rs, and the relay sockets of web_transfer_http.rs): the   *)
(* record and its attempts, the direct negotiation, the fallback to the    *)
(* relay, the admission to a relay slot, the one-use tickets, the pairing  *)
(* of the two relay legs, the pump, and the direct probe that runs beside  *)
(* a relay that carries.                                                   *)
(*                                                                         *)
(* Every action is one section of the room lock; a handler that takes the  *)
(* lock twice is two actions.  The peers are browsers: any message may     *)
(* arrive at any time and name any attempt.  Other transfers of the server *)
(* meet this one only at the relay semaphore, and appear as the number of  *)
(* slots they hold.                                                        *)
EXTENDS Naturals, FiniteSets

CONSTANTS
    RelayPermits,   \* slots of the server's relay semaphore
    UpgradeTries,   \* WEB_TRANSFER_UPGRADE_TRIES
    RoomKinds,      \* the values of the room's relay_only flag
    MaxAttempts     \* bound: attempt ids minted for the transfer

ASSUME TransferAssumption ==
    /\ RelayPermits \in Nat \ {0} /\ UpgradeTries \in Nat
    /\ RoomKinds \subseteq BOOLEAN /\ MaxAttempts \in Nat

Roles == {"source", "recipient"}
Attempts == 1 .. MaxAttempts
NoAttempt == 0

VARIABLES
    relayOnly,    \* WebTransferRoom::relay_only
    online,       \* peers whose control session lives
    state,        \* TransferRecord::state; "none" before it, "gone" after its GC
    attempt,      \* attempt_id; NoAttempt without a record
    permit,       \* attempt.relay_permit is Some
    bits,         \* the signals and readies of the negotiating attempt
    upgrade,      \* attempt id of the probe, NoAttempt without one
    probeBits,    \* the signals and readies of the probe
    tries,        \* upgrade_tries
    cancelled,    \* the record's cancel token has fired
    minted,       \* attempt ids generated so far
    sending,      \* transfer.incoming is being sent outside the lock
    timers,       \* direct deadlines asleep, by attempt
    probeTimers,  \* probe deadlines asleep, by probe
    armed,        \* upgrade timers asleep
    admits,       \* admit_relay tasks: the attempt queued, the attempt named
    busy,         \* RELAY_BUSY sent: the attempt, and whether it was delivered
    tickets,      \* the registry's ticket map, and the attempt the peer was told
    waiter,       \* relay_waiters: the role parked under each attempt
    legs,         \* the task that holds the legs of each attempt
    elsewhere     \* relay slots held by other transfers

record == <<state, attempt, permit, bits, upgrade, probeBits, tries, cancelled>>
clocks == <<timers, probeTimers, armed>>
relay == <<waiter, legs>>
vars == <<relayOnly, online, record, minted, sending, clocks, admits, busy,
          tickets, relay, elsewhere>>

Terminal == {"completed", "cancelled", "failed"}
Carrying == {"active", "activeDirect"}
Live == {"requested", "waitingSource", "waitingRelay", "negotiating"} \cup Carrying
Signals == {"offer", "answer", "source", "recipient"}

(* The task of an attempt's legs: the first leg waits ("parked"), the      *)
(* second has taken the waiter and not yet sent its leg ("taken"), the     *)
(* first has left meanwhile ("left"), the leg is in the channel ("paired"),*)
(* both are spliced ("pump"), the attempt is to be aborted ("abort"), the  *)
(* abort has passed its attempt check ("failing").                         *)
LegStates == {"none", "parked", "taken", "left", "paired", "pump", "abort",
              "failing", "done"}

TypeOK ==
    /\ relayOnly \in RoomKinds /\ online \subseteq Roles
    /\ state \in Live \cup Terminal \cup {"none", "gone"}
    /\ attempt \in Attempts \cup {NoAttempt} /\ permit \in BOOLEAN
    /\ bits \subseteq Signals /\ probeBits \subseteq Signals
    /\ upgrade \in Attempts \cup {NoAttempt} /\ tries \in 0 .. UpgradeTries
    /\ cancelled \in BOOLEAN /\ minted \in 0 .. MaxAttempts /\ sending \in BOOLEAN
    /\ timers \subseteq Attempts /\ probeTimers \subseteq Attempts /\ armed \in Nat
    /\ admits \subseteq [queued : Attempts, names : Attempts \cup {NoAttempt}]
    /\ busy \subseteq [attempt : Attempts, heard : BOOLEAN]
    /\ tickets \subseteq [attempt : Attempts, names : Attempts \cup {NoAttempt},
                          role : Roles]
    /\ waiter \in [Attempts -> Roles \cup {"none"}]
    /\ legs \in [Attempts -> LegStates]
    /\ elsewhere \in 0 .. RelayPermits

Init ==
    /\ relayOnly \in RoomKinds /\ online = Roles
    /\ state = "none" /\ attempt = NoAttempt /\ permit = FALSE
    /\ bits = {} /\ upgrade = NoAttempt /\ probeBits = {} /\ tries = 0
    /\ cancelled = FALSE /\ minted = 0 /\ sending = FALSE
    /\ timers = {} /\ probeTimers = {} /\ armed = 0
    /\ admits = {} /\ busy = {} /\ tickets = {}
    /\ waiter = [a \in Attempts |-> "none"] /\ legs = [a \in Attempts |-> "none"]
    /\ elsewhere = 0

Free == RelayPermits - elsewhere - (IF permit THEN 1 ELSE 0)

(* Two distinct one-use tickets, one per role, bound to attempt a; the     *)
(* envelopes that carry them name attempt n.                               *)
Mint(a, n) == {[attempt |-> a, names |-> n, role |-> r] : r \in Roles}

-------------------------------------------------------------------------------
(* Mutant of Terminate: the tickets outlive the transfer.                  *)
TerminateKeepingTickets(to) ==
    /\ state \in Live
    /\ state' = to /\ permit' = FALSE /\ cancelled' = TRUE /\ bits' = {}
    /\ UNCHANGED <<attempt, upgrade, probeBits, tries, tickets>>

(* terminate_locked: only a live record; the permit and the tickets go     *)
(* with it.  A probe stays in the record, a parked leg in the waiters.     *)
Terminate(to) ==
    /\ state \in Live
    /\ state' = to /\ permit' = FALSE /\ cancelled' = TRUE /\ tickets' = {}
    /\ bits' = {}
    /\ UNCHANGED <<attempt, upgrade, probeBits, tries>>

AlreadyEnded == state \notin Live /\ UNCHANGED <<record, tickets>>

(* Mutant of AdmitInline: nobody waits on behalf of a queued attempt.      *)
AdmitInlineUnwatched(a, n) ==
    /\ permit' = (Free > 0) /\ UNCHANGED admits
    /\ tickets' = IF Free > 0 THEN tickets \cup Mint(a, a) ELSE tickets

(* admit_relay_attempt for attempt a, just put on waitingRelay without a   *)
(* permit: a free slot is taken inline, else an admission task is queued,  *)
(* naming attempt n (NoAttempt: it reads the current attempt when spawned).*)
AdmitInline(a, n) ==
    IF Free > 0
      THEN permit' = TRUE /\ tickets' = tickets \cup Mint(a, a) /\ UNCHANGED admits
      ELSE /\ permit' = FALSE /\ UNCHANGED tickets
           /\ admits' = admits \cup {[queued |-> a, names |-> n]}

(* spawn_direct_upgrade: the next probe, unless the tries are spent.       *)
ArmUpgrade ==
    armed' = IF ~relayOnly /\ tries < UpgradeTries THEN armed + 1 ELSE armed

(* fallback_to_relay: attempt a ends, the transfer goes on as a fresh      *)
(* relay attempt.                                                          *)
Fallback(a) ==
    /\ a = attempt /\ minted < MaxAttempts
    /\ minted' = minted + 1 /\ attempt' = minted + 1
    /\ state' = "waitingRelay"
    /\ AdmitInline(minted + 1, NoAttempt)
    /\ ArmUpgrade
    /\ bits' = {}
    /\ UNCHANGED <<upgrade, probeBits, tries, cancelled>>

-------------------------------------------------------------------------------
(* request_transfer with no live record for the selection: the record      *)
(* first, the notice to the source after the unlock.                       *)
Request ==
    /\ state = "none" /\ online = Roles /\ MaxAttempts > 1
    /\ state' = "requested" /\ attempt' = 1 /\ minted' = 1 /\ sending' = TRUE
    /\ UNCHANGED <<relayOnly, online, permit, bits, upgrade, probeBits, tries,
                   cancelled, clocks, admits, busy, tickets, relay, elsewhere>>

(* request_transfer again, for a transfer that waits for the relay without *)
(* a permit: a fresh attempt, from the source again.  For any other live   *)
(* record it only answers.                                                 *)
Retry ==
    /\ state = "waitingRelay" /\ ~permit /\ ~sending /\ "recipient" \in online
    /\ minted + 1 < MaxAttempts
    /\ minted' = minted + 1 /\ attempt' = minted + 1
    /\ state' = "waitingSource" /\ sending' = TRUE
    /\ UNCHANGED <<relayOnly, online, permit, bits, upgrade, probeBits, tries,
                   cancelled, clocks, admits, busy, tickets, relay, elsewhere>>

(* Mutant of DeliverIncoming: the state is not looked at again after the   *)
(* send.                                                                   *)
DeliverIncomingBlind ==
    /\ sending /\ "source" \in online
    /\ sending' = FALSE /\ state' = "waitingSource"
    /\ UNCHANGED <<relayOnly, online, attempt, permit, bits, upgrade, probeBits,
                   tries, cancelled, minted, clocks, admits, busy, tickets, relay,
                   elsewhere>>

(* transfer.incoming is queued to the source, Requested becomes            *)
(* WaitingSource unless a terminal state came first.                       *)
DeliverIncoming ==
    /\ sending /\ "source" \in online
    /\ sending' = FALSE
    /\ state' = IF state = "requested" THEN "waitingSource" ELSE state
    /\ UNCHANGED <<relayOnly, online, attempt, permit, bits, upgrade, probeBits,
                   tries, cancelled, minted, clocks, admits, busy, tickets, relay,
                   elsewhere>>

(* The source's session is gone, or its queue is full: cancelled.          *)
LoseIncoming ==
    /\ sending /\ sending' = FALSE
    /\ Terminate("cancelled") \/ AlreadyEnded
    /\ UNCHANGED <<relayOnly, online, minted, clocks, admits, busy, relay, elsewhere>>

(* Mutant of SourceReady: the negotiation has no deadline.                 *)
SourceReadyUnarmed ==
    /\ state = "waitingSource" /\ "source" \in online /\ ~relayOnly
    /\ state' = "negotiating" /\ bits' = {}
    /\ UNCHANGED <<relayOnly, online, attempt, permit, upgrade, probeBits, tries,
                   cancelled, minted, sending, clocks, admits, busy, tickets, relay,
                   elsewhere>>

(* source_ready: straight to the relay in a relay-only room, else the      *)
(* direct negotiation with its deadline.                                   *)
SourceReady ==
    /\ state = "waitingSource" /\ "source" \in online
    /\ \/ /\ relayOnly
          /\ state' = "waitingRelay" /\ AdmitInline(attempt, attempt)
          /\ UNCHANGED <<bits, timers>>
       \/ /\ ~relayOnly
          /\ state' = "negotiating" /\ bits' = {} /\ timers' = timers \cup {attempt}
          /\ UNCHANGED <<permit, tickets, admits>>
    /\ UNCHANGED <<relayOnly, online, attempt, upgrade, probeBits, tries, cancelled,
                   minted, sending, probeTimers, armed, busy, relay, elsewhere>>

(* apply_signal: the recipient offers once, the source answers once, after *)
(* the offer.                                                              *)
Signalled(b) ==
    (IF "offer" \notin b THEN {b \cup {"offer"}} ELSE {})
      \cup (IF "offer" \in b /\ "answer" \notin b THEN {b \cup {"answer"}} ELSE {})

(* The peer that sends the next signal of a negotiation.                   *)
Signaller(b) == IF "offer" \in b THEN "source" ELSE "recipient"

(* forward_rtc_offer, forward_rtc_answer: told apart by the attempt alone, *)
(* a negotiating attempt and the probe do not disturb each other.          *)
Signal ==
    /\ \/ /\ state = "negotiating" /\ Signaller(bits) \in online
          /\ bits' \in Signalled(bits) /\ UNCHANGED probeBits
       \/ /\ upgrade # NoAttempt /\ Signaller(probeBits) \in online
          /\ probeBits' \in Signalled(probeBits) /\ UNCHANGED bits
    /\ UNCHANGED <<relayOnly, online, state, attempt, permit, upgrade, tries,
                   cancelled, minted, sending, clocks, admits, busy, tickets, relay,
                   elsewhere>>

(* A side is ready only after its own signalling step.                     *)
MayReady(p, b) == (IF p = "source" THEN "answer" ELSE "offer") \in b

(* direct_ready for the current attempt: the second ready commits.         *)
DirectReady(p) ==
    /\ p \in online /\ state = "negotiating" /\ MayReady(p, bits) /\ p \notin bits
    /\ IF Roles \subseteq bits \cup {p}
         THEN state' = "activeDirect" /\ bits' = {}
         ELSE bits' = bits \cup {p} /\ UNCHANGED state
    /\ UNCHANGED <<relayOnly, online, attempt, permit, upgrade, probeBits, tries,
                   cancelled, minted, sending, clocks, admits, busy, tickets, relay,
                   elsewhere>>

(* Mutant of UpgradeReady: the slot stays with the committed direct path.  *)
UpgradeReadyKeepingSlot(p) ==
    /\ p \in online /\ upgrade # NoAttempt /\ MayReady(p, probeBits)
    /\ IF Roles \subseteq probeBits \cup {p}
         THEN /\ upgrade' = NoAttempt /\ attempt' = upgrade
              /\ state' = "activeDirect" /\ probeBits' = {}
         ELSE probeBits' = probeBits \cup {p} /\ UNCHANGED <<upgrade, attempt, state>>
    /\ UNCHANGED <<relayOnly, online, permit, bits, tries, cancelled, minted, sending,
                   clocks, admits, busy, tickets, relay, elsewhere>>

(* upgrade_ready, direct_ready naming the probe: the second ready makes    *)
(* the probe the transfer's attempt and drops the relay permit.            *)
UpgradeReady(p) ==
    /\ p \in online /\ upgrade # NoAttempt /\ MayReady(p, probeBits)
    /\ IF Roles \subseteq probeBits \cup {p}
         THEN /\ upgrade' = NoAttempt /\ attempt' = upgrade /\ permit' = FALSE
              /\ state' = "activeDirect" /\ probeBits' = {}
         ELSE /\ probeBits' = probeBits \cup {p}
              /\ UNCHANGED <<upgrade, attempt, permit, state>>
    /\ UNCHANGED <<relayOnly, online, bits, tries, cancelled, minted, sending, clocks,
                   admits, busy, tickets, relay, elsewhere>>

(* direct_failed: naming the probe it ends the probe, naming the current   *)
(* direct attempt it falls back, else it changes nothing.                  *)
DirectFailed(p) ==
    /\ p \in online
    /\ \/ /\ upgrade # NoAttempt /\ upgrade' = NoAttempt /\ probeBits' = {}
          /\ ArmUpgrade
          /\ UNCHANGED <<state, attempt, permit, bits, tries, cancelled, minted,
                         admits, tickets>>
       \/ state \in {"negotiating", "activeDirect"} /\ Fallback(attempt)
    /\ UNCHANGED <<relayOnly, online, sending, timers, probeTimers, busy, relay,
                   elsewhere>>

(* direct_deadline_elapsed: only the attempt it was armed for, and only    *)
(* while it negotiates.                                                    *)
DeadlineElapsed(a) ==
    /\ a \in timers /\ timers' = timers \ {a}
    /\ IF state = "negotiating" /\ a = attempt
         THEN Fallback(a)
         ELSE UNCHANGED <<record, minted, admits, tickets, armed>>
    /\ UNCHANGED <<relayOnly, online, sending, probeTimers, busy, relay, elsewhere>>

(* direct_upgrade_elapsed: a probe beside a relay that carries.            *)
UpgradeElapsed ==
    /\ armed > 0 /\ armed' = armed - 1
    /\ IF state = "active" /\ upgrade = NoAttempt /\ tries < UpgradeTries
          /\ minted + 1 < MaxAttempts
         THEN /\ minted' = minted + 1 /\ upgrade' = minted + 1 /\ probeBits' = {}
              /\ tries' = tries + 1 /\ probeTimers' = probeTimers \cup {minted + 1}
         ELSE UNCHANGED <<minted, upgrade, probeBits, tries, probeTimers>>
    /\ UNCHANGED <<relayOnly, online, state, attempt, permit, bits, cancelled, sending,
                   timers, admits, busy, tickets, relay, elsewhere>>

(* The probe's own deadline: a probe nobody answered is cleared.           *)
ProbeDeadline(a) ==
    /\ a \in probeTimers /\ probeTimers' = probeTimers \ {a}
    /\ IF upgrade = a
         THEN upgrade' = NoAttempt /\ probeBits' = {} /\ ArmUpgrade
         ELSE UNCHANGED <<upgrade, probeBits, armed>>
    /\ UNCHANGED <<relayOnly, online, state, attempt, permit, bits, tries, cancelled,
                   minted, sending, timers, admits, busy, tickets, relay, elsewhere>>

-------------------------------------------------------------------------------
(* cancel_transfer, source_reject, the withdrawal of the offer.            *)
Cancel ==
    /\ online # {} /\ Terminate("cancelled")
    /\ UNCHANGED <<relayOnly, online, minted, sending, clocks, admits, busy, relay,
                   elsewhere>>

(* complete_transfer: the recipient, on the attempt that carries.          *)
Complete ==
    /\ "recipient" \in online /\ state \in Carrying /\ Terminate("completed")
    /\ UNCHANGED <<relayOnly, online, minted, sending, clocks, admits, busy, relay,
                   elsewhere>>

(* remove_peer, when a control session ends: its live transfers end too.   *)
PeerLeaves(p) ==
    /\ p \in online /\ online' = online \ {p}
    /\ Terminate("cancelled") \/ AlreadyEnded
    /\ UNCHANGED <<relayOnly, minted, sending, clocks, admits, busy, relay, elsewhere>>

(* gc_terminals_locked: the record of an ended transfer is dropped.        *)
Collect ==
    /\ state \in Terminal
    /\ state' = "gone" /\ attempt' = NoAttempt /\ upgrade' = NoAttempt /\ probeBits' = {}
    /\ UNCHANGED <<relayOnly, online, permit, bits, tries, cancelled, minted, sending,
                   clocks, admits, busy, tickets, relay, elsewhere>>

-------------------------------------------------------------------------------
(* The caller of a queued fallback spawns admit_relay for the attempt that *)
(* is current by then.                                                     *)
SpawnAdmit(w) ==
    /\ w \in admits /\ w.names = NoAttempt
    /\ admits' = IF attempt = NoAttempt THEN admits \ {w}
                 ELSE (admits \ {w}) \cup {[w EXCEPT !.names = attempt]}
    /\ UNCHANGED <<relayOnly, online, record, minted, sending, clocks, busy, tickets,
                   relay, elsewhere>>

(* admit_relay with a slot: given to the transfer if it waits for one, on  *)
(* whichever attempt, else dropped at once.                                *)
AdmitGranted(w) ==
    /\ w \in admits /\ w.names # NoAttempt /\ Free > 0
    /\ admits' = admits \ {w}
    /\ IF state = "waitingRelay" /\ ~permit
         THEN permit' = TRUE /\ tickets' = tickets \cup Mint(attempt, w.names)
         ELSE UNCHANGED <<permit, tickets>>
    /\ UNCHANGED <<relayOnly, online, state, attempt, bits, upgrade, probeBits, tries,
                   cancelled, minted, sending, clocks, busy, relay, elsewhere>>

(* admit_relay without one in time: RELAY_BUSY, if the attempt is current. *)
(* send_to delivers it or, with a full queue or a closing session, drops   *)
(* it, and its result is not looked at.                                    *)
AdmitTimeout(w) ==
    /\ w \in admits /\ w.names # NoAttempt
    /\ admits' = admits \ {w}
    /\ IF state = "waitingRelay" /\ attempt = w.names
         THEN \E heard \in BOOLEAN :
                 busy' = busy \cup {[attempt |-> attempt, heard |-> heard]}
         ELSE UNCHANGED busy
    /\ UNCHANGED <<relayOnly, online, record, minted, sending, clocks, tickets, relay,
                   elsewhere>>

(* The relay slots of the server's other transfers.                        *)
Elsewhere ==
    /\ \/ Free > 0 /\ elsewhere' = elsewhere + 1
       \/ elsewhere > 0 /\ elsewhere' = elsewhere - 1
    /\ UNCHANGED <<relayOnly, online, record, minted, sending, clocks, admits, busy,
                   tickets, relay>>

-------------------------------------------------------------------------------
(* join_relay_pair: the ticket is spent first; a leg that names its        *)
(* attempt, while that is what the transfer waits for, parks or takes the  *)
(* leg that is parked.  Every other leg is closed without a word.  A leg   *)
(* that parks after the first one has timed out does not stop its abort.   *)
Attach(k) ==
    LET a == k.attempt IN
    /\ k \in tickets /\ tickets' = tickets \ {k}
    /\ IF k.names = a /\ state = "waitingRelay" /\ attempt = a /\ waiter[a] # k.role
         THEN IF waiter[a] = "none"
                THEN /\ waiter' = [waiter EXCEPT ![a] = k.role]
                     /\ legs' = [legs EXCEPT ![a] = IF @ = "none" THEN "parked" ELSE @]
                ELSE /\ waiter' = [waiter EXCEPT ![a] = "none"]
                     /\ legs' = [legs EXCEPT ![a] = "taken"]
         ELSE UNCHANGED relay
    /\ UNCHANGED <<relayOnly, online, record, minted, sending, clocks, admits, busy,
                   elsewhere>>

(* consume_relay_ticket after the ticket's 30 s: spent all the same.       *)
AttachLate(k) ==
    /\ k \in tickets /\ tickets' = tickets \ {k}
    /\ UNCHANGED <<relayOnly, online, record, minted, sending, clocks, admits, busy,
                   relay, elsewhere>>

(* The parked leg's deadline: it aborts the attempt if the waiter is still *)
(* its own (abandon_relay_waiter), and leaves quietly if a second leg has  *)
(* taken it, which may have sent its leg already.                          *)
ParkTimeout(a) ==
    /\ legs[a] \in {"parked", "taken", "paired"}
    /\ waiter' = [waiter EXCEPT ![a] = "none"]
    /\ legs' = [legs EXCEPT ![a] = CASE @ = "parked" -> "abort"
                                     [] @ = "taken" -> "left"
                                     [] @ = "paired" -> "done"]
    /\ UNCHANGED <<relayOnly, online, record, minted, sending, clocks, admits, busy,
                   tickets, elsewhere>>

(* The parked leg sees the record's cancel token.                          *)
ParkCancelled(a) ==
    /\ cancelled /\ legs[a] \in {"parked", "taken", "paired"}
    /\ waiter' = [waiter EXCEPT ![a] = "none"]
    /\ legs' = [legs EXCEPT ![a] = IF @ = "taken" THEN "left" ELSE "done"]
    /\ UNCHANGED <<relayOnly, online, record, minted, sending, clocks, admits, busy,
                   tickets, elsewhere>>

(* The second leg is sent to the task that parked; nobody there: abort.    *)
HandOff(a) ==
    /\ legs[a] \in {"taken", "left"}
    /\ legs' = [legs EXCEPT ![a] = IF @ = "taken" THEN "paired" ELSE "abort"]
    /\ UNCHANGED <<relayOnly, online, record, minted, sending, clocks, admits, busy,
                   tickets, waiter, elsewhere>>

(* activate_relay: both legs attached.                                     *)
Activate(a) ==
    /\ legs[a] = "paired"
    /\ IF state = "waitingRelay" /\ attempt = a
         THEN state' = "active" /\ legs' = [legs EXCEPT ![a] = "pump"]
         ELSE UNCHANGED state /\ legs' = [legs EXCEPT ![a] = "abort"]
    /\ UNCHANGED <<relayOnly, online, attempt, permit, bits, upgrade, probeBits, tries,
                   cancelled, minted, sending, clocks, admits, busy, tickets, waiter,
                   elsewhere>>

(* run_relay_pair after its loop: release_relay_permit for the current     *)
(* attempt only.  A clean or cancelled end leaves the transfer alone, a    *)
(* failed one aborts the attempt.                                          *)
PumpEnds(a) ==
    /\ legs[a] = "pump"
    /\ permit' = IF attempt = a THEN FALSE ELSE permit
    /\ legs' \in {[legs EXCEPT ![a] = to] : to \in {"done", "abort"}}
    /\ UNCHANGED <<relayOnly, online, state, attempt, bits, upgrade, probeBits, tries,
                   cancelled, minted, sending, clocks, admits, busy, tickets, waiter,
                   elsewhere>>

(* abort_relay_attempt, first section: an attempt that was superseded is   *)
(* left alone.                                                             *)
AbortCheck(a) ==
    /\ legs[a] = "abort"
    /\ legs' = [legs EXCEPT ![a] = IF attempt = a THEN "failing" ELSE "done"]
    /\ UNCHANGED <<relayOnly, online, record, minted, sending, clocks, admits, busy,
                   tickets, waiter, elsewhere>>

(* abort_relay_attempt, second section: fail_transfer.                     *)
FailTransfer(a) ==
    /\ legs[a] = "failing" /\ legs' = [legs EXCEPT ![a] = "done"]
    /\ Terminate("failed") \/ AlreadyEnded
    /\ UNCHANGED <<relayOnly, online, minted, sending, clocks, admits, busy, waiter,
                   elsewhere>>

-------------------------------------------------------------------------------
Next ==
    \/ Request \/ Retry \/ DeliverIncoming \/ LoseIncoming
    \/ SourceReady \/ Signal
    \/ \E p \in Roles : DirectReady(p) \/ UpgradeReady(p) \/ DirectFailed(p)
    \/ \E a \in Attempts : DeadlineElapsed(a) \/ ProbeDeadline(a)
    \/ UpgradeElapsed
    \/ Cancel \/ Complete \/ Collect \/ \E p \in Roles : PeerLeaves(p)
    \/ \E w \in admits : SpawnAdmit(w) \/ AdmitGranted(w) \/ AdmitTimeout(w)
    \/ Elsewhere
    \/ \E k \in tickets : Attach(k) \/ AttachLate(k)
    \/ \E a \in Attempts :
          \/ ParkTimeout(a) \/ ParkCancelled(a) \/ HandOff(a) \/ Activate(a)
          \/ PumpEnds(a) \/ AbortCheck(a) \/ FailTransfer(a)

Spec == Init /\ [][Next]_vars

(* The server's own tasks run: its timers fire, its admission tasks end    *)
(* and the tasks of the relay legs go on.  No peer and no pump is assumed  *)
(* to do anything.                                                         *)
Fairness ==
    /\ WF_vars(DeliverIncoming \/ LoseIncoming)
    /\ \A a \in Attempts :
          /\ WF_vars(DeadlineElapsed(a))
          /\ WF_vars(ProbeDeadline(a))
          /\ WF_vars(ParkTimeout(a) \/ ParkCancelled(a) \/ HandOff(a) \/ Activate(a))
          /\ WF_vars(AbortCheck(a) \/ FailTransfer(a))
    /\ WF_vars(UpgradeElapsed)
    /\ WF_vars(\E w \in admits : SpawnAdmit(w) \/ AdmitGranted(w) \/ AdmitTimeout(w))

FairSpec == Spec /\ Fairness
-------------------------------------------------------------------------------
(* A relay slot is held only by a transfer that waits for the relay or is  *)
(* on it: a probe that commits, a fallback, a retry and every terminal     *)
(* state give it back; and while the current attempt is pumped the slot is *)
(* held, so the semaphore bounds the relays that carry (terminate_locked,  *)
(* upgrade_ready, release_relay_permit).                                   *)
SlotFollowsRelay ==
    /\ permit => state \in {"waitingRelay", "active"}
    /\ \A a \in Attempts : legs[a] = "pump" /\ a = attempt => state \in Terminal \/ permit

(* A ticket in the registry is bound to the current attempt of a transfer  *)
(* that waits for the relay with its slot, whatever was retried, failed    *)
(* over or cancelled while it was on its way; the legs of one attempt are  *)
(* at most one per role.  Both envelopes name the same attempt: the        *)
(* current one, or one that it has superseded, in which case               *)
(* join_relay_pair closes both legs alike (admit_relay, join_relay_pair).  *)
TicketsCurrent ==
    \A k \in tickets :
        /\ state = "waitingRelay" /\ permit /\ k.attempt = attempt
        /\ waiter[k.attempt] # k.role
        /\ legs[k.attempt] \in {"none", "parked", "abort", "failing", "done"}
        /\ k.names \in 1 .. attempt
        /\ \A j \in tickets : j.names = k.names /\ (j.role = k.role => j = k)

(* admit_relay: `only if the transfer still waits for this exact attempt   *)
(* without a permit - stores the permit, mints two distinct role-bound     *)
(* tickets'.  It does not hold: the attempt is not compared, the tickets   *)
(* are bound to the current attempt and their envelopes name the old one.  *)
TicketsNameTheirAttempt == \A k \in tickets : k.names = k.attempt

(* A transfer that waits for a relay slot is never forgotten by the        *)
(* server: an admission task still waits on its behalf, or has ended by    *)
(* sending RELAY_BUSY for this very attempt (source_ready, direct_failed,  *)
(* direct_deadline_elapsed and the tasks their callers spawn).  It does    *)
(* not say that the recipient hears it: send_to drops the message on a     *)
(* full queue, and the transfer then waits with no task and a recipient    *)
(* that does not know (`heard' = FALSE in `busy').                         *)
QueuedIsWatched ==
    state = "waitingRelay" /\ ~permit =>
        \/ \E b \in busy : b.attempt = attempt
        \/ \E w \in admits : w.names \in {NoAttempt, attempt}

(* A direct negotiation ends, in a committed path, the relay or a terminal *)
(* state, even if neither peer ever answers (spawn_direct_deadline).       *)
NegotiationEnds == state = "negotiating" ~> state # "negotiating"

(* An ended transfer stays ended, whichever of its peers, timers, relay    *)
(* legs and messages under way come after, until its record is collected.  *)
(* The one exception of the code: a probe that was pending when the        *)
(* transfer ended is still answered, and its second ready makes the        *)
(* transfer active again (terminate_locked leaves the probe in the record, *)
(* upgrade_ready does not ask whether the record is live).                 *)
EndedUnlessProbed ==
    [][(state \in Terminal) =>
          \/ state' \in {state, "gone"}
          \/ upgrade # NoAttempt /\ attempt' = upgrade /\ state' = "activeDirect"]_vars
=============================================================================
