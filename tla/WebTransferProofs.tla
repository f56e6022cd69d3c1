--------------------------- MODULE WebTransferProofs ---------------------------
(* Theorems about WebTransfer, for every number of relay slots, upgrade    *)
(* tries and attempts, and about WebRoom, for any number of rooms, owners  *)
(* and members, every capacity of the broadcast channel and every revision *)
(* limit.                                                                  *)
EXTENDS WebTransfer, WebRoom, TLAPS

(* What the argument is about.                                             *)
core == <<state, attempt, permit, upgrade, minted, admits, busy, tickets, waiter, legs>>

Types ==
    /\ state \in Live \cup Terminal \cup {"none", "gone"} /\ permit \in BOOLEAN
    /\ admits \subseteq [queued : Attempts, names : Attempts \cup {NoAttempt}]
    /\ tickets \subseteq [attempt : Attempts, names : Attempts \cup {NoAttempt},
                          role : Roles]
    /\ waiter \in [Attempts -> Roles \cup {"none"}]
    /\ legs \in [Attempts -> LegStates]

(* An attempt id is used once: the probe, which is begun beside an active  *)
(* relay, is younger than the current attempt, and a transfer with a       *)
(* record has an attempt.                                                  *)
Numbers ==
    /\ minted \in 0 .. MaxAttempts /\ attempt \in 0 .. minted /\ upgrade \in 0 .. minted
    /\ upgrade # NoAttempt => upgrade > attempt
    /\ state \in Live \cup Terminal => attempt # NoAttempt
    /\ upgrade # NoAttempt => state \in Terminal \cup {"active"}
    /\ state = "none" => minted = 0

(* No leg has come for an attempt before its tickets were minted, and the  *)
(* current attempt is pumped only once it is active.                       *)
Unused(a) == legs[a] = "none" /\ waiter[a] = "none"

LegsPlaced ==
    /\ \A a \in Attempts : a > minted \/ a = upgrade => Unused(a)
    /\ state \in {"requested", "waitingSource", "negotiating", "activeDirect"} =>
          Unused(attempt)
    /\ state = "waitingRelay" /\ ~permit => Unused(attempt)
    /\ \A a \in Attempts :
          legs[a] = "pump" /\ a = attempt => state \in Terminal \cup {"active"}

(* An admission task of a transfer with a record names no later attempt    *)
(* than the current one.                                                   *)
NamesPast == state # "gone" => \A w \in admits : w.names <= attempt

(* The inductive invariant.                                                *)
TransferInv ==
    /\ Types /\ Numbers /\ LegsPlaced /\ NamesPast
    /\ SlotFollowsRelay /\ TicketsCurrent /\ QueuedIsWatched

LEMMA TransferInvInit == Init => TransferInv
  <1>1. Init => permit \in BOOLEAN  BY Zenon DEF Init
  <1> QED BY <1>1, TransferAssumption
  DEF Init, TransferInv, Types, Numbers, LegsPlaced, Unused, NamesPast,
      SlotFollowsRelay,
      TicketsCurrent, QueuedIsWatched, Live, Carrying, Terminal, Roles, Attempts,
      NoAttempt, LegStates

(* Steps of the clocks, the signals and the other transfers.               *)
LEMMA TransferInvCore == TransferInv /\ UNCHANGED core => TransferInv'
  BY DEF TransferInv, Types, Numbers, LegsPlaced, Unused, NamesPast,
         SlotFollowsRelay, TicketsCurrent, QueuedIsWatched, core

(* terminate_locked, in whatever handler; a leg's task may end with it.    *)
LEMMA TransferInvEnd ==
    ASSUME TransferInv, NEW to \in Terminal, Terminate(to) \/ AlreadyEnded,
           UNCHANGED <<minted, admits, busy, waiter>>,
           \/ legs' = legs
           \/ \E a \in Attempts : legs[a] = "failing" /\ legs' = [legs EXCEPT ![a] = "done"]
    PROVE  TransferInv'
  <1> USE DEF TransferInv
  <1>1. \A a \in Attempts : Unused(a) => Unused(a)'
    BY DEF Unused, Types
  <1>2. \A a \in Attempts : legs'[a] = "pump" => legs[a] = "pump"
    BY DEF Types
  <1>3. legs' \in [Attempts -> LegStates]  BY DEF Types, LegStates
  <1>4. CASE Terminate(to)
    <2>1. /\ state' = to /\ permit' = FALSE /\ tickets' = {}
          /\ UNCHANGED <<attempt, upgrade>>
      BY <1>4 DEF Terminate
    <2>2. attempt # NoAttempt  BY <1>4 DEF Terminate, Numbers
    <2>3. Types'  BY <1>3, <2>1 DEF Types
    <2>4. Numbers'  BY <2>1, <2>2 DEF Numbers, Terminal
    <2>5. LegsPlaced'  BY <1>1, <2>1 DEF LegsPlaced, Terminal, Live
    <2>6. SlotFollowsRelay' /\ TicketsCurrent' /\ QueuedIsWatched'
      BY <2>1 DEF SlotFollowsRelay, TicketsCurrent, QueuedIsWatched, Terminal
    <2>7. NamesPast'  BY <1>4, <2>1 DEF NamesPast, Terminate, Live, Carrying
    <2> QED BY <2>3, <2>4, <2>5, <2>6, <2>7
  <1>5. CASE AlreadyEnded
    <2>1. UNCHANGED <<state, attempt, permit, upgrade, tickets>>
      BY <1>5 DEF AlreadyEnded, record
    <2>2. tickets = {} /\ state # "waitingRelay"
      BY <1>5 DEF AlreadyEnded, TicketsCurrent, Live
    <2>3. Types'  BY <1>3, <2>1 DEF Types
    <2>4. Numbers'  BY <2>1 DEF Numbers
    <2>5. LegsPlaced'
      BY <1>1, <1>2, <1>5, <2>1, <2>2 DEF LegsPlaced, AlreadyEnded, Live, Carrying
    <2>6. SlotFollowsRelay'  BY <1>2, <2>1 DEF SlotFollowsRelay
    <2>7. TicketsCurrent' /\ QueuedIsWatched'
      BY <2>1, <2>2 DEF TicketsCurrent, QueuedIsWatched
    <2>8. NamesPast'  BY <2>1 DEF NamesPast
    <2> QED BY <2>3, <2>4, <2>5, <2>6, <2>7, <2>8
  <1> QED BY <1>4, <1>5

(* An attempt a that no leg has come for is put on waitingRelay and offered *)
(* a slot inline.                                                          *)
LEMMA TransferInvQueue ==
    ASSUME TransferInv, NEW a \in Attempts, NEW n \in {NoAttempt, a}, AdmitInline(a, n),
           tickets = {}, state \in Live, Unused(a), attempt <= a,
           state' = "waitingRelay", attempt' = a, a <= minted', upgrade = NoAttempt,
           minted' \in minted .. MaxAttempts,
           UNCHANGED <<upgrade, busy, waiter, legs>>
    PROVE  TransferInv'
  <1> USE TransferAssumption DEF TransferInv
  <1>1. /\ permit' \in BOOLEAN
        /\ tickets' = IF permit' THEN Mint(a, a) ELSE {}
        /\ admits' = admits \/ admits' = admits \cup {[queued |-> a, names |-> n]}
        /\ ~permit' => [queued |-> a, names |-> n] \in admits'
    BY DEF AdmitInline
  <1>2. Types'
    <2>1. tickets' \subseteq [attempt : Attempts, names : Attempts \cup {NoAttempt},
                              role : Roles]
      BY <1>1 DEF Mint
    <2>2. admits' \subseteq [queued : Attempts, names : Attempts \cup {NoAttempt}]
      BY <1>1 DEF Types
    <2>3. permit' \in BOOLEAN /\ state' \in Live  BY <1>1 DEF Live
    <2> QED BY <2>1, <2>2, <2>3 DEF Types
  <1>3. Numbers'  BY DEF Numbers, NoAttempt, Attempts, Live
  <1>4. LegsPlaced'
    <2>1. UNCHANGED legs /\ \A b \in Attempts : Unused(b)' <=> Unused(b)  BY DEF Unused
    <2>2. ASSUME NEW b \in Attempts, b > minted' \/ b = upgrade' PROVE Unused(b)'
      BY <2>1, <2>2 DEF LegsPlaced, Numbers, Attempts
    <2>3. Unused(attempt)'  BY DEF Unused
    <2>4. legs'[a] # "pump"  BY DEF Unused
    <2> QED BY <2>2, <2>3, <2>4 DEF LegsPlaced
  <1>5. SlotFollowsRelay'  BY DEF SlotFollowsRelay, Unused
  <1>6. TicketsCurrent'
    <2>1. a \in 1 .. a  BY DEF Attempts
    <2>2. ASSUME NEW k \in tickets'
          PROVE  /\ permit' /\ k.attempt = a /\ k.names = a /\ k.role \in Roles
                 /\ k = [attempt |-> a, names |-> a, role |-> k.role]
      BY <1>1, <2>2 DEF Mint
    <2> QED BY <2>1, <2>2 DEF TicketsCurrent, Unused, Roles
  <1>7. QueuedIsWatched'  BY <1>1 DEF QueuedIsWatched
  <1>8. NamesPast'
    <2>1. ASSUME NEW v \in admits PROVE v.names <= a
      <3>1. v.names <= attempt  BY <2>1 DEF NamesPast, Live, Carrying
      <3>2. v.names \in Nat  BY <2>1 DEF Types, Attempts, NoAttempt
      <3> QED BY <3>1, <3>2 DEF Numbers, Attempts
    <2>2. n <= a  BY DEF NoAttempt, Attempts
    <2> QED BY <1>1, <2>1, <2>2 DEF NamesPast
  <1> QED BY <1>2, <1>3, <1>4, <1>5, <1>6, <1>7, <1>8

(* fallback_to_relay.                                                      *)
LEMMA TransferInvFallback ==
    ASSUME TransferInv, Fallback(attempt), state \in {"negotiating", "activeDirect"},
           UNCHANGED <<busy, waiter, legs>>
    PROVE  TransferInv'
  <1> USE TransferAssumption
  <1>1. minted + 1 \in Attempts /\ Unused(minted + 1) /\ upgrade = NoAttempt
    BY DEF TransferInv, Fallback, Numbers, LegsPlaced, Attempts, Terminal
  <1>2. tickets = {}  BY DEF TransferInv, TicketsCurrent
  <1>3. state \in Live  BY DEF Live, Carrying
  <1>4. minted' = minted + 1 /\ minted' \in minted .. MaxAttempts
    BY <1>1 DEF Fallback, TransferInv, Numbers, Attempts
  <1>5. /\ AdmitInline(minted + 1, NoAttempt) /\ state' = "waitingRelay"
        /\ attempt' = minted + 1 /\ UNCHANGED upgrade
    BY DEF Fallback
  <1>6. attempt <= minted + 1  BY DEF TransferInv, Numbers
  <1> QED BY <1>1, <1>2, <1>3, <1>4, <1>5, <1>6, TransferInvQueue

(* The transfer goes on, or begins, off the relay with an attempt a that   *)
(* no leg has come for.                                                    *)
LEMMA TransferInvDirect ==
    ASSUME TransferInv, NEW a \in Attempts, Unused(a), tickets = {},
           attempt' = a, state' \in {"requested", "waitingSource", "negotiating",
                                     "activeDirect"},
           minted' \in minted .. MaxAttempts, a <= minted', permit' = FALSE,
           upgrade' = NoAttempt, attempt <= a, state # "gone",
           UNCHANGED <<admits, busy, tickets, waiter, legs>>
    PROVE  TransferInv'
  <1> USE TransferAssumption DEF TransferInv
  <1>1. Types'  BY DEF Types, Live, Carrying
  <1>2. Numbers'  BY DEF Numbers, NoAttempt, Attempts
  <1>3. LegsPlaced'
    <2>1. ASSUME NEW b \in Attempts, b > minted' \/ b = upgrade' PROVE Unused(b)'
      BY <2>1 DEF LegsPlaced, Numbers, Attempts, Unused, NoAttempt
    <2>2. Unused(attempt)' /\ legs'[a] # "pump"  BY DEF Unused
    <2> QED BY <2>1, <2>2 DEF LegsPlaced
  <1>4. SlotFollowsRelay'  BY DEF SlotFollowsRelay, Unused
  <1>5. TicketsCurrent' /\ QueuedIsWatched'  BY DEF TicketsCurrent, QueuedIsWatched
  <1>6. NamesPast'
    <2>1. ASSUME NEW v \in admits PROVE v.names <= a
      <3>1. v.names <= attempt  BY <2>1 DEF NamesPast
      <3>2. v.names \in Nat  BY <2>1 DEF Types, Attempts, NoAttempt
      <3> QED BY <3>1, <3>2 DEF Numbers, Attempts
    <2> QED BY <2>1 DEF NamesPast
  <1> QED BY <1>1, <1>2, <1>3, <1>4, <1>5, <1>6

(* Off the relay there are no tickets and no slot.                         *)
LEMMA OffRelay ==
    ASSUME TransferInv, state # "waitingRelay"
    PROVE  tickets = {} /\ (state # "active" => permit = FALSE)
  <1>1. tickets = {} /\ (state # "active" => ~permit)
    BY DEF TransferInv, TicketsCurrent, SlotFollowsRelay
  <1>2. permit \in BOOLEAN  BY DEF TransferInv, Types
  <1> QED BY <1>1, <1>2, Zenon

(* The handlers of the negotiation.                                        *)
LEMMA TransferInvNegotiate ==
    ASSUME TransferInv,
           \/ Request \/ Retry \/ DeliverIncoming \/ LoseIncoming
           \/ SourceReady \/ Signal \/ UpgradeElapsed
    PROVE  TransferInv'
  <1> USE TransferAssumption DEF clocks, relay
  <1>1. ASSUME Request \/ Retry PROVE TransferInv'
    <2>1. /\ minted' = minted + 1 /\ attempt' = minted + 1
          /\ state' \in {"requested", "waitingSource"}
          /\ UNCHANGED <<permit, upgrade, admits, busy, tickets, waiter, legs>>
      BY <1>1 DEF Request, Retry, TransferInv, Numbers
    <2>2. minted + 1 \in Attempts /\ ~permit /\ tickets = {} /\ permit \in BOOLEAN
      BY <1>1 DEF Request, Retry, TransferInv, Types, Numbers, Attempts, TicketsCurrent,
                  SlotFollowsRelay
    <2>3. minted + 1 \in Attempts /\ permit = FALSE /\ tickets = {}  BY <2>2, Zenon
    <2>4. upgrade = NoAttempt /\ Unused(minted + 1)
      BY <1>1, <2>3 DEF Request, Retry, TransferInv, Numbers, LegsPlaced, Terminal
    <2>5. minted' \in minted .. MaxAttempts /\ minted + 1 <= minted' /\ permit' = FALSE
      BY <2>1, <2>3 DEF TransferInv, Numbers, Attempts
    <2>6. attempt <= minted + 1 /\ state # "gone"
      BY <1>1 DEF Request, Retry, TransferInv, Numbers
    <2> QED BY <2>1, <2>3, <2>4, <2>5, <2>6, TransferInvDirect
  <1>2. CASE DeliverIncoming
    <2>1. CASE state = "requested"
      <3>1. tickets = {} /\ permit = FALSE  BY <2>1, OffRelay
      <3>2. /\ attempt \in Attempts /\ Unused(attempt) /\ minted \in minted .. MaxAttempts
            /\ attempt <= minted /\ attempt <= attempt
            /\ upgrade = NoAttempt
        BY <2>1 DEF TransferInv, Numbers, LegsPlaced, Live, Terminal, NoAttempt,
                  Attempts
      <3> QED BY <1>2, <2>1, <3>1, <3>2, TransferInvDirect DEF DeliverIncoming
    <2>2. CASE state # "requested"
      BY <1>2, <2>2, TransferInvCore DEF DeliverIncoming, core
    <2> QED BY <2>1, <2>2
  <1>3. CASE LoseIncoming
    BY <1>3, TransferInvEnd DEF LoseIncoming, Terminal
  <1>4. CASE SourceReady
    <2>1. tickets = {} /\ permit = FALSE /\ state \in Live
      BY <1>4, OffRelay DEF SourceReady, Live
    <2>2. /\ attempt \in Attempts /\ Unused(attempt) /\ minted \in minted .. MaxAttempts
          /\ attempt <= minted /\ attempt <= attempt
          /\ upgrade = NoAttempt
      BY <1>4 DEF SourceReady, TransferInv, Numbers, LegsPlaced, Live, Terminal, NoAttempt,
                  Attempts
    <2>3. CASE relayOnly
      BY <1>4, <2>1, <2>2, <2>3, TransferInvQueue DEF SourceReady
    <2>4. CASE ~relayOnly
      BY <1>4, <2>1, <2>2, <2>4, TransferInvDirect DEF SourceReady
    <2> QED BY <2>3, <2>4
  <1>5. CASE Signal  BY <1>5, TransferInvCore DEF Signal, core
  <1>6. CASE UpgradeElapsed
    <2>1. CASE UNCHANGED <<minted, upgrade>>
      BY <1>6, <2>1, TransferInvCore DEF UpgradeElapsed, core
    <2>2. CASE ~UNCHANGED <<minted, upgrade>>
      <3>1. /\ state = "active" /\ minted' = minted + 1 /\ upgrade' = minted + 1
            /\ minted + 1 <= MaxAttempts
            /\ UNCHANGED <<state, attempt, permit, admits, busy, tickets, waiter, legs>>
        BY <1>6, <2>2 DEF UpgradeElapsed, TransferInv, Numbers
      <3> USE DEF TransferInv
      <3>2. Types'  BY <3>1 DEF Types
      <3>3. Numbers'  BY <3>1 DEF Numbers, NoAttempt
      <3>4. LegsPlaced'  BY <3>1 DEF LegsPlaced, Numbers, Unused, Attempts, NoAttempt
      <3>5. SlotFollowsRelay' /\ TicketsCurrent' /\ QueuedIsWatched' /\ NamesPast'
        BY <3>1 DEF SlotFollowsRelay, TicketsCurrent, QueuedIsWatched, NamesPast
      <3> QED BY <3>2, <3>3, <3>4, <3>5
    <2> QED BY <2>1, <2>2
  <1> QED BY <1>1, <1>2, <1>3, <1>4, <1>5, <1>6

(* direct_ready, upgrade_ready, direct_failed and the deadlines.           *)
LEMMA TransferInvReady ==
    ASSUME TransferInv,
           \/ \E p \in Roles : DirectReady(p) \/ UpgradeReady(p) \/ DirectFailed(p)
           \/ \E a \in Attempts : DeadlineElapsed(a) \/ ProbeDeadline(a)
    PROVE  TransferInv'
  <1> USE TransferAssumption DEF clocks, relay
  <1>1. ASSUME NEW p \in Roles, DirectReady(p) PROVE TransferInv'
    <2>1. tickets = {} /\ permit = FALSE  BY <1>1, OffRelay DEF DirectReady
    <2>2. /\ attempt \in Attempts /\ Unused(attempt) /\ minted \in minted .. MaxAttempts
          /\ attempt <= minted /\ attempt <= attempt
          /\ upgrade = NoAttempt
      BY <1>1 DEF DirectReady, TransferInv, Numbers, LegsPlaced, Live, Terminal, NoAttempt,
                  Attempts
    <2>3. /\ state' \in {"negotiating", "activeDirect"} /\ state # "gone"
          /\ UNCHANGED <<attempt, permit, upgrade, minted, admits, busy, tickets, waiter, legs>>
      BY <1>1 DEF DirectReady
    <2> QED BY <2>1, <2>2, <2>3, TransferInvDirect
  <1>2. ASSUME upgrade # NoAttempt, upgrade' = NoAttempt,
               UNCHANGED <<state, attempt, permit, minted, admits, busy, tickets, waiter, legs>>
        PROVE  TransferInv'
    <2> USE DEF TransferInv
    <2>1. Types'  BY <1>2 DEF Types
    <2>2. Numbers'  BY <1>2 DEF Numbers, NoAttempt
    <2>3. LegsPlaced'  BY <1>2 DEF LegsPlaced, Unused, Attempts, NoAttempt
    <2>4. SlotFollowsRelay' /\ TicketsCurrent' /\ QueuedIsWatched' /\ NamesPast'
      BY <1>2 DEF SlotFollowsRelay, TicketsCurrent, QueuedIsWatched, NamesPast
    <2> QED BY <2>1, <2>2, <2>3, <2>4
  <1>3. ASSUME NEW p \in Roles, UpgradeReady(p) PROVE TransferInv'
    <2>1. CASE Roles \subseteq probeBits \cup {p}
      <3>1. /\ upgrade \in Attempts /\ Unused(upgrade) /\ upgrade <= minted
            /\ minted \in minted .. MaxAttempts /\ upgrade # NoAttempt
        BY <1>3 DEF UpgradeReady, TransferInv, Numbers, LegsPlaced, Attempts, NoAttempt
      <3>2. /\ attempt' = upgrade /\ state' = "activeDirect" /\ permit' = FALSE
            /\ upgrade' = NoAttempt
            /\ UNCHANGED <<minted, admits, busy, tickets, waiter, legs>>
        BY <1>3, <2>1 DEF UpgradeReady
      <3>3. tickets = {}
        BY <1>3, OffRelay DEF UpgradeReady, TransferInv, Numbers, Terminal
      <3>4. attempt <= upgrade /\ state # "gone"
        BY <3>1 DEF TransferInv, Numbers, Terminal
      <3> QED BY <3>1, <3>2, <3>3, <3>4, TransferInvDirect
    <2>2. CASE ~(Roles \subseteq probeBits \cup {p})
      BY <1>3, <2>2, TransferInvCore DEF UpgradeReady, core
    <2> QED BY <2>1, <2>2
  <1>4. ASSUME NEW p \in Roles, DirectFailed(p) PROVE TransferInv'
    BY <1>2, <1>4, TransferInvFallback DEF DirectFailed
  <1>5. ASSUME NEW a \in Attempts, DeadlineElapsed(a) PROVE TransferInv'
    <2>1. CASE state = "negotiating" /\ a = attempt
      BY <1>5, <2>1, TransferInvFallback DEF DeadlineElapsed
    <2>2. CASE ~(state = "negotiating" /\ a = attempt)
      BY <1>5, <2>2, TransferInvCore DEF DeadlineElapsed, core, record
    <2> QED BY <2>1, <2>2
  <1>6. ASSUME NEW a \in Attempts, ProbeDeadline(a) PROVE TransferInv'
    <2>1. CASE upgrade = a
      <3>1. upgrade # NoAttempt  BY <2>1 DEF Attempts, NoAttempt
      <3> QED BY <1>2, <1>6, <2>1, <3>1 DEF ProbeDeadline
    <2>2. CASE upgrade # a  BY <1>6, <2>2, TransferInvCore DEF ProbeDeadline, core
    <2> QED BY <2>1, <2>2
  <1> QED BY <1>1, <1>3, <1>4, <1>5, <1>6

(* The terminal states, and the collection of the record.                  *)
LEMMA TransferInvClose ==
    ASSUME TransferInv, Cancel \/ Complete \/ Collect \/ \E p \in Roles : PeerLeaves(p)
    PROVE  TransferInv'
  <1> USE TransferAssumption DEF clocks, relay
  <1>1. CASE Cancel  BY <1>1, TransferInvEnd DEF Cancel, Terminal
  <1>2. CASE Complete  BY <1>2, TransferInvEnd DEF Complete, Terminal
  <1>3. CASE \E p \in Roles : PeerLeaves(p)
    BY <1>3, TransferInvEnd DEF PeerLeaves, Terminal
  <1>4. CASE Collect
    <2>1. tickets = {} /\ permit = FALSE  BY <1>4, OffRelay DEF Collect, Terminal
    <2>2. /\ state' = "gone" /\ attempt' = NoAttempt /\ upgrade' = NoAttempt
          /\ UNCHANGED <<permit, minted, admits, busy, tickets, waiter, legs>>
      BY <1>4 DEF Collect
    <2> USE DEF TransferInv
    <2>3. Types'  BY <2>2 DEF Types
    <2>4. Numbers'  BY <2>2 DEF Numbers, NoAttempt, Live, Carrying, Terminal
    <2>5. LegsPlaced'  BY <2>2 DEF LegsPlaced, Unused, Attempts, NoAttempt
    <2>6. SlotFollowsRelay'  BY <2>1, <2>2 DEF SlotFollowsRelay, Attempts, NoAttempt
    <2>7. TicketsCurrent' /\ QueuedIsWatched'
      BY <2>1, <2>2 DEF TicketsCurrent, QueuedIsWatched
    <2>8. NamesPast'  BY <2>2 DEF NamesPast
    <2> QED BY <2>3, <2>4, <2>5, <2>6, <2>7, <2>8
  <1> QED BY <1>1, <1>2, <1>3, <1>4

(* The admission tasks: a slot goes to the transfer that waits for one, or *)
(* the recipient hears of it.                                              *)
LEMMA TransferInvAdmit ==
    ASSUME TransferInv, NEW w \in admits,
           SpawnAdmit(w) \/ AdmitGranted(w) \/ AdmitTimeout(w)
    PROVE  TransferInv'
  <1> USE TransferAssumption DEF TransferInv, clocks, relay, record
  <1>1. w \in [queued : Attempts, names : Attempts \cup {NoAttempt}]  BY DEF Types
  <1>2. /\ UNCHANGED <<state, attempt, upgrade, minted, waiter, legs>>
        /\ permit' \in BOOLEAN /\ (permit => permit')
    BY DEF SpawnAdmit, AdmitGranted, AdmitTimeout, Types
  <1>3. attempt \in Attempts \cup {NoAttempt}  BY DEF Numbers, Attempts, NoAttempt
  <1>4. permit' => permit \/ (state = "waitingRelay" /\ AdmitGranted(w))
    BY DEF SpawnAdmit, AdmitGranted, AdmitTimeout
  <1>5. \/ UNCHANGED tickets /\ permit' = permit
        \/ /\ state = "waitingRelay" /\ ~permit /\ permit'
           /\ w.names # NoAttempt /\ tickets' = tickets \cup Mint(attempt, w.names)
    BY DEF SpawnAdmit, AdmitGranted, AdmitTimeout
  <1>6. state = "waitingRelay" => attempt \in Attempts
    BY DEF Numbers, Attempts, NoAttempt, Live
  <1>7. Types'
    <2>1. admits' \subseteq [queued : Attempts, names : Attempts \cup {NoAttempt}]
      BY <1>1, <1>3 DEF SpawnAdmit, AdmitGranted, AdmitTimeout, Types
    <2>2. tickets' \subseteq [attempt : Attempts, names : Attempts \cup {NoAttempt},
                              role : Roles]
      BY <1>1, <1>5, <1>6 DEF Types, Mint
    <2> QED BY <1>2, <2>1, <2>2 DEF Types
  <1>8. Numbers'  BY <1>2 DEF Numbers
  <1>9. LegsPlaced'  BY <1>2 DEF LegsPlaced, Unused
  <1>10. SlotFollowsRelay'  BY <1>2, <1>4 DEF SlotFollowsRelay
  <1>11. TicketsCurrent'
    <2>1. CASE UNCHANGED tickets /\ permit' = permit
      BY <1>2, <2>1 DEF TicketsCurrent
    <2>2. CASE /\ state = "waitingRelay" /\ ~permit /\ permit'
               /\ w.names # NoAttempt /\ tickets' = tickets \cup Mint(attempt, w.names)
      <3>1. tickets = {} /\ Unused(attempt)  BY <2>2 DEF TicketsCurrent, LegsPlaced
      <3>2. w.names \in 1 .. attempt
        BY <1>1, <2>2 DEF NamesPast, Attempts, NoAttempt, Numbers
      <3> QED BY <1>2, <2>2, <3>1, <3>2 DEF TicketsCurrent, Mint, Unused, Roles
    <2> QED BY <1>5, <2>1, <2>2
  <1>12. QueuedIsWatched'
    <2> SUFFICES ASSUME state = "waitingRelay", ~permit'
                 PROVE  \/ \E b \in busy' : b.attempt = attempt
                        \/ \E v \in admits' : v.names \in {NoAttempt, attempt}
      BY <1>2 DEF QueuedIsWatched
    <2>1. \/ \E b \in busy : b.attempt = attempt
          \/ \E v \in admits : v.names \in {NoAttempt, attempt}
      BY <1>2 DEF QueuedIsWatched
    <2>2. CASE SpawnAdmit(w)
      <3>1. /\ busy' = busy /\ admits' = (admits \ {w}) \cup {[w EXCEPT !.names = attempt]}
        BY <1>6, <2>2 DEF SpawnAdmit, Attempts, NoAttempt
      <3>2. [w EXCEPT !.names = attempt].names = attempt  BY <1>1
      <3> QED BY <2>1, <3>1, <3>2
    <2>3. CASE AdmitGranted(w)  BY <1>2, <2>3 DEF AdmitGranted
    <2>4. CASE AdmitTimeout(w)
      <3>1. CASE attempt = w.names
        <4>1. PICK heard \in BOOLEAN :
                 busy' = busy \cup {[attempt |-> attempt, heard |-> heard]}
          BY <2>4, <3>1 DEF AdmitTimeout
        <4>2. [attempt |-> attempt, heard |-> heard] \in busy'  BY <4>1
        <4> QED BY <4>2
      <3>2. CASE attempt # w.names
        <4>1. busy' = busy /\ admits' = admits \ {w} /\ w.names # NoAttempt
          BY <2>4, <3>2 DEF AdmitTimeout
        <4> QED BY <2>1, <3>2, <4>1
      <3> QED BY <3>1, <3>2
    <2> QED BY <2>2, <2>3, <2>4
  <1>13. NamesPast'
    <2>1. attempt <= attempt /\ [w EXCEPT !.names = attempt].names = attempt
      BY <1>1 DEF Numbers
    <2> QED BY <1>2, <2>1 DEF NamesPast, SpawnAdmit, AdmitGranted, AdmitTimeout
  <1> QED BY <1>7, <1>8, <1>9, <1>10, <1>11, <1>12, <1>13

(* A ticket is spent, and its leg parks, takes the parked one or is closed. *)
LEMMA TransferInvAttach ==
    ASSUME TransferInv, NEW k \in tickets, Attach(k) \/ AttachLate(k)
    PROVE  TransferInv'
  <1> USE TransferAssumption DEF TransferInv, clocks, relay, record
  <1> DEFINE a == k.attempt
  <1>1. /\ a \in Attempts /\ k.role \in Roles /\ a = attempt
        /\ state = "waitingRelay" /\ permit
        /\ legs[a] \in {"none", "parked", "abort", "failing", "done"}
    BY DEF TicketsCurrent, Types
  <1>2. /\ tickets' = tickets \ {k}
        /\ UNCHANGED <<state, attempt, permit, upgrade, minted, admits, busy>>
    BY DEF Attach, AttachLate
  <1>3. \/ UNCHANGED relay
        \/ /\ waiter[a] = "none" /\ waiter' = [waiter EXCEPT ![a] = k.role]
           /\ legs' = [legs EXCEPT ![a] = IF @ = "none" THEN "parked" ELSE @]
        \/ /\ waiter[a] \notin {"none", k.role} /\ waiter' = [waiter EXCEPT ![a] = "none"]
           /\ legs' = [legs EXCEPT ![a] = "taken"]
    BY DEF Attach, AttachLate
  <1> HIDE DEF a
  <1>4. /\ waiter' \in [Attempts -> Roles \cup {"none"}] /\ legs' \in [Attempts -> LegStates]
        /\ \A b \in Attempts \ {a} : waiter'[b] = waiter[b] /\ legs'[b] = legs[b]
        /\ legs'[a] \in LegStates \ {"pump"}
    BY <1>1, <1>3 DEF Types, LegStates
  <1>5. Types'  BY <1>2, <1>4 DEF Types
  <1>6. Numbers'  BY <1>2 DEF Numbers
  <1>7. LegsPlaced'
    BY <1>1, <1>2, <1>4 DEF LegsPlaced, Unused, Numbers, Attempts, NoAttempt, Terminal
  <1>8. SlotFollowsRelay'  BY <1>1, <1>2, <1>4 DEF SlotFollowsRelay
  <1>9. TicketsCurrent'
    <2> SUFFICES ASSUME NEW j \in tickets'
                 PROVE  /\ j.attempt = a /\ waiter'[a] # j.role
                        /\ legs'[a] \in {"none", "parked", "abort", "failing", "done"}
      BY <1>1, <1>2 DEF TicketsCurrent, a
    <2>1. j \in tickets /\ j.attempt = a /\ waiter[a] # j.role /\ j.role # k.role
          /\ j.role \in Roles
      BY <1>1, <1>2 DEF TicketsCurrent, Types
    <2> QED BY <1>1, <1>3, <2>1 DEF Types, Roles
  <1>10. QueuedIsWatched' /\ NamesPast'
    BY <1>1, <1>2 DEF QueuedIsWatched, NamesPast
  <1> QED BY <1>5, <1>6, <1>7, <1>8, <1>9, <1>10

(* A task of a leg goes on to `to'; it may leave the waiters.              *)
LEMMA TransferInvLeg ==
    ASSUME TransferInv, NEW a \in Attempts,
           NEW to \in {"left", "paired", "abort", "failing", "done"},
           legs[a] # "none", legs' = [legs EXCEPT ![a] = to],
           legs[a] \in {"parked", "abort", "failing", "done"} =>
               to \in {"abort", "failing", "done"},
           waiter' = waiter \/ waiter' = [waiter EXCEPT ![a] = "none"],
           UNCHANGED <<state, attempt, permit, upgrade, minted, admits, busy, tickets>>
    PROVE  TransferInv'
  <1> USE DEF TransferInv
  <1>1. /\ waiter' \in [Attempts -> Roles \cup {"none"}] /\ legs' \in [Attempts -> LegStates]
        /\ \A b \in Attempts \ {a} : waiter'[b] = waiter[b] /\ legs'[b] = legs[b]
        /\ legs'[a] = to /\ waiter'[a] \in {waiter[a], "none"}
    BY DEF Types, LegStates
  <1>2. Types'  BY <1>1 DEF Types
  <1>3. Numbers'  BY DEF Numbers
  <1>4. LegsPlaced'
    <2>1. \A b \in Attempts : Unused(b) => Unused(b)'  BY <1>1 DEF Unused
    <2>2. state \in Live => attempt \in Attempts
      BY TransferAssumption DEF Numbers, Attempts, NoAttempt
    <2> QED BY <1>1, <2>1, <2>2 DEF LegsPlaced, Live, Carrying
  <1>5. SlotFollowsRelay'  BY <1>1 DEF SlotFollowsRelay
  <1>6. TicketsCurrent'
    <2> SUFFICES ASSUME NEW k \in tickets
                 PROVE  /\ waiter'[k.attempt] # k.role
                        /\ legs'[k.attempt] \in {"none", "parked", "abort", "failing", "done"}
      BY DEF TicketsCurrent
    <2>1. k.attempt \in Attempts /\ k.role \in Roles  BY DEF Types
    <2> QED BY <1>1, <2>1 DEF TicketsCurrent, Roles
  <1>7. QueuedIsWatched' /\ NamesPast'  BY DEF QueuedIsWatched, NamesPast
  <1> QED BY <1>2, <1>3, <1>4, <1>5, <1>6, <1>7

(* The tasks of the legs: the wait, the hand-off, the pump and the abort.  *)
LEMMA TransferInvLegs ==
    ASSUME TransferInv, NEW a \in Attempts,
           \/ ParkTimeout(a) \/ ParkCancelled(a) \/ HandOff(a) \/ Activate(a)
           \/ PumpEnds(a) \/ AbortCheck(a) \/ FailTransfer(a)
    PROVE  TransferInv'
  <1> USE DEF clocks, relay, record
  <1>1. legs[a] \in LegStates /\ legs \in [Attempts -> LegStates]
    BY DEF TransferInv, Types
  <1>2. CASE ParkTimeout(a)
    <2>1. PICK to \in {"abort", "left", "done"} :
             legs' = [legs EXCEPT ![a] = to] /\ (legs[a] = "parked" => to = "abort")
      BY <1>2 DEF ParkTimeout
    <2> QED BY <1>2, <2>1, TransferInvLeg DEF ParkTimeout
  <1>3. CASE ParkCancelled(a)
    <2>1. PICK to \in {"left", "done"} :
             legs' = [legs EXCEPT ![a] = to] /\ (legs[a] = "parked" => to = "done")
      BY <1>3 DEF ParkCancelled
    <2> QED BY <1>3, <2>1, TransferInvLeg DEF ParkCancelled
  <1>4. CASE HandOff(a)
    <2>1. PICK to \in {"paired", "abort"} : legs' = [legs EXCEPT ![a] = to]
      BY <1>4 DEF HandOff
    <2> QED BY <1>4, <2>1, TransferInvLeg DEF HandOff
  <1>5. CASE AbortCheck(a)
    <2>1. PICK to \in {"failing", "done"} : legs' = [legs EXCEPT ![a] = to]
      BY <1>5 DEF AbortCheck
    <2> QED BY <1>5, <2>1, TransferInvLeg DEF AbortCheck
  <1>6. CASE FailTransfer(a)  BY <1>6, TransferInvEnd DEF FailTransfer, Terminal
  <1>7. CASE Activate(a)
    <2>1. CASE state = "waitingRelay" /\ attempt = a
      <3>1. /\ state' = "active" /\ legs' = [legs EXCEPT ![a] = "pump"]
            /\ UNCHANGED <<attempt, permit, upgrade, minted, admits, busy, tickets, waiter>>
            /\ legs[a] = "paired"
        BY <1>7, <2>1 DEF Activate
      <3> USE DEF TransferInv
      <3>2. permit /\ tickets = {} /\ upgrade = NoAttempt
        BY <2>1, <3>1 DEF LegsPlaced, Unused, TicketsCurrent, Numbers, Terminal
      <3>3. /\ legs' \in [Attempts -> LegStates] /\ legs'[a] = "pump"
            /\ \A b \in Attempts \ {a} : legs'[b] = legs[b]
        BY <1>1, <3>1 DEF LegStates
      <3>4. Types'  BY <3>1, <3>3 DEF Types, Live, Carrying
      <3>5. Numbers'  BY <2>1, <3>1 DEF Numbers, Live, Carrying
      <3>6. LegsPlaced'
        BY <2>1, <3>1, <3>2, <3>3 DEF LegsPlaced, Unused, Numbers, Attempts, NoAttempt
      <3>7. SlotFollowsRelay'  BY <3>1, <3>2, <3>3 DEF SlotFollowsRelay
      <3>8. TicketsCurrent' /\ QueuedIsWatched' /\ NamesPast'
        BY <2>1, <3>1, <3>2 DEF TicketsCurrent, QueuedIsWatched, NamesPast
      <3> QED BY <3>4, <3>5, <3>6, <3>7, <3>8
    <2>2. CASE ~(state = "waitingRelay" /\ attempt = a)
      BY <1>7, <2>2, TransferInvLeg DEF Activate
    <2> QED BY <2>1, <2>2
  <1>8. CASE PumpEnds(a)
    <2>1. PICK to \in {"done", "abort"} : legs' = [legs EXCEPT ![a] = to]
      BY <1>8 DEF PumpEnds
    <2>2. CASE attempt # a  BY <1>8, <2>1, <2>2, TransferInvLeg DEF PumpEnds
    <2>3. CASE attempt = a
      <3>1. /\ permit' = FALSE /\ legs[a] = "pump"
            /\ UNCHANGED <<state, attempt, upgrade, minted, admits, busy, tickets, waiter>>
        BY <1>8, <2>3 DEF PumpEnds
      <3> USE DEF TransferInv
      <3>2. state \in Terminal \cup {"active"}  BY <2>3, <3>1 DEF LegsPlaced
      <3>3. tickets = {}  BY <3>2, OffRelay DEF Terminal
      <3>4. /\ legs' \in [Attempts -> LegStates] /\ legs'[a] = to
            /\ \A b \in Attempts \ {a} : legs'[b] = legs[b]
        BY <1>1, <2>1 DEF LegStates
      <3>5. Types'  BY <3>1, <3>4 DEF Types
      <3>6. Numbers'  BY <3>1 DEF Numbers
      <3>7. LegsPlaced'
        BY <2>3, <3>1, <3>2, <3>4 DEF LegsPlaced, Unused, Terminal
      <3>8. SlotFollowsRelay'  BY <2>3, <3>1, <3>4 DEF SlotFollowsRelay
      <3>9. TicketsCurrent' /\ QueuedIsWatched' /\ NamesPast'
        BY <3>1, <3>2, <3>3 DEF TicketsCurrent, QueuedIsWatched, NamesPast, Terminal
      <3> QED BY <3>5, <3>6, <3>7, <3>8, <3>9
    <2> QED BY <2>2, <2>3
  <1> QED BY <1>2, <1>3, <1>4, <1>5, <1>6, <1>7, <1>8

LEMMA TransferInvariant == Spec => []TransferInv
  <1>1. TransferInv /\ Elsewhere => TransferInv'
    BY TransferInvCore DEF Elsewhere, core, record, relay
  <1>2. TransferInv /\ UNCHANGED vars => TransferInv'
    BY TransferInvCore DEF vars, core, record, relay
  <1>3. TransferInv /\ [Next]_vars => TransferInv'
    BY <1>1, <1>2, TransferInvNegotiate, TransferInvReady, TransferInvClose,
       TransferInvAdmit, TransferInvAttach, TransferInvLegs DEF Next
  <1> QED BY <1>3, TransferInvInit, PTL DEF Spec

(* web_transfer.rs, terminate_locked, upgrade_ready, release_relay_permit: *)
(* however retries, fallbacks, probes and relay tasks interleave, a slot   *)
(* is held only for the relay and whenever the current attempt is pumped,  *)
(* so that the semaphore bounds the relays that carry.                     *)
THEOREM SlotsFollowRelays == Spec => []SlotFollowsRelay
  <1>1. TransferInv => SlotFollowsRelay  BY DEF TransferInv
  <1> QED BY <1>1, TransferInvariant, PTL

(* web_transfer.rs, admit_relay and join_relay_pair: a ticket in the map   *)
(* is bound to the current attempt of a transfer that holds its slot, at   *)
(* most one per role, whatever was retried, failed over or cancelled while *)
(* it was on its way; both envelopes name the same attempt, the current    *)
(* one or one it has superseded, so that both legs are let in or both are  *)
(* closed.  That it is the current one is not a theorem: see               *)
(* TicketsNameTheirAttempt.                                                *)
THEOREM TicketsAreCurrent == Spec => []TicketsCurrent
  <1>1. TransferInv => TicketsCurrent  BY DEF TransferInv
  <1> QED BY <1>1, TransferInvariant, PTL

(* web_transfer.rs, admit_relay: a transfer that waits for a relay slot    *)
(* has an admission task, or the task for this very attempt has ended by   *)
(* sending RELAY_BUSY.  That the recipient hears it is not a theorem:      *)
(* send_to drops the message on a full queue.                              *)
THEOREM QueuedAreWatched == Spec => []QueuedIsWatched
  <1>1. TransferInv => QueuedIsWatched  BY DEF TransferInv
  <1> QED BY <1>1, TransferInvariant, PTL

(* web_transfer.rs, is_live at the head of every handler but upgrade_ready: *)
(* an ended transfer stays ended, and only a probe that was pending when it *)
(* ended makes it active again.                                            *)
THEOREM EndedTransfersStay == Spec => EndedUnlessProbed
  <1> DEFINE Stays == state \in Terminal =>
                \/ state' \in {state, "gone"}
                \/ upgrade # NoAttempt /\ attempt' = upgrade /\ state' = "activeDirect"
  <1>1. ASSUME Next PROVE Stays
    <2> SUFFICES ASSUME state \in Terminal, state' # state, state' # "gone"
                 PROVE  upgrade # NoAttempt /\ attempt' = upgrade /\ state' = "activeDirect"
      OBVIOUS
    <2> USE DEF Terminal, Live, Carrying, record, Terminate, AlreadyEnded, Fallback
    <2>1. ~(Request \/ Retry \/ DeliverIncoming \/ LoseIncoming \/ SourceReady \/ Signal
            \/ UpgradeElapsed \/ Cancel \/ Complete \/ Collect \/ Elsewhere)
      BY DEF Request, Retry, DeliverIncoming, LoseIncoming, SourceReady, Signal,
             UpgradeElapsed, Cancel, Complete, Collect, Elsewhere
    <2>2. \A p \in Roles : ~(DirectReady(p) \/ DirectFailed(p) \/ PeerLeaves(p))
      BY DEF DirectReady, DirectFailed, PeerLeaves
    <2>3. \A a \in Attempts :
             ~(\/ DeadlineElapsed(a) \/ ProbeDeadline(a) \/ ParkTimeout(a) \/ ParkCancelled(a)
               \/ HandOff(a) \/ Activate(a) \/ PumpEnds(a) \/ AbortCheck(a) \/ FailTransfer(a))
      BY DEF DeadlineElapsed, ProbeDeadline, ParkTimeout, ParkCancelled, HandOff, Activate,
             PumpEnds, AbortCheck, FailTransfer
    <2>4. \A w \in admits : ~(SpawnAdmit(w) \/ AdmitGranted(w) \/ AdmitTimeout(w))
      BY DEF SpawnAdmit, AdmitGranted, AdmitTimeout
    <2>5. \A k \in tickets : ~(Attach(k) \/ AttachLate(k))  BY DEF Attach, AttachLate
    <2>6. PICK p \in Roles : UpgradeReady(p)
      BY <1>1, <2>1, <2>2, <2>3, <2>4, <2>5 DEF Next
    <2> QED BY <2>6 DEF UpgradeReady
  <1>2. [Next]_vars => [Stays]_vars  BY <1>1
  <1>3. Spec => [][Stays]_vars  BY <1>2, PTL DEF Spec
  <1> QED BY <1>3 DEF EndedUnlessProbed

-----------------------------------------------------------------------------
(* The room.                                                               *)

(* What a session has committed and not broadcast.                         *)
Changes == [kind : {"joined", "added", "removed", "left"}, peer : Peers]
Events == Changes \cup {Closed}
Sessions == {"out", "authed", "joined", "snapped", "viewed", "in", "resync",
             "gone"}
Outboxes(q) == {<<>>, <<Exhausted>>, <<Closed>>, <<Event("joined", q)>>,
                <<Event("added", q)>>, <<Event("removed", q)>>,
                <<Event("left", q)>>,
                <<Event("removed", q), Event("left", q)>>}
Unseen == [peers |-> {}, offers |-> {}]

LeaseTypes ==
    /\ listed \in Rooms \cup {NoRoom}
    /\ owner \in [Rooms -> {"none", "attached", "detached"}]
    /\ lease \in [Owners -> [pc : {"idle", "looked", "attached", "closing"},
                             room : Rooms \cup {NoRoom}]]

RoomTypes ==
    /\ LeaseTypes
    /\ members \in [Rooms -> SUBSET Peers] /\ offers \in [Rooms -> SUBSET Peers]
    /\ session \in [Peers -> Sessions] /\ at \in [Peers -> Rooms \cup {NoRoom}]
    /\ DOMAIN outbox = Peers
    /\ inbox \in [Peers -> Seq(Events)]
    /\ view \in [Peers -> [peers : SUBSET Peers, offers : SUBSET Peers]]
    /\ DOMAIN missed = Peers /\ DOMAIN revision = Rooms /\ lagged \subseteq Peers

(* Where a session is: its room, what it may have to broadcast, and that   *)
(* it has nothing before it has read or after it has left.                 *)
Place(p) ==
    /\ session[p] = "out" <=> at[p] = NoRoom
    /\ outbox[p] \in Outboxes(p)
    /\ session[p] \in {"out", "authed", "snapped", "viewed", "resync"} =>
          outbox[p] = <<>>
    /\ session[p] = "joined" => outbox[p] \in {<<>>, <<Event("joined", p)>>}
    /\ session[p] = "in" =>
          outbox[p] \in {<<>>, <<Event("added", p)>>, <<Event("removed", p)>>}
    /\ session[p] \notin Subscribed => inbox[p] = <<>> /\ p \notin lagged
    /\ session[p] \in {"out", "authed", "joined", "gone"} => view[p] = Unseen
    /\ \A r \in Rooms : p \in members[r] \cup offers[r] =>
          at[p] = r /\ session[p] \notin {"out", "authed", "gone"}
Placed == \A p \in Peers : Place(p)

LEMMA EventKinds ==
    /\ \A q \in Peers : \A k \in {"joined", "added", "removed", "left"} :
          Event(k, q) \in Changes /\ Event(k, q).kind = k /\ Event(k, q).peer = q
    /\ Closed.kind = "closed" /\ Exhausted.kind = "exhausted"
    /\ \A e \in Changes : /\ e # Closed /\ e # Exhausted
                          /\ e.kind \in {"joined", "added", "removed", "left"}
                          /\ e.peer \in Peers
    /\ Closed # Exhausted /\ Closed \in Events
  BY DEF Event, Changes, Events, Closed, Exhausted

(* What a queue of outgoing events can be, by its head.                    *)
LEMMA OutboxShape ==
    ASSUME NEW q \in Peers, NEW s \in Outboxes(q), s # <<>>
    PROVE  \/ s = <<Exhausted>> /\ Head(s) = Exhausted
           \/ s = <<Closed>> /\ Head(s) = Closed /\ Tail(s) = <<>>
           \/ /\ Head(s) \in Changes /\ Head(s).peer = q
              /\ Head(s) # Exhausted /\ Head(s) # Closed
              /\ \/ Tail(s) = <<>> /\ s = <<Head(s)>>
                 \/ /\ Head(s) = Event("removed", q)
                    /\ Tail(s) = <<Event("left", q)>>
                    /\ s = <<Event("removed", q), Event("left", q)>>
  <1>1. CASE s \in {<<Event("joined", q)>>, <<Event("added", q)>>,
                    <<Event("removed", q)>>, <<Event("left", q)>>}
    <2>1. PICK k \in {"joined", "added", "removed", "left"} : s = <<Event(k, q)>>
      BY <1>1
    <2>2. Head(s) = Event(k, q) /\ Tail(s) = <<>>  BY <2>1
    <2> QED  BY <2>1, <2>2, EventKinds
  <1>2. CASE s = <<Event("removed", q), Event("left", q)>>
    <2>1. Head(s) = Event("removed", q) /\ Tail(s) = <<Event("left", q)>>  BY <1>2
    <2> QED  BY <1>2, <2>1, EventKinds
  <1>3. CASE s = <<Exhausted>>
    <2>1. Head(s) = Exhausted  BY <1>3
    <2> QED  BY <1>3, <2>1
  <1>4. CASE s = <<Closed>>
    <2>1. Head(s) = Closed /\ Tail(s) = <<>>  BY <1>4
    <2> QED  BY <1>4, <2>1
  <1>5. \/ s = <<Exhausted>> \/ s = <<Closed>>
        \/ s = <<Event("removed", q), Event("left", q)>>
        \/ s \in {<<Event("joined", q)>>, <<Event("added", q)>>,
                  <<Event("removed", q)>>, <<Event("left", q)>>}
    BY Zenon DEF Outboxes
  <1> QED  BY <1>1, <1>2, <1>3, <1>4, <1>5

(* A broadcast, receiver by receiver.                                      *)
LEMMA SendEffect ==
    ASSUME inbox \in [Peers -> Seq(Events)], DOMAIN missed = Peers,
           lagged \subseteq Peers, NEW r, NEW e \in Events, Send(r, e)
    PROVE  /\ inbox' \in [Peers -> Seq(Events)] /\ DOMAIN missed' = Peers
           /\ lagged' \subseteq Peers /\ lagged \subseteq lagged'
           /\ \A p \in Peers :
                 /\ p \notin Subscribers(r) =>
                       inbox'[p] = inbox[p] /\ (p \in lagged' <=> p \in lagged)
                 /\ p \in Subscribers(r) =>
                       \/ inbox'[p] = Append(inbox[p], e)
                       \/ /\ inbox[p] # <<>> /\ p \in lagged'
                          /\ inbox'[p] = Append(Tail(inbox[p]), e)
                 /\ missed[p] \subseteq missed'[p]
                 /\ at[p] = r /\ PassesBy(p, e) => e \in missed'[p]
  <1> DEFINE full == {p \in Subscribers(r) : Len(inbox[p]) = Capacity}
  <1>1. \A p \in full : inbox[p] # <<>>
    BY RoomAssumption DEF Subscribers
  <1>2. /\ inbox' = [p \in Peers |->
                       IF p \notin Subscribers(r) THEN inbox[p]
                       ELSE Append(IF p \in full THEN Tail(inbox[p]) ELSE inbox[p], e)]
        /\ lagged' = lagged \cup full
        /\ missed' = [p \in Peers |->
                        missed[p]
                          \cup {x \in {Closed} : p \in full /\ Head(inbox[p]) = x}
                          \cup {x \in {e} : at[p] = r /\ PassesBy(p, x)}]
    BY DEF Send
  <1>3. full \subseteq Subscribers(r) /\ full \subseteq Peers  BY DEF Subscribers
  <1> HIDE DEF full
  <1>4. \A p \in Peers : /\ missed[p] \subseteq missed'[p]
                         /\ at[p] = r /\ PassesBy(p, e) => e \in missed'[p]
    BY <1>2
  <1>5. \A p \in Peers : inbox[p] \in Seq(Events) /\ (p \in full => Tail(inbox[p]) \in Seq(Events))
    BY <1>1
  <1>6. inbox' \in [Peers -> Seq(Events)]
    <2>1. \A p \in Peers : (IF p \notin Subscribers(r) THEN inbox[p]
             ELSE Append(IF p \in full THEN Tail(inbox[p]) ELSE inbox[p], e)) \in Seq(Events)
      BY <1>5
    <2> QED  BY <1>2, <2>1
  <1>7. DOMAIN missed' = Peers /\ lagged' \subseteq Peers /\ lagged \subseteq lagged'
    BY <1>2, <1>3
  <1>8. \A p \in Peers :
           /\ p \notin Subscribers(r) =>
                 inbox'[p] = inbox[p] /\ (p \in lagged' <=> p \in lagged)
           /\ p \in Subscribers(r) =>
                 \/ inbox'[p] = Append(inbox[p], e)
                 \/ /\ inbox[p] # <<>> /\ p \in lagged'
                    /\ inbox'[p] = Append(Tail(inbox[p]), e)
    BY <1>1, <1>2, <1>3
  <1> QED  BY <1>4, <1>6, <1>7, <1>8

-----------------------------------------------------------------------------
(* Steps of the room's lifecycle leave the sessions alone, but for what a  *)
(* destroyed room broadcasts.                                              *)
Told(r, e) == UNCHANGED channel \/ Send(r, e)

LEMMA ToldEffect ==
    ASSUME inbox \in [Peers -> Seq(Events)], DOMAIN missed = Peers,
           lagged \subseteq Peers, NEW r, NEW e \in Events, Told(r, e)
    PROVE  /\ inbox' \in [Peers -> Seq(Events)] /\ DOMAIN missed' = Peers
           /\ lagged' \subseteq Peers
           /\ \A p \in Peers : p \notin Subscribers(r) =>
                 inbox'[p] = inbox[p] /\ (p \in lagged' <=> p \in lagged)
  <1>1. CASE UNCHANGED channel  BY <1>1 DEF channel
  <1>2. CASE Send(r, e)  BY <1>2, SendEffect
  <1> QED  BY <1>1, <1>2 DEF Told

LifecycleStep ==
    \/ \E o \in Owners : \/ \E r \in Rooms : Create(o, r)
                         \/ Lookup(o) \/ Resume(o) \/ Detach(o)
                         \/ Close(o) \/ CloseDestroys(o)
    \/ \E m \in monitors : Verdict(m) \/ Evict(m) \/ ExpiryDestroys(m)

LEMMA LifecycleFrame ==
    ASSUME LifecycleStep
    PROVE  /\ UNCHANGED <<contents, sessions>>
           /\ \/ UNCHANGED <<channel, destroyed>>
              \/ \E r : destroyed' = destroyed \cup {r} /\ Told(r, Closed)
                        /\ (r \notin destroyed => Send(r, Closed))
  <1>1. CASE \E o \in Owners : (\E r \in Rooms : Create(o, r)) \/ Lookup(o)
                \/ Detach(o) \/ Close(o)
    BY <1>1 DEF Create, Lookup, Detach, Close
  <1>2. CASE \E o \in Owners : Resume(o)
    BY <1>2 DEF Resume
  <1>3. CASE \E o \in Owners : CloseDestroys(o)
    BY <1>3 DEF CloseDestroys, Destroy, Told
  <1>4. CASE \E m \in monitors : Verdict(m) \/ Evict(m)
    BY <1>4 DEF Verdict, Evict
  <1>5. CASE \E m \in monitors : ExpiryDestroys(m)
    BY <1>5 DEF ExpiryDestroys, Destroy, Told
  <1> QED  BY <1>1, <1>2, <1>3, <1>4, <1>5 DEF LifecycleStep

(* The three things a flush can be.                                        *)
LEMMA FlushCases ==
    ASSUME RoomTypes, Placed, NEW q \in Peers, Flush(q)
    PROVE  /\ UNCHANGED <<contents, session, at, view>>
           /\ at[q] \in Rooms /\ session[q] \in {"joined", "in", "gone"}
           /\ \/ /\ outbox[q] = <<Exhausted>> /\ session[q] = "gone"
                 /\ outbox' = [outbox EXCEPT ![q] = <<Closed>>]
                 /\ UNCHANGED <<destroyed, channel>> /\ Unlist(at[q])
              \/ /\ outbox[q] = <<Closed>> /\ session[q] = "gone"
                 /\ outbox' = [outbox EXCEPT ![q] = <<>>]
                 /\ destroyed' = destroyed \cup {at[q]} /\ Told(at[q], Closed)
                 /\ UNCHANGED listed
              \/ \E e \in Changes :
                 /\ outbox[q] # <<>> /\ Head(outbox[q]) = e /\ e.peer = q
                 /\ outbox' = [outbox EXCEPT ![q] = Tail(outbox[q])]
                 /\ \/ Tail(outbox[q]) = <<>> /\ outbox[q] = <<e>>
                    \/ /\ e = Event("removed", q) /\ session[q] = "gone"
                       /\ outbox[q] = <<Event("removed", q), Event("left", q)>>
                       /\ Tail(outbox[q]) = <<Event("left", q)>>
                 /\ UNCHANGED <<destroyed, listed>> /\ Send(at[q], e)
  <1>1. outbox[q] \in Outboxes(q) /\ outbox[q] # <<>> /\ Place(q)
    BY DEF Placed, Place, Flush
  <1>2. session[q] \in {"joined", "in", "gone"} /\ at[q] \in Rooms
    BY <1>1 DEF Place, RoomTypes, Sessions
  <1>3. UNCHANGED <<contents, session, at, view>>
    BY DEF Flush
  <1>8. DOMAIN outbox = Peers  BY DEF RoomTypes
  <1>4. CASE outbox[q] = <<Exhausted>> /\ Head(outbox[q]) = Exhausted
    <2>1. session[q] = "gone"
      <3>1. <<Exhausted>> # <<Event("joined", q)>> /\ <<Exhausted>> # <<Event("added", q)>>
            /\ <<Exhausted>> # <<Event("removed", q)>> /\ <<Exhausted>> # <<>>
        BY EventKinds
      <3> QED  BY <1>1, <1>2, <1>4, <3>1 DEF Place
    <2>2. Unlist(at[q]) /\ outbox' = [outbox EXCEPT ![q] = <<Closed>>] /\ UNCHANGED <<destroyed, channel>>
      BY <1>4, EventKinds DEF Flush
    <2> QED  BY <1>2, <1>3, <1>4, <2>1, <2>2
  <1>5. CASE outbox[q] = <<Closed>> /\ Head(outbox[q]) = Closed /\ Tail(outbox[q]) = <<>>
    <2>1. session[q] = "gone"
      <3>1. <<Closed>> # <<Event("joined", q)>> /\ <<Closed>> # <<Event("added", q)>>
            /\ <<Closed>> # <<Event("removed", q)>> /\ <<Closed>> # <<>>
        BY EventKinds
      <3> QED  BY <1>1, <1>2, <1>5, <3>1 DEF Place
    <2>2. Destroy(at[q]) /\ outbox' = [outbox EXCEPT ![q] = Tail(@)] /\ UNCHANGED listed
      BY <1>5, EventKinds DEF Flush
    <2>3. destroyed' = destroyed \cup {at[q]} /\ Told(at[q], Closed)
      BY <2>2 DEF Destroy, Told
    <2> QED  BY <1>2, <1>3, <1>5, <1>8, <2>1, <2>2, <2>3
  <1>6. CASE /\ Head(outbox[q]) \in Changes /\ Head(outbox[q]).peer = q
             /\ Head(outbox[q]) # Exhausted /\ Head(outbox[q]) # Closed
             /\ \/ Tail(outbox[q]) = <<>> /\ outbox[q] = <<Head(outbox[q])>>
                \/ /\ Head(outbox[q]) = Event("removed", q)
                   /\ Tail(outbox[q]) = <<Event("left", q)>>
                   /\ outbox[q] = <<Event("removed", q), Event("left", q)>>
    <2>1. /\ Send(at[q], Head(outbox[q])) /\ outbox' = [outbox EXCEPT ![q] = Tail(@)]
          /\ UNCHANGED <<destroyed, listed>>
      BY <1>6 DEF Flush
    <2>2. ASSUME outbox[q] = <<Event("removed", q), Event("left", q)>>
          PROVE  session[q] = "gone"
      <3>1. \A x : outbox[q] # <<x>> /\ outbox[q] # <<>>  BY <2>2
      <3> QED  BY <1>1, <1>2, <3>1 DEF Place
    <2>3. \E e \in Changes :
             /\ outbox[q] # <<>> /\ Head(outbox[q]) = e /\ e.peer = q
             /\ outbox' = [outbox EXCEPT ![q] = Tail(outbox[q])]
             /\ \/ Tail(outbox[q]) = <<>> /\ outbox[q] = <<e>>
                \/ /\ e = Event("removed", q) /\ session[q] = "gone"
                   /\ outbox[q] = <<Event("removed", q), Event("left", q)>>
                   /\ Tail(outbox[q]) = <<Event("left", q)>>
             /\ UNCHANGED <<destroyed, listed>> /\ Send(at[q], e)
      BY <1>1, <1>6, <2>1, <2>2, Zenon
    <2> QED  BY <1>2, <1>3, <2>3
  <1> QED  BY <1>1, <1>4, <1>5, <1>6, OutboxShape

LEMMA BaseInit == RoomInit => RoomTypes /\ Placed
  <1> SUFFICES ASSUME RoomInit PROVE RoomTypes /\ Placed  OBVIOUS
  <1>1. RoomTypes
    BY RoomAssumption DEF RoomInit, RoomTypes, LeaseTypes, Sessions
  <1>2. Placed
    BY RoomAssumption DEF RoomInit, Placed, Place, Outboxes, Subscribed, Unseen
  <1> QED  BY <1>1, <1>2

LEMMA LeaseTypesNext ==
    ASSUME LeaseTypes, LifecycleStep
    PROVE  LeaseTypes'
  <1> DEFINE Leases == [pc : {"idle", "looked", "attached", "closing"},
                        room : Rooms \cup {NoRoom}]
  <1>0. [pc |-> "idle", room |-> NoRoom] \in Leases  OBVIOUS
  <1>1. ASSUME NEW o \in Owners, NEW r \in Rooms, Create(o, r)  PROVE LeaseTypes'
    BY <1>1 DEF Create, LeaseTypes
  <1>2. ASSUME NEW o \in Owners, Lookup(o)  PROVE LeaseTypes'
    BY <1>2 DEF Lookup, LeaseTypes
  <1>3. ASSUME NEW o \in Owners, Resume(o)  PROVE LeaseTypes'
    <2>1. [lease[o] EXCEPT !.pc = "attached"] \in Leases  BY DEF LeaseTypes
    <2>2. lease' \in [Owners -> Leases]
      BY <1>0, <1>3, <2>1 DEF Resume, LeaseTypes
    <2>3. owner' \in [Rooms -> {"none", "attached", "detached"}] /\ listed' = listed
      BY <1>3 DEF Resume, LeaseTypes
    <2> QED  BY <2>2, <2>3 DEF LeaseTypes
  <1>4. ASSUME NEW o \in Owners, Detach(o)  PROVE LeaseTypes'
    BY <1>0, <1>4 DEF Detach, LeaseTypes
  <1>5. ASSUME NEW o \in Owners, Close(o)  PROVE LeaseTypes'
    <2>1. [lease[o] EXCEPT !.pc = "closing"] \in Leases  BY DEF LeaseTypes
    <2>2. lease' \in [Owners -> Leases]
      BY <1>5, <2>1 DEF Close, LeaseTypes
    <2> QED  BY <1>5, <2>2 DEF Close, Unlist, LeaseTypes
  <1>6. ASSUME NEW o \in Owners, CloseDestroys(o)  PROVE LeaseTypes'
    BY <1>0, <1>6 DEF CloseDestroys, LeaseTypes
  <1>7. ASSUME NEW m \in monitors, Verdict(m) \/ Evict(m) \/ ExpiryDestroys(m)
        PROVE  LeaseTypes'
    BY <1>7 DEF Verdict, Evict, ExpiryDestroys, Unlist, LeaseTypes
  <1> QED  BY <1>1, <1>2, <1>3, <1>4, <1>5, <1>6, <1>7 DEF LifecycleStep

LEMMA BaseLifecycle ==
    ASSUME RoomTypes, Placed, LifecycleStep
    PROVE  RoomTypes' /\ Placed'
  <1>1. /\ UNCHANGED <<members, offers, revision, session, at, outbox, view>>
        /\ inbox' \in [Peers -> Seq(Events)] /\ DOMAIN missed' = Peers
        /\ lagged' \subseteq Peers
        /\ \A p \in Peers : session[p] \notin Subscribed =>
              inbox'[p] = inbox[p] /\ (p \in lagged' <=> p \in lagged)
    <2>1. CASE UNCHANGED channel
      BY <2>1, LifecycleFrame DEF contents, sessions, channel, RoomTypes
    <2>2. CASE \E r : Told(r, Closed)
      <3>1. PICK r : Told(r, Closed)  BY <2>2
      <3>2. /\ inbox \in [Peers -> Seq(Events)] /\ DOMAIN missed = Peers
            /\ lagged \subseteq Peers
        BY DEF RoomTypes
      <3> QED  BY <3>1, <3>2, ToldEffect, EventKinds, LifecycleFrame
               DEF contents, sessions, Subscribers
    <2> QED  BY <2>1, <2>2, LifecycleFrame
  <1>2. LeaseTypes'  BY LeaseTypesNext DEF RoomTypes
  <1>3. RoomTypes'  BY <1>1, <1>2 DEF RoomTypes
  <1>4. Placed'  BY <1>1 DEF Placed, Place
  <1> QED  BY <1>3, <1>4

LEMMA BaseFlush ==
    ASSUME RoomTypes, Placed, NEW q \in Peers, Flush(q)
    PROVE  RoomTypes' /\ Placed'
  <1>0. /\ inbox \in [Peers -> Seq(Events)] /\ DOMAIN missed = Peers
        /\ lagged \subseteq Peers /\ DOMAIN outbox = Peers
    BY DEF RoomTypes
  <1>1. /\ UNCHANGED <<members, offers, revision, session, at, view>>
        /\ UNCHANGED <<owner, lease>>
    BY FlushCases DEF contents, Flush
  <1>2. /\ inbox' \in [Peers -> Seq(Events)] /\ DOMAIN missed' = Peers
        /\ lagged' \subseteq Peers
        /\ \A p \in Peers : session[p] \notin Subscribed =>
              inbox'[p] = inbox[p] /\ (p \in lagged' <=> p \in lagged)
    <2>1. PICK e \in Events : Told(at[q], e)
      BY FlushCases, EventKinds DEF Told, Events
    <2> QED  BY <1>0, <2>1, ToldEffect DEF Subscribers
  <1>3. listed' \in Rooms \cup {NoRoom}
    BY FlushCases DEF Unlist, RoomTypes, LeaseTypes
  <1>4. /\ DOMAIN outbox' = Peers
        /\ \A p \in Peers : p # q => outbox'[p] = outbox[p]
        /\ \/ session[q] = "gone" /\ outbox'[q] \in Outboxes(q)
           \/ outbox'[q] = <<>>
    BY <1>0, FlushCases DEF Outboxes
  <1>5. RoomTypes'  BY <1>1, <1>2, <1>3, <1>4 DEF RoomTypes, LeaseTypes
  <1>6. ASSUME NEW p \in Peers PROVE Place(p)'
    <2>1. Place(p)  BY DEF Placed
    <2>2. CASE p # q  BY <1>1, <1>2, <1>4, <2>1, <2>2 DEF Place
    <2>3. CASE p = q
      <3>1. <<>> \in Outboxes(q)  BY DEF Outboxes
      <3> QED  BY <1>1, <1>2, <1>4, <2>1, <2>3, <3>1 DEF Place
    <2> QED  BY <2>2, <2>3
  <1> QED  BY <1>5, <1>6 DEF Placed

LEMMA BaseEntry ==
    ASSUME RoomTypes, Placed, NEW q \in Peers,
           Hello(q) \/ Join(q) \/ SnapshotPeers(q) \/ SnapshotOffers(q) \/ Subscribe(q)
    PROVE  RoomTypes' /\ Placed'
  <1>0. /\ \A p \in Peers : Place(p)
        /\ \A p \in Peers : <<>> \in Outboxes(p) /\ <<Event("joined", p)>> \in Outboxes(p)
    BY DEF Placed, Outboxes
  <1>1. CASE Hello(q)
    <2>1. RoomTypes'
      BY <1>1 DEF Hello, lifecycle, contents, channel, RoomTypes, LeaseTypes, Sessions
    <2>2. ASSUME NEW p \in Peers PROVE Place(p)'
      BY <1>0, <1>1, RoomAssumption
      DEF Hello, lifecycle, contents, channel, Place, RoomTypes, LeaseTypes, Subscribed
    <2> QED  BY <2>1, <2>2 DEF Placed
  <1>2. CASE Join(q)
    <2>0. at[q] \in Rooms /\ session[q] = "authed"
      BY <1>0, <1>2 DEF Join, Place, RoomTypes
    <2>1. RoomTypes'
      <3>1. CASE revision[at[q]] = RevisionLimit
        BY <1>2, <2>0, <3>1
        DEF Join, lifecycle, contents, channel, RoomTypes, LeaseTypes, Sessions
      <3>2. CASE revision[at[q]] # RevisionLimit
        <4>1. members' \in [Rooms -> SUBSET Peers]
          BY <1>2, <2>0, <3>2 DEF Join, RoomTypes
        <4> QED
          BY <1>2, <2>0, <3>2, <4>1
          DEF Join, lifecycle, contents, channel, RoomTypes, LeaseTypes, Sessions
      <3> QED  BY <3>1, <3>2
    <2>2. ASSUME NEW p \in Peers PROVE Place(p)'
      BY <1>0, <1>2, <2>0
      DEF Join, lifecycle, contents, channel, Place, RoomTypes, LeaseTypes, Subscribed
    <2> QED  BY <2>1, <2>2 DEF Placed
  <1>3. CASE SnapshotPeers(q)
    <2>0. at[q] \in Rooms /\ session[q] = "joined"
      BY <1>0, <1>3 DEF SnapshotPeers, Place, RoomTypes
    <2>1. RoomTypes'
      BY <1>3, <2>0
      DEF SnapshotPeers, lifecycle, contents, channel, RoomTypes, LeaseTypes, Sessions
    <2>2. ASSUME NEW p \in Peers PROVE Place(p)'
      BY <1>0, <1>3, <2>0
      DEF SnapshotPeers, lifecycle, contents, channel, Place, RoomTypes, Subscribed
    <2> QED  BY <2>1, <2>2 DEF Placed
  <1>4. CASE SnapshotOffers(q)
    <2>0. at[q] \in Rooms /\ session[q] = "snapped"
      BY <1>0, <1>4 DEF SnapshotOffers, Place, RoomTypes
    <2>1. RoomTypes'
      <3>0. /\ view[q] \in [peers : SUBSET Peers, offers : SUBSET Peers]
            /\ offers[at[q]] \in SUBSET Peers
        BY <2>0 DEF RoomTypes
      <3>1. [view[q] EXCEPT !.offers = offers[at[q]]]
              \in [peers : SUBSET Peers, offers : SUBSET Peers]
        BY <3>0
      <3> QED
        BY <1>4, <3>1
        DEF SnapshotOffers, lifecycle, contents, channel, RoomTypes, LeaseTypes, Sessions
    <2>2. ASSUME NEW p \in Peers PROVE Place(p)'
      BY <1>0, <1>4, <2>0
      DEF SnapshotOffers, lifecycle, contents, channel, Place, RoomTypes, Subscribed
    <2> QED  BY <2>1, <2>2 DEF Placed
  <1>5. CASE Subscribe(q)
    <2>1. RoomTypes'
      BY <1>5 DEF Subscribe, lifecycle, contents, RoomTypes, LeaseTypes, Sessions
    <2>2. ASSUME NEW p \in Peers PROVE Place(p)'
      BY <1>0, <1>5 DEF Subscribe, lifecycle, contents, Place, RoomTypes, Subscribed
    <2> QED  BY <2>1, <2>2 DEF Placed
  <1> QED  BY <1>1, <1>2, <1>3, <1>4, <1>5

LEMMA BaseOffer ==
    ASSUME RoomTypes, Placed, NEW q \in Peers, Publish(q) \/ Withdraw(q)
    PROVE  RoomTypes' /\ Placed'
  <1>0. /\ \A p \in Peers : Place(p)
        /\ <<Event("added", q)>> \in Outboxes(q) /\ <<Event("removed", q)>> \in Outboxes(q)
        /\ session[q] = "in" /\ at[q] \in Rooms
    BY DEF Placed, Outboxes, Place, RoomTypes, Publish, Withdraw
  <1>1. /\ offers' \in [Rooms -> SUBSET Peers] /\ DOMAIN revision' = Rooms
        /\ \A r \in Rooms, p \in Peers : p # q => (p \in offers'[r] <=> p \in offers[r])
        /\ \A r \in Rooms : q \in offers'[r] => r = at[q] \/ q \in offers[r]
    <2>1. CASE Publish(q)
      <3>1. /\ offers' = [offers EXCEPT ![at[q]] = offers[at[q]] \cup {q}]
            /\ revision' = [revision EXCEPT ![at[q]] = @ + 1]
        BY <2>1 DEF Publish
      <3> QED  BY <1>0, <3>1 DEF RoomTypes
    <2>2. CASE Withdraw(q)
      <3>1. /\ offers' = [offers EXCEPT ![at[q]] = offers[at[q]] \ {q}]
            /\ revision' = [revision EXCEPT ![at[q]] = @ + 1]
        BY <2>2 DEF Withdraw
      <3> QED  BY <1>0, <3>1 DEF RoomTypes
    <2> QED  BY <2>1, <2>2
  <1>2. \E x \in {<<Event("added", q)>>, <<Event("removed", q)>>} :
           outbox' = [outbox EXCEPT ![q] = x]
    BY DEF Publish, Withdraw
  <1>3. UNCHANGED <<lifecycle, members, session, at, view, channel>>
    BY DEF Publish, Withdraw
  <1>4. RoomTypes'
    BY <1>1, <1>2, <1>3 DEF lifecycle, channel, RoomTypes, LeaseTypes
  <1>5. ASSUME NEW p \in Peers PROVE Place(p)'
    <2>1. CASE p = q
      <3>1. outbox'[q] \in {<<Event("added", q)>>, <<Event("removed", q)>>}
        BY <1>2 DEF RoomTypes
      <3> QED
        BY <1>0, <1>1, <1>3, <2>1, <3>1
        DEF lifecycle, channel, Place, RoomTypes, Subscribed
    <2>2. CASE p # q
      BY <1>0, <1>1, <1>2, <1>3, <2>2
      DEF lifecycle, channel, Place, RoomTypes, Subscribed
    <2> QED  BY <2>1, <2>2
  <1> QED  BY <1>4, <1>5 DEF Placed

(* A member that is removed has its departure to broadcast, or its room to *)
(* end.                                                                    *)
LEMMA RemoveEffect ==
    ASSUME RoomTypes, NEW q \in Peers, at[q] \in Rooms, Remove(q)
    PROVE  /\ UNCHANGED <<listed, owner, destroyed, lease, monitors, at, missed>>
           /\ session' = [session EXCEPT ![q] = "gone"]
           /\ members' = [members EXCEPT ![at[q]] = members[at[q]] \ {q}]
           /\ offers' = [offers EXCEPT ![at[q]] = offers[at[q]] \ {q}]
           /\ inbox' = [inbox EXCEPT ![q] = <<>>] /\ lagged' = lagged \ {q}
           /\ view' = [view EXCEPT ![q] = Unseen]
           /\ excused \subseteq excused' /\ DOMAIN revision' = Rooms
           /\ \/ /\ outbox' = [outbox EXCEPT ![q] = <<Exhausted>>]
                 /\ at[q] \in excused'
              \/ /\ q \in offers[at[q]]
                 /\ outbox' = [outbox EXCEPT ![q] =
                                  <<Event("removed", q), Event("left", q)>>]
              \/ /\ q \notin offers[at[q]]
                 /\ outbox' = [outbox EXCEPT ![q] = <<Event("left", q)>>]
  <1> DEFINE r == at[q]
             gone == IF q \in offers[r]
                     THEN <<Event("removed", q), Event("left", q)>>
                     ELSE <<Event("left", q)>>
  <1>1. CASE revision[r] + Len(gone) > RevisionLimit
    BY <1>1 DEF Remove, RoomTypes, Unseen
  <1>2. CASE ~(revision[r] + Len(gone) > RevisionLimit)
    BY <1>2 DEF Remove, RoomTypes, Unseen
  <1> QED  BY <1>1, <1>2

LEMMA BaseRemove ==
    ASSUME RoomTypes, Placed, NEW q \in Peers, session[q] = "in", Remove(q)
    PROVE  RoomTypes' /\ Placed'
  <1>0. /\ \A p \in Peers : Place(p)
        /\ at[q] \in Rooms
        /\ {<<Exhausted>>, <<Event("left", q)>>,
            <<Event("removed", q), Event("left", q)>>} \subseteq Outboxes(q)
        /\ Unseen \in [peers : SUBSET Peers, offers : SUBSET Peers]
    BY DEF Placed, Outboxes, Place, RoomTypes, Unseen
  <1>1. PICK x \in Outboxes(q) : outbox' = [outbox EXCEPT ![q] = x]
    BY <1>0, RemoveEffect
  <1>2. /\ UNCHANGED <<listed, owner, lease, at, missed>>
        /\ session' = [session EXCEPT ![q] = "gone"]
        /\ members' = [members EXCEPT ![at[q]] = members[at[q]] \ {q}]
        /\ offers' = [offers EXCEPT ![at[q]] = offers[at[q]] \ {q}]
        /\ inbox' = [inbox EXCEPT ![q] = <<>>] /\ lagged' = lagged \ {q}
        /\ view' = [view EXCEPT ![q] = Unseen]
        /\ DOMAIN revision' = Rooms
    BY <1>0, RemoveEffect
  <1>3. /\ members' \in [Rooms -> SUBSET Peers] /\ offers' \in [Rooms -> SUBSET Peers]
        /\ \A r \in Rooms : /\ members'[r] \subseteq members[r]
                            /\ offers'[r] \subseteq offers[r]
        /\ q \notin members'[at[q]] \cup offers'[at[q]]
    BY <1>0, <1>2 DEF RoomTypes
  <1>4. inbox' \in [Peers -> Seq(Events)]
    BY <1>2 DEF RoomTypes
  <1>5. RoomTypes'
    BY <1>0, <1>1, <1>2, <1>3, <1>4 DEF RoomTypes, LeaseTypes, Sessions
  <1>6. ASSUME NEW p \in Peers PROVE Place(p)'
    <2>0. Place(p)  BY <1>0
    <2>1. CASE p = q
      BY <1>0, <1>1, <1>2, <1>3, <2>0, <2>1 DEF Place, RoomTypes, Subscribed
    <2>2. CASE p # q
      BY <1>1, <1>2, <1>3, <2>0, <2>2 DEF Place, RoomTypes, Subscribed
    <2> QED  BY <2>1, <2>2
  <1> QED  BY <1>5, <1>6 DEF Placed

(* What the browser makes of an event.                                     *)
LEMMA ReducedEffect ==
    ASSUME NEW v \in [peers : SUBSET Peers, offers : SUBSET Peers], NEW e \in Changes
    PROVE  /\ Reduced(v, e) \in [peers : SUBSET Peers, offers : SUBSET Peers]
           /\ \A q \in Peers : q # e.peer =>
                 /\ q \in Reduced(v, e).peers <=> q \in v.peers
                 /\ q \in Reduced(v, e).offers <=> q \in v.offers
           /\ e.kind = "joined" => e.peer \in Reduced(v, e).peers
           /\ e.kind = "left" => e.peer \notin Reduced(v, e).peers
           /\ e.kind \in {"added", "removed"} => Reduced(v, e).peers = v.peers
           /\ e.kind = "added" => e.peer \in Reduced(v, e).offers
           /\ e.kind = "removed" => e.peer \notin Reduced(v, e).offers
           /\ e.kind = "joined" => Reduced(v, e).offers = v.offers
           /\ e.kind = "left" => Reduced(v, e).offers \subseteq v.offers
           /\ Reduced(v, e).peers \subseteq v.peers \cup {e.peer}
           /\ Reduced(v, e).offers \subseteq v.offers \cup {e.peer}
  <1>0. e.peer \in Peers /\ e.kind \in {"joined", "added", "removed", "left"}
    BY EventKinds
  <1>1. CASE e.kind = "joined"
    <2>1. Reduced(v, e) = [v EXCEPT !.peers = @ \cup {e.peer}]  BY <1>1 DEF Reduced
    <2> QED  BY <1>0, <1>1, <2>1
  <1>2. CASE e.kind = "added"
    <2>1. Reduced(v, e) = [v EXCEPT !.offers = @ \cup {e.peer}]  BY <1>2 DEF Reduced
    <2> QED  BY <1>0, <1>2, <2>1
  <1>3. CASE e.kind = "removed"
    <2>1. Reduced(v, e) = [v EXCEPT !.offers = @ \ {e.peer}]  BY <1>3 DEF Reduced
    <2> QED  BY <1>0, <1>3, <2>1
  <1>4. CASE e.kind = "left"
    <2>1. Reduced(v, e) = IF e.peer \in v.peers
                          THEN [peers |-> v.peers \ {e.peer},
                                offers |-> v.offers \ {e.peer}]
                          ELSE v
      BY <1>4 DEF Reduced
    <2> QED  BY <1>0, <1>4, <2>1
  <1> QED  BY <1>0, <1>1, <1>2, <1>3, <1>4

LEMMA ReceiveEffect ==
    ASSUME RoomTypes, Placed, NEW q \in Peers, Receive(q)
    PROVE  /\ session[q] = "in" /\ at[q] \in Rooms /\ inbox[q] # <<>>
           /\ outbox[q] = <<>> /\ q \notin lagged
           /\ \/ Remove(q)
              \/ \E e \in Changes :
                    /\ e = Head(inbox[q])
                    /\ view' = [view EXCEPT ![q] = Reduced(view[q], e)]
                    /\ inbox' = [inbox EXCEPT ![q] = Tail(inbox[q])]
                    /\ UNCHANGED <<lifecycle, contents, session, at, outbox, lagged,
                                   missed>>
  <1>1. inbox[q] \in Seq(Events) /\ inbox[q] # <<>>  BY DEF Receive, RoomTypes
  <1>2. Head(inbox[q]) \in Events  BY <1>1
  <1>3. at[q] \in Rooms  BY DEF Receive, Placed, Place, RoomTypes
  <1>4. CASE Head(inbox[q]) = Closed  BY <1>1, <1>3, <1>4 DEF Receive
  <1>5. CASE Head(inbox[q]) \in Changes
    BY <1>1, <1>3, <1>5, EventKinds DEF Receive
  <1> QED  BY <1>2, <1>4, <1>5 DEF Events

LEMMA BaseReceive ==
    ASSUME RoomTypes, Placed, NEW q \in Peers,
           Leave(q) \/ Receive(q) \/ ResyncPeers(q) \/ ResyncOffers(q)
    PROVE  RoomTypes' /\ Placed'
  <1>0. \A p \in Peers : Place(p)  BY DEF Placed
  <1>1. CASE Leave(q)  BY <1>1, BaseRemove DEF Leave
  <1>2. CASE Receive(q)
    <2>1. CASE Remove(q)  BY <1>2, <2>1, BaseRemove, ReceiveEffect
    <2>2. ASSUME NEW e \in Changes, e = Head(inbox[q]),
                 view' = [view EXCEPT ![q] = Reduced(view[q], e)],
                 inbox' = [inbox EXCEPT ![q] = Tail(inbox[q])],
                 UNCHANGED <<lifecycle, contents, session, at, outbox, lagged, missed>>
          PROVE  RoomTypes' /\ Placed'
      <3>1. Reduced(view[q], e) \in [peers : SUBSET Peers, offers : SUBSET Peers]
        BY ReducedEffect DEF RoomTypes
      <3>2. Tail(inbox[q]) \in Seq(Events) /\ session[q] = "in"
        BY <1>2, ReceiveEffect DEF RoomTypes
      <3>3. RoomTypes'
        BY <2>2, <3>1, <3>2 DEF lifecycle, contents, RoomTypes, LeaseTypes
      <3>4. ASSUME NEW p \in Peers PROVE Place(p)'
        BY <1>0, <2>2, <3>2 DEF lifecycle, contents, RoomTypes, Place, Subscribed
      <3> QED  BY <3>3, <3>4 DEF Placed
    <2> QED  BY <1>2, <2>1, <2>2, ReceiveEffect
  <1>3. CASE ResyncPeers(q)
    <2>0. at[q] \in Rooms /\ session[q] = "in"
      BY <1>0, <1>3 DEF ResyncPeers, Place, RoomTypes
    <2>1. RoomTypes'
      BY <1>3, <2>0
      DEF ResyncPeers, lifecycle, contents, RoomTypes, LeaseTypes, Sessions
    <2>2. ASSUME NEW p \in Peers PROVE Place(p)'
      BY <1>0, <1>3, <2>0
      DEF ResyncPeers, lifecycle, contents, Place, RoomTypes, Subscribed
    <2> QED  BY <2>1, <2>2 DEF Placed
  <1>4. CASE ResyncOffers(q)
    <2>0. at[q] \in Rooms /\ session[q] = "resync"
      BY <1>0, <1>4 DEF ResyncOffers, Place, RoomTypes
    <2>1. RoomTypes'
      <3>0. /\ view[q] \in [peers : SUBSET Peers, offers : SUBSET Peers]
            /\ offers[at[q]] \in SUBSET Peers
        BY <2>0 DEF RoomTypes
      <3>1. [view[q] EXCEPT !.offers = offers[at[q]]]
              \in [peers : SUBSET Peers, offers : SUBSET Peers]
        BY <3>0
      <3> QED
        BY <1>4, <3>1
        DEF ResyncOffers, lifecycle, contents, channel, RoomTypes, LeaseTypes, Sessions
    <2>2. ASSUME NEW p \in Peers PROVE Place(p)'
      BY <1>0, <1>4, <2>0
      DEF ResyncOffers, lifecycle, contents, channel, Place, RoomTypes, Subscribed
    <2> QED  BY <2>1, <2>2 DEF Placed
  <1> QED  BY <1>1, <1>2, <1>3, <1>4

LEMMA BaseNext ==
    ASSUME RoomTypes, Placed, [RoomNext]_roomVars
    PROVE  RoomTypes' /\ Placed'
  <1>1. CASE UNCHANGED roomVars
    BY <1>1 DEF roomVars, lifecycle, contents, sessions, channel, RoomTypes, LeaseTypes,
                Placed, Place
  <1>2. CASE LifecycleStep  BY <1>2, BaseLifecycle
  <1>3. ASSUME NEW p \in Peers,
               \/ Hello(p) \/ Join(p) \/ SnapshotPeers(p) \/ SnapshotOffers(p)
               \/ Subscribe(p) \/ Flush(p) \/ Publish(p) \/ Withdraw(p) \/ Leave(p)
               \/ Receive(p) \/ ResyncPeers(p) \/ ResyncOffers(p)
        PROVE  RoomTypes' /\ Placed'
    BY <1>3, BaseEntry, BaseFlush, BaseOffer, BaseReceive
  <1> QED  BY <1>1, <1>2, <1>3 DEF RoomNext, LifecycleStep

-----------------------------------------------------------------------------
(* The lease: a session that holds it, or is closing its room, is the only *)
(* one, and the room is marked as attached.                                *)
Holding(o) == lease[o].pc \in {"attached", "closing"}
Leased ==
    /\ \A o \in Owners : Holding(o) =>
          lease[o].room \in Rooms /\ owner[lease[o].room] = "attached"
    /\ \A o, u \in Owners : o # u /\ Holding(o) /\ Holding(u) =>
          lease[o].room # lease[u].room
    /\ \A o \in Owners : lease[o].pc = "looked" => lease[o].room \in Rooms

(* After a monitor's verdict the room is detached, unless it was resumed.  *)
Timed ==
    \A m \in monitors : m.room \in Rooms /\
        (m.pc # "asleep" => owner[m.room] = "detached" \/ m.room \in excused)

(* A session ends a room only when its revision was spent.                 *)
Spent == \A p \in Peers : outbox[p] = <<Exhausted>> => at[p] \in excused

OwnerInv == Leased /\ Timed /\ Spent /\ AttachedIsListed

LEMMA OwnerInvInit == RoomInit => OwnerInv
  <1>1. <<>> # <<Exhausted>>  OBVIOUS
  <1> QED  BY <1>1 DEF RoomInit, OwnerInv, Leased, Holding, Timed, Spent, AttachedIsListed

LEMMA OwnerInvOwner ==
    ASSUME RoomTypes, OwnerInv, NEW o \in Owners,
           \/ \E r \in Rooms : Create(o, r)
           \/ Lookup(o) \/ Resume(o) \/ Detach(o) \/ Close(o) \/ CloseDestroys(o)
    PROVE  OwnerInv'
  <1>0. LeaseTypes  BY DEF RoomTypes
  <1>1. ASSUME NEW r \in Rooms, Create(o, r)  PROVE OwnerInv'
    <2>1. /\ lease' = [lease EXCEPT ![o] = [pc |-> "attached", room |-> r]]
          /\ owner' = [owner EXCEPT ![r] = "attached"] /\ listed' = r
          /\ UNCHANGED <<monitors, excused, outbox, at>>
          /\ lease[o].pc = "idle" /\ owner[r] = "none" /\ listed = NoRoom
      BY <1>1 DEF Create, sessions
    <2>2. \A u \in Owners : u # o => lease'[u] = lease[u]  BY <1>0, <2>1 DEF LeaseTypes
    <2>3. lease'[o].pc = "attached" /\ lease'[o].room = r  BY <1>0, <2>1 DEF LeaseTypes
    <2>4. owner'[r] = "attached" /\ \A x \in Rooms : x # r => owner'[x] = owner[x]
      BY <1>0, <2>1 DEF LeaseTypes
    <2>5. Leased'  BY <2>1, <2>2, <2>3, <2>4 DEF OwnerInv, Leased, Holding
    <2>6. Timed'  BY <2>1, <2>4 DEF OwnerInv, Timed
    <2>7. Spent'  BY <2>1 DEF OwnerInv, Spent
    <2>8. AttachedIsListed'
      BY <2>1, <2>2, <2>3, RoomAssumption DEF OwnerInv, AttachedIsListed, Leased, Holding
    <2> QED  BY <2>5, <2>6, <2>7, <2>8 DEF OwnerInv
  <1>2. CASE Lookup(o)
    <2>1. /\ lease' = [lease EXCEPT ![o] = [pc |-> "looked", room |-> listed]]
          /\ UNCHANGED <<monitors, excused, outbox, at, owner, listed>>
          /\ listed # NoRoom
      BY <1>2 DEF Lookup, sessions
    <2>2. \A u \in Owners : u # o => lease'[u] = lease[u]  BY <1>0, <2>1 DEF LeaseTypes
    <2>3. lease'[o].pc = "looked" /\ lease'[o].room \in Rooms  BY <1>0, <2>1 DEF LeaseTypes
    <2> QED
      BY <2>1, <2>2, <2>3
      DEF OwnerInv, Leased, Holding, Timed, Spent, AttachedIsListed
  <1>3. CASE Resume(o)
    <2> DEFINE r == lease[o].room
    <2>0. lease[o].pc = "looked" /\ r \in Rooms /\ UNCHANGED <<monitors, outbox, at, listed>>
      BY <1>3 DEF Resume, OwnerInv, Leased, sessions
    <2>1. CASE /\ owner[r] = "detached"
               /\ owner' = [owner EXCEPT ![r] = "attached"]
               /\ lease' = [lease EXCEPT ![o].pc = "attached"]
               /\ excused' = excused \cup
                    {x \in {r} : \/ listed # r
                                 \/ \E m \in monitors : m.room = r /\ m.pc # "asleep"}
      <3>1. \A u \in Owners : u # o => lease'[u] = lease[u]  BY <1>0, <2>1 DEF LeaseTypes
      <3>2. lease'[o].pc = "attached" /\ lease'[o].room = r  BY <1>0, <2>1 DEF LeaseTypes
      <3>3. owner'[r] = "attached" /\ \A x \in Rooms : x # r => owner'[x] = owner[x]
        BY <1>0, <2>0, <2>1 DEF LeaseTypes
      <3>4. Leased'  BY <2>0, <2>1, <3>1, <3>2, <3>3 DEF OwnerInv, Leased, Holding
      <3>5. Timed'  BY <2>0, <2>1, <3>3 DEF OwnerInv, Timed
      <3>6. Spent'  BY <2>0, <2>1 DEF OwnerInv, Spent
      <3>7. AttachedIsListed'
        BY <2>0, <2>1, <3>1, <3>2 DEF OwnerInv, AttachedIsListed
      <3> QED  BY <3>4, <3>5, <3>6, <3>7 DEF OwnerInv
    <2>2. CASE /\ lease' = [lease EXCEPT ![o] = [pc |-> "idle", room |-> NoRoom]]
               /\ UNCHANGED <<owner, epoch, excused>>
      <3>1. \A u \in Owners : u # o => lease'[u] = lease[u]  BY <1>0, <2>2 DEF LeaseTypes
      <3>2. lease'[o].pc = "idle"  BY <1>0, <2>2 DEF LeaseTypes
      <3> QED
        BY <2>0, <2>2, <3>1, <3>2
        DEF OwnerInv, Leased, Holding, Timed, Spent, AttachedIsListed
    <2> QED  BY <1>3, <2>1, <2>2 DEF Resume
  <1>4. CASE Detach(o)
    <2> DEFINE r == lease[o].room
    <2>0. /\ lease[o].pc = "attached" /\ r \in Rooms
          /\ lease' = [lease EXCEPT ![o] = [pc |-> "idle", room |-> NoRoom]]
          /\ owner' = [owner EXCEPT ![r] = "detached"]
          /\ monitors' = monitors \cup {[room |-> r, epoch |-> epoch[r], pc |-> "asleep"]}
          /\ UNCHANGED <<listed, excused, outbox, at>>
      BY <1>4 DEF Detach, OwnerInv, Leased, Holding, sessions
    <2>1. \A u \in Owners : u # o => lease'[u] = lease[u]  BY <1>0, <2>0 DEF LeaseTypes
    <2>2. lease'[o].pc = "idle"  BY <1>0, <2>0 DEF LeaseTypes
    <2>3. owner'[r] = "detached" /\ \A x \in Rooms : x # r => owner'[x] = owner[x]
      BY <1>0, <2>0 DEF LeaseTypes
    <2>4. Leased'
      <3>1. \A u \in Owners : u # o /\ Holding(u) => lease[u].room # r
        BY <2>0 DEF OwnerInv, Leased, Holding
      <3> QED  BY <2>1, <2>2, <2>3, <3>1 DEF OwnerInv, Leased, Holding
    <2>5. Timed'  BY <2>0, <2>3 DEF OwnerInv, Timed
    <2>6. Spent' /\ AttachedIsListed'
      BY <2>0, <2>1, <2>2 DEF OwnerInv, Spent, AttachedIsListed
    <2> QED  BY <2>4, <2>5, <2>6 DEF OwnerInv
  <1>5. CASE Close(o)
    <2>0. /\ lease[o].pc = "attached"
          /\ lease' = [lease EXCEPT ![o].pc = "closing"]
          /\ UNCHANGED <<owner, monitors, excused, outbox, at>>
          /\ Unlist(lease[o].room)
      BY <1>5 DEF Close, sessions
    <2>1. \A u \in Owners : u # o => lease'[u] = lease[u]  BY <1>0, <2>0 DEF LeaseTypes
    <2>2. lease'[o].pc = "closing" /\ lease'[o].room = lease[o].room
      BY <1>0, <2>0 DEF LeaseTypes
    <2>3. Leased'  BY <2>0, <2>1, <2>2 DEF OwnerInv, Leased, Holding
    <2>4. AttachedIsListed'
      BY <2>0, <2>1, <2>2 DEF OwnerInv, Leased, Holding, AttachedIsListed, Unlist
    <2> QED  BY <2>0, <2>3, <2>4 DEF OwnerInv, Timed, Spent
  <1>6. CASE CloseDestroys(o)
    <2>0. /\ lease' = [lease EXCEPT ![o] = [pc |-> "idle", room |-> NoRoom]]
          /\ UNCHANGED <<listed, owner, monitors, excused, outbox, at>>
      BY <1>6 DEF CloseDestroys, sessions
    <2>1. \A u \in Owners : u # o => lease'[u] = lease[u]  BY <1>0, <2>0 DEF LeaseTypes
    <2>2. lease'[o].pc = "idle"  BY <1>0, <2>0 DEF LeaseTypes
    <2> QED
      BY <2>0, <2>1, <2>2
      DEF OwnerInv, Leased, Holding, Timed, Spent, AttachedIsListed
  <1> QED  BY <1>1, <1>2, <1>3, <1>4, <1>5, <1>6

LEMMA OwnerInvMonitor ==
    ASSUME RoomTypes, OwnerInv, NEW m \in monitors,
           Verdict(m) \/ Evict(m) \/ ExpiryDestroys(m)
    PROVE  OwnerInv'
  <1>0. /\ UNCHANGED <<owner, lease, excused, outbox, at>>
        /\ \A n \in monitors' \ monitors : n.room = m.room
        /\ m.room \in Rooms
    <2>1. \A c : [m EXCEPT !.pc = c].room = m.room
      OBVIOUS
    <2> QED
      BY <2>1 DEF Verdict, Evict, ExpiryDestroys, sessions, OwnerInv, Timed
  <1>1. Leased' /\ Spent'  BY <1>0 DEF OwnerInv, Leased, Holding, Spent
  <1>2. CASE Verdict(m)
    <2>1. \A n \in monitors' \ monitors : owner[m.room] = "detached"
      BY <1>2 DEF Verdict
    <2>2. Timed'  BY <1>0, <2>1 DEF OwnerInv, Timed
    <2>3. AttachedIsListed'  BY <1>0, <1>2 DEF Verdict, OwnerInv, AttachedIsListed
    <2> QED  BY <1>1, <2>2, <2>3 DEF OwnerInv
  <1>3. CASE Evict(m)
    <2>1. owner[m.room] = "detached" \/ m.room \in excused
      BY <1>3 DEF Evict, OwnerInv, Timed
    <2>2. Timed'  BY <1>0, <2>1 DEF OwnerInv, Timed
    <2>3. AttachedIsListed'
      BY <1>0, <1>3, <2>1 DEF Evict, Unlist, OwnerInv, AttachedIsListed, Leased, Holding
    <2> QED  BY <1>1, <2>2, <2>3 DEF OwnerInv
  <1>4. CASE ExpiryDestroys(m)
    BY <1>0, <1>1, <1>4 DEF ExpiryDestroys, OwnerInv, Timed, AttachedIsListed
  <1> QED  BY <1>2, <1>3, <1>4

(* A step of a session that unlists nothing and leaves its own room alone. *)
LEMMA OwnerInvKept ==
    ASSUME OwnerInv, UNCHANGED <<listed, owner, lease, monitors>>,
           excused \subseteq excused', Spent'
    PROVE  OwnerInv'
  BY DEF OwnerInv, Leased, Holding, Timed, AttachedIsListed

LEMMA OwnerInvPeer ==
    ASSUME RoomTypes, Placed, OwnerInv, NEW q \in Peers,
           \/ Hello(q) \/ Join(q) \/ SnapshotPeers(q) \/ SnapshotOffers(q)
           \/ Subscribe(q) \/ Flush(q) \/ Publish(q) \/ Withdraw(q) \/ Leave(q)
           \/ Receive(q) \/ ResyncPeers(q) \/ ResyncOffers(q)
    PROVE  OwnerInv'
  <1>0. /\ DOMAIN outbox = Peers /\ at \in [Peers -> Rooms \cup {NoRoom}]
        /\ \A e : e # Exhausted => <<e>> # <<Exhausted>>
        /\ \A x : <<x, Event("left", q)>> # <<Exhausted>>
        /\ <<>> # <<Exhausted>>
    BY DEF RoomTypes
  <1>1. CASE Hello(q)
    <2>1. outbox[q] = <<>>  BY <1>1 DEF Hello, Placed, Place
    <2>2. Spent'  BY <1>0, <1>1, <2>1 DEF Hello, lifecycle, OwnerInv, Spent
    <2> QED  BY <1>1, <2>2, OwnerInvKept DEF Hello, lifecycle
  <1>2. CASE Join(q)
    <2>1. \A p \in Peers : outbox'[p] = <<Exhausted>> => outbox[p] = <<Exhausted>>
      BY <1>0, <1>2, EventKinds DEF Join
    <2>2. Spent'  BY <1>2, <2>1 DEF Join, lifecycle, OwnerInv, Spent
    <2> QED  BY <1>2, <2>2, OwnerInvKept DEF Join, lifecycle
  <1>3. CASE SnapshotPeers(q) \/ SnapshotOffers(q) \/ Subscribe(q) \/ ResyncPeers(q)
             \/ ResyncOffers(q)
    <2>1. UNCHANGED <<lifecycle, outbox, at>>
      BY <1>3 DEF SnapshotPeers, SnapshotOffers, Subscribe, ResyncPeers, ResyncOffers
    <2> QED  BY <2>1, OwnerInvKept DEF lifecycle, OwnerInv, Spent
  <1>4. CASE Publish(q) \/ Withdraw(q)
    <2>1. \A p \in Peers : outbox'[p] = <<Exhausted>> => outbox[p] = <<Exhausted>>
      BY <1>0, <1>4, EventKinds DEF Publish, Withdraw
    <2>2. UNCHANGED <<lifecycle, at>>  BY <1>4 DEF Publish, Withdraw
    <2>3. Spent'  BY <2>1, <2>2 DEF lifecycle, OwnerInv, Spent
    <2> QED  BY <2>2, <2>3, OwnerInvKept DEF lifecycle
  <1>5. ASSUME session[q] = "in", Remove(q)  PROVE OwnerInv'
    <2>1. at[q] \in Rooms  BY <1>5 DEF Placed, Place, RoomTypes
    <2>2. \A p \in Peers : outbox'[p] = <<Exhausted>> =>
             outbox[p] = <<Exhausted>> \/ at[p] \in excused'
      BY <1>0, <1>5, <2>1, RemoveEffect, EventKinds
    <2>3. Spent'  BY <1>5, <2>1, <2>2, RemoveEffect DEF OwnerInv, Spent
    <2> QED  BY <1>5, <2>1, <2>3, RemoveEffect, OwnerInvKept
  <1>6. CASE Leave(q)  BY <1>5, <1>6 DEF Leave
  <1>7. CASE Receive(q)
    <2>1. CASE Remove(q)  BY <1>5, <1>7, <2>1, ReceiveEffect
    <2>2. CASE UNCHANGED <<lifecycle, outbox, at>>
      BY <2>2, OwnerInvKept DEF lifecycle, OwnerInv, Spent
    <2> QED  BY <1>7, <2>1, <2>2, ReceiveEffect
  <1>8. CASE Flush(q)
    <2>0. UNCHANGED <<owner, lease, monitors, excused, at>>  BY <1>8 DEF Flush
    <2>1. \A p \in Peers : outbox'[p] = <<Exhausted>> => outbox[p] = <<Exhausted>>
      BY <1>0, <1>8, FlushCases, EventKinds
    <2>2. Spent'  BY <2>0, <2>1 DEF OwnerInv, Spent
    <2>3. CASE UNCHANGED listed  BY <2>0, <2>2, <2>3, OwnerInvKept
    <2>4. CASE outbox[q] = <<Exhausted>> /\ Unlist(at[q])
      <3>1. at[q] \in excused  BY <2>4 DEF OwnerInv, Spent
      <3> QED
        BY <2>0, <2>2, <2>4, <3>1
        DEF Unlist, OwnerInv, Leased, Holding, Timed, AttachedIsListed
    <2> QED  BY <1>8, <2>3, <2>4, FlushCases
  <1> QED  BY <1>1, <1>2, <1>3, <1>4, <1>6, <1>7, <1>8

(* AttachedIsListed, for every number of rooms, owners and resumptions: no *)
(* expiry monitor, no close of an earlier lease and no removal by name     *)
(* takes the entry of a room its owner holds.                              *)
THEOREM AttachedListed == RoomSpec => []AttachedIsListed
  <1>1. RoomInit => RoomTypes /\ Placed /\ OwnerInv
    BY BaseInit, OwnerInvInit
  <1>2. RoomTypes /\ Placed /\ OwnerInv /\ [RoomNext]_roomVars
          => (RoomTypes /\ Placed /\ OwnerInv)'
    <2> SUFFICES ASSUME RoomTypes, Placed, OwnerInv, [RoomNext]_roomVars
                 PROVE  OwnerInv'
      BY BaseNext
    <2>1. CASE UNCHANGED roomVars
      BY <2>1
      DEF roomVars, lifecycle, contents, sessions, OwnerInv, Leased, Holding, Timed,
          Spent, AttachedIsListed
    <2> QED  BY <2>1, OwnerInvOwner, OwnerInvMonitor, OwnerInvPeer DEF RoomNext
  <1>3. OwnerInv => AttachedIsListed  BY DEF OwnerInv
  <1> QED  BY <1>1, <1>2, <1>3, PTL DEF RoomSpec

-----------------------------------------------------------------------------
(* The views.  What a queue says about q, of certain kinds; and that the   *)
(* last of it is k exactly if b.                                           *)
About(s, q, K) == {i \in 1 .. Len(s) : s[i].kind \in K /\ s[i].peer = q}
Tells(s, q, K, k, b) ==
    \A i \in About(s, q, K) :
        (\A j \in About(s, q, K) : j <= i) => (s[i].kind = k <=> b)
Here == {"joined", "left"}
Offer == {"added", "removed"}

LEMMA NothingAbout ==
    \A q, K, k, b : About(<<>>, q, K) = {} /\ Tells(<<>>, q, K, k, b)
  BY DEF About, Tells

LEMMA AboutOne ==
    ASSUME NEW e, NEW q, NEW K
    PROVE  About(<<e>>, q, K) # {} <=> e.kind \in K /\ e.peer = q
  <1>1. Len(<<e>>) = 1 /\ <<e>>[1] = e  OBVIOUS
  <1>2. 1 .. 1 = {1}  OBVIOUS
  <1>3. About(<<e>>, q, K) = {i \in {1} : e.kind \in K /\ e.peer = q}
    BY <1>1, <1>2 DEF About
  <1> QED  BY <1>3

LEMMA AboutAppend ==
    ASSUME NEW s \in Seq(Events), NEW e \in Events, NEW q, NEW K, NEW k, NEW b
    PROVE  /\ e.kind \in K /\ e.peer = q =>
                 /\ About(Append(s, e), q, K) # {}
                 /\ Tells(Append(s, e), q, K, k, b) <=> (e.kind = k <=> b)
           /\ ~(e.kind \in K /\ e.peer = q) =>
                 /\ About(Append(s, e), q, K) = About(s, q, K)
                 /\ Tells(Append(s, e), q, K, k, b) <=> Tells(s, q, K, k, b)
           /\ About(Append(s, e), q, K) # {} =>
                 About(s, q, K) # {} \/ (e.kind \in K /\ e.peer = q)
  <1> DEFINE t == Append(s, e)
  <1>1. /\ Len(t) = Len(s) + 1 /\ t[Len(s) + 1] = e /\ Len(s) \in Nat
        /\ \A i \in 1 .. Len(s) : t[i] = s[i]
    OBVIOUS
  <1> HIDE DEF t
  <1>2. CASE e.kind \in K /\ e.peer = q
    <2>1. About(t, q, K) = About(s, q, K) \cup {Len(s) + 1}
      BY <1>1, <1>2 DEF About
    <2>2. \A j \in About(s, q, K) : j \in Nat /\ j <= Len(s)
      BY <1>1 DEF About
    <2>3. Tells(t, q, K, k, b) <=> (e.kind = k <=> b)
      BY <1>1, <2>1, <2>2 DEF Tells
    <2> QED  BY <1>2, <2>1, <2>3 DEF t
  <1>3. CASE ~(e.kind \in K /\ e.peer = q)
    <2>1. About(t, q, K) = About(s, q, K)
      BY <1>1, <1>3 DEF About
    <2>2. \A i \in About(s, q, K) : t[i] = s[i]  BY <1>1 DEF About
    <2>3. Tells(t, q, K, k, b) <=> Tells(s, q, K, k, b)
      BY <2>1, <2>2 DEF Tells
    <2> QED  BY <1>3, <2>1, <2>3 DEF t
  <1> QED  BY <1>2, <1>3

LEMMA AboutTail ==
    ASSUME NEW s \in Seq(Events), s # <<>>, NEW q, NEW K, NEW k, NEW b
    PROVE  /\ Tells(s, q, K, k, b) => Tells(Tail(s), q, K, k, b)
           /\ About(Tail(s), q, K) # {} => About(s, q, K) # {}
           /\ About(s, q, K) # {} =>
                 About(Tail(s), q, K) # {} \/ (Head(s).kind \in K /\ Head(s).peer = q)
           /\ Head(s).kind \in K /\ Head(s).peer = q =>
                 /\ About(s, q, K) # {}
                 /\ About(Tail(s), q, K) = {} /\ Tells(s, q, K, k, b) =>
                       (Head(s).kind = k <=> b)
  <1> DEFINE t == Tail(s)
  <1>1. /\ Len(s) \in Nat /\ Len(s) > 0 /\ Len(t) = Len(s) - 1 /\ Head(s) = s[1]
        /\ \A i \in 1 .. Len(t) : t[i] = s[i + 1]
    OBVIOUS
  <1> HIDE DEF t
  <1>2. \A i \in 1 .. Len(t) : i \in About(t, q, K) <=> i + 1 \in About(s, q, K)
    BY <1>1 DEF About
  <1>3. /\ About(t, q, K) \subseteq 1 .. Len(t)
        /\ About(s, q, K) \subseteq 1 .. Len(s)
        /\ 1 \in About(s, q, K) <=> Head(s).kind \in K /\ Head(s).peer = q
    BY <1>1 DEF About
  <1>4. \A i \in About(s, q, K) : i = 1 \/ (i - 1 \in About(t, q, K) /\ i \in Nat)
    BY <1>1, <1>2, <1>3
  <1>5. ASSUME Tells(s, q, K, k, b)  PROVE Tells(t, q, K, k, b)
    <2> SUFFICES ASSUME NEW i \in About(t, q, K), \A j \in About(t, q, K) : j <= i
                 PROVE  t[i].kind = k <=> b
      BY DEF Tells
    <2>1. i + 1 \in About(s, q, K) /\ t[i] = s[i + 1] /\ i \in Nat
      BY <1>1, <1>2, <1>3
    <2>2. \A j \in About(s, q, K) : j <= i + 1
      BY <1>1, <1>3, <1>4, <2>1
    <2> QED  BY <1>5, <2>1, <2>2 DEF Tells
  <1>6. About(t, q, K) # {} => About(s, q, K) # {}  BY <1>2, <1>3
  <1>7. About(s, q, K) # {} => About(t, q, K) # {} \/ 1 \in About(s, q, K)
    BY <1>4
  <1>8. ASSUME 1 \in About(s, q, K), About(t, q, K) = {}, Tells(s, q, K, k, b)
        PROVE  Head(s).kind = k <=> b
    <2>1. \A j \in About(s, q, K) : j <= 1  BY <1>4, <1>8
    <2> QED  BY <1>1, <1>8, <2>1 DEF Tells
  <1> QED  BY <1>3, <1>5, <1>6, <1>7, <1>8 DEF t

(* The same without what is told.                                          *)
LEMMA AboutSteps ==
    ASSUME NEW s \in Seq(Events), NEW e \in Events, NEW q, NEW K
    PROVE  ~(e.kind \in K /\ e.peer = q) => About(Append(s, e), q, K) = About(s, q, K)
  <1>1. \A k, b : (~(e.kind \in K /\ e.peer = q) =>
           /\ About(Append(s, e), q, K) = About(s, q, K)
           /\ Tells(Append(s, e), q, K, k, b) <=> Tells(s, q, K, k, b))
    BY AboutAppend
  <1> QED  BY <1>1

LEMMA AboutRest ==
    ASSUME NEW s \in Seq(Events), s # <<>>, NEW q, NEW K
    PROVE  /\ About(Tail(s), q, K) # {} => About(s, q, K) # {}
           /\ Head(s).kind \in K /\ Head(s).peer = q => About(s, q, K) # {}
  <1>1. \A k, b : /\ Tells(s, q, K, k, b) => Tells(Tail(s), q, K, k, b)
                  /\ About(Tail(s), q, K) # {} => About(s, q, K) # {}
    BY AboutTail
  <1>2. Head(s) = s[1] /\ 1 \in 1 .. Len(s)  OBVIOUS
  <1> QED  BY <1>1, <1>2 DEF About

(* An event that is not broadcast yet is true.                             *)
IsMember(q) == q \in members[at[q]]
IsOffered(q) == q \in offers[at[q]]
Pend(q) ==
    at[q] \in Rooms =>
        /\ outbox[q] = <<Event("joined", q)>> => IsMember(q)
        /\ outbox[q] = <<Event("added", q)>> => IsOffered(q)
        /\ outbox[q] = <<Event("removed", q)>> => ~IsOffered(q)

(* A session sees and hears only of peers of its own room, and of a        *)
(* departure only when the peer is gone.                                   *)
Locate(p, q) ==
    \/ q \in view[p].peers \cup view[p].offers
    \/ About(inbox[p], q, Here \cup Offer) # {}
    => at[q] = at[p]
Part(p, q) == About(inbox[p], q, {"left"}) # {} => session[q] = "gone"

(* The two are in one room, which is not ending.                           *)
Ending(q) == outbox[q] \in {<<Exhausted>>, <<Closed>>}
Lively(p, q) ==
    at[p] \in Rooms /\ at[q] = at[p] /\ ~Ending(q) /\ at[p] \notin destroyed

(* The last thing that was broadcast to p about q, if q has nothing newer  *)
(* to broadcast, is true.                                                  *)
Hear(p, q) ==
    Lively(p, q) =>
        /\ About(outbox[q], q, Here) = {} =>
              Tells(inbox[p], q, Here, "joined", IsMember(q))
        /\ About(outbox[q], q, Offer) = {} =>
              Tells(inbox[p], q, Offer, "added", IsOffered(q))

(* What nothing is under way about is shown as it is.                      *)
Missed(p, q) == \E e \in missed[p] \ {Closed} : e.peer = q
Reading == {"snapped", "viewed", "in", "resync"}
Show(p, q) ==
    Lively(p, q) /\ p \notin lagged /\ ~Missed(p, q) =>
        /\ (/\ session[p] \in Reading
            /\ About(outbox[q], q, Here) = {} /\ About(inbox[p], q, Here) = {})
           => (q \in view[p].peers <=> IsMember(q))
        /\ (/\ session[p] \in {"viewed", "in"}
            /\ About(outbox[q], q, Offer) = {} /\ About(inbox[p], q, Offer) = {})
           => (q \in view[p].offers <=> IsOffered(q))

PairInv(p, q) == Pend(q) /\ Locate(p, q) /\ Part(p, q) /\ Hear(p, q) /\ Show(p, q)
ViewInv == \A p, q \in Peers : PairInv(p, q)

LEMMA ViewInvInit == RoomInit => ViewInv
  <1> SUFFICES ASSUME RoomInit, NEW p \in Peers, NEW q \in Peers  PROVE PairInv(p, q)
    BY DEF ViewInv
  <1>1. /\ outbox[q] = <<>> /\ inbox[p] = <<>> /\ at[p] = NoRoom /\ at[q] = NoRoom
        /\ view[p].peers = {} /\ view[p].offers = {}
    BY DEF RoomInit
  <1>2. /\ <<>> # <<Event("joined", q)>> /\ <<>> # <<Event("added", q)>>
        /\ <<>> # <<Event("removed", q)>>
    OBVIOUS
  <1> QED
    BY <1>1, <1>2, NothingAbout, RoomAssumption
    DEF PairInv, Pend, Locate, Part, Hear, Show, Lively

(* A step that leaves the room and what is said of it alone, as far as q   *)
(* and the receiver of p go.                                               *)
LEMMA HearKept ==
    ASSUME NEW p \in Peers, NEW q \in Peers, PairInv(p, q),
           inbox'[p] = inbox[p], outbox'[q] = outbox[q],
           at'[p] = at[p], at'[q] = at[q],
           at[q] \in Rooms => (q \in members'[at[q]] <=> q \in members[at[q]]),
           at[q] \in Rooms => (q \in offers'[at[q]] <=> q \in offers[at[q]]),
           destroyed \subseteq destroyed', session[q] = "gone" => session'[q] = "gone"
    PROVE  /\ at[q] \in Rooms => /\ IsMember(q)' <=> IsMember(q)
                                 /\ IsOffered(q)' <=> IsOffered(q)
           /\ Lively(p, q)' => Lively(p, q)
           /\ Pend(q)' /\ Part(p, q)' /\ Hear(p, q)'
  <1>1. /\ at[q] \in Rooms => /\ IsMember(q)' <=> IsMember(q)
                              /\ IsOffered(q)' <=> IsOffered(q)
        /\ Lively(p, q)' => Lively(p, q)
    BY DEF IsMember, IsOffered, Lively, Ending
  <1>2. Pend(q)' /\ Part(p, q)'
    BY <1>1 DEF PairInv, Pend, Part
  <1>3. Hear(p, q)'
    <2>1. at[q] \in Rooms =>
             /\ Tells(inbox[p], q, Here, "joined", IsMember(q)) =>
                   Tells(inbox'[p], q, Here, "joined", IsMember(q)')
             /\ Tells(inbox[p], q, Offer, "added", IsOffered(q)) =>
                   Tells(inbox'[p], q, Offer, "added", IsOffered(q)')
      BY <1>1 DEF Tells
    <2>2. Lively(p, q) => at[q] \in Rooms  BY DEF Lively
    <2> QED  BY <1>1, <2>1, <2>2 DEF PairInv, Hear
  <1> QED  BY <1>1, <1>2, <1>3

(* ... and leaves alone what p has read.                                   *)
LEMMA PairKept ==
    ASSUME NEW p \in Peers, NEW q \in Peers, PairInv(p, q),
           inbox'[p] = inbox[p], outbox'[q] = outbox[q],
           at'[p] = at[p], at'[q] = at[q],
           at[q] \in Rooms => (q \in members'[at[q]] <=> q \in members[at[q]]),
           at[q] \in Rooms => (q \in offers'[at[q]] <=> q \in offers[at[q]]),
           destroyed \subseteq destroyed', session[q] = "gone" => session'[q] = "gone",
           view'[p] = view[p], missed[p] \subseteq missed'[p],
           p \in lagged => p \in lagged',
           session'[p] \in Reading => session[p] \in Reading,
           session'[p] \in {"viewed", "in"} => session[p] \in {"viewed", "in"}
    PROVE  PairInv(p, q)'
  <1>1. /\ at[q] \in Rooms => /\ IsMember(q)' <=> IsMember(q)
                              /\ IsOffered(q)' <=> IsOffered(q)
        /\ Lively(p, q)' => Lively(p, q)
        /\ Pend(q)' /\ Part(p, q)' /\ Hear(p, q)'
    BY HearKept
  <1>2. Missed(p, q) => Missed(p, q)'  BY DEF Missed
  <1>3. Lively(p, q) => at[q] \in Rooms  BY DEF Lively
  <1>4. Show(p, q)'  BY <1>1, <1>2, <1>3 DEF PairInv, Show
  <1>5. Locate(p, q)'  BY DEF PairInv, Locate
  <1> QED  BY <1>1, <1>4, <1>5 DEF PairInv

(* What q changes and has to broadcast, others need not show yet.          *)
LEMMA PairAnnounced ==
    ASSUME NEW p \in Peers, NEW q \in Peers, PairInv(p, q), outbox[q] = <<>>,
           inbox'[p] = inbox[p], view'[p] = view[p], at'[p] = at[p], at'[q] = at[q],
           destroyed \subseteq destroyed', session[q] = "gone" => session'[q] = "gone",
           missed[p] \subseteq missed'[p], p \in lagged => p \in lagged',
           session'[p] \in Reading => session[p] \in Reading,
           session'[p] \in {"viewed", "in"} => session[p] \in {"viewed", "in"},
           Pend(q)',
           ~Ending(q)' =>
              /\ \/ About(outbox'[q], q, Here) # {}
                 \/ q \in members'[at[q]] <=> q \in members[at[q]]
              /\ \/ About(outbox'[q], q, Offer) # {}
                 \/ q \in offers'[at[q]] <=> q \in offers[at[q]]
    PROVE  PairInv(p, q)'
  <1>1. /\ Lively(p, q)' => Lively(p, q)
        /\ Lively(p, q)' => ~Ending(q)'
        /\ Missed(p, q) => Missed(p, q)'
    <2>1. <<>> # <<Exhausted>> /\ <<>> # <<Closed>>  OBVIOUS
    <2> QED  BY <2>1 DEF Lively, Ending, Missed
  <1>2. /\ About(outbox[q], q, Here) = {} /\ About(outbox[q], q, Offer) = {}
    BY NothingAbout
  <1>3. Locate(p, q)' /\ Part(p, q)'
    BY DEF PairInv, Locate, Part
  <1>4. /\ (IsMember(q)' <=> IsMember(q)) =>
              (Tells(inbox[p], q, Here, "joined", IsMember(q)) =>
                 Tells(inbox'[p], q, Here, "joined", IsMember(q)'))
        /\ (IsOffered(q)' <=> IsOffered(q)) =>
              (Tells(inbox[p], q, Offer, "added", IsOffered(q)) =>
                 Tells(inbox'[p], q, Offer, "added", IsOffered(q)'))
    BY DEF Tells
  <1>5. ~Ending(q)' =>
              /\ \/ About(outbox'[q], q, Here) # {}
                 \/ IsMember(q)' <=> IsMember(q)
              /\ \/ About(outbox'[q], q, Offer) # {}
                 \/ IsOffered(q)' <=> IsOffered(q)
    BY DEF IsMember, IsOffered
  <1>6. Hear(p, q)'  BY <1>1, <1>2, <1>4, <1>5 DEF PairInv, Hear
  <1>7. Show(p, q)'  BY <1>1, <1>2, <1>5 DEF PairInv, Show
  <1> QED  BY <1>3, <1>6, <1>7 DEF PairInv

(* The end of a room, as its members get it.                               *)
LEMMA PairDestroyed ==
    ASSUME RoomTypes, NEW r, Told(r, Closed), destroyed' = destroyed \cup {r},
           session' = session, at' = at, view' = view, members' = members,
           offers' = offers, NEW p \in Peers, NEW q \in Peers, PairInv(p, q),
           outbox'[q] = outbox[q] \/ (outbox'[q] = <<>> /\ at[q] = r)
    PROVE  PairInv(p, q)'
  <1>0. /\ inbox \in [Peers -> Seq(Events)] /\ DOMAIN missed = Peers
        /\ lagged \subseteq Peers
    BY DEF RoomTypes
  <1>1. missed[p] \subseteq missed'[p] /\ (p \in lagged => p \in lagged')
    <2>1. CASE UNCHANGED channel  BY <2>1 DEF channel
    <2>2. CASE Send(r, Closed)  BY <1>0, <2>2, SendEffect, EventKinds
    <2> QED  BY <2>1, <2>2 DEF Told
  <1>2. CASE at[p] # r /\ outbox'[q] = outbox[q]
    <2>1. inbox'[p] = inbox[p]
      BY <1>0, <1>2, ToldEffect, EventKinds DEF Subscribers
    <2> QED  BY <1>1, <1>2, <2>1, PairKept
  <1>3. CASE at[p] = r \/ at[q] = r
    <2>1. ~Lively(p, q)'  BY <1>3 DEF Lively
    <2>2. Hear(p, q)' /\ Show(p, q)'  BY <2>1 DEF Hear, Show
    <2>3. Pend(q)'
      <3>1. /\ <<>> # <<Event("joined", q)>> /\ <<>> # <<Event("added", q)>>
            /\ <<>> # <<Event("removed", q)>>
        OBVIOUS
      <3> QED  BY <3>1 DEF PairInv, Pend, IsMember, IsOffered
    <2>4. ASSUME NEW K, K \subseteq Here \cup Offer, About(inbox'[p], q, K) # {}
          PROVE  About(inbox[p], q, K) # {}
      <3>0. inbox[p] \in Seq(Events) /\ Closed \in Events /\ Closed.kind \notin K
        BY <1>0, <2>4, EventKinds DEF Here, Offer
      <3>1. CASE inbox'[p] = inbox[p]  BY <2>4, <3>1
      <3>2. CASE inbox'[p] = Append(inbox[p], Closed)
        BY <2>4, <3>0, <3>2, AboutSteps
      <3>3. CASE inbox[p] # <<>> /\ inbox'[p] = Append(Tail(inbox[p]), Closed)
        <4>1. Tail(inbox[p]) \in Seq(Events)  BY <3>0, <3>3
        <4>2. About(inbox'[p], q, K) = About(Tail(inbox[p]), q, K)
          <5> DEFINE t == Tail(inbox[p])
          <5>1. t \in Seq(Events) /\ inbox'[p] = Append(t, Closed)  BY <3>3, <4>1
          <5> HIDE DEF t
          <5>2. About(inbox'[p], q, K) = About(t, q, K)  BY <3>0, <5>1, AboutSteps
          <5> QED  BY <5>2 DEF t
        <4> QED  BY <2>4, <3>0, <3>3, <4>2, AboutRest
      <3>4. CASE UNCHANGED channel  BY <3>1, <3>4 DEF channel
      <3>5. CASE Send(r, Closed)
        <4>1. \/ inbox'[p] = inbox[p] \/ inbox'[p] = Append(inbox[p], Closed)
              \/ inbox[p] # <<>> /\ inbox'[p] = Append(Tail(inbox[p]), Closed)
          BY <1>0, <3>0, <3>5, SendEffect
        <4> QED  BY <3>1, <3>2, <3>3, <4>1
      <3> QED  BY <3>4, <3>5 DEF Told
    <2>5. Locate(p, q)' /\ Part(p, q)'
      <3>1. {"left"} \subseteq Here \cup Offer  BY DEF Here
      <3> QED  BY <2>4, <3>1 DEF PairInv, Locate, Part
    <2> QED  BY <2>2, <2>3, <2>5 DEF PairInv
  <1> QED  BY <1>2, <1>3

LEMMA ViewLifecycle ==
    ASSUME RoomTypes, ViewInv, LifecycleStep
    PROVE  ViewInv'
  <1> SUFFICES ASSUME NEW p \in Peers, NEW q \in Peers  PROVE PairInv(p, q)'
    BY DEF ViewInv
  <1>0. PairInv(p, q)  BY DEF ViewInv
  <1>1. UNCHANGED <<members, offers, session, at, outbox, view>>
    BY LifecycleFrame DEF contents, sessions
  <1>2. CASE UNCHANGED <<channel, destroyed>>
    BY <1>0, <1>1, <1>2, PairKept DEF channel
  <1>3. CASE \E r : destroyed' = destroyed \cup {r} /\ Told(r, Closed)
    <2>1. PICK r : destroyed' = destroyed \cup {r} /\ Told(r, Closed)  BY <1>3
    <2>2. outbox'[q] = outbox[q]  BY <1>1
    <2> QED  BY <1>0, <1>1, <2>1, <2>2, PairDestroyed
  <1> QED  BY <1>2, <1>3, LifecycleFrame

(* A newcomer, until it has read its snapshot: nobody has heard of it.     *)
LEMMA ViewHello ==
    ASSUME RoomTypes, Placed, ViewInv, NEW x \in Peers, Hello(x)
    PROVE  ViewInv'
  <1> SUFFICES ASSUME NEW p \in Peers, NEW q \in Peers  PROVE PairInv(p, q)'
    BY DEF ViewInv
  <1>0. PairInv(p, q) /\ Place(p) /\ Place(q) /\ Place(x)  BY DEF ViewInv, Placed
  <1>1. /\ UNCHANGED <<members, offers, outbox, view, inbox, lagged, missed, destroyed>>
        /\ session' = [session EXCEPT ![x] = "authed"] /\ at' = [at EXCEPT ![x] = listed]
        /\ session[x] = "out" /\ listed \in Rooms
    BY DEF Hello, lifecycle, contents, channel, RoomTypes, LeaseTypes
  <1>2. /\ at[x] = NoRoom /\ outbox[x] = <<>> /\ inbox[x] = <<>> /\ view[x] = Unseen
        /\ \A r \in Rooms : x \notin members[r] \cup offers[r]
    BY <1>0, <1>1 DEF Place, Subscribed
  <1>3. CASE p # x /\ q # x
    <2>1. /\ session'[p] = session[p] /\ session'[q] = session[q]
          /\ at'[p] = at[p] /\ at'[q] = at[q]
      BY <1>1, <1>3 DEF RoomTypes
    <2> QED  BY <1>0, <1>1, <2>1, PairKept
  <1>4. CASE p = x
    <2>1. session'[p] = "authed" /\ view[p].peers = {} /\ view[p].offers = {}
      BY <1>1, <1>2, <1>4 DEF RoomTypes, Unseen
    <2>2. Locate(p, q)' /\ Part(p, q)' /\ Hear(p, q)' /\ Show(p, q)'
      BY <1>1, <1>2, <1>4, <2>1, NothingAbout DEF Locate, Part, Hear, Show, Reading
    <2>3. Pend(q)'
      <3>1. CASE q = x
        BY <1>1, <1>2, <3>1 DEF Pend
      <3>2. CASE q # x
        BY <1>0, <1>1, <3>2 DEF PairInv, Pend, IsMember, IsOffered, RoomTypes
      <3> QED  BY <3>1, <3>2
    <2> QED  BY <2>2, <2>3 DEF PairInv
  <1>5. CASE p # x /\ q = x
    <2>1. at'[p] = at[p] /\ session'[p] = session[p] /\ at'[q] = listed
      BY <1>1, <1>5 DEF RoomTypes
    <2>2. /\ q \notin view[p].peers \cup view[p].offers
          /\ About(inbox[p], q, Here \cup Offer) = {}
      <3>1. CASE at[p] = NoRoom
        <4>1. inbox[p] = <<>> /\ view[p] = Unseen
          BY <1>0, <3>1 DEF Place, Subscribed
        <4> QED  BY <4>1, NothingAbout DEF Unseen
      <3>2. CASE at[p] # NoRoom
        BY <1>0, <1>2, <1>5, <3>2 DEF PairInv, Locate
      <3> QED  BY <3>1, <3>2
    <2>3. \A K : K \subseteq Here \cup Offer => About(inbox[p], q, K) = {}
      BY <2>2 DEF About
    <2>4. /\ About(inbox[p], q, Here) = {} /\ About(inbox[p], q, Offer) = {}
          /\ About(inbox[p], q, {"left"}) = {}
      BY <2>3 DEF Here
    <2>5. ~IsMember(q)' /\ ~IsOffered(q)'
      BY <1>1, <1>2, <1>5, <2>1 DEF IsMember, IsOffered
    <2>6. Locate(p, q)' /\ Part(p, q)' /\ Pend(q)'
      <3>1. outbox'[q] = <<>>  BY <1>1, <1>2, <1>5
      <3>2. Pend(q)'  BY <3>1 DEF Pend
      <3> QED  BY <1>1, <2>2, <2>4, <3>2 DEF Locate, Part
    <2>7. Hear(p, q)'
      BY <1>1, <2>4 DEF Hear, Tells
    <2>8. Show(p, q)'
      BY <1>1, <2>2, <2>5 DEF Show
    <2> QED  BY <2>6, <2>7, <2>8 DEF PairInv
  <1> QED  BY <1>3, <1>4, <1>5

(* Changes of the room are announced: whoever joins, offers, withdraws or  *)
(* leaves has it to broadcast.                                             *)
LEMMA Distinct ==
    ASSUME NEW q \in Peers
    PROVE  /\ \A k \in {"joined", "added", "removed", "left"} :
                 /\ <<Event(k, q)>> # <<Exhausted>> /\ <<Event(k, q)>> # <<Closed>>
                 /\ <<>> # <<Event(k, q)>>
                 /\ \A l \in {"joined", "added", "removed", "left"} :
                       <<Event(k, q)>> = <<Event(l, q)>> => k = l
                 /\ k \in Here => About(<<Event(k, q)>>, q, Here) # {}
                 /\ k \in Offer => About(<<Event(k, q)>>, q, Offer) # {}
                 /\ k \in Here => About(<<Event(k, q)>>, q, Offer) = {}
                 /\ k \in Offer => About(<<Event(k, q)>>, q, Here) = {}
           /\ <<>> # <<Exhausted>> /\ <<>> # <<Closed>>
           /\ \A x, y, z : <<x, y>> # <<z>>
  <1>1. ASSUME NEW k \in {"joined", "added", "removed", "left"}
        PROVE  /\ <<Event(k, q)>> # <<Exhausted>> /\ <<Event(k, q)>> # <<Closed>>
               /\ <<>> # <<Event(k, q)>>
               /\ \A l \in {"joined", "added", "removed", "left"} :
                     <<Event(k, q)>> = <<Event(l, q)>> => k = l
    <2>1. /\ Event(k, q).kind = k /\ Exhausted.kind = "exhausted"
          /\ Closed.kind = "closed"
          /\ \A l \in {"joined", "added", "removed", "left"} : Event(l, q).kind = l
      BY EventKinds
    <2>2. Event(k, q) # Exhausted /\ Event(k, q) # Closed
          /\ \A l \in {"joined", "added", "removed", "left"} : Event(k, q) = Event(l, q) => k = l
      BY <2>1
    <2> QED  BY <2>2
  <1>2. ASSUME NEW k \in {"joined", "added", "removed", "left"}, NEW K
        PROVE  About(<<Event(k, q)>>, q, K) # {} <=> k \in K
    <2>1. Event(k, q).kind = k /\ Event(k, q).peer = q  BY EventKinds
    <2> QED  BY <2>1, AboutOne
  <1>3. Here \cap Offer = {}  BY DEF Here, Offer
  <1>4. /\ <<>> # <<Exhausted>> /\ <<>> # <<Closed>>
        /\ \A x, y, z : <<x, y>> # <<z>>
    OBVIOUS
  <1> QED  BY <1>1, <1>2, <1>3, <1>4

LEMMA ViewJoin ==
    ASSUME RoomTypes, Placed, ViewInv, NEW x \in Peers, Join(x)
    PROVE  ViewInv'
  <1> SUFFICES ASSUME NEW p \in Peers, NEW q \in Peers  PROVE PairInv(p, q)'
    BY DEF ViewInv
  <1>0. PairInv(p, q) /\ Place(x)  BY DEF ViewInv, Placed
  <1>1. session[x] = "authed" /\ at[x] \in Rooms /\ outbox[x] = <<>>
    BY <1>0 DEF Join, Place, RoomTypes
  <1>2. /\ UNCHANGED <<at, view, inbox, lagged, missed, destroyed, offers>>
        /\ \A y \in Peers : y # x => session'[y] = session[y] /\ outbox'[y] = outbox[y]
        /\ session'[x] \in {"joined", "gone"}
        /\ \/ outbox'[x] = <<>> /\ members' = members
           \/ /\ outbox'[x] = <<Event("joined", x)>>
              /\ members' = [members EXCEPT ![at[x]] = members[at[x]] \cup {x}]
    <2>1. CASE revision[at[x]] = RevisionLimit
      BY <1>1, <2>1 DEF Join, lifecycle, contents, channel, RoomTypes
    <2>2. CASE revision[at[x]] # RevisionLimit
      <3>1. /\ session' = [session EXCEPT ![x] = "joined"]
            /\ outbox' = [outbox EXCEPT ![x] = <<Event("joined", x)>>]
            /\ members' = [members EXCEPT ![at[x]] = members[at[x]] \cup {x}]
            /\ UNCHANGED <<at, view, inbox, lagged, missed, destroyed, offers>>
        BY <2>2 DEF Join, lifecycle, channel
      <3> QED  BY <3>1 DEF RoomTypes
    <2> QED  BY <2>1, <2>2
  <1>3. \A y \in Peers, r \in Rooms : y # x => (y \in members'[r] <=> y \in members[r])
    <2>1. members \in [Rooms -> SUBSET Peers]  BY DEF RoomTypes
    <2>2. CASE members' = [members EXCEPT ![at[x]] = members[at[x]] \cup {x}]
      BY <1>1, <2>1, <2>2
    <2> QED  BY <1>2, <2>2
  <1>4. /\ session'[p] \in Reading => session[p] \in Reading
        /\ session'[p] \in {"viewed", "in"} => session[p] \in {"viewed", "in"}
        /\ session[q] = "gone" => session'[q] = "gone"
    BY <1>1, <1>2 DEF Reading
  <1>5. CASE q # x \/ members' = members
    <2>1. outbox'[q] = outbox[q]
          /\ (at[q] \in Rooms => (q \in members'[at[q]] <=> q \in members[at[q]]))
      <3>1. CASE q # x  BY <1>2, <1>3, <3>1
      <3>2. CASE q = x /\ members' = members
        <4>1. outbox'[x] = <<>>
          <5>1. x \notin members[at[x]]  BY <1>0, <1>1 DEF Place
          <5>2. members' # [members EXCEPT ![at[x]] = members[at[x]] \cup {x}]
            BY <1>1, <3>2, <5>1 DEF RoomTypes
          <5> QED  BY <1>2, <5>2
        <4> QED  BY <1>1, <3>2, <4>1
      <3> QED  BY <1>5, <3>1, <3>2
    <2> QED  BY <1>0, <1>2, <1>4, <2>1, PairKept
  <1>6. CASE q = x /\ members' # members
    <2>1. /\ outbox'[q] = <<Event("joined", q)>> /\ q \in members'[at[q]]
      BY <1>1, <1>2, <1>6 DEF RoomTypes
    <2>2. Pend(q)'
      BY <1>2, <2>1, Distinct DEF Pend, IsMember
    <2>3. About(outbox'[q], q, Here) # {}
      BY <2>1, Distinct DEF Here
    <2> QED  BY <1>0, <1>1, <1>2, <1>4, <1>6, <2>2, <2>3, PairAnnounced
  <1> QED  BY <1>5, <1>6

LEMMA ViewOffer ==
    ASSUME RoomTypes, Placed, ViewInv, NEW x \in Peers, Publish(x) \/ Withdraw(x)
    PROVE  ViewInv'
  <1> SUFFICES ASSUME NEW p \in Peers, NEW q \in Peers  PROVE PairInv(p, q)'
    BY DEF ViewInv
  <1>0. PairInv(p, q) /\ Place(x)  BY DEF ViewInv, Placed
  <1>1. outbox[x] = <<>> /\ at[x] \in Rooms
    BY <1>0 DEF Publish, Withdraw, Place, RoomTypes
  <1>2. /\ UNCHANGED <<session, at, view, inbox, lagged, missed, destroyed, members>>
        /\ \/ /\ outbox' = [outbox EXCEPT ![x] = <<Event("added", x)>>]
              /\ offers' = [offers EXCEPT ![at[x]] = offers[at[x]] \cup {x}]
           \/ /\ outbox' = [outbox EXCEPT ![x] = <<Event("removed", x)>>]
              /\ offers' = [offers EXCEPT ![at[x]] = offers[at[x]] \ {x}]
    BY DEF Publish, Withdraw, lifecycle, channel
  <1>3. CASE q # x
    <2>1. outbox'[q] = outbox[q]  BY <1>2, <1>3 DEF RoomTypes
    <2>2. at[q] \in Rooms => (q \in offers'[at[q]] <=> q \in offers[at[q]])
      <3>1. offers \in [Rooms -> SUBSET Peers]  BY DEF RoomTypes
      <3>2. CASE offers' = [offers EXCEPT ![at[x]] = offers[at[x]] \cup {x}]
        BY <1>1, <1>3, <3>1, <3>2
      <3>3. CASE offers' = [offers EXCEPT ![at[x]] = offers[at[x]] \ {x}]
        BY <1>1, <1>3, <3>1, <3>3
      <3> QED  BY <1>2, <3>2, <3>3
    <2> QED  BY <1>0, <1>2, <2>1, <2>2, PairKept
  <1>4. CASE q = x
    <2>1. \/ outbox'[q] = <<Event("added", q)>> /\ q \in offers'[at[q]]
          \/ outbox'[q] = <<Event("removed", q)>> /\ q \notin offers'[at[q]]
      BY <1>1, <1>2, <1>4 DEF RoomTypes
    <2>2. Pend(q)'
      BY <1>2, <2>1, Distinct DEF Pend, IsOffered
    <2>3. About(outbox'[q], q, Offer) # {}
      BY <2>1, Distinct DEF Offer
    <2> QED  BY <1>0, <1>1, <1>2, <1>4, <2>2, <2>3, PairAnnounced
  <1> QED  BY <1>3, <1>4

(* What a session reads of its room is what the room has.                  *)
LEMMA ViewRead ==
    ASSUME RoomTypes, Placed, ViewInv, NEW x \in Peers,
           \/ SnapshotPeers(x) \/ SnapshotOffers(x) \/ ResyncPeers(x) \/ ResyncOffers(x)
    PROVE  ViewInv'
  <1> SUFFICES ASSUME NEW p \in Peers, NEW q \in Peers  PROVE PairInv(p, q)'
    BY DEF ViewInv
  <1>0. PairInv(p, q) /\ Place(x) /\ Place(q)  BY DEF ViewInv, Placed
  <1>1. /\ at[x] \in Rooms
        /\ UNCHANGED <<destroyed, members, offers, at, outbox, inbox, missed>>
        /\ \A y \in Peers : y # x =>
              /\ session'[y] = session[y] /\ view'[y] = view[y]
              /\ y \in lagged' <=> y \in lagged
        /\ session[x] # "gone"
        /\ \/ /\ session'[x] \in {"snapped", "resync"}
              /\ view'[x] = [peers |-> members[at[x]], offers |-> {}]
           \/ /\ session[x] \in {"snapped", "resync"} /\ session'[x] \in {"viewed", "in"}
              /\ view'[x].peers = view[x].peers /\ view'[x].offers = offers[at[x]]
              /\ x \in lagged' <=> x \in lagged
    <2>0. at[x] \in Rooms
      BY <1>0 DEF SnapshotPeers, SnapshotOffers, ResyncPeers, ResyncOffers, Place, RoomTypes
    <2>1. CASE SnapshotPeers(x)
      BY <2>0, <2>1 DEF SnapshotPeers, lifecycle, contents, channel, RoomTypes
    <2>2. CASE SnapshotOffers(x)
      <3>1. view[x] \in [peers : SUBSET Peers, offers : SUBSET Peers]  BY DEF RoomTypes
      <3> QED  BY <2>0, <2>2, <3>1 DEF SnapshotOffers, lifecycle, contents, channel, RoomTypes
    <2>3. CASE ResyncPeers(x)
      BY <2>0, <2>3 DEF ResyncPeers, lifecycle, contents, RoomTypes
    <2>4. CASE ResyncOffers(x)
      <3>1. view[x] \in [peers : SUBSET Peers, offers : SUBSET Peers]  BY DEF RoomTypes
      <3> QED  BY <2>0, <2>4, <3>1 DEF ResyncOffers, lifecycle, contents, channel, RoomTypes
    <2> QED  BY <2>1, <2>2, <2>3, <2>4
  <1>2. session[q] = "gone" => session'[q] = "gone"  BY <1>1
  <1>3. CASE p # x
    BY <1>0, <1>1, <1>2, <1>3, PairKept
  <1>4. CASE p = x
    <2>1. /\ at[q] \in Rooms => /\ IsMember(q)' <=> IsMember(q)
                                /\ IsOffered(q)' <=> IsOffered(q)
          /\ Lively(p, q)' => Lively(p, q)
          /\ Pend(q)' /\ Part(p, q)' /\ Hear(p, q)'
      BY <1>0, <1>1, <1>2, HearKept
    <2>2. /\ q \in members[at[p]] => at[q] = at[p]
          /\ q \in offers[at[p]] => at[q] = at[p]
      BY <1>0, <1>1, <1>4 DEF Place
    <2>3. Locate(p, q)'
      BY <1>0, <1>1, <1>4, <2>2 DEF PairInv, Locate
    <2>4. Show(p, q)'
      <3> SUFFICES ASSUME Lively(p, q)', p \notin lagged', ~Missed(p, q)'
                   PROVE  /\ (/\ session'[p] \in Reading
                              /\ About(outbox'[q], q, Here) = {}
                              /\ About(inbox'[p], q, Here) = {})
                             => (q \in view'[p].peers <=> IsMember(q)')
                          /\ (/\ session'[p] \in {"viewed", "in"}
                              /\ About(outbox'[q], q, Offer) = {}
                              /\ About(inbox'[p], q, Offer) = {})
                             => (q \in view'[p].offers <=> IsOffered(q)')
        BY DEF Show
      <3>1. /\ Lively(p, q) /\ at[q] = at[p] /\ ~Missed(p, q)
            /\ IsMember(q)' <=> q \in members[at[p]]
            /\ IsOffered(q)' <=> q \in offers[at[p]]
        BY <1>1, <2>1 DEF Lively, Missed, IsMember, IsOffered
      <3>2. CASE /\ session'[x] \in {"snapped", "resync"}
                 /\ view'[x] = [peers |-> members[at[x]], offers |-> {}]
        BY <1>4, <3>1, <3>2
      <3>3. CASE /\ session[x] \in {"snapped", "resync"} /\ session'[x] \in {"viewed", "in"}
                 /\ view'[x].peers = view[x].peers /\ view'[x].offers = offers[at[x]]
                 /\ x \in lagged' <=> x \in lagged
        <4>1. /\ session[p] \in Reading /\ p \notin lagged
              /\ view'[p].peers = view[p].peers /\ view'[p].offers = offers[at[p]]
          BY <1>4, <3>3 DEF Reading
        <4>2. /\ About(outbox[q], q, Here) = {} /\ About(inbox[p], q, Here) = {}
              => (q \in view[p].peers <=> IsMember(q))
          BY <1>0, <3>1, <4>1 DEF PairInv, Show
        <4>3. at[q] \in Rooms  BY <3>1 DEF Lively
        <4> QED  BY <1>1, <2>1, <3>1, <4>1, <4>2, <4>3
      <3> QED  BY <1>1, <3>2, <3>3
    <2> QED  BY <2>1, <2>3, <2>4 DEF PairInv
  <1> QED  BY <1>3, <1>4

LEMMA ViewSubscribe ==
    ASSUME RoomTypes, ViewInv, NEW x \in Peers, Subscribe(x)
    PROVE  ViewInv'
  <1> SUFFICES ASSUME NEW p \in Peers, NEW q \in Peers  PROVE PairInv(p, q)'
    BY DEF ViewInv
  <1>0. PairInv(p, q)  BY DEF ViewInv
  <1>1. /\ UNCHANGED <<destroyed, members, offers, at, outbox, inbox, view, lagged>>
        /\ session[x] = "viewed" /\ session' = [session EXCEPT ![x] = "in"]
        /\ missed[p] \subseteq missed'[p]
    BY DEF Subscribe, lifecycle, contents, RoomTypes
  <1>2. /\ session[q] = "gone" => session'[q] = "gone"
        /\ session'[p] \in Reading => session[p] \in Reading
        /\ session'[p] \in {"viewed", "in"} => session[p] \in {"viewed", "in"}
    BY <1>1 DEF RoomTypes, Reading
  <1> QED  BY <1>0, <1>1, <1>2, PairKept

(* A session that ends leaves its browser with nothing to show.            *)
LEMMA ViewRemove ==
    ASSUME RoomTypes, Placed, ViewInv, NEW x \in Peers, Remove(x),
           session[x] = "in", outbox[x] = <<>>
    PROVE  ViewInv'
  <1> SUFFICES ASSUME NEW p \in Peers, NEW q \in Peers  PROVE PairInv(p, q)'
    BY DEF ViewInv
  <1>0. PairInv(p, q) /\ Place(x) /\ at[x] \in Rooms
    BY DEF ViewInv, Placed, Place, RoomTypes
  <1>1. /\ UNCHANGED <<destroyed, at, missed>>
        /\ session' = [session EXCEPT ![x] = "gone"]
        /\ members' = [members EXCEPT ![at[x]] = members[at[x]] \ {x}]
        /\ offers' = [offers EXCEPT ![at[x]] = offers[at[x]] \ {x}]
        /\ inbox' = [inbox EXCEPT ![x] = <<>>] /\ lagged' = lagged \ {x}
        /\ view' = [view EXCEPT ![x] = Unseen]
        /\ \/ outbox' = [outbox EXCEPT ![x] = <<Exhausted>>]
           \/ /\ x \in offers[at[x]]
              /\ outbox' = [outbox EXCEPT ![x] =
                               <<Event("removed", x), Event("left", x)>>]
           \/ /\ x \notin offers[at[x]]
              /\ outbox' = [outbox EXCEPT ![x] = <<Event("left", x)>>]
    BY <1>0, RemoveEffect
  <1>2. /\ members \in [Rooms -> SUBSET Peers] /\ offers \in [Rooms -> SUBSET Peers]
        /\ DOMAIN outbox = Peers /\ DOMAIN session = Peers /\ DOMAIN inbox = Peers
        /\ DOMAIN view = Peers
    BY DEF RoomTypes
  <1>3. q # x => /\ outbox'[q] = outbox[q]
                 /\ session'[q] = session[q]
                 /\ at[q] \in Rooms =>
                       /\ q \in members'[at[q]] <=> q \in members[at[q]]
                       /\ q \in offers'[at[q]] <=> q \in offers[at[q]]
    BY <1>0, <1>1, <1>2
  <1>4. q = x => /\ q \notin members'[at[q]] /\ q \notin offers'[at[q]]
                 /\ \/ outbox'[q] = <<Exhausted>>
                    \/ outbox'[q] = <<Event("left", q)>> /\ q \notin offers[at[q]]
                    \/ outbox'[q] = <<Event("removed", q), Event("left", q)>>
    BY <1>0, <1>1, <1>2
  <1>5. Pend(q)'
    <2>1. CASE q = x  BY <1>4, <2>1, Distinct DEF Pend
    <2>2. CASE q # x
      BY <1>0, <1>1, <1>3, <2>2 DEF PairInv, Pend, IsMember, IsOffered
    <2> QED  BY <2>1, <2>2
  <1>6. CASE p = x
    <2>1. inbox'[p] = <<>> /\ view'[p] = Unseen /\ session'[p] = "gone"
      BY <1>1, <1>2, <1>6
    <2>2. Locate(p, q)' /\ Part(p, q)' /\ Hear(p, q)' /\ Show(p, q)'
      BY <2>1, NothingAbout DEF Locate, Part, Hear, Show, Reading, Unseen
    <2> QED  BY <1>5, <2>2 DEF PairInv
  <1>7. CASE p # x
    <2>0. /\ inbox'[p] = inbox[p] /\ view'[p] = view[p] /\ session'[p] = session[p]
          /\ p \in lagged => p \in lagged'
      BY <1>1, <1>2, <1>7
    <2>1. CASE q # x
      BY <1>0, <1>1, <1>3, <2>0, <2>1, PairKept
    <2>2. CASE q = x
      <3>1. session'[q] = "gone"  BY <1>1, <1>2, <2>2
      <3>2. /\ ~Ending(q)' => About(outbox'[q], q, Here) # {}
            /\ ~Ending(q)' => \/ About(outbox'[q], q, Offer) # {}
                              \/ q \in offers'[at[q]] <=> q \in offers[at[q]]
        <4>1. CASE outbox'[q] = <<Exhausted>>  BY <4>1 DEF Ending
        <4>2. CASE outbox'[q] = <<Event("left", q)>> /\ q \notin offers[at[q]]
          BY <1>4, <2>2, <4>2, Distinct DEF Here
        <4>3. CASE outbox'[q] = <<Event("removed", q), Event("left", q)>>
          <5> DEFINE s == <<Event("removed", q), Event("left", q)>>
          <5>1. Len(s) = 2 /\ s[1] = Event("removed", q) /\ s[2] = Event("left", q)
            OBVIOUS
          <5>2. /\ s[1].kind = "removed" /\ s[1].peer = q
                /\ s[2].kind = "left" /\ s[2].peer = q
            BY <5>1, EventKinds
          <5> HIDE DEF s
          <5>3. 2 \in About(s, q, Here) /\ 1 \in About(s, q, Offer)
            BY <5>1, <5>2 DEF About, Here, Offer
          <5> QED  BY <4>3, <5>3 DEF s
        <4> QED  BY <1>4, <2>2, <4>1, <4>2, <4>3
      <3> QED
        BY <1>0, <1>1, <1>5, <2>0, <2>2, <3>1, <3>2, PairAnnounced
    <2> QED  BY <2>1, <2>2
  <1> QED  BY <1>6, <1>7

(* A browser that takes an event comes closer to the room.                 *)
LEMMA ViewReceive ==
    ASSUME RoomTypes, Placed, ViewInv, NEW x \in Peers, Receive(x)
    PROVE  ViewInv'
  <1>0. /\ session[x] = "in" /\ at[x] \in Rooms /\ inbox[x] # <<>>
        /\ outbox[x] = <<>> /\ x \notin lagged
    BY ReceiveEffect
  <1>1. CASE Remove(x)  BY <1>0, <1>1, ViewRemove
  <1>2. ASSUME NEW e \in Changes, e = Head(inbox[x]),
               view' = [view EXCEPT ![x] = Reduced(view[x], e)],
               inbox' = [inbox EXCEPT ![x] = Tail(inbox[x])],
               UNCHANGED <<lifecycle, contents, session, at, outbox, lagged, missed>>,
               NEW p \in Peers, NEW q \in Peers
        PROVE  PairInv(p, q)'
    <2>0. PairInv(p, q) /\ Place(q)  BY DEF ViewInv, Placed
    <2>1. UNCHANGED <<destroyed, members, offers, session, at, outbox, lagged, missed>>
      BY <1>2 DEF lifecycle, contents
    <2>2. CASE p # x
      <3>1. inbox'[p] = inbox[p] /\ view'[p] = view[p]  BY <1>2, <2>2 DEF RoomTypes
      <3> QED  BY <2>0, <2>1, <3>1, PairKept
    <2>3. CASE p = x
      <3> DEFINE s == inbox[p]
                 v == view[p]
      <3>1. /\ s \in Seq(Events) /\ s # <<>> /\ e = Head(s) /\ inbox'[p] = Tail(s)
            /\ v \in [peers : SUBSET Peers, offers : SUBSET Peers]
            /\ view'[p] = Reduced(v, e)
        BY <1>0, <1>2, <2>3 DEF RoomTypes
      <3>2. e.peer \in Peers /\ e.kind \in Here \cup Offer
        BY EventKinds DEF Here, Offer
      <3>3. /\ IsMember(q)' <=> IsMember(q)
            /\ IsOffered(q)' <=> IsOffered(q)
            /\ Lively(p, q)' <=> Lively(p, q)
            /\ Missed(p, q)' <=> Missed(p, q)
            /\ Pend(q)'
        BY <2>0, <2>1 DEF IsMember, IsOffered, Lively, Ending, Missed, PairInv, Pend
      <3> HIDE DEF s, v
      <3>4. Locate(p, q)'
        <4>1. e.peer = q => About(s, q, Here \cup Offer) # {}
          BY <3>1, <3>2, AboutRest
        <4>2. About(Tail(s), q, Here \cup Offer) # {} => About(s, q, Here \cup Offer) # {}
          BY <3>1, AboutRest
        <4>3. q \in Reduced(v, e).peers \cup Reduced(v, e).offers =>
                 q \in v.peers \cup v.offers \/ e.peer = q
          BY <3>1, ReducedEffect
        <4> QED  BY <2>0, <2>1, <3>1, <4>1, <4>2, <4>3 DEF PairInv, Locate, s, v
      <3>5. Part(p, q)'
        <4>1. About(Tail(s), q, {"left"}) # {} => About(s, q, {"left"}) # {}
          BY <3>1, AboutRest
        <4> QED  BY <2>0, <2>1, <3>1, <4>1 DEF PairInv, Part, s
      <3>6. Hear(p, q)'
        <4>1. /\ Tells(s, q, Here, "joined", IsMember(q)) =>
                    Tells(Tail(s), q, Here, "joined", IsMember(q)')
              /\ Tells(s, q, Offer, "added", IsOffered(q)) =>
                    Tells(Tail(s), q, Offer, "added", IsOffered(q)')
          <5>1. /\ Tells(s, q, Here, "joined", IsMember(q)) =>
                      Tells(Tail(s), q, Here, "joined", IsMember(q))
                /\ Tells(s, q, Offer, "added", IsOffered(q)) =>
                      Tells(Tail(s), q, Offer, "added", IsOffered(q))
            BY <3>1, AboutTail
          <5> QED  BY <3>3, <5>1 DEF Tells
        <4> QED  BY <2>0, <2>1, <3>1, <3>3, <4>1 DEF PairInv, Hear, s
      <3>7. Show(p, q)'
        <4> SUFFICES ASSUME Lively(p, q), ~Missed(p, q)
                     PROVE  /\ (/\ About(outbox[q], q, Here) = {}
                                /\ About(Tail(s), q, Here) = {})
                               => (q \in Reduced(v, e).peers <=> IsMember(q))
                            /\ (/\ About(outbox[q], q, Offer) = {}
                                /\ About(Tail(s), q, Offer) = {})
                               => (q \in Reduced(v, e).offers <=> IsOffered(q))
          BY <1>0, <2>1, <3>1, <3>3 DEF Show
        <4>0. /\ session[p] \in Reading /\ session[p] \in {"viewed", "in"}
              /\ p \notin lagged
          BY <1>0, <2>3 DEF Reading
        <4>1. ASSUME About(outbox[q], q, Here) = {}, About(Tail(s), q, Here) = {}
              PROVE  q \in Reduced(v, e).peers <=> IsMember(q)
          <5>1. CASE e.kind \in Here /\ e.peer = q
            <6>1. Tells(s, q, Here, "joined", IsMember(q))
              BY <2>0, <4>1 DEF PairInv, Hear, s
            <6>2. e.kind = "joined" <=> IsMember(q)
              BY <3>1, <4>1, <5>1, <6>1, AboutTail
            <6> QED  BY <3>1, <5>1, <6>2, ReducedEffect DEF Here
          <5>2. CASE ~(e.kind \in Here /\ e.peer = q)
            <6>0. ASSUME About(s, q, Here) # {}  PROVE FALSE
              BY <3>1, <4>1, <5>2, <6>0, AboutTail
            <6>1. About(s, q, Here) = {}  BY <6>0
            <6>2. q \in v.peers <=> IsMember(q)
              BY <2>0, <4>0, <4>1, <6>1 DEF PairInv, Show, s, v
            <6>3. q \in Reduced(v, e).peers <=> q \in v.peers
              BY <3>1, <3>2, <5>2, ReducedEffect DEF Here, Offer
            <6> QED  BY <6>2, <6>3
          <5> QED  BY <5>1, <5>2
        <4>2. ASSUME About(outbox[q], q, Offer) = {}, About(Tail(s), q, Offer) = {}
              PROVE  q \in Reduced(v, e).offers <=> IsOffered(q)
          <5>1. CASE e.kind \in Offer /\ e.peer = q
            <6>1. Tells(s, q, Offer, "added", IsOffered(q))
              BY <2>0, <4>2 DEF PairInv, Hear, s
            <6>2. e.kind = "added" <=> IsOffered(q)
              BY <3>1, <4>2, <5>1, <6>1, AboutTail
            <6> QED  BY <3>1, <5>1, <6>2, ReducedEffect DEF Offer
          <5>2. CASE ~(e.kind \in Offer /\ e.peer = q)
            <6>0. ASSUME About(s, q, Offer) # {}  PROVE FALSE
              BY <3>1, <4>2, <5>2, <6>0, AboutTail
            <6>1. About(s, q, Offer) = {}  BY <6>0
            <6>2. q \in v.offers <=> IsOffered(q)
              BY <2>0, <4>0, <4>2, <6>1 DEF PairInv, Show, s, v
            <6>3. CASE ~(e.kind = "left" /\ e.peer = q)
              <7>1. q \in Reduced(v, e).offers <=> q \in v.offers
                BY <3>1, <3>2, <5>2, <6>3, ReducedEffect DEF Here, Offer
              <7> QED  BY <6>2, <7>1
            <6>4. CASE e.kind = "left" /\ e.peer = q
              <7>1. About(s, q, {"left"}) # {}
                BY <3>1, <6>4, AboutRest
              <7>2. session[q] = "gone" /\ at[q] \in Rooms
                BY <2>0, <7>1 DEF PairInv, Part, Lively, s
              <7>3. ~IsOffered(q)  BY <2>0, <7>2 DEF Place, IsOffered
              <7> QED  BY <3>1, <6>2, <6>4, <7>3, ReducedEffect
            <6> QED  BY <6>3, <6>4
          <5> QED  BY <5>1, <5>2
        <4> QED  BY <4>1, <4>2
      <3> QED  BY <3>3, <3>4, <3>5, <3>6, <3>7 DEF PairInv
    <2> QED  BY <2>2, <2>3
  <1> QED  BY <1>1, <1>2, ReceiveEffect DEF ViewInv

(* A change that is broadcast reaches every receiver of the room, and      *)
(* passes by whoever has read the room and not subscribed.                 *)
LEMMA ViewSend ==
    ASSUME RoomTypes, Placed, ViewInv, NEW x \in Peers, NEW e \in Changes,
           at[x] \in Rooms, session[x] \in {"joined", "in", "gone"}, outbox[x] # <<>>,
           e.peer = x, outbox' = [outbox EXCEPT ![x] = Tail(outbox[x])],
           \/ Tail(outbox[x]) = <<>> /\ outbox[x] = <<e>>
           \/ /\ e = Event("removed", x) /\ session[x] = "gone"
              /\ outbox[x] = <<Event("removed", x), Event("left", x)>>
              /\ Tail(outbox[x]) = <<Event("left", x)>>,
           Send(at[x], e), destroyed' = destroyed, members' = members,
           offers' = offers, session' = session, at' = at, view' = view
    PROVE  ViewInv'
  <1> SUFFICES ASSUME NEW p \in Peers, NEW q \in Peers  PROVE PairInv(p, q)'
    BY DEF ViewInv
  <1>0. /\ PairInv(p, q) /\ Place(x) /\ Place(p) /\ Place(q)
        /\ e \in Events /\ e # Closed /\ e.kind \in {"joined", "added", "removed", "left"}
        /\ inbox[p] \in Seq(Events) /\ DOMAIN outbox = Peers
        /\ p \in Subscribers(at[x]) <=> at[p] = at[x] /\ session[p] \in Subscribed
    BY EventKinds DEF ViewInv, Placed, Events, RoomTypes, Subscribers
  <1>1. /\ p \notin Subscribers(at[x]) =>
              inbox'[p] = inbox[p] /\ (p \in lagged' <=> p \in lagged)
        /\ p \in Subscribers(at[x]) =>
              \/ inbox'[p] = Append(inbox[p], e)
              \/ /\ inbox[p] # <<>> /\ p \in lagged'
                 /\ inbox'[p] = Append(Tail(inbox[p]), e)
        /\ missed[p] \subseteq missed'[p]
        /\ at[p] = at[x] /\ PassesBy(p, e) => e \in missed'[p]
        /\ p \in lagged => p \in lagged'
    BY <1>0, SendEffect DEF RoomTypes
  <1>2. CASE p \notin Subscribers(at[x]) /\ q # x
    <2>1. outbox'[q] = outbox[q]  BY <1>0, <1>2
    <2> QED  BY <1>0, <1>1, <1>2, <2>1, PairKept
  <1> DEFINE s == IF inbox'[p] = Append(inbox[p], e) THEN inbox[p] ELSE Tail(inbox[p])
  <1>3. ASSUME p \in Subscribers(at[x])
        PROVE  /\ s \in Seq(Events) /\ inbox'[p] = Append(s, e)
               /\ p \notin lagged' => s = inbox[p]
               /\ \A K : About(s, q, K) # {} => About(inbox[p], q, K) # {}
               /\ \A K, k, b : Tells(inbox[p], q, K, k, b) => Tells(s, q, K, k, b)
    <2>1. CASE inbox'[p] = Append(inbox[p], e)  BY <1>0, <2>1
    <2>2. CASE inbox'[p] # Append(inbox[p], e)
      <3>1. /\ inbox[p] # <<>> /\ p \in lagged' /\ inbox'[p] = Append(Tail(inbox[p]), e)
            /\ s = Tail(inbox[p]) /\ Tail(inbox[p]) \in Seq(Events)
        BY <1>0, <1>1, <1>3, <2>2
      <3>2. \A K : About(Tail(inbox[p]), q, K) # {} => About(inbox[p], q, K) # {}
        BY <1>0, <3>1, AboutRest
      <3>3. \A K, k, b : Tells(inbox[p], q, K, k, b) => Tells(Tail(inbox[p]), q, K, k, b)
        BY <1>0, <3>1, AboutTail
      <3> QED  BY <3>1, <3>2, <3>3
    <2> QED  BY <2>1, <2>2
  <1> HIDE DEF s
  <1>4. /\ IsMember(q)' <=> IsMember(q)
        /\ IsOffered(q)' <=> IsOffered(q)
        /\ Missed(p, q) => Missed(p, q)'
    BY <1>1 DEF IsMember, IsOffered, Missed
  <1>5. e.kind = "left" => session[x] = "gone"
    <2>1. CASE outbox[x] = <<e>>
      <3>1. e.kind = "left" => /\ <<e>> # <<Event("joined", x)>> /\ <<e>> # <<>>
                               /\ <<e>> # <<Event("added", x)>>
                               /\ <<e>> # <<Event("removed", x)>>
        <4>1. /\ Event("joined", x).kind = "joined" /\ Event("added", x).kind = "added"
              /\ Event("removed", x).kind = "removed"
          BY EventKinds
        <4>2. \A f : <<e>> = <<f>> => e = f  OBVIOUS
        <4> QED  BY <4>1, <4>2
      <3> QED  BY <1>0, <2>1, <3>1 DEF Place
    <2>2. CASE e = Event("removed", x)  BY <2>2, EventKinds
    <2> QED  BY <2>1, <2>2
  <1>6. CASE p \in Subscribers(at[x]) /\ q # x
    <2>0. /\ outbox'[q] = outbox[q] /\ e.peer # q
      BY <1>0, <1>6
    <2>1. /\ s \in Seq(Events) /\ inbox'[p] = Append(s, e)
          /\ p \notin lagged' => s = inbox[p]
          /\ \A K : About(s, q, K) # {} => About(inbox[p], q, K) # {}
          /\ \A K, k, b : Tells(inbox[p], q, K, k, b) => Tells(s, q, K, k, b)
      BY <1>3, <1>6
    <2>2. \A K : About(inbox'[p], q, K) = About(s, q, K)
      BY <1>0, <2>0, <2>1, AboutSteps
    <2>3. \A K, k, b : Tells(inbox[p], q, K, k, b) => Tells(inbox'[p], q, K, k, b)
      BY <1>0, <2>0, <2>1, AboutAppend
    <2>4. Lively(p, q)' => Lively(p, q)  BY <2>0 DEF Lively, Ending
    <2>5. Pend(q)'  BY <1>0, <2>0 DEF PairInv, Pend, IsMember, IsOffered
    <2>6. Locate(p, q)' /\ Part(p, q)'
      <3>1. \A K : About(inbox'[p], q, K) # {} => About(inbox[p], q, K) # {}
        BY <2>1, <2>2
      <3> QED  BY <1>0, <3>1 DEF PairInv, Locate, Part
    <2>7. Hear(p, q)'
      <3>1. /\ Tells(inbox[p], q, Here, "joined", IsMember(q)) =>
                  Tells(inbox'[p], q, Here, "joined", IsMember(q)')
            /\ Tells(inbox[p], q, Offer, "added", IsOffered(q)) =>
                  Tells(inbox'[p], q, Offer, "added", IsOffered(q)')
        <4>1. /\ Tells(inbox[p], q, Here, "joined", IsMember(q)) =>
                    Tells(inbox'[p], q, Here, "joined", IsMember(q))
              /\ Tells(inbox[p], q, Offer, "added", IsOffered(q)) =>
                    Tells(inbox'[p], q, Offer, "added", IsOffered(q))
          BY <2>3
        <4> QED  BY <1>4, <4>1 DEF Tells
      <3> QED  BY <1>0, <2>0, <2>4, <3>1 DEF PairInv, Hear
    <2>8. Show(p, q)'
      <3>1. p \notin lagged' => \A K : About(inbox'[p], q, K) = About(inbox[p], q, K)
        BY <2>1, <2>2
      <3> QED  BY <1>0, <1>1, <1>4, <2>0, <2>4, <3>1 DEF PairInv, Show
    <2> QED  BY <2>5, <2>6, <2>7, <2>8 DEF PairInv
  <1>7. CASE q = x
    <2>0. outbox'[q] = Tail(outbox[q]) /\ at[q] \in Rooms /\ ~Ending(q)
      <3>1. \A f : <<e>> = <<f>> => e = f  OBVIOUS
      <3>2. e # Exhausted  BY EventKinds
      <3> QED  BY <1>0, <1>7, <3>1, <3>2, Distinct DEF Ending
    <2>1. Pend(q)'
      <3>1. outbox'[q] = <<>> \/ outbox'[q] = <<Event("left", q)>>  BY <1>7, <2>0
      <3> QED  BY <3>1, Distinct DEF Pend
    (* If nothing of e's kind is left to broadcast, e was all of it.         *)
    <2>2. ASSUME NEW K \in {Here, Offer}, About(outbox'[q], q, K) = {}
          PROVE  \/ e.kind \notin K /\ About(outbox[q], q, K) = {}
                 \/ e.kind \in K /\ outbox[q] = <<e>>
                 \/ /\ K = Offer /\ e = Event("removed", q) /\ session[q] = "gone"
                    /\ e.kind \in K
      <3>1. CASE outbox[q] = <<e>>
        BY <1>7, <3>1, AboutOne
      <3>2. CASE /\ e = Event("removed", x) /\ session[x] = "gone"
                 /\ Tail(outbox[x]) = <<Event("left", x)>>
        <4>1. About(outbox'[q], q, Here) # {}
          BY <1>7, <2>0, <3>2, Distinct DEF Here
        <4>2. K = Offer  BY <2>2, <4>1
        <4> QED  BY <1>7, <3>2, <4>2, EventKinds DEF Offer
      <3> QED  BY <1>7, <3>1, <3>2
    <2>3. /\ e.kind \in Here /\ outbox[q] = <<e>> => (e.kind = "joined" <=> IsMember(q))
          /\ e.kind \in Offer /\ outbox[q] = <<e>> => (e.kind = "added" <=> IsOffered(q))
      <3>1. e = Event(e.kind, q)  BY <1>7 DEF Changes, Event
      <3>2. session[q] = "gone" => ~IsMember(q) /\ ~IsOffered(q)
        BY <1>0, <2>0 DEF Place, IsMember, IsOffered
      <3>3. outbox[q] = <<e>> =>
               /\ e.kind = "joined" => IsMember(q)
               /\ e.kind = "added" => IsOffered(q)
               /\ e.kind = "removed" => ~IsOffered(q)
        BY <1>0, <2>0, <3>1 DEF PairInv, Pend
      <3> QED  BY <1>5, <1>7, <3>2, <3>3 DEF Here, Offer
    <2>4. /\ About(outbox'[q], q, Here) = {} /\ e.kind \in Here =>
                (e.kind = "joined" <=> IsMember(q))
          /\ About(outbox'[q], q, Offer) = {} /\ e.kind \in Offer =>
                (e.kind = "added" <=> IsOffered(q))
      <3>1. session[q] = "gone" => ~IsOffered(q)
        BY <1>0, <2>0 DEF Place, IsOffered
      <3>2. e = Event("removed", q) => e.kind = "removed"  BY EventKinds
      <3>3. Here # Offer  BY DEF Here, Offer
      <3> QED  BY <2>2, <2>3, <3>1, <3>2, <3>3
    <2>5. Locate(p, q)' /\ Part(p, q)'
      <3>1. CASE p \notin Subscribers(at[x])
        BY <1>0, <1>1, <3>1 DEF PairInv, Locate, Part
      <3>2. CASE p \in Subscribers(at[x])
        <4>1. Locate(p, q)'  BY <1>0, <1>7, <3>2 DEF Locate
        <4>2. ASSUME About(inbox'[p], q, {"left"}) # {}  PROVE session[q] = "gone"
          <5>1. CASE e.kind = "left"  BY <1>5, <1>7, <5>1
          <5>2. CASE e.kind # "left"
            <6>1. e.kind \notin {"left"}  BY <5>2
            <6>2. About(Append(s, e), q, {"left"}) = About(s, q, {"left"})
              BY <1>0, <1>3, <3>2, <6>1, AboutSteps
            <6> QED  BY <1>0, <1>3, <3>2, <4>2, <6>2 DEF PairInv, Part
          <5> QED  BY <5>1, <5>2
        <4> QED  BY <4>1, <4>2 DEF Part
      <3> QED  BY <3>1, <3>2
    <2>6. Lively(p, q)' => Lively(p, q) /\ at[p] = at[x]
      BY <1>7, <2>0 DEF Lively
    <2>7. Hear(p, q)'
      <3> SUFFICES ASSUME Lively(p, q)'
                   PROVE  /\ About(outbox'[q], q, Here) = {} =>
                                Tells(inbox'[p], q, Here, "joined", IsMember(q)')
                          /\ About(outbox'[q], q, Offer) = {} =>
                                Tells(inbox'[p], q, Offer, "added", IsOffered(q)')
        BY DEF Hear
      <3>1. CASE p \notin Subscribers(at[x])
        <4>1. inbox'[p] = <<>>
          BY <1>0, <1>1, <2>6, <3>1 DEF Place
        <4> QED  BY <4>1, NothingAbout
      <3>2. CASE p \in Subscribers(at[x])
        <4>0. \A K, k, b :
                 /\ e.kind \in K => (Tells(inbox'[p], q, K, k, b) <=> (e.kind = k <=> b))
                 /\ e.kind \notin K =>
                       (Tells(s, q, K, k, b) => Tells(inbox'[p], q, K, k, b))
          <5>1. s \in Seq(Events) /\ inbox'[p] = Append(s, e) /\ e \in Events /\ e.peer = q
            BY <1>0, <1>3, <1>7, <3>2
          <5> QED  BY <5>1, AboutAppend
        <4>1. ASSUME About(outbox'[q], q, Here) = {}
              PROVE  Tells(inbox'[p], q, Here, "joined", IsMember(q)')
          <5>1. CASE e.kind \in Here
            <6>1. Tells(inbox'[p], q, Here, "joined", IsMember(q)) <=>
                     (e.kind = "joined" <=> IsMember(q))
              BY <4>0, <5>1
            <6>2. Tells(inbox'[p], q, Here, "joined", IsMember(q))  BY <2>4, <4>1, <5>1, <6>1
            <6> QED  BY <1>4, <6>2 DEF Tells
          <5>2. CASE e.kind \notin Here
            <6>1. About(outbox[q], q, Here) = {}  BY <2>2, <4>1, <5>2
            <6>2. Tells(s, q, Here, "joined", IsMember(q))
              BY <1>0, <1>3, <2>6, <3>2, <6>1 DEF PairInv, Hear
            <6>3. Tells(inbox'[p], q, Here, "joined", IsMember(q))
              BY <4>0, <5>2, <6>2
            <6> QED  BY <1>4, <6>3 DEF Tells
          <5> QED  BY <5>1, <5>2
        <4>2. ASSUME About(outbox'[q], q, Offer) = {}
              PROVE  Tells(inbox'[p], q, Offer, "added", IsOffered(q)')
          <5>1. CASE e.kind \in Offer
            <6>1. Tells(inbox'[p], q, Offer, "added", IsOffered(q)) <=>
                     (e.kind = "added" <=> IsOffered(q))
              BY <4>0, <5>1
            <6>2. Tells(inbox'[p], q, Offer, "added", IsOffered(q))  BY <2>4, <4>2, <5>1, <6>1
            <6> QED  BY <1>4, <6>2 DEF Tells
          <5>2. CASE e.kind \notin Offer
            <6>1. About(outbox[q], q, Offer) = {}  BY <2>2, <4>2, <5>2
            <6>2. Tells(s, q, Offer, "added", IsOffered(q))
              BY <1>0, <1>3, <2>6, <3>2, <6>1 DEF PairInv, Hear
            <6>3. Tells(inbox'[p], q, Offer, "added", IsOffered(q))
              BY <4>0, <5>2, <6>2
            <6> QED  BY <1>4, <6>3 DEF Tells
          <5> QED  BY <5>1, <5>2
        <4> QED  BY <4>1, <4>2
      <3> QED  BY <3>1, <3>2
    <2>8. Show(p, q)'
      <3> SUFFICES ASSUME Lively(p, q)', p \notin lagged', ~Missed(p, q)',
                          session[p] \in Reading
                   PROVE  /\ (/\ About(outbox'[q], q, Here) = {}
                              /\ About(inbox'[p], q, Here) = {})
                             => (q \in view[p].peers <=> IsMember(q))
                          /\ (/\ session[p] \in {"viewed", "in"}
                              /\ About(outbox'[q], q, Offer) = {}
                              /\ About(inbox'[p], q, Offer) = {})
                             => (q \in view[p].offers <=> IsOffered(q))
        BY <1>4 DEF Show, Reading
      <3>0. Lively(p, q) /\ p \notin lagged /\ ~Missed(p, q) /\ at[p] = at[x]
        BY <1>1, <1>4, <2>6
      <3>1. ~PassesBy(p, e)
        BY <1>0, <1>1, <1>7, <3>0 DEF Missed
      <3>2. CASE p \in Subscribers(at[x])
        <4>1. ASSUME NEW K, About(inbox'[p], q, K) = {}
              PROVE  e.kind \notin K /\ About(inbox[p], q, K) = {}
          <5>1. s = inbox[p] /\ inbox'[p] = Append(s, e) /\ s \in Seq(Events)
            BY <1>3, <3>2
          <5>2. \A k, b : e.kind \in K /\ e.peer = q =>
                   /\ About(Append(s, e), q, K) # {}
                   /\ Tells(Append(s, e), q, K, k, b) <=> (e.kind = k <=> b)
            BY <1>0, <5>1, AboutAppend
          <5>3. e.kind \notin K  BY <1>7, <4>1, <5>1, <5>2
          <5> QED  BY <1>0, <4>1, <5>1, <5>3, AboutSteps
        <4> QED  BY <1>0, <2>2, <3>0, <4>1 DEF PairInv, Show
      <3>3. CASE p \notin Subscribers(at[x])
        <4>1. inbox'[p] = inbox[p]  BY <1>1, <3>3
        <4>2. session[p] = "snapped" /\ e.kind \notin Here
          BY <1>0, <3>0, <3>1, <3>3 DEF PassesBy, Reading, Subscribed, Here
        <4> QED  BY <1>0, <2>2, <3>0, <4>1, <4>2 DEF PairInv, Show
      <3> QED  BY <3>2, <3>3
    <2> QED  BY <2>1, <2>5, <2>7, <2>8 DEF PairInv
  <1> QED  BY <1>2, <1>6, <1>7


LEMMA ViewFlush ==
    ASSUME RoomTypes, Placed, ViewInv, NEW x \in Peers, Flush(x)
    PROVE  ViewInv'
  <1>0. /\ members' = members /\ offers' = offers /\ session' = session /\ at' = at
        /\ view' = view /\ DOMAIN outbox = Peers
        /\ at[x] \in Rooms /\ session[x] \in {"joined", "in", "gone"}
    BY FlushCases DEF contents, RoomTypes
  <1>1. ASSUME outbox' = [outbox EXCEPT ![x] = <<Closed>>], outbox[x] = <<Exhausted>>,
               destroyed' = destroyed, UNCHANGED channel
        PROVE  ViewInv'
    <2> SUFFICES ASSUME NEW p \in Peers, NEW q \in Peers  PROVE PairInv(p, q)'
      BY DEF ViewInv
    <2>0. PairInv(p, q) /\ inbox' = inbox /\ lagged' = lagged /\ missed' = missed
      BY <1>1 DEF ViewInv, channel
    <2>1. CASE q # x
      <3>1. outbox'[q] = outbox[q]  BY <1>0, <1>1, <2>1
      <3> QED  BY <1>0, <1>1, <2>0, <3>1, PairKept
    <2>2. CASE q = x
      <3>1. outbox'[q] = <<Closed>>  BY <1>0, <1>1, <2>2
      <3>2. ~Lively(p, q)'  BY <3>1 DEF Lively, Ending
      <3>3. Pend(q)'  BY <3>1, Distinct DEF Pend
      <3> QED
        BY <1>0, <2>0, <3>2, <3>3 DEF PairInv, Locate, Part, Hear, Show
    <2> QED  BY <2>1, <2>2
  <1>2. ASSUME outbox' = [outbox EXCEPT ![x] = <<>>],
               destroyed' = destroyed \cup {at[x]}, Told(at[x], Closed)
        PROVE  ViewInv'
    <2> SUFFICES ASSUME NEW p \in Peers, NEW q \in Peers  PROVE PairInv(p, q)'
      BY DEF ViewInv
    <2>0. PairInv(p, q)  BY DEF ViewInv
    <2>1. outbox'[q] = outbox[q] \/ (outbox'[q] = <<>> /\ at[q] = at[x])
      BY <1>0, <1>2
    <2> QED  BY <1>0, <1>2, <2>0, <2>1, PairDestroyed
  <1>3. ASSUME NEW e \in Changes, outbox[x] # <<>>, e.peer = x,
               outbox' = [outbox EXCEPT ![x] = Tail(outbox[x])],
               \/ Tail(outbox[x]) = <<>> /\ outbox[x] = <<e>>
               \/ /\ e = Event("removed", x) /\ session[x] = "gone"
                  /\ outbox[x] = <<Event("removed", x), Event("left", x)>>
                  /\ Tail(outbox[x]) = <<Event("left", x)>>,
               destroyed' = destroyed, Send(at[x], e)
        PROVE  ViewInv'
    BY <1>0, <1>3, ViewSend
  <1> QED  BY <1>1, <1>2, <1>3, FlushCases

LEMMA ViewNext ==
    ASSUME RoomTypes, Placed, ViewInv, [RoomNext]_roomVars
    PROVE  ViewInv'
  <1>1. CASE UNCHANGED roomVars
    <2> SUFFICES ASSUME NEW p \in Peers, NEW q \in Peers  PROVE PairInv(p, q)'
      BY DEF ViewInv
    <2>1. PairInv(p, q)  BY DEF ViewInv
    <2>2. UNCHANGED <<destroyed, members, offers, session, at, outbox, view, inbox,
                      lagged, missed>>
      BY <1>1 DEF roomVars, lifecycle, contents, sessions, channel
    <2> QED  BY <2>1, <2>2, PairKept
  <1>2. CASE LifecycleStep  BY <1>2, ViewLifecycle
  <1>3. ASSUME NEW p \in Peers,
               \/ Hello(p) \/ Join(p) \/ SnapshotPeers(p) \/ SnapshotOffers(p)
               \/ Subscribe(p) \/ Flush(p) \/ Publish(p) \/ Withdraw(p) \/ Leave(p)
               \/ Receive(p) \/ ResyncPeers(p) \/ ResyncOffers(p)
        PROVE  ViewInv'
    <2>1. CASE Leave(p)  BY <2>1, ViewRemove DEF Leave
    <2>2. CASE Hello(p)  BY <2>2, ViewHello
    <2>3. CASE Join(p)  BY <2>3, ViewJoin
    <2>4. CASE SnapshotPeers(p) \/ SnapshotOffers(p) \/ ResyncPeers(p) \/ ResyncOffers(p)
      BY <2>4, ViewRead
    <2>5. CASE Subscribe(p)  BY <2>5, ViewSubscribe
    <2>6. CASE Flush(p)  BY <2>6, ViewFlush
    <2>7. CASE Publish(p) \/ Withdraw(p)  BY <2>7, ViewOffer
    <2>8. CASE Receive(p)  BY <2>8, ViewReceive
    <2> QED  BY <1>3, <2>1, <2>2, <2>3, <2>4, <2>5, <2>6, <2>7, <2>8
  <1> QED  BY <1>1, <1>2, <1>3 DEF RoomNext, LifecycleStep

(* ViewsAgree, for every number of members and every capacity of the       *)
(* channel: a browser that has taken all it was sent shows the room,       *)
(* however joins, offers, departures, overruns and resyncs interleaved.    *)
THEOREM ViewsAreRight == RoomSpec => []ViewsAgree
  <1>1. RoomInit => RoomTypes /\ Placed /\ ViewInv
    BY BaseInit, ViewInvInit
  <1>2. RoomTypes /\ Placed /\ ViewInv /\ [RoomNext]_roomVars
          => (RoomTypes /\ Placed /\ ViewInv)'
    BY BaseNext, ViewNext
  <1>3. RoomTypes /\ Placed /\ ViewInv => ViewsAgree
    <2> SUFFICES ASSUME RoomTypes, Placed, ViewInv, NEW p \in Peers, NEW q \in Peers,
                        session[p] = "in", inbox[p] = <<>>, p \notin lagged,
                        at[p] \notin destroyed, at[q] = at[p], outbox[q] = <<>>,
                        \A e \in missed[p] \ {Closed} : e.peer # q
                 PROVE  /\ q \in view[p].peers <=> q \in members[at[p]]
                        /\ q \in view[p].offers <=> q \in offers[at[p]]
      BY DEF ViewsAgree
    <2>1. at[p] \in Rooms  BY DEF Placed, Place, RoomTypes
    <2>2. Lively(p, q)  BY <2>1, Distinct DEF Lively, Ending
    <2>3. ~Missed(p, q)  BY DEF Missed
    <2> QED
      BY <2>2, <2>3, NothingAbout
      DEF ViewInv, PairInv, Show, Reading, IsMember, IsOffered
  <1> QED  BY <1>1, <1>2, <1>3, PTL DEF RoomSpec
=============================================================================
