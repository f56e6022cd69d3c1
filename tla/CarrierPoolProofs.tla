--------------------------- MODULE CarrierPoolProofs ---------------------------
(* Theorems about the parts of a carrier pool, which share no state: the  *)
(* client's accounting of carriers and the target of an explicitly         *)
(* configured pool (CarrierPool), the occupancy gauge (BulkTicket) and the *)
(* tokens of tunnels (CarrierToken), for every number of connections,      *)
(* tickets and tunnels and every ceiling.                                  *)
EXTENDS CarrierPool, BulkTicket, CarrierToken, FiniteSetTheorems, SequenceTheorems,
        TLAPS

(* Types of the variables the argument is about.                           *)
Types ==
    /\ client \in {"starting", "listening", "done", "tripped"}
    /\ acceptors \subseteq Conns /\ pump \subseteq Conns
    /\ live \in Nat /\ targetExtra \in Nat /\ need \in Nat
    /\ inflight \in BOOLEAN
    /\ msgs \in Seq(1 .. Ceiling)
    /\ target \in 1 .. Ceiling
    /\ nudges \in Nat

(* A session that has not started to listen has no pump and no batch; one  *)
(* that has holds no idle acceptor; dials are left only in a loop.         *)
Phases ==
    /\ client = "starting" => pump = {} /\ ~inflight
    /\ client # "starting" => acceptors = {}
    /\ client # "starting" /\ ~inflight => need = 0

(* Every target the client can hear of is below the ceiling.               *)
ExtraBound == targetExtra <= Ceiling - 1

(* The inductive invariant behind LiveCount and DialBudget.                *)
DialInv == Types /\ Phases /\ ExtraBound /\ LiveCount /\ DialBudget

(* The inductive invariant behind ExplicitTargetFixed: the two arms that   *)
(* move the target need a nudge or an earlier change.                      *)
ExplicitInv ==
    ~AutoCarriers => /\ target = Effective /\ msgs = <<>>
             /\ changeAge = "never" /\ nudges = 0

-----------------------------------------------------------------------------
(* Sizes of the sets of carriers: taking a fresh one adds one, dropping a  *)
(* pump never adds.                                                        *)
LEMMA AddCarrier ==
    ASSUME NEW S, S \subseteq Conns, NEW c \in Conns, c \notin S
    PROVE  /\ Cardinality(S) \in Nat
           /\ Cardinality(S \cup {c}) = Cardinality(S) + 1
  BY CarrierAssumption, FS_Subset, FS_AddElement, FS_CardinalityType

LEMMA RemoveCarrier ==
    ASSUME NEW S, S \subseteq Conns, NEW c \in S
    PROVE  /\ Cardinality(S) \in Nat \ {0}
           /\ Cardinality(S \ {c}) = Cardinality(S) - 1
  <1>1. IsFiniteSet(S)  BY CarrierAssumption, FS_Subset
  <1>2. Cardinality(S) \in Nat /\ Cardinality(S) # 0
    BY <1>1, FS_CardinalityType, FS_EmptySet
  <1> QED BY <1>1, <1>2, FS_RemoveElement

(* MaybeRedial leaves the sum of pumps and dials within the target.        *)
LEMMA RedialBudget ==
    ASSUME DialInv, client = "listening", NEW extra \in Nat,
           extra <= Ceiling - 1, MaybeRedial(extra)
    PROVE  /\ inflight' \in BOOLEAN /\ need' \in Nat
           /\ ~inflight' => need' = 0
           /\ Cardinality(pump) + need' <= Ceiling - 1
  <1>1. acceptors \cup pump = pump /\ Cardinality(pump) = live
    BY DEF DialInv, Phases, LiveCount
  <1>2. Cardinality(pump) + need <= Ceiling - 1
    BY <1>1 DEF DialInv, DialBudget
  <1>3. CASE live >= extra \/ inflight
    BY <1>2, <1>3 DEF MaybeRedial, DialInv, Types, Phases
  <1>4. CASE ~(live >= extra \/ inflight)
    BY <1>1, <1>4, CarrierAssumption DEF MaybeRedial, DialInv, Types
  <1> QED BY <1>3, <1>4

(* The invariant survives a step that leaves the client's state alone.     *)
LEMMA DialInvFrame ==
    ASSUME DialInv, UNCHANGED clientVars,
           msgs' \in Seq(1 .. Ceiling), target' \in 1 .. Ceiling, nudges' \in Nat
    PROVE  DialInv'
  <1>1. Types'  BY DEF DialInv, Types, clientVars
  <1>2. Phases' /\ ExtraBound' /\ LiveCount' /\ DialBudget'
    BY DEF DialInv, Phases, ExtraBound, LiveCount, DialBudget, clientVars
  <1> QED BY <1>1, <1>2 DEF DialInv

(* MoveTarget sends a target within the ceiling.                           *)
LEMMA MoveTargetTypes ==
    ASSUME Types, NEW to \in 1 .. Ceiling, MoveTarget(to)
    PROVE  msgs' \in Seq(1 .. Ceiling) /\ target' \in 1 .. Ceiling
  BY DEF Types, MoveTarget

LEMMA DialInvInit == Init => DialInv
  <1> SUFFICES ASSUME Init PROVE DialInv  OBVIOUS
  <1>1. Types
    <2>1. msgs \in Seq(1 .. Ceiling)  BY DEF Init
    <2>2. /\ live = 0 /\ nudges = 0 /\ acceptors = {} /\ pump = {}
          /\ inflight = FALSE /\ client = "starting"
      BY DEF Init
    <2>3. /\ targetExtra \in Nat /\ need \in Nat
          /\ target \in 1 .. Ceiling
      BY CarrierAssumption DEF Init
    <2> QED BY <2>1, <2>2, <2>3 DEF Types
  <1>2. Phases /\ ExtraBound
    BY CarrierAssumption DEF Init, Phases, ExtraBound
  <1>3. Cardinality({}) = 0  BY FS_EmptySet
  <1>4. LiveCount  BY <1>3 DEF Init, LiveCount
  <1>5. acceptors \cup pump = {}  BY DEF Init
  <1>6. DialBudget
    BY <1>3, <1>5, CarrierAssumption DEF Init, DialBudget
  <1> QED BY <1>1, <1>2, <1>4, <1>6 DEF DialInv

(* Every step keeps the client's accounting.                               *)
LEMMA DialInvNext == DialInv /\ [Next]_vars => DialInv'
  <1> SUFFICES ASSUME DialInv, [Next]_vars PROVE DialInv'  OBVIOUS
  <1> USE CarrierAssumption
  <1>t. Types  BY DEF DialInv
  <1>1. CASE DialInitial
    <2> USE <1>1 DEF DialInitial
    <2>1. CASE UNCHANGED <<acceptors, conn, held>>
      <3>1. Types'  BY <1>t, <2>1 DEF Types, targetVars
      <3>2. Phases' /\ ExtraBound' /\ LiveCount'
        BY <2>1 DEF DialInv, Types, Phases, ExtraBound, LiveCount
      <3>3. need' <= need /\ Cardinality(acceptors \cup pump) \in Nat
        BY <1>t, FS_Subset, FS_Union, FS_CardinalityType DEF Types
      <3>4. DialBudget'
        BY <1>t, <2>1, <3>3 DEF DialInv, Types, DialBudget
      <3> QED BY <3>1, <3>2, <3>4 DEF DialInv
    <2>2. ASSUME NEW c \in Conns, open_carrier(c),
                 acceptors' = acceptors \cup {c}
          PROVE  DialInv'
      <3>1. Types'  BY <1>t, <2>2 DEF Types, targetVars
      <3>2. Phases' /\ ExtraBound' /\ LiveCount'
        BY <2>2 DEF DialInv, Types, Phases, ExtraBound, LiveCount
      <3>3. c \notin acceptors \cup pump
        BY <2>2 DEF open_carrier, Unreferenced
      <3>4. (acceptors \cup pump)' = (acceptors \cup pump) \cup {c}
        BY <2>2
      <3>5. /\ Cardinality(acceptors \cup pump) \in Nat
            /\ Cardinality((acceptors \cup pump)')
                  = Cardinality(acceptors \cup pump) + 1
        BY <1>t, <3>3, <3>4, AddCarrier DEF Types
      <3>6. DialBudget'
        BY <1>t, <3>5 DEF DialInv, Types, DialBudget
      <3> QED BY <3>1, <3>2, <3>6 DEF DialInv
    <2> QED BY <2>1, <2>2
  <1>2. CASE Listen
    <2> USE <1>2 DEF Listen
    <2>1. Types'
      <3>1. Cardinality(acceptors) \in Nat
        BY <1>t, FS_Subset, FS_CardinalityType DEF Types
      <3> QED BY <1>t, <3>1 DEF Types, targetVars
    <2>2. Phases' /\ ExtraBound' /\ LiveCount'
      BY DEF DialInv, Types, Phases, ExtraBound, LiveCount
    <2>3. (acceptors \cup pump)' = acceptors \cup pump
      BY DEF DialInv, Phases
    <2>4. DialBudget'  BY <2>3 DEF DialInv, DialBudget
    <2> QED BY <2>1, <2>2, <2>4 DEF DialInv
  <1>3. CASE RedialTick
    <2> USE <1>3 DEF RedialTick
    <2>1. /\ inflight' \in BOOLEAN /\ need' \in Nat
          /\ ~inflight' => need' = 0
          /\ Cardinality(pump) + need' <= Ceiling - 1
      BY <1>t, RedialBudget DEF DialInv, Types, ExtraBound
    <2>2. Types'  BY <1>t, <2>1 DEF Types, targetVars
    <2>3. Phases' /\ ExtraBound' /\ LiveCount'
      BY <2>1 DEF DialInv, Phases, ExtraBound, LiveCount
    <2>4. (acceptors \cup pump)' = pump  BY DEF DialInv, Phases
    <2>5. DialBudget'  BY <2>1, <2>4 DEF DialBudget
    <2> QED BY <2>2, <2>3, <2>5 DEF DialInv
  <1>4. CASE Redial
    <2> USE <1>4 DEF Redial
    <2>1. PICK c \in Conns : /\ open_carrier(c) /\ pump' = pump \cup {c}
      OBVIOUS
    <2>2. acceptors = {} /\ c \notin pump
      BY <2>1 DEF DialInv, Phases, open_carrier, Unreferenced
    <2>3. /\ Cardinality(pump) \in Nat
          /\ Cardinality(pump') = Cardinality(pump) + 1
      BY <1>t, <2>1, <2>2, AddCarrier DEF Types
    <2>4. Types'  BY <1>t, <2>1 DEF Types, targetVars
    <2>5. Phases' /\ ExtraBound'
      BY <2>2 DEF DialInv, Phases, ExtraBound
    <2>6. LiveCount'  BY <2>3 DEF DialInv, LiveCount
    <2>7. /\ Cardinality((acceptors \cup pump)') = Cardinality(pump')
          /\ Cardinality(acceptors \cup pump) = Cardinality(pump)
      <3>1. (acceptors \cup pump)' = pump' /\ acceptors \cup pump = pump
        BY <2>2
      <3> QED BY <3>1
    <2>8. DialBudget'
      BY <1>t, <2>3, <2>7 DEF DialInv, DialBudget, Types
    <2> QED BY <2>4, <2>5, <2>6, <2>8 DEF DialInv
  <1>5. CASE RedialFails
    <2> USE <1>5 DEF RedialFails
    <2>1. Types'  BY <1>t DEF Types, targetVars
    <2>2. Phases' /\ ExtraBound' /\ LiveCount'
      BY DEF DialInv, Phases, ExtraBound, LiveCount
    <2>3. Cardinality(acceptors \cup pump) \in Nat
      BY <1>t, FS_Subset, FS_CardinalityType DEF Types
    <2>4. DialBudget'  BY <1>t, <2>3 DEF DialInv, DialBudget, Types
    <2> QED BY <2>1, <2>2, <2>4 DEF DialInv
  <1>6. CASE BatchDone
    <2>1. Types'  BY <1>t, <1>6 DEF Types, targetVars, BatchDone
    <2>2. Phases' /\ ExtraBound' /\ LiveCount' /\ DialBudget'
      BY <1>6 DEF DialInv, Phases, ExtraBound, LiveCount, DialBudget, BatchDone
    <2> QED BY <2>1, <2>2 DEF DialInv
  <1>7. CASE SetCarrierTarget
    <2> USE <1>7 DEF SetCarrierTarget
    <2>1. Head(msgs) \in 1 .. Ceiling /\ msgs' \in Seq(1 .. Ceiling)
      BY <1>t, HeadTailProperties DEF Types
    <2>2. targetExtra' \in Nat /\ targetExtra' <= Ceiling - 1
      BY <2>1
    <2>3. /\ inflight' \in BOOLEAN /\ need' \in Nat
          /\ ~inflight' => need' = 0
          /\ Cardinality(pump) + need' <= Ceiling - 1
      <3>1. CASE targetExtra' > targetExtra
        BY <2>2, <3>1, RedialBudget
      <3>2. CASE ~(targetExtra' > targetExtra)
        <4>1. acceptors \cup pump = pump  BY DEF DialInv, Phases
        <4> QED BY <1>t, <3>2, <4>1 DEF DialInv, Types, Phases, DialBudget
      <3> QED BY <3>1, <3>2
    <2>4. Types'  BY <1>t, <2>1, <2>2, <2>3 DEF Types, targetVars
    <2>5. Phases' /\ ExtraBound' /\ LiveCount'
      BY <2>2, <2>3 DEF DialInv, Phases, ExtraBound, LiveCount
    <2>6. (acceptors \cup pump)' = pump  BY DEF DialInv, Phases
    <2>7. DialBudget'  BY <2>3, <2>6 DEF DialBudget
    <2> QED BY <2>4, <2>5, <2>7 DEF DialInv
  <1>8. ASSUME NEW c \in Conns, ClientSeesDown(c) \/ PumpRefuses(c)
        PROVE  DialInv'
    <2>1. /\ c \in pump /\ PumpEnds(c)
          /\ UNCHANGED <<targetVars, client, acceptors, targetExtra, inflight,
                         need, msgs>>
      BY <1>8 DEF ClientSeesDown, PumpRefuses
    <2>2. acceptors = {}  BY <2>1 DEF DialInv, Phases
    <2>3. /\ Cardinality(pump) \in Nat \ {0}
          /\ Cardinality(pump') = Cardinality(pump) - 1
      BY <1>t, <2>1, RemoveCarrier DEF PumpEnds, Types
    <2>4. live' = live - 1 /\ live' \in Nat /\ LiveCount'
      BY <2>1, <2>3 DEF DialInv, LiveCount, PumpEnds
    <2>5. Types'  BY <1>t, <2>1, <2>4 DEF Types, targetVars, PumpEnds
    <2>6. Phases' /\ ExtraBound'
      BY <2>1, <2>2 DEF DialInv, Phases, ExtraBound
    <2>7. /\ Cardinality((acceptors \cup pump)') = Cardinality(pump')
          /\ Cardinality(acceptors \cup pump) = Cardinality(pump)
      <3>1. (acceptors \cup pump)' = pump' /\ acceptors \cup pump = pump
        BY <2>1, <2>2
      <3> QED BY <3>1
    <2>8. DialBudget'
      BY <1>t, <2>1, <2>3, <2>7 DEF DialInv, DialBudget, Types
    <2> QED BY <2>4, <2>5, <2>6, <2>8 DEF DialInv
  <1>9. CASE ClientEnds
    <2> USE <1>9 DEF ClientEnds
    <2>1. Types'  BY <1>t DEF Types, targetVars
    <2>2. Phases' /\ ExtraBound' /\ LiveCount'
      BY DEF DialInv, Phases, ExtraBound, LiveCount
    <2>3. /\ IsFiniteSet(acceptors \cup pump) /\ pump \subseteq acceptors \cup pump
          /\ (acceptors \cup pump)' = pump
      BY <1>t, FS_Subset DEF Types
    <2>4. /\ Cardinality(pump) <= Cardinality(acceptors \cup pump)
          /\ Cardinality(pump) \in Nat
          /\ Cardinality(acceptors \cup pump) \in Nat
      BY <2>3, FS_Subset, FS_CardinalityType
    <2>5. need' <= need /\ need' \in Nat  BY <1>t DEF Types
    <2>6. DialBudget'
      BY <1>t, <2>3, <2>4, <2>5 DEF DialInv, DialBudget, Types
    <2> QED BY <2>1, <2>2, <2>6 DEF DialInv
  <1>10. CASE ClientTrips
    <2>1. Types'  BY <1>t, <1>10 DEF Types, targetVars, ClientTrips
    <2>2. Phases' /\ ExtraBound' /\ LiveCount' /\ DialBudget'
      BY <1>10 DEF DialInv, Phases, ExtraBound, LiveCount, DialBudget,
                   ClientTrips
    <2> QED BY <2>1, <2>2 DEF DialInv
  <1>11. CASE Grow
    <2>1. nudges' \in Nat  BY <1>t, <1>11 DEF Grow, Types
    <2>2. msgs' \in Seq(1 .. Ceiling) /\ target' \in 1 .. Ceiling
      <3>1. CASE target < Ceiling /\ changeAge # "fresh"
        <4>1. target + 1 \in 1 .. Ceiling  BY <1>t, <3>1 DEF Types
        <4> QED BY <1>t, <1>11, <3>1, <4>1, MoveTargetTypes DEF Grow
      <3>2. CASE ~(target < Ceiling /\ changeAge # "fresh")
        BY <1>t, <1>11, <3>2 DEF Grow, Types
      <3> QED BY <3>1, <3>2
    <2> QED BY <1>11, <2>1, <2>2, DialInvFrame DEF Grow
  <1>12. CASE Shrink
    <2>1. target - 1 \in 1 .. Ceiling  BY <1>t, <1>12 DEF Types, Shrink
    <2> QED BY <1>t, <1>12, <2>1, MoveTargetTypes, DialInvFrame DEF Shrink, Types
  <1>13. CASE \E t \in Tickets : Pick(t)
    <2>1. PICK t \in Tickets : Pick(t)  BY <1>13
    <2>2. nudges' \in Nat /\ UNCHANGED <<clientVars, msgs, target>>
      BY <1>t, <2>1 DEF Pick, Types
    <2> QED BY <1>t, <2>2, DialInvFrame DEF Types
  <1>14. CASE Join \/ Age \/ ServerEnds \/ MainDies
    <2>1. nudges' \in Nat /\ UNCHANGED <<clientVars, msgs, target>>
      BY <1>t, <1>14 DEF Join, Age, ServerEnds, MainDies, targetVars, Types
    <2> QED BY <1>t, <2>1, DialInvFrame DEF Types
  <1>15. ASSUME NEW c \in Conns,
                serve_carrier(c) \/ ServerSeesDown(c) \/ ConnDies(c)
         PROVE  DialInv'
    <2>1. UNCHANGED <<nudges, clientVars, msgs, target>>
      BY <1>15 DEF serve_carrier, ServerSeesDown, ConnDies, targetVars
    <2> QED BY <1>t, <2>1, DialInvFrame DEF Types
  <1>16. ASSUME NEW t \in Tickets, Classify(t) \/ Finish(t)
         PROVE  DialInv'
    <2>1. UNCHANGED <<nudges, clientVars, msgs, target>>
      BY <1>16 DEF Classify, Finish, targetVars
    <2> QED BY <1>t, <2>1, DialInvFrame DEF Types
  <1>17. CASE UNCHANGED vars
    <2>1. UNCHANGED <<nudges, clientVars, msgs, target>>
      BY <1>17 DEF vars, clientVars
    <2> QED BY <1>t, <2>1, DialInvFrame DEF Types
  <1> QED
    BY <1>1, <1>2, <1>3, <1>4, <1>5, <1>6, <1>7, <1>8, <1>9, <1>10, <1>11,
       <1>12, <1>13, <1>14, <1>15, <1>16, <1>17 DEF Next

-----------------------------------------------------------------------------
(* The target of an explicit pool does not move: the growth arm needs a    *)
(* nudge, which only an auto provider's picks send, and the quiet-period   *)
(* arm an earlier change.                                                  *)
LEMMA ExplicitInvNext == ExplicitInv /\ [Next]_vars => ExplicitInv'
  <1> SUFFICES ASSUME ExplicitInv, [Next]_vars, ~AutoCarriers
               PROVE  /\ target' = Effective /\ msgs' = <<>>
                      /\ changeAge' = "never" /\ nudges' = 0
    BY DEF ExplicitInv
  <1>0. /\ target = Effective /\ msgs = <<>>
        /\ changeAge = "never" /\ nudges = 0
    BY DEF ExplicitInv
  <1> DEFINE Same == UNCHANGED <<target, changeAge, nudges, msgs>>
  <1>1. ~Grow /\ ~Shrink /\ ~SetCarrierTarget
    BY <1>0 DEF Grow, Shrink, SetCarrierTarget
  <1>2. CASE DialInitial \/ Listen \/ RedialTick \/ Redial \/ RedialFails
    BY <1>0, <1>2 DEF DialInitial, Listen, RedialTick, Redial, RedialFails,
                      targetVars
  <1>3. CASE BatchDone \/ ClientEnds \/ ClientTrips \/ Join \/ MainDies
    BY <1>0, <1>3 DEF BatchDone, ClientEnds, ClientTrips, Join, MainDies,
                      targetVars
  <1>4. CASE Age \/ ServerEnds
    BY <1>0, <1>4 DEF Age, ServerEnds
  <1>5. ASSUME NEW c \in Conns,
               \/ ClientSeesDown(c) \/ PumpRefuses(c) \/ serve_carrier(c)
               \/ ServerSeesDown(c) \/ ConnDies(c)
        PROVE  Same
    BY <1>5 DEF ClientSeesDown, PumpRefuses, serve_carrier, ServerSeesDown,
                ConnDies, targetVars
  <1>6. ASSUME NEW t \in Tickets, Pick(t) \/ Classify(t) \/ Finish(t)
        PROVE  Same
    <2>1. CASE Pick(t)
      <3>1. UNCHANGED <<target, changeAge, msgs>>  BY <2>1 DEF Pick
      <3>2. UNCHANGED nudges  BY <2>1 DEF Pick
      <3> QED BY <3>1, <3>2
    <2>2. CASE Classify(t) \/ Finish(t)
      BY <2>2 DEF Classify, Finish, targetVars
    <2> QED BY <1>6, <2>1, <2>2
  <1>7. CASE UNCHANGED vars
    BY <1>0, <1>7 DEF vars
  <1> QED
    BY <1>0, <1>1, <1>2, <1>3, <1>4, <1>5, <1>6, <1>7 DEF Next

(* Nothing moves the target of an explicitly configured pool, and the      *)
(* client is never sent another one.                                       *)
THEOREM ExplicitPoolFixed == Spec => []ExplicitTargetFixed
  <1>1. Init => ExplicitInv  BY DEF Init, ExplicitInv
  <1>2. ExplicitInv => ExplicitTargetFixed
    BY DEF ExplicitInv, ExplicitTargetFixed
  <1> QED BY <1>1, <1>2, ExplicitInvNext, PTL DEF Spec

(* carrier_live counts the running pumps, and the dials the client makes   *)
(* never take it past the ceiling.                                         *)
THEOREM CarrierAccounting == Spec => [](LiveCount /\ DialBudget)
  <1>1. DialInv => LiveCount /\ DialBudget  BY DEF DialInv
  <1> QED BY <1>1, DialInvInit, DialInvNext, PTL DEF Spec

-----------------------------------------------------------------------------
(* BulkTicket, for every number of connections, directions and every       *)
(* threshold, and CarrierToken, for every number of tunnels and of         *)
(* connections that join them: the parts of a pool that CarrierPool        *)
(* leaves out.                                                             *)

(* At most one call of a ticket has won the exchange, and the ticket is    *)
(* then classified.                                                        *)
OneWinner ==
    \A t \in Pinned, h \in Halves : call[t][h] = "count" =>
        /\ t \in classified
        /\ \A g \in Halves : call[t][g] = "count" => g = h

(* A dropped ticket has no call left.                                      *)
DroppedIdle == \A t \in dropped, h \in Halves : call[t][h] = "gone"

(* A call past the comparison, and a classified ticket, have the bytes.    *)
BytesMoved ==
    /\ \A t \in Pinned, h \in Halves :
          call[t][h] = "cas" => bytes[t] >= Threshold
    /\ \A t \in classified : bytes[t] >= Threshold

(* A classified ticket has been reported, or is about to be, once.         *)
Reported ==
    \A t \in Pinned :
        crossings[t] = IF t \in classified /\ t \notin Counting THEN 1 ELSE 0

BulkInv ==
    /\ TicketTypeOK /\ OneWinner /\ DroppedIdle
    /\ BytesMoved /\ Reported /\ OccupancyExact

-----------------------------------------------------------------------------
(* Sizes of sets of tickets.                                               *)
LEMMA TicketSets ==
    ASSUME NEW S, S \subseteq Pinned
    PROVE  /\ IsFiniteSet(S) /\ Cardinality(S) \in Nat
           /\ \A t \in Pinned \ S : Cardinality(S \cup {t}) = Cardinality(S) + 1
           /\ \A t \in S : Cardinality(S \ {t}) = Cardinality(S) - 1
  <1>1. IsFiniteSet(S)  BY BulkAssumption, FS_Subset
  <1> QED BY <1>1, FS_CardinalityType, FS_AddElement, FS_RemoveElement

LEMMA BulkInvInit == TicketInit => BulkInv
  <1> SUFFICES ASSUME TicketInit PROVE BulkInv  OBVIOUS
  <1>1. TicketTypeOK  BY DEF TicketInit, TicketTypeOK
  <1>2. Counting = {} /\ classified \ dropped = {}
    BY DEF TicketInit, Counting
  <1>3. OneWinner /\ DroppedIdle /\ BytesMoved
    BY BulkAssumption DEF TicketInit, OneWinner, DroppedIdle, BytesMoved
  <1>4. Reported  BY <1>2 DEF TicketInit, Reported
  <1>5. OccupancyExact
    BY <1>2, FS_EmptySet DEF TicketInit, OccupancyExact
  <1> QED BY <1>1, <1>3, <1>4, <1>5 DEF BulkInv

(* Every step keeps the invariant.                                         *)
LEMMA BulkInvNext == BulkInv /\ [TicketNext]_bulkVars => BulkInv'
  <1> SUFFICES ASSUME BulkInv, [TicketNext]_bulkVars PROVE BulkInv'  OBVIOUS
  <1> USE BulkAssumption
  <1>t. TicketTypeOK  BY DEF BulkInv
  <1>c. Counting \subseteq classified \ dropped
    BY DEF BulkInv, OneWinner, DroppedIdle, Counting
  <1>1. ASSUME NEW t \in Pinned, NEW h \in Halves,
               record(t, h) \/ AddBytes(t, h) \/ HalfEnds(t, h)
        PROVE  BulkInv'
    <2>1. /\ UNCHANGED <<classified, crossings, dropped, carrierBulk>>
          /\ call[t][h] \in {"idle", "add"} /\ t \notin dropped
      BY <1>1 DEF record, AddBytes, HalfEnds, BulkInv, DroppedIdle
    <2>2. PICK v \in {"idle", "add", "cas", "gone"} :
             call' = [call EXCEPT ![t][h] = v]
      BY <1>1 DEF record, AddBytes, HalfEnds
    <2>3. bytes' \in [Pinned -> Nat] /\ \A u \in Pinned : bytes'[u] >= bytes[u]
      BY <1>1, <1>t DEF record, AddBytes, HalfEnds, TicketTypeOK
    <2>v. call'[t][h] = v  BY <1>t, <2>2 DEF TicketTypeOK
    <2>4. v = "cas" => bytes'[t] >= Threshold
      <3>1. CASE record(t, h)
        BY <1>t, <2>v, <3>1 DEF record, TicketTypeOK
      <3>2. CASE HalfEnds(t, h)
        BY <1>t, <2>v, <3>2 DEF HalfEnds, TicketTypeOK
      <3>3. CASE AddBytes(t, h)
        <4>1. PICK n \in 1 .. MaxBytes :
                 /\ bytes' = [bytes EXCEPT ![t] = @ + n]
                 /\ call' = [call EXCEPT ![t][h] =
                       IF bytes[t] + n < Threshold THEN "idle" ELSE "cas"]
          BY <3>3 DEF AddBytes
        <4>2. /\ bytes'[t] = bytes[t] + n /\ bytes[t] \in Nat /\ n \in Nat
              /\ Threshold \in Nat
          BY <1>t, <4>1 DEF TicketTypeOK
        <4>3. call'[t][h] = IF bytes[t] + n < Threshold THEN "idle" ELSE "cas"
          BY <1>t, <4>1 DEF TicketTypeOK
        <4>4. v = "cas" => ~(bytes[t] + n < Threshold)  BY <2>v, <4>3
        <4> QED BY <4>2, <4>4
      <3> QED BY <1>1, <3>1, <3>2, <3>3
    <2>5. TicketTypeOK'  BY <1>t, <2>1, <2>2, <2>3 DEF TicketTypeOK
    <2>6. Counting' = Counting
      BY <1>t, <2>1, <2>2 DEF Counting, TicketTypeOK
    <2>7. OneWinner' /\ DroppedIdle'
      BY <1>t, <2>1, <2>2 DEF BulkInv, OneWinner, DroppedIdle, TicketTypeOK
    <2>8. BytesMoved'
      <3>1. ASSUME NEW u \in Pinned, NEW g \in Halves, call'[u][g] = "cas"
            PROVE  bytes'[u] >= Threshold
        <4>1. CASE u = t /\ g = h  BY <2>v, <2>4, <3>1, <4>1
        <4>2. CASE ~(u = t /\ g = h)
          <5>1. call[u][g] = "cas"
            BY <1>t, <2>2, <3>1, <4>2 DEF TicketTypeOK
          <5>2. bytes[u] >= Threshold  BY <5>1 DEF BulkInv, BytesMoved
          <5> QED BY <1>t, <2>3, <5>2 DEF TicketTypeOK
        <4> QED BY <4>1, <4>2
      <3>2. ASSUME NEW u \in classified' PROVE bytes'[u] >= Threshold
        <4>1. u \in Pinned /\ bytes[u] >= Threshold
          BY <1>t, <2>1, <3>2 DEF BulkInv, BytesMoved, TicketTypeOK
        <4> QED BY <1>t, <2>3, <4>1 DEF TicketTypeOK
      <3> QED BY <3>1, <3>2 DEF BytesMoved
    <2>9. Reported' /\ OccupancyExact'
      BY <2>1, <2>6 DEF BulkInv, Reported, OccupancyExact
    <2> QED BY <2>5, <2>7, <2>8, <2>9 DEF BulkInv
  <1>2. ASSUME NEW t \in Pinned, NEW h \in Halves, CompareExchange(t, h)
        PROVE  BulkInv'
    <2> USE <1>2 DEF CompareExchange
    <2>1. t \notin dropped /\ (t \notin Counting \/ t \in classified)
      BY <1>c DEF BulkInv, DroppedIdle
    <2>2. TicketTypeOK'  BY <1>t DEF TicketTypeOK
    <2>3. DroppedIdle'
      BY <1>t DEF BulkInv, DroppedIdle, TicketTypeOK
    <2>4. BytesMoved'
      BY <1>t DEF BulkInv, BytesMoved, TicketTypeOK
    <2>5. OneWinner'
      BY <1>t DEF BulkInv, OneWinner, TicketTypeOK
    <2>6. CASE t \in classified
      <3>1. classified' = classified  BY <2>6
      <3>2. Counting' = Counting
        BY <1>t, <2>6 DEF Counting, TicketTypeOK
      <3>3. Reported' /\ OccupancyExact'
        BY <3>1, <3>2 DEF BulkInv, Reported, OccupancyExact
      <3> QED BY <2>2, <2>3, <2>4, <2>5, <3>3 DEF BulkInv
    <2>7. CASE t \notin classified
      <3>1. Counting' = Counting \cup {t} /\ t \notin Counting
        BY <1>t, <1>c, <2>7 DEF Counting, TicketTypeOK
      <3>2. /\ classified' \ dropped' = (classified \ dropped) \cup {t}
            /\ t \notin classified \ dropped
        BY <2>7, <1>c DEF BulkInv, DroppedIdle
      <3>3. Reported'
        BY <1>t, <2>7, <3>1 DEF BulkInv, Reported, TicketTypeOK
      <3>4. /\ Cardinality(Counting) \in Nat
            /\ Cardinality(Counting') = Cardinality(Counting) + 1
        BY <3>1, TicketSets DEF Counting
      <3>5. /\ Cardinality(classified \ dropped) \in Nat
            /\ Cardinality((classified \ dropped)')
                  = Cardinality(classified \ dropped) + 1
        BY <1>t, <3>2, TicketSets DEF TicketTypeOK
      <3>6. OccupancyExact'
        BY <1>t, <3>4, <3>5 DEF BulkInv, OccupancyExact, TicketTypeOK
      <3> QED BY <2>2, <2>3, <2>4, <2>5, <3>3, <3>6 DEF BulkInv
    <2> QED BY <2>6, <2>7
  <1>3. ASSUME NEW t \in Pinned, NEW h \in Halves, Count(t, h)
        PROVE  BulkInv'
    <2> USE <1>3 DEF Count
    <2>1. TicketTypeOK'  BY <1>t DEF TicketTypeOK
    <2>2. OneWinner' /\ DroppedIdle'
      BY <1>t DEF BulkInv, OneWinner, DroppedIdle, TicketTypeOK
    <2>3. BytesMoved'
      BY <1>t DEF BulkInv, BytesMoved, TicketTypeOK
    <2>4. t \in Counting /\ t \in classified /\ Counting' = Counting \ {t}
      BY <1>t DEF BulkInv, OneWinner, Counting, TicketTypeOK
    <2>5. Reported'
      BY <1>t, <2>4 DEF BulkInv, Reported, TicketTypeOK
    <2>6. /\ Cardinality(Counting) \in Nat
          /\ Cardinality(Counting') = Cardinality(Counting) - 1
      BY <2>4, TicketSets DEF Counting
    <2>7. OccupancyExact'
      BY <1>t, <2>6 DEF BulkInv, OccupancyExact, TicketTypeOK
    <2> QED BY <2>1, <2>2, <2>3, <2>5, <2>7 DEF BulkInv
  <1>4. ASSUME NEW t \in Pinned, Drop(t)
        PROVE  BulkInv'
    <2> USE <1>4 DEF Drop
    <2>1. Counting' = Counting /\ t \notin Counting
      BY <1>t DEF Counting, TicketTypeOK
    <2>2. OneWinner' /\ DroppedIdle' /\ BytesMoved' /\ Reported'
      BY <2>1 DEF BulkInv, OneWinner, DroppedIdle, BytesMoved, Reported
    <2>3. CASE t \notin classified
      <3>1. classified' \ dropped' = classified \ dropped  BY <2>3
      <3>2. TicketTypeOK'  BY <1>t, <2>3 DEF TicketTypeOK
      <3>3. OccupancyExact'
        BY <2>1, <2>3, <3>1 DEF BulkInv, OccupancyExact
      <3> QED BY <2>2, <3>2, <3>3 DEF BulkInv
    <2>4. CASE t \in classified
      <3> DEFINE R == (classified \ dropped) \ {t}
      <3>1. (classified \ dropped)' = R /\ t \in classified \ dropped
        BY <2>4
      <3>2. /\ Cardinality(R) = Cardinality(classified \ dropped) - 1
            /\ Cardinality(classified \ dropped) \in Nat
        BY <1>t, <3>1, TicketSets DEF TicketTypeOK
      <3>3. IsFiniteSet(R) /\ Cardinality(R) \in Nat
        BY <1>t, TicketSets DEF TicketTypeOK
      <3>4. /\ Cardinality(Counting) <= Cardinality(R)
            /\ Cardinality(Counting) \in Nat
        BY <1>c, <2>1, <3>3, FS_Subset, FS_CardinalityType
      <3>5. carrierBulk - 1 \in Nat
        BY <1>t, <3>2, <3>4 DEF BulkInv, OccupancyExact, TicketTypeOK
      <3>6. TicketTypeOK'  BY <1>t, <2>4, <3>5 DEF TicketTypeOK
      <3>7. /\ Cardinality((classified \ dropped)') = Cardinality(R)
            /\ Cardinality(Counting') = Cardinality(Counting)
        BY <2>1, <3>1
      <3>8. OccupancyExact'
        BY <1>t, <2>4, <3>2, <3>4, <3>7
        DEF BulkInv, OccupancyExact, TicketTypeOK
      <3> QED BY <2>2, <3>6, <3>8 DEF BulkInv
    <2> QED BY <2>3, <2>4
  <1>5. CASE UNCHANGED bulkVars
    <2>1. Counting' = Counting  BY <1>5 DEF bulkVars, Counting
    <2>2. TicketTypeOK' /\ OneWinner' /\ DroppedIdle' /\ BytesMoved'
      BY <1>5 DEF bulkVars, BulkInv, TicketTypeOK, OneWinner, DroppedIdle, BytesMoved
    <2>3. Reported' /\ OccupancyExact'
      BY <1>5, <2>1 DEF bulkVars, BulkInv, Reported, OccupancyExact
    <2> QED BY <2>2, <2>3 DEF BulkInv
  <1> QED BY <1>1, <1>2, <1>3, <1>4, <1>5 DEF TicketNext

(* The bulk occupancy of a carrier is exact whatever the interleaving of   *)
(* the directions of its connections.                                      *)
THEOREM Occupancy == TicketSpec => []OccupancyExact
  <1>1. BulkInv => OccupancyExact  BY DEF BulkInv
  <1> QED BY <1>1, BulkInvInit, BulkInvNext, PTL DEF TicketSpec

(* A connection is reported as bulk at most once, with the bytes moved.    *)
THEOREM CrossingOnce == TicketSpec => []CrossesOnce
  <1>1. BulkInv => CrossesOnce
    BY DEF BulkInv, CrossesOnce, Reported, BytesMoved
  <1> QED BY <1>1, BulkInvInit, BulkInvNext, PTL DEF TicketSpec

-----------------------------------------------------------------------------
(* CarrierToken.                                                           *)

SetupSteps == {"new", "offering", "sent", "serving", "failed", "ended"}
JoinSteps == {"none", "sent", "found", "refused", "holding"}

TokenTypes ==
    /\ step \in [Tunnels -> SetupSteps] /\ join \in [Joiners -> JoinSteps]
    /\ DOMAIN token = Joiners /\ queued \subseteq Joiners
    /\ tokens \subseteq Tunnels /\ told \subseteq Tunnels
    /\ \A j \in Joiners :
          join[j] \in {"sent", "found", "holding"} => token[j] \in Tunnels

(* A token in the map has a guard that will remove it, or belongs to a     *)
(* vhost or secret setup that has not returned from its send.              *)
TokensOwned ==
    \A t \in tokens : \/ t \in guarded
                      \/ t \notin GuardFirst /\ step[t] \notin {"serving", "ended"}

(* A guard has a tunnel under way.                                         *)
GuardsServe == \A t \in guarded : step[t] \notin Over

(* A carrier in a channel has a task that holds it and a tunnel that may   *)
(* take it.                                                                *)
QueuedHeld == \A j \in queued : join[j] = "holding" /\ step[token[j]] \notin Over

TokenInv == TokenTypes /\ TokensOwned /\ GuardsServe /\ QueuedHeld

LEMMA TokenInvInit == TokenInit => TokenInv
  BY DEF TokenInit, TokenInv, TokenTypes, TokensOwned, GuardsServe, QueuedHeld,
         SetupSteps, JoinSteps, Over

LEMMA TokenInvNext == TokenInv /\ TokenNext => TokenInv'
  <1> SUFFICES ASSUME TokenInv, TokenNext PROVE TokenInv'  OBVIOUS
  <1>0. TokenTypes /\ TokensOwned /\ GuardsServe /\ QueuedHeld  BY DEF TokenInv
  <1> USE DEF TokenTypes, SetupSteps, JoinSteps, joinVars, Over
  <1>1. ASSUME NEW t \in Tunnels, OfferToken(t) PROVE TokenInv'
    <2>1. TokenTypes'  BY <1>0, <1>1 DEF OfferToken
    <2>2. TokensOwned'  BY <1>0, <1>1 DEF OfferToken, TokensOwned
    <2>3. GuardsServe'  BY <1>0, <1>1 DEF OfferToken, GuardsServe
    <2>4. QueuedHeld'  BY <1>0, <1>1 DEF OfferToken, QueuedHeld
    <2> QED BY <2>1, <2>2, <2>3, <2>4 DEF TokenInv
  <1>2. ASSUME NEW t \in Tunnels, TokenArrives(t) PROVE TokenInv'
    <2>1. TokenTypes'  BY <1>0, <1>2 DEF TokenArrives
    <2>2. TokensOwned'  BY <1>0, <1>2 DEF TokenArrives, TokensOwned
    <2>3. GuardsServe'  BY <1>0, <1>2 DEF TokenArrives, GuardsServe
    <2>4. QueuedHeld'  BY <1>0, <1>2 DEF TokenArrives, QueuedHeld
    <2> QED BY <2>1, <2>2, <2>3, <2>4 DEF TokenInv
  <1>3. ASSUME NEW t \in Tunnels, SendReturns(t) PROVE TokenInv'
    <2>1. TokenTypes'  BY <1>0, <1>3 DEF SendReturns
    <2>2. TokensOwned'  BY <1>0, <1>3 DEF SendReturns, TokensOwned
    <2>3. GuardsServe'  BY <1>0, <1>3 DEF SendReturns, GuardsServe
    <2>4. QueuedHeld'  BY <1>0, <1>3 DEF SendReturns, QueuedHeld
    <2> QED BY <2>1, <2>2, <2>3, <2>4 DEF TokenInv
  <1>4. ASSUME NEW t \in Tunnels, SendFails(t) \/ End(t) PROVE TokenInv'
    <2>0. PICK how \in Over : /\ DropTunnel(t, how)
                              /\ how = "ended" => step[t] = "serving"
      BY <1>4 DEF SendFails, End
    <2>1. TokenTypes'  BY <1>0, <2>0 DEF DropTunnel
    <2>2. TokensOwned'  BY <1>0, <2>0 DEF DropTunnel, TokensOwned
    <2>3. GuardsServe'  BY <1>0, <2>0 DEF DropTunnel, GuardsServe
    <2>4. QueuedHeld'  BY <1>0, <2>0 DEF DropTunnel, QueuedHeld
    <2> QED BY <2>1, <2>2, <2>3, <2>4 DEF TokenInv
  <1>5. ASSUME NEW j \in Joiners, NEW t \in Tunnels, JoinCarrier(j, t) PROVE TokenInv'
    <2>1. TokenTypes'  BY <1>0, <1>5 DEF JoinCarrier
    <2>2. TokensOwned'  BY <1>0, <1>5 DEF JoinCarrier, TokensOwned
    <2>3. GuardsServe'  BY <1>0, <1>5 DEF JoinCarrier, GuardsServe
    <2>4. QueuedHeld'  BY <1>0, <1>5 DEF JoinCarrier, QueuedHeld
    <2> QED BY <2>1, <2>2, <2>3, <2>4 DEF TokenInv
  <1>6. ASSUME NEW j \in Joiners, LookUpToken(j) PROVE TokenInv'
    <2>1. TokenTypes'  BY <1>0, <1>6 DEF LookUpToken
    <2>2. TokensOwned'  BY <1>0, <1>6 DEF LookUpToken, TokensOwned
    <2>3. GuardsServe'  BY <1>0, <1>6 DEF LookUpToken, GuardsServe
    <2>4. QueuedHeld'  BY <1>0, <1>6 DEF LookUpToken, QueuedHeld
    <2> QED BY <2>1, <2>2, <2>3, <2>4 DEF TokenInv
  <1>7. ASSUME NEW j \in Joiners, HandOver(j) PROVE TokenInv'
    <2>1. TokenTypes'  BY <1>0, <1>7 DEF HandOver
    <2>2. TokensOwned'  BY <1>0, <1>7 DEF HandOver, TokensOwned
    <2>3. GuardsServe'  BY <1>0, <1>7 DEF HandOver, GuardsServe
    <2>4. QueuedHeld'  BY <1>0, <1>7 DEF HandOver, QueuedHeld
    <2> QED BY <2>1, <2>2, <2>3, <2>4 DEF TokenInv
  <1>8. ASSUME NEW j \in Joiners, Leave(j) PROVE TokenInv'
    <2>1. TokenTypes'  BY <1>0, <1>8 DEF Leave
    <2>2. TokensOwned'  BY <1>0, <1>8 DEF Leave, TokensOwned
    <2>3. GuardsServe'  BY <1>0, <1>8 DEF Leave, GuardsServe
    <2>4. QueuedHeld'  BY <1>0, <1>8 DEF Leave, QueuedHeld
    <2> QED BY <2>1, <2>2, <2>3, <2>4 DEF TokenInv
  <1> QED BY <1>1, <1>2, <1>3, <1>4, <1>5, <1>6, <1>7, <1>8 DEF TokenNext

(* pool.rs, TokenGuard and serve_carrier, for every mixture of setups:     *)
(* whatever step of the setup fails, and whenever connections present the  *)
(* token, only a vhost or secret setup whose send failed leaves its token  *)
(* behind, and no carrier waits at a tunnel that has ended.                *)
THEOREM NoOrphan == TokenSpec => []OrphanOnlyByFailedSend
  <1>1. TokenInv /\ UNCHANGED tokenVars => TokenInv'
    BY DEF TokenInv, TokenTypes, TokensOwned, GuardsServe, QueuedHeld, tokenVars
  <1>2. TokenInv /\ [TokenNext]_tokenVars => TokenInv'  BY <1>1, TokenInvNext
  <1>3. TokenInv => OrphanOnlyByFailedSend
    BY DEF TokenInv, TokenTypes, TokensOwned, GuardsServe, QueuedHeld,
           OrphanOnlyByFailedSend, Over
  <1> QED BY <1>2, <1>3, TokenInvInit, PTL DEF TokenSpec
=============================================================================
