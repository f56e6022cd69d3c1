------------------------------ MODULE BulkTicket -------------------------------
(***************************************************************************)
(* BulkTicket of src/src/pool.rs: the two directions of each proxied       *)
(* connection record bytes on a shared ticket; the first to cross the      *)
(* threshold counts the connection on its carrier, once; dropping the      *)
(* ticket takes it off again.  `record' is split at each atomic operation, *)
(* so that the halves of one ticket and the tickets of one carrier         *)
(* interleave.  All tickets are pinned to one carrier.                     *)
(***************************************************************************)
EXTENDS Integers, FiniteSets

CONSTANTS
    Pinned,     \* proxied connections on the carrier
    Halves,      \* the directions that hold a ticket
    Threshold,   \* BULK_CLASSIFY_BYTES
    MaxBytes     \* the largest number of bytes one call records

ASSUME BulkAssumption ==
    /\ IsFiniteSet(Pinned) /\ IsFiniteSet(Halves)
    /\ Threshold \in Nat \ {0} /\ MaxBytes \in Nat

VARIABLES
    bytes,       \* BulkTicket.bytes
    classified,  \* BulkTicket.classified, as the set of classified tickets
    call,        \* per ticket and half, where its record() call is
    crossings,   \* record() calls that returned true, per ticket (history)
    dropped,     \* tickets whose last Arc is gone
    carrierBulk  \* Carrier.bulk

bulkVars == <<bytes, classified, call, crossings, dropped, carrierBulk>>

TicketTypeOK ==
    /\ bytes \in [Pinned -> Nat] /\ classified \subseteq Pinned
    /\ call \in [Pinned -> [Halves ->
                    {"idle", "add", "cas", "count", "gone"}]]
    /\ crossings \in [Pinned -> Nat]
    /\ dropped \subseteq Pinned
    /\ carrierBulk \in Nat

TicketInit ==
    /\ bytes = [t \in Pinned |-> 0] /\ classified = {}
    /\ call = [t \in Pinned |-> [h \in Halves |-> "idle"]]
    /\ crossings = [t \in Pinned |-> 0]
    /\ dropped = {} /\ carrierBulk = 0

(* record(n) with n > 0 reads `classified' and goes on when it is clear.   *)
record(t, h) ==
    /\ call[t][h] = "idle" /\ t \notin classified
    /\ call' = [call EXCEPT ![t][h] = "add"]
    /\ UNCHANGED <<bytes, classified, crossings, dropped, carrierBulk>>

(* fetch_add, and the comparison with the threshold.                       *)
AddBytes(t, h) ==
    /\ call[t][h] = "add"
    /\ \E n \in 1 .. MaxBytes :
          /\ bytes' = [bytes EXCEPT ![t] = @ + n]
          /\ call' = [call EXCEPT ![t][h] =
                       IF bytes[t] + n < Threshold THEN "idle" ELSE "cas"]
    /\ UNCHANGED <<classified, crossings, dropped, carrierBulk>>

CompareExchangeBlind(t, h) ==
    /\ call[t][h] = "cas"
    /\ classified' = classified \cup {t}
    /\ call' = [call EXCEPT ![t][h] = "count"]
    /\ UNCHANGED <<bytes, crossings, dropped, carrierBulk>>

(* compare_exchange(false, true): only one half wins.                      *)
CompareExchange(t, h) ==
    /\ call[t][h] = "cas"
    /\ classified' = classified \cup {t}
    /\ call' = [call EXCEPT ![t][h] = IF t \in classified THEN "idle" ELSE "count"]
    /\ UNCHANGED <<bytes, crossings, dropped, carrierBulk>>

(* bulk.fetch_add(1); record returns true.                                 *)
Count(t, h) ==
    /\ call[t][h] = "count"
    /\ carrierBulk' = carrierBulk + 1
    /\ crossings' = [crossings EXCEPT ![t] = @ + 1]
    /\ call' = [call EXCEPT ![t][h] = "idle"]
    /\ UNCHANGED <<bytes, classified, dropped>>

(* A direction ends between two calls and drops its Arc.                   *)
HalfEnds(t, h) ==
    /\ call[t][h] = "idle"
    /\ call' = [call EXCEPT ![t][h] = "gone"]
    /\ UNCHANGED <<bytes, classified, crossings, dropped, carrierBulk>>

(* Drop, when the last Arc goes.                                           *)
Drop(t) ==
    /\ t \notin dropped /\ \A h \in Halves : call[t][h] = "gone"
    /\ dropped' = dropped \cup {t}
    /\ carrierBulk' = IF t \in classified THEN carrierBulk - 1 ELSE carrierBulk
    /\ UNCHANGED <<bytes, classified, call, crossings>>

TicketNext ==
    \/ \E t \in Pinned, h \in Halves :
          \/ record(t, h) \/ AddBytes(t, h) \/ CompareExchange(t, h)
          \/ Count(t, h) \/ HalfEnds(t, h)
    \/ \E t \in Pinned : Drop(t)

TicketSpec == TicketInit /\ [][TicketNext]_bulkVars

(* Tickets with a call between its compare_exchange and its fetch_add.     *)
Counting == {t \in Pinned : \E h \in Halves : call[t][h] = "count"}

(* The carrier's counter is the number of live bulk connections, less the  *)
(* calls that have won the exchange and not counted yet: no connection is  *)
(* counted twice, none stays counted once its ticket is dropped, and       *)
(* fetch_sub never goes below zero.                                        *)
OccupancyExact ==
    carrierBulk + Cardinality(Counting) = Cardinality(classified \ dropped)

(* A connection crosses into bulk once, and only when both directions      *)
(* together have moved the threshold.                                      *)
CrossesOnce ==
    \A t \in Pinned :
        /\ crossings[t] <= 1
        /\ crossings[t] = 1 => t \in classified /\ bytes[t] >= Threshold
=============================================================================
