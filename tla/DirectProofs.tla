------------------------------ MODULE DirectProofs -----------------------------
(* Theorems about the two sides of the direct path, which share no state:  *)
(* DirectPath, for every number of registrations, nonces and connections,  *)
(* every pool size and every budget, and DirectClient, for every target    *)
(* and every bound.                                                        *)
EXTENDS DirectPath, DirectClient, FiniteSetTheorems, TLAPS

(* Types of the variables the argument is about.                           *)
Types ==
    /\ registry \in Regs \cup {0}
    /\ phase \in [Regs -> Phases]
    /\ pending \in Nonces \cup {0} /\ issued \in 0 .. MaxOffers
    /\ owner \in [Nonces -> Regs \cup {0}]
    /\ ids \in [Regs -> Nat]
    /\ task \in [Conns -> TaskStates]
    /\ nonce \in [Conns -> Nonces \cup {0}]
    /\ entry \in [Conns -> Regs \cup {0}]
    /\ cid \in [Conns -> Nat]
    /\ open \subseteq Conns /\ permits \subseteq Conns

(* A task that looked its registration up has one; for SSH jump it is the  *)
(* one that issued the nonce.                                              *)
LookedUp ==
    \A c \in Conns : task[c] \in {"got", "installed"} =>
        /\ entry[c] \in Regs
        /\ OwnerCheck => owner[nonce[c]] = entry[c]

(* Members of a pool are identified by their ids, the counter is ahead of  *)
(* them, and the connection of a member is past its install.               *)
Members ==
    /\ pool \in [Regs -> SUBSET (Nat \X Conns)]
    /\ \A r \in Regs : \A m \in pool[r] :
          /\ m[1] < ids[r]
          /\ task[m[2]] \in {"installed", "done"}
    /\ \A r \in Regs : \A m, n \in pool[r] : m[1] = n[1] => m = n

(* The monitor of a connection holds an id that in its pool can only be    *)
(* its own.                                                                *)
MonitorIds ==
    \A c \in Conns : task[c] = "installed" =>
        /\ cid[c] < ids[entry[c]]
        /\ \A m \in pool[entry[c]] : m[1] = cid[c] => m[2] = c

(* A nonce in use has been issued, one that has not has no owner, and no   *)
(* registration owns one before it starts.                                 *)
Issued ==
    /\ \A c \in Conns : task[c] # "free" => nonce[c] \in 1 .. issued
    /\ \A n \in Nonces : n > issued => owner[n] = 0
    /\ \A n \in Nonces : owner[n] # 0 => phase[owner[n]] # "unborn"

(* The inductive invariant.                                                *)
DirectInv ==
    Types /\ KeyExclusive /\ LookedUp /\ Members /\ MonitorIds /\ Issued
    /\ BudgetHeld /\ (OwnerCheck => NonceKept /\ CarrierOfOwner)

-----------------------------------------------------------------------------
LEMMA PermitSets ==
    ASSUME NEW S, S \subseteq Conns, NEW c \in Conns
    PROVE  /\ Cardinality(S) \in Nat
           /\ Cardinality(S \ {c}) <= Cardinality(S)
           /\ Cardinality(S \ {c}) \in Nat
           /\ Cardinality(S \cup {c}) <= Cardinality(S) + 1
           /\ Cardinality(S \cup {c}) \in Nat
  <1>1. IsFiniteSet(S)  BY DirectAssumption, FS_Subset
  <1>2. Cardinality(S) \in Nat  BY <1>1, FS_CardinalityType
  <1>3. Cardinality(S \ {c}) =
          IF c \in S THEN Cardinality(S) - 1 ELSE Cardinality(S)
    BY <1>1, FS_RemoveElement
  <1>4. Cardinality(S \ {c}) \in Nat
    BY <1>1, FS_RemoveElement, FS_CardinalityType
  <1>5. Cardinality(S \cup {c}) =
          IF c \in S THEN Cardinality(S) ELSE Cardinality(S) + 1
    BY <1>1, FS_AddElement
  <1> QED BY <1>2, <1>3, <1>4, <1>5

LEMMA DirectInvInit == Init => DirectInv
  <1> SUFFICES ASSUME Init PROVE DirectInv  OBVIOUS
  <1> USE DirectAssumption DEF Init, Regs, Nonces
  <1>1. Types  BY DEF Types, Phases, TaskStates
  <1>2. KeyExclusive  BY DEF KeyExclusive
  <1>3. LookedUp /\ MonitorIds  BY DEF LookedUp, MonitorIds
  <1>4. Members  BY DEF Members
  <1>5. Issued  BY DEF Issued
  <1>6. BudgetHeld  BY FS_EmptySet DEF BudgetHeld
  <1>7. NonceKept /\ CarrierOfOwner
    BY DEF NonceKept, CarrierOfOwner, Pooled
  <1> QED BY <1>1, <1>2, <1>3, <1>4, <1>5, <1>6, <1>7 DEF DirectInv

(* Every step keeps the invariant.                                         *)
LEMMA DirectInvNext == DirectInv /\ [Next]_vars => DirectInv'
  <1> SUFFICES ASSUME DirectInv, [Next]_vars PROVE DirectInv'  OBVIOUS
  <1> USE DirectAssumption DEF DirectInv
  <1>m. \A r \in Regs : \A m \in pool[r] :
          /\ m[1] \in Nat /\ m[2] \in Conns /\ m[1] < ids[r]
          /\ task[m[2]] \in {"installed", "done"} /\ m = <<m[1], m[2]>>
    BY DEF Members
  <1>1. ASSUME NEW r \in Regs, Register(r)
       PROVE  DirectInv'
    <2> USE <1>1 DEF Register, regVars, poolVars, connVars, Regs, Nonces, Refuse
    <2>1. Types'
      BY DEF Types, Phases, TaskStates
    <2>2. KeyExclusive'
      BY DEF KeyExclusive, Types, Phases
    <2>3. LookedUp'
      BY DEF LookedUp, Types, Issued
    <2>4. Members'
      BY <1>m DEF Members, Types
    <2>5. MonitorIds'
      BY <1>m DEF MonitorIds, Types, LookedUp, Members
    <2>6. Issued'
      BY DEF Issued, Types, KeyExclusive
    <2>7. BudgetHeld'
      BY PermitSets DEF BudgetHeld, Types
    <2>8. OwnerCheck => NonceKept'
      BY DEF NonceKept, KeyExclusive, Types, Issued
    <2>9. OwnerCheck => CarrierOfOwner'
      BY <1>m DEF CarrierOfOwner, Pooled, Types, Members, Issued, LookedUp
    <2> QED BY <2>1, <2>2, <2>3, <2>4, <2>5, <2>6, <2>7, <2>8, <2>9
  <1>2. ASSUME NEW r \in Regs, Offer(r)
       PROVE  DirectInv'
    <2> USE <1>2 DEF Offer, regVars, poolVars, connVars, Regs, Nonces, Refuse
    <2>1. Types'
      BY DEF Types, Phases, TaskStates
    <2>2. KeyExclusive'
      BY DEF KeyExclusive, Types, Phases
    <2>3. LookedUp'
      BY DEF LookedUp, Types, Issued
    <2>4. Members'
      BY <1>m DEF Members, Types
    <2>5. MonitorIds'
      BY <1>m DEF MonitorIds, Types, LookedUp, Members
    <2>6. Issued'
      BY DEF Issued, Types, KeyExclusive
    <2>7. BudgetHeld'
      BY PermitSets DEF BudgetHeld, Types
    <2>8. OwnerCheck => NonceKept'
      BY DEF NonceKept, KeyExclusive, Types, Issued
    <2>9. OwnerCheck => CarrierOfOwner'
      BY <1>m DEF CarrierOfOwner, Pooled, Types, Members, Issued, LookedUp
    <2> QED BY <2>1, <2>2, <2>3, <2>4, <2>5, <2>6, <2>7, <2>8, <2>9
  <1>3. ASSUME NEW r \in Regs, CloseAll(r)
       PROVE  DirectInv'
    <2> USE <1>3 DEF CloseAll, regVars, poolVars, connVars, Regs, Nonces, Refuse
    <2>1. Types'
      BY DEF Types, Phases, TaskStates
    <2>2. KeyExclusive'
      BY DEF KeyExclusive, Types, Phases
    <2>3. LookedUp'
      BY DEF LookedUp, Types, Issued
    <2>4. Members'
      BY <1>m DEF Members, Types
    <2>5. MonitorIds'
      BY <1>m DEF MonitorIds, Types, LookedUp, Members
    <2>6. Issued'
      BY DEF Issued, Types, KeyExclusive
    <2>7. BudgetHeld'
      BY PermitSets DEF BudgetHeld, Types
    <2>8. OwnerCheck => NonceKept'
      BY DEF NonceKept, KeyExclusive, Types, Issued
    <2>9. OwnerCheck => CarrierOfOwner'
      BY <1>m DEF CarrierOfOwner, Pooled, Types, Members, Issued, LookedUp
    <2> QED BY <2>1, <2>2, <2>3, <2>4, <2>5, <2>6, <2>7, <2>8, <2>9
  <1>4. ASSUME NEW r \in Regs, Deregister(r)
       PROVE  DirectInv'
    <2> USE <1>4 DEF Deregister, regVars, poolVars, connVars, Regs, Nonces, Refuse
    <2>1. Types'
      BY DEF Types, Phases, TaskStates
    <2>2. KeyExclusive'
      BY DEF KeyExclusive, Types, Phases
    <2>3. LookedUp'
      BY DEF LookedUp, Types, Issued
    <2>4. Members'
      BY <1>m DEF Members, Types
    <2>5. MonitorIds'
      BY <1>m DEF MonitorIds, Types, LookedUp, Members
    <2>6. Issued'
      BY DEF Issued, Types, KeyExclusive
    <2>7. BudgetHeld'
      BY PermitSets DEF BudgetHeld, Types
    <2>8. OwnerCheck => NonceKept'
      BY DEF NonceKept, KeyExclusive, Types, Issued
    <2>9. OwnerCheck => CarrierOfOwner'
      BY <1>m DEF CarrierOfOwner, Pooled, Types, Members, Issued, LookedUp
    <2> QED BY <2>1, <2>2, <2>3, <2>4, <2>5, <2>6, <2>7, <2>8, <2>9
  <1>5. ASSUME NEW r \in Regs, DropNonce(r)
       PROVE  DirectInv'
    <2> USE <1>5 DEF DropNonce, regVars, poolVars, connVars, Regs, Nonces, Refuse
    <2>1. Types'
      BY DEF Types, Phases, TaskStates
    <2>2. KeyExclusive'
      BY DEF KeyExclusive, Types, Phases
    <2>3. LookedUp'
      BY DEF LookedUp, Types, Issued
    <2>4. Members'
      BY <1>m DEF Members, Types
    <2>5. MonitorIds'
      BY <1>m DEF MonitorIds, Types, LookedUp, Members
    <2>6. Issued'
      BY DEF Issued, Types, KeyExclusive
    <2>7. BudgetHeld'
      BY PermitSets DEF BudgetHeld, Types
    <2>8. OwnerCheck => NonceKept'
      BY DEF NonceKept, KeyExclusive, Types, Issued
    <2>9. OwnerCheck => CarrierOfOwner'
      BY <1>m DEF CarrierOfOwner, Pooled, Types, Members, Issued, LookedUp
    <2> QED BY <2>1, <2>2, <2>3, <2>4, <2>5, <2>6, <2>7, <2>8, <2>9
  <1>6. ASSUME NEW c \in Conns, NEW n \in Nonces, Dial(c, n)
       PROVE  DirectInv'
    <2> USE <1>6 DEF Dial, regVars, poolVars, connVars, Regs, Nonces, Refuse
    <2>1. Types'
      BY DEF Types, Phases, TaskStates
    <2>2. KeyExclusive'
      BY DEF KeyExclusive, Types, Phases
    <2>3. LookedUp'
      BY DEF LookedUp, Types, Issued
    <2>4. Members'
      BY <1>m DEF Members, Types
    <2>5. MonitorIds'
      BY <1>m DEF MonitorIds, Types, LookedUp, Members
    <2>6. Issued'
      BY DEF Issued, Types, KeyExclusive
    <2>7. BudgetHeld'
      BY PermitSets DEF BudgetHeld, Types
    <2>8. OwnerCheck => NonceKept'
      BY DEF NonceKept, KeyExclusive, Types, Issued
    <2>9. OwnerCheck => CarrierOfOwner'
      BY <1>m DEF CarrierOfOwner, Pooled, Types, Members, Issued, LookedUp
    <2> QED BY <2>1, <2>2, <2>3, <2>4, <2>5, <2>6, <2>7, <2>8, <2>9
  <1>7. ASSUME NEW c \in Conns, Handshake(c)
       PROVE  DirectInv'
    <2> USE <1>7 DEF Handshake, regVars, poolVars, connVars, Regs, Nonces, Refuse
    <2>1. Types'
      BY DEF Types, Phases, TaskStates
    <2>2. KeyExclusive'
      BY DEF KeyExclusive, Types, Phases
    <2>3. LookedUp'
      BY DEF LookedUp, Types, Issued
    <2>4. Members'
      BY <1>m DEF Members, Types
    <2>5. MonitorIds'
      BY <1>m DEF MonitorIds, Types, LookedUp, Members
    <2>6. Issued'
      BY DEF Issued, Types, KeyExclusive
    <2>7. BudgetHeld'
      BY PermitSets DEF BudgetHeld, Types
    <2>8. OwnerCheck => NonceKept'
      BY DEF NonceKept, KeyExclusive, Types, Issued
    <2>9. OwnerCheck => CarrierOfOwner'
      BY <1>m DEF CarrierOfOwner, Pooled, Types, Members, Issued, LookedUp
    <2> QED BY <2>1, <2>2, <2>3, <2>4, <2>5, <2>6, <2>7, <2>8, <2>9
  <1>8. ASSUME NEW c \in Conns, Admit(c)
       PROVE  DirectInv'
    <2> USE <1>8 DEF Admit, regVars, poolVars, connVars, Regs, Nonces, Refuse
    <2>1. Types'
      BY DEF Types, Phases, TaskStates
    <2>2. KeyExclusive'
      BY DEF KeyExclusive, Types, Phases
    <2>3. LookedUp'
      BY DEF LookedUp, Types, Issued
    <2>4. Members'
      <3>1. /\ \A r \in Regs : \A m \in pool[r] : m[2] # c
            /\ \A d \in Conns \ {c} : task'[d] = task[d]
        BY <1>m DEF Types, Refuse
      <3> QED BY <1>m, <3>1 DEF Members
    <2>5. MonitorIds'
      BY <1>m DEF MonitorIds, Types, LookedUp, Members
    <2>6. Issued'
      BY DEF Issued, Types, KeyExclusive
    <2>7. BudgetHeld'
      <3>1. /\ Cardinality(permits) \in Nat
            /\ Cardinality(permits \cup {c}) <= Cardinality(permits) + 1
            /\ Cardinality(permits \cup {c}) \in Nat
        BY PermitSets DEF Types
      <3>2. Cardinality(permits') <= Budget
        BY <3>1 DEF BudgetHeld
      <3>3. \A d \in Conns :
              d \in open' /\ task'[d] \in {"admitted", "got", "installed", "done"}
                  => d \in permits'
        BY DEF BudgetHeld, Types
      <3> QED BY <3>2, <3>3 DEF BudgetHeld
    <2>8. OwnerCheck => NonceKept'
      BY DEF NonceKept, KeyExclusive, Types, Issued
    <2>9. OwnerCheck => CarrierOfOwner'
      BY <1>m DEF CarrierOfOwner, Pooled, Types, Members, Issued, LookedUp
    <2> QED BY <2>1, <2>2, <2>3, <2>4, <2>5, <2>6, <2>7, <2>8, <2>9
  <1>9. ASSUME NEW c \in Conns, LookUp(c)
       PROVE  DirectInv'
    <2> USE <1>9 DEF LookUp, regVars, poolVars, connVars, Regs, Nonces, Refuse
    <2>1. Types'
      BY DEF Types, Phases, TaskStates
    <2>2. KeyExclusive'
      BY DEF KeyExclusive, Types, Phases
    <2>3. LookedUp'
      BY DEF LookedUp, Types, Issued
    <2>4. Members'
      <3>1. /\ \A r \in Regs : \A m \in pool[r] : m[2] # c
            /\ \A d \in Conns \ {c} : task'[d] = task[d]
        BY <1>m DEF Types, Refuse
      <3> QED BY <1>m, <3>1 DEF Members
    <2>5. MonitorIds'
      BY <1>m DEF MonitorIds, Types, LookedUp, Members
    <2>6. Issued'
      BY DEF Issued, Types, KeyExclusive
    <2>7. BudgetHeld'
      BY PermitSets DEF BudgetHeld, Types
    <2>8. OwnerCheck => NonceKept'
      BY DEF NonceKept, KeyExclusive, Types, Issued
    <2>9. OwnerCheck => CarrierOfOwner'
      BY <1>m DEF CarrierOfOwner, Pooled, Types, Members, Issued, LookedUp
    <2> QED BY <2>1, <2>2, <2>3, <2>4, <2>5, <2>6, <2>7, <2>8, <2>9
  <1>10. ASSUME NEW c \in Conns, Install(c)
       PROVE  DirectInv'
    <2>a. CASE ~(Cardinality(pool[entry[c]]) < PoolCap)
      <3> USE <1>10, <2>a DEF Install, regVars, Refuse
      <3>0. /\ UNCHANGED <<regVars, nonce, entry, permits, pool, ids, cid>>
            /\ task' = [task EXCEPT ![c] = "done"] /\ open' = open \ {c}
        OBVIOUS
      <3> USE DEF Regs, Nonces
      <3>1. Types'  BY <3>0 DEF Types, TaskStates
      <3>2. KeyExclusive' /\ LookedUp' /\ Issued'
        BY <3>0 DEF KeyExclusive, LookedUp, Issued, Types
      <3>3. Members'
        BY <1>m, <3>0 DEF Members, Types
      <3>4. MonitorIds'  BY <3>0 DEF MonitorIds, Types
      <3>5. BudgetHeld'  BY <3>0 DEF BudgetHeld, Types
      <3>6. OwnerCheck => NonceKept' /\ CarrierOfOwner'
        BY <3>0 DEF NonceKept, CarrierOfOwner, Pooled
      <3> QED BY <3>1, <3>2, <3>3, <3>4, <3>5, <3>6
    <2>b. CASE Cardinality(pool[entry[c]]) < PoolCap
      <3> DEFINE e == entry[c]
                 new == <<ids[e], c>>
      <3>0. /\ task[c] = "got" /\ e \in Regs
            /\ OwnerCheck => owner[nonce[c]] = e
            /\ UNCHANGED <<registry, phase, pending, issued, owner, nonce,
                           entry, permits, open>>
            /\ pool' = [pool EXCEPT ![e] = @ \cup {new}]
            /\ ids' = [ids EXCEPT ![e] = @ + 1]
            /\ cid' = [cid EXCEPT ![c] = ids[e]]
            /\ task' = [task EXCEPT ![c] = "installed"]
        BY <1>10, <2>b DEF Install, regVars, LookedUp
      <3>1. /\ new \in Nat \X Conns /\ new[1] = ids[e] /\ new[2] = c
            /\ pool'[e] = pool[e] \cup {new}
            /\ \A r \in Regs \ {e} : pool'[r] = pool[r] /\ ids'[r] = ids[r]
            /\ ids'[e] = ids[e] + 1 /\ ids[e] \in Nat
            /\ \A d \in Conns \ {c} : task'[d] = task[d] /\ cid'[d] = cid[d]
            /\ task'[c] = "installed" /\ cid'[c] = ids[e]
            /\ \A r \in Regs : \A m \in pool[r] : m[2] # c
        BY <3>0, <1>m DEF Types, Members
      <3> HIDE DEF new, e
      <3>2. Types'
        <4>1. ids' \in [Regs -> Nat] /\ cid' \in [Conns -> Nat]
          BY <3>0, <3>1 DEF Types
        <4> QED BY <3>0, <4>1 DEF Types, TaskStates, Regs, Nonces
      <3>3. KeyExclusive' /\ LookedUp' /\ Issued'
        <4>1. LookedUp'  BY <3>0, <3>1 DEF LookedUp, e
        <4> QED BY <3>0, <3>1, <4>1 DEF KeyExclusive, Issued
      <3>4. Members'
        <4>1. pool' \in [Regs -> SUBSET (Nat \X Conns)]
          BY <3>0, <3>1 DEF Members
        <4>2. ASSUME NEW r \in Regs, NEW m \in pool'[r]
              PROVE  m[1] < ids'[r] /\ task'[m[2]] \in {"installed", "done"}
          <5>1. CASE m \in pool[r]
            BY <1>m, <3>1, <5>1 DEF Types
          <5>2. CASE m \notin pool[r]
            <6>1. r = e /\ m = new  BY <3>1, <5>2
            <6> QED BY <3>1, <6>1
          <5> QED BY <5>1, <5>2
        <4>3. ASSUME NEW r \in Regs, NEW m \in pool'[r], NEW n \in pool'[r],
                     m[1] = n[1]
              PROVE  m = n
          <5>1. \A x \in pool[r] : x[1] < ids[r] /\ x[1] \in Nat
            BY <1>m
          <5>2. CASE r = e
            BY <3>1, <4>3, <5>1, <5>2 DEF Members
          <5>3. CASE r # e
            BY <3>1, <4>3, <5>3 DEF Members
          <5> QED BY <5>2, <5>3
        <4> QED BY <4>1, <4>2, <4>3 DEF Members
      <3>5. MonitorIds'
        <4> SUFFICES ASSUME NEW d \in Conns, task'[d] = "installed"
                     PROVE  /\ cid'[d] < ids'[entry[d]]
                            /\ \A m \in pool'[entry[d]] :
                                  m[1] = cid'[d] => m[2] = d
          BY <3>0 DEF MonitorIds
        <4>1. CASE d = c
          <5>1. \A m \in pool[e] : m[1] < ids[e] /\ m[1] \in Nat
            BY <1>m, <3>0
          <5> QED BY <3>0, <3>1, <4>1, <5>1 DEF e
        <4>2. CASE d # c
          <5>1. /\ task[d] = "installed" /\ cid'[d] = cid[d]
                /\ cid[d] \in Nat /\ cid[d] < ids[entry[d]]
                /\ entry[d] \in Regs /\ ids[entry[d]] \in Nat
                /\ \A m \in pool[entry[d]] : m[1] = cid[d] => m[2] = d
            BY <3>1, <4>2 DEF MonitorIds, LookedUp, Types
          <5>2. CASE entry[d] = e
            BY <3>1, <5>1, <5>2
          <5>3. CASE entry[d] # e
            BY <3>1, <5>1, <5>3
          <5> QED BY <5>2, <5>3
        <4> QED BY <4>1, <4>2
      <3>6. BudgetHeld'  BY <3>0, <3>1 DEF BudgetHeld
      <3>7. OwnerCheck => NonceKept'  BY <3>0 DEF NonceKept
      <3>8. OwnerCheck => CarrierOfOwner'
        <4> SUFFICES ASSUME OwnerCheck, NEW r \in Regs, NEW m \in pool'[r]
                     PROVE  owner[nonce[m[2]]] = r
          BY <3>0 DEF CarrierOfOwner, Pooled
        <4>1. CASE m \in pool[r]  BY <4>1 DEF CarrierOfOwner, Pooled
        <4>2. CASE m \notin pool[r]
          BY <3>0, <3>1, <4>2 DEF e
        <4> QED BY <4>1, <4>2
      <3> QED BY <3>2, <3>3, <3>4, <3>5, <3>6, <3>7, <3>8
    <2> QED BY <2>a, <2>b
  <1>11. ASSUME NEW c \in Conns, Monitor(c)
       PROVE  DirectInv'
    <2> USE <1>11 DEF Monitor, regVars, poolVars, connVars, Regs, Nonces, Refuse
    <2>1. Types'
      BY DEF Types, Phases, TaskStates
    <2>2. KeyExclusive'
      BY DEF KeyExclusive, Types, Phases
    <2>3. LookedUp'
      BY DEF LookedUp, Types, Issued
    <2>4. Members'
      BY <1>m DEF Members, Types
    <2>5. MonitorIds'
      BY <1>m DEF MonitorIds, Types, LookedUp, Members
    <2>6. Issued'
      BY DEF Issued, Types, KeyExclusive
    <2>7. BudgetHeld'
      BY PermitSets DEF BudgetHeld, Types
    <2>8. OwnerCheck => NonceKept'
      BY DEF NonceKept, KeyExclusive, Types, Issued
    <2>9. OwnerCheck => CarrierOfOwner'
      BY <1>m DEF CarrierOfOwner, Pooled, Types, Members, Issued, LookedUp
    <2> QED BY <2>1, <2>2, <2>3, <2>4, <2>5, <2>6, <2>7, <2>8, <2>9
  <1>12. ASSUME NEW c \in Conns, Release(c)
       PROVE  DirectInv'
    <2> USE <1>12 DEF Release, regVars, poolVars, connVars, Regs, Nonces, Refuse
    <2>1. Types'
      BY DEF Types, Phases, TaskStates
    <2>2. KeyExclusive'
      BY DEF KeyExclusive, Types, Phases
    <2>3. LookedUp'
      BY DEF LookedUp, Types, Issued
    <2>4. Members'
      BY <1>m DEF Members, Types
    <2>5. MonitorIds'
      BY <1>m DEF MonitorIds, Types, LookedUp, Members
    <2>6. Issued'
      BY DEF Issued, Types, KeyExclusive
    <2>7. BudgetHeld'
      <3>1. /\ Cardinality(permits) \in Nat
            /\ Cardinality(permits \ {c}) <= Cardinality(permits)
            /\ Cardinality(permits \ {c}) \in Nat
        BY PermitSets DEF Types
      <3>2. Cardinality(permits') <= Budget
        BY <3>1 DEF BudgetHeld
      <3> QED BY <3>2 DEF BudgetHeld
    <2>8. OwnerCheck => NonceKept'
      BY DEF NonceKept, KeyExclusive, Types, Issued
    <2>9. OwnerCheck => CarrierOfOwner'
      BY <1>m DEF CarrierOfOwner, Pooled, Types, Members, Issued, LookedUp
    <2> QED BY <2>1, <2>2, <2>3, <2>4, <2>5, <2>6, <2>7, <2>8, <2>9
  <1>13. ASSUME NEW c \in Conns, PeerCloses(c)
       PROVE  DirectInv'
    <2> USE <1>13 DEF PeerCloses, regVars, poolVars, connVars, Regs, Nonces, Refuse
    <2>1. Types'
      BY DEF Types, Phases, TaskStates
    <2>2. KeyExclusive'
      BY DEF KeyExclusive, Types, Phases
    <2>3. LookedUp'
      BY DEF LookedUp, Types, Issued
    <2>4. Members'
      BY <1>m DEF Members, Types
    <2>5. MonitorIds'
      BY <1>m DEF MonitorIds, Types, LookedUp, Members
    <2>6. Issued'
      BY DEF Issued, Types, KeyExclusive
    <2>7. BudgetHeld'
      BY PermitSets DEF BudgetHeld, Types
    <2>8. OwnerCheck => NonceKept'
      BY DEF NonceKept, KeyExclusive, Types, Issued
    <2>9. OwnerCheck => CarrierOfOwner'
      BY <1>m DEF CarrierOfOwner, Pooled, Types, Members, Issued, LookedUp
    <2> QED BY <2>1, <2>2, <2>3, <2>4, <2>5, <2>6, <2>7, <2>8, <2>9
  <1>14. CASE UNCHANGED vars
    BY <1>14 DEF vars, Types, KeyExclusive, LookedUp, Members, MonitorIds, Issued, BudgetHeld, NonceKept, CarrierOfOwner, Pooled, Regs, Nonces
  <1> QED BY <1>1, <1>2, <1>3, <1>4, <1>5, <1>6, <1>7, <1>8, <1>9, <1>10, <1>11, <1>12, <1>13, <1>14 DEF Next

(* A step takes out of a pool only members whose connection is closed.     *)
LEMMA EvictsClosed ==
    ASSUME DirectInv, [Next]_vars
    PROVE  \A r \in Regs : \A m \in pool[r] \ pool'[r] : m[2] \notin open'
  <1> SUFFICES ASSUME NEW r \in Regs, NEW m \in pool[r], m \notin pool'[r]
               PROVE  m[2] \notin open'
    OBVIOUS
  <1>1. ASSUME NEW q \in Regs, CloseAll(q) PROVE m[2] \notin open'
    <2>1. q = r  BY <1>1 DEF CloseAll, DirectInv, Members
    <2> QED BY <1>1, <2>1 DEF CloseAll, Pooled
  <1>2. ASSUME NEW c \in Conns, Monitor(c) PROVE m[2] \notin open'
    <2>1. task[c] = "installed" /\ c \notin open' /\ entry[c] \in Regs
      BY <1>2 DEF Monitor, DirectInv, LookedUp
    <2>2. r = entry[c] /\ m[1] = cid[c]
      BY <1>2, <2>1 DEF Monitor, DirectInv, Members
    <2> QED BY <2>1, <2>2 DEF DirectInv, MonitorIds
  <1>3. ASSUME NEW c \in Conns, Install(c) PROVE m \in pool'[r]
    BY <1>3 DEF Install, DirectInv, Members
  <1>4. CASE UNCHANGED pool  BY <1>4
  <1>5. \/ \E q \in Regs : CloseAll(q)
        \/ \E c \in Conns : Monitor(c) \/ Install(c)
        \/ UNCHANGED pool
    BY DEF Next, vars, poolVars, Register, Offer, Deregister, DropNonce, Dial,
           Handshake, Admit, LookUp, Release, PeerCloses
  <1> QED BY <1>1, <1>2, <1>3, <1>4, <1>5

LEMMA DirectInvariant == Spec => []DirectInv
  BY DirectInvInit, DirectInvNext, PTL DEF Spec

(* server.rs, vhost.rs: a key is never served by two registrations, and no *)
(* admitted connection stays open outside --udp-memory-budget, whichever   *)
(* branch of the accept task claims, refuses or drops it.                  *)
THEOREM KeyAndBudget == Spec => [](KeyExclusive /\ BudgetHeld)
  <1>1. DirectInv => KeyExclusive /\ BudgetHeld  BY DEF DirectInv
  <1> QED BY <1>1, DirectInvariant, PTL

(* ssh_jump.rs: with the owner check, a carrier serves the registration    *)
(* that issued its nonce, and an old guard never drops a newer nonce.      *)
THEOREM JumpOwnership == Spec => [](OwnerCheck => CarrierOfOwner /\ NonceKept)
  <1>1. DirectInv => (OwnerCheck => CarrierOfOwner /\ NonceKept)
    BY DEF DirectInv
  <1> QED BY <1>1, DirectInvariant, PTL

(* server.rs:1928: a close monitor, however late, never evicts a live      *)
(* member of the pool.                                                     *)
THEOREM StaleMonitorsHarmless == Spec => NoLiveEviction
  <1>1. DirectInv /\ [Next]_vars =>
          [\A r \in Regs : \A m \in pool[r] \ pool'[r] : m[2] \notin open']_vars
    BY EvictsClosed
  <1> QED BY <1>1, DirectInvariant, PTL DEF Spec, NoLiveEviction

-----------------------------------------------------------------------------
(* DirectClient.                                                           *)

(* What the loop has in hand: carriers to spawn only inside the offer arm, *)
(* and in the stand-down a counter that was read at the target, so that a  *)
(* pool that is short by now has the signal of a later loss on its way.    *)
LoopState ==
    /\ loop = "spawn" <=> need > 0
    /\ loop = "standdown" =>
         /\ seen >= Target
         /\ live < Target => renewq + releasing > 0

(* The inductive invariant.                                                *)
DirectClientInv ==
    /\ ClientTypeOK /\ SlotsExact /\ WithinTarget /\ LoopState
    /\ ShortfallLostOnlyByDrain

LEMMA ClientInvInit == ClientInit => DirectClientInv
  <1> SUFFICES ASSUME ClientInit PROVE DirectClientInv  OBVIOUS
  <1> USE DirectClientAssumption DEF ClientInit
  <1>1. sleep \in BOOLEAN /\ drained \in BOOLEAN  OBVIOUS
  <1>2. ClientTypeOK  BY <1>1 DEF ClientTypeOK
  <1>3. SlotsExact /\ WithinTarget /\ LoopState
    BY DEF SlotsExact, WithinTarget, LoopState
  <1>4. ShortfallLostOnlyByDrain
    BY DEF ShortfallLostOnlyByDrain, RenewalUnderWay
  <1> QED BY <1>2, <1>3, <1>4 DEF DirectClientInv

(* Every step keeps the invariant.                                         *)
LEMMA ClientInvNext ==
    DirectClientInv /\ [ClientNext]_clientVars => DirectClientInv'
  <1> SUFFICES ASSUME DirectClientInv, [ClientNext]_clientVars PROVE DirectClientInv'
    OBVIOUS
  <1> USE DirectClientAssumption
      DEF DirectClientInv, ClientTypeOK, SlotsExact, WithinTarget, LoopState,
          ShortfallLostOnlyByDrain, RenewalUnderWay, tasks, wire, standing
  <1>1. CASE ReceiveOffer
    <2>1. drained' \in BOOLEAN  BY <1>1 DEF ReceiveOffer
    <2> QED BY <1>1, <2>1 DEF ReceiveOffer
  <1>2. CASE ResolveFails  BY <1>2 DEF ResolveFails
  <1>3. CASE spawn_direct  BY <1>3 DEF spawn_direct
  <1>4. CASE ReceiveRenew
    <2>1. sleep' \in BOOLEAN /\ RenewalUnderWay'  BY <1>4 DEF ReceiveRenew
    <2> QED BY <1>4, <2>1 DEF ReceiveRenew
  <1>5. CASE SleepOver
    <2>1. sleep' \in BOOLEAN  BY <1>5 DEF SleepOver
    <2>2. renewals' > 0  BY <1>5 DEF SleepOver
    <2> QED BY <1>5, <2>1, <2>2 DEF SleepOver
  <1>6. CASE ReceiveUp  BY <1>6 DEF ReceiveUp
  <1>7. CASE StandDown
    <2>1. sleep' \in BOOLEAN /\ drained' \in BOOLEAN  BY <1>7 DEF StandDown
    <2>2. DrainsLateSignal \/ releasing > 0 \/ live >= Target
      BY <1>7 DEF StandDown, DrainsLateSignal
    <2>3. DrainsLateSignal => drained'  BY <1>7 DEF StandDown
    <2> QED BY <1>7, <2>1, <2>2, <2>3 DEF StandDown
  <1>8. CASE Connects  BY <1>8 DEF Connects
  <1>9. CASE ConnectFails  BY <1>9 DEF ConnectFails
  <1>10. CASE CarrierCloses  BY <1>10 DEF CarrierCloses
  <1>11. CASE SendRenew  BY <1>11 DEF SendRenew
  <1>12. CASE ServerAnswers  BY <1>12 DEF ServerAnswers
  <1>13. CASE UNCHANGED clientVars  BY <1>13 DEF clientVars
  <1> QED BY <1>1, <1>2, <1>3, <1>4, <1>5, <1>6, <1>7, <1>8, <1>9, <1>10,
             <1>11, <1>12, <1>13 DEF ClientNext

LEMMA ClientInvariant == ClientSpec => []DirectClientInv
  BY ClientInvInit, ClientInvNext, PTL DEF ClientSpec

(* client.rs, spawn_direct: the slot counter is exact and the pool is      *)
(* never provisioned twice, on one thread or several.                      *)
THEOREM SlotAccounting == ClientSpec => [](SlotsExact /\ WithinTarget)
  <1>1. DirectClientInv => SlotsExact /\ WithinTarget  BY DEF DirectClientInv
  <1> QED BY <1>1, ClientInvariant, PTL

(* client.rs, direct_renewal_stands_down, on any number of threads: a      *)
(* missing carrier has its renewal under way, unless a stand-down that had *)
(* read a full pool threw away the signal of a carrier lost since.         *)
THEOREM ShortfallNeverLost == ClientSpec => []ShortfallLostOnlyByDrain
  <1>1. DirectClientInv => ShortfallLostOnlyByDrain  BY DEF DirectClientInv
  <1> QED BY <1>1, ClientInvariant, PTL
=============================================================================
