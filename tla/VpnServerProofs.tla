---------------------------- MODULE VpnServerProofs ----------------------------
(* Theorems about VpnServer, for every number of listeners and connectors, *)
(* every pool, hub subnet and event channel.                               *)
EXTENDS VpnServer, WellFoundedInduction, TLAPS

(* The least free block is one of the free blocks.                         *)
LEMMA MinOfNats ==
    ASSUME NEW S, S \subseteq Nat, S # {}
    PROVE  Min(S) \in S /\ \A y \in S : Min(S) <= y
  <1> DEFINE R == OpToRel(<, Nat)
  <1>1. IsWellFoundedOn(R, Nat)  BY NatLessThanWellFounded
  <1>2. PICK x \in S : \A y \in S : ~(<<y, x>> \in R)
    <2> HIDE DEF R
    <2> QED BY <1>1, WFMin
  <1>3. ASSUME NEW p \in Nat, NEW q \in Nat, p < q PROVE <<p, q>> \in R
    <2> DEFINE z == <<p, q>>
    <2>1. z \in Nat \X Nat /\ z[1] = p /\ z[2] = q  OBVIOUS
    <2>2. z[1] < z[2]  BY <1>3, <2>1
    <2> HIDE DEF z
    <2>3. z \in R  BY <2>1, <2>2, Zenon DEF OpToRel
    <2> QED BY <2>3 DEF z
  <1> HIDE DEF R
  <1>4. ASSUME NEW y \in S PROVE x <= y
    <2>1. x \in Nat /\ y \in Nat  OBVIOUS
    <2>2. ~(y < x)  BY <1>2, <1>3, <2>1
    <2> QED BY <2>1, <2>2
  <1> QED BY <1>4 DEF Min

ListenSteps == {"out", "waiting", "leased", "hub", "paired", "closing",
                "closed", "gone"}
ConnectSteps == {"out", "found", "leased", "told", "in", "freeing", "gone"}

(* Whom the handlers know: an entry that was read belongs to a listener    *)
(* that has registered, whose mode no longer changes.                      *)
Known ==
    /\ lst \in [Listeners -> ListenSteps] /\ cst \in [Connectors -> ConnectSteps]
    /\ hub \subseteq Listeners
    /\ registry \in Listeners \cup {None}
    /\ target \in [Connectors -> Listeners \cup {None}]
    /\ registry # None => lst[registry] \notin {"out", "leased"}
    /\ \A c \in Connectors : 
          /\ target[c] # None => lst[target[c]] \notin {"out", "leased"}
          /\ cst[c] \notin {"out", "gone"} => target[c] # None
    /\ \A l \in Listeners :
          /\ lst[l] \in {"leased", "hub"} => l \in hub
          /\ lst[l] \in {"out", "waiting", "paired"} => l \notin hub

LEMMA KnownInit == Init => Known
  BY VpnAssumption DEF Init, Known, ListenSteps, ConnectSteps

LEMMA KnownListener ==
    ASSUME Known, NEW l \in Listeners,
           \/ RegisterPair(l) \/ LeaseHub(l) \/ RegisterHub(l)
           \/ TakePair(l) \/ EndListener(l) \/ Deregister(l)
           \/ CloseListener(l) \/ Forward(l)
    PROVE  Known'
  <1> USE VpnAssumption DEF Known, LGoes, ListenSteps, lVars
  <1>1. CASE RegisterPair(l)  BY <1>1 DEF RegisterPair
  <1>2. CASE LeaseHub(l)
    <2>1. /\ hub' = hub \cup {l} /\ lst[l] = "out"
          /\ \E to \in {"leased", "gone"} : lst' = [lst EXCEPT ![l] = to]
          /\ UNCHANGED <<registry, cst, target>>
      BY <1>2 DEF LeaseHub
    <2> QED BY <2>1
  <1>3. CASE RegisterHub(l)  BY <1>3 DEF RegisterHub
  <1>4. CASE TakePair(l)  BY <1>4 DEF TakePair
  <1>5. CASE EndListener(l)  BY <1>5 DEF EndListener
  <1>6. CASE Deregister(l)  BY <1>6 DEF Deregister
  <1>7. CASE CloseListener(l)  BY <1>7 DEF CloseListener
  <1>8. CASE Forward(l)  BY <1>8 DEF Forward
  <1> QED BY <1>1, <1>2, <1>3, <1>4, <1>5, <1>6, <1>7, <1>8

LEMMA KnownConnector ==
    ASSUME Known, NEW c \in Connectors,
           \/ LookUp(c) \/ Refuse(c) \/ LeasePair(c) \/ TakeSlot(c)
           \/ SendReady(c) \/ Pair(c) \/ Announce(c) \/ EndPair(c)
           \/ EndSpoke(c) \/ Notify(c) \/ RelayArrives(c) \/ SelfReport(c)
    PROVE  Known'
  <1> USE VpnAssumption DEF Known
  <1>1. CASE LookUp(c)
    BY <1>1 DEF LookUp, CGoes, lVars, ConnectSteps
  <1>2. CASE ~LookUp(c)
    <2>1. /\ UNCHANGED <<lst, hub, target>> /\ registry' \in {registry, None}
      BY <1>2 DEF Refuse, LeasePair, TakeSlot, SendReady, Pair, Announce, EndPair,
           EndSpoke, Notify, RelayArrives, SelfReport, lVars
    <2>2. /\ cst' = cst \/ \E to \in ConnectSteps : cst' = [cst EXCEPT ![c] = to]
          /\ cst[c] \in {"out", "gone"} => cst' = cst
      BY <1>2 DEF Refuse, LeasePair, TakeSlot, SendReady, Pair, Announce, EndPair,
           EndSpoke, Notify, RelayArrives, SelfReport, CGoes, ConnectSteps
    <2>3. cst' \in [Connectors -> ConnectSteps]  BY <2>2
    <2>4. \A d \in Connectors : cst'[d] \notin {"out", "gone"} => target[d] # None
      BY <2>2
    <2> QED BY <2>1, <2>3, <2>4
  <1> QED BY <1>1, <1>2

LEMMA KnownNext == Known /\ [Next]_vars => Known'
  <1>1. Known /\ UNCHANGED vars => Known'  BY DEF Known, vars, lVars
  <1> QED BY <1>1, KnownListener, KnownConnector DEF Next

LEMMA KnownAlways == Spec => []Known
  BY KnownInit, KnownNext, PTL DEF Spec

-----------------------------------------------------------------------------
(* The registry.                                                           *)

(* vpn_server.rs, VpnDeregister: a listener that waits stays under the id  *)
(* until a connector takes its entry for a pairing.                        *)
THEOREM WaitingListed == Spec => []WaitingIsListed
  <1> USE VpnAssumption DEF WaitingIsListed
  <1> DEFINE MsgType == DOMAIN msg = Listeners
  <1> USE DEF MsgType
  <1>1. Init => MsgType /\ WaitingIsListed  BY DEF Init
  <1>2. ASSUME Known, MsgType, WaitingIsListed, NEW l \in Listeners,
               \/ RegisterPair(l) \/ LeaseHub(l) \/ RegisterHub(l)
               \/ TakePair(l) \/ EndListener(l) \/ Deregister(l)
               \/ CloseListener(l) \/ Forward(l)
        PROVE  MsgType' /\ WaitingIsListed'
    <2>1. CASE RegisterPair(l) \/ LeaseHub(l) \/ RegisterHub(l) \/ TakePair(l)
      BY <1>2, <2>1
      DEF RegisterPair, LeaseHub, RegisterHub, TakePair, Known, LGoes, hVars
    <2>2. CASE EndListener(l) \/ Deregister(l) \/ CloseListener(l) \/ Forward(l)
      BY <1>2, <2>2
      DEF EndListener, Deregister, CloseListener, Forward, Known, LGoes, hVars,
          lVars
    <2> QED BY <1>2, <2>1, <2>2
  <1>3. ASSUME Known, MsgType, WaitingIsListed, NEW c \in Connectors, Pair(c)
        PROVE  MsgType' /\ WaitingIsListed'
    <2>1. /\ UNCHANGED lst /\ registry' = None /\ target[c] \notin hub
          /\ stolen' = stolen \cup ({registry} \ {None, target[c]})
          /\ DOMAIN msg' = Listeners
      BY <1>3 DEF Pair
    <2>2. ASSUME NEW k \in Listeners, lst[k] \in {"waiting", "hub"}, k = registry,
                 k \notin stolen'
          PROVE  msg'[k] # None
      <3>1. k = target[c] /\ k \notin hub  BY <2>1, <2>2
      <3>2. lst[k] = "waiting"  BY <2>2, <3>1, <1>3 DEF Known
      <3>3. msg' = [msg EXCEPT ![k] = c]  BY <1>3, <2>2, <3>1, <3>2 DEF Pair
      <3> QED BY <1>3, <3>3
    <2>3. \A k \in Listeners : k # registry => msg'[k] = msg[k]
      BY <1>3 DEF Pair
    <2> QED BY <1>3, <2>1, <2>2, <2>3
  <1>4. ASSUME Known, MsgType, WaitingIsListed, NEW c \in Connectors,
               \/ LookUp(c) \/ Refuse(c) \/ LeasePair(c) \/ TakeSlot(c)
               \/ SendReady(c) \/ Announce(c) \/ EndPair(c)
               \/ EndSpoke(c) \/ Notify(c) \/ RelayArrives(c) \/ SelfReport(c)
        PROVE  MsgType' /\ WaitingIsListed'
    <2>1. UNCHANGED <<lst, msg, registry, stolen>>
      BY <1>4 DEF LookUp, Refuse, LeasePair, TakeSlot, SendReady, Announce,
           EndPair, EndSpoke, Notify, RelayArrives, SelfReport, lVars, hVars
    <2> QED BY <1>4, <2>1
  <1>5. MsgType /\ WaitingIsListed /\ UNCHANGED vars => MsgType' /\ WaitingIsListed'
    BY DEF vars, lVars, hVars
  <1>6. Known /\ MsgType /\ WaitingIsListed /\ [Next]_vars
          => MsgType' /\ WaitingIsListed'
    BY <1>2, <1>3, <1>4, <1>5 DEF Next
  <1> QED BY <1>1, <1>6, KnownAlways, PTL DEF Spec

-----------------------------------------------------------------------------
(* The pool.                                                               *)

Blocks == 0 .. (PoolSize - 1)
Apart(a, s, b, t) == a + s <= b \/ b + t <= a
Holds(x) == lease[x] # None

(* A handler holds a block only between the lease and the end of its       *)
(* guard; a /30 lies on its boundary; and a block that was left behind is  *)
(* given to nobody.                                                        *)
LeaseInv ==
    /\ lease \in [Listeners \cup Connectors -> Blocks \cup {None}]
    /\ leaked \subseteq Blocks
    /\ \A c \in Connectors : cst[c] \in {"out", "found"} => ~Holds(c)
    /\ \A l \in Listeners : lst[l] = "out" => ~Holds(l)
    /\ \A c \in Connectors : Holds(c) => lease[c] % 4 = 0
    /\ allocated = {lease[c] : c \in {d \in Connectors : Holds(d)}}
    /\ blocks = {lease[l] : l \in {k \in Listeners : Holds(k)}} \cup leaked
    /\ \A x \in Listeners \cup Connectors : \A y \in Listeners \cup Connectors :
          Holds(x) /\ Holds(y) /\ x # y => Apart(lease[x], Span(x), lease[y], Span(y))
    /\ \A b \in leaked : \A x \in Listeners \cup Connectors :
          Holds(x) => Apart(b, HubSize, lease[x], Span(x))

LEMMA Sizes == HubSize \in Nat /\ HubSize > 0 /\ (\A x : Span(x) \in Nat /\ Span(x) > 0)
  BY VpnAssumption DEF Span

LEMMA LeaseInvInit == Init => LeaseInv
  BY VpnAssumption DEF Init, LeaseInv, Holds

LEMMA InPool ==
    ASSUME LeaseInv
    PROVE  blocks \subseteq Nat /\ allocated \subseteq Nat /\ Blocks \subseteq Nat
  <1>1. \A x \in Listeners \cup Connectors : Holds(x) => lease[x] \in Blocks
    BY DEF LeaseInv, Holds
  <1>2. blocks \subseteq Blocks /\ allocated \subseteq Blocks  BY <1>1 DEF LeaseInv
  <1> QED BY <1>2, VpnAssumption DEF Blocks

LEMMA PairBlock ==
    ASSUME LeaseInv, FreePairs # {}
    PROVE  /\ Min(FreePairs) \in Blocks /\ Min(FreePairs) % 4 = 0
           /\ \A c \in Connectors : Holds(c) => Apart(Min(FreePairs), 4, lease[c], 4)
           /\ \A l \in Listeners : Holds(l) => Apart(Min(FreePairs), 4, lease[l], HubSize)
           /\ \A b \in leaked : Apart(Min(FreePairs), 4, b, HubSize)
  <1>1. FreePairs \subseteq Nat  BY VpnAssumption DEF FreePairs
  <1>2. PICK a \in FreePairs : a = Min(FreePairs)  BY <1>1, MinOfNats
  <1>3. a \in Blocks /\ a % 4 = 0 /\ a \notin allocated /\ ~InHubBlock(a, 4)
    BY DEF FreePairs, Blocks
  <1>4. \A b \in blocks : Apart(a, 4, b, HubSize)
    <2> TAKE b \in blocks
    <2>1. b \in Nat  BY InPool
    <2> QED BY <1>3, <2>1, Sizes, VpnAssumption DEF InHubBlock, Apart, Blocks
  <1>5. \A c \in Connectors : Holds(c) => Apart(a, 4, lease[c], 4)
    <2> SUFFICES ASSUME NEW c \in Connectors, Holds(c)
                 PROVE  Apart(a, 4, lease[c], 4)
      OBVIOUS
    <2>1. lease[c] \in allocated /\ lease[c] \in Blocks /\ lease[c] % 4 = 0
      BY DEF LeaseInv, Holds
    <2> QED BY <1>3, <2>1, VpnAssumption DEF Apart, Blocks
  <1>6. \A l \in Listeners : Holds(l) => lease[l] \in blocks  BY DEF LeaseInv
  <1>7. leaked \subseteq blocks  BY DEF LeaseInv
  <1> QED BY <1>2, <1>3, <1>4, <1>5, <1>6, <1>7

LEMMA HubBlock ==
    ASSUME LeaseInv, FreeHubs # {}
    PROVE  /\ Min(FreeHubs) \in Blocks
           /\ \A x \in Listeners \cup Connectors :
                 Holds(x) => Apart(Min(FreeHubs), HubSize, lease[x], Span(x))
           /\ \A b \in leaked : Apart(Min(FreeHubs), HubSize, b, HubSize)
  <1>1. FreeHubs \subseteq Nat  BY VpnAssumption DEF FreeHubs
  <1>2. PICK a \in FreeHubs : a = Min(FreeHubs)  BY <1>1, MinOfNats
  <1>3. a \in Blocks /\ ~InHubBlock(a, HubSize)
    BY DEF FreeHubs, Blocks
  <1>4. \A b \in blocks : Apart(a, HubSize, b, HubSize)
    <2> TAKE b \in blocks
    <2>1. b \in Nat  BY InPool
    <2> QED BY <1>3, <2>1, Sizes, VpnAssumption DEF InHubBlock, Apart, Blocks
  <1>5. \A b \in allocated : Apart(a, HubSize, b, 4)
    <2> TAKE b \in allocated
    <2>1. b \in Nat  BY InPool
    <2> QED BY <1>3, <2>1, Sizes, VpnAssumption DEF FreeHubs, Apart, Blocks
  <1>6. ASSUME NEW x \in Listeners \cup Connectors, Holds(x)
        PROVE  Apart(a, HubSize, lease[x], Span(x))
    <2>1. CASE x \in Listeners
      <3>1. lease[x] \in blocks  BY <1>6, <2>1 DEF LeaseInv
      <3> QED BY <1>4, <2>1, <3>1 DEF Span
    <2>2. CASE x \notin Listeners
      <3>1. lease[x] \in allocated  BY <1>6, <2>2 DEF LeaseInv
      <3> QED BY <1>5, <2>2, <3>1 DEF Span
    <2> QED BY <2>1, <2>2
  <1>7. leaked \subseteq blocks  BY DEF LeaseInv
  <1> QED BY <1>2, <1>3, <1>4, <1>6, <1>7

(* A handler that holds nothing takes a block that is apart from all       *)
(* others, or one that holds one gives it back.                            *)
LEMMA LeaseTaken ==
    ASSUME LeaseInv, NEW x \in Listeners \cup Connectors, ~Holds(x),
           NEW a \in Blocks, lease' = [lease EXCEPT ![x] = a], UNCHANGED leaked,
           \A y \in Listeners \cup Connectors :
               Holds(y) => Apart(a, Span(x), lease[y], Span(y)),
           \A b \in leaked : Apart(a, Span(x), b, HubSize),
           x \in Connectors => /\ a % 4 = 0 /\ allocated' = allocated \cup {a}
                              /\ UNCHANGED blocks /\ x \notin Listeners,
           x \in Listeners => blocks' = blocks \cup {a} /\ UNCHANGED allocated,
           \A c \in Connectors \ {x} :
               cst'[c] \in {"out", "found"} => cst[c] \in {"out", "found"},
           \A l \in Listeners \ {x} : lst'[l] = "out" => lst[l] = "out",
           x \in Connectors => cst'[x] \notin {"out", "found"},
           x \in Listeners => lst'[x] # "out"
    PROVE  LeaseInv'
  <1> USE VpnAssumption
  <1>1. /\ lease'[x] = a /\ Holds(x)'
        /\ \A y \in (Listeners \cup Connectors) \ {x} : lease'[y] = lease[y]
        /\ \A y \in (Listeners \cup Connectors) \ {x} : Holds(y)' <=> Holds(y)
    <2>1. /\ lease'[x] = a
          /\ \A y \in (Listeners \cup Connectors) \ {x} : lease'[y] = lease[y]
      BY DEF LeaseInv
    <2>2. a # None  BY DEF Blocks
    <2> QED BY <2>1, <2>2 DEF Holds
  <1>2. lease' \in [Listeners \cup Connectors -> Blocks \cup {None}]  BY DEF LeaseInv
  <1>3. /\ \A c \in Connectors : cst'[c] \in {"out", "found"} => ~Holds(c)'
        /\ \A l \in Listeners : lst'[l] = "out" => ~Holds(l)'
        /\ \A c \in Connectors : Holds(c)' => lease'[c] % 4 = 0
    BY <1>1 DEF LeaseInv
  <1>4. allocated' = {lease'[c] : c \in {d \in Connectors : Holds(d)'}}
    BY <1>1 DEF LeaseInv
  <1>5. blocks' = {lease'[l] : l \in {k \in Listeners : Holds(k)'}} \cup leaked
    BY <1>1 DEF LeaseInv
  <1>6. \A y \in Listeners \cup Connectors : \A z \in Listeners \cup Connectors :
          Holds(y)' /\ Holds(z)' /\ y # z => Apart(lease'[y], Span(y), lease'[z], Span(z))
    BY <1>1 DEF LeaseInv, Apart
  <1>7. \A b \in leaked : \A y \in Listeners \cup Connectors :
          Holds(y)' => Apart(b, HubSize, lease'[y], Span(y))
    BY <1>1 DEF LeaseInv, Apart
  <1> QED BY <1>2, <1>3, <1>4, <1>5, <1>6, <1>7 DEF LeaseInv

LEMMA LeaseGiven ==
    ASSUME LeaseInv, NEW x \in Listeners \cup Connectors,
           lease' = [lease EXCEPT ![x] = None], UNCHANGED leaked,
           x \in Connectors => /\ allocated' = allocated \ {lease[x]}
                              /\ UNCHANGED blocks /\ x \notin Listeners,
           x \in Listeners => blocks' = blocks \ {lease[x]} /\ UNCHANGED allocated,
           \A c \in Connectors \ {x} :
               cst'[c] \in {"out", "found"} => cst[c] \in {"out", "found"},
           \A l \in Listeners \ {x} : lst'[l] = "out" => lst[l] = "out"
    PROVE  LeaseInv'
  <1> USE VpnAssumption
  <1>1. /\ lease'[x] = None /\ ~Holds(x)'
        /\ \A y \in (Listeners \cup Connectors) \ {x} : lease'[y] = lease[y]
        /\ \A y \in (Listeners \cup Connectors) \ {x} : Holds(y)' <=> Holds(y)
    BY DEF LeaseInv, Holds
  <1>2. lease' \in [Listeners \cup Connectors -> Blocks \cup {None}]  BY DEF LeaseInv
  <1>3. /\ \A c \in Connectors : cst'[c] \in {"out", "found"} => ~Holds(c)'
        /\ \A l \in Listeners : lst'[l] = "out" => ~Holds(l)'
        /\ \A c \in Connectors : Holds(c)' => lease'[c] % 4 = 0
    BY <1>1 DEF LeaseInv
  <1>4. ASSUME NEW y \in (Listeners \cup Connectors) \ {x}, Holds(y)
        PROVE  lease[y] # lease[x]
    <2>1. CASE ~Holds(x)  BY <1>4, <2>1 DEF Holds
    <2>2. CASE Holds(x)
      <3>1. Apart(lease[x], Span(x), lease[y], Span(y))  BY <1>4, <2>2 DEF LeaseInv
      <3>2. lease[x] \in Nat /\ lease[y] \in Nat
        BY <1>4, <2>2, InPool DEF LeaseInv, Holds
      <3> QED BY <3>1, <3>2, Sizes DEF Apart
    <2> QED BY <2>1, <2>2
  <1>5. \A b \in leaked : b # lease[x]
    <2> TAKE b \in leaked
    <2>1. b \in Nat  BY InPool DEF LeaseInv
    <2>2. CASE ~Holds(x)  BY <2>1, <2>2 DEF Holds
    <2>3. CASE Holds(x)
      <3>1. Apart(b, HubSize, lease[x], Span(x))  BY <2>3 DEF LeaseInv
      <3>2. lease[x] \in Nat  BY <2>3, InPool DEF LeaseInv, Holds
      <3> QED BY <2>1, <3>1, <3>2, Sizes DEF Apart
    <2> QED BY <2>2, <2>3
  <1>6. allocated' = {lease'[c] : c \in {d \in Connectors : Holds(d)'}}
    BY <1>1, <1>4 DEF LeaseInv
  <1>7. blocks' = {lease'[l] : l \in {k \in Listeners : Holds(k)'}} \cup leaked
    BY <1>1, <1>4, <1>5 DEF LeaseInv
  <1>8. /\ \A y \in Listeners \cup Connectors : \A z \in Listeners \cup Connectors :
              Holds(y)' /\ Holds(z)' /\ y # z
                => Apart(lease'[y], Span(y), lease'[z], Span(z))
        /\ \A b \in leaked : \A y \in Listeners \cup Connectors :
              Holds(y)' => Apart(b, HubSize, lease'[y], Span(y))
    BY <1>1 DEF LeaseInv
  <1> QED BY <1>2, <1>3, <1>6, <1>7, <1>8 DEF LeaseInv

(* A step that leaves the pool alone.                                      *)
LEMMA LeaseKept ==
    ASSUME LeaseInv, UNCHANGED pVars,
           \A c \in Connectors :
               cst'[c] \in {"out", "found"} => cst[c] \in {"out", "found"},
           \A l \in Listeners : lst'[l] = "out" => lst[l] = "out"
    PROVE  LeaseInv'
  <1>1. \A x : Holds(x)' <=> Holds(x)  BY DEF Holds, pVars
  <1> QED BY <1>1 DEF LeaseInv, pVars

LEMMA LeaseInvListener ==
    ASSUME LeaseInv, Known, NEW l \in Listeners,
           \/ RegisterPair(l) \/ LeaseHub(l) \/ RegisterHub(l)
           \/ TakePair(l) \/ EndListener(l) \/ Deregister(l)
           \/ CloseListener(l) \/ Forward(l)
    PROVE  LeaseInv'
  <1>1. UNCHANGED cst /\ \A k \in Listeners : lst'[k] = "out" => lst[k] = "out"
    BY DEF RegisterPair, LeaseHub, RegisterHub, TakePair, EndListener, Deregister,
           CloseListener, Forward, LGoes, lVars, Known
  <1>2. CASE LeaseHub(l) /\ UNCHANGED pVars  BY <1>1, <1>2, LeaseKept
  <1>3. CASE LeaseHub(l) /\ ~UNCHANGED pVars
    <2> DEFINE a == Min(FreeHubs)
    <2>1. /\ FreeHubs # {} /\ blocks' = blocks \cup {a} /\ UNCHANGED allocated
          /\ lst[l] = "out"
          /\ \/ /\ lease' = [lease EXCEPT ![l] = a] /\ UNCHANGED leaked
                /\ lst' = [lst EXCEPT ![l] = "leased"]
             \/ leaked' = leaked \cup {a} /\ UNCHANGED lease
      BY <1>3 DEF LeaseHub, LGoes
    <2>2. /\ a \in Blocks
          /\ \A x \in Listeners \cup Connectors :
                 Holds(x) => Apart(a, HubSize, lease[x], Span(x))
          /\ \A b \in leaked : Apart(a, HubSize, b, HubSize)
      BY <2>1, HubBlock
    <2> HIDE DEF a
    <2>3. CASE UNCHANGED lease
      <3>1. leaked' = leaked \cup {a}
        <4>1. ~Holds(l) /\ a # None  BY <2>1, <2>2, VpnAssumption DEF LeaseInv, Blocks
        <4>2. [lease EXCEPT ![l] = a] # lease  BY <4>1 DEF LeaseInv, Holds
        <4> QED BY <2>1, <2>3, <4>2
      <3>2. \A x : Holds(x)' <=> Holds(x)  BY <2>3 DEF Holds
      <3>3. blocks' = {lease[k] : k \in {k \in Listeners : Holds(k)}} \cup leaked'
        BY <2>1, <3>1 DEF LeaseInv
      <3> QED BY <1>1, <2>1, <2>2, <2>3, <3>1, <3>2, <3>3 DEF LeaseInv
    <2>4. CASE lease' # lease
      <3>1. ~Holds(l)  BY <2>1 DEF LeaseInv
      <3>2. /\ lease' = [lease EXCEPT ![l] = a] /\ UNCHANGED leaked
            /\ lst' = [lst EXCEPT ![l] = "leased"]
        BY <2>1, <2>4
      <3>3. l \notin Connectors /\ Span(l) = HubSize /\ lst'[l] # "out"
        BY <3>2, VpnAssumption DEF Span, Known
      <3> QED BY <1>1, <2>1, <2>2, <3>1, <3>2, <3>3, LeaseTaken
    <2> QED BY <2>3, <2>4
  <1>4. CASE CloseListener(l)
    <2>1. /\ lease' = [lease EXCEPT ![l] = None] /\ blocks' = blocks \ {lease[l]}
          /\ UNCHANGED <<allocated, leaked>> /\ l \notin Connectors
      BY <1>4, VpnAssumption DEF CloseListener
    <2> QED BY <1>1, <2>1, LeaseGiven
  <1>5. CASE ~LeaseHub(l) /\ ~CloseListener(l)
    <2>1. UNCHANGED pVars
      BY <1>5 DEF RegisterPair, RegisterHub, TakePair, EndListener, Deregister, Forward
    <2> QED BY <1>1, <2>1, LeaseKept
  <1> QED BY <1>2, <1>3, <1>4, <1>5

LEMMA LeaseInvConnector ==
    ASSUME LeaseInv, Known, NEW c \in Connectors,
           \/ LookUp(c) \/ Refuse(c) \/ LeasePair(c) \/ TakeSlot(c)
           \/ SendReady(c) \/ Pair(c) \/ Announce(c) \/ EndPair(c)
           \/ EndSpoke(c) \/ Notify(c) \/ RelayArrives(c) \/ SelfReport(c)
    PROVE  LeaseInv'
  <1>1. /\ UNCHANGED lst
        /\ \A d \in Connectors :
              cst'[d] \in {"out", "found"} => cst[d] \in {"out", "found"}
    BY DEF LookUp, Refuse, LeasePair, TakeSlot, SendReady, Pair, Announce, EndPair,
           EndSpoke, Notify, RelayArrives, SelfReport, CGoes, lVars, Known
  <1>2. c \notin Listeners /\ Span(c) = 4  BY VpnAssumption DEF Span
  <1>3. CASE LeasePair(c) /\ FreePairs # {}
    <2> DEFINE a == Min(FreePairs)
    <2>1. /\ lease' = [lease EXCEPT ![c] = a] /\ allocated' = allocated \cup {a}
          /\ UNCHANGED <<blocks, leaked>> /\ cst[c] = "found"
          /\ cst' = [cst EXCEPT ![c] = "leased"]
      BY <1>3 DEF LeasePair, CGoes
    <2>2. /\ a \in Blocks /\ a % 4 = 0
          /\ \A d \in Connectors : Holds(d) => Apart(a, 4, lease[d], 4)
          /\ \A l \in Listeners : Holds(l) => Apart(a, 4, lease[l], HubSize)
          /\ \A b \in leaked : Apart(a, 4, b, HubSize)
      BY <1>3, PairBlock
    <2> HIDE DEF a
    <2>3. \A x \in Listeners \cup Connectors : Holds(x) => Apart(a, 4, lease[x], Span(x))
      BY <2>2 DEF Span
    <2>4. ~Holds(c) /\ cst'[c] \notin {"out", "found"}
      BY <2>1 DEF LeaseInv, Known
    <2> QED BY <1>1, <1>2, <2>1, <2>2, <2>3, <2>4, LeaseTaken
  <1>4. CASE (Pair(c) \/ EndPair(c)) /\ ~UNCHANGED pVars
    <2>1. /\ lease' = [lease EXCEPT ![c] = None] /\ allocated' = allocated \ {lease[c]}
          /\ UNCHANGED <<blocks, leaked>>
      BY <1>4 DEF Pair, EndPair, pVars
    <2> QED BY <1>1, <1>2, <2>1, LeaseGiven
  <1>5. CASE UNCHANGED pVars  BY <1>1, <1>5, LeaseKept
  <1>6. UNCHANGED pVars \/ Pair(c) \/ EndPair(c) \/ (LeasePair(c) /\ FreePairs # {})
    BY DEF LookUp, Refuse, LeasePair, TakeSlot, SendReady, Announce, EndSpoke,
           Notify, RelayArrives, SelfReport, pVars
  <1> QED BY <1>3, <1>4, <1>5, <1>6

(* vpn_server.rs, VpnPool and its lease guards: on every path a block of   *)
(* the pool has one holder, which frees it, and no two blocks overlap.     *)
THEOREM LeasesAreExact == Spec => []LeasesExact
  <1>1. LeaseInv /\ UNCHANGED vars => LeaseInv'
    BY LeaseKept DEF vars, lVars
  <1>2. LeaseInv /\ Known /\ [Next]_vars => LeaseInv'
    BY <1>1, LeaseInvListener, LeaseInvConnector DEF Next
  <1>3. LeaseInv => LeasesExact
    <2> SUFFICES ASSUME LeaseInv PROVE LeasesExact  OBVIOUS
    <2> DEFINE held == {x \in Listeners \cup Connectors : lease[x] # None}
    <2>1. /\ held \cap Connectors = {d \in Connectors : Holds(d)}
          /\ held \cap Listeners = {d \in Listeners : Holds(d)}
      BY DEF Holds
    <2>2. \A x \in held : \A y \in held \ {x} :
              lease[x] + Span(x) <= lease[y] \/ lease[y] + Span(y) <= lease[x]
      BY DEF LeaseInv, Holds, Apart
    <2>3. /\ allocated = {lease[c] : c \in held \cap Connectors}
          /\ blocks = {lease[l] : l \in held \cap Listeners} \cup leaked
      BY <2>1 DEF LeaseInv
    <2> QED BY <2>2, <2>3 DEF LeasesExact
  <1> QED BY <1>2, <1>3, LeaseInvInit, KnownAlways, PTL DEF Spec

-----------------------------------------------------------------------------
(* The hub and its client.                                                 *)

HubTypes ==
    /\ addr \in [Connectors -> Hosts \cup {0}] /\ peers \subseteq Connectors
    /\ events \in [Listeners -> Seq({"join", "leave"} \X Connectors)]
    /\ relay \in [Connectors -> {"none", "sent", "buffered", "used"}]
    /\ met \subseteq Connectors /\ live \subseteq Connectors
    /\ table \in [Listeners -> [Hosts -> Connectors \cup {None}]]

(* The peers of a hub are its connectors that are up, at addresses of      *)
(* their own; whoever has had an address keeps it on record.               *)
Slots ==
    /\ \A c \in Connectors :
          /\ c \in peers <=> cst[c] \in {"leased", "told", "in"} /\ target[c] \in hub
          /\ addr[c] # 0 => /\ target[c] \in hub
                           /\ cst[c] \in {"leased", "told", "in", "freeing", "gone"}
          /\ c \in peers \/ cst[c] = "freeing" => addr[c] # 0
    /\ \A c \in peers, d \in peers :
          target[c] = target[d] /\ addr[c] = addr[d] => c = d

Queued(kind, c) ==
    \E i \in 1 .. Len(events[target[c]]) : events[target[c]][i] = <<kind, c>>
AtHub(c) == c \in met \cup live

(* What is on its way to the hub client, and what the client has of a peer *)
(* that has ended: unless its Leave was lost, the Leave is still to come.  *)
EventOf(l, i) ==
    /\ target[events[l][i][2]] = l /\ addr[events[l][i][2]] # 0
    /\ events[l][i][1] = "join" => cst[events[l][i][2]] \in {"in", "freeing", "gone"}
    /\ events[l][i][1] = "leave" => cst[events[l][i][2]] = "gone"

JoinFirst(l, i, j) ==
    /\ events[l][i][1] = "leave" /\ events[l][j][1] = "join"
    /\ events[l][i][2] = events[l][j][2]
    => j < i

AwaitsLeave(c) ==
    /\ cst[c] = "gone" /\ c \notin lost /\ addr[c] # 0 /\ Receives(target[c])
    /\ AtHub(c) \/ Queued("join", c)
    => Queued("leave", c)

UnderWay ==
    /\ \A l \in Listeners : \A i \in 1 .. Len(events[l]) :
          EventOf(l, i) /\ \A j \in 1 .. Len(events[l]) : JoinFirst(l, i, j)
    /\ \A c \in Connectors :
          /\ AtHub(c) \/ relay[c] # "none" =>
                addr[c] # 0 /\ cst[c] \in {"in", "freeing", "gone"}
          /\ AwaitsLeave(c)

Rival(c, d) == c # d /\ target[c] = target[d] /\ addr[c] = addr[d]

(* An earlier peer at the address of one that is up has ended, and its     *)
(* events come before those of its successor.                              *)
Preceded(c, d) ==
    /\ cst[d] = "gone" /\ d \notin lost
    /\ \A i \in 1 .. Len(events[target[c]]) :
          events[target[c]][i][2] = d =>
              /\ ~AtHub(c)
              /\ \A j \in 1 .. Len(events[target[c]]) :
                    events[target[c]][j][2] = c => i < j

Succession ==
    \A c \in Connectors, d \in Connectors :
        /\ c \in peers /\ c \notin reused /\ Receives(target[c]) /\ Rival(c, d)
        => Preceded(c, d)

HubInv == HubTypes /\ Slots /\ UnderWay /\ Succession /\ SpokeRouted

LEMMA HubInvInit == Init => HubInv
  <1> SUFFICES ASSUME Init PROVE HubInv  OBVIOUS
  <1> USE VpnAssumption DEF Init
  <1>1. HubTypes
    <2>1. events \in [Listeners -> Seq({"join", "leave"} \X Connectors)]  OBVIOUS
    <2>2. table \in [Listeners -> [Hosts -> Connectors \cup {None}]]  OBVIOUS
    <2> QED BY <2>1, <2>2 DEF HubTypes
  <1>2. Slots /\ SpokeRouted /\ Succession
    BY DEF Slots, SpokeRouted, Succession
  <1>3. UnderWay  BY DEF UnderWay, AtHub, AwaitsLeave
  <1> QED BY <1>1, <1>2, <1>3 DEF HubInv

(* The steps of a listener that send its client nothing.                   *)
LEMMA HubKeptListener ==
    ASSUME Known, HubInv,
           UNCHANGED <<cst, target, addr, peers, relay, met, live, table, lost, reused>>,
           events' \in [Listeners -> Seq({"join", "leave"} \X Connectors)],
           \A l \in Listeners : events'[l] = events[l] \/ events'[l] = <<>>,
           hub' \subseteq Listeners,
           \A c \in Connectors : target[c] \in hub' <=> target[c] \in hub,
           \A c \in Connectors : addr[c] # 0 /\ Receives(target[c])' =>
               Receives(target[c]) /\ events'[target[c]] = events[target[c]]
    PROVE  HubInv'
  <1> USE DEF HubInv
  <1>1. HubTypes'  BY DEF HubTypes
  <1>2. Slots'  BY DEF Slots
  <1>3. UnderWay'
    <2>1. ASSUME NEW l \in Listeners, NEW i \in 1 .. Len(events'[l])
          PROVE  EventOf(l, i)' /\ \A j \in 1 .. Len(events'[l]) : JoinFirst(l, i, j)'
      <3>1. i \in 1 .. Len(events[l]) /\ events'[l] = events[l]  BY <2>1
      <3>2. EventOf(l, i) /\ \A j \in 1 .. Len(events[l]) : JoinFirst(l, i, j)
        BY <3>1 DEF UnderWay
      <3> QED BY <3>1, <3>2 DEF EventOf, JoinFirst
    <2>2. ASSUME NEW c \in Connectors PROVE AwaitsLeave(c)'
      <3>1. AwaitsLeave(c)  BY DEF UnderWay
      <3> QED BY <3>1 DEF AwaitsLeave, Queued, AtHub
    <2>3. \A c \in Connectors : AtHub(c)' <=> AtHub(c)  BY DEF AtHub
    <2> QED BY <2>1, <2>2, <2>3 DEF UnderWay
  <1>4. Succession'
    <2> SUFFICES ASSUME NEW c \in Connectors, NEW d \in Connectors,
                        c \in peers, c \notin reused, Receives(target[c])', Rival(c, d)'
                 PROVE  Preceded(c, d)'
      BY DEF Succession
    <2>1. addr[c] # 0  BY DEF Slots
    <2>2. Rival(c, d)  BY DEF Rival
    <2>3. Preceded(c, d)  BY <2>1, <2>2 DEF Succession
    <2> QED BY <2>1, <2>3 DEF Preceded, AtHub
  <1>5. SpokeRouted'  BY DEF SpokeRouted
  <1> QED BY <1>1, <1>2, <1>3, <1>4, <1>5

(* The steps of a connector that has no slot and gets none.                *)
LEMMA HubKeptPair ==
    ASSUME Known, HubInv, NEW c \in Connectors,
           UNCHANGED <<lst, hub, addr, peers, events, relay, met, live, table, lost, reused>>,
           addr[c] = 0, c \notin peers,
           \A d \in Connectors \ {c} : cst'[d] = cst[d] /\ target'[d] = target[d],
           ~(cst'[c] \in {"leased", "told", "in"} /\ target'[c] \in hub),
           cst'[c] # "freeing"
    PROVE  HubInv'
  <1> USE DEF HubInv
  <1>1. HubTypes'  BY DEF HubTypes
  <1>2. Slots'
    <2>1. peers \subseteq Connectors  BY DEF HubTypes
    <2>2. ASSUME NEW d \in Connectors
          PROVE  /\ d \in peers' <=> cst'[d] \in {"leased", "told", "in"} /\ target'[d] \in hub'
                 /\ addr'[d] # 0 => /\ target'[d] \in hub'
                                   /\ cst'[d] \in {"leased", "told", "in", "freeing", "gone"}
                 /\ d \in peers' \/ cst'[d] = "freeing" => addr'[d] # 0
      BY DEF Slots
    <2>3. \A d \in peers', e \in peers' :
             target'[d] = target'[e] /\ addr'[d] = addr'[e] => d = e
      BY <2>1 DEF Slots
    <2> QED BY <2>2, <2>3 DEF Slots
  <1>3. UnderWay'
    <2>1. ASSUME NEW l \in Listeners, NEW i \in 1 .. Len(events'[l])
          PROVE  EventOf(l, i)' /\ \A j \in 1 .. Len(events'[l]) : JoinFirst(l, i, j)'
      <3>1. EventOf(l, i) /\ \A j \in 1 .. Len(events[l]) : JoinFirst(l, i, j)
        BY DEF UnderWay
      <3>2. events[l][i] \in {"join", "leave"} \X Connectors  BY DEF HubTypes
      <3>3. events[l][i][2] \in Connectors \ {c}  BY <3>1, <3>2 DEF EventOf
      <3> QED BY <3>1, <3>3 DEF EventOf, JoinFirst
    <2>2. ASSUME NEW d \in Connectors PROVE AwaitsLeave(d)'
      <3>1. AwaitsLeave(d)  BY DEF UnderWay
      <3> QED BY <3>1 DEF AwaitsLeave, Queued, AtHub, Receives
    <2>3. \A d \in Connectors :
             AtHub(d)' \/ relay'[d] # "none" =>
                addr'[d] # 0 /\ cst'[d] \in {"in", "freeing", "gone"}
      BY DEF AtHub, UnderWay
    <2> QED BY <2>1, <2>2, <2>3 DEF UnderWay
  <1>4. Succession'
    <2> SUFFICES ASSUME NEW e \in Connectors, NEW d \in Connectors,
                        e \in peers, e \notin reused, Receives(target[e])', Rival(e, d)'
                 PROVE  Preceded(e, d)'
      BY DEF Succession
    <2>1. addr[e] # 0 /\ e # c /\ d # c  BY DEF Slots, Rival
    <2>2. Rival(e, d) /\ Receives(target[e])  BY <2>1 DEF Rival, Receives
    <2>3. Preceded(e, d)  BY <2>1, <2>2 DEF Succession
    <2> QED BY <2>1, <2>3 DEF Preceded, AtHub
  <1>5. SpokeRouted'
    <2>1. c \notin live /\ live \subseteq Connectors  BY DEF UnderWay, AtHub, HubTypes
    <2> QED BY <2>1 DEF SpokeRouted
  <1> QED BY <1>1, <1>2, <1>3, <1>4, <1>5

(* What the queue of a hub is after an event was added.                    *)
LEMMA Added ==
    ASSUME HubTypes, NEW l \in Listeners, NEW e \in {"join", "leave"} \X Connectors,
           events' = [events EXCEPT ![l] = Append(@, e)]
    PROVE  /\ events' \in [Listeners -> Seq({"join", "leave"} \X Connectors)]
           /\ Len(events[l]) \in Nat /\ Len(events'[l]) = Len(events[l]) + 1
           /\ events'[l][Len(events[l]) + 1] = e
           /\ \A i \in 1 .. Len(events[l]) : events'[l][i] = events[l][i]
           /\ \A k \in Listeners \ {l} : events'[k] = events[k]
  <1>1. events[l] \in Seq({"join", "leave"} \X Connectors)  BY DEF HubTypes
  <1>2. events'[l] = Append(events[l], e)  BY DEF HubTypes
  <1>3. Append(events[l], e) \in Seq({"join", "leave"} \X Connectors)  BY <1>1
  <1> QED BY <1>1, <1>2, <1>3 DEF HubTypes

(* ... and after one was taken.                                            *)
LEMMA Taken ==
    ASSUME HubTypes, NEW l \in Listeners, events[l] # <<>>,
           events' = [events EXCEPT ![l] = Tail(@)]
    PROVE  /\ events' \in [Listeners -> Seq({"join", "leave"} \X Connectors)]
           /\ Len(events[l]) \in Nat \ {0} /\ Len(events'[l]) = Len(events[l]) - 1
           /\ Head(events[l]) = events[l][1]
           /\ events[l][1] \in {"join", "leave"} \X Connectors
           /\ \A i \in 1 .. Len(events[l]) - 1 : events'[l][i] = events[l][i + 1]
           /\ \A k \in Listeners \ {l} : events'[k] = events[k]
  <1>1. events[l] \in Seq({"join", "leave"} \X Connectors)  BY DEF HubTypes
  <1>2. events'[l] = Tail(events[l])  BY DEF HubTypes
  <1>3. Tail(events[l]) \in Seq({"join", "leave"} \X Connectors)  BY <1>1
  <1> QED BY <1>1, <1>2, <1>3 DEF HubTypes

(* An event is a pair, about a connector with an address of this hub.      *)
LEMMA EventFacts ==
    ASSUME HubInv, NEW l \in Listeners, NEW i \in 1 .. Len(events[l])
    PROVE  /\ events[l][i] \in {"join", "leave"} \X Connectors
           /\ events[l][i][2] \in Connectors
           /\ events[l][i] = <<events[l][i][1], events[l][i][2]>>
           /\ EventOf(l, i) /\ cst[events[l][i][2]] \in {"in", "freeing", "gone"}
           /\ \A j \in 1 .. Len(events[l]) : JoinFirst(l, i, j)
  <1>1. events[l][i] \in {"join", "leave"} \X Connectors  BY DEF HubInv, HubTypes
  <1>2. EventOf(l, i) /\ \A j \in 1 .. Len(events[l]) : JoinFirst(l, i, j)
    BY DEF HubInv, UnderWay
  <1>3. cst[events[l][i][2]] \in {"in", "freeing", "gone"}  BY <1>1, <1>2 DEF EventOf
  <1> QED BY <1>1, <1>2, <1>3

(* The peer that is up at an address is the only one of that address the   *)
(* client has or will hear of.                                             *)
LEMMA NoRival ==
    ASSUME Known, HubInv, NEW e \in live, cst[e] = "in", e \notin reused,
           Receives(target[e]), NEW c \in Connectors, Rival(e, c)
    PROVE  /\ ~AtHub(c)
           /\ \A i \in 1 .. Len(events[target[e]]) : events[target[e]][i][2] # c
  <1>1. e \in Connectors /\ e \in met \cup live /\ AtHub(e)
    BY DEF HubInv, HubTypes, AtHub
  <1>2. addr[e] # 0 /\ target[e] \in hub /\ e \in peers
    BY <1>1 DEF HubInv, UnderWay, Slots
  <1>3. Preceded(e, c)  BY <1>1, <1>2 DEF HubInv, Succession
  <1>4. \A i \in 1 .. Len(events[target[e]]) : events[target[e]][i][2] # c
    BY <1>1, <1>3 DEF Preceded
  <1>5. ~Queued("leave", c)  BY <1>4 DEF Queued, Rival
  <1>6. cst[c] = "gone" /\ c \notin lost /\ addr[c] # 0 /\ Receives(target[c])
    BY <1>2, <1>3 DEF Preceded, Rival
  <1>7. AwaitsLeave(c)  BY DEF HubInv, UnderWay
  <1> QED BY <1>4, <1>5, <1>6, <1>7 DEF AwaitsLeave

(* The table changes at one address only.                                  *)
LEMMA TableAt ==
    ASSUME Known, HubInv, NEW c \in Connectors, addr[c] # 0, NEW v \in Connectors \cup {None},
           table' = [table EXCEPT ![target[c]][addr[c]] = v]
    PROVE  /\ table' \in [Listeners -> [Hosts -> Connectors \cup {None}]]
           /\ table'[target[c]][addr[c]] = v
           /\ \A e \in Connectors :
                 addr[e] # 0 /\ ~(target[e] = target[c] /\ addr[e] = addr[c]) =>
                     table'[target[e]][addr[e]] = table[target[e]][addr[e]]
  <1>1. target[c] \in Listeners /\ addr[c] \in Hosts
    BY DEF HubInv, HubTypes, Slots, Known
  <1>2. \A e \in Connectors : addr[e] # 0 => target[e] \in Listeners /\ addr[e] \in Hosts
    BY DEF HubInv, HubTypes, Slots, Known
  <1>3. table \in [Listeners -> [Hosts -> Connectors \cup {None}]]  BY DEF HubInv, HubTypes
  <1> QED BY <1>1, <1>2, <1>3

LEMMA HubTakeSlot ==
    ASSUME Known, HubInv, NEW c \in Connectors, TakeSlot(c), c \in peers'
    PROVE  HubInv'
  <1> USE DEF HubInv
  <1> DEFINE l == target[c]
             h == Min(FreeHosts(l))
  <1>1. cst[c] = "found" /\ l \in hub /\ c \notin peers /\ addr[c] = 0
    BY DEF TakeSlot, Slots
  <1>2. /\ FreeHosts(l) # {} /\ cst' = [cst EXCEPT ![c] = "leased"]
        /\ peers' = peers \cup {c} /\ addr' = [addr EXCEPT ![c] = h]
        /\ reused' = reused \cup
                    {x \in {c} : \E d \in Connectors \ {c} :
                        /\ target[d] = l /\ addr[d] = h
                        /\ cst[d] = "freeing" \/ d \in lost}
        /\ UNCHANGED <<lst, hub, target, events, relay, met, live, table, lost>>
    BY <1>1 DEF TakeSlot, CGoes, lVars, cVars
  <1>3. h \in Hosts /\ \A d \in peers : target[d] = l => addr[d] # h
    <2>1. FreeHosts(l) \subseteq Hosts  BY DEF FreeHosts
    <2>2. Hosts \subseteq Nat  BY Sizes DEF Hosts
    <2>3. h \in FreeHosts(l)  BY <1>2, <2>1, <2>2, MinOfNats
    <2> HIDE DEF h
    <2> QED BY <2>1, <2>3 DEF FreeHosts
  <1>4. h # 0  BY <1>3, Sizes DEF Hosts
  <1> HIDE DEF h
  <1>5. /\ cst'[c] = "leased" /\ addr'[c] = h
        /\ \A d \in Connectors \ {c} : cst'[d] = cst[d] /\ addr'[d] = addr[d]
    BY <1>2 DEF Known, HubTypes
  <1>6. HubTypes'  BY <1>2, <1>3 DEF HubTypes
  <1>7. Slots'
    <2>1. peers \subseteq Connectors  BY DEF HubTypes
    <2> QED BY <1>1, <1>2, <1>3, <1>4, <1>5, <2>1 DEF Slots
  <1>8. ~AtHub(c) /\ relay[c] = "none"  BY <1>1 DEF UnderWay
  <1>9. \A k \in Listeners : \A i \in 1 .. Len(events[k]) :
           events[k][i][2] \in Connectors \ {c}
    BY <1>1, EventFacts
  <1>10. UnderWay'
    <2>1. ASSUME NEW k \in Listeners, NEW i \in 1 .. Len(events'[k])
          PROVE  EventOf(k, i)' /\ \A j \in 1 .. Len(events'[k]) : JoinFirst(k, i, j)'
      BY <1>2, <1>5, <1>9, EventFacts DEF EventOf, JoinFirst
    <2>2. ASSUME NEW d \in Connectors PROVE AwaitsLeave(d)'
      <3>1. AwaitsLeave(d)  BY DEF UnderWay
      <3> QED BY <1>2, <1>5, <3>1 DEF AwaitsLeave, Queued, AtHub, Receives
    <2>3. \A d \in Connectors :
             AtHub(d)' \/ relay'[d] # "none" =>
                addr'[d] # 0 /\ cst'[d] \in {"in", "freeing", "gone"}
      BY <1>2, <1>5, <1>8 DEF AtHub, UnderWay
    <2> QED BY <2>1, <2>2, <2>3 DEF UnderWay
  <1>11. Succession'
    <2> SUFFICES ASSUME NEW e \in Connectors, NEW d \in Connectors,
                        e \in peers', e \notin reused', Receives(target[e])', Rival(e, d)'
                 PROVE  Preceded(e, d)'
      BY <1>2 DEF Succession
    <2>1. CASE e = c
      <3>1. d # c /\ target[d] = l /\ addr[d] = h /\ c \notin reused'
        BY <1>2, <1>5, <2>1 DEF Rival
      <3>2. cst[d] # "freeing" /\ d \notin lost  BY <1>2, <3>1
      <3>3. d \notin peers /\ cst[d] = "gone"
        BY <1>1, <1>3, <1>4, <3>1, <3>2 DEF Slots
      <3>4. l \in Listeners  BY <1>1 DEF Known
      <3> QED BY <1>2, <1>5, <1>8, <1>9, <2>1, <3>1, <3>2, <3>3, <3>4 DEF Preceded, AtHub
    <2>2. CASE e # c
      <3>1. e \in peers /\ addr'[e] = addr[e] /\ e \notin reused  BY <1>2, <1>5, <2>2
      <3>2. d # c  BY <1>2, <1>3, <1>5, <3>1 DEF Rival
      <3>3. Rival(e, d) /\ Receives(target[e])
        BY <1>2, <1>5, <3>1, <3>2 DEF Rival, Receives
      <3>4. Preceded(e, d)  BY <3>1, <3>3 DEF Succession
      <3> QED BY <1>2, <1>5, <3>2, <3>4 DEF Preceded, AtHub
    <2> QED BY <2>1, <2>2
  <1>12. SpokeRouted'
    <2>1. live \subseteq Connectors /\ c \notin live  BY <1>8 DEF HubTypes, AtHub
    <2> QED BY <1>2, <1>5, <2>1 DEF SpokeRouted
  <1> QED BY <1>6, <1>7, <1>10, <1>11, <1>12

(* A peer that goes on: the slot is kept until it is given up.             *)
LEMMA HubPeerSteps ==
    ASSUME Known, HubInv, NEW c \in Connectors, target[c] \in hub,
           SendReady(c) \/ EndSpoke(c)
    PROVE  HubInv'
  <1> USE DEF HubInv
  <1>1. /\ cst[c] \in {"leased", "in"} /\ cst' = [cst EXCEPT ![c] = cst'[c]]
        /\ \/ cst[c] = "leased" /\ cst'[c] = "told" /\ peers' = peers
           \/ /\ cst'[c] = "freeing"
              /\ peers' = peers \ {d \in peers : target[d] = target[c] /\ addr[d] = addr[c]}
        /\ UNCHANGED <<lst, hub, target, addr, events, relay, met, live, table, lost, reused>>
    BY DEF SendReady, EndSpoke, CGoes, lVars, cVars, hVars, Known
  <1>2. c \in peers /\ addr[c] # 0 /\ peers \subseteq Connectors
    BY <1>1 DEF Slots, HubTypes
  <1>3. /\ \A d \in Connectors \ {c} : cst'[d] = cst[d]
        /\ peers' = IF cst'[c] = "freeing" THEN peers \ {c} ELSE peers
    BY <1>1, <1>2 DEF Slots, Known
  <1>4. HubTypes'  BY <1>1, <1>3 DEF HubTypes
  <1>5. Slots'
    <2>1. peers' \subseteq peers  BY <1>3
    <2> QED BY <1>1, <1>2, <1>3, <2>1 DEF Slots
  <1>6. cst[c] = "leased" =>
           /\ ~AtHub(c) /\ relay[c] = "none"
           /\ \A k \in Listeners : \A i \in 1 .. Len(events[k]) : events[k][i][2] # c
    BY EventFacts DEF UnderWay
  <1>7. UnderWay'
    <2>1. ASSUME NEW k \in Listeners, NEW i \in 1 .. Len(events'[k])
          PROVE  EventOf(k, i)' /\ \A j \in 1 .. Len(events'[k]) : JoinFirst(k, i, j)'
      <3>1. /\ i \in 1 .. Len(events[k]) /\ events[k][i][2] \in Connectors
            /\ EventOf(k, i) /\ \A j \in 1 .. Len(events[k]) : JoinFirst(k, i, j)
        BY <1>1, EventFacts
      <3> QED BY <1>1, <1>3, <1>6, <3>1 DEF EventOf, JoinFirst
    <2>2. ASSUME NEW d \in Connectors PROVE AwaitsLeave(d)'
      <3>1. AwaitsLeave(d)  BY DEF UnderWay
      <3> QED BY <1>1, <1>3, <3>1 DEF AwaitsLeave, Queued, AtHub, Receives
    <2>3. \A d \in Connectors :
             AtHub(d)' \/ relay'[d] # "none" =>
                addr'[d] # 0 /\ cst'[d] \in {"in", "freeing", "gone"}
      BY <1>1, <1>3, <1>6 DEF AtHub, UnderWay
    <2> QED BY <2>1, <2>2, <2>3 DEF UnderWay
  <1>8. Succession'
    <2> SUFFICES ASSUME NEW e \in Connectors, NEW d \in Connectors,
                        e \in peers', e \notin reused', Receives(target[e])', Rival(e, d)'
                 PROVE  Preceded(e, d)'
      BY <1>1 DEF Succession
    <2>1. e \in peers /\ Rival(e, d) /\ Receives(target[e])
      BY <1>1, <1>3 DEF Rival, Receives
    <2>2. Preceded(e, d)  BY <1>1, <2>1 DEF Succession
    <2>3. d # c  BY <1>1, <2>2 DEF Preceded
    <2> QED BY <1>1, <1>3, <2>2, <2>3 DEF Preceded, AtHub
  <1>9. SpokeRouted'
    <2>1. live \subseteq Connectors  BY DEF HubTypes
    <2>2. cst'[c] # "in"  BY <1>1
    <2> QED BY <1>1, <1>3, <2>1, <2>2 DEF SpokeRouted
  <1> QED BY <1>4, <1>5, <1>7, <1>8, <1>9

(* Join, or Leave: the event is the last in the queue, or there is no      *)
(* receiver for it or no room.                                             *)
LEMMA HubEventSteps ==
    ASSUME Known, HubInv, NEW c \in Connectors, Announce(c) \/ Notify(c)
    PROVE  HubInv'
  <1> USE DEF HubInv
  <1> DEFINE l == target[c]
             kind == IF Announce(c) THEN "join" ELSE "leave"
             n == Len(events[l])
  <1>1. addr[c] # 0 /\ l \in hub /\ l \in Listeners
    BY DEF Announce, Notify, Slots, Known
  <1>2. /\ UNCHANGED <<lst, hub, target, addr, peers, met, live, table, reused>>
        /\ cst' = [cst EXCEPT ![c] = cst'[c]]
        /\ \/ /\ kind = "join" /\ cst[c] = "told" /\ cst'[c] = "in"
              /\ relay' = [relay EXCEPT ![c] = "sent"] /\ lost' = lost
           \/ /\ kind = "leave" /\ cst[c] = "freeing" /\ cst'[c] = "gone"
              /\ relay' = relay
              /\ lost' = lost \/ lost' = lost \cup {c}
        /\ \/ events' = [events EXCEPT ![l] = Append(@, <<kind, c>>)] /\ lost' = lost
           \/ events' = events /\ (kind = "leave" => c \in lost')
              /\ (kind = "join" => ~Receives(l))
    BY DEF Announce, Notify, CGoes, lVars, cVars, hVars, Known
  <1>3. kind \in {"join", "leave"}  OBVIOUS
  <1> HIDE DEF kind
  <1>4. \A d \in Connectors \ {c} :
           /\ cst'[d] = cst[d] /\ relay'[d] = relay[d] /\ (d \in lost' <=> d \in lost)
    BY <1>2 DEF Known, HubTypes
  <1>5. /\ events' \in [Listeners -> Seq({"join", "leave"} \X Connectors)]
        /\ n \in Nat /\ \A i \in 1 .. n : events'[l][i] = events[l][i]
        /\ \A k \in Listeners \ {l} : events'[k] = events[k]
        /\ \/ Len(events'[l]) = n + 1 /\ events'[l][n + 1] = <<kind, c>> /\ lost' = lost
           \/ Len(events'[l]) = n /\ (kind = "leave" => c \in lost')
              /\ (kind = "join" => ~Receives(l))
    <2>1. CASE events' = events
      <3>1. events[l] \in Seq({"join", "leave"} \X Connectors)
        BY <1>1 DEF HubTypes
      <3>2. n \in Nat  BY <3>1
      <3>3. events # [events EXCEPT ![l] = Append(@, <<kind, c>>)]
        <4>1. Len(Append(events[l], <<kind, c>>)) = n + 1
          BY <1>3, <3>1
        <4>2. [events EXCEPT ![l] = Append(@, <<kind, c>>)][l]
                = Append(events[l], <<kind, c>>)
          BY <1>1 DEF HubTypes
        <4> QED BY <3>2, <4>1, <4>2
      <3> QED BY <1>2, <2>1, <3>2, <3>3 DEF HubTypes
    <2>2. CASE events' # events
      <3>1. <<kind, c>> \in {"join", "leave"} \X Connectors  BY <1>3
      <3> QED BY <1>1, <1>2, <2>2, <3>1, Added
    <2> QED BY <2>1, <2>2
  <1> HIDE DEF n
  <1>6. kind = "join" =>
           /\ ~AtHub(c) /\ relay[c] = "none"
           /\ \A k \in Listeners : \A i \in 1 .. Len(events[k]) : events[k][i][2] # c
    BY <1>2, EventFacts DEF UnderWay
  <1>7. \A k \in Listeners : \A i \in 1 .. Len(events[k]) :
           events[k][i][2] = c => events[k][i][1] # "leave"
    BY <1>2, EventFacts DEF EventOf
  <1>8. HubTypes'  BY <1>2, <1>5 DEF HubTypes
  <1>9. Slots'
    <2>1. peers \subseteq Connectors  BY DEF HubTypes
    <2> QED BY <1>1, <1>2, <1>4, <2>1 DEF Slots
  <1>10. UnderWay'
    <2>1. ASSUME NEW k \in Listeners, NEW i \in 1 .. Len(events[k])
          PROVE  /\ events'[k][i] = events[k][i] /\ EventOf(k, i)'
                 /\ events[k][i][2] \in Connectors
      <3>1. events'[k][i] = events[k][i]  BY <1>5 DEF n
      <3>2. EventOf(k, i) /\ events[k][i][2] \in Connectors  BY EventFacts
      <3> QED BY <1>2, <1>4, <1>6, <1>7, <3>1, <3>2 DEF EventOf
    <2>2. ASSUME NEW k \in Listeners, NEW i \in 1 .. Len(events'[k]),
                 ~(i \in 1 .. Len(events[k]))
          PROVE  k = l /\ i = n + 1 /\ events'[k][i] = <<kind, c>> /\ EventOf(k, i)'
      <3>1. k = l /\ i = n + 1 /\ events'[k][i] = <<kind, c>>  BY <1>5, <2>2 DEF n
      <3>2. events'[k][i][1] = kind /\ events'[k][i][2] = c  BY <3>1
      <3> QED BY <1>1, <1>2, <3>1, <3>2 DEF EventOf
    <2>3. ASSUME NEW k \in Listeners, NEW i \in 1 .. Len(events'[k]),
                 NEW j \in 1 .. Len(events'[k])
          PROVE  JoinFirst(k, i, j)'
      <3>1. CASE i \in 1 .. Len(events[k]) /\ j \in 1 .. Len(events[k])
        <4>1. JoinFirst(k, i, j)  BY <3>1, EventFacts
        <4> QED BY <2>1, <3>1, <4>1 DEF JoinFirst
      <3>2. CASE i \in 1 .. Len(events[k]) /\ j \notin 1 .. Len(events[k])
        <4>1. k = l /\ j = n + 1 /\ events'[k][j][1] = kind /\ events'[k][j][2] = c
          BY <2>2, <3>2
        <4> QED BY <1>6, <1>7, <2>1, <3>2, <4>1 DEF JoinFirst
      <3>3. CASE i \notin 1 .. Len(events[k]) /\ j \in 1 .. Len(events[k])
        <4>1. k = l /\ i = n + 1  BY <2>2, <3>3
        <4> QED BY <1>5, <3>3, <4>1 DEF JoinFirst, n
      <3>4. CASE i \notin 1 .. Len(events[k]) /\ j \notin 1 .. Len(events[k])
        <4>1. i = j  BY <2>2, <3>4
        <4> QED BY <4>1 DEF JoinFirst
      <3> QED BY <3>1, <3>2, <3>3, <3>4
    <2>4. ASSUME NEW d \in Connectors \ {c}, NEW q, addr[d] # 0
          PROVE  Queued(q, d)' <=> Queued(q, d)
      <3>1. target[d] \in Listeners  BY <2>4 DEF Slots, Known
      <3>2. CASE target[d] # l  BY <1>2, <1>5, <3>1, <3>2 DEF Queued
      <3>3. CASE target[d] = l
        <4>1. <<kind, c>> # <<q, d>>  OBVIOUS
        <4>2. target'[d] = l /\ Len(events[l]) = n  BY <1>2, <3>3 DEF n
        <4>3. /\ \A i \in 1 .. n : i \in 1 .. Len(events'[l]) /\ events'[l][i] = events[l][i]
              /\ \A i \in 1 .. Len(events'[l]) :
                    (i \in 1 .. n /\ events'[l][i] = events[l][i]) \/ events'[l][i] = <<kind, c>>
          BY <1>5
        <4> QED BY <3>3, <4>1, <4>2, <4>3 DEF Queued
      <3> QED BY <3>2, <3>3
    <2>5. ASSUME NEW d \in Connectors PROVE AwaitsLeave(d)'
      <3>1. AwaitsLeave(d)  BY DEF UnderWay
      <3>2. CASE d # c
        BY <1>2, <1>4, <2>4, <3>1, <3>2 DEF AwaitsLeave, AtHub, Receives
      <3>3. CASE d = c /\ kind = "join"  BY <1>2, <3>3 DEF AwaitsLeave
      <3>4. CASE d = c /\ kind = "leave"
        <4>1. CASE c \in lost'  BY <3>4, <4>1 DEF AwaitsLeave
        <4>2. CASE c \notin lost'
          <5>1. Len(events'[l]) = n + 1 /\ events'[l][n + 1] = <<kind, c>> /\ n \in Nat
            BY <1>5, <3>4, <4>2
          <5>2. Queued("leave", c)'  BY <1>2, <3>4, <5>1 DEF Queued
          <5> QED BY <3>4, <5>2 DEF AwaitsLeave
        <4> QED BY <4>1, <4>2
      <3> QED BY <1>3, <3>2, <3>3, <3>4
    <2>6. \A d \in Connectors :
             AtHub(d)' \/ relay'[d] # "none" =>
                addr'[d] # 0 /\ cst'[d] \in {"in", "freeing", "gone"}
      BY <1>1, <1>2, <1>4 DEF AtHub, UnderWay
    <2>7. \A k \in Listeners : \A i \in 1 .. Len(events'[k]) : EventOf(k, i)'
      BY <2>1, <2>2
    <2> QED BY <2>3, <2>5, <2>6, <2>7 DEF UnderWay
  <1>11. Succession'
    <2> SUFFICES ASSUME NEW e \in Connectors, NEW d \in Connectors,
                        e \in peers', e \notin reused', Receives(target[e])', Rival(e, d)'
                 PROVE  Preceded(e, d)'
      BY <1>2 DEF Succession
    <2>1. e \in peers /\ Rival(e, d) /\ Receives(target[e])
      BY <1>2 DEF Rival, Receives
    <2>2. Preceded(e, d)  BY <1>2, <2>1 DEF Succession
    <2>3. d # c /\ target[e] \in Listeners
      BY <1>2, <2>1, <2>2 DEF Preceded, Slots, Known
    <2>4. cst'[d] = "gone" /\ d \notin lost' /\ (AtHub(e)' <=> AtHub(e))
      BY <1>2, <1>4, <2>2, <2>3 DEF Preceded, AtHub
    <2>5. CASE target[e] # l
      <3>1. events'[target[e]] = events[target[e]]  BY <1>5, <2>3, <2>5
      <3> QED BY <1>2, <2>2, <2>4, <3>1 DEF Preceded
    <2>6. CASE target[e] = l
      <3>1. ASSUME NEW i \in 1 .. Len(events'[l]), events'[l][i][2] = d
            PROVE  /\ ~AtHub(e)
                   /\ \A j \in 1 .. Len(events'[l]) : events'[l][j][2] = e => i < j
        <4>1. i \in 1 .. n /\ events'[l][i] = events[l][i]
          <5>1. i = n + 1 => events'[l][i][2] = c  BY <1>5, <3>1
          <5> QED BY <1>5, <2>3, <3>1, <5>1
        <4>2. ~AtHub(e) /\ \A j \in 1 .. n : events[l][j][2] = e => i < j
          BY <2>2, <2>6, <3>1, <4>1 DEF Preceded, n
        <4>3. \A j \in 1 .. Len(events'[l]) : j = n + 1 \/ (j \in 1 .. n /\ events'[l][j] = events[l][j])
          BY <1>5
        <4> QED BY <1>5, <4>1, <4>2, <4>3
      <3> QED BY <1>2, <2>4, <2>6, <3>1 DEF Preceded
    <2> QED BY <2>5, <2>6
  <1>12. SpokeRouted'
    <2>1. live \subseteq Connectors  BY DEF HubTypes
    <2>2. c \notin live \/ cst'[c] # "in"  BY <1>2, <1>6 DEF AtHub
    <2> QED BY <1>2, <1>4, <2>1, <2>2 DEF SpokeRouted
  <1> QED BY <1>8, <1>9, <1>10, <1>11, <1>12

(* The client builds a peer from its substreams, or drops one whose        *)
(* downlink has died.                                                      *)
LEMMA HubClientSteps ==
    ASSUME Known, HubInv, NEW c \in Connectors, RelayArrives(c) \/ SelfReport(c)
    PROVE  HubInv'
  <1> USE DEF HubInv
  <1>1. /\ Receives(target[c])
        /\ UNCHANGED <<lst, hub, cst, target, addr, peers, events, lost, reused>>
    BY DEF RelayArrives, SelfReport, lVars, hVars
  <1>2. AtHub(c) \/ relay[c] # "none"  BY DEF RelayArrives, SelfReport, AtHub
  <1>3. addr[c] # 0 /\ cst[c] \in {"in", "freeing", "gone"}  BY <1>2 DEF UnderWay
  <1>4. \/ /\ c \in met /\ live' = live \cup {c} /\ met' = met \ {c}
           /\ table' = [table EXCEPT ![target[c]][addr[c]] = c]
        \/ UNCHANGED <<met, live, table>>
        \/ /\ c \in live /\ live' = live \ {c} /\ met' = met \ {c}
           /\ table' = [table EXCEPT ![target[c]][addr[c]] = None]
    BY DEF RelayArrives, SelfReport, Build, PeerLeaves, cVars
  <1>5. relay' = [relay EXCEPT ![c] = relay'[c]] /\ relay'[c] \in {"sent", "buffered", "used", "none"}
    BY DEF RelayArrives, SelfReport, Build, PeerLeaves, HubTypes
  <1>6. \A d \in Connectors : AtHub(d)' => AtHub(d)  BY <1>4 DEF AtHub
  <1>7. HubTypes'
    <2>1. table' \in [Listeners -> [Hosts -> Connectors \cup {None}]]
      BY <1>3, <1>4, TableAt DEF HubTypes
    <2>2. relay' \in [Connectors -> {"none", "sent", "buffered", "used"}]
      BY <1>5 DEF HubTypes
    <2> QED BY <1>1, <1>4, <2>1, <2>2 DEF HubTypes
  <1>8. Slots'  BY <1>1 DEF Slots
  <1>9. UnderWay'
    <2>1. ASSUME NEW k \in Listeners, NEW i \in 1 .. Len(events'[k])
          PROVE  EventOf(k, i)' /\ \A j \in 1 .. Len(events'[k]) : JoinFirst(k, i, j)'
      BY <1>1, EventFacts DEF EventOf, JoinFirst
    <2>2. ASSUME NEW d \in Connectors PROVE AwaitsLeave(d)'
      <3>1. AwaitsLeave(d)  BY DEF UnderWay
      <3> QED BY <1>1, <1>6, <3>1 DEF AwaitsLeave, Queued, Receives
    <2>3. \A d \in Connectors : d # c => relay'[d] = relay[d]  BY <1>5 DEF HubTypes
    <2>4. \A d \in Connectors :
             AtHub(d)' \/ relay'[d] # "none" =>
                addr'[d] # 0 /\ cst'[d] \in {"in", "freeing", "gone"}
      BY <1>1, <1>3, <1>6, <2>3 DEF UnderWay
    <2> QED BY <2>1, <2>2, <2>4 DEF UnderWay
  <1>10. Succession'
    <2> SUFFICES ASSUME NEW e \in Connectors, NEW d \in Connectors,
                        e \in peers', e \notin reused', Receives(target[e])', Rival(e, d)'
                 PROVE  Preceded(e, d)'
      BY <1>1 DEF Succession
    <2>1. e \in peers /\ Rival(e, d) /\ Receives(target[e])
      BY <1>1 DEF Rival, Receives
    <2>2. Preceded(e, d)  BY <1>1, <2>1 DEF Succession
    <2> QED BY <1>1, <1>6, <2>2 DEF Preceded
  <1>11. SpokeRouted'
    <2> SUFFICES ASSUME NEW e \in live', cst[e] = "in", e \notin reused
                 PROVE  table'[target[e]][addr[e]] = e
      BY <1>1 DEF SpokeRouted
    <2>1. CASE UNCHANGED <<met, live, table>>  BY <2>1 DEF SpokeRouted
    <2>2. CASE ~UNCHANGED <<met, live, table>>
      <3>1. AtHub(c)  BY <1>4, <2>2 DEF AtHub
      <3>2. CASE e = c
        <4>1. table' = [table EXCEPT ![target[c]][addr[c]] = c]  BY <1>4, <2>2, <3>2
        <4> QED BY <1>3, <3>2, <4>1, TableAt
      <3>3. CASE e # c
        <4>1. e \in live /\ e \in Connectors  BY <1>4, <2>2, <3>3 DEF HubTypes
        <4>2. addr[e] # 0  BY <4>1 DEF UnderWay, AtHub
        <4>3. ~(target[e] = target[c] /\ addr[e] = addr[c])
          BY <1>1, <3>1, <3>3, <4>1, NoRival DEF Rival
        <4>4. table'[target[e]][addr[e]] = table[target[e]][addr[e]]
          BY <1>3, <1>4, <2>2, <4>1, <4>2, <4>3, TableAt
        <4> QED BY <4>1, <4>4 DEF SpokeRouted
      <3> QED BY <3>2, <3>3
    <2> QED BY <2>1, <2>2
  <1> QED BY <1>7, <1>8, <1>9, <1>10, <1>11

(* The client handles the first event of the queue.                        *)
LEMMA HubForward ==
    ASSUME Known, HubInv, NEW l \in Listeners, Forward(l)
    PROVE  HubInv'
  <1> USE DEF HubInv
  <1> DEFINE n == Len(events[l])
  <1>1. /\ Receives(l) /\ events[l] # <<>>
        /\ events' = [events EXCEPT ![l] = Tail(@)]
        /\ UNCHANGED <<lst, hub, cst, target, addr, peers, lost, reused>>
    BY DEF Forward, lVars, hVars
  <1>2. /\ events' \in [Listeners -> Seq({"join", "leave"} \X Connectors)]
        /\ n \in Nat \ {0} /\ Len(events'[l]) = n - 1
        /\ Head(events[l]) = events[l][1]
        /\ events[l][1] \in {"join", "leave"} \X Connectors
        /\ \A i \in 1 .. n - 1 : events'[l][i] = events[l][i + 1]
        /\ \A k \in Listeners \ {l} : events'[k] = events[k]
    BY <1>1, Taken
  <1>3. PICK kind \in {"join", "leave"}, c \in Connectors :
           /\ 1 \in 1 .. n /\ events[l][1] = <<kind, c>>
           /\ events[l][1][1] = kind /\ events[l][1][2] = c
    BY <1>2
  <1>4. EventOf(l, 1) /\ target[c] = l /\ addr[c] # 0 /\ cst[c] \in {"in", "freeing", "gone"}
    BY <1>3, EventFacts DEF EventOf
  <1>5. \/ /\ kind = "join" /\ live' = live \cup {c} /\ met' = met \ {c}
           /\ table' = [table EXCEPT ![target[c]][addr[c]] = c]
        \/ kind = "join" /\ met' = met \cup {c} /\ UNCHANGED <<live, table>>
        \/ /\ kind = "leave" /\ live' = live \ {c} /\ met' = met \ {c}
           /\ \/ c \in live /\ table' = [table EXCEPT ![target[c]][addr[c]] = None]
              \/ table' = table
    BY <1>2, <1>3 DEF Forward, Build, PeerLeaves
  <1>6. relay' = [relay EXCEPT ![c] = relay'[c]] /\ relay'[c] \in {"sent", "buffered", "used", "none"}
    BY <1>2, <1>3 DEF Forward, Build, PeerLeaves, HubTypes
  <1> HIDE DEF n
  <1>7. /\ \A d \in Connectors : d # c => (AtHub(d)' <=> AtHub(d))
        /\ kind = "leave" => ~AtHub(c)'
    BY <1>5 DEF AtHub
  <1>8. HubTypes'
    <2>1. table' \in [Listeners -> [Hosts -> Connectors \cup {None}]]
      BY <1>3, <1>4, <1>5, TableAt DEF HubTypes
    <2>2. relay' \in [Connectors -> {"none", "sent", "buffered", "used"}]
      BY <1>6 DEF HubTypes
    <2> QED BY <1>1, <1>2, <1>3, <1>5, <2>1, <2>2 DEF HubTypes
  <1>9. Slots'  BY <1>1 DEF Slots
  <1>10. UnderWay'
    <2>1. ASSUME NEW k \in Listeners, NEW i \in 1 .. Len(events'[k])
          PROVE  EventOf(k, i)' /\ \A j \in 1 .. Len(events'[k]) : JoinFirst(k, i, j)'
      <3>1. CASE k # l
        BY <1>1, <1>2, <3>1, EventFacts DEF EventOf, JoinFirst
      <3>2. CASE k = l
        <4>1. i + 1 \in 1 .. n /\ events'[k][i] = events[k][i + 1]  BY <1>2, <3>2
        <4>2. EventOf(k, i + 1) /\ \A j \in 1 .. n : JoinFirst(k, i + 1, j)
          BY <3>2, <4>1, EventFacts DEF n
        <4>3. EventOf(k, i)'  BY <1>1, <4>1, <4>2 DEF EventOf
        <4>4. ASSUME NEW j \in 1 .. Len(events'[k]) PROVE JoinFirst(k, i, j)'
          <5>1. j + 1 \in 1 .. n /\ events'[k][j] = events[k][j + 1]  BY <1>2, <3>2
          <5>2. JoinFirst(k, i + 1, j + 1)  BY <4>2, <5>1
          <5> QED BY <4>1, <5>1, <5>2 DEF JoinFirst
        <4> QED BY <4>3, <4>4
      <3> QED BY <3>1, <3>2
    <2>2. ASSUME NEW d \in Connectors, NEW q, addr[d] # 0
          PROVE  /\ Queued(q, d)' => Queued(q, d)
                 /\ Queued(q, d) /\ <<q, d>> # <<kind, c>> => Queued(q, d)'
      <3>1. target[d] \in Listeners  BY <2>2 DEF Slots, Known
      <3>2. CASE target[d] # l  BY <1>1, <1>2, <3>1, <3>2 DEF Queued
      <3>3. CASE target[d] = l
        <4>1. target'[d] = l /\ Len(events[l]) = n  BY <1>1, <3>3 DEF n
        <4>2. \A i \in 1 .. Len(events'[l]) : i + 1 \in 1 .. n /\ events'[l][i] = events[l][i + 1]
          BY <1>2
        <4>3. ASSUME NEW i \in 1 .. n, i # 1
              PROVE  i - 1 \in 1 .. Len(events'[l]) /\ events'[l][i - 1] = events[l][i]
          BY <1>2, <4>3
        <4>4. Queued(q, d)' => Queued(q, d)  BY <3>3, <4>1, <4>2 DEF Queued
        <4>5. Queued(q, d) /\ <<q, d>> # <<kind, c>> => Queued(q, d)'
          BY <1>3, <3>3, <4>1, <4>3 DEF Queued
        <4> QED BY <4>4, <4>5
      <3> QED BY <3>2, <3>3
    <2>3. ASSUME NEW d \in Connectors PROVE AwaitsLeave(d)'
      <3>1. AwaitsLeave(d)  BY DEF UnderWay
      <3>2. CASE d # c
        <4>1. <<"leave", d>> # <<kind, c>>  BY <3>2
        <4> QED BY <1>1, <1>7, <2>2, <3>1, <3>2, <4>1 DEF AwaitsLeave, Receives
      <3>3. CASE d = c /\ kind = "join"
        <4>1. Queued("join", c)  BY <1>3, <1>4, <3>3 DEF Queued, n
        <4>2. <<"leave", c>> # <<kind, c>>  BY <3>3
        <4> QED BY <1>1, <1>4, <2>2, <3>1, <3>3, <4>1, <4>2 DEF AwaitsLeave, Receives
      <3>4. CASE d = c /\ kind = "leave"
        <4>1. ~Queued("join", c)'
          <5> SUFFICES ASSUME Queued("join", c)' PROVE FALSE  OBVIOUS
          <5>1. PICK i \in 1 .. Len(events'[l]) : events'[l][i] = <<"join", c>>
            BY <1>1, <1>4 DEF Queued
          <5>2. i + 1 \in 1 .. n /\ events[l][i + 1] = <<"join", c>>  BY <1>2, <5>1
          <5>3. JoinFirst(l, 1, i + 1)  BY <1>3, <5>2, EventFacts DEF n
          <5> QED BY <1>2, <1>3, <3>4, <5>2, <5>3 DEF JoinFirst
        <4> QED BY <1>7, <3>4, <4>1 DEF AwaitsLeave
      <3> QED BY <1>3, <3>2, <3>3, <3>4
    <2>4. \A d \in Connectors : d # c => relay'[d] = relay[d]  BY <1>6 DEF HubTypes
    <2>5. \A d \in Connectors :
             AtHub(d)' \/ relay'[d] # "none" =>
                addr'[d] # 0 /\ cst'[d] \in {"in", "freeing", "gone"}
      BY <1>1, <1>4, <1>7, <2>4 DEF UnderWay
    <2> QED BY <2>1, <2>3, <2>5 DEF UnderWay
  <1>11. Succession'
    <2> SUFFICES ASSUME NEW e \in Connectors, NEW d \in Connectors,
                        e \in peers', e \notin reused', Receives(target[e])', Rival(e, d)'
                 PROVE  Preceded(e, d)'
      BY <1>1 DEF Succession
    <2>1. e \in peers /\ Rival(e, d) /\ Receives(target[e])
      BY <1>1 DEF Rival, Receives
    <2>2. Preceded(e, d)  BY <1>1, <2>1 DEF Succession
    <2>3. target[e] \in Listeners  BY <2>1 DEF Slots, Known
    <2>4. CASE target[e] # l
      <3>1. events'[target[e]] = events[target[e]] /\ e # c  BY <1>2, <1>4, <2>3, <2>4
      <3> QED BY <1>1, <1>7, <2>2, <3>1 DEF Preceded
    <2>5. CASE target[e] = l
      <3>1. ASSUME NEW i \in 1 .. Len(events'[l]), events'[l][i][2] = d
            PROVE  /\ ~AtHub(e)'
                   /\ \A j \in 1 .. Len(events'[l]) : events'[l][j][2] = e => i < j
        <4>1. i + 1 \in 1 .. n /\ events[l][i + 1][2] = d  BY <1>2, <3>1
        <4>2. ~AtHub(e) /\ \A j \in 1 .. n : events[l][j][2] = e => i + 1 < j
          BY <2>2, <2>5, <4>1 DEF Preceded, n
        <4>3. e # c  BY <1>2, <1>3, <4>1, <4>2
        <4>4. ASSUME NEW j \in 1 .. Len(events'[l]), events'[l][j][2] = e PROVE i < j
          <5>1. j + 1 \in 1 .. n /\ events[l][j + 1][2] = e  BY <1>2, <4>4
          <5> QED BY <1>2, <4>2, <5>1
        <4> QED BY <1>7, <4>2, <4>3, <4>4
      <3> QED BY <1>1, <2>2, <2>5, <3>1 DEF Preceded
    <2> QED BY <2>4, <2>5
  <1>12. SpokeRouted'
    <2> SUFFICES ASSUME NEW e \in live', cst[e] = "in", e \notin reused
                 PROVE  table'[target[e]][addr[e]] = e
      BY <1>1 DEF SpokeRouted
    <2>1. CASE UNCHANGED <<live, table>>  BY <2>1 DEF SpokeRouted
    <2>2. CASE ~UNCHANGED <<live, table>>
      <3>1. CASE e = c
        <4>1. table' = [table EXCEPT ![target[c]][addr[c]] = c]
          BY <1>5, <2>2, <3>1
        <4>2. table'[target[c]][addr[c]] = c  BY <1>4, <4>1, TableAt
        <4> QED BY <3>1, <4>2
      <3>2. CASE e # c
        <4>1. e \in live /\ e \in Connectors  BY <1>3, <1>5, <3>2 DEF HubTypes
        <4>2. addr[e] # 0  BY <4>1 DEF UnderWay, AtHub
        <4>3. ~(target[e] = target[c] /\ addr[e] = addr[c])
          <5> SUFFICES ASSUME target[e] = target[c], addr[e] = addr[c] PROVE FALSE
            OBVIOUS
          <5>1. Rival(e, c) /\ Receives(target[e]) /\ target[e] = l
            BY <1>1, <1>4, <3>2 DEF Rival
          <5>2. \A i \in 1 .. n : events[l][i][2] # c
            BY <1>3, <4>1, <5>1, NoRival DEF n
          <5> QED BY <1>3, <5>2
        <4>4. table'[target[e]][addr[e]] = table[target[e]][addr[e]]
          <5>1. \/ table' = table
                \/ \E v \in {c, None} : table' = [table EXCEPT ![target[c]][addr[c]] = v]
            BY <1>5
          <5>2. ASSUME NEW v \in {c, None},
                       table' = [table EXCEPT ![target[c]][addr[c]] = v]
                PROVE  table'[target[e]][addr[e]] = table[target[e]][addr[e]]
            <6>1. v \in Connectors \cup {None}  OBVIOUS
            <6> QED BY <1>4, <4>1, <4>2, <4>3, <5>2, <6>1, TableAt
          <5> QED BY <5>1, <5>2
        <4> QED BY <4>1, <4>4 DEF SpokeRouted
      <3> QED BY <3>1, <3>2
    <2> QED BY <2>1, <2>2
  <1> QED BY <1>8, <1>9, <1>10, <1>11, <1>12

LEMMA HubInvListener ==
    ASSUME Known, HubInv, NEW l \in Listeners,
           \/ RegisterPair(l) \/ LeaseHub(l) \/ RegisterHub(l)
           \/ TakePair(l) \/ EndListener(l) \/ Deregister(l)
           \/ CloseListener(l) \/ Forward(l)
    PROVE  HubInv'
  <1>1. CASE Forward(l)  BY <1>1, HubForward
  <1>2. CASE ~Forward(l)
    <2>1. UNCHANGED <<cst, target, addr, peers, relay, met, live, table, lost, reused>>
      BY <1>2 DEF RegisterPair, LeaseHub, RegisterHub, TakePair, EndListener, Deregister,
           CloseListener, lVars, cVars, hVars
    <2>2. hub' = hub \/ (lst[l] = "out" /\ hub' = hub \cup {l})
      BY <1>2 DEF RegisterPair, LeaseHub, RegisterHub, TakePair, EndListener, Deregister,
           CloseListener, lVars
    <2>3. \E to \in {"waiting", "gone", "leased", "hub", "paired", "closing", "closed"} :
             /\ lst' = [lst EXCEPT ![l] = to]
             /\ to = "hub" => lst[l] = "leased"
             /\ events' = events \/ (events' = [events EXCEPT ![l] = <<>>] /\ to = "closing")
      <3>1. CASE RegisterPair(l)  BY <3>1 DEF RegisterPair, LGoes
      <3>2. CASE LeaseHub(l)  BY <3>2 DEF LeaseHub, LGoes
      <3>3. CASE RegisterHub(l)  BY <3>3 DEF RegisterHub, LGoes
      <3>4. CASE TakePair(l)  BY <3>4 DEF TakePair, LGoes
      <3>5. CASE EndListener(l)  BY <3>5 DEF EndListener, LGoes
      <3>6. CASE Deregister(l) \/ CloseListener(l)
        BY <3>6 DEF Deregister, CloseListener, LGoes
      <3> QED BY <1>2, <3>1, <3>2, <3>3, <3>4, <3>5, <3>6
    <2>4. /\ \A k \in Listeners : Receives(k)' /\ ~Receives(k) => k = l /\ lst[l] = "leased"
          /\ \/ events' = events
             \/ events' = [events EXCEPT ![l] = <<>>] /\ ~Receives(l)'
      BY <2>3 DEF Receives, Known
    <2>5. /\ events' \in [Listeners -> Seq({"join", "leave"} \X Connectors)]
          /\ \A k \in Listeners : events'[k] = events[k] \/ events'[k] = <<>>
      <3> DEFINE S == Seq({"join", "leave"} \X Connectors)
      <3>1. events \in [Listeners -> S]  BY DEF HubInv, HubTypes
      <3>2. <<>> \in S  OBVIOUS
      <3> HIDE DEF S
      <3>3. /\ events' \in [Listeners -> S]
            /\ \A k \in Listeners : events'[k] = events[k] \/ events'[k] = <<>>
        <4>1. CASE events' = events  BY <3>1, <4>1
        <4>2. CASE events' = [events EXCEPT ![l] = <<>>]  BY <3>1, <3>2, <4>2
        <4> QED BY <2>4, <4>1, <4>2
      <3> QED BY <3>3 DEF S
    <2>6. hub' \subseteq Listeners /\ \A c \in Connectors : target[c] \in hub' <=> target[c] \in hub
      BY <2>2, VpnAssumption DEF Known
    <2>7. ASSUME NEW c \in Connectors, addr[c] # 0, Receives(target[c])'
          PROVE  Receives(target[c]) /\ events'[target[c]] = events[target[c]]
      <3>1. target[c] \in Listeners /\ target'[c] = target[c] /\ lst[target[c]] # "leased"
        BY <2>1, <2>7, VpnAssumption DEF HubInv, Slots, Known
      <3> QED BY <2>1, <2>4, <2>7, <3>1 DEF HubInv, HubTypes
    <2> QED BY <2>1, <2>4, <2>5, <2>6, <2>7, HubKeptListener
  <1> QED BY <1>1, <1>2

LEMMA HubInvConnector ==
    ASSUME Known, HubInv, NEW c \in Connectors,
           \/ LookUp(c) \/ Refuse(c) \/ LeasePair(c) \/ TakeSlot(c)
           \/ SendReady(c) \/ Pair(c) \/ Announce(c) \/ EndPair(c)
           \/ EndSpoke(c) \/ Notify(c) \/ RelayArrives(c) \/ SelfReport(c)
    PROVE  HubInv'
  <1>1. CASE TakeSlot(c) /\ c \in peers'  BY <1>1, HubTakeSlot
  <1>2. CASE (SendReady(c) /\ target[c] \in hub) \/ EndSpoke(c)
    <2>1. target[c] \in hub  BY <1>2 DEF EndSpoke
    <2> QED BY <1>2, <2>1, HubPeerSteps
  <1>3. CASE Announce(c) \/ Notify(c)  BY <1>3, HubEventSteps
  <1>4. CASE RelayArrives(c) \/ SelfReport(c)  BY <1>4, HubClientSteps
  <1>5. CASE \/ LookUp(c) \/ Refuse(c) \/ LeasePair(c) \/ Pair(c) \/ EndPair(c)
             \/ (TakeSlot(c) /\ c \notin peers')
             \/ (SendReady(c) /\ target[c] \notin hub)
    <2>1. /\ UNCHANGED <<lst, hub, addr, peers, events, relay, met, live, table, lost, reused>>
          /\ cst' = [cst EXCEPT ![c] = cst'[c]] /\ target' = [target EXCEPT ![c] = target'[c]]
      BY <1>5 DEF LookUp, Refuse, LeasePair, TakeSlot, SendReady, Pair, EndPair, CGoes,
           lVars, cVars, hVars, Known
    <2>2. addr[c] = 0 /\ c \notin peers
      BY <1>5 DEF LookUp, Refuse, LeasePair, TakeSlot, SendReady, Pair, EndPair,
           HubInv, Slots
    <2>3. \A d \in Connectors \ {c} : cst'[d] = cst[d] /\ target'[d] = target[d]
      BY <2>1 DEF Known
    <2>4. /\ ~(cst'[c] \in {"leased", "told", "in"} /\ target'[c] \in hub)
          /\ cst'[c] # "freeing"
      BY <1>5 DEF LookUp, Refuse, LeasePair, TakeSlot, SendReady, Pair, EndPair, CGoes,
           Known
    <2> QED BY <2>1, <2>2, <2>3, <2>4, HubKeptPair
  <1> QED BY <1>1, <1>2, <1>3, <1>4, <1>5

(* vpn_server.rs, HubPeerGuard, and vpn.rs, the hub coordinator: whatever  *)
(* Joins, Leaves and substreams of earlier peers at an address are under   *)
(* way, the peer that is up there is the one the table routes to.          *)
THEOREM SpokesAreRouted == Spec => []SpokeRouted
  <1>1. ASSUME Known, HubInv, UNCHANGED vars PROVE HubInv'
    <2>1. /\ UNCHANGED <<lst, hub, cst, target, addr, peers, events, relay>>
          /\ UNCHANGED <<met, live, table, lost, reused>>
      BY <1>1 DEF vars, lVars, cVars, hVars
    <2>2. events \in [Listeners -> Seq({"join", "leave"} \X Connectors)] /\ hub \subseteq Listeners
      BY <1>1 DEF HubInv, HubTypes, Known
    <2> QED BY <1>1, <2>1, <2>2, HubKeptListener DEF Receives
  <1>2. HubInv /\ Known /\ [Next]_vars => HubInv'
    BY <1>1, HubInvListener, HubInvConnector DEF Next
  <1>3. HubInv => SpokeRouted  BY DEF HubInv
  <1> QED BY <1>2, <1>3, HubInvInit, KnownAlways, PTL DEF Spec
=============================================================================
