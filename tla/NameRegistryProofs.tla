--------------------------- MODULE NameRegistryProofs --------------------------
(* Theorems about NameRegistry, for every number of providers and          *)
(* consumers and every assignment of identities.                           *)
EXTENDS NameRegistry, TLAPS

NativeSteps == {"out", "in", "offering", "closing", "closed", "gone"}
SshSteps == {"out", "asked", "placing", "evicting", "placed", "in", "closing",
             "closed", "gone"}

NameTypes ==
    /\ pc \in [Providers -> NativeSteps \cup SshSteps]
    /\ \A n \in Native : pc[n] \in NativeSteps
    /\ \A s \in Ssh : pc[s] \in SshSteps
    /\ holder \in Providers \cup {None} /\ owners \in Ssh \cup {None}
    /\ udp \in Entry \cup {None}
    /\ channel \in [Native -> 0 .. MaxChannels]
    /\ read \in [Native \cup Consumers -> Entry \cup {None}]

(* Whatever is in a map has a guard that will take it out.                 *)
Guarded ==
    /\ holder \in Native => pc[holder] \in {"in", "offering", "closing"}
    /\ holder \in Ssh => pc[holder] \in {"placed", "in", "closing"}
    /\ owners # None => pc[owners] \in {"in", "closing", "closed"}
    /\ udp # None =>
          \E n \in Native : pc[n] \in {"in", "offering", "closing", "closed"}

Evicted(p) ==
    \E s \in Ssh \ {p} : pc[s] = "evicting" /\ Identity[s] = Identity[p]

(* As long as no pool was registered beside a stale owner record: a native *)
(* provider has the name until its guard drops it and no owner record      *)
(* beside it, an SSH forward the name and then the record, which it keeps  *)
(* until the eviction that removed its pool aborts it.                     *)
Held ==
    /\ \A n \in Native : pc[n] \in {"in", "offering", "closing"} => holder = n
    /\ holder \in Native => owners = None
    /\ \A s \in Ssh :
          /\ pc[s] = "placed" => holder = s /\ owners = None
          /\ pc[s] = "in" => owners = s /\ (holder = s \/ Evicted(s))

(* An entry's sender was made by a provider that registered; when another  *)
(* one kept it with its own candidates, the sender's receiver is gone.     *)
Entered(e) ==
    /\ pc[e.to] # "out"
    /\ e.from = e.to \/ crossed \/ pc[e.to] \in {"closing", "closed", "gone"}

Entries ==
    /\ udp # None => Entered(udp)
    /\ \A x \in Native \cup Consumers : read[x] # None => Entered(read[x])

NameInv == NameTypes /\ Guarded /\ (~crossed => Held) /\ Entries /\ PunchMatched

LEMMA NameInvInit == NamesInit => NameInv
  BY NameAssumption
  DEF NamesInit, NameInv, NameTypes, Guarded, Held, Entries, PunchMatched,
      NativeSteps, SshSteps, Providers

(* A provider that has ended does not come back, and none un-registers.    *)
Forward ==
    /\ crossed => crossed'
    /\ \A p \in Providers :
          /\ pc[p] # "out" => pc'[p] # "out"
          /\ pc[p] \in {"closing", "closed", "gone"} =>
                pc'[p] \in {"closing", "closed", "gone"}

LEMMA EntriesKept ==
    ASSUME NEW e \in Entry, Entered(e), Forward
    PROVE  Entered(e)'
  BY DEF Entered, Forward, Entry, Providers

LEMMA NameInvNative ==
    ASSUME NEW n \in Native, NameInv,
           \/ RegisterName(n) \/ ReadUdp(n) \/ WriteUdp(n)
           \/ EndNative(n) \/ DropName(n) \/ DropUdp(n)
    PROVE  NameInv'
  <1> USE NameAssumption DEF NameInv, Goes
  <1>1. /\ pc[n] \in NativeSteps /\ pc' = [pc EXCEPT ![n] = pc'[n]]
        /\ pc'[n] \in NativeSteps /\ n \in Providers /\ n \notin Ssh /\ n # None
        /\ UNCHANGED <<owners, paired>>
    BY DEF RegisterName, ReadUdp, WriteUdp, EndNative, DropName, DropUdp, NameTypes,
           Providers, NativeSteps
  <1>2. Forward
    <2>1. crossed => crossed'
      BY Zenon DEF RegisterName, ReadUdp, WriteUdp, EndNative, DropName, DropUdp
    <2>2. /\ pc'[n] # "out"
          /\ pc[n] \in {"closing", "closed", "gone"} => pc'[n] \in {"closed", "gone"}
      BY <1>1
      DEF RegisterName, ReadUdp, WriteUdp, EndNative, DropName, DropUdp, NameTypes
    <2>3. \A p \in Providers : p = n \/ pc'[p] = pc[p]  BY <1>1 DEF NameTypes
    <2> QED BY <2>1, <2>2, <2>3 DEF Forward
  <1>3. PunchMatched'  BY <1>1, <1>2 DEF PunchMatched, Forward
  <1>4. CASE RegisterName(n)
    <2> USE <1>4 DEF RegisterName
    <2>1. NameTypes'  BY <1>1 DEF NameTypes, Providers
    <2>2. Guarded'  BY <1>1 DEF NameTypes, Guarded, Providers, NativeSteps, SshSteps
    <2>3. ~crossed' => Held'
      <3>1. CASE holder = None
        <4>1. ~crossed' => ~crossed /\ owners = None  BY <3>1, Zenon
        <4> QED BY <1>1, <3>1, <4>1
                DEF NameTypes, Guarded, Held, Evicted, Providers, SshSteps
      <3>2. CASE holder # None
        BY <1>1, <3>2 DEF NameTypes, Held, Evicted, Providers
      <3> QED BY <3>1, <3>2
    <2>4. Entries'  BY <1>1, <1>2, EntriesKept DEF Entries, NameTypes
    <2> QED BY <1>3, <2>1, <2>2, <2>3, <2>4
  <1>5. CASE ReadUdp(n)
    <2> USE <1>5 DEF ReadUdp
    <2>1. NameTypes'  BY <1>1 DEF NameTypes, Providers
    <2>2. Guarded'  BY <1>1 DEF NameTypes, Guarded, Providers
    <2>3. ~crossed' => Held'  BY <1>1 DEF NameTypes, Held, Evicted, Providers
    <2>4. Entries'  BY <1>1, <1>2, EntriesKept DEF Entries, NameTypes
    <2> QED BY <1>3, <2>1, <2>2, <2>3, <2>4
  <1>6. CASE WriteUdp(n)
    <2> USE <1>6 DEF WriteUdp
    <2>1. udp' \in Entry /\ Entered(udp)'
      <3>1. CASE read[n] = None
        BY <1>1, <3>1 DEF NameTypes, Entry, Entered
      <3>2. CASE read[n] # None
        <4>1. read[n] \in Entry /\ Entered(read[n])  BY <3>2 DEF NameTypes, Entries
        <4>2. /\ udp' = [read[n] EXCEPT !.from = n] /\ udp' \in Entry
              /\ udp'.from = n /\ udp'.to = read[n].to /\ udp'.to \in Native
          BY <3>2, <4>1 DEF Entry
        <4>3. udp'.to # n /\ ~crossed => pc[udp'.to] \in {"closed", "gone"}
          BY <4>1, <4>2 DEF Held, NameTypes, NativeSteps, Entered
        <4> QED BY <1>1, <1>2, <4>1, <4>2, <4>3 DEF Entered, Forward, NameTypes, Providers
      <3> QED BY <3>1, <3>2
    <2>2. NameTypes'
      <3>1. channel' \in [Native -> 0 .. MaxChannels]  BY DEF NameTypes
      <3>2. read' \in [Native \cup Consumers -> Entry \cup {None}]  BY DEF NameTypes
      <3> QED BY <1>1, <2>1, <3>1, <3>2 DEF NameTypes, Providers
    <2>3. Guarded'  BY <1>1 DEF NameTypes, Guarded, Providers
    <2>4. ~crossed' => Held'  BY <1>1 DEF NameTypes, Held, Evicted, Providers
    <2>5. Entries'  BY <1>1, <1>2, <2>1, EntriesKept DEF Entries, NameTypes
    <2> QED BY <1>3, <2>2, <2>3, <2>4, <2>5
  <1>7. CASE EndNative(n) \/ DropName(n) \/ DropUdp(n)
    <2> USE <1>7 DEF EndNative, DropName, DropUdp
    <2>1. NameTypes'  BY <1>1 DEF NameTypes, Providers
    <2>2. Guarded'  BY <1>1 DEF NameTypes, Guarded, Providers
    <2>3. ~crossed' => Held'
      BY <1>1 DEF NameTypes, Guarded, Held, Evicted, Providers
    <2>4. Entries'  BY <1>1, <1>2, EntriesKept DEF Entries, NameTypes
    <2> QED BY <1>3, <2>1, <2>2, <2>3, <2>4
  <1> QED BY <1>4, <1>5, <1>6, <1>7

LEMMA NameInvSsh ==
    ASSUME NEW s \in Ssh, NameInv,
           \/ Peek(s) \/ CancelAsked(s) \/ Decide(s) \/ EvictOwner(s)
           \/ Place(s) \/ Own(s) \/ EndSsh(s) \/ DropPool(s) \/ DropOwner(s)
    PROVE  NameInv'
  <1> USE NameAssumption DEF NameInv, Goes
  <1>1. /\ pc[s] \in SshSteps /\ s \in Providers /\ s \notin Native /\ s # None
        /\ UNCHANGED <<udp, channel, read, paired>>
    BY DEF Peek, CancelAsked, Decide, EvictOwner, Place, Own, EndSsh, DropPool,
           DropOwner, NameTypes, Providers
  <1>2. \A n \in Native : n \in Providers /\ n \notin Ssh /\ n # None /\ pc'[n] = pc[n]
    BY DEF Peek, CancelAsked, Decide, EvictOwner, Place, Own, EndSsh, DropPool,
           DropOwner, NameTypes, Providers
  <1>3. Forward
    <2>1. crossed => crossed'
      BY Zenon
      DEF Peek, CancelAsked, Decide, EvictOwner, Place, Own, EndSsh, DropPool,
          DropOwner
    <2>2. /\ pc'[s] # "out"
          /\ pc[s] \in {"closing", "closed", "gone"} => pc'[s] \in {"closed", "gone"}
      BY <1>1
      DEF Peek, CancelAsked, Decide, EvictOwner, Place, Own, EndSsh, DropPool,
          DropOwner, NameTypes
    <2>3. \A p \in Providers :
             p = s \/ pc'[p] = pc[p] \/ (pc[p] = "in" /\ pc'[p] = "closing")
      BY <1>1
      DEF Peek, CancelAsked, Decide, EvictOwner, Place, Own, EndSsh, DropPool,
          DropOwner, NameTypes
    <2> QED BY <2>1, <2>2, <2>3 DEF Forward
  <1>4. PunchMatched'  BY <1>1, <1>3 DEF PunchMatched, Forward
  <1>5. Entries'  BY <1>1, <1>3, EntriesKept DEF Entries, NameTypes
  <1>6. CASE Peek(s) \/ CancelAsked(s)
    <2> USE <1>6 DEF Peek, CancelAsked
    <2>1. NameTypes'  BY <1>1, <1>2 DEF NameTypes, Providers, SshSteps
    <2>2. Guarded'  BY <1>1, <1>2 DEF NameTypes, Guarded, Providers
    <2>3. ~crossed' => Held'  BY <1>1, <1>2 DEF NameTypes, Held, Evicted, Providers
    <2> QED BY <1>4, <1>5, <2>1, <2>2, <2>3
  <1>7. CASE Decide(s)
    <2> USE <1>7 DEF Decide, TakeoverDecision
    <2>1. NameTypes'  BY <1>1, <1>2 DEF NameTypes, Providers, SshSteps
    <2>2. Guarded'  BY <1>1, <1>2 DEF NameTypes, Guarded, Providers
    <2>3. ~crossed' => Held'
      BY <1>1, <1>2 DEF NameTypes, Guarded, Held, Evicted, Providers
    <2> QED BY <1>4, <1>5, <2>1, <2>2, <2>3
  <1>8. CASE EvictOwner(s)
    <2> USE <1>8 DEF EvictOwner
    <2>1. NameTypes'  BY <1>1, <1>2 DEF NameTypes, Providers, SshSteps
    <2>2. Guarded'  BY <1>1, <1>2 DEF NameTypes, Guarded, Providers
    <2>3. ~crossed' => Held'
      BY <1>1, <1>2 DEF NameTypes, Guarded, Held, Evicted, Providers
    <2> QED BY <1>4, <1>5, <2>1, <2>2, <2>3
  <1>9. CASE Place(s)
    <2> USE <1>9 DEF Place
    <2>1. NameTypes'  BY <1>1, <1>2 DEF NameTypes, Providers, SshSteps
    <2>2. Guarded'  BY <1>1, <1>2 DEF NameTypes, Guarded, Providers
    <2>3. ~crossed' => Held'
      <3>1. CASE holder = None
        <4>1. ~crossed' => ~crossed /\ owners = None  BY <3>1, Zenon
        <4> QED BY <1>1, <1>2, <3>1, <4>1
                DEF NameTypes, Guarded, Held, Evicted, Providers
      <3>2. CASE holder # None
        BY <1>1, <1>2, <3>2 DEF NameTypes, Held, Evicted, Providers
      <3> QED BY <3>1, <3>2
    <2> QED BY <1>4, <1>5, <2>1, <2>2, <2>3
  <1>10. CASE Own(s)
    <2> USE <1>10 DEF Own
    <2>1. NameTypes'  BY <1>1, <1>2 DEF NameTypes, Providers, SshSteps
    <2>2. Guarded'  BY <1>1, <1>2 DEF NameTypes, Guarded, Providers
    <2>3. ~crossed' => Held'
      BY <1>1, <1>2 DEF NameTypes, Guarded, Held, Evicted, Providers
    <2> QED BY <1>4, <1>5, <2>1, <2>2, <2>3
  <1>11. CASE EndSsh(s) \/ DropPool(s) \/ DropOwner(s)
    <2> USE <1>11 DEF EndSsh, DropPool, DropOwner
    <2>1. NameTypes'  BY <1>1, <1>2 DEF NameTypes, Providers, SshSteps
    <2>2. Guarded'  BY <1>1, <1>2 DEF NameTypes, Guarded, Providers
    <2>3. ~crossed' => Held'
      BY <1>1, <1>2 DEF NameTypes, Guarded, Held, Evicted, Providers
    <2> QED BY <1>4, <1>5, <2>1, <2>2, <2>3
  <1> QED BY <1>6, <1>7, <1>8, <1>9, <1>10, <1>11

LEMMA NameInvConsumer ==
    ASSUME NEW c \in Consumers, NameInv, Ask(c) \/ Broker(c)
    PROVE  NameInv'
  <1> USE NameAssumption DEF NameInv
  <1>1. UNCHANGED <<pc, holder, owners, udp, channel, crossed>>
    BY DEF Ask, Broker
  <1>2. NameTypes'  BY <1>1 DEF Ask, Broker, NameTypes
  <1>3. Guarded' /\ (~crossed' => Held')  BY <1>1 DEF Guarded, Held, Evicted
  <1>4. Entries'  BY <1>1 DEF Ask, Broker, Entries, Entered, NameTypes
  <1>5. PunchMatched'
    BY <1>1 DEF Ask, Broker, PunchMatched, Reaches, Entries, Entered, NameTypes
  <1> QED BY <1>2, <1>3, <1>4, <1>5

LEMMA NameInvariant == NamesSpec => []NameInv
  <1>1. NameInv /\ UNCHANGED namesVars => NameInv'
    BY DEF NameInv, NameTypes, Guarded, Held, Evicted, Entries, Entered,
           PunchMatched, namesVars
  <1>2. NameInv /\ [NamesNext]_namesVars => NameInv'
    BY <1>1, NameInvNative, NameInvSsh, NameInvConsumer DEF NamesNext
  <1> QED BY NameInvInit, <1>2, PTL DEF NamesSpec

(* secret.rs, Deregister, and sshgw.rs, SecretSshGuard: whatever takeovers, *)
(* refusals and teardowns crossed, a name nobody provides is free and      *)
(* nothing of it stays in any map.                                         *)
THEOREM NameIsFreed == NamesSpec => []NameFreed
  <1>1. NameInv => NameFreed
    BY NameAssumption DEF NameInv, NameTypes, Guarded, NameFreed, Providers
  <1> QED BY <1>1, NameInvariant, PTL

(* sshgw.rs, apply_takeover: a provider that serves keeps its name until a *)
(* session of its own identity evicts it.                                  *)
THEOREM NamesAreKept == NamesSpec => []HoldersKeepNames
  <1>1. NameInv => HoldersKeepNames
    BY NameAssumption
    DEF NameInv, NameTypes, Held, Evicted, HoldersKeepNames, Providers, SshSteps
  <1> QED BY <1>1, NameInvariant, PTL

(* secret.rs, broker_udp: the consumer has the candidates of the provider  *)
(* that is told to punch, also when that provider kept the sender of an    *)
(* entry it found.                                                         *)
THEOREM PunchesMatch == NamesSpec => []PunchMatched
  <1>1. NameInv => PunchMatched  BY DEF NameInv
  <1> QED BY <1>1, NameInvariant, PTL
=============================================================================
