----------------------------- MODULE NameRegistry -----------------------------
(* The registration of one secret-tunnel name on the server: native        *)
(* providers (secret.rs), providers that come through the SSH gateway      *)
(* (sshgw.rs) and may take the name over from a session of the same        *)
(* identity, the UDP entry of the name, and the consumers that are         *)
(* brokered a direct path from it.                                         *)
(*                                                                         *)
(* Registry, owners map and UDP registry are separate concurrent maps:     *)
(* every operation on one of them is an action of its own, except where    *)
(* the code reads the owners under the registry's entry lock.              *)
EXTENDS Naturals, FiniteSets

CONSTANTS
    Native,      \* native provider connections
    Ssh,         \* SSH forwards that ask for the name
    Identity,    \* the identity of each SSH forward's key
    Consumers,
    None,
    MaxChannels    \* bound: UDP channels a provider makes

ASSUME NameAssumption ==
    /\ Native \cap Ssh = {} /\ None \notin Native \cup Ssh /\ MaxChannels \in Nat

Providers == Native \cup Ssh
Entry == [from : Native, to : Native, channel : 1 .. MaxChannels]

VARIABLES
    pc,         \* what each provider's task does
    holder,     \* registry: the provider whose pool is under the name
    owners,     \* the SSH forward recorded as its owner
    udp,        \* the name's UdpReg: candidates from, sender to
    channel,    \* the channel each native provider receives offers on
    read,       \* the entry a provider's offer, or a consumer, has read
    paired,     \* brokered paths: whose candidates, who was told to punch
    crossed     \* a pool was registered beside a stale owner record

namesVars == <<pc, holder, owners, udp, channel, read, paired, crossed>>

NamesInit ==
    /\ pc = [p \in Providers |-> "out"]
    /\ holder = None /\ owners = None /\ udp = None
    /\ channel = [n \in Native |-> 0]
    /\ read = [x \in Native \cup Consumers |-> None]
    /\ paired = {} /\ crossed = FALSE

(* The receiver behind an entry's sender: the last channel its provider    *)
(* made, while the provider's loop runs.                                   *)
Reaches(e) == pc[e.to] \in {"in", "offering"} /\ channel[e.to] = e.channel

Goes(p, to) == pc' = [pc EXCEPT ![p] = to]

-------------------------------------------------------------------------------
(* Mutant of RegisterName: a name in use is overwritten.                   *)
RegisterOver(n) ==
    /\ pc[n] = "out" /\ Goes(n, "in") /\ holder' = n
    /\ crossed' = (crossed \/ owners # None)
    /\ UNCHANGED <<owners, udp, channel, read, paired>>

(* serve_provider: a name in use is refused.                               *)
RegisterName(n) ==
    /\ pc[n] = "out"
    /\ IF holder = None
         THEN Goes(n, "in") /\ holder' = n /\ crossed' = (crossed \/ owners # None)
         ELSE Goes(n, "gone") /\ UNCHANGED <<holder, crossed>>
    /\ UNCHANGED <<owners, udp, channel, read, paired>>

(* register_provider_udp_offer: the sender of an entry that exists is      *)
(* kept, whoever made it; the entry is written in a second operation.      *)
ReadUdp(n) ==
    /\ pc[n] = "in" /\ Goes(n, "offering") /\ read' = [read EXCEPT ![n] = udp]
    /\ UNCHANGED <<holder, owners, udp, channel, paired, crossed>>

WriteUdp(n) ==
    /\ pc[n] = "offering" /\ Goes(n, "in") /\ read' = [read EXCEPT ![n] = None]
    /\ IF read[n] # None
         THEN udp' = [read[n] EXCEPT !.from = n] /\ UNCHANGED channel
         ELSE /\ channel[n] < MaxChannels /\ channel' = [channel EXCEPT ![n] = @ + 1]
              /\ udp' = [from |-> n, to |-> n, channel |-> channel[n] + 1]
    /\ UNCHANGED <<holder, owners, paired, crossed>>

(* The provider's loop ends, by EOF, silence or a failed send: its         *)
(* receiver goes first.                                                    *)
EndNative(n) ==
    /\ pc[n] = "in" /\ Goes(n, "closing")
    /\ UNCHANGED <<holder, owners, udp, channel, read, paired, crossed>>

(* Drop for Deregister: the name, then the UDP entry, both by name.        *)
DropName(n) ==
    /\ pc[n] = "closing" /\ Goes(n, "closed") /\ holder' = None
    /\ UNCHANGED <<owners, udp, channel, read, paired, crossed>>

DropUdp(n) ==
    /\ pc[n] = "closed" /\ Goes(n, "gone") /\ udp' = None
    /\ UNCHANGED <<holder, owners, channel, read, paired, crossed>>

-------------------------------------------------------------------------------
(* takeover_decision for the name's holder: a name without an owner record *)
(* is a native one.                                                        *)
TakeoverDecision(s) ==
    IF holder = None THEN "insert"
    ELSE IF owners # None /\ Identity[owners] = Identity[s] THEN "evict" ELSE "reject"

(* tcpip_forward_secret: the request is refused on a peek, else its task   *)
(* starts.                                                                 *)
Peek(s) ==
    /\ pc[s] = "out" /\ Goes(s, IF TakeoverDecision(s) = "reject" THEN "gone" ELSE "asked")
    /\ UNCHANGED <<holder, owners, udp, channel, read, paired, crossed>>

(* cancel_tcpip_forward while the task waits for its parameters.           *)
CancelAsked(s) ==
    /\ pc[s] = "asked" /\ Goes(s, "gone")
    /\ UNCHANGED <<holder, owners, udp, channel, read, paired, crossed>>

(* apply_takeover, under the registry's entry lock: decided again, and the *)
(* pool of an evicted incumbent removed.                                   *)
Decide(s) ==
    /\ pc[s] = "asked"
    /\ CASE TakeoverDecision(s) = "insert" -> Goes(s, "placing") /\ UNCHANGED holder
         [] TakeoverDecision(s) = "evict"  -> Goes(s, "evicting") /\ holder' = None
         [] OTHER                          -> Goes(s, "gone") /\ UNCHANGED holder
    /\ UNCHANGED <<owners, udp, channel, read, paired, crossed>>

(* apply_takeover, after the lock: the owner record that is there by now   *)
(* is removed, and its task aborted.                                       *)
EvictOwner(s) ==
    /\ pc[s] = "evicting" /\ owners' = None
    /\ pc' = [p \in Providers |-> IF p = s THEN "placing"
                                  ELSE IF p = owners /\ pc[p] = "in" THEN "closing"
                                  ELSE pc[p]]
    /\ UNCHANGED <<holder, udp, channel, read, paired, crossed>>

(* The pool is registered if the name is vacant, then the owner record.    *)
Place(s) ==
    /\ pc[s] = "placing"
    /\ IF holder = None
         THEN Goes(s, "placed") /\ holder' = s /\ crossed' = (crossed \/ owners # None)
         ELSE Goes(s, "gone") /\ UNCHANGED <<holder, crossed>>
    /\ UNCHANGED <<owners, udp, channel, read, paired>>

Own(s) ==
    /\ pc[s] = "placed" /\ Goes(s, "in") /\ owners' = s
    /\ UNCHANGED <<holder, udp, channel, read, paired, crossed>>

(* The forward is cancelled or its connection ends: the task is aborted.   *)
EndSsh(s) ==
    /\ pc[s] = "in" /\ Goes(s, "closing")
    /\ UNCHANGED <<holder, owners, udp, channel, read, paired, crossed>>

(* Mutant of DropPool: whatever is under the name goes.                    *)
DropPoolByName(s) ==
    /\ pc[s] = "closing" /\ Goes(s, "closed") /\ holder' = None
    /\ UNCHANGED <<owners, udp, channel, read, paired, crossed>>

(* Drop for SecretSshGuard: its own pool, then its own owner record.       *)
DropPool(s) ==
    /\ pc[s] = "closing" /\ Goes(s, "closed")
    /\ holder' = IF holder = s THEN None ELSE holder
    /\ UNCHANGED <<owners, udp, channel, read, paired, crossed>>

(* Mutant of DropOwner: the record is left for the next owner to overwrite.*)
DropOwnerNot(s) ==
    /\ pc[s] = "closed" /\ Goes(s, "gone")
    /\ UNCHANGED <<holder, owners, udp, channel, read, paired, crossed>>

DropOwner(s) ==
    /\ pc[s] = "closed" /\ Goes(s, "gone")
    /\ owners' = IF owners = s THEN None ELSE owners
    /\ UNCHANGED <<holder, udp, channel, read, paired, crossed>>

-------------------------------------------------------------------------------
(* broker_udp: the entry is copied out, the provider is told to punch      *)
(* through its sender, and only if that worked the consumer is given the   *)
(* provider's candidates; else it stays on the relay.                      *)
Ask(c) ==
    /\ read[c] = None /\ udp # None /\ read' = [read EXCEPT ![c] = udp]
    /\ UNCHANGED <<pc, holder, owners, udp, channel, paired, crossed>>

Broker(c) ==
    /\ read[c] # None /\ read' = [read EXCEPT ![c] = None]
    /\ paired' = paired \cup {x \in {<<read[c].from, read[c].to>>} : Reaches(read[c])}
    /\ UNCHANGED <<pc, holder, owners, udp, channel, crossed>>

-------------------------------------------------------------------------------
NamesNext ==
    \/ \E n \in Native : \/ RegisterName(n) \/ ReadUdp(n) \/ WriteUdp(n)
                         \/ EndNative(n) \/ DropName(n) \/ DropUdp(n)
    \/ \E s \in Ssh : \/ Peek(s) \/ CancelAsked(s) \/ Decide(s) \/ EvictOwner(s)
                      \/ Place(s) \/ Own(s) \/ EndSsh(s) \/ DropPool(s) \/ DropOwner(s)
    \/ \E c \in Consumers : Ask(c) \/ Broker(c)

NamesSpec == NamesInit /\ [][NamesNext]_namesVars
-------------------------------------------------------------------------------
(* A name nobody provides is free, with nothing left of it in any map,     *)
(* whatever takeovers, refusals and teardowns crossed on the way (the      *)
(* guards Deregister and SecretSshGuard).                                  *)
NameFreed ==
    (\A p \in Providers : pc[p] \in {"out", "gone"}) =>
        holder = None /\ owners = None /\ udp = None

(* A provider that serves keeps its name until it ends: only a session of  *)
(* its own identity evicts an SSH provider, nobody evicts a native one,    *)
(* and no guard of an earlier holder takes the name away.  This is lost    *)
(* once a pool is registered while the owner record of an earlier holder   *)
(* is still there: between a guard's two removals, or an eviction's.       *)
HoldersKeepNames ==
    ~crossed =>
        \A p \in Providers : pc[p] \in {"in", "offering"} =>
            \/ holder = p /\ (p \in Ssh => owners = p)
            \/ p \in Ssh /\ \E s \in Ssh \ {p} : /\ pc[s] = "evicting"
                                                /\ Identity[s] = Identity[p]

(* A consumer is never given the candidates of one provider while another  *)
(* is told to punch (under the same condition).                            *)
PunchMatched == ~crossed => \A x \in paired : x[1] = x[2]
=============================================================================
