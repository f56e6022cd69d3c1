------------------------------- MODULE MuxProofs -------------------------------
(***************************************************************************)
(* Invariance proofs for Mux, for every set of callers and substreams and  *)
(* every channel capacity.  Three layers, each using the ones below it:    *)
(*   OwnInv   the variables' shapes and who owns each request and each     *)
(*            substream; says nothing of the count;                        *)
(*   CountInv the reference count (with it, full type correctness);        *)
(*   WakeInv  what the waker and the count promise a parked or closing     *)
(*            driver.                                                      *)
(***************************************************************************)
EXTENDS Mux, FiniteSetTheorems, SequenceTheorems, TLAPS

\* TypeOK without the two counters.
Shape ==
    /\ registered \in BOOLEAN /\ woken \in BOOLEAN
    /\ opener \subseteq Callers
    /\ acceptor \in BOOLEAN /\ terminated \in BOOLEAN
    /\ call \in [Callers -> {"idle", "sending", "waiting"}]
    /\ reply \in [Callers -> Streams \cup {None}]
    /\ strm \in [Streams -> StreamState]
    /\ pc \in DriverState
    /\ pending \in Callers \cup {None, Cancelled}
    /\ openersGone \in BOOLEAN /\ backlog \in BOOLEAN
    /\ reqs \in Seq(Callers \cup {Cancelled})
    /\ inbound \in Seq(Streams)
    /\ net \in {"up", "silent", "closed"}

\* Each outstanding request is in one place, its caller waits, and its oneshot
\* is empty; at most one substream is being delivered.
RequestInv ==
    /\ \A c \in Callers : pending = c => call[c] = "waiting" /\ reply[c] = None
    /\ \A i \in 1..Len(reqs) : reqs[i] \in Callers =>
         call[reqs[i]] = "waiting" /\ reply[reqs[i]] = None /\ pending # reqs[i]
    /\ \A i, j \in 1..Len(reqs) : reqs[i] \in Callers /\ reqs[i] = reqs[j] => i = j
    /\ \A c \in Callers : reply[c] # None => call[c] = "waiting"
    /\ \A s, u \in At({"sending"}) : s = u

OwnInv == Shape /\ EveryRefOwned /\ RequestInv

\* The system starts with nothing in flight.
LEMMA OwnInit == Init => OwnInv
  <1> SUFFICES ASSUME Init PROVE OwnInv
    OBVIOUS
  <1>1. Shape
    BY MuxAssumption, EmptySeq DEF Init, Shape, StreamState, DriverState
  <1>2. EveryRefOwned
    BY MuxAssumption DEF Init, EveryRefOwned, ReplyOwned, InboundOwned, At
  <1>3. RequestInv
    BY MuxAssumption DEF Init, RequestInv, At
  <1> QED BY <1>1, <1>2, <1>3 DEF OwnInv

\* Handles held by the application and the steps of the environment keep every
\* request and substream owned.
LEMMA OwnApp ==
  ASSUME OwnInv,
         \/ Accept \/ DropAcceptor \/ \E s \in Streams : DropStream(s)
         \/ Terminate \/ Wake \/ PeerOpens \/ NetChange \/ PeerAcks
  PROVE  OwnInv'
  <1> USE DEF OwnInv, livenessVars, appVars, driverVars
  <1>1. CASE Accept
    <2>1. /\ Head(inbound) \in Streams /\ Tail(inbound) \in Seq(Streams)
          /\ Head(inbound) = inbound[1]
          /\ Len(Tail(inbound)) = Len(inbound) - 1
          /\ \A i \in 1..Len(Tail(inbound)) : Tail(inbound)[i] = inbound[i + 1]
          /\ Len(inbound) \in Nat \ {0}
      BY <1>1, HeadTailProperties, EmptySeq DEF Accept, Shape
    <2>2. Shape'
      BY <1>1, <2>1 DEF Accept, Shape, StreamState
    <2>a. strm[Head(inbound)] = "queued"
      BY <2>1 DEF EveryRefOwned, InboundOwned
    <2>b. ReplyOwned'
      BY <1>1, <2>1, <2>a DEF Accept, Shape, EveryRefOwned, ReplyOwned, At
    <2>c. InboundOwned'
      <3>1. \A s \in At({"queued"})' : \E i \in 1..Len(inbound') : inbound'[i] = s
        <4> SUFFICES ASSUME NEW s \in Streams, strm'[s] = "queued"
                     PROVE  \E i \in 1..Len(inbound') : inbound'[i] = s
          BY DEF At
        <4>1. s # Head(inbound) /\ strm[s] = "queued"
          BY <1>1, <2>1 DEF Accept, Shape
        <4>2. PICK j \in 1..Len(inbound) : inbound[j] = s
          BY <4>1 DEF EveryRefOwned, InboundOwned, At
        <4>3. j - 1 \in 1..Len(inbound') /\ inbound'[j - 1] = s
          BY <1>1, <2>1, <4>1, <4>2 DEF Accept
        <4> QED BY <4>3
      <3>2. \A i \in 1..Len(inbound') : strm'[inbound'[i]] = "queued"
        BY <1>1, <2>1 DEF Accept, Shape, EveryRefOwned, InboundOwned
      <3>3. \A i, j \in 1..Len(inbound') : inbound'[i] = inbound'[j] => i = j
        BY <1>1, <2>1 DEF Accept, EveryRefOwned, InboundOwned
      <3> QED BY <1>1, <3>1, <3>2, <3>3 DEF Accept, InboundOwned
    <2>3. EveryRefOwned'
      BY <1>1, <2>1, <2>b, <2>c DEF Accept, Shape, EveryRefOwned, At
    <2>4. RequestInv'
      BY <1>1, <2>1 DEF Accept, Shape, StreamState, EveryRefOwned, ReplyOwned, InboundOwned, RequestInv, At
    <2> QED BY <2>2, <2>3, <2>4
  <1>2. CASE DropAcceptor
    <2>1. Shape'
      BY <1>2, EmptySeq DEF DropAcceptor, Shape, StreamState, Release
    <2>2. EveryRefOwned'
      BY <1>2 DEF DropAcceptor, Shape, StreamState, EveryRefOwned, ReplyOwned, InboundOwned, At
    <2>3. RequestInv'
      BY <1>2 DEF DropAcceptor, Shape, StreamState, RequestInv, At
    <2> QED BY <2>1, <2>2, <2>3
  <1>3. CASE \E s \in Streams : DropStream(s)
    <2> PICK s \in Streams : DropStream(s)
      BY <1>3
    <2>1. Shape'
      BY DEF DropStream, Shape, StreamState, Release
    <2>2. EveryRefOwned'
      BY DEF DropStream, Shape, StreamState, EveryRefOwned, ReplyOwned, InboundOwned, At
    <2>3. RequestInv'
      BY DEF DropStream, Shape, StreamState, RequestInv, At
    <2> QED BY <2>1, <2>2, <2>3
  <1>4. CASE PeerOpens
    <2>1. Shape'
      BY <1>4 DEF PeerOpens, Shape, StreamState, At
    <2>2. EveryRefOwned'
      BY <1>4 DEF PeerOpens, Shape, StreamState, EveryRefOwned, ReplyOwned, InboundOwned, At
    <2>3. RequestInv'
      BY <1>4 DEF PeerOpens, Shape, StreamState, RequestInv, At
    <2> QED BY <2>1, <2>2, <2>3
  <1>5. CASE Terminate \/ Wake \/ NetChange \/ PeerAcks
    <2>1. UNCHANGED <<opener, acceptor, call, reply, strm, pc, pending, reqs, inbound>>
      BY <1>5 DEF Terminate, Wake, NetChange, PeerAcks
    <2>2. Shape'
      BY <1>5 DEF Terminate, Wake, NetChange, PeerAcks, Shape
    <2>3. EveryRefOwned' /\ RequestInv'
      BY <2>1 DEF EveryRefOwned, ReplyOwned, InboundOwned, RequestInv, At
    <2> QED BY <2>2, <2>3
  <1> QED BY <1>1, <1>2, <1>3, <1>4, <1>5

\* What cancelling does to the request channel, position by position.
LEMMA CancelledRequests ==
  ASSUME NEW c \in Callers, reqs \in Seq(Callers \cup {Cancelled}),
         reqs' = [i \in 1..Len(reqs) |->
                    IF reqs[i] = c THEN Cancelled ELSE reqs[i]]
  PROVE  /\ reqs' \in Seq(Callers \cup {Cancelled})
         /\ Len(reqs') = Len(reqs)
         /\ \A i \in 1..Len(reqs) :
              reqs'[i] = IF reqs[i] = c THEN Cancelled ELSE reqs[i]
  <1>1. Len(reqs) \in Nat /\ \A i \in 1..Len(reqs) : reqs[i] \in Callers \cup {Cancelled}
    BY LenProperties, ElementOfSeq
  <1>2. reqs' \in [1..Len(reqs) -> Callers \cup {Cancelled}]
    BY <1>1
  <1>3. reqs' \in Seq(Callers \cup {Cancelled})
    BY <1>1, <1>2, SeqDef
  <1>4. DOMAIN reqs' = 1..Len(reqs) /\ DOMAIN reqs' = 1..Len(reqs') /\ Len(reqs') \in Nat
    BY <1>2, <1>3, LenProperties
  <1>5. Len(reqs') = Len(reqs)
    BY <1>1, <1>4
  <1> QED BY <1>2, <1>3, <1>5

\* The steps of a caller keep every request and substream owned.
LEMMA OwnCaller ==
  ASSUME OwnInv, NEW c \in Callers, Caller(c)
  PROVE  OwnInv'
  <1> USE DEF OwnInv, livenessVars, appVars, driverVars
  <1>0. Len(reqs) \in Nat /\ Len(inbound) \in Nat
    BY LenProperties DEF Shape
  <1>1. CASE DropOpener(c)
    BY <1>1 DEF DropOpener, Release, Shape, EveryRefOwned, ReplyOwned, InboundOwned, RequestInv, At
  <1>2. CASE Open(c)
    BY <1>2 DEF Open, Shape, EveryRefOwned, ReplyOwned, InboundOwned, RequestInv, At
  <1>3. CASE SendRequest(c)
    <2>1. CASE pc = "exited"
      <3>1. call' = [call EXCEPT ![c] = "idle"] /\ reqs' = reqs
        BY <1>3, <2>1 DEF SendRequest
      <3> QED
        BY <1>3, <3>1 DEF SendRequest, Shape, EveryRefOwned, ReplyOwned, InboundOwned, RequestInv, At
    <2>2. CASE pc # "exited"
      <3>1. /\ call' = [call EXCEPT ![c] = "waiting"] /\ call[c] = "sending"
            /\ reqs' = Append(reqs, c)
        BY <1>3, <2>2 DEF SendRequest
      <3>2. /\ reqs' \in Seq(Callers \cup {Cancelled})
            /\ Len(reqs') = Len(reqs) + 1
            /\ \A i \in 1..Len(reqs) : reqs'[i] = reqs[i]
            /\ reqs'[Len(reqs) + 1] = c
        BY <3>1, AppendProperties DEF Shape
      <3>3. Shape'
        BY <1>3, <3>1, <3>2 DEF SendRequest, Shape
      <3>4. EveryRefOwned'
        BY <1>3, <3>1 DEF SendRequest, Shape, EveryRefOwned, ReplyOwned, InboundOwned, At
      <3>5. RequestInv'
        BY <1>0, <1>3, <3>1, <3>2 DEF SendRequest, Shape, RequestInv, At
      <3> QED BY <3>3, <3>4, <3>5
    <2> QED BY <2>1, <2>2
  <1>4. CASE FinishOpen(c)
    <2>1. Shape'
      BY <1>4 DEF FinishOpen, Disconnected, Shape, StreamState
    <2>2. EveryRefOwned'
      <3>1. CASE reply[c] = None
        BY <1>4, <3>1, MuxAssumption DEF FinishOpen, Shape, EveryRefOwned,
                                         ReplyOwned, InboundOwned, At
      <3>2. CASE reply[c] # None
        <4>1. /\ strm' = [strm EXCEPT ![reply[c]] = "app"]
              /\ reply' = [reply EXCEPT ![c] = None]
              /\ call' = [call EXCEPT ![c] = "idle"]
              /\ reply[c] \in Streams /\ strm[reply[c]] = "reply"
          BY <1>4, <3>2 DEF FinishOpen, Disconnected, Shape, EveryRefOwned, ReplyOwned
        <4>2. ReplyOwned'
          BY <1>4, <4>1, MuxAssumption DEF FinishOpen, Shape, EveryRefOwned, ReplyOwned, At
        <4>3. InboundOwned'
          BY <1>0, <1>4, <4>1 DEF FinishOpen, Shape, EveryRefOwned, InboundOwned, At
        <4> QED BY <1>4, <4>1, <4>2, <4>3 DEF FinishOpen, Shape, EveryRefOwned, At
      <3> QED BY <3>1, <3>2
    <2>3. RequestInv'
      BY <1>4 DEF FinishOpen, Disconnected, InChannel, Shape, StreamState, RequestInv, At
    <2> QED BY <2>1, <2>2, <2>3
  <1>5. CASE CancelOpen(c)
    <2>1. /\ reqs' \in Seq(Callers \cup {Cancelled})
          /\ Len(reqs') = Len(reqs)
          /\ \A i \in 1..Len(reqs) :
               reqs'[i] = IF reqs[i] = c THEN Cancelled ELSE reqs[i]
      BY <1>5, CancelledRequests DEF CancelOpen, Shape
    <2>2. Shape'
      BY <1>5, <2>1 DEF CancelOpen, DropReply, Release, Shape, StreamState
    <2>3. EveryRefOwned'
      <3>1. CASE reply[c] = None
        BY <1>5, <3>1, MuxAssumption DEF CancelOpen, DropReply, Shape, EveryRefOwned,
                                         ReplyOwned, InboundOwned, At
      <3>2. CASE reply[c] # None
        <4>1. /\ strm' = [strm EXCEPT ![reply[c]] = "free"]
              /\ reply' = [reply EXCEPT ![c] = None]
              /\ call' = [call EXCEPT ![c] = "idle"]
              /\ reply[c] \in Streams /\ strm[reply[c]] = "reply"
          BY <1>5, <3>2 DEF CancelOpen, DropReply, Shape, EveryRefOwned, ReplyOwned
        <4>2. ReplyOwned'
          <5>1. \A d \in Callers : pending # d => pending' # d
            BY <1>5, MuxAssumption DEF CancelOpen
          <5> QED BY <4>1, <5>1, MuxAssumption DEF Shape, EveryRefOwned, ReplyOwned, At
        <4>3. InboundOwned'
          BY <1>0, <1>5, <4>1 DEF CancelOpen, Shape, EveryRefOwned, InboundOwned, At
        <4> QED BY <1>5, <4>1, <4>2, <4>3 DEF CancelOpen, Shape, EveryRefOwned, At
      <3> QED BY <3>1, <3>2
    <2>4. RequestInv'
      <3>1. /\ call' = [call EXCEPT ![c] = "idle"]
            /\ pending' = IF pending = c THEN Cancelled ELSE pending
            /\ \A d \in Callers : d # c => reply'[d] = reply[d]
            /\ reply'[c] = None
            /\ \A s \in Streams : strm'[s] = "sending" => strm[s] = "sending"
        BY <1>5 DEF CancelOpen, DropReply, Shape, StreamState
      <3>2. \A i \in 1..Len(reqs') : reqs'[i] \in Callers =>
               reqs'[i] = reqs[i] /\ reqs[i] # c
        BY <2>1, MuxAssumption
      <3>3. \A d \in Callers : pending' = d => d # c /\ pending = d
        BY <3>1, MuxAssumption
      <3>4. \A d \in Callers : d # c => call'[d] = call[d]
        BY <3>1 DEF Shape
      <3>5. \A d \in Callers : pending' = d => call'[d] = "waiting" /\ reply'[d] = None
        BY <3>1, <3>3, <3>4 DEF RequestInv
      <3>6. \A i \in 1..Len(reqs') : reqs'[i] \in Callers =>
              call'[reqs'[i]] = "waiting" /\ reply'[reqs'[i]] = None /\ pending' # reqs'[i]
        BY <2>1, <3>1, <3>2, <3>3, <3>4 DEF RequestInv
      <3>7. \A i, j \in 1..Len(reqs') :
              reqs'[i] \in Callers /\ reqs'[i] = reqs'[j] => i = j
        BY <2>1, <3>2 DEF RequestInv
      <3>8. \A d \in Callers : reply'[d] # None => call'[d] = "waiting"
        BY <3>1, <3>4 DEF RequestInv
      <3>9. \A s, u \in At({"sending"})' : s = u
        BY <3>1 DEF RequestInv, At
      <3> QED BY <3>5, <3>6, <3>7, <3>8, <3>9 DEF RequestInv
    <2> QED BY <2>2, <2>3, <2>4
  <1>6. CASE \E d \in Callers : CloneOpener(c, d)
    BY <1>6 DEF CloneOpener, Shape, EveryRefOwned, ReplyOwned, InboundOwned, RequestInv, At
  <1> QED BY <1>1, <1>2, <1>3, <1>4, <1>5, <1>6 DEF Caller

\* The steps of the driver keep every request and substream owned.
LEMMA OwnDriver ==
  ASSUME OwnInv, Driver \/ DropDrive
  PROVE  OwnInv'
  <1> USE DEF OwnInv, livenessVars, appVars, driverVars
  <1>0. Len(reqs) \in Nat /\ Len(inbound) \in Nat
    BY LenProperties DEF Shape
  <1>1. CASE Run \/ PollLiveness
    <2>1. /\ UNCHANGED <<appVars, strm, terminated, pending, openersGone, reqs,
                         inbound, net, backlog>>
          /\ pc # "deliver" /\ pc' \in DriverState
          /\ registered' \in BOOLEAN /\ woken' \in BOOLEAN
      BY <1>1 DEF Run, PollLiveness, DriverState, Shape
    <2> QED BY <2>1 DEF Shape, EveryRefOwned, ReplyOwned, InboundOwned, RequestInv, At
  <1>2. CASE PollRequests
    <2>1. CASE pending = None /\ ~openersGone /\ reqs # <<>>
      <3>1. /\ Head(reqs) = reqs[1] /\ reqs[1] \in Callers \cup {Cancelled}
            /\ Tail(reqs) \in Seq(Callers \cup {Cancelled})
            /\ Len(Tail(reqs)) = Len(reqs) - 1
            /\ \A i \in 1..Len(Tail(reqs)) : Tail(reqs)[i] = reqs[i + 1]
            /\ Len(reqs) \in Nat \ {0}
        BY <2>1, HeadTailProperties, EmptySeq DEF Shape
      <3>2. pending' = Head(reqs) /\ reqs' = Tail(reqs) /\ openersGone' = openersGone
        BY <1>2, <2>1 DEF PollRequests
      <3>3. Shape'
        BY <1>2, <3>1, <3>2 DEF PollRequests, Shape, DriverState
      <3>4. EveryRefOwned'
        <4>1. \A d \in Callers : pending' = d => reply[d] = None
          BY <3>1, <3>2 DEF RequestInv
        <4> QED
          BY <1>2, <4>1, MuxAssumption DEF PollRequests, Shape, EveryRefOwned,
                                           ReplyOwned, InboundOwned, At
      <3>5. RequestInv'
        <4>1. \A i \in 1..Len(reqs') : i + 1 \in 1..Len(reqs) /\ reqs'[i] = reqs[i + 1]
          BY <3>1, <3>2
        <4>2. UNCHANGED <<call, reply, strm>>
          BY <1>2 DEF PollRequests
        <4>3. 1 \in 1..Len(reqs) /\ pending' = reqs[1]
          BY <3>1, <3>2
        <4> QED BY <1>0, <4>1, <4>2, <4>3 DEF RequestInv, At
      <3> QED BY <3>3, <3>4, <3>5
    <2>2. CASE ~(pending = None /\ ~openersGone /\ reqs # <<>>)
      <3>1. /\ openersGone' \in BOOLEAN /\ pc' = "outbound" /\ pc # "deliver"
            /\ UNCHANGED <<livenessVars, appVars, strm, terminated, woken, inbound,
                           net, backlog, pending, reqs>>
        BY <1>2, <2>2 DEF PollRequests, Shape
      <3> QED
        BY <3>1 DEF Shape, DriverState, EveryRefOwned, ReplyOwned, InboundOwned,
                    RequestInv, At
    <2> QED BY <2>1, <2>2
  <1>3. CASE PollOutbound
    <2>1. CASE UNCHANGED <<strm, reply>> /\ pending' \in {pending, None}
      <3>1. Shape'
        BY <1>3, <2>1 DEF PollOutbound, ReleaseByDriver, Shape, DriverState
      <3>2. EveryRefOwned'
        BY <1>3, <2>1, MuxAssumption DEF PollOutbound, Shape, EveryRefOwned,
                                         ReplyOwned, InboundOwned, At
      <3>3. RequestInv'
        BY <1>0, <1>3, <2>1, MuxAssumption DEF PollOutbound, Shape, RequestInv, At
      <3> QED BY <3>1, <3>2, <3>3
    <2>2. ASSUME NEW s \in At({"free"}), pending \in Callers,
                 strm' = [strm EXCEPT ![s] = "reply"],
                 reply' = [reply EXCEPT ![pending] = s], pending' = None
          PROVE  OwnInv'
      <3>1. Shape'
        BY <1>3, <2>2 DEF PollOutbound, ReleaseByDriver, Shape, DriverState, StreamState, At
      <3>2. ReplyOwned'
        BY <1>3, <2>2, MuxAssumption DEF PollOutbound, Shape, EveryRefOwned,
                                         ReplyOwned, RequestInv, At
      <3>3. EveryRefOwned'
        BY <1>0, <1>3, <2>2, <3>2 DEF PollOutbound, Shape, EveryRefOwned, InboundOwned, At
      <3>4. RequestInv'
        BY <1>0, <1>3, <2>2, MuxAssumption DEF PollOutbound, Shape, RequestInv, At
      <3> QED BY <3>1, <3>3, <3>4
    <2> QED BY <1>3, <2>1, <2>2 DEF PollOutbound
  <1>4. CASE PollInbound
    <2>1. Shape'
      BY <1>4 DEF PollInbound, Shape, DriverState, StreamState, At
    <2>2. EveryRefOwned'
      BY <1>0, <1>4 DEF PollInbound, Shape, StreamState, EveryRefOwned, ReplyOwned,
                        InboundOwned, At
    <2>3. RequestInv'
      BY <1>0, <1>4 DEF PollInbound, Shape, StreamState, EveryRefOwned, RequestInv, At
    <2> QED BY <2>1, <2>2, <2>3
  <1>5. CASE Deliver
    <2> PICK s \in At({"sending"}) :
          \/ /\ acceptor
             /\ strm' = [strm EXCEPT ![s] = "queued"]
             /\ inbound' = Append(inbound, s)
             /\ UNCHANGED <<livenessVars, woken>>
          \/ /\ ~acceptor
             /\ strm' = [strm EXCEPT ![s] = "free"]
             /\ ReleaseByDriver(handles)
             /\ UNCHANGED inbound
      BY <1>5 DEF Deliver
    <2>1. s \in Streams /\ strm[s] = "sending"
      BY DEF At
    <2>2. CASE acceptor
      <3>1. /\ inbound' \in Seq(Streams)
            /\ Len(inbound') = Len(inbound) + 1
            /\ \A i \in 1..Len(inbound) : inbound'[i] = inbound[i]
            /\ inbound'[Len(inbound) + 1] = s
            /\ strm' = [strm EXCEPT ![s] = "queued"]
            /\ UNCHANGED <<registered, woken>>
        <4>1. /\ inbound' = Append(inbound, s) /\ strm' = [strm EXCEPT ![s] = "queued"]
              /\ UNCHANGED <<registered, woken>>
          BY <2>2
        <4> QED BY <2>1, <4>1, AppendProperties DEF Shape
      <3>2. Shape'
        BY <1>5, <2>1, <3>1 DEF Deliver, Shape, DriverState, StreamState
      <3>3. InboundOwned'
        <4>1. acceptor' = acceptor
          BY <1>5 DEF Deliver
        <4>2. \A u \in At({"queued"})' : \E i \in 1..Len(inbound') : inbound'[i] = u
          <5> SUFFICES ASSUME NEW u \in Streams, strm'[u] = "queued"
                       PROVE  \E i \in 1..Len(inbound') : inbound'[i] = u
            BY DEF At
          <5>1. CASE u = s
            BY <1>0, <3>1, <5>1
          <5>2. CASE u # s
            <6>1. PICK i \in 1..Len(inbound) : inbound[i] = u
              BY <3>1, <5>2 DEF Shape, EveryRefOwned, InboundOwned, At
            <6> QED BY <1>0, <3>1, <6>1
          <5> QED BY <5>1, <5>2
        <4>3. \A i \in 1..Len(inbound) : inbound[i] # s /\ inbound[i] \in Streams
          BY <2>1, ElementOfSeq DEF Shape, EveryRefOwned, InboundOwned
        <4>4. \A i \in 1..Len(inbound') :
                 i = Len(inbound) + 1 \/ i \in 1..Len(inbound)
          BY <1>0, <3>1
        <4>5. \A i \in 1..Len(inbound') : strm'[inbound'[i]] = "queued"
          <5> TAKE i \in 1..Len(inbound')
          <5>1. CASE i = Len(inbound) + 1
            BY <2>1, <3>1, <5>1 DEF Shape
          <5>2. CASE i \in 1..Len(inbound)
            <6>1. inbound'[i] = inbound[i] /\ strm[inbound[i]] = "queued"
              BY <3>1, <5>2 DEF EveryRefOwned, InboundOwned
            <6> QED BY <2>1, <3>1, <4>3, <5>2, <6>1 DEF Shape
          <5> QED BY <4>4, <5>1, <5>2
        <4>6. \A i, j \in 1..Len(inbound') : inbound'[i] = inbound'[j] => i = j
          BY <3>1, <4>3, <4>4 DEF EveryRefOwned, InboundOwned
        <4> QED BY <2>2, <4>1, <4>2, <4>5, <4>6 DEF InboundOwned
      <3>4. EveryRefOwned'
        BY <1>5, <2>1, <3>1, <3>3 DEF Deliver, Shape, EveryRefOwned, ReplyOwned,
                                      RequestInv, At
      <3>5. RequestInv'
        BY <1>0, <1>5, <2>1, <3>1 DEF Deliver, Shape, RequestInv, At
      <3> QED BY <3>2, <3>4, <3>5
    <2>3. CASE ~acceptor
      <3>1. Shape'
        BY <1>5, <2>1, <2>3 DEF Deliver, ReleaseByDriver, Shape, DriverState, StreamState
      <3>2. EveryRefOwned'
        BY <1>5, <2>1, <2>3 DEF Deliver, Shape, EveryRefOwned, ReplyOwned, InboundOwned,
                                RequestInv, At
      <3>3. RequestInv'
        BY <1>0, <1>5, <2>1, <2>3 DEF Deliver, Shape, RequestInv, At
      <3> QED BY <3>1, <3>2, <3>3
    <2> QED BY <2>2, <2>3
  <1>6. CASE FinishClose \/ DropDrive
    <2>1. Exit
      BY <1>6 DEF FinishClose, DropDrive
    <2>2. /\ Len(reqs') = 0 /\ pending' = None /\ pc' = "exited"
          /\ reqs' \in Seq(Callers \cup {Cancelled})
      BY <2>1, EmptySeq DEF Exit, DropRequests
    <2>3. Shape'
      BY <2>1, <2>2 DEF Exit, Shape, DriverState, StreamState
    <2>4. EveryRefOwned'
      BY <1>0, <2>1, <2>2, MuxAssumption DEF Exit, Shape, StreamState, EveryRefOwned,
                                      ReplyOwned, InboundOwned, At
    <2>5. RequestInv'
      BY <2>1, <2>2, MuxAssumption DEF Exit, Shape, StreamState, RequestInv, At
    <2> QED BY <2>3, <2>4, <2>5
  <1> QED BY <1>1, <1>2, <1>3, <1>4, <1>5, <1>6 DEF Driver

\* Nothing above depends on the count, so ownership is an invariant by itself.
THEOREM Ownership == Spec => []OwnInv
  <1>1. Init => OwnInv
    BY OwnInit
  <1>2. OwnInv /\ [Next]_vars => OwnInv'
    <2> SUFFICES ASSUME OwnInv, [Next]_vars PROVE OwnInv'
      OBVIOUS
    <2>1. CASE Next
      BY <2>1, OwnApp, OwnCaller, OwnDriver DEF Next
    <2>2. CASE UNCHANGED vars
      BY <2>2 DEF vars, OwnInv, Shape, EveryRefOwned, ReplyOwned, InboundOwned,
                  RequestInv, At
    <2> QED BY <2>1, <2>2
  <1> QED BY <1>1, <1>2, PTL DEF Spec

-------------------------------------------------------------------------------
(* The reference count *)

\* Every set the count ranges over is finite.
LEMMA CountedFinite ==
  ASSUME NEW S \in SUBSET Streams
  PROVE  IsFiniteSet(S) /\ Cardinality(S) \in Nat
  BY MuxAssumption, FS_Subset, FS_CardinalityType

LEMMA OpenerFinite ==
  ASSUME Shape
  PROVE  IsFiniteSet(opener) /\ Cardinality(opener) \in Nat
  BY MuxAssumption, FS_Subset, FS_CardinalityType DEF Shape

\* Freeing every substream of a set of counted places removes exactly those.
LEMMA FreePlaces ==
  ASSUME strm \in [Streams -> StreamState], NEW gone \in SUBSET StreamState,
         NEW P \in SUBSET Counted, gone \cap Counted = P,
         strm' = [s \in Streams |-> IF strm[s] \in gone THEN "free" ELSE strm[s]]
  PROVE  /\ Cardinality(At(Counted)') = Cardinality(At(Counted)) - Cardinality(At(P))
         /\ Cardinality(At(P)) \in Nat
         /\ Cardinality(At(P)) <= Cardinality(At(Counted))
  <1>1. At(Counted)' = At(Counted) \ At(P)
    BY DEF At, Counted
  <1>2. At(P) \subseteq At(Counted) /\ At(Counted) \cap At(P) = At(P)
    BY DEF At
  <1>3. /\ IsFiniteSet(At(Counted)) /\ IsFiniteSet(At(P))
        /\ Cardinality(At(Counted)) \in Nat /\ Cardinality(At(P)) \in Nat
    BY CountedFinite DEF At
  <1>4. Cardinality(At(Counted) \ At(P)) = Cardinality(At(Counted)) - Cardinality(At(P))
    <2>1. Cardinality(At(Counted) \ At(P))
            = Cardinality(At(Counted)) - Cardinality(At(Counted) \cap At(P))
      BY <1>3, FS_Difference
    <2> QED BY <1>2, <2>1
  <1>5. Cardinality(At(P)) <= Cardinality(At(Counted))
    BY <1>2, <1>3, FS_Subset
  <1> QED BY <1>1, <1>3, <1>4, <1>5

\* The moves that leave the number alone, make a reference, or drop one.
LEMMA StreamKept ==
  ASSUME strm \in [Streams -> StreamState], NEW s \in Streams, NEW v \in StreamState,
         v \in Counted <=> strm[s] \in Counted,
         strm' = [strm EXCEPT ![s] = v]
  PROVE  Cardinality(At(Counted)') = Cardinality(At(Counted))
  <1>1. At(Counted)' = At(Counted)
    BY DEF At
  <1> QED BY <1>1

LEMMA StreamTracked ==
  ASSUME strm \in [Streams -> StreamState], NEW s \in Streams, NEW v \in StreamState,
         v \in Counted, strm[s] \notin Counted,
         strm' = [strm EXCEPT ![s] = v]
  PROVE  Cardinality(At(Counted)') = Cardinality(At(Counted)) + 1
  <1>1. At(Counted)' = At(Counted) \cup {s} /\ s \notin At(Counted)
    BY DEF At
  <1>2. IsFiniteSet(At(Counted))
    BY CountedFinite DEF At
  <1>3. Cardinality(At(Counted) \cup {s}) = Cardinality(At(Counted)) + 1
    BY <1>1, <1>2, FS_AddElement
  <1> QED BY <1>1, <1>3

LEMMA StreamDropped ==
  ASSUME strm \in [Streams -> StreamState], NEW s \in Streams, NEW v \in StreamState,
         v \notin Counted, strm[s] \in Counted,
         strm' = [strm EXCEPT ![s] = v]
  PROVE  Cardinality(At(Counted)') = Cardinality(At(Counted)) - 1
  <1>1. At(Counted)' = At(Counted) \ {s} /\ s \in At(Counted)
    BY DEF At
  <1>2. IsFiniteSet(At(Counted))
    BY CountedFinite DEF At
  <1>3. Cardinality(At(Counted) \ {s}) = Cardinality(At(Counted)) - 1
    BY <1>1, <1>2, FS_RemoveElement
  <1> QED BY <1>1, <1>3

\* Which places carry a reference.
LEMMA Places ==
  /\ \A p \in {"sending", "queued", "reply", "app"} : p \in Counted /\ p \in StreamState
  /\ \A p \in {"free", "wire"} : p \notin Counted /\ p \in StreamState
  BY DEF Counted, StreamState

CountInv == RefCount /\ waking \in Nat

LEMMA CountInit == Init => CountInv
  <1> SUFFICES ASSUME Init PROVE CountInv
    OBVIOUS
  <1>1. At(Counted) = {} /\ Cardinality(At(Counted)) = 0
    BY FS_EmptySet DEF Init, At, Counted
  <1>2. Cardinality(opener) = 1
    BY FS_Singleton DEF Init
  <1> QED BY <1>1, <1>2 DEF Init, CountInv, RefCount

\* Every step changes the count by the references it makes and drops.
LEMMA CountNext ==
  ASSUME OwnInv, CountInv, [Next]_vars
  PROVE  CountInv'
  <1> USE DEF OwnInv, CountInv, livenessVars, appVars, driverVars
  <1>0. /\ IsFiniteSet(opener) /\ Cardinality(opener) \in Nat
        /\ Cardinality(At(Counted)) \in Nat
        /\ strm \in [Streams -> StreamState]
    BY OpenerFinite, CountedFinite DEF At, Shape
  <1>1. ASSUME NEW c \in Callers, DropOpener(c) PROVE CountInv'
    <2>1. Cardinality(opener') = Cardinality(opener) - 1
      BY <1>0, <1>1, FS_RemoveElement DEF DropOpener
    <2> QED BY <1>0, <1>1, <2>1 DEF DropOpener, Release, RefCount, At
  <1>2. ASSUME NEW c \in Callers, NEW d \in Callers, CloneOpener(c, d) PROVE CountInv'
    <2>1. Cardinality(opener') = Cardinality(opener) + 1
      BY <1>0, <1>2, FS_AddElement DEF CloneOpener
    <2> QED BY <1>0, <1>2, <2>1 DEF CloneOpener, Track, RefCount, At
  <1>3. ASSUME NEW c \in Callers, FinishOpen(c) PROVE CountInv'
    <2>1. CASE reply[c] # None
      <3>1. /\ strm' = [strm EXCEPT ![reply[c]] = "app"]
            /\ reply[c] \in Streams /\ strm[reply[c]] = "reply"
        BY <1>3, <2>1 DEF FinishOpen, Disconnected, Shape, EveryRefOwned, ReplyOwned
      <3>2. Cardinality(At(Counted)') = Cardinality(At(Counted))
        BY <1>0, <3>1, StreamKept, Places
      <3> QED BY <1>3, <3>2 DEF FinishOpen, RefCount
    <2>2. CASE reply[c] = None
      BY <1>3, <2>2 DEF FinishOpen, RefCount, At
    <2> QED BY <2>1, <2>2
  <1>4. ASSUME NEW c \in Callers, CancelOpen(c) PROVE CountInv'
    <2>1. CASE reply[c] # None
      <3>1. /\ strm' = [strm EXCEPT ![reply[c]] = "free"]
            /\ reply[c] \in Streams /\ strm[reply[c]] = "reply"
        BY <1>4, <2>1 DEF CancelOpen, DropReply, Shape, EveryRefOwned, ReplyOwned
      <3>2. Cardinality(At(Counted)') = Cardinality(At(Counted)) - 1
        BY <1>0, <3>1, StreamDropped, Places
      <3>3. Release(1) /\ UNCHANGED <<opener, acceptor>>
        BY <1>4, <2>1 DEF CancelOpen, DropReply
      <3> QED BY <1>0, <3>2, <3>3 DEF Release, RefCount
    <2>2. CASE reply[c] = None
      BY <1>4, <2>2 DEF CancelOpen, DropReply, RefCount, At
    <2> QED BY <2>1, <2>2
  <1>5. ASSUME NEW c \in Callers, Open(c) \/ SendRequest(c) PROVE CountInv'
    <2>1. UNCHANGED <<livenessVars, opener, acceptor, strm>>
      BY <1>5 DEF Open, SendRequest
    <2> QED BY <2>1 DEF RefCount, At
  <1>6. CASE Accept
    <2>1. Head(inbound) \in Streams /\ strm[Head(inbound)] = "queued"
      BY <1>6, HeadTailProperties, EmptySeq DEF Accept, Shape, EveryRefOwned, InboundOwned
    <2>2. Cardinality(At(Counted)') = Cardinality(At(Counted))
      BY <1>0, <1>6, <2>1, StreamKept, Places DEF Accept
    <2> QED BY <1>6, <2>2 DEF Accept, RefCount
  <1>7. CASE DropAcceptor
    <2>1. strm' = [s \in Streams |-> IF strm[s] \in {"queued"} THEN "free" ELSE strm[s]]
      BY <1>7 DEF DropAcceptor
    <2>2. /\ Cardinality(At(Counted)') = Cardinality(At(Counted)) - Cardinality(At({"queued"}))
          /\ Cardinality(At({"queued"})) \in Nat
      <3>1. {"queued"} \subseteq StreamState /\ {"queued"} \subseteq Counted
        BY DEF StreamState, Counted
      <3> QED BY <1>0, <2>1, <3>1, FreePlaces
    <2> QED BY <1>0, <1>7, <2>2 DEF DropAcceptor, Release, RefCount
  <1>8. ASSUME NEW s \in Streams, DropStream(s) PROVE CountInv'
    <2>1. Cardinality(At(Counted)') = Cardinality(At(Counted)) - 1
      BY <1>0, <1>8, StreamDropped, Places DEF DropStream
    <2> QED BY <1>0, <1>8, <2>1 DEF DropStream, Release, RefCount
  <1>9. CASE Terminate \/ Wake \/ NetChange \/ PeerAcks \/ Run \/ PollLiveness \/ PollRequests
    <2>1. UNCHANGED <<handles, opener, acceptor, strm>> /\ waking' \in Nat
      BY <1>9 DEF Terminate, Wake, NetChange, PeerAcks, Run, PollLiveness, PollRequests
    <2> QED BY <2>1 DEF RefCount, At
  <1>10. CASE PeerOpens
    <2>1. CASE UNCHANGED strm
      BY <1>10, <2>1 DEF PeerOpens, RefCount, At
    <2>2. ASSUME NEW s \in At({"free"}), strm' = [strm EXCEPT ![s] = "wire"]
          PROVE  CountInv'
      <3>1. s \in Streams /\ strm[s] = "free"
        BY <2>2 DEF At
      <3>2. Cardinality(At(Counted)') = Cardinality(At(Counted))
        BY <1>0, <2>2, <3>1, StreamKept, Places
      <3> QED BY <1>10, <3>2 DEF PeerOpens, RefCount
    <2> QED BY <1>10, <2>1, <2>2 DEF PeerOpens
  <1>11. CASE PollOutbound
    <2>1. CASE UNCHANGED strm /\ handles' = handles
      BY <1>11, <2>1 DEF PollOutbound, ReleaseByDriver, RefCount, At
    <2>2. ASSUME NEW s \in At({"free"}), strm' = [strm EXCEPT ![s] = "reply"], Track
          PROVE  CountInv'
      <3>1. s \in Streams /\ strm[s] = "free"
        BY <2>2 DEF At
      <3>2. Cardinality(At(Counted)') = Cardinality(At(Counted)) + 1
        BY <1>0, <2>2, <3>1, StreamTracked, Places
      <3>3. waking' = waking
        BY <1>11 DEF PollOutbound, ReleaseByDriver
      <3> QED BY <1>0, <1>11, <2>2, <3>2, <3>3 DEF PollOutbound, Track, RefCount
    <2>3. handles \in Nat
      BY <1>0 DEF RefCount
    <2> QED BY <1>11, <2>1, <2>2, <2>3 DEF PollOutbound, ReleaseByDriver
  <1>12. CASE PollInbound
    <2>1. CASE UNCHANGED <<strm, handles>>
      BY <1>12, <2>1 DEF PollInbound, RefCount, At
    <2>2. ASSUME NEW s \in At({"wire"}), strm' = [strm EXCEPT ![s] = "sending"], Track
          PROVE  CountInv'
      <3>1. s \in Streams /\ strm[s] = "wire"
        BY <2>2 DEF At
      <3>2. Cardinality(At(Counted)') = Cardinality(At(Counted)) + 1
        BY <1>0, <2>2, <3>1, StreamTracked, Places
      <3> QED BY <1>0, <1>12, <2>2, <3>2 DEF PollInbound, Track, RefCount
    <2> QED BY <1>12, <2>1, <2>2 DEF PollInbound
  <1>13. CASE Deliver
    <2>1. ASSUME NEW s \in At({"sending"}), strm' = [strm EXCEPT ![s] = "queued"],
                 UNCHANGED livenessVars
          PROVE  CountInv'
      <3>1. s \in Streams /\ strm[s] = "sending"
        BY <2>1 DEF At
      <3>2. Cardinality(At(Counted)') = Cardinality(At(Counted))
        BY <1>0, <2>1, <3>1, StreamKept, Places
      <3> QED BY <1>13, <2>1, <3>2 DEF Deliver, RefCount
    <2>2. ASSUME NEW s \in At({"sending"}), strm' = [strm EXCEPT ![s] = "free"],
                 ReleaseByDriver(handles)
          PROVE  CountInv'
      <3>1. s \in Streams /\ strm[s] = "sending"
        BY <2>2 DEF At
      <3>2. Cardinality(At(Counted)') = Cardinality(At(Counted)) - 1
        BY <1>0, <2>2, <3>1, StreamDropped, Places
      <3> QED BY <1>0, <1>13, <2>2, <3>2 DEF Deliver, ReleaseByDriver, RefCount
    <2> QED BY <1>13, <2>1, <2>2 DEF Deliver
  <1>14. CASE FinishClose \/ DropDrive
    <2>1. Exit
      BY <1>14 DEF FinishClose, DropDrive
    <2>2. /\ Cardinality(At(Counted)') = Cardinality(At(Counted)) - Cardinality(At({"sending"}))
          /\ Cardinality(At({"sending"})) \in Nat
      <3>1. /\ {"wire", "sending"} \subseteq StreamState /\ {"sending"} \subseteq Counted
            /\ {"wire", "sending"} \cap Counted = {"sending"}
        BY DEF StreamState, Counted
      <3> QED BY <1>0, <2>1, <3>1, FreePlaces DEF Exit
    <2> QED BY <1>0, <2>1, <2>2 DEF Exit, RefCount
  <1>15. CASE UNCHANGED vars
    BY <1>15 DEF vars, RefCount, At
  <1> QED BY <1>1, <1>2, <1>3, <1>4, <1>5, <1>6, <1>7, <1>8, <1>9, <1>10, <1>11,
             <1>12, <1>13, <1>14, <1>15 DEF Next, Caller, Driver

\* The count is always the number of references that exist (ConnRef::new and
\* ConnRef::drop balance on every path, cancelled opens and refused inbound
\* substreams included).
THEOREM ReferenceCount == Spec => []RefCount
  <1>1. Init => CountInv
    BY CountInit
  <1>2. OwnInv /\ CountInv /\ [Next]_vars => CountInv'
    BY CountNext
  <1>3. CountInv => RefCount
    BY DEF CountInv
  <1> QED BY <1>1, <1>2, <1>3, Ownership, PTL DEF Spec

\* Every variable keeps its type; in particular the AtomicUsize never wraps
\* below zero.
THEOREM TypeCorrect == Spec => []TypeOK
  <1>1. Init => CountInv
    BY CountInit
  <1>2. OwnInv /\ CountInv /\ [Next]_vars => CountInv'
    BY CountNext
  <1>3. OwnInv /\ CountInv => TypeOK
    <2> SUFFICES ASSUME OwnInv, CountInv PROVE TypeOK
      OBVIOUS
    <2>1. Shape
      BY DEF OwnInv
    <2>2. Cardinality(opener) \in Nat /\ Cardinality(At(Counted)) \in Nat
      BY <2>1, OpenerFinite, CountedFinite DEF At
    <2>3. handles \in Nat /\ waking \in Nat
      BY <2>2 DEF CountInv, RefCount
    <2> QED BY <2>1, <2>3 DEF Shape, TypeOK
  <1> QED BY <1>1, <1>2, <1>3, Ownership, PTL DEF Spec

\* No substream, request or caller is ever left without an owner.
THEOREM RefsOwned == Spec => []EveryRefOwned
  <1>1. OwnInv => EveryRefOwned
    BY DEF OwnInv
  <1> QED BY <1>1, Ownership, PTL

-------------------------------------------------------------------------------
(* The waker and the close *)

\* From the registration of the waker until the task parks and is woken, the
\* waker is registered or has been used; after a non-zero count was read, a
\* count of zero means a wake happened or is coming; a driver that closed of
\* its own accord sees no reference again.
WakeInv ==
    /\ pc \in {"count", "recv", "outbound", "inbound", "deliver", "parked"} =>
         registered \/ woken
    /\ pc \in {"recv", "outbound", "inbound", "parked"} /\ handles = 0 =>
         woken \/ (waking > 0 /\ registered)
    /\ pc \in {"closing", "exited"} /\ net # "closed" /\ ~terminated => handles = 0

\* With a count of zero nobody holds anything.
LEMMA ZeroMeansUnused ==
  ASSUME OwnInv, CountInv, handles = 0
  PROVE  /\ opener = {} /\ ~acceptor /\ At(Counted) = {}
         /\ \A c \in Callers : call[c] = "idle" /\ reply[c] = None
  <1>1. /\ IsFiniteSet(opener) /\ Cardinality(opener) \in Nat
        /\ IsFiniteSet(At(Counted)) /\ Cardinality(At(Counted)) \in Nat
    BY OpenerFinite, CountedFinite DEF At, OwnInv
  <1>2. Cardinality(opener) = 0 /\ Cardinality(At(Counted)) = 0 /\ ~acceptor
    BY <1>1 DEF CountInv, RefCount, OwnInv, Shape
  <1>3. opener = {} /\ At(Counted) = {}
    BY <1>1, <1>2, FS_EmptySet
  <1>4. \A c \in Callers : call[c] = "idle"
    BY <1>3 DEF OwnInv, EveryRefOwned
  <1>5. \A c \in Callers : reply[c] = None
    BY <1>4 DEF OwnInv, RequestInv
  <1> QED BY <1>2, <1>3, <1>4, <1>5

\* Every step keeps the promises of the waker.
LEMMA WakeNext ==
  ASSUME OwnInv, CountInv, TypeOK, WakeInv, [Next]_vars
  PROVE  WakeInv'
  <1> USE DEF WakeInv, livenessVars, appVars, driverVars
  <1>0. handles \in Nat /\ waking \in Nat /\ pc \in DriverState
    BY DEF TypeOK
  <1>1. ASSUME NEW n \in Nat, n > 0, Release(n), handles # 0,
               UNCHANGED <<pc, woken, net, terminated>>
        PROVE  WakeInv'
    BY <1>0, <1>1 DEF Release
  <1>2. ASSUME NEW c \in Callers, Caller(c) PROVE WakeInv'
    <2>1. CASE DropOpener(c)
      <3>1. handles # 0
        BY <2>1, ZeroMeansUnused DEF DropOpener
      <3> QED BY <1>1, <2>1, <3>1 DEF DropOpener
    <2>2. CASE CancelOpen(c)
      <3>1. handles # 0
        BY <2>2, ZeroMeansUnused DEF CancelOpen
      <3>2. CASE reply[c] # None
        BY <1>1, <2>2, <3>1, <3>2 DEF CancelOpen, DropReply
      <3>3. CASE reply[c] = None
        BY <2>2, <3>3 DEF CancelOpen, DropReply
      <3> QED BY <3>2, <3>3
    <2>3. CASE \E d \in Callers : CloneOpener(c, d)
      <3>1. handles # 0
        BY <2>3, ZeroMeansUnused DEF CloneOpener
      <3> QED BY <1>0, <2>3, <3>1 DEF CloneOpener, Track
    <2>4. CASE Open(c)
      BY <2>4 DEF Open
    <2>5. CASE SendRequest(c)
      BY <2>5 DEF SendRequest
    <2>6. CASE FinishOpen(c)
      BY <2>6 DEF FinishOpen
    <2> QED BY <1>2, <2>1, <2>2, <2>3, <2>4, <2>5, <2>6 DEF Caller
  <1>3. CASE Accept
    BY <1>3 DEF Accept
  <1>4. CASE DropAcceptor
    <2>1. handles # 0
      BY <1>4, ZeroMeansUnused DEF DropAcceptor
    <2>2. 1 + Cardinality(At({"queued"})) \in Nat /\ 1 + Cardinality(At({"queued"})) > 0
      BY CountedFinite DEF At
    <2> QED BY <1>1, <1>4, <2>1, <2>2 DEF DropAcceptor
  <1>5. ASSUME NEW s \in Streams, DropStream(s) PROVE WakeInv'
    <2>1. handles # 0
      BY <1>5, ZeroMeansUnused DEF DropStream, At, Counted
    <2> QED BY <1>1, <1>5, <2>1 DEF DropStream
  <1>6. CASE Wake
    BY <1>0, <1>6 DEF Wake, TypeOK
  <1>7. CASE Terminate \/ NetChange \/ PeerAcks \/ PeerOpens
    BY <1>7 DEF Terminate, NetChange, PeerAcks, PeerOpens, TypeOK
  <1>8. CASE Run
    BY <1>8 DEF Run
  <1>9. CASE PollLiveness
    BY <1>0, <1>9 DEF PollLiveness, Unused, DriverState
  <1>10. CASE PollRequests
    BY <1>10 DEF PollRequests
  <1>11. CASE PollOutbound
    <2>1. CASE pc' = "poll"
      BY <2>1
    <2>2. CASE pc' = "inbound"
      BY <1>11, <2>2 DEF PollOutbound
    <2> QED BY <1>11, <2>1, <2>2 DEF PollOutbound
  <1>12. CASE PollInbound
    <2>1. CASE pc' = "deliver"
      BY <1>12, <2>1 DEF PollInbound
    <2>2. CASE pc' # "deliver"
      BY <1>12, <2>2 DEF PollInbound
    <2> QED BY <2>1, <2>2
  <1>13. CASE Deliver
    BY <1>13 DEF Deliver
  <1>14. CASE FinishClose \/ DropDrive
    <2>1. CASE net # "closed" /\ ~terminated
      <3>1. FinishClose /\ Exit /\ handles = 0
        BY <1>14, <2>1 DEF FinishClose, DropDrive
      <3>2. At({"sending"}) = {}
        BY <3>1, ZeroMeansUnused DEF At, Counted
      <3>3. handles' = 0
        BY <3>1, <3>2, FS_EmptySet DEF Exit
      <3> QED BY <3>1, <3>3 DEF Exit
    <2>2. CASE ~(net # "closed" /\ ~terminated)
      BY <1>14, <2>2 DEF FinishClose, DropDrive, Exit
    <2> QED BY <2>1, <2>2
  <1>15. CASE UNCHANGED vars
    BY <1>15 DEF vars
  <1> QED BY <1>2, <1>3, <1>4, <1>5, <1>6, <1>7, <1>8, <1>9, <1>10, <1>11,
             <1>12, <1>13, <1>14, <1>15 DEF Next, Driver

\* The waker invariant holds throughout, on top of the other two layers.
THEOREM WakerInvariant == Spec => [](OwnInv /\ CountInv /\ WakeInv)
  <1>1. Init => CountInv /\ WakeInv
    BY CountInit DEF Init, WakeInv
  <1>2. OwnInv /\ TypeOK /\ CountInv /\ WakeInv /\ [Next]_vars => CountInv' /\ WakeInv'
    BY CountNext, WakeNext
  <1> QED BY <1>1, <1>2, Ownership, TypeCorrect, PTL DEF Spec

\* A parked driver that nobody holds any more has been woken or is about to be.
THEOREM WakeNeverLost == Spec => []NoLostWake
  <1>1. WakeInv => NoLostWake
    BY DEF WakeInv, NoLostWake
  <1> QED BY <1>1, WakerInvariant, PTL

\* The driver never closes a working connection that somebody still uses.
THEOREM NeverClosedInUse == Spec => []IdleCloseSafe
  <1>1. OwnInv /\ CountInv /\ WakeInv => IdleCloseSafe
    <2> SUFFICES ASSUME OwnInv, CountInv, WakeInv, pc \in {"closing", "exited"},
                        net # "closed", ~terminated
                 PROVE  /\ opener = {} /\ ~acceptor
                        /\ At({"reply", "app", "queued"}) = {}
                        /\ \A c \in Callers : call[c] = "idle"
      BY DEF IdleCloseSafe
    <2>1. handles = 0
      BY DEF WakeInv
    <2> QED BY <2>1, ZeroMeansUnused DEF At, Counted
  <1> QED BY <1>1, WakerInvariant, PTL
================================================================================
