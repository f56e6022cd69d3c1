----------------------------- MODULE FastLinkProofs ----------------------------
(* Theorems about FastLink, for every number of downloads, body, window    *)
(* and pump depth.                                                         *)
EXTENDS FastLink, TLAPS

DownStates == {"new", "resolved", "claimed", "handed", "served", "ended"}

(* The types the slot protocol rests on.                                   *)
SlotTypes ==
    /\ up \in UpStates
    /\ slot \in {"Waiting", "Streaming", "Closed"}
    /\ chan \in Downloads \cup {None} /\ peer \in Downloads \cup {None}
    /\ consumed \in 0 .. Total /\ replay \in -1 .. Total
    /\ down \in [Downloads -> DownStates]

(* Where the upload task is, told from the slot and the downloads.         *)
UploadPlace ==
    /\ up = "head" => slot = "Closed" /\ ~listed
    /\ up \in {"late", "cut", "starting", "pumping"} => slot = "Streaming"
    /\ up \in {"starting", "pumping"} =>
          peer \in Downloads /\ down[peer] = "served"
    /\ \A d \in Downloads : down[d] = "served" => up \in {"starting", "pumping"}
    /\ chan # None => down[chan] = "handed"
    /\ rd # "off" => up = "pumping"

Rearmable == {"head", "linking", "waiting", "late", "cut", "starting",
              "rearming"}

(* The replay buffer is whole or given up, and whole until a pump runs.    *)
ReplayState ==
    /\ replay \in {-1, consumed}
    /\ up \in {"head", "linking"} => consumed = 0
    /\ up \in Rearmable => replay = consumed

(* The inductive invariant.                                                *)
SlotInv ==
    /\ SlotTypes /\ UploadPlace /\ ReplayState
    /\ GaugesExact /\ ClaimExclusive /\ ReplayWhole

LEMMA SlotInvInit == Init => SlotInv
  BY FastLinkAssumption
  DEF Init, SlotInv, SlotTypes, UploadPlace, ReplayState, GaugesExact,
      ClaimExclusive, ReplayWhole, Holding, Gauge, UpStates, DownStates,
      Rearmable

(* The steps of the upload task.                                           *)
LEMMA SlotInvUpload == SlotInv /\ Upload => SlotInv'
  <1> SUFFICES ASSUME SlotInv, Upload PROVE SlotInv'  OBVIOUS
  <1> USE FastLinkAssumption
      DEF SlotInv, SlotTypes, UploadPlace, ReplayState, GaugesExact,
          ClaimExclusive, ReplayWhole, Holding, Gauge, UpStates, DownStates,
          Rearmable, slotVars, bodyVars, downVars, pumpVars
  <1>1. CASE Register  BY <1>1 DEF Register
  <1>2. CASE PrintLink  BY <1>2 DEF PrintLink, Frame
  <1>3. CASE LinkLost  BY <1>3 DEF LinkLost
  <1>4. CASE Prefill  BY <1>4 DEF Prefill, Reading, Frame
  <1>5. CASE UploadCut  BY <1>5 DEF UploadCut, Reading, take_or_close
  <1>6. CASE Malformed  BY <1>6 DEF Malformed, Reading
  <1>7. CASE Expire  BY <1>7 DEF Expire, take_or_close
  <1>8. CASE ReceiveHandoff  BY <1>8 DEF ReceiveHandoff
  <1>9. CASE RefuseHandoff  BY <1>9 DEF RefuseHandoff
  <1>10. CASE HandoffTimeout  BY <1>10 DEF HandoffTimeout
  <1>11. CASE StartFails  BY <1>11 DEF StartFails, HangUp
  <1>12. CASE SendHead  BY <1>12 DEF SendHead
  <1>13. CASE HeadLost  BY <1>13 DEF HeadLost, HangUp, rearm_or_fail, transition
  <1>14. CASE Rearmed  BY <1>14 DEF Rearmed
  <1>15. CASE Report  BY <1>15 DEF Report
  <1>16. CASE Leave  BY <1>16 DEF Leave, transition
  <1> QED BY <1>1, <1>2, <1>3, <1>4, <1>5, <1>6, <1>7, <1>8, <1>9, <1>10,
             <1>11, <1>12, <1>13, <1>14, <1>15, <1>16 DEF Upload

(* The steps of a download task.                                           *)
LEMMA SlotInvDownload ==
    ASSUME NEW d \in Downloads, SlotInv,
           Peek(d) \/ Resolve(d) \/ Claim(d) \/ HandOver(d)
    PROVE  SlotInv'
  <1> USE FastLinkAssumption
      DEF SlotInv, SlotTypes, UploadPlace, ReplayState, GaugesExact,
          ClaimExclusive, ReplayWhole, Holding, Gauge, UpStates, DownStates,
          Rearmable, slotVars, bodyVars, downVars, pumpVars, Answered
  <1>1. CASE Peek(d)  BY <1>1 DEF Peek
  <1>2. CASE Resolve(d)  BY <1>2 DEF Resolve
  <1>3. CASE Claim(d)
    <2>1. CASE slot = "Waiting"
      <3>1. \A e \in Downloads : ~Holding(e)  BY <2>1
      <3> QED BY <1>3, <2>1, <3>1 DEF Claim
    <2>2. CASE slot # "Waiting"  BY <1>3, <2>2 DEF Claim
    <2> QED BY <2>1, <2>2
  <1>4. CASE HandOver(d)  BY <1>4 DEF HandOver
  <1> QED BY <1>1, <1>2, <1>3, <1>4

(* The steps of the pump: only its end touches the slot.                   *)
LEMMA SlotInvPump ==
    ASSUME SlotInv, Reader \/ Writer \/ CancelReader \/ PumpDone
    PROVE  SlotInv'
  <1> USE FastLinkAssumption
      DEF SlotInv, SlotTypes, UploadPlace, ReplayState, GaugesExact,
          ClaimExclusive, ReplayWhole, Holding, Gauge, UpStates, DownStates,
          Rearmable, slotVars, bodyVars, downVars, pumpOnly
  <1>1. CASE Read  BY <1>1 DEF Read, Frame
  <1>2. CASE PumpDone
    BY <1>2 DEF PumpDone, HangUp, transition, rearm_or_fail
  <1>3. CASE Reader /\ ~Read
    BY <1>3 DEF Reader, ReaderStops, TakeBuffer, SendChunk, ReadFails,
                DropSender
  <1>4. CASE Writer
    BY <1>4 DEF Writer, PollCancelled, PollFull, Write, WriteFails
  <1>5. CASE CancelReader  BY <1>5 DEF CancelReader
  <1> QED BY <1>1, <1>2, <1>3, <1>4, <1>5

LEMMA SlotInvariant == Spec => []SlotInv
  <1>1. SlotInv /\ UNCHANGED vars => SlotInv'
    BY DEF SlotInv, SlotTypes, UploadPlace, ReplayState, GaugesExact,
           ClaimExclusive, ReplayWhole, Holding, vars
  <1>2. SlotInv /\ [Next]_vars => SlotInv'
    BY <1>1, SlotInvUpload, SlotInvDownload, SlotInvPump DEF Next
  <1> QED BY SlotInvInit, <1>2, PTL DEF Spec

(* session.rs, claim and hand-over: at most one download holds the slot,   *)
(* and the channel always has room for the one that claimed it, so that    *)
(* try_send never finds it full.                                           *)
THEOREM OneDownload == Spec => []ClaimExclusive
  <1>1. SlotInv => ClaimExclusive  BY DEF SlotInv
  <1> QED BY <1>1, SlotInvariant, PTL

(* session.rs, transition and SlotGuard (I-8): the gauges follow the slot  *)
(* on every path, and nothing is left of an upload that is gone.           *)
THEOREM GaugesFollow == Spec => []GaugesExact
  <1>1. SlotInv => GaugesExact  BY DEF SlotInv
  <1> QED BY <1>1, SlotInvariant, PTL

(* session.rs, rearm_or_fail (I-3): a slot that can be claimed has every   *)
(* unit that was read in its replay buffer.                                *)
THEOREM RearmKeepsAll == Spec => []ReplayWhole
  <1>1. SlotInv => ReplayWhole  BY DEF SlotInv
  <1> QED BY <1>1, SlotInvariant, PTL

-----------------------------------------------------------------------------
(* The pump.                                                               *)

ReadStates == {"off", "loop", "read", "send", "error", "drop", "ok", "failed",
               "cancelled"}
WriteStates == {"off", "poll", "recv", "write", "ok", "gone", "aborted"}

PumpTypes ==
    /\ rd \in ReadStates /\ wr \in WriteStates
    /\ got \in [Downloads -> 0 .. Total]
    /\ answer \in [Downloads -> {"none", "head", "peek", "404", "409", "503"}]
    /\ full \in Seq(Chunks) /\ piece \in Chunks /\ out \in Chunks
    /\ doomed \in BOOLEAN /\ cancel \in BOOLEAN
    /\ told \in {"nothing", "done", "failed", "expired"}

(* What the reader and the writer know of each other: who cancelled, and   *)
(* why each of them may have ended.                                        *)
PumpPlace ==
    /\ up = "pumping" <=> rd # "off"
    /\ up = "pumping" <=> wr # "off"
    /\ up = "pumping" => answer[peer] = "head"
    /\ \A d \in Downloads : answer[d] = "head" => down[d] \in {"served", "ended"}
    /\ up = "pumping" /\ cancel => wr = "gone" \/ rd \in {"drop", "failed"}
    /\ wr = "aborted" => cancel
    /\ rd = "cancelled" => wr = "gone"
    /\ wr = "ok" => rd \in {"ok", "failed"} /\ full = <<>>
    /\ wr = "gone" => got[peer] < Total
    /\ rd \in {"read", "error", "drop", "failed"} => consumed < Total
    /\ rd = "send" /\ doomed => consumed < Total
    /\ rd = "ok" => consumed = Total

(* The offsets between which the chunks of `full' lie.                     *)
From == IF wr = "write" THEN out[2] ELSE got[peer]
UpTo == IF rd = "send" THEN piece[1] ELSE consumed

(* The chunks under way, as long as the writer has not given up: they      *)
(* follow one another from what was written up to what was read.           *)
Chain ==
    up = "pumping" /\ wr # "gone" =>
        /\ wr = "write" => out[1] = got[peer] /\ out[1] < out[2]
        /\ rd = "send" => piece[1] < piece[2] /\ piece[2] = consumed
        /\ full = <<>> => From = UpTo
        /\ full # <<>> => full[1][1] = From /\ full[Len(full)][2] = UpTo
        /\ \A i \in 1 .. Len(full) :
              From <= full[i][1] /\ full[i][1] < full[i][2] /\ full[i][2] <= UpTo
        /\ \A i \in 1 .. Len(full) : \A j \in 1 .. Len(full) :
              i < j => full[i][2] <= full[j][1]
        /\ \A i \in 1 .. Len(full) - 1 : full[i][2] = full[i + 1][1]

(* A whole body is either reported or about to be.                         *)
WholeReported ==
    /\ told = "done" => up \in {"closing", "gone"} /\ \E d \in Downloads : Whole(d)
    /\ \A d \in Downloads :
          Whole(d) => told = "done" \/ (up = "pumping" /\ d = peer)

PumpInv == PumpTypes /\ PumpPlace /\ Chain /\ WholeReported

LEMMA PumpInvInit == Init => PumpInv
  <1> SUFFICES ASSUME Init PROVE PumpInv  OBVIOUS
  <1> USE FastLinkAssumption DEF Init
  <1>1. piece \in Chunks /\ out \in Chunks  BY DEF Chunks
  <1>2. full \in Seq(Chunks)  OBVIOUS
  <1>3. doomed \in BOOLEAN /\ cancel \in BOOLEAN  BY Zenon
  <1>4. PumpTypes  BY <1>1, <1>2, <1>3 DEF PumpTypes, ReadStates, WriteStates
  <1>5. PumpPlace /\ Chain /\ WholeReported
    BY DEF PumpPlace, Chain, WholeReported, Whole
  <1> QED BY <1>4, <1>5 DEF PumpInv

(* The upload task: only SendHead touches the pump.                        *)
LEMMA PumpInvUpload == SlotInv /\ PumpInv /\ Upload => PumpInv'
  <1> SUFFICES ASSUME SlotInv, PumpInv, Upload PROVE PumpInv'  OBVIOUS
  <1> USE FastLinkAssumption DEF SlotInv, SlotTypes, UploadPlace, ReplayState
  <1>1. CASE SendHead
    <2> USE <1>1 DEF SendHead, slotVars, bodyVars
    <2>1. peer \in Downloads /\ replay = consumed /\ peer' = peer
      BY DEF Rearmable
    <2>2. got' = [got EXCEPT ![peer] = consumed] /\ consumed' = consumed
      BY <2>1
    <2>3. PumpTypes'
      <3>1. doomed' \in BOOLEAN /\ cancel' \in BOOLEAN  BY Zenon
      <3>2. full' \in Seq(Chunks)  OBVIOUS
      <3>3. piece' = piece /\ out' = out /\ told' = told  OBVIOUS
      <3> QED BY <2>1, <2>2, <3>1, <3>2, <3>3
              DEF PumpInv, PumpTypes, ReadStates, WriteStates
    <2>4. PumpPlace'  BY <2>1, <2>2 DEF PumpInv, PumpTypes, PumpPlace
    <2>5. Chain'  BY <2>1, <2>2 DEF PumpInv, PumpTypes, Chain, From, UpTo
    <2>6. WholeReported'
      BY <2>1, <2>2 DEF PumpInv, PumpTypes, PumpPlace, WholeReported, Whole
    <2> QED BY <2>3, <2>4, <2>5, <2>6 DEF PumpInv
  <1>2. CASE ~SendHead
    <2>1. /\ up # "pumping" /\ up' # "pumping" /\ UNCHANGED <<pumpVars, got>>
          /\ up' = "gone" => up = "closing"
          /\ up = "closing" => up' = "gone"
          /\ up # "gone"
      BY <1>2
      DEF Upload, Register, PrintLink, LinkLost, Prefill, UploadCut, Malformed,
          Expire, ReceiveHandoff, RefuseHandoff, HandoffTimeout, StartFails,
          HeadLost, Rearmed, Report, Leave, Reading, take_or_close,
          rearm_or_fail, downVars, UpStates
    <2>2. told' = told \/ (told' \in {"failed", "expired"} /\ up \in {"failing", "expiring"})
      BY <1>2
      DEF Upload, Register, PrintLink, LinkLost, Prefill, UploadCut, Malformed,
          Expire, ReceiveHandoff, RefuseHandoff, HandoffTimeout, StartFails,
          HeadLost, Rearmed, Report, Leave
    <2>3. \/ answer' = answer
          \/ \E d \in Downloads : answer' = [answer EXCEPT ![d] = "404"] /\ up = "cut"
      BY <1>2
      DEF Upload, Register, PrintLink, LinkLost, Prefill, UploadCut, Malformed,
          Expire, ReceiveHandoff, RefuseHandoff, HandoffTimeout, StartFails,
          HeadLost, Rearmed, Report, Leave, downVars
    <2>4. PumpTypes'  BY <2>1, <2>2, <2>3 DEF PumpInv, PumpTypes, pumpVars
    <2>5. PumpPlace'
      <3>1. \A d \in Downloads : down'[d] # down[d] => down'[d] \in {"served", "ended"}
        BY <1>2
        DEF Upload, Register, PrintLink, LinkLost, Prefill, UploadCut, Malformed,
            Expire, ReceiveHandoff, RefuseHandoff, HandoffTimeout, StartFails,
            HeadLost, Rearmed, Report, Leave, HangUp, downVars
      <3>2. \A d \in Downloads : answer'[d] = "head" => answer[d] = "head"
        BY <2>3 DEF PumpInv, PumpTypes
      <3>3. \A d \in Downloads : answer'[d] = "head" => down'[d] \in {"served", "ended"}
        BY <3>1, <3>2 DEF PumpInv, PumpPlace
      <3> QED BY <2>1, <3>3 DEF PumpInv, PumpPlace, pumpVars
    <2>6. Chain'  BY <2>1 DEF Chain
    <2>7. WholeReported'
      <3>1. told' = "done" <=> told = "done"
        BY <2>2 DEF PumpInv, PumpTypes, WholeReported
      <3>2. \A d \in Downloads : Whole(d)' => Whole(d)
        BY <2>1, <2>3 DEF PumpInv, PumpTypes, Whole
      <3>3. told = "done" => answer' = answer
        BY <2>3 DEF PumpInv, WholeReported
      <3> QED BY <2>1, <3>1, <3>2, <3>3 DEF PumpInv, WholeReported, Whole
    <2> QED BY <2>4, <2>5, <2>6, <2>7 DEF PumpInv
  <1> QED BY <1>1, <1>2

(* A download task that is answered had not been served.                   *)
LEMMA PumpInvDownload ==
    ASSUME NEW d \in Downloads, SlotInv, PumpInv,
           Peek(d) \/ Resolve(d) \/ Claim(d) \/ HandOver(d)
    PROVE  PumpInv'
  <1>1. UNCHANGED <<up, peer, told, consumed, got, pumpVars>>
    BY DEF Peek, Resolve, Claim, HandOver, bodyVars
  <1>2. \/ answer' = answer
        \/ /\ \E a \in {"peek", "404", "409", "503"} : answer' = [answer EXCEPT ![d] = a]
           /\ down[d] \in {"new", "resolved", "claimed"}
    BY DEF Peek, Resolve, Claim, HandOver, Answered
  <1>3. answer' = answer \/ (answer[d] # "head" /\ (up = "pumping" => d # peer))
    BY <1>2 DEF SlotInv, UploadPlace, PumpInv, PumpPlace
  <1>4. down' = [down EXCEPT ![d] = down'[d]] /\ down[d] \notin {"served", "ended"}
    BY DEF Peek, Resolve, Claim, HandOver, Answered, SlotInv, SlotTypes
  <1>5. PumpTypes'  BY <1>1, <1>2 DEF PumpInv, PumpTypes, pumpVars
  <1>6. PumpPlace'
    BY <1>1, <1>2, <1>3, <1>4
    DEF SlotInv, SlotTypes, UploadPlace, PumpInv, PumpTypes, PumpPlace, pumpVars
  <1>7. Chain'  BY <1>1 DEF PumpInv, Chain, From, UpTo, pumpVars
  <1>8. WholeReported'
    BY <1>1, <1>2, <1>3 DEF PumpInv, PumpTypes, WholeReported, Whole, pumpVars
  <1> QED BY <1>5, <1>6, <1>7, <1>8 DEF PumpInv

(* The reader: what it takes, it sends, in the order it was read.          *)
LEMMA PumpInvReader == SlotInv /\ PumpInv /\ Reader => PumpInv'
  <1> SUFFICES ASSUME SlotInv, PumpInv, Reader PROVE PumpInv'  OBVIOUS
  <1>1. /\ UNCHANGED <<pumpOnly, wr, out>>
        /\ up = "pumping" /\ peer \in Downloads
    BY DEF Reader, ReaderStops, TakeBuffer, Read, SendChunk, ReadFails,
           DropSender, SlotInv, UploadPlace
  <1>2. UNCHANGED <<up, peer, told, down, answer, got, wr, out>>
    BY <1>1 DEF pumpOnly, downVars
  <1> USE <1>2, FastLinkAssumption DEF PumpInv
  <1>3. WholeReported'  BY DEF WholeReported, Whole
  <1>4. CASE ReaderStops
    <2> USE <1>4 DEF ReaderStops, bodyVars
    <2>1. rd' \in {"ok", "cancelled"} /\ UNCHANGED <<full, piece, doomed, cancel, consumed>>
      OBVIOUS
    <2>2. PumpTypes'  BY <2>1 DEF PumpTypes, ReadStates
    <2>3. PumpPlace'
      <3>1. rd' = "cancelled" => wr = "gone"
        BY <1>1 DEF PumpPlace, PumpTypes, WriterEnded
      <3> QED BY <1>1, <2>1, <3>1 DEF PumpPlace, PumpTypes
    <2>4. Chain'
      <3>1. wr # "gone" => rd = "loop"  BY <1>1 DEF PumpPlace, WriterEnded
      <3> QED BY <1>1, <2>1, <3>1 DEF Chain, From, UpTo
    <2> QED BY <1>3, <2>2, <2>3, <2>4
  <1>5. CASE TakeBuffer
    <2>1. /\ rd = "loop" /\ rd' = "read" /\ consumed < Total
          /\ UNCHANGED <<full, piece, doomed, cancel, consumed>>
      BY <1>5 DEF TakeBuffer, bodyVars
    <2>2. PumpTypes'  BY <2>1 DEF PumpTypes, ReadStates
    <2>3. PumpPlace'  BY <1>1, <2>1 DEF PumpPlace
    <2>4. Chain'  BY <1>1, <2>1 DEF Chain, From, UpTo
    <2> QED BY <1>3, <2>2, <2>3, <2>4
  <1>6. CASE Read
    <2>1. PICK n \in 1 .. Total :
             /\ consumed + n <= Total /\ consumed' = consumed + n
             /\ piece' = <<consumed, consumed + n>>
             /\ doomed' \in (IF consumed + n = Total THEN {FALSE} ELSE BOOLEAN)
      BY <1>6 DEF Read, Frame
    <2>2. rd = "read" /\ rd' = "send" /\ UNCHANGED <<full, cancel>>
      BY <1>6 DEF Read
    <2>3. consumed \in 0 .. Total  BY DEF SlotInv, SlotTypes
    <2>4. piece' \in Chunks /\ piece'[1] = consumed /\ piece'[2] = consumed'
      BY <2>1, <2>3 DEF Chunks
    <2>5. doomed' \in BOOLEAN  BY <2>1, Zenon
    <2>6. doomed' => consumed' < Total
      <3>1. consumed + n = Total => ~doomed'  BY <2>1, Zenon
      <3>2. consumed + n # Total => consumed' < Total  BY <2>1, <2>3
      <3> QED BY <3>1, <3>2
    <2>7. PumpTypes'  BY <2>2, <2>4, <2>5 DEF PumpTypes, ReadStates
    <2>8. PumpPlace'  BY <1>1, <2>2, <2>6 DEF PumpPlace
    <2>9. Chain'  BY <1>1, <2>1, <2>2, <2>3, <2>4 DEF Chain, From, UpTo
    <2> QED BY <1>3, <2>7, <2>8, <2>9
  <1>7. CASE SendChunk
    <2>1. /\ rd = "send" /\ full' = Append(full, piece)
          /\ rd' = IF doomed THEN "error" ELSE "loop"
          /\ wr \notin {"ok", "gone", "aborted"}
          /\ UNCHANGED <<piece, doomed, cancel, consumed>>
      BY <1>7 DEF SendChunk, bodyVars, WriterEnded
    <2>2. PumpTypes'  BY <2>1 DEF PumpTypes, ReadStates
    <2>3. PumpPlace'  BY <1>1, <2>1 DEF PumpPlace
    <2>4. Chain'
      <3> DEFINE n == Len(full)
      <3>1. /\ full \in Seq(Chunks) /\ piece \in Chunks /\ n \in Nat
            /\ consumed \in Nat /\ got[peer] \in Nat /\ out \in Chunks
        BY <1>1 DEF PumpTypes, SlotInv, SlotTypes
      <3>2. /\ Len(full') = n + 1 /\ full'[n + 1] = piece
            /\ \A i \in 1 .. n : full'[i] = full[i]
        BY <2>1, <3>1
      <3>3. full' # <<>>  BY <3>2, <3>1
      <3>4. /\ From' = From /\ UpTo' = piece[2] /\ UpTo = piece[1]
            /\ piece[1] < piece[2] /\ piece[2] = consumed
        BY <1>1, <2>1 DEF Chain, From, UpTo
      <3>5. \A c \in Chunks : c[1] \in Nat /\ c[2] \in Nat  BY DEF Chunks
      <3>6. \A i \in 1 .. n : full[i] \in Chunks  BY <3>1
      <3>7. From \in Nat  BY <3>1, <3>5 DEF From
      <3>8. full'[1][1] = From /\ From <= piece[1]
        <4>1. CASE full = <<>>
          BY <1>1, <2>1, <3>1, <3>2, <3>4, <3>5, <4>1 DEF Chain
        <4>2. CASE full # <<>>
          <5>1. n >= 1 /\ 1 \in 1 .. n  BY <4>2, <3>1
          <5>2. full[1][1] = From  BY <1>1, <2>1, <4>2 DEF Chain
          <5>3. From <= full[1][1] /\ full[1][1] < full[1][2] /\ full[1][2] <= UpTo
            BY <1>1, <2>1, <5>1 DEF Chain
          <5>4. full[1] \in Chunks  BY <5>1, <3>6
          <5> QED BY <3>1, <3>2, <3>4, <3>5, <5>1, <5>2, <5>3, <5>4
        <4> QED BY <4>1, <4>2
      <3>9. \A i \in 1 .. n :
               From <= full[i][1] /\ full[i][1] < full[i][2] /\ full[i][2] <= piece[1]
        BY <1>1, <2>1, <3>4 DEF Chain
      <3>10. \A i \in 1 .. n + 1 :
               From <= full'[i][1] /\ full'[i][1] < full'[i][2] /\ full'[i][2] <= piece[2]
        <4> TAKE i \in 1 .. n + 1
        <4>1. CASE i = n + 1  BY <4>1, <3>1, <3>2, <3>4, <3>5, <3>8
        <4>2. CASE i # n + 1
          <5>1. i \in 1 .. n  BY <4>2, <3>1
          <5> QED BY <5>1, <3>1, <3>2, <3>4, <3>5, <3>6, <3>9
        <4> QED BY <4>1, <4>2
      <3>11. \A i \in 1 .. n + 1 : \A j \in 1 .. n + 1 :
                i < j => full'[i][2] <= full'[j][1]
        <4> TAKE i \in 1 .. n + 1
        <4> TAKE j \in 1 .. n + 1
        <4> HAVE i < j
        <4>1. i \in 1 .. n  BY <3>1
        <4>2. CASE j = n + 1  BY <4>1, <4>2, <3>2, <3>9
        <4>3. CASE j # n + 1
          <5>1. j \in 1 .. n  BY <4>3, <3>1
          <5> QED BY <1>1, <2>1, <4>1, <5>1, <3>2 DEF Chain
        <4> QED BY <4>2, <4>3
      <3>12. \A i \in 1 .. (n + 1) - 1 : full'[i][2] = full'[i + 1][1]
        <4> TAKE i \in 1 .. (n + 1) - 1
        <4>1. i \in 1 .. n  BY <3>1
        <4>2. CASE i = n
          <5>1. full # <<>>  BY <4>1, <3>1
          <5>2. full[n][2] = UpTo  BY <1>1, <2>1, <5>1 DEF Chain
          <5> QED BY <4>1, <4>2, <5>2, <3>2, <3>4
        <4>3. CASE i # n
          <5>1. i \in 1 .. n - 1 /\ i + 1 \in 1 .. n  BY <4>1, <4>3, <3>1
          <5>2. full[i][2] = full[i + 1][1]  BY <1>1, <2>1, <5>1 DEF Chain
          <5> QED BY <4>1, <5>1, <5>2, <3>2
        <4> QED BY <4>2, <4>3
      <3>13. rd' # "send"  BY <2>1
      <3>14. wr' = "write" => out'[1] = got'[peer'] /\ out'[1] < out'[2]
        BY <1>1, <2>1 DEF Chain
      <3> HIDE DEF n
      <3> QED BY <3>2, <3>3, <3>4, <3>8, <3>10, <3>11, <3>12, <3>13, <3>14
              DEF Chain
    <2> QED BY <1>3, <2>2, <2>3, <2>4
  <1>8. CASE ReadFails \/ DropSender
    <2>1. /\ rd \in {"read", "error", "drop"} /\ rd' \in {"drop", "failed"}
          /\ UNCHANGED <<full, piece, doomed, consumed>>
          /\ cancel' = TRUE \/ cancel' = cancel
      BY <1>8 DEF ReadFails, DropSender, bodyVars
    <2>2. cancel' \in BOOLEAN  BY <2>1, Zenon DEF PumpTypes
    <2>3. PumpTypes'  BY <2>1, <2>2 DEF PumpTypes, ReadStates
    <2>4. PumpPlace'  BY <1>1, <2>1 DEF PumpPlace
    <2>5. Chain'  BY <1>1, <2>1 DEF Chain, From, UpTo
    <2> QED BY <1>3, <2>3, <2>4, <2>5
  <1> QED BY <1>4, <1>5, <1>6, <1>7, <1>8 DEF Reader

(* The writer: what it writes continues what the download has.             *)
LEMMA PumpInvWriter == SlotInv /\ PumpInv /\ Writer => PumpInv'
  <1> SUFFICES ASSUME SlotInv, PumpInv, Writer PROVE PumpInv'  OBVIOUS
  <1>1. /\ UNCHANGED <<up, peer, told, down, answer, bodyVars, rd, piece,
                       doomed, cancel>>
        /\ wr \in {"poll", "recv", "write"}
    BY DEF Writer, PollCancelled, PollFull, Write, WriteFails, pumpOnly, downVars
  <1>2. up = "pumping" /\ peer \in Downloads
    BY <1>1 DEF PumpInv, PumpPlace, SlotInv, UploadPlace
  <1>3. UNCHANGED <<up, peer, told, down, answer, consumed, rd, piece, doomed,
                    cancel>>
    BY <1>1 DEF bodyVars
  <1>4. /\ full \in Seq(Chunks) /\ out \in Chunks /\ got[peer] \in 0 .. Total
        /\ consumed \in 0 .. Total /\ \A c \in Chunks : c[1] \in 0 .. Total /\ c[2] \in 0 .. Total
    BY <1>2 DEF PumpInv, PumpTypes, SlotInv, SlotTypes, Chunks
  <1> USE <1>3, FastLinkAssumption DEF PumpInv
  <1>5. CASE PollCancelled
    <2>1. /\ wr = "poll" /\ wr' = (IF cancel THEN "aborted" ELSE "recv")
          /\ UNCHANGED <<got, full, out>>
      BY <1>5 DEF PollCancelled, pumpOnly, downVars
    <2>2. PumpTypes'  BY <2>1 DEF PumpTypes, WriteStates
    <2>3. PumpPlace'  BY <1>2, <2>1 DEF PumpPlace
    <2>4. Chain'  BY <1>2, <2>1 DEF Chain, From, UpTo
    <2>5. WholeReported'  BY <2>1 DEF WholeReported, Whole
    <2> QED BY <2>2, <2>3, <2>4, <2>5
  <1>6. CASE PollFull /\ full = <<>>
    <2>1. /\ wr = "recv" /\ UNCHANGED <<got, full, out>>
          /\ wr' = "poll" \/ (wr' = "ok" /\ ReaderEnded)
      BY <1>6 DEF PollFull, pumpOnly, downVars
    <2>2. PumpTypes'  BY <2>1 DEF PumpTypes, WriteStates
    <2>3. PumpPlace'
      BY <1>2, <1>6, <2>1 DEF PumpPlace, ReaderEnded
    <2>4. Chain'  BY <1>2, <2>1 DEF Chain, From, UpTo
    <2>5. WholeReported'  BY <2>1 DEF WholeReported, Whole
    <2> QED BY <2>2, <2>3, <2>4, <2>5
  <1>7. CASE PollFull /\ full # <<>>
    <2>1. /\ wr = "recv" /\ wr' = "write" /\ UNCHANGED got
          /\ out' = Head(full) /\ full' = Tail(full)
      BY <1>7 DEF PollFull, pumpOnly, downVars
    <2>2. out' \in Chunks /\ full' \in Seq(Chunks)  BY <1>4, <1>7, <2>1
    <2>3. PumpTypes'  BY <2>1, <2>2 DEF PumpTypes, WriteStates
    <2>4. PumpPlace'  BY <1>2, <2>1 DEF PumpPlace
    <2>5. Chain'
      <3> DEFINE n == Len(full)
      <3>1. n \in Nat /\ n >= 1 /\ 1 \in 1 .. n /\ n \in 1 .. n  BY <1>4, <1>7
      <3>2. /\ Len(full') = n - 1 /\ out' = full[1]
            /\ \A i \in 1 .. n - 1 : full'[i] = full[i + 1]
        BY <1>4, <1>7, <2>1
      <3>3. /\ full[1][1] = got[peer] /\ full[n][2] = UpTo
            /\ \A i \in 1 .. n :
                  /\ full[i][1] < full[i][2] /\ full[i][2] <= UpTo
            /\ \A i \in 1 .. n : \A j \in 1 .. n : i < j => full[i][2] <= full[j][1]
            /\ \A i \in 1 .. n - 1 : full[i][2] = full[i + 1][1]
        BY <1>2, <1>7, <2>1 DEF Chain, From
      <3>4. From' = full[1][2] /\ UpTo' = UpTo  BY <2>1, <3>2 DEF From, UpTo
      <3>5. rd' = "send" => piece'[1] < piece'[2] /\ piece'[2] = consumed'
        BY <1>2, <2>1 DEF Chain
      <3>6. full' = <<>> => n = 1  BY <2>2, <3>1, <3>2
      <3>7. full' # <<>> =>
               n - 1 >= 1 /\ full'[1] = full[2] /\ full'[n - 1] = full[n]
        <4>1. full' # <<>> => n - 1 >= 1  BY <2>2, <3>1, <3>2
        <4> QED BY <4>1, <3>1, <3>2
      <3>8. full' # <<>> => full'[1][1] = From' /\ full'[n - 1][2] = UpTo'
        BY <3>1, <3>3, <3>4, <3>7
      <3>9. \A i \in 1 .. n - 1 :
               /\ From' <= full'[i][1] /\ full'[i][1] < full'[i][2]
               /\ full'[i][2] <= UpTo'
        <4> TAKE i \in 1 .. n - 1
        <4>1. i + 1 \in 1 .. n /\ 1 < i + 1 /\ full'[i] = full[i + 1]  BY <3>1, <3>2
        <4> QED BY <4>1, <3>1, <3>3, <3>4
      <3>10. \A i \in 1 .. n - 1 : \A j \in 1 .. n - 1 :
                i < j => full'[i][2] <= full'[j][1]
        <4> TAKE i \in 1 .. n - 1
        <4> TAKE j \in 1 .. n - 1
        <4> HAVE i < j
        <4>1. /\ i + 1 \in 1 .. n /\ j + 1 \in 1 .. n /\ i + 1 < j + 1
              /\ full'[i] = full[i + 1] /\ full'[j] = full[j + 1]
          BY <3>1, <3>2
        <4> QED BY <4>1, <3>3
      <3>11. \A i \in 1 .. (n - 1) - 1 : full'[i][2] = full'[i + 1][1]
        <4> TAKE i \in 1 .. (n - 1) - 1
        <4>1. /\ i + 1 \in 1 .. n - 1 /\ full'[i] = full[i + 1]
              /\ full'[i + 1] = full[(i + 1) + 1]
          BY <3>1, <3>2
        <4> QED BY <4>1, <3>3
      <3>12. full' = <<>> => From' = UpTo'  BY <3>3, <3>4, <3>6
      <3>13. out'[1] = got'[peer'] /\ out'[1] < out'[2]  BY <2>1, <3>1, <3>2, <3>3
      <3> HIDE DEF n
      <3> QED BY <3>2, <3>5, <3>8, <3>9, <3>10, <3>11, <3>12, <3>13 DEF Chain
    <2>6. WholeReported'  BY <2>1 DEF WholeReported, Whole
    <2> QED BY <2>3, <2>4, <2>5, <2>6
  <1>8. CASE Write
    <2>1. wr = "write" /\ wr' = "poll" /\ UNCHANGED <<full, out>>
      BY <1>8 DEF Write
    <2>2. out[1] = got[peer]  BY <1>2, <2>1 DEF Chain
    <2>3. got' = [got EXCEPT ![peer] = out[2]]  BY <1>8, <2>2 DEF Write
    <2>4. got'[peer] = out[2]  BY <1>2, <2>3 DEF PumpTypes
    <2>5. PumpTypes'  BY <1>4, <2>1, <2>3 DEF PumpTypes, WriteStates
    <2>6. PumpPlace'  BY <1>2, <2>1 DEF PumpPlace
    <2>7. From' = From /\ UpTo' = UpTo  BY <2>1, <2>4 DEF From, UpTo
    <2>8. Chain'  BY <1>2, <2>1, <2>7 DEF Chain
    <2>9. WholeReported'
      BY <1>2, <2>3 DEF PumpTypes, WholeReported, Whole
    <2> QED BY <2>5, <2>6, <2>8, <2>9
  <1>9. CASE WriteFails
    <2>1. wr = "write" /\ wr' = "gone" /\ UNCHANGED <<got, full, out>>
      BY <1>9 DEF WriteFails, pumpOnly, downVars
    <2>2. got[peer] < Total  BY <1>2, <1>4, <2>1 DEF Chain
    <2>3. PumpTypes'  BY <2>1 DEF PumpTypes, WriteStates
    <2>4. PumpPlace'  BY <1>2, <2>1, <2>2 DEF PumpPlace
    <2>5. Chain'  BY <2>1 DEF Chain
    <2>6. WholeReported'  BY <2>1 DEF WholeReported, Whole
    <2> QED BY <2>3, <2>4, <2>5, <2>6
  <1> QED BY <1>5, <1>6, <1>7, <1>8, <1>9 DEF Writer

(* The coordinator: it reports `done' for a whole body and for no other.   *)
LEMMA PumpInvEnd == SlotInv /\ PumpInv /\ (CancelReader \/ PumpDone) => PumpInv'
  <1> SUFFICES ASSUME SlotInv, PumpInv, CancelReader \/ PumpDone PROVE PumpInv'
    OBVIOUS
  <1> USE FastLinkAssumption DEF PumpInv
  <1>1. CASE CancelReader
    <2>1. /\ wr = "gone" /\ cancel' = TRUE
          /\ UNCHANGED <<up, peer, told, down, answer, got, consumed, rd, wr,
                         full, piece, doomed, out>>
      BY <1>1 DEF CancelReader, pumpOnly, bodyVars, downVars
    <2>2. PumpTypes'
      <3>1. cancel' \in BOOLEAN  BY <2>1, Zenon
      <3> QED BY <2>1, <3>1 DEF PumpTypes
    <2>3. PumpPlace'  BY <2>1 DEF PumpPlace
    <2>4. Chain' /\ WholeReported'  BY <2>1 DEF Chain, WholeReported, Whole
    <2> QED BY <2>2, <2>3, <2>4
  <1>2. CASE PumpDone
    <2>1. /\ up = "pumping" /\ ReaderEnded /\ WriterEnded
          /\ down' = [down EXCEPT ![peer] = "ended"]
          /\ rd' = "off" /\ wr' = "off" /\ full' = <<>>
          /\ UNCHANGED <<consumed, answer, got, piece, doomed, out, cancel>>
      BY <1>2 DEF PumpDone, HangUp, bodyVars
    <2>2. \/ Completed /\ up' = "closing" /\ told' = "done"
          \/ ~Completed /\ up' \in {"rearming", "failing"} /\ told' = told
      BY <1>2 DEF PumpDone, Completed, DownloaderGone, rearm_or_fail
    <2>3. /\ peer \in Downloads /\ got[peer] \in 0 .. Total
          /\ consumed \in 0 .. Total /\ full \in Seq(Chunks)
          /\ answer[peer] = "head"
          /\ \A c \in Chunks : c[1] \in 0 .. Total /\ c[2] \in 0 .. Total
      BY <2>1 DEF SlotInv, SlotTypes, UploadPlace, PumpTypes, PumpPlace, Chunks
    <2>4. PumpTypes'
      BY <2>1, <2>2 DEF PumpTypes, ReadStates, WriteStates
    <2>5. PumpPlace'
      BY <2>1, <2>2 DEF SlotInv, SlotTypes, PumpPlace
    <2>6. Chain'  BY <2>2 DEF Chain
    <2>7. Completed => Whole(peer)
      BY <2>1, <2>3 DEF Completed, PumpPlace, Chain, From, UpTo, Whole
    <2>8. ~Completed => got[peer] < Total
      <3> SUFFICES ASSUME ~Completed, wr # "gone" PROVE got[peer] < Total
        BY <2>1 DEF PumpPlace
      <3>1. rd = "failed"
        BY <2>1 DEF PumpPlace, Completed, ReaderEnded, WriterEnded
      <3>2. consumed < Total /\ From = got[peer] /\ UpTo = consumed
        BY <2>1, <3>1 DEF PumpPlace, From, UpTo, WriterEnded
      <3>3. CASE full = <<>>  BY <2>1, <2>3, <3>2, <3>3 DEF Chain
      <3>4. CASE full # <<>>
        <4>1. 1 \in 1 .. Len(full) /\ full[1] \in Chunks  BY <2>3, <3>4
        <4> QED BY <2>1, <2>3, <3>2, <4>1 DEF Chain
      <3> QED BY <3>3, <3>4
    <2>9. WholeReported'
      BY <2>1, <2>2, <2>3, <2>7, <2>8 DEF WholeReported, Whole
    <2> QED BY <2>4, <2>5, <2>6, <2>9
  <1> QED BY <1>1, <1>2

LEMMA PumpInvariant == Spec => []PumpInv
  <1>1. SlotInv /\ PumpInv /\ UNCHANGED vars => PumpInv'
    BY DEF PumpInv, PumpTypes, PumpPlace, Chain, From, UpTo, WholeReported,
           Whole, vars
  <1>2. SlotInv /\ PumpInv /\ [Next]_vars => PumpInv'
    BY <1>1, PumpInvUpload, PumpInvDownload, PumpInvReader, PumpInvWriter,
       PumpInvEnd DEF Next
  <1> QED BY PumpInvInit, SlotInvariant, <1>2, PTL DEF Spec

(* session.rs, stream_handoff (I-4): whatever the pump's two tasks did, the *)
(* uploader hears `done' exactly when one download was sent the whole body. *)
THEOREM DoneWhole == Spec => []DoneIffWhole
  <1>1. PumpInv => DoneIffWhole
    BY DEF PumpInv, WholeReported, DoneIffWhole
  <1> QED BY <1>1, PumpInvariant, PTL

(* session.rs, read_loop and write_loop: the chunks between the two tasks  *)
(* follow one another from the download's prefix to what was read.         *)
THEOREM StreamOrder == Spec => []StreamInOrder
  <1>1. SlotInv /\ PumpInv => StreamInOrder
    <2> SUFFICES ASSUME SlotInv, PumpInv, up = "pumping", ~WriterEnded
                 PROVE  LET q == InFlight IN
                        IF q = <<>> THEN got[peer] = consumed
                        ELSE /\ q[1][1] = got[peer] /\ q[Len(q)][2] = consumed
                             /\ \A i \in 1 .. Len(q) - 1 : q[i][2] = q[i + 1][1]
      BY DEF StreamInOrder
    <2> DEFINE n == Len(full)
               a == IF wr = "write" THEN 1 ELSE 0
               b == IF rd = "send" THEN 1 ELSE 0
               A == IF wr = "write" THEN <<out>> ELSE <<>>
               B == IF rd = "send" THEN <<piece>> ELSE <<>>
               p == A \o full
               q == InFlight
    <2>1. full \in Seq(Chunks) /\ n \in Nat /\ out \in Chunks /\ piece \in Chunks
      BY DEF PumpInv, PumpTypes
    <2>2. /\ wr = "write" => out[1] = got[peer]
          /\ rd = "send" => piece[2] = consumed
          /\ full = <<>> => From = UpTo
          /\ full # <<>> => full[1][1] = From /\ full[n][2] = UpTo
          /\ \A i \in 1 .. n - 1 : full[i][2] = full[i + 1][1]
      BY DEF PumpInv, Chain, WriterEnded
    <2>3. /\ q \in Seq(Chunks) /\ Len(q) = a + n + b
          /\ \A i \in 1 .. n : q[a + i] = full[i]
          /\ wr = "write" => q[1] = out
          /\ rd = "send" => q[a + n + 1] = piece
      <3>1. A \in Seq(Chunks) /\ Len(A) = a /\ (wr = "write" => A[1] = out)
        BY <2>1
      <3>2. B \in Seq(Chunks) /\ Len(B) = b /\ (rd = "send" => B[1] = piece)
        BY <2>1
      <3>3. q = p \o B  BY DEF InFlight
      <3>4. a \in 0 .. 1 /\ b \in 0 .. 1 /\ (wr = "write" <=> a = 1) /\ (rd = "send" <=> b = 1)
        OBVIOUS
      <3> HIDE DEF A, B, a, b, q
      <3>5. /\ p \in Seq(Chunks) /\ Len(p) = a + n
            /\ \A i \in 1 .. a : p[i] = A[i]
            /\ \A i \in 1 .. n : p[a + i] = full[i]
        BY <2>1, <3>1, <3>4
      <3> HIDE DEF p, n
      <3>6. /\ q \in Seq(Chunks) /\ Len(q) = a + n + b
            /\ \A i \in 1 .. a + n : q[i] = p[i]
            /\ \A i \in 1 .. b : q[a + n + i] = B[i]
        BY <2>1, <3>2, <3>3, <3>4, <3>5
      <3> QED BY <2>1, <3>1, <3>2, <3>4, <3>5, <3>6
    <2>4. n = 0 <=> full = <<>>  BY <2>1
    <2>5. /\ a \in 0 .. 1 /\ (wr = "write" <=> a = 1)
          /\ b \in 0 .. 1 /\ (rd = "send" <=> b = 1)
      OBVIOUS
    <2> HIDE DEF q, n, a, b
    <2>6. q = <<>> <=> a + n + b = 0  BY <2>1, <2>3, <2>5
    <2>7. CASE q = <<>>
      <3>1. got[peer] = consumed
        BY <2>1, <2>2, <2>4, <2>5, <2>6, <2>7 DEF From, UpTo
      <3> QED BY <2>7, <3>1 DEF q
    <2>8. CASE q # <<>>
      <3>1. q[1][1] = got[peer]
        BY <2>1, <2>2, <2>3, <2>4, <2>5, <2>6, <2>8 DEF From, UpTo
      <3>2. q[Len(q)][2] = consumed
        BY <2>1, <2>2, <2>3, <2>4, <2>5, <2>6, <2>8 DEF From, UpTo
      <3>3. ASSUME NEW i \in 1 .. Len(q) - 1 PROVE q[i][2] = q[i + 1][1]
        <4>1. CASE i > a /\ i < a + n
          <5>1. i - a \in 1 .. n - 1 /\ (i - a) + 1 \in 1 .. n  BY <2>1, <2>3, <2>5, <4>1
          <5>2. q[i] = full[i - a] /\ q[i + 1] = full[(i - a) + 1]
            BY <2>1, <2>3, <2>5, <5>1
          <5> QED BY <2>2, <5>1, <5>2
        <4>2. CASE i <= a
          BY <2>1, <2>2, <2>3, <2>4, <2>5, <4>2 DEF From, UpTo
        <4>3. CASE i >= a + n /\ i > a
          BY <2>1, <2>2, <2>3, <2>4, <2>5, <4>3 DEF From, UpTo
        <4> QED BY <2>1, <2>3, <2>5, <4>1, <4>2, <4>3
      <3> QED BY <2>8, <3>1, <3>2, <3>3 DEF q
    <2> QED BY <2>7, <2>8
  <1> QED BY <1>1, SlotInvariant, PumpInvariant, PTL
=============================================================================
