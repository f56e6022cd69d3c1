-------------------------------- MODULE FastLink -------------------------------
(***************************************************************************)
(* One fast link of src/src/fast_link: the upload task of serve_upload,    *)
(* the slot it registers, the downloads that resolve, claim and hand       *)
(* themselves over, the streaming of one download (stream_handoff) and the *)
(* two tasks of the pump, with the replay window that lets an interrupted  *)
(* download be tried again.                                                *)
(*                                                                         *)
(* The body has Total units.  A chunk is the pair of offsets it lies       *)
(* between, so that a lost or repeated piece shows.  Tasks run on several  *)
(* threads: `select! biased' polls its branches one after the other, and   *)
(* cancel() and the drop of the sender are two steps.  Uploads share only  *)
(* the sums of their gauges and the semaphore of --max-active, so one is   *)
(* modelled.                                                               *)
(***************************************************************************)
EXTENDS Integers, Sequences, FiniteSets

CONSTANTS
    Downloads,  \* download connections, each asking once
    Total,      \* units of the upload's body
    Window,     \* REPLAY_WINDOW_BYTES
    MaxHead,    \* body units that can arrive with the request head
    Depth,      \* PUMP_DEPTH
    None        \* no download

ASSUME FastLinkAssumption ==
    /\ IsFiniteSet(Downloads) /\ None \notin Downloads
    /\ Total \in Nat /\ Window \in Nat /\ MaxHead \in 0 .. Window
    /\ Depth \in Nat \ {0}

VARIABLES
    \* the upload task and its slot
    up,         \* where serve_upload is
    slot,       \* SlotState
    listed,     \* the slot is in the registry
    chan,       \* the hand-over channel, of capacity 1
    peer,       \* the download being served
    told,       \* the last status line the uploader was sent
    waiting, streaming,   \* the gauges of this slot
    \* PumpState
    consumed,   \* body units framed so far
    replay,     \* length of the replay buffer, -1 once it is given up
    \* downloads
    down,       \* per download, where its task or its connection is
    answer,     \* per download, what it was answered
    got,        \* per download, the body prefix it has received
    \* the pump
    rd,         \* the reader task
    wr,         \* the writer task
    free,       \* recycled buffers in the free channel
    full,       \* chunks in the full channel
    piece,      \* the chunk the reader sends
    doomed,     \* the reader has a deferred error
    out,        \* the chunk the writer writes
    cancel      \* the cancellation token

slotVars == <<slot, listed, waiting, streaming>>
downVars == <<down, answer, got>>
pumpVars == <<rd, wr, free, full, piece, doomed, out, cancel>>
bodyVars == <<consumed, replay>>
vars == <<up, slot, listed, chan, peer, told, waiting, streaming, consumed,
          replay, down, answer, got, rd, wr, free, full, piece, doomed, out,
          cancel>>

UpStates == {"head", "linking", "waiting", "late", "cut", "starting",
             "pumping", "rearming", "failing", "expiring", "closing", "gone"}
Chunks == (0 .. Total) \X (0 .. Total)

TypeOK ==
    /\ up \in UpStates
    /\ slot \in {"Waiting", "Streaming", "Closed"} /\ listed \in BOOLEAN
    /\ chan \in Downloads \cup {None} /\ peer \in Downloads \cup {None}
    /\ told \in {"nothing", "done", "failed", "expired"}
    /\ waiting \in 0 .. 1 /\ streaming \in 0 .. 1
    /\ consumed \in 0 .. Total /\ replay \in -1 .. Total
    /\ down \in [Downloads -> {"new", "resolved", "claimed", "handed",
                               "served", "ended"}]
    /\ answer \in [Downloads -> {"none", "head", "peek", "404", "409", "503"}]
    /\ got \in [Downloads -> 0 .. Total]
    /\ rd \in {"off", "loop", "read", "send", "error", "drop", "ok",
               "failed", "cancelled"}
    /\ wr \in {"off", "poll", "recv", "write", "ok", "gone", "aborted"}
    /\ free \in 0 .. Depth
    /\ full \in Seq(Chunks) /\ Len(full) <= Depth
    /\ piece \in Chunks /\ out \in Chunks
    /\ doomed \in BOOLEAN /\ cancel \in BOOLEAN

Init ==
    /\ up = "head" /\ slot = "Closed" /\ listed = FALSE
    /\ chan = None /\ peer = None /\ told = "nothing"
    /\ waiting = 0 /\ streaming = 0 /\ consumed = 0 /\ replay = 0
    /\ down = [d \in Downloads |-> "new"]
    /\ answer = [d \in Downloads |-> "none"]
    /\ got = [d \in Downloads |-> 0]
    /\ rd = "off" /\ wr = "off" /\ free = 0 /\ full = <<>>
    /\ piece = <<0, 0>> /\ out = <<0, 0>> /\ doomed = FALSE /\ cancel = FALSE

-----------------------------------------------------------------------------
(* The slot                                                                *)

Gauge(state, s) == IF state = s THEN 1 ELSE 0

(* transition: the gauges follow the state, under the slot's lock.         *)
transition(to) ==
    /\ slot' = to
    /\ waiting' = waiting - Gauge(slot, "Waiting") + Gauge(to, "Waiting")
    /\ streaming' = streaming - Gauge(slot, "Streaming")
                              + Gauge(to, "Streaming")

(* take_or_close: close a slot that waits; one that streams has a claimed  *)
(* download on its way.                                                    *)
take_or_close(closed, inflight) ==
    IF slot = "Streaming"
    THEN up' = inflight /\ UNCHANGED <<slot, waiting, streaming>>
    ELSE /\ up' = closed
         /\ slot' = "Closed"
         /\ waiting' = waiting - Gauge(slot, "Waiting")
         /\ UNCHANGED streaming

(* n more units are framed; the replay buffer keeps all of them or none.   *)
Frame(n) ==
    /\ consumed' = consumed + n
    /\ replay' = IF replay >= 0 /\ consumed + n <= Window
                 THEN replay + n ELSE -1

-----------------------------------------------------------------------------
(* The upload task                                                         *)

(* The request is accepted: the slot is registered, then the link printed. *)
Register ==
    /\ up = "head" /\ up' = "linking" /\ listed' = TRUE
    /\ slot' = "Waiting" /\ waiting' = waiting + 1
    /\ UNCHANGED <<chan, peer, told, streaming, bodyVars, downVars, pumpVars>>

(* The link and the body units that came with the head.                    *)
PrintLink ==
    /\ up = "linking" /\ up' = "waiting"
    /\ \E n \in 0 .. MaxHead : consumed + n <= Total /\ Frame(n)
    /\ UNCHANGED <<chan, peer, told, slotVars, downVars, pumpVars>>

(* A write of the link fails: serve_upload returns.                        *)
LinkLost ==
    /\ up = "linking" /\ up' = "closing"
    /\ UNCHANGED <<chan, peer, told, slotVars, bodyVars, downVars, pumpVars>>

Reading == up = "waiting" /\ consumed < Total /\ consumed < Window

(* While nobody downloads, the replay window is filled.                    *)
Prefill ==
    /\ Reading
    /\ \E n \in 1 .. Total :
          consumed + n <= Total /\ consumed + n <= Window /\ Frame(n)
    /\ UNCHANGED <<up, chan, peer, told, slotVars, downVars, pumpVars>>

(* ... and the upload ends early; a download may have claimed the slot.    *)
UploadCut ==
    /\ Reading
    /\ take_or_close("failing", "cut")
    /\ UNCHANGED <<listed, chan, peer, told, bodyVars, downVars, pumpVars>>

(* A body that cannot be framed fails at once; the slot still waits.       *)
Malformed ==
    /\ Reading \/ up = "linking"
    /\ up' = "failing"
    /\ UNCHANGED <<chan, peer, told, slotVars, bodyVars, downVars, pumpVars>>

Expire ==
    /\ up = "waiting"
    /\ take_or_close("expiring", "late")
    /\ UNCHANGED <<listed, chan, peer, told, bodyVars, downVars, pumpVars>>

ReceiveHandoff ==
    /\ up \in {"waiting", "late"} /\ chan # None
    /\ peer' = chan /\ chan' = None /\ up' = "starting"
    /\ down' = [down EXCEPT ![chan] = "served"]
    /\ UNCHANGED <<told, slotVars, bodyVars, answer, got, pumpVars>>

(* The upload was cut while a claim was in flight: the claimant hears 404. *)
RefuseHandoff ==
    /\ up = "cut" /\ chan # None
    /\ chan' = None /\ up' = "failing"
    /\ down' = [down EXCEPT ![chan] = "ended"]
    /\ answer' = [answer EXCEPT ![chan] = "404"]
    /\ UNCHANGED <<peer, told, slotVars, bodyVars, got, pumpVars>>

(* HANDOFF_RECV_TIMEOUT                                                    *)
HandoffTimeout ==
    /\ up \in {"late", "cut"}
    /\ up' = IF up = "late" THEN "expiring" ELSE "failing"
    /\ UNCHANGED <<chan, peer, told, slotVars, bodyVars, downVars, pumpVars>>

(* The connection of the served download ends.                             *)
HangUp ==
    /\ peer' = None
    /\ down' = [down EXCEPT ![peer] = "ended"]

(* The uploader cannot be told that the download starts.                   *)
StartFails ==
    /\ up = "starting" /\ up' = "failing" /\ HangUp
    /\ UNCHANGED <<chan, told, slotVars, bodyVars, answer, got, pumpVars>>

(* Deviation: only the first download is sent the bytes read ahead.        *)
SendHeadOnce ==
    /\ up = "starting" /\ up' = "pumping"
    /\ answer' = [answer EXCEPT ![peer] = "head"]
    /\ got' = [got EXCEPT ![peer] =
                 IF \A d \in Downloads : answer[d] # "head" THEN replay ELSE 0]
    /\ rd' = "loop" /\ wr' = "poll" /\ free' = Depth /\ full' = <<>>
    /\ doomed' = FALSE /\ cancel' = FALSE
    /\ UNCHANGED <<chan, peer, told, slotVars, bodyVars, down, piece, out>>

(* Head and replay reach the download, and the two tasks start.            *)
SendHead ==
    /\ up = "starting" /\ up' = "pumping"
    /\ answer' = [answer EXCEPT ![peer] = "head"]
    /\ got' = [got EXCEPT ![peer] = IF replay >= 0 THEN replay ELSE 0]
    /\ rd' = "loop" /\ wr' = "poll" /\ free' = Depth /\ full' = <<>>
    /\ doomed' = FALSE /\ cancel' = FALSE
    /\ UNCHANGED <<chan, peer, told, slotVars, bodyVars, down, piece, out>>

(* Deviation: re-arm although bytes have left the window.                  *)
RearmAlways == up' = "rearming" /\ transition("Waiting")

(* I-3: only a whole window lets the next download start over.             *)
rearm_or_fail ==
    IF replay >= 0 THEN up' = "rearming" /\ transition("Waiting")
                   ELSE up' = "failing" /\ UNCHANGED <<slot, waiting, streaming>>

(* They do not; the download may have seen a part of them.                 *)
HeadLost ==
    /\ up = "starting" /\ HangUp
    /\ rearm_or_fail
    /\ UNCHANGED <<listed, chan, told, bodyVars, answer, got, pumpVars>>

Rearmed ==
    /\ up = "rearming" /\ up' \in {"waiting", "failing"}
    /\ UNCHANGED <<chan, peer, told, slotVars, bodyVars, downVars, pumpVars>>

(* fail and write_expired_and_close report, then serve_upload returns.     *)
Report ==
    /\ up \in {"failing", "expiring"}
    /\ told' = IF up = "failing" THEN "failed" ELSE "expired"
    /\ up' = "closing"
    /\ UNCHANGED <<chan, peer, slotVars, bodyVars, downVars, pumpVars>>

(* Deviation: nobody ends the download that is left in the channel.        *)
LeaveBehind ==
    /\ up = "closing" /\ up' = "gone"
    /\ transition("Closed") /\ listed' = FALSE
    /\ UNCHANGED <<chan, peer, told, bodyVars, downVars, pumpVars>>

(* SlotGuard closes the slot and takes it out of the registry, and the     *)
(* receiver goes with the download that is in the channel.                 *)
Leave ==
    /\ up = "closing" /\ up' = "gone"
    /\ transition("Closed") /\ listed' = FALSE
    /\ chan' = None
    /\ down' = [d \in Downloads |-> IF d = chan THEN "ended" ELSE down[d]]
    /\ UNCHANGED <<peer, told, bodyVars, answer, got, pumpVars>>

-----------------------------------------------------------------------------
(* A download task                                                         *)

Answered(d, status) ==
    /\ down' = [down EXCEPT ![d] = "ended"]
    /\ answer' = [answer EXCEPT ![d] = status]

(* HEAD and previews are answered from the slot; nothing is claimed.       *)
Peek(d) ==
    /\ down[d] = "new" /\ listed /\ Answered(d, "peek")
    /\ UNCHANGED <<up, chan, peer, told, slotVars, bodyVars, got, pumpVars>>

Resolve(d) ==
    /\ down[d] = "new"
    /\ \/ listed /\ down' = [down EXCEPT ![d] = "resolved"] /\ UNCHANGED answer
       \/ ~listed /\ up = "gone" /\ Answered(d, "404")
    /\ UNCHANGED <<up, chan, peer, told, slotVars, bodyVars, got, pumpVars>>

(* Deviation: the slot is read under its lock and taken under another.     *)
ClaimShared(d) ==
    /\ down[d] = "resolved" /\ slot # "Closed" /\ slot' = "Streaming"
    /\ waiting' = 0 /\ streaming' = 1
    /\ down' = [down EXCEPT ![d] = "claimed"]
    /\ UNCHANGED <<up, listed, chan, peer, told, bodyVars, answer, got, pumpVars>>

(* Compare and take, under the slot's lock.                                *)
Claim(d) ==
    /\ down[d] = "resolved"
    /\ \/ /\ slot = "Waiting" /\ slot' = "Streaming"
          /\ waiting' = waiting - 1 /\ streaming' = streaming + 1
          /\ down' = [down EXCEPT ![d] = "claimed"] /\ UNCHANGED answer
       \/ /\ slot # "Waiting"
          /\ Answered(d, IF slot = "Streaming" THEN "409" ELSE "404")
          /\ UNCHANGED <<slot, waiting, streaming>>
    /\ UNCHANGED <<up, listed, chan, peer, told, bodyVars, got, pumpVars>>

(* try_send: the claimant is handed over, or told that the upload left.    *)
HandOver(d) ==
    /\ down[d] = "claimed"
    /\ \/ /\ up # "gone" /\ chan = None /\ chan' = d
          /\ down' = [down EXCEPT ![d] = "handed"] /\ UNCHANGED answer
       \/ /\ up = "gone" \/ chan # None
          /\ Answered(d, "503") /\ UNCHANGED chan
    /\ UNCHANGED <<up, peer, told, slotVars, bodyVars, got, pumpVars>>

-----------------------------------------------------------------------------
(* The pump.  The reader holds the sender of `full' until it has ended, the *)
(* writer its receiver and the sender of `free'.                            *)

ReaderEnded == rd \in {"ok", "failed", "cancelled"}
WriterEnded == wr \in {"ok", "gone", "aborted"}
pumpOnly == <<up, chan, peer, told, slotVars, downVars>>

ReaderStops ==
    /\ \/ rd = "loop" /\ consumed = Total /\ rd' = "ok"
       \/ rd = "loop" /\ consumed < Total /\ rd' = "cancelled"
          /\ (cancel \/ (free = 0 /\ WriterEnded))
       \/ rd = "read" /\ cancel /\ rd' = "cancelled"
       \/ rd = "send" /\ (cancel \/ WriterEnded) /\ rd' = "cancelled"
    /\ UNCHANGED <<pumpOnly, bodyVars, wr, free, full, piece, doomed, out, cancel>>

TakeBuffer ==
    /\ rd = "loop" /\ consumed < Total /\ free > 0
    /\ rd' = "read" /\ free' = free - 1
    /\ UNCHANGED <<pumpOnly, bodyVars, wr, full, piece, doomed, out, cancel>>

(* The first read and those that can be added without waiting; the last of *)
(* them may fail, which is reported after the chunk is sent.               *)
Read ==
    /\ rd = "read" /\ rd' = "send"
    /\ \E n \in 1 .. Total :
          /\ consumed + n <= Total /\ Frame(n)
          /\ piece' = <<consumed, consumed + n>>
          /\ doomed' \in (IF consumed + n = Total THEN {FALSE} ELSE BOOLEAN)
    /\ UNCHANGED <<pumpOnly, wr, free, full, out, cancel>>

SendChunk ==
    /\ rd = "send" /\ ~WriterEnded /\ Len(full) < Depth
    /\ full' = Append(full, piece)
    /\ rd' = IF doomed THEN "error" ELSE "loop"
    /\ UNCHANGED <<pumpOnly, bodyVars, wr, free, piece, doomed, out, cancel>>

(* End of file, stall or framing error: cancel first, then drop the sender. *)
ReadFails ==
    /\ rd \in {"read", "error"} /\ rd' = "drop" /\ cancel' = TRUE
    /\ UNCHANGED <<pumpOnly, bodyVars, wr, free, full, piece, doomed, out>>

DropSender ==
    /\ rd = "drop" /\ rd' = "failed"
    /\ UNCHANGED <<pumpOnly, bodyVars, wr, free, full, piece, doomed, out, cancel>>

(* The writer polls the token, then the channel; between the two polls the *)
(* reader may cancel and drop its sender.                                  *)
PollCancelled ==
    /\ wr = "poll" /\ wr' = IF cancel THEN "aborted" ELSE "recv"
    /\ UNCHANGED <<pumpOnly, bodyVars, rd, free, full, piece, doomed, out, cancel>>

PollFull ==
    /\ wr = "recv"
    /\ \/ full # <<>> /\ out' = Head(full) /\ full' = Tail(full) /\ wr' = "write"
       \/ full = <<>> /\ ReaderEnded /\ wr' = "ok" /\ UNCHANGED <<full, out>>
       \/ full = <<>> /\ ~ReaderEnded /\ cancel /\ wr' = "poll"
          /\ UNCHANGED <<full, out>>
    /\ UNCHANGED <<pumpOnly, bodyVars, rd, free, piece, doomed, cancel>>

(* Deviation: the buffer is not given back to the reader.                  *)
WriteKeepsBuffer ==
    /\ wr = "write" /\ wr' = "poll"
    /\ got' = [got EXCEPT ![peer] = IF @ = out[1] THEN out[2] ELSE @]
    /\ UNCHANGED <<up, chan, peer, told, slotVars, down, answer, bodyVars, rd,
                   free, full, piece, doomed, out, cancel>>

(* Written and flushed: the prefix grows if the chunk continues it.        *)
Write ==
    /\ wr = "write" /\ wr' = "poll"
    /\ got' = [got EXCEPT ![peer] = IF @ = out[1] THEN out[2] ELSE @]
    /\ free' = free + 1
    /\ UNCHANGED <<up, chan, peer, told, slotVars, down, answer, bodyVars, rd,
                   full, piece, doomed, out, cancel>>

WriteFails ==
    /\ wr = "write" /\ wr' = "gone"
    /\ UNCHANGED <<pumpOnly, bodyVars, rd, free, full, piece, doomed, out, cancel>>

(* The coordinator cancels the reader of a writer that is gone.            *)
CancelReader ==
    /\ wr = "gone" /\ ~cancel /\ ~ReaderEnded /\ up = "pumping"
    /\ cancel' = TRUE
    /\ UNCHANGED <<pumpOnly, bodyVars, rd, wr, free, full, piece, doomed, out>>

(* Deviation: a channel that closes counts as the end of the body.         *)
CompletedByWriter == wr = "ok"

(* The end of pump, decided by both results, and what stream_handoff makes *)
(* of it.                                                                  *)
Completed == rd = "ok" /\ wr = "ok"
DownloaderGone == wr = "gone"

PumpDone ==
    /\ up = "pumping" /\ ReaderEnded /\ WriterEnded /\ HangUp
    /\ rd' = "off" /\ wr' = "off" /\ full' = <<>> /\ free' = 0
    /\ \/ /\ Completed /\ up' = "closing" /\ told' = "done"
          /\ transition("Closed")
       \/ DownloaderGone /\ rearm_or_fail /\ UNCHANGED told
       \/ /\ ~Completed /\ ~DownloaderGone /\ up' = "failing"
          /\ UNCHANGED <<told, slot, waiting, streaming>>
    /\ UNCHANGED <<listed, chan, bodyVars, answer, got, piece, doomed, out, cancel>>

-----------------------------------------------------------------------------
Upload ==
    \/ Register \/ PrintLink \/ LinkLost \/ Prefill \/ UploadCut \/ Malformed
    \/ Expire \/ ReceiveHandoff \/ RefuseHandoff \/ HandoffTimeout
    \/ StartFails \/ SendHead \/ HeadLost \/ Rearmed \/ Report \/ Leave

Reader ==
    ReaderStops \/ TakeBuffer \/ Read \/ SendChunk \/ ReadFails \/ DropSender

Writer == PollCancelled \/ PollFull \/ Write \/ WriteFails

Next ==
    \/ Upload \/ Reader \/ Writer \/ CancelReader \/ PumpDone
    \/ \E d \in Downloads : Peek(d) \/ Resolve(d) \/ Claim(d) \/ HandOver(d)

Spec == Init /\ [][Next]_vars

(* Each task goes on: reads and writes end within the stall timeout, the   *)
(* wait for a download at its deadline, and a claimant sends at once.      *)
FairSpec ==
    /\ Spec
    /\ WF_vars(Upload) /\ WF_vars(Reader) /\ WF_vars(Writer)
    /\ WF_vars(CancelReader) /\ WF_vars(PumpDone)
    /\ \A d \in Downloads : WF_vars(HandOver(d))

-----------------------------------------------------------------------------
(* Properties                                                              *)

(* I-8: the gauges count this slot in its state, whoever moved it, and an  *)
(* upload that has left leaves neither an entry nor a count behind.        *)
GaugesExact ==
    /\ waiting = Gauge(slot, "Waiting") /\ streaming = Gauge(slot, "Streaming")
    /\ up = "gone" => slot = "Closed" /\ ~listed

Holding(d) == down[d] \in {"claimed", "handed", "served"}

(* One download at a time: the claim, the hand-over and the pump concern   *)
(* the same download, a waiting slot has none, and the channel has room    *)
(* for the one that claimed.                                               *)
ClaimExclusive ==
    /\ \A d, e \in Downloads : Holding(d) /\ Holding(e) => d = e
    /\ \A d \in Downloads :
          /\ Holding(d) => slot = "Streaming" \/ up = "gone"
          /\ down[d] = "claimed" => chan = None
          /\ down[d] = "handed" => chan = d
          /\ down[d] = "served" => peer = d

(* The download was answered with the body and sent all of it.             *)
Whole(d) == answer[d] = "head" /\ got[d] = Total

(* I-4: the uploader hears `done' exactly when one download was sent the   *)
(* whole body, through the replay or the pump; otherwise it hears that the *)
(* transfer failed or expired, or could not be told about the link.        *)
DoneIffWhole ==
    up = "gone" => (told = "done" <=> \E d \in Downloads : Whole(d))

(* I-3: while a download can still be claimed, the replay buffer holds     *)
(* every unit that was read, so the next download starts at the first.     *)
ReplayWhole == slot = "Waiting" => replay = consumed

InFlight ==
    (IF wr = "write" THEN <<out>> ELSE <<>>) \o full
        \o (IF rd = "send" THEN <<piece>> ELSE <<>>)

(* The chunks between reader and writer continue what the download has and *)
(* reach up to what was read: no unit is lost, repeated or overtaken, also *)
(* after a re-arm.                                                         *)
StreamInOrder ==
    up = "pumping" /\ ~ReaderEnded /\ ~WriterEnded =>
        LET q == InFlight IN
        IF q = <<>> THEN got[peer] = consumed
        ELSE /\ q[1][1] = got[peer] /\ q[Len(q)][2] = consumed
             /\ \A i \in 1 .. Len(q) - 1 : q[i][2] = q[i + 1][1]

(* A link does not stay for ever: its upload ends by a download, a failure *)
(* or the deadline, whatever claims and re-arms come between.              *)
LinkEnds == listed ~> ~listed

(* A download that claimed the slot is not left hanging when the upload    *)
(* expires, is cut or fails meanwhile: its connection ends.                *)
ClaimEnds ==
    \A d \in Downloads : down[d] = "claimed" ~> down[d] = "ended"
=============================================================================
