----------------------------- MODULE FileTransfer ------------------------------
(***************************************************************************)
(* The receiver of a resumable file transfer and the sender's queue of     *)
(* chunks (src/src/transfer.rs): the checkpoint state.json and the journal *)
(* beside it, the parallel workers that write chunks into the staged       *)
(* files, the batches they flush, the verification, the commit into the    *)
(* destination, and the faults in between: a lost connection, a killed     *)
(* process, a power cut, a source file that changes while it is sent.      *)
(* `mode' holds the options of the transfer and never changes.             *)
(*                                                                         *)
(* The bytes of a staged chunk are either those of the source or not.  What *)
(* a power cut may take are the bytes and records that were not synced;    *)
(* renames and removals keep their order.  stdin transfers do not resume   *)
(* and are left out.  --rename commits like `fail', to a free name.        *)
(***************************************************************************)
EXTENDS Naturals, FiniteSets

CONSTANTS
    Chunks,      \* the chunks of all files, numbered in manifest order
    Files,       \* the regular files of the manifest
    FileOf,      \* the file each chunk is a part of
    Workers,     \* data streams (--parallel)
    FlushEvery,  \* RESUME_FLUSH_EVERY_CHUNKS
    Modes,       \* the combinations of options to consider
    MaxFaults    \* bound on the faults of a behaviour

ModeSpace == [fsync : BOOLEAN, multi : BOOLEAN, overwrite : BOOLEAN]

ASSUME TransferAssumption ==
    /\ Chunks \subseteq Nat /\ IsFiniteSet(Chunks)
    /\ FileOf \in [Chunks -> Files]
    /\ FlushEvery \in Nat \ {0} /\ MaxFaults \in Nat
    /\ Modes \subseteq ModeSpace

VARIABLES
    mode,        \* fsync_staged, multi_source and the collision policy
    ckpt,        \* the state.json file: [on, done], done the chunks it claims
    jrnl,        \* records in the journal file
    jrnlSafe,    \* those of them that are on the disk
    right,       \* staged chunks whose bytes are those the sender sent
    rightSafe,   \* those of them that are on the disk
    dst,         \* per file, what the destination has: none, old or ours
    dstRight,    \* chunks of our files there that hold the right bytes
    dstSafe,     \* those of them that are on the disk
    bak,         \* per file, what overwrite-backup has
    todo,        \* files commit_stage has not moved
    unit,        \* the files of the rename under way
    phase,       \* where receive_transfer is
    completed,   \* ResumeRuntime.state: chunks known to be complete
    fresh,       \* ResumeRuntime.fresh_chunks, per file
    pend,        \* ResumeRuntime.pending_journal
    dirty,       \* ResumeRuntime.dirty_paths
    count,       \* ResumeRuntime.pending_persist
    queue,       \* chunks the sender has not handed to a worker
    worker,      \* per worker: [at, hand, recs, paths, next]
    late,        \* records a blocking task of an ended run still appends
    told,        \* the sender got Completed
    edited,      \* chunks whose source changed after the manifest
    faults,      \* faults so far
    lost,        \* history: a power cut happened
    torn,        \* history: a crash met a remove_dir_all
    stray        \* history: a late append outlived the directory it is for

disk == <<ckpt, jrnl, jrnlSafe, right, rightSafe>>
place == <<dst, dstRight, dstSafe, bak>>
moving == <<todo, unit>>
runtime == <<completed, fresh, pend, dirty, count>>
hist == <<edited, faults, lost, torn, stray>>
vars == <<mode, disk, place, moving, phase, runtime, queue, worker, late, told,
          hist>>

Of(f) == {c \in Chunks : FileOf[c] = f}
Off == [at |-> "off", hand |-> {}, recs |-> {}, paths |-> {},
        next |-> "recv"]

Phases == {"idle", "ack", "fold", "trunc", "prep", "recv", "verify", "reset",
           "commit", "swap", "backup", "clean", "reject", "reply"}
Kept == {"none", "old", "ours"}
WorkerStates == {"off", "recv", "mark", "flush", "sync", "append", "last",
                 "done", "failed"}
WorkerType == [Workers -> [at : WorkerStates, hand : SUBSET Chunks,
                           recs : SUBSET Chunks, paths : SUBSET Files,
                           next : {"recv", "last", "done", "failed"}]]

DiskTypes ==
    /\ mode \in Modes
    /\ ckpt \in [on : BOOLEAN, done : SUBSET Chunks]
    /\ jrnl \subseteq Chunks /\ jrnlSafe \subseteq jrnl
    /\ right \subseteq Chunks /\ rightSafe \subseteq right
    /\ dst \in [Files -> Kept] /\ bak \in [Files -> Kept]
    /\ dstRight \subseteq Chunks /\ dstSafe \subseteq dstRight

RunTypes ==
    /\ todo \subseteq Files /\ unit \subseteq Files
    /\ phase \in Phases
    /\ completed \subseteq Chunks /\ pend \subseteq Chunks
    /\ dirty \subseteq Files
    /\ fresh \in [Files -> Nat] /\ count \in Nat
    /\ queue \subseteq Chunks /\ late \subseteq Chunks
    /\ told \in BOOLEAN /\ lost \in BOOLEAN /\ torn \in BOOLEAN
    /\ stray \in BOOLEAN
    /\ edited \subseteq Chunks /\ faults \in 0 .. MaxFaults

TypeOK == DiskTypes /\ RunTypes /\ worker \in WorkerType

Cleared ==  \* the process forgets a run
    /\ completed' = {} /\ fresh' = [f \in Files |-> 0] /\ pend' = {}
    /\ dirty' = {} /\ count' = 0 /\ queue' = {} /\ todo' = {} /\ unit' = {}
    /\ worker' = [w \in Workers |-> Off]

Init ==
    /\ mode \in Modes
    /\ ckpt = [on |-> FALSE, done |-> {}] /\ jrnl = {} /\ jrnlSafe = {}
    /\ right = {} /\ rightSafe = {}
    /\ dst \in [Files -> {"none", "old"}]
    /\ ~mode.multi => \E k \in {"none", "old"} : dst = [f \in Files |-> k]
    /\ dstRight = {} /\ dstSafe = {} /\ bak = [f \in Files |-> "none"]
    /\ phase = "idle"
    /\ completed = {} /\ fresh = [f \in Files |-> 0] /\ pend = {}
    /\ dirty = {} /\ count = 0 /\ queue = {} /\ todo = {} /\ unit = {}
    /\ worker = [w \in Workers |-> Off]
    /\ late = {} /\ told = FALSE
    /\ edited = {} /\ faults = 0 /\ lost = FALSE /\ torn = FALSE
    /\ stray = FALSE

Go(p) == phase' = p

(* destination_satisfies_manifest for one file.                            *)
Matches(f) == dst[f] = "ours" /\ Of(f) \subseteq dstRight

Fault == faults < MaxFaults /\ faults' = faults + 1
NoFault == UNCHANGED faults

-----------------------------------------------------------------------------
(* receive_manifest.                                                       *)

(* The destination has the content and no transfer is under way.  A source *)
(* that changed has another manifest: that is another transfer.            *)
StartSatisfied ==
    /\ phase = "idle" /\ ~told /\ edited = {}
    /\ ~ckpt.on /\ \A f \in Files : Matches(f)
    /\ Go("ack")
    /\ UNCHANGED <<mode, moving, disk, place, runtime, queue, worker, late, told, hist>>

(* A state file is there: load it and fold the journal into it.            *)
StartResume ==
    /\ phase = "idle" /\ ~told /\ edited = {}
    /\ ckpt.on
    /\ completed' = ckpt.done \cup jrnl
    /\ Go(IF jrnl \subseteq ckpt.done THEN "prep" ELSE "fold")
    /\ UNCHANGED <<mode, moving, disk, place, fresh, pend, dirty, count, queue, worker,
                   late, told, hist>>

(* No state file: resolve_final_name_local refuses a taken name, and the   *)
(* empty checkpoint is written.                                            *)
StartFresh ==
    /\ phase = "idle" /\ ~told /\ edited = {}
    /\ ~ckpt.on /\ \E f \in Files : ~Matches(f)
    /\ mode.multi \/ mode.overwrite \/ \A f \in Files : dst[f] = "none"
    /\ ckpt' = [on |-> TRUE, done |-> {}]
    /\ completed' = {}
    /\ Go("trunc")
    /\ UNCHANGED <<mode, moving, jrnl, jrnlSafe, right, rightSafe, place, fresh, pend,
                   dirty, count, queue, worker, late, told, hist>>

(* persist_resume_state after the fold: the new file is synced and renamed *)
(* over the old one.                                                       *)
PersistFold ==
    /\ phase = "fold"
    /\ ckpt' = [on |-> TRUE, done |-> completed]
    /\ Go("trunc")
    /\ UNCHANGED <<mode, moving, jrnl, jrnlSafe, right, rightSafe, place, runtime,
                   queue, worker, late, told, hist>>

(* truncate_resume_journal.                                                *)
Truncate ==
    /\ phase = "trunc"
    /\ jrnl' = {} /\ jrnlSafe' = {}
    /\ Go("prep")
    /\ UNCHANGED <<mode, moving, ckpt, right, rightSafe, place, runtime, queue, worker,
                   late, told, hist>>

(* prepare_stage_entries, the accepted manifest, and build_chunk_tasks at  *)
(* the sender; without a missing chunk no worker connects.                 *)
Accept ==
    /\ phase = "prep"
    /\ queue' = Chunks \ completed
    /\ worker' = [w \in Workers |->
                    IF queue' = {} THEN Off ELSE [Off EXCEPT !.at = "recv"]]
    /\ Go("recv")
    /\ UNCHANGED <<mode, moving, disk, place, runtime, late, told, hist>>

(* The user says no, or not in time.                                       *)
Reject ==
    /\ phase = "prep" /\ Fault
    /\ Go("reject")
    /\ UNCHANGED <<mode, moving, disk, place, runtime, queue, worker, late, told,
                   edited, lost, torn, stray>>

(* The idempotent answer.                                                  *)
Acknowledge ==
    /\ phase = "ack"
    /\ told' = TRUE
    /\ Cleared /\ Go("idle")
    /\ UNCHANGED <<mode, disk, place, late, hist>>

-----------------------------------------------------------------------------
(* handle_worker_connection: one data stream.                              *)

(* The next chunk of the sender's queue arrives, its own hash is right,    *)
(* and it is written to the staged file.                                   *)
WriteChunk(w) ==
    /\ phase = "recv" /\ worker[w].at = "recv"
    /\ \E c \in queue :
        /\ \A d \in queue : c <= d
        /\ queue' = queue \ {c}
        /\ IF c \in completed
           THEN UNCHANGED <<right, rightSafe, worker>>
           ELSE /\ right' = right \cup {c} /\ UNCHANGED rightSafe
                /\ worker' = [worker EXCEPT ![w].at = "mark", ![w].hand = {c}]
    /\ UNCHANGED <<mode, moving, ckpt, jrnl, jrnlSafe, place, phase, runtime, late,
                   told, hist>>

(* mark_chunk_complete, up to the flush it may call.                       *)
MarkChunk(w) ==
    /\ phase = "recv" /\ worker[w].at = "mark"
    /\ \E c \in worker[w].hand :
           /\ completed' = completed \cup {c}
           /\ pend' = IF c \in completed THEN pend ELSE pend \cup {c}
           /\ fresh' = [fresh EXCEPT ![FileOf[c]] = @ + 1]
           /\ dirty' = IF mode.fsync THEN dirty \cup {FileOf[c]} ELSE dirty
           /\ count' = count + 1
           /\ worker' = [worker EXCEPT ![w].hand = {}, ![w].next = "recv",
                  ![w].at = IF count + 1 >= FlushEvery THEN "flush" ELSE "recv"]
    /\ UNCHANGED <<mode, moving, disk, place, phase, queue, late, told, hist>>

(* WorkerDone, answered by WorkerComplete after a flush.                   *)
LastChunk(w) ==
    /\ phase = "recv" /\ worker[w].at = "recv" /\ queue = {}
    /\ worker' = [worker EXCEPT ![w].at = "flush", ![w].next = "last"]
    /\ UNCHANGED <<mode, moving, disk, place, phase, runtime, queue, late, told, hist>>

(* The flush every data stream ends with.                                  *)
LastFlush(w) ==
    /\ phase = "recv" /\ worker[w].at = "last"
    /\ worker' = [worker EXCEPT ![w].at = "flush", ![w].next = "done"]
    /\ UNCHANGED <<mode, moving, disk, place, phase, runtime, queue, late, told, hist>>

(* The stream breaks, stalls, or a write fails: what was marked is flushed *)
(* all the same.                                                           *)
BreakStream(w) ==
    /\ phase = "recv" /\ worker[w].at \in {"recv", "last"} /\ Fault
    /\ worker' = [worker EXCEPT ![w].at = "flush", ![w].next = "failed"]
    /\ UNCHANGED <<mode, moving, disk, place, phase, runtime, queue, late, told,
                   edited, lost, torn, stray>>

(* Mutant of TakeBatch: records are appended before the data is synced.    *)
TakeBatchUnsynced(w) ==
    /\ phase = "recv" /\ worker[w].at = "flush"
    /\ \A v \in Workers : worker[v].at \notin {"sync", "append"}
    /\ worker' = [worker EXCEPT
                    ![w].recs = pend, ![w].paths = dirty,
                    ![w].at = IF count = 0 /\ pend = {} /\ dirty = {}
                              THEN worker[w].next ELSE "append"]
    /\ pend' = {} /\ dirty' = {} /\ count' = 0
    /\ UNCHANGED <<mode, moving, disk, place, phase, completed, fresh, queue,
                   late, told, hist>>

(* flush_pending: persist_lock, and the batch, if any, leaves the runtime. *)
TakeBatch(w) ==
    /\ phase = "recv" /\ worker[w].at = "flush"
    /\ \A v \in Workers : worker[v].at \notin {"sync", "append"}
    /\ worker' = [worker EXCEPT
                    ![w].recs = pend, ![w].paths = dirty,
                    ![w].at = IF count = 0 /\ pend = {} /\ dirty = {} THEN worker[w].next
                              ELSE IF mode.fsync THEN "sync" ELSE "append"]
    /\ pend' = {} /\ dirty' = {} /\ count' = 0
    /\ UNCHANGED <<mode, moving, disk, place, phase, completed, fresh, queue, late,
                   told, hist>>

(* sync_staged_files: every byte the batch's files have by now.            *)
SyncData(w) ==
    /\ phase = "recv" /\ worker[w].at = "sync"
    /\ rightSafe' = rightSafe \cup {c \in right : FileOf[c] \in worker[w].paths}
    /\ worker' = [worker EXCEPT ![w].at = "append"]
    /\ UNCHANGED <<mode, moving, ckpt, jrnl, jrnlSafe, right, place, phase, runtime,
                   queue, late, told, hist>>

(* journal_append, synced if the data was, and the end of the flush.       *)
AppendBatch(w) ==
    /\ phase = "recv" /\ worker[w].at = "append"
    /\ jrnl' = jrnl \cup worker[w].recs
    /\ jrnlSafe' = IF mode.fsync THEN jrnlSafe \cup worker[w].recs ELSE jrnlSafe
    /\ worker' = [worker EXCEPT ![w].at = worker[w].next, ![w].recs = {},
                                ![w].paths = {}]
    /\ UNCHANGED <<mode, moving, ckpt, right, rightSafe, place, phase, runtime, queue,
                   late, told, hist>>

(* The sync or the append fails: the batch is gone, and the stream ends    *)
(* with its last flush, unless this was it.                                *)
LoseBatch(w) ==
    /\ phase = "recv" /\ worker[w].at \in {"sync", "append"} /\ Fault
    /\ worker' = [worker EXCEPT ![w].next = "failed",
                    ![w].at = IF worker[w].next \in {"recv", "last"}
                              THEN "flush" ELSE "failed",
                    ![w].recs = {}, ![w].paths = {}]
    /\ UNCHANGED <<mode, moving, disk, place, phase, runtime, queue, late, told,
                   edited, lost, torn, stray>>

(* The first failed worker ends the transfer and the others with it; an    *)
(* append that a blocking thread has begun still happens.                  *)
Abort ==
    /\ phase = "recv" /\ \E w \in Workers : worker[w].at = "failed"
    /\ late' = late \cup UNION {worker[w].recs : w \in
                                 {v \in Workers : worker[v].at = "append"}}
    /\ Cleared /\ Go("idle")
    /\ UNCHANGED <<mode, disk, place, told, hist>>

LateAppend ==
    /\ late # {}
    /\ \/ /\ ckpt.on
          /\ jrnl' = jrnl \cup late
          /\ jrnlSafe' = IF mode.fsync THEN jrnlSafe \cup late ELSE jrnlSafe
       \/ UNCHANGED <<jrnl, jrnlSafe>>  \* the file it has open was removed
    /\ late' = {}
    /\ UNCHANGED <<mode, moving, ckpt, right, rightSafe, place, phase, runtime, queue,
                   worker, told, hist>>

(* Every worker is done and TransferSummary has come.                      *)
JoinWorkers ==
    /\ phase = "recv" /\ \A w \in Workers : worker[w].at \in {"done", "off"}
    /\ Go("verify")
    /\ UNCHANGED <<mode, moving, disk, place, runtime, queue, worker, late, told, hist>>

-----------------------------------------------------------------------------
(* verify_summary.                                                         *)

(* Mutant of AllFresh: resumed chunks count as written by this run.        *)
AllFreshResumed(f) == Of(f) \subseteq completed

(* Whether a file is taken without reading it again: all_chunks_fresh.     *)
AllFresh(f) == fresh[f] >= Cardinality(Of(f))

(* A file this run did not write in full does not have the hash of the     *)
(* manifest.                                                               *)
Mismatch(f) == /\ ~AllFresh(f)
               /\ ~(Of(f) \subseteq right) \/ Of(f) \cap edited # {}

Verified ==
    /\ phase = "verify" /\ completed = Chunks
    /\ \A f \in Files : ~Mismatch(f)
    /\ completed' = {} /\ fresh' = [f \in Files |-> 0] /\ pend' = {}
    /\ dirty' = {} /\ count' = 0 /\ queue' = {} /\ unit' = {}
    /\ worker' = [w \in Workers |-> Off]
    /\ todo' = Files
    /\ Go("commit")
    /\ UNCHANGED <<mode, disk, place, late, told, hist>>

(* Mutant of ResetFile: the chunks of the damaged file stay claimed.       *)
ResetFileKeepingClaims ==
    /\ phase = "verify"
    /\ \E f \in Files : Mismatch(f) /\ completed' = completed /\ pend' = {}
    /\ count' = 0 /\ ckpt' = [on |-> TRUE, done |-> completed']
    /\ Go("reset")
    /\ UNCHANGED <<mode, moving, jrnl, jrnlSafe, right, rightSafe, place,
                   fresh, dirty, queue, worker, late, told, hist>>

(* reset_file, first half: the checkpoint without the file's chunks.       *)
ResetFile ==
    /\ phase = "verify"
    /\ \E f \in Files :
        /\ Mismatch(f)
        /\ completed' = completed \ Of(f) /\ pend' = {} /\ count' = 0
        /\ ckpt' = [on |-> TRUE, done |-> completed']
    /\ Go("reset")
    /\ UNCHANGED <<mode, moving, jrnl, jrnlSafe, right, rightSafe, place, fresh, dirty,
                   queue, worker, late, told, hist>>

(* Second half: the journal goes, and the transfer fails.                  *)
ResetJournal ==
    /\ phase = "reset"
    /\ jrnl' = {} /\ jrnlSafe' = {}
    /\ Cleared /\ Go("idle")
    /\ UNCHANGED <<mode, ckpt, right, rightSafe, place, late, told, hist>>

-----------------------------------------------------------------------------
(* commit_stage.  A single root is a directory and moves in one rename;    *)
(* the children of several sources move one by one.                        *)

Units == IF mode.multi THEN {{f} : f \in todo}
         ELSE IF todo = {} THEN {} ELSE {Files}
Taken(U) == \E f \in U : dst[f] # "none"

(* A child an earlier run has moved.                                       *)
SkipChild ==
    /\ phase = "commit" /\ mode.multi
    /\ \E f \in todo : Matches(f) /\ todo' = todo \ {f}
    /\ UNCHANGED <<mode, unit, disk, place, phase, runtime, queue, worker,
                   late, told, hist>>

(* The name is taken and may not be overwritten, or the directory cannot   *)
(* be renamed over the backup of an earlier run.                           *)
CommitRefused ==
    /\ phase = "commit"
    /\ \E U \in Units :
        /\ Taken(U)
        /\ mode.multi => \A f \in U : ~Matches(f)
        /\ ~mode.overwrite \/ (~mode.multi /\ \E f \in U : bak[f] # "none")
    /\ Cleared /\ Go("idle")
    /\ UNCHANGED <<mode, disk, place, late, told, hist>>

SwapOut ==
    /\ phase = "commit" /\ mode.overwrite
    /\ \E U \in Units :
        /\ Taken(U)
        /\ mode.multi => \A f \in U : ~Matches(f)
        /\ ~mode.multi => \A f \in U : bak[f] = "none"
        /\ bak' = [f \in Files |-> IF f \in U THEN dst[f] ELSE bak[f]]
        /\ dst' = [f \in Files |-> IF f \in U THEN "none" ELSE dst[f]]
        /\ unit' = U
    /\ Go("swap")
    /\ UNCHANGED <<mode, disk, dstRight, dstSafe, todo, runtime, queue, worker,
                   late, told, hist>>

(* rename(stage, destination).                                             *)
Place(U) ==
    LET cs == {c \in Chunks : FileOf[c] \in U} IN
    /\ dst' = [f \in Files |-> IF f \in U THEN "ours" ELSE dst[f]]
    /\ dstRight' = (dstRight \ cs) \cup (right \cap cs)
    /\ dstSafe' = (dstSafe \ cs) \cup (rightSafe \cap cs)
    /\ right' = right \ cs /\ rightSafe' = rightSafe \ cs
    /\ todo' = todo \ U

MoveIn ==
    /\ phase = "commit"
    /\ \E U \in Units : ~Taken(U) /\ Place(U)
    /\ UNCHANGED <<mode, unit, ckpt, jrnl, jrnlSafe, bak, phase, runtime,
                   queue, worker, late, told, hist>>

(* The same after SwapOut, and the backup is removed.                      *)
SwapIn ==
    /\ phase = "swap"
    /\ Place(unit)
    /\ Go("backup")
    /\ UNCHANGED <<mode, unit, ckpt, jrnl, jrnlSafe, bak, runtime, queue,
                   worker, late, told, hist>>

RemoveBackup ==
    /\ phase = "backup"
    /\ bak' = [f \in Files |-> IF f \in unit THEN "none" ELSE bak[f]]
    /\ unit' = {}
    /\ Go("commit")
    /\ UNCHANGED <<mode, disk, dst, dstRight, dstSafe, todo, runtime, queue,
                   worker, late, told, hist>>

(* The second rename fails and the first is undone.                        *)
RollBack ==
    /\ phase = "swap" /\ Fault
    /\ dst' = [f \in Files |-> IF f \in unit THEN bak[f] ELSE dst[f]]
    /\ bak' = [f \in Files |-> IF f \in unit THEN "none" ELSE bak[f]]
    /\ Cleared /\ Go("idle")
    /\ UNCHANGED <<mode, disk, dstRight, dstSafe, late, told, edited, lost,
                   torn, stray>>

Committed ==
    /\ phase = "commit" /\ todo = {}
    /\ Go("clean")
    /\ UNCHANGED <<mode, moving, disk, place, runtime, queue, worker, late,
                   told, hist>>

(* remove_dir_all(stage_dir), one entry after the other.                   *)
RemoveEntry ==
    /\ phase \in {"clean", "reject"}
    /\ \/ /\ ckpt' = [on |-> FALSE, done |-> {}]
          /\ UNCHANGED <<jrnl, jrnlSafe, right, rightSafe>>
       \/ /\ jrnl' = {} /\ jrnlSafe' = {}
          /\ UNCHANGED <<ckpt, right, rightSafe>>
       \/ /\ \E f \in Files : /\ right' = right \ Of(f)
                              /\ rightSafe' = rightSafe \ Of(f)
          /\ UNCHANGED <<ckpt, jrnl, jrnlSafe>>
    /\ UNCHANGED <<mode, moving, place, phase, runtime, queue, worker, late,
                   told, hist>>

RemoveRest ==
    /\ phase \in {"clean", "reject"}
    /\ ckpt' = [on |-> FALSE, done |-> {}] /\ jrnl' = {} /\ jrnlSafe' = {}
    /\ right' = {} /\ rightSafe' = {} /\ bak' = [f \in Files |-> "none"]
    /\ Cleared
    /\ Go(IF phase = "clean" THEN "reply" ELSE "idle")
    /\ stray' = (stray \/ late # {})
    /\ UNCHANGED <<mode, dst, dstRight, dstSafe, late, told, edited, faults,
                   lost, torn>>

(* Completed reaches the sender, or its connection is gone.                *)
Reply ==
    /\ phase = "reply"
    /\ \/ told' = TRUE /\ NoFault
       \/ Fault /\ UNCHANGED told
    /\ Go("idle")
    /\ UNCHANGED <<mode, moving, disk, place, runtime, queue, worker, late,
                   edited, lost, torn, stray>>

-----------------------------------------------------------------------------
(* Faults from outside.                                                    *)

(* The process dies; what it wrote is with the kernel.                     *)
Kill ==
    /\ phase # "idle" /\ Fault
    /\ torn' = (torn \/ phase \in {"clean", "reject"})
    /\ late' = {}
    /\ Cleared /\ Go("idle")
    /\ UNCHANGED <<mode, disk, place, told, edited, lost, stray>>

(* The machine dies: any part of what was not synced is lost.              *)
PowerCut ==
    /\ Fault
    /\ \E a \in SUBSET (right \ rightSafe), b \in SUBSET (jrnl \ jrnlSafe),
          c \in SUBSET (dstRight \ dstSafe) :
        /\ right' = right \ a /\ rightSafe' = right'
        /\ jrnl' = jrnl \ b /\ jrnlSafe' = jrnl'
        /\ dstRight' = dstRight \ c /\ dstSafe' = dstRight'
    /\ lost' = TRUE
    /\ torn' = (torn \/ phase \in {"clean", "reject"})
    /\ late' = {}
    /\ Cleared /\ Go("idle")
    /\ UNCHANGED <<mode, ckpt, dst, bak, told, edited, stray>>

(* The source of a chunk changes after plan_transfer has hashed it.        *)
EditSource(c) ==
    /\ phase = "recv" /\ c \in queue /\ Fault
    /\ edited' = edited \cup {c}
    /\ UNCHANGED <<mode, moving, disk, place, phase, runtime, queue, worker,
                   late, told, lost, torn, stray>>

-----------------------------------------------------------------------------
Setup == StartSatisfied \/ StartResume \/ StartFresh \/ PersistFold \/ Truncate
         \/ Accept \/ Acknowledge
Stream == \E w \in Workers :
            \/ WriteChunk(w) \/ MarkChunk(w) \/ LastChunk(w) \/ LastFlush(w)
            \/ TakeBatch(w) \/ SyncData(w) \/ AppendBatch(w)
Finish == JoinWorkers \/ Verified \/ ResetFile \/ ResetJournal \/ Abort
          \/ SkipChild \/ CommitRefused \/ SwapOut \/ MoveIn \/ SwapIn
          \/ RemoveBackup \/ Committed \/ RemoveRest \/ Reply

Next ==
    \/ Setup \/ Stream \/ Finish \/ LateAppend \/ RemoveEntry
    \/ Reject \/ RollBack \/ Kill \/ PowerCut
    \/ \E w \in Workers : BreakStream(w) \/ LoseBatch(w)
    \/ \E c \in Chunks : EditSource(c)

(* The sender runs the same command again until it is told; every task of  *)
(* a run goes on, and so does a blocking thread.                           *)
Fairness == WF_vars(Setup) /\ WF_vars(Stream) /\ WF_vars(Finish)
            /\ WF_vars(LateAppend)

Spec == Init /\ [][Next]_vars /\ Fairness

-----------------------------------------------------------------------------
(* Properties.                                                             *)

(* Resume state claims only chunks whose bytes are there: until a file is  *)
(* moved into place or its staging directory is removed, every chunk that  *)
(* a restart would count as complete is staged with the right bytes, on    *)
(* the disk if the transfer syncs, with the kernel as long as there was no *)
(* power cut.  (flush_pending syncs the data before it appends records,    *)
(* the fold is a union, reset_file writes the checkpoint first.)  Excepted *)
(* are a removal that was cut off and then begun anew, and an append that  *)
(* outlived the removal of its directory.                                  *)
ClaimsHold ==
    ckpt.on /\ phase \notin {"clean", "reject"} /\ ~torn /\ ~stray =>
        \A c \in ckpt.done \cup jrnl : dst[FileOf[c]] # "ours" =>
            /\ mode.fsync => c \in rightSafe
            /\ ~lost => c \in right

(* The destination as Delivery sees it.                                    *)
Has == [f \in Files |->
          IF dst[f] = "ours"
          THEN IF Of(f) \subseteq dstRight THEN "new" ELSE "spoilt"
          ELSE dst[f]]
D == INSTANCE Delivery WITH has <- Has, weak <- ~mode.fsync \/ stray

(* The transfer implements Delivery: a file of ours that appears in the    *)
(* destination is whole however often the transfer was cut off and         *)
(* resumed, nothing is overwritten that may not be, and Completed is sent  *)
(* only when everything is in place.                                       *)
Delivers == D!Spec

(* Faults are finitely many and the sender tries again: at last the files  *)
(* are in place, unless a name is taken and may not be overwritten (by an  *)
(* older file, or by a file of ours that a power cut spoilt), or the       *)
(* source changed and the next run is another transfer.                    *)
DeliversEventually ==
    <>(\/ \A f \in Files : dst[f] = "ours"
       \/ ~mode.overwrite /\ \E f \in Files : Has[f] \in {"old", "spoilt"}
       \/ edited # {})
=============================================================================
