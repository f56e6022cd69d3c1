-------------------------- MODULE FileTransferProofs ---------------------------
(* Theorems about FileTransfer, for every manifest, every number of data   *)
(* streams, every batch size and any number of faults: what a restart      *)
(* counts as complete is staged, and the transfer implements Delivery.     *)
EXTENDS FileTransfer, FiniteSetTheorems, TLAPS

(* The file of a chunk is in place, and stays there as far as this run     *)
(* goes.                                                                   *)
Ours(c) == dst[FileOf[c]] = "ours"
There(c) == Ours(c) \/ c \in right

(* Synced, or of a child that is in place and will be skipped.             *)
Durable(c) == c \in rightSafe \/ (mode.multi /\ Ours(c))

Removing == {"clean", "reject"}
Loaded == {"fold", "trunc", "prep", "recv", "verify", "reset"}
Moving == {"commit", "swap", "backup"}

-----------------------------------------------------------------------------
(* The parts of the inductive invariant.  First what one run does.         *)

(* Outside the three phases that use it the runtime is empty.              *)
Fresh ==
    phase \notin {"recv", "verify", "reset"} =>
        fresh = [f \in Files |-> 0] /\ pend = {} /\ dirty = {}

(* Chunks of f that this run has written, and that no worker still holds.  *)
Written(f) == {c \in Of(f) : /\ c \in right \ queue
                             /\ \A w \in Workers : c \notin worker[w].hand}

(* A file whose counter reaches its number of chunks was written in full.  *)
Counted ==
    phase \in {"recv", "verify"} =>
        \A f \in Files : fresh[f] <= Cardinality(Written(f))

(* A chunk in a worker's hand is written, out of the queue, and in no      *)
(* other hand.                                                             *)
Hands ==
    phase = "recv" => \A w \in Workers :
        /\ worker[w].hand \subseteq right \ queue
        /\ \A v \in Workers \ {w} : worker[w].hand \cap worker[v].hand = {}

(* What waits to be recorded, in the runtime or in a worker's batch, was   *)
(* written; there is a worker that will flush what is in the runtime.      *)
Batches ==
    phase = "recv" =>
        /\ pend \subseteq completed \cap right
        /\ \A w \in Workers : worker[w].recs \subseteq completed \cap right
        /\ pend \cup dirty # {} =>
              \E w \in Workers : worker[w].at \in {"recv", "mark", "flush"}

(* What the checkpoint claims, the run has loaded.                         *)
Claimed ==
    /\ phase \in Loaded => ckpt.on
    /\ phase \in Loaded \ {"reset"} => ckpt.done \subseteq completed

(* The commit: what is left to move is staged, what is not left is whole.  *)
Commits ==
    /\ phase \in Moving =>
          /\ \A c \in Chunks : FileOf[c] \in todo => c \in right
          /\ \A f \in Files \ todo : Matches(f)
          /\ ~mode.multi => todo \in {{}, Files}
    /\ phase = "swap" =>
          /\ mode.overwrite /\ unit \subseteq todo
          /\ mode.multi \/ unit = Files
          /\ \A f \in unit : dst[f] = "none"
    /\ phase \in {"clean", "reply", "ack"} => \A f \in Files : Matches(f)

-----------------------------------------------------------------------------
(* Second, what is written survives: as long as no crash and no late       *)
(* append has met a remove_dir_all, and nothing unsynced was lost.         *)
Sound == ~torn /\ ~stray /\ (mode.fsync \/ ~lost)

Present ==
    Sound =>
        /\ phase \notin Removing =>
              /\ \A c \in late : There(c)
              /\ ckpt.on => \A c \in ckpt.done \cup jrnl : There(c)
              /\ ~ckpt.on => jrnl = {}
        /\ phase \in Loaded => \A c \in completed : There(c)

-----------------------------------------------------------------------------
(* Third, what is claimed and staged is synced, if the transfer syncs.     *)
Strict == mode.fsync /\ ~stray

(* A worker that will fail, and the transfer with it.                      *)
Doomed == \E w \in Workers :
    \/ worker[w].at = "failed"
    \/ worker[w].at \in {"flush", "sync", "append"} /\ worker[w].next = "failed"

(* A chunk whose file is still to be synced.                               *)
Owed(c) == \/ FileOf[c] \in dirty
           \/ \E w \in Workers : /\ worker[w].at = "sync"
                                 /\ FileOf[c] \in worker[w].paths

ClaimsSynced ==
    Strict => \A c \in (ckpt.done \cup jrnl) \cap right : Durable(c)

LoadedSynced ==
    Strict =>
        /\ phase \in {"fold", "trunc", "prep", "verify"} =>
              \A c \in completed \cap right : Durable(c)
        /\ phase = "recv" =>
              \A c \in completed \cap right : Durable(c) \/ Owed(c) \/ Doomed
        /\ phase \in {"prep", "recv"} =>
              \A c \in jrnl \ completed : Durable(c)

BatchesSynced ==
    Strict /\ phase = "recv" =>
        /\ \A c \in pend : FileOf[c] \in dirty
        /\ \A w \in Workers :
              /\ worker[w].at = "sync" =>
                    \A c \in worker[w].recs : FileOf[c] \in worker[w].paths
              /\ worker[w].at = "append" =>
                    \A c \in worker[w].recs : Durable(c)

(* The staging directory is, or is about to be, empty.                     *)
Emptied == \/ phase \in Removing
           \/ ~mode.multi /\ todo = {} /\ phase \in {"commit", "backup"}

(* Records of an ended run, until the directory they are for is emptied.   *)
LateSynced ==
    Strict => \A c \in late : Durable(c) \/ (c \notin right /\ Emptied)

(* What is moved into place is on the disk, and so is what a failed swap   *)
(* puts back.                                                              *)
PlaceSynced ==
    Strict =>
        /\ phase \in Moving =>
              \A c \in Chunks : FileOf[c] \in todo => Durable(c)
        /\ \A f \in Files : dst[f] = "ours" => Of(f) \subseteq dstSafe
        /\ phase = "swap" =>
              \A f \in unit : bak[f] = "ours" => Of(f) \subseteq dstSafe

RunInv == Fresh /\ Counted /\ Hands /\ Batches /\ Claimed /\ Commits
SyncInv == ClaimsSynced /\ LoadedSynced /\ BatchesSynced /\ LateSynced
           /\ PlaceSynced

TransferInv == TypeOK /\ RunInv /\ Present /\ SyncInv
-----------------------------------------------------------------------------
(* What the steps of one worker do to the workers.                         *)
Others(w) == \A v \in Workers \ {w} : worker'[v] = worker[v]

(* Worker w goes on with these fields.                                     *)
Becomes(w, at, hand, recs, paths, next) ==
    /\ worker' \in WorkerType /\ Others(w)
    /\ worker'[w].at = at /\ worker'[w].hand = hand
    /\ worker'[w].recs = recs /\ worker'[w].paths = paths
    /\ worker'[w].next = next

LEMMA WriteStep ==
    ASSUME TypeOK, NEW w \in Workers, WriteChunk(w)
    PROVE  \E c \in queue :
              /\ queue' = queue \ {c}
              /\ \/ UNCHANGED <<right, worker>> /\ c \in completed
                 \/ /\ right' = right \cup {c} /\ c \notin completed
                    /\ Becomes(w, "mark", {c}, worker[w].recs,
                               worker[w].paths, worker[w].next)
  <1>1. PICK c \in queue :
           /\ queue' = queue \ {c}
           /\ IF c \in completed
              THEN UNCHANGED <<right, rightSafe, worker>>
              ELSE /\ right' = right \cup {c} /\ UNCHANGED rightSafe
                   /\ worker' = [worker EXCEPT ![w].at = "mark",
                                               ![w].hand = {c}]
    BY Zenon DEF WriteChunk
  <1>2. worker \in WorkerType /\ c \in Chunks  BY DEF TypeOK, RunTypes
  <1>3. CASE c \in completed  BY <1>1, <1>3
  <1>4. CASE c \notin completed
    BY <1>1, <1>2, <1>4 DEF WorkerType, WorkerStates, Becomes, Others
  <1> QED BY <1>3, <1>4

LEMMA MarkStep ==
    ASSUME TypeOK, NEW w \in Workers, MarkChunk(w)
    PROVE  \E c \in worker[w].hand : \E a \in {"flush", "recv"} :
              /\ completed' = completed \cup {c}
              /\ pend' \in {pend, pend \cup {c}}
              /\ fresh' = [fresh EXCEPT ![FileOf[c]] = @ + 1]
              /\ dirty' = IF mode.fsync THEN dirty \cup {FileOf[c]} ELSE dirty
              /\ Becomes(w, a, {}, worker[w].recs, worker[w].paths, "recv")
  <1> DEFINE a == IF count + 1 >= FlushEvery THEN "flush" ELSE "recv"
  <1>1. PICK c \in worker[w].hand :
           /\ completed' = completed \cup {c}
           /\ pend' = IF c \in completed THEN pend ELSE pend \cup {c}
           /\ fresh' = [fresh EXCEPT ![FileOf[c]] = @ + 1]
           /\ dirty' = IF mode.fsync THEN dirty \cup {FileOf[c]} ELSE dirty
           /\ worker' = [worker EXCEPT ![w].hand = {}, ![w].next = "recv",
                                       ![w].at = a]
    BY DEF MarkChunk
  <1>2. worker \in WorkerType /\ a \in {"flush", "recv"}  BY DEF TypeOK
  <1> HIDE DEF a
  <1>3. Becomes(w, a, {}, worker[w].recs, worker[w].paths, "recv")
    BY <1>1, <1>2 DEF WorkerType, WorkerStates, Becomes, Others
  <1> QED BY <1>1, <1>2, <1>3

LEMMA TakeStep ==
    ASSUME TypeOK, NEW w \in Workers, TakeBatch(w)
    PROVE  \E a \in WorkerStates :
              /\ \/ a = worker[w].next /\ pend = {} /\ dirty = {}
                 \/ a = IF mode.fsync THEN "sync" ELSE "append"
              /\ Becomes(w, a, worker[w].hand, pend, dirty, worker[w].next)
  <1> DEFINE a == IF count = 0 /\ pend = {} /\ dirty = {} THEN worker[w].next
                  ELSE IF mode.fsync THEN "sync" ELSE "append"
  <1>1. worker' = [worker EXCEPT ![w].recs = pend, ![w].paths = dirty,
                                 ![w].at = a]
    BY DEF TakeBatch
  <1>2. worker \in WorkerType /\ pend \subseteq Chunks /\ dirty \subseteq Files
    BY DEF TypeOK, RunTypes
  <1>3. /\ a \in WorkerStates
        /\ \/ a = worker[w].next /\ pend = {} /\ dirty = {}
           \/ a = IF mode.fsync THEN "sync" ELSE "append"
    BY <1>2 DEF WorkerType, WorkerStates
  <1> HIDE DEF a
  <1>4. Becomes(w, a, worker[w].hand, pend, dirty, worker[w].next)
    BY <1>1, <1>2, <1>3 DEF WorkerType, Becomes, Others
  <1> QED BY <1>3, <1>4

LEMMA FlushSteps ==
    ASSUME TypeOK, NEW w \in Workers
    PROVE  /\ LastChunk(w) \/ LastFlush(w) \/ BreakStream(w) =>
                \E n \in {"last", "done", "failed"} :
                   Becomes(w, "flush", worker[w].hand, worker[w].recs,
                           worker[w].paths, n)
           /\ SyncData(w) =>
                Becomes(w, "append", worker[w].hand, worker[w].recs,
                        worker[w].paths, worker[w].next)
           /\ AppendBatch(w) =>
                Becomes(w, worker[w].next, worker[w].hand, {}, {},
                        worker[w].next)
           /\ LoseBatch(w) => \E a \in {"flush", "failed"} :
                Becomes(w, a, worker[w].hand, {}, {}, "failed")
  <1>t. worker \in WorkerType  BY DEF TypeOK
  <1> USE <1>t DEF WorkerType, WorkerStates, Becomes, Others
  <1>1. ASSUME NEW n \in {"last", "done", "failed"},
               worker' = [worker EXCEPT ![w].at = "flush", ![w].next = n]
        PROVE  Becomes(w, "flush", worker[w].hand, worker[w].recs,
                       worker[w].paths, n)
    BY <1>1
  <1>2. LastChunk(w) \/ LastFlush(w) \/ BreakStream(w) =>
            \E n \in {"last", "done", "failed"} :
               worker' = [worker EXCEPT ![w].at = "flush", ![w].next = n]
    BY DEF LastChunk, LastFlush, BreakStream
  <1>3. SyncData(w) => Becomes(w, "append", worker[w].hand, worker[w].recs,
                               worker[w].paths, worker[w].next)
    BY DEF SyncData
  <1>4. AppendBatch(w) => Becomes(w, worker[w].next, worker[w].hand, {}, {},
                                  worker[w].next)
    <2>1. ASSUME NEW n \in {"recv", "last", "done", "failed"},
                 worker' = [worker EXCEPT ![w].at = n, ![w].recs = {},
                                          ![w].paths = {}]
          PROVE  Becomes(w, n, worker[w].hand, {}, {}, worker[w].next)
      BY <2>1
    <2> QED BY <2>1 DEF AppendBatch
  <1>5. LoseBatch(w) => \E a \in {"flush", "failed"} :
                           Becomes(w, a, worker[w].hand, {}, {}, "failed")
    BY DEF LoseBatch
  <1> HIDE DEF Becomes
  <1>6. LastChunk(w) \/ LastFlush(w) \/ BreakStream(w) =>
            \E n \in {"last", "done", "failed"} :
               Becomes(w, "flush", worker[w].hand, worker[w].recs,
                       worker[w].paths, n)
    BY <1>1, <1>2
  <1> QED BY <1>3, <1>4, <1>5, <1>6

-----------------------------------------------------------------------------
LEMMA TypesInit == Init => TypeOK
  <1> SUFFICES ASSUME Init PROVE TypeOK  OBVIOUS
  <1> USE TransferAssumption DEF Init
  <1>1. DiskTypes
    <2>1. dst \in [Files -> Kept] /\ bak \in [Files -> Kept]  BY DEF Kept
    <2> QED BY <2>1 DEF DiskTypes
  <1>2. RunTypes
    <2>1. /\ fresh \in [Files -> Nat] /\ count \in Nat
          /\ faults \in 0 .. MaxFaults /\ phase \in Phases
      BY DEF Phases
    <2>2. /\ told \in BOOLEAN /\ lost \in BOOLEAN /\ torn \in BOOLEAN
          /\ stray \in BOOLEAN
      OBVIOUS
    <2> QED BY <2>1, <2>2 DEF RunTypes
  <1>3. worker \in WorkerType  BY DEF WorkerType, WorkerStates, Off
  <1> QED BY <1>1, <1>2, <1>3 DEF TypeOK

(* What a worker holds.                                                    *)
LEMMA Holdings ==
    ASSUME worker \in WorkerType
    PROVE  \A w \in Workers :
              /\ worker[w].hand \subseteq Chunks
              /\ worker[w].recs \subseteq Chunks
              /\ worker[w].paths \subseteq Files
              /\ worker[w].at \in WorkerStates
              /\ worker[w].next \in {"recv", "last", "done", "failed"}
  BY DEF WorkerType

LEMMA TypesNext == TypeOK /\ [Next]_vars => TypeOK'
  <1> SUFFICES ASSUME TypeOK, [Next]_vars PROVE TypeOK'  OBVIOUS
  <1>t. DiskTypes /\ RunTypes /\ worker \in WorkerType  BY DEF TypeOK
  <1>o. [w \in Workers |-> Off] \in WorkerType
    BY DEF WorkerType, WorkerStates, Off
  <1> USE <1>t, TransferAssumption
      DEF disk, place, moving, runtime, hist, Go, Fault, NoFault, Cleared,
          Kept, Phases, Of, DiskTypes, RunTypes
  <1>1. ASSUME StartSatisfied PROVE TypeOK'
    <2>1. DiskTypes'  BY <1>1 DEF StartSatisfied
    <2>2. RunTypes'  BY <1>1 DEF StartSatisfied
    <2>3. worker' \in WorkerType  BY <1>1, <1>o DEF StartSatisfied
    <2> QED BY <2>1, <2>2, <2>3 DEF TypeOK
  <1>2. ASSUME StartResume PROVE TypeOK'
    <2>1. DiskTypes'  BY <1>2 DEF StartResume
    <2>2. RunTypes'  BY <1>2 DEF StartResume
    <2>3. worker' \in WorkerType  BY <1>2, <1>o DEF StartResume
    <2> QED BY <2>1, <2>2, <2>3 DEF TypeOK
  <1>3. ASSUME StartFresh PROVE TypeOK'
    <2>1. DiskTypes'  BY <1>3 DEF StartFresh
    <2>2. RunTypes'  BY <1>3 DEF StartFresh
    <2>3. worker' \in WorkerType  BY <1>3, <1>o DEF StartFresh
    <2> QED BY <2>1, <2>2, <2>3 DEF TypeOK
  <1>4. ASSUME PersistFold PROVE TypeOK'
    <2>1. DiskTypes'  BY <1>4 DEF PersistFold
    <2>2. RunTypes'  BY <1>4 DEF PersistFold
    <2>3. worker' \in WorkerType  BY <1>4, <1>o DEF PersistFold
    <2> QED BY <2>1, <2>2, <2>3 DEF TypeOK
  <1>5. ASSUME Truncate PROVE TypeOK'
    <2>1. DiskTypes'  BY <1>5 DEF Truncate
    <2>2. RunTypes'  BY <1>5 DEF Truncate
    <2>3. worker' \in WorkerType  BY <1>5, <1>o DEF Truncate
    <2> QED BY <2>1, <2>2, <2>3 DEF TypeOK
  <1>6. ASSUME Accept PROVE TypeOK'
    <2>1. DiskTypes'  BY <1>6 DEF Accept
    <2>2. RunTypes'  BY <1>6 DEF Accept
    <2>3. worker' \in WorkerType  BY <1>6 DEF Accept, Off, WorkerType, WorkerStates
    <2> QED BY <2>1, <2>2, <2>3 DEF TypeOK
  <1>7. ASSUME Acknowledge PROVE TypeOK'
    <2>1. DiskTypes'  BY <1>7 DEF Acknowledge
    <2>2. RunTypes'  BY <1>7 DEF Acknowledge
    <2>3. worker' \in WorkerType  BY <1>7, <1>o DEF Acknowledge
    <2> QED BY <2>1, <2>2, <2>3 DEF TypeOK
  <1>8. ASSUME Reject PROVE TypeOK'
    <2>1. DiskTypes'  BY <1>8 DEF Reject
    <2>2. RunTypes'  BY <1>8 DEF Reject
    <2>3. worker' \in WorkerType  BY <1>8, <1>o DEF Reject
    <2> QED BY <2>1, <2>2, <2>3 DEF TypeOK
  <1>9. ASSUME LateAppend PROVE TypeOK'
    <2>1. DiskTypes'  BY <1>9 DEF LateAppend
    <2>2. RunTypes'  BY <1>9 DEF LateAppend
    <2>3. worker' \in WorkerType  BY <1>9, <1>o DEF LateAppend
    <2> QED BY <2>1, <2>2, <2>3 DEF TypeOK
  <1>10. ASSUME JoinWorkers PROVE TypeOK'
    <2>1. DiskTypes'  BY <1>10 DEF JoinWorkers
    <2>2. RunTypes'  BY <1>10 DEF JoinWorkers
    <2>3. worker' \in WorkerType  BY <1>10, <1>o DEF JoinWorkers
    <2> QED BY <2>1, <2>2, <2>3 DEF TypeOK
  <1>11. ASSUME Verified PROVE TypeOK'
    <2>1. DiskTypes'  BY <1>11 DEF Verified
    <2>2. RunTypes'  BY <1>11 DEF Verified
    <2>3. worker' \in WorkerType  BY <1>11, <1>o DEF Verified
    <2> QED BY <2>1, <2>2, <2>3 DEF TypeOK
  <1>12. ASSUME ResetFile PROVE TypeOK'
    <2>c. completed' \subseteq Chunks  BY <1>12 DEF ResetFile
    <2>1. DiskTypes'  BY <1>12, <2>c DEF ResetFile
    <2>2. RunTypes'  BY <1>12, <2>c DEF ResetFile
    <2>3. worker' \in WorkerType  BY <1>12, <1>o DEF ResetFile
    <2> QED BY <2>1, <2>2, <2>3 DEF TypeOK
  <1>13. ASSUME ResetJournal PROVE TypeOK'
    <2>1. DiskTypes'  BY <1>13 DEF ResetJournal
    <2>2. RunTypes'  BY <1>13 DEF ResetJournal
    <2>3. worker' \in WorkerType  BY <1>13, <1>o DEF ResetJournal
    <2> QED BY <2>1, <2>2, <2>3 DEF TypeOK
  <1>14. ASSUME Abort PROVE TypeOK'
    <2>1. DiskTypes'  BY <1>14 DEF Abort
    <2>l. late' \subseteq Chunks
      <3>1. \A w \in Workers : worker[w].recs \subseteq Chunks  BY Holdings
      <3>2. late' = late \cup UNION {worker[w].recs : w \in
                                    {v \in Workers : worker[v].at = "append"}}
        BY <1>14 DEF Abort
      <3>3. \A c \in late' : c \in late \/ \E w \in Workers : c \in worker[w].recs
        BY <3>2, SMT
      <3> QED BY <3>1, <3>3
    <2>2. RunTypes'  BY <1>14, <2>l DEF Abort
    <2>3. worker' \in WorkerType  BY <1>14, <1>o DEF Abort
    <2> QED BY <2>1, <2>2, <2>3 DEF TypeOK
  <1>15. ASSUME SkipChild PROVE TypeOK'
    <2>1. DiskTypes'  BY <1>15 DEF SkipChild
    <2>2. RunTypes'  BY <1>15 DEF SkipChild
    <2>3. worker' \in WorkerType  BY <1>15, <1>o DEF SkipChild
    <2> QED BY <2>1, <2>2, <2>3 DEF TypeOK
  <1>16. ASSUME CommitRefused PROVE TypeOK'
    <2>1. DiskTypes'  BY <1>16 DEF CommitRefused
    <2>2. RunTypes'  BY <1>16 DEF CommitRefused
    <2>3. worker' \in WorkerType  BY <1>16, <1>o DEF CommitRefused
    <2> QED BY <2>1, <2>2, <2>3 DEF TypeOK
  <1>17. ASSUME SwapOut PROVE TypeOK'
    <2>1. DiskTypes'  BY <1>17 DEF SwapOut
    <2>u. unit' \subseteq Files  BY <1>17 DEF SwapOut, Units
    <2>2. RunTypes'  BY <1>17, <2>u DEF SwapOut
    <2>3. worker' \in WorkerType  BY <1>17, <1>o DEF SwapOut
    <2> QED BY <2>1, <2>2, <2>3 DEF TypeOK
  <1>18. ASSUME MoveIn PROVE TypeOK'
    <2>1. DiskTypes'  BY <1>18 DEF MoveIn, Place
    <2>2. RunTypes'  BY <1>18 DEF MoveIn, Place
    <2>3. worker' \in WorkerType  BY <1>18, <1>o DEF MoveIn
    <2> QED BY <2>1, <2>2, <2>3 DEF TypeOK
  <1>19. ASSUME SwapIn PROVE TypeOK'
    <2>1. DiskTypes'  BY <1>19 DEF SwapIn, Place
    <2>2. RunTypes'  BY <1>19 DEF SwapIn, Place
    <2>3. worker' \in WorkerType  BY <1>19, <1>o DEF SwapIn
    <2> QED BY <2>1, <2>2, <2>3 DEF TypeOK
  <1>20. ASSUME RemoveBackup PROVE TypeOK'
    <2>1. DiskTypes'  BY <1>20 DEF RemoveBackup
    <2>2. RunTypes'  BY <1>20 DEF RemoveBackup
    <2>3. worker' \in WorkerType  BY <1>20, <1>o DEF RemoveBackup
    <2> QED BY <2>1, <2>2, <2>3 DEF TypeOK
  <1>21. ASSUME RollBack PROVE TypeOK'
    <2>1. DiskTypes'  BY <1>21 DEF RollBack
    <2>2. RunTypes'  BY <1>21 DEF RollBack
    <2>3. worker' \in WorkerType  BY <1>21, <1>o DEF RollBack
    <2> QED BY <2>1, <2>2, <2>3 DEF TypeOK
  <1>22. ASSUME Committed PROVE TypeOK'
    <2>1. DiskTypes'  BY <1>22 DEF Committed
    <2>2. RunTypes'  BY <1>22 DEF Committed
    <2>3. worker' \in WorkerType  BY <1>22, <1>o DEF Committed
    <2> QED BY <2>1, <2>2, <2>3 DEF TypeOK
  <1>23. ASSUME RemoveEntry PROVE TypeOK'
    <2>c. /\ ckpt' \in [on : BOOLEAN, done : SUBSET Chunks]
          /\ jrnl' \subseteq Chunks /\ jrnlSafe' \subseteq jrnl'
          /\ right' \subseteq Chunks /\ rightSafe' \subseteq right'
      <3>1. CASE /\ ckpt' = [on |-> FALSE, done |-> {}]
                 /\ UNCHANGED <<jrnl, jrnlSafe, right, rightSafe>>
        BY <3>1
      <3>2. CASE /\ jrnl' = {} /\ jrnlSafe' = {}
                 /\ UNCHANGED <<ckpt, right, rightSafe>>
        BY <3>2
      <3>3. CASE /\ \E f \in Files : /\ right' = right \ Of(f)
                                     /\ rightSafe' = rightSafe \ Of(f)
                 /\ UNCHANGED <<ckpt, jrnl, jrnlSafe>>
        BY <3>3
      <3> QED BY <1>23, <3>1, <3>2, <3>3 DEF RemoveEntry
    <2>1. DiskTypes'  BY <1>23, <2>c DEF RemoveEntry
    <2>2. RunTypes'  BY <1>23 DEF RemoveEntry
    <2>3. worker' \in WorkerType  BY <1>23, <1>o DEF RemoveEntry
    <2> QED BY <2>1, <2>2, <2>3 DEF TypeOK
  <1>24. ASSUME RemoveRest PROVE TypeOK'
    <2>1. DiskTypes'  BY <1>24 DEF RemoveRest
    <2>2. RunTypes'  BY <1>24 DEF RemoveRest
    <2>3. worker' \in WorkerType  BY <1>24, <1>o DEF RemoveRest
    <2> QED BY <2>1, <2>2, <2>3 DEF TypeOK
  <1>25. ASSUME Reply PROVE TypeOK'
    <2>1. DiskTypes'  BY <1>25 DEF Reply
    <2>f. told' \in BOOLEAN /\ faults' \in 0 .. MaxFaults
      <3>1. told' = TRUE \/ told' = told  BY <1>25, Zenon DEF Reply
      <3>2. faults' = faults \/ (faults < MaxFaults /\ faults' = faults + 1)
        BY <1>25, Zenon DEF Reply, NoFault, Fault
      <3>3. faults' \in 0 .. MaxFaults  BY <3>2
      <3>4. told' \in BOOLEAN  BY <3>1
      <3> QED BY <3>3, <3>4
    <2>2. RunTypes'  BY <1>25, <2>f DEF Reply
    <2>3. worker' \in WorkerType  BY <1>25, <1>o DEF Reply
    <2> QED BY <2>1, <2>2, <2>3 DEF TypeOK
  <1>26. ASSUME Kill PROVE TypeOK'
    <2>1. DiskTypes'  BY <1>26 DEF Kill
    <2>2. RunTypes'  BY <1>26 DEF Kill
    <2>3. worker' \in WorkerType  BY <1>26, <1>o DEF Kill
    <2> QED BY <2>1, <2>2, <2>3 DEF TypeOK
  <1>27. ASSUME PowerCut PROVE TypeOK'
    <2>1. DiskTypes'  BY <1>27 DEF PowerCut
    <2>2. RunTypes'  BY <1>27 DEF PowerCut
    <2>3. worker' \in WorkerType  BY <1>27, <1>o DEF PowerCut
    <2> QED BY <2>1, <2>2, <2>3 DEF TypeOK
  <1>28. ASSUME NEW w \in Workers, WriteChunk(w) PROVE TypeOK'
    <2>1. DiskTypes'  BY <1>28 DEF WriteChunk
    <2>2. RunTypes'  BY <1>28 DEF WriteChunk
    <2>3. worker' \in WorkerType  BY <1>28, WriteStep DEF Becomes, WriteChunk
    <2> QED BY <2>1, <2>2, <2>3 DEF TypeOK
  <1>29. ASSUME NEW w \in Workers, MarkChunk(w) PROVE TypeOK'
    <2>1. DiskTypes'  BY <1>29 DEF MarkChunk
    <2>c. /\ completed' \subseteq Chunks /\ pend' \subseteq Chunks
          /\ dirty' \subseteq Files /\ fresh' \in [Files -> Nat]
      <3>1. PICK c \in worker[w].hand :
               /\ completed' = completed \cup {c}
               /\ pend' \in {pend, pend \cup {c}}
               /\ fresh' = [fresh EXCEPT ![FileOf[c]] = @ + 1]
               /\ dirty' = IF mode.fsync THEN dirty \cup {FileOf[c]} ELSE dirty
        BY <1>29, MarkStep
      <3>2. c \in Chunks /\ FileOf[c] \in Files  BY <1>29, Holdings
      <3>3. fresh' \in [Files -> Nat]  BY <3>1, <3>2
      <3>4. dirty' \subseteq Files  BY <3>1, <3>2
      <3> QED BY <3>1, <3>2, <3>3, <3>4
    <2>2. RunTypes'  BY <1>29, <2>c DEF MarkChunk
    <2>3. worker' \in WorkerType  BY <1>29, MarkStep DEF Becomes
    <2> QED BY <2>1, <2>2, <2>3 DEF TypeOK
  <1>30. ASSUME NEW w \in Workers, LastChunk(w) PROVE TypeOK'
    <2>1. DiskTypes'  BY <1>30 DEF LastChunk
    <2>2. RunTypes'  BY <1>30 DEF LastChunk
    <2>3. worker' \in WorkerType  BY <1>30, FlushSteps DEF Becomes
    <2> QED BY <2>1, <2>2, <2>3 DEF TypeOK
  <1>31. ASSUME NEW w \in Workers, LastFlush(w) PROVE TypeOK'
    <2>1. DiskTypes'  BY <1>31 DEF LastFlush
    <2>2. RunTypes'  BY <1>31 DEF LastFlush
    <2>3. worker' \in WorkerType  BY <1>31, FlushSteps DEF Becomes
    <2> QED BY <2>1, <2>2, <2>3 DEF TypeOK
  <1>32. ASSUME NEW w \in Workers, BreakStream(w) PROVE TypeOK'
    <2>1. DiskTypes'  BY <1>32 DEF BreakStream
    <2>2. RunTypes'  BY <1>32 DEF BreakStream
    <2>3. worker' \in WorkerType  BY <1>32, FlushSteps DEF Becomes
    <2> QED BY <2>1, <2>2, <2>3 DEF TypeOK
  <1>33. ASSUME NEW w \in Workers, TakeBatch(w) PROVE TypeOK'
    <2>1. DiskTypes'  BY <1>33 DEF TakeBatch
    <2>2. RunTypes'  BY <1>33 DEF TakeBatch
    <2>3. worker' \in WorkerType  BY <1>33, TakeStep DEF Becomes
    <2> QED BY <2>1, <2>2, <2>3 DEF TypeOK
  <1>34. ASSUME NEW w \in Workers, SyncData(w) PROVE TypeOK'
    <2>1. DiskTypes'  BY <1>34 DEF SyncData
    <2>2. RunTypes'  BY <1>34 DEF SyncData
    <2>3. worker' \in WorkerType  BY <1>34, FlushSteps DEF Becomes
    <2> QED BY <2>1, <2>2, <2>3 DEF TypeOK
  <1>35. ASSUME NEW w \in Workers, AppendBatch(w) PROVE TypeOK'
    <2>1. DiskTypes'  BY <1>35, Holdings DEF AppendBatch
    <2>2. RunTypes'  BY <1>35 DEF AppendBatch
    <2>3. worker' \in WorkerType  BY <1>35, FlushSteps DEF Becomes
    <2> QED BY <2>1, <2>2, <2>3 DEF TypeOK
  <1>36. ASSUME NEW w \in Workers, LoseBatch(w) PROVE TypeOK'
    <2>1. DiskTypes'  BY <1>36 DEF LoseBatch
    <2>2. RunTypes'  BY <1>36 DEF LoseBatch
    <2>3. worker' \in WorkerType  BY <1>36, FlushSteps DEF Becomes
    <2> QED BY <2>1, <2>2, <2>3 DEF TypeOK
  <1>37. ASSUME NEW c \in Chunks, EditSource(c) PROVE TypeOK'
    BY <1>37 DEF EditSource, TypeOK
  <1>38. ASSUME UNCHANGED vars PROVE TypeOK'
    BY <1>38 DEF vars, TypeOK
  <1> QED BY <1>1, <1>2, <1>3, <1>4, <1>5, <1>6, <1>7, <1>8, <1>9, <1>10, <1>11, <1>12, <1>13, <1>14, <1>15, <1>16, <1>17, <1>18, <1>19, <1>20, <1>21, <1>22, <1>23, <1>24, <1>25, <1>26, <1>27, <1>28, <1>29, <1>30, <1>31, <1>32, <1>33, <1>34, <1>35, <1>36, <1>37, <1>38 DEF Next, Setup, Stream, Finish

-----------------------------------------------------------------------------
(* The steps of a data stream.                                             *)
Work(w) == \/ WriteChunk(w) \/ MarkChunk(w) \/ LastChunk(w) \/ LastFlush(w)
           \/ BreakStream(w) \/ TakeBatch(w) \/ SyncData(w)
           \/ AppendBatch(w) \/ LoseBatch(w)

(* Steps that no phase is particular about.                                *)
Aside == LateAppend \/ UNCHANGED vars

(* The steps that lead to, or stay in, each phase.                         *)
Loads == StartResume \/ StartFresh \/ PersistFold \/ Truncate \/ Aside
Receives == \/ Accept \/ (\E w \in Workers : Work(w))
            \/ (\E c \in Chunks : EditSource(c)) \/ Aside
Moves == \/ Verified \/ SkipChild \/ SwapOut \/ MoveIn \/ SwapIn
         \/ RemoveBackup \/ Aside
Cleans == \/ StartSatisfied \/ Committed \/ Reject \/ RemoveEntry
          \/ (RemoveRest /\ phase' = "reply") \/ Aside
Ends == \/ Acknowledge \/ ResetJournal \/ Abort \/ CommitRefused \/ RollBack
        \/ (RemoveRest /\ phase' = "idle") \/ Reply \/ Kill \/ PowerCut
        \/ Aside

LEMMA PhaseSteps ==
    ASSUME TypeOK, [Next]_vars
    PROVE  \/ phase' \in {"fold", "trunc", "prep"} /\ Loads
           \/ phase' = "recv" /\ Receives
           \/ phase' = "verify" /\ (JoinWorkers \/ Aside)
           \/ phase' = "reset" /\ (ResetFile \/ Aside)
           \/ phase' \in Moving /\ Moves
           \/ phase' \in {"ack", "clean", "reject", "reply"} /\ Cleans
           \/ phase' = "idle" /\ Ends
  <1> USE DEF Loads, Receives, Moves, Cleans, Ends, Moving, Go
  <1>1. StartResume \/ StartFresh \/ PersistFold \/ Truncate
        => phase' \in {"fold", "trunc", "prep"}
    BY DEF StartResume, StartFresh, PersistFold, Truncate
  <1>2. Accept \/ (\E w \in Workers : Work(w)) \/ (\E c \in Chunks : EditSource(c))
        => phase' = "recv"
    BY DEF Accept, Work, WriteChunk, MarkChunk, LastChunk, LastFlush,
           BreakStream, TakeBatch, SyncData, AppendBatch, LoseBatch, EditSource
  <1>3. /\ JoinWorkers => phase' = "verify"
        /\ ResetFile => phase' = "reset"
    BY DEF JoinWorkers, ResetFile
  <1>4. Verified \/ SkipChild \/ SwapOut \/ MoveIn \/ SwapIn \/ RemoveBackup
        => phase' \in Moving
    BY DEF Verified, SkipChild, SwapOut, MoveIn, SwapIn, RemoveBackup
  <1>5. StartSatisfied \/ Committed \/ Reject \/ RemoveEntry
        => phase' \in {"ack", "clean", "reject", "reply"}
    BY DEF StartSatisfied, Committed, Reject, RemoveEntry
  <1>6. /\ Acknowledge \/ ResetJournal \/ Abort \/ CommitRefused \/ RollBack
             \/ Reply \/ Kill \/ PowerCut
           => phase' = "idle"
        /\ RemoveRest => phase' \in {"reply", "idle"}
    BY DEF Acknowledge, ResetJournal, Abort, CommitRefused, RollBack, Reply,
           Kill, PowerCut, RemoveRest
  <1>7. Aside => phase' = phase /\ phase \in Phases
    BY DEF Aside, LateAppend, vars, TypeOK, RunTypes
  <1>8. \/ Loads \/ Receives \/ JoinWorkers \/ ResetFile \/ Moves \/ Cleans
        \/ Ends \/ RemoveRest
    BY DEF Next, Setup, Stream, Finish, Work, Aside
  <1> QED BY <1>1, <1>2, <1>3, <1>4, <1>5, <1>6, <1>7, <1>8 DEF Phases

-----------------------------------------------------------------------------
(* Every step keeps each part of the invariant.                            *)
LEMMA FreshNext == ASSUME TypeOK, Fresh, [Next]_vars PROVE Fresh'
  <1> USE DEF Fresh, Cleared, runtime, Moving, Aside, LateAppend, vars
  <1>1. CASE phase' \in {"fold", "trunc", "prep"} /\ Loads
    BY <1>1 DEF Loads, StartResume, StartFresh, PersistFold, Truncate
  <1>2. CASE phase' \in {"recv", "verify", "reset"}  BY <1>2
  <1>3. CASE phase' \in Moving /\ Moves
    BY <1>3 DEF Moves, Verified, SkipChild, SwapOut, MoveIn, SwapIn,
                RemoveBackup
  <1>4. CASE phase' \in {"ack", "clean", "reject", "reply"} /\ Cleans
    BY <1>4 DEF Cleans, StartSatisfied, Committed, Reject, RemoveEntry,
                RemoveRest
  <1>5. CASE phase' = "idle" /\ Ends
    BY <1>5 DEF Ends, Acknowledge, ResetJournal, Abort, CommitRefused,
                RollBack, RemoveRest, Reply, Kill, PowerCut
  <1> QED BY <1>1, <1>2, <1>3, <1>4, <1>5, PhaseSteps

LEMMA ClaimedNext == ASSUME TypeOK, Claimed, [Next]_vars PROVE Claimed'
  <1> USE DEF Claimed, Loaded, Aside, LateAppend, vars, disk, runtime
  <1>1. CASE phase' \in {"fold", "trunc", "prep"} /\ Loads
    BY <1>1 DEF Loads, StartResume, StartFresh, PersistFold, Truncate, TypeOK,
       DiskTypes
  <1>2. CASE phase' = "recv" /\ Receives
    <2>1. ckpt' = ckpt /\ completed \subseteq completed'
          /\ phase \in Loaded \ {"reset"}
      BY <1>2 DEF Receives, Accept, EditSource, Work, WriteChunk, MarkChunk,
         LastChunk, LastFlush, BreakStream, TakeBatch, SyncData, AppendBatch,
         LoseBatch
    <2> QED BY <1>2, <2>1
  <1>3. CASE phase' = "verify" /\ (JoinWorkers \/ Aside)
    BY <1>3 DEF JoinWorkers
  <1>4. CASE phase' = "reset" /\ (ResetFile \/ Aside)
    BY <1>4 DEF ResetFile
  <1>5. CASE phase' \notin Loaded  BY <1>5
  <1> QED BY <1>1, <1>2, <1>3, <1>4, <1>5, PhaseSteps DEF Moving

(* The steps of a worker that neither write nor mark a chunk.              *)
Flushes(w) == \/ LastChunk(w) \/ LastFlush(w) \/ BreakStream(w) \/ TakeBatch(w)
              \/ SyncData(w) \/ AppendBatch(w) \/ LoseBatch(w)

LEMMA FlushFrame ==
    ASSUME TypeOK, NEW w \in Workers, Flushes(w)
    PROVE  /\ UNCHANGED <<right, queue, fresh, completed, phase>>
           /\ \A v \in Workers : worker'[v].hand = worker[v].hand
           /\ worker' \in WorkerType /\ Others(w)
  <1>1. UNCHANGED <<right, queue, fresh, completed, phase>>
    BY DEF Flushes, LastChunk, LastFlush, BreakStream, TakeBatch, SyncData,
           AppendBatch, LoseBatch, disk, runtime
  <1>2. /\ worker' \in WorkerType /\ Others(w)
        /\ worker'[w].hand = worker[w].hand
    BY TakeStep, FlushSteps DEF Flushes, Becomes
  <1> QED BY <1>1, <1>2 DEF Others

LEMMA HandsNext == ASSUME TypeOK, Hands, [Next]_vars PROVE Hands'
  <1> SUFFICES ASSUME phase' = "recv", Receives PROVE Hands'
    BY PhaseSteps DEF Hands, Moving
  <1>1. CASE Accept  BY <1>1 DEF Accept, Hands, Off
  <1>2. CASE Aside \/ \E c \in Chunks : EditSource(c)
    BY <1>2 DEF Aside, LateAppend, EditSource, vars, Hands, disk
  <1>3. ASSUME NEW w \in Workers, WriteChunk(w) PROVE Hands'
    <2>1. phase = "recv"  BY <1>3 DEF WriteChunk
    <2>2. PICK c \in queue :
             /\ queue' = queue \ {c}
             /\ \/ UNCHANGED <<right, worker>>
                \/ /\ right' = right \cup {c} /\ Others(w)
                   /\ worker'[w].hand = {c}
      BY <1>3, WriteStep DEF Becomes
    <2>3. CASE UNCHANGED <<right, worker>>  BY <2>1, <2>2, <2>3 DEF Hands
    <2>4. CASE right' = right \cup {c} /\ Others(w) /\ worker'[w].hand = {c}
      BY <2>1, <2>2, <2>4 DEF Hands, Others
    <2> QED BY <2>2, <2>3, <2>4
  <1>4. ASSUME NEW w \in Workers, MarkChunk(w) PROVE Hands'
    <2>1. /\ phase = "recv" /\ UNCHANGED <<right, queue>>
          /\ Others(w) /\ worker'[w].hand = {}
      BY <1>4, MarkStep DEF MarkChunk, Becomes, disk
    <2> QED BY <2>1 DEF Hands, Others
  <1>5. ASSUME NEW w \in Workers, Flushes(w) PROVE Hands'
    BY <1>5, FlushFrame DEF Hands
  <1> QED BY <1>1, <1>2, <1>3, <1>4, <1>5 DEF Receives, Work, Flushes

LEMMA BatchesNext ==
    ASSUME TypeOK, Fresh, Hands, Batches, [Next]_vars PROVE Batches'
  <1> SUFFICES ASSUME phase' = "recv", Receives PROVE Batches'
    BY PhaseSteps DEF Batches, Moving
  <1>1. CASE Accept
    BY <1>1 DEF Accept, Batches, Fresh, Off, disk, runtime
  <1>2. CASE Aside \/ \E c \in Chunks : EditSource(c)
    BY <1>2 DEF Aside, LateAppend, EditSource, vars, Batches, disk, runtime
  <1>3. ASSUME NEW w \in Workers, WriteChunk(w) PROVE Batches'
    <2>1. /\ phase = "recv" /\ worker[w].at = "recv"
          /\ UNCHANGED <<completed, pend, dirty>>
      BY <1>3 DEF WriteChunk, runtime
    <2>2. PICK c \in queue :
             \/ UNCHANGED <<right, worker>>
             \/ /\ right' = right \cup {c} /\ Others(w)
                /\ worker'[w].recs = worker[w].recs /\ worker'[w].at = "mark"
      BY <1>3, WriteStep DEF Becomes
    <2>3. CASE UNCHANGED <<right, worker>>  BY <2>1, <2>3 DEF Batches
    <2>4. CASE /\ right' = right \cup {c} /\ Others(w)
               /\ worker'[w].recs = worker[w].recs /\ worker'[w].at = "mark"
      BY <2>1, <2>4 DEF Batches, Others
    <2> QED BY <2>2, <2>3, <2>4
  <1>4. ASSUME NEW w \in Workers, MarkChunk(w) PROVE Batches'
    <2>1. phase = "recv" /\ UNCHANGED right  BY <1>4 DEF MarkChunk, disk
    <2>2. PICK c \in worker[w].hand :
             /\ completed' = completed \cup {c}
             /\ pend' \in {pend, pend \cup {c}}
             /\ Others(w) /\ worker'[w].at \in {"flush", "recv"}
             /\ worker'[w].recs = worker[w].recs
      BY <1>4, MarkStep DEF Becomes
    <2>3. c \in right  BY <2>1 DEF Hands
    <2> QED BY <2>1, <2>2, <2>3 DEF Batches, Others
  <1>5. ASSUME NEW w \in Workers, LastChunk(w) \/ LastFlush(w) \/ BreakStream(w)
        PROVE  Batches'
    <2>1. phase = "recv" /\ UNCHANGED <<completed, right, pend, dirty>>
      BY <1>5 DEF LastChunk, LastFlush, BreakStream, disk, runtime
    <2>2. /\ Others(w) /\ worker'[w].at = "flush"
          /\ worker'[w].recs = worker[w].recs
      BY <1>5, FlushSteps DEF Becomes
    <2> QED BY <2>1, <2>2 DEF Batches, Others
  <1>6. ASSUME NEW w \in Workers, TakeBatch(w) PROVE Batches'
    <2>1. /\ phase = "recv" /\ UNCHANGED <<completed, right>>
          /\ pend' = {} /\ dirty' = {}
      BY <1>6 DEF TakeBatch, disk
    <2>2. Others(w) /\ worker'[w].recs = pend
      BY <1>6, TakeStep DEF Becomes
    <2> QED BY <2>1, <2>2 DEF Batches, Others
  <1>7. ASSUME NEW w \in Workers, SyncData(w) \/ AppendBatch(w) \/ LoseBatch(w)
        PROVE  Batches'
    <2>1. /\ phase = "recv" /\ UNCHANGED <<completed, right, pend, dirty>>
          /\ worker[w].at \in {"sync", "append"}
      BY <1>7 DEF SyncData, AppendBatch, LoseBatch, disk, runtime
    <2>2. Others(w) /\ worker'[w].recs \in {worker[w].recs, {}}
      BY <1>7, FlushSteps DEF Becomes
    <2> QED BY <2>1, <2>2 DEF Batches, Others
  <1> QED BY <1>1, <1>2, <1>3, <1>4, <1>5, <1>6, <1>7 DEF Receives, Work

(* Sizes of sets of chunks.                                                *)
LEMMA WrittenSize ==
    ASSUME TypeOK, NEW f \in Files
    PROVE  /\ IsFiniteSet(Of(f)) /\ Written(f) \subseteq Of(f)
           /\ Cardinality(Of(f)) \in Nat /\ Cardinality(Written(f)) \in Nat
           /\ Cardinality(Written(f)) >= Cardinality(Of(f)) =>
                Written(f) = Of(f)
  <1>1. IsFiniteSet(Of(f)) /\ Cardinality(Of(f)) \in Nat
    BY TransferAssumption, FS_Subset, FS_CardinalityType DEF Of
  <1>2. Written(f) \subseteq Of(f)  BY DEF Written
  <1>3. /\ Cardinality(Written(f)) \in Nat
        /\ Cardinality(Written(f)) <= Cardinality(Of(f))
        /\ Cardinality(Written(f)) = Cardinality(Of(f)) => Written(f) = Of(f)
    BY <1>1, <1>2, FS_Subset, FS_CardinalityType
  <1> QED BY <1>1, <1>2, <1>3

LEMMA CountedNext ==
    ASSUME TypeOK, TypeOK', Fresh, Hands, Counted, [Next]_vars PROVE Counted'
  <1>t. fresh \in [Files -> Nat]  BY DEF TypeOK, RunTypes
  <1>n. \A f \in Files : /\ IsFiniteSet(Written(f)')
                         /\ Cardinality(Written(f)') \in Nat
                         /\ Cardinality(Written(f)) \in Nat
    <2> TAKE f \in Files
    <2>1. IsFiniteSet(Of(f)) /\ Written(f)' \subseteq Of(f)
      BY WrittenSize DEF Written, Of
    <2> QED BY <2>1, WrittenSize, FS_Subset, FS_CardinalityType
  <1>m. ASSUME phase \in {"recv", "verify"}, UNCHANGED fresh,
               \A f \in Files : Written(f) \subseteq Written(f)'
        PROVE  Counted'
    <2> SUFFICES ASSUME NEW f \in Files
                 PROVE  fresh'[f] <= Cardinality(Written(f)')
      BY DEF Counted
    <2>1. Cardinality(Written(f)) <= Cardinality(Written(f)')
      BY <1>m, <1>n, FS_Subset
    <2>2. fresh[f] <= Cardinality(Written(f))  BY <1>m DEF Counted
    <2> QED BY <1>m, <1>n, <1>t, <2>1, <2>2
  <1>1. CASE Accept
    <2>1. fresh' = [f \in Files |-> 0]  BY <1>1 DEF Accept, Fresh, runtime
    <2> QED BY <1>n, <2>1 DEF Counted
  <1>2. CASE phase' \in {"recv", "verify"} /\ (Aside \/ JoinWorkers \/ \E c \in Chunks : EditSource(c))
    <2>1. UNCHANGED <<right, queue, worker, fresh>> /\ phase \in {"recv", "verify"}
      BY <1>2 DEF Aside, LateAppend, JoinWorkers, EditSource, vars, disk, runtime
    <2> QED BY <1>m, <2>1 DEF Written
  <1>3. ASSUME NEW w \in Workers, WriteChunk(w) PROVE Counted'
    <2>1. phase = "recv" /\ UNCHANGED fresh  BY <1>3 DEF WriteChunk, runtime
    <2>2. PICK c \in queue :
             /\ queue' = queue \ {c}
             /\ \/ UNCHANGED <<right, worker>>
                \/ /\ right' = right \cup {c} /\ Others(w)
                   /\ worker'[w].hand = {c}
      BY <1>3, WriteStep DEF Becomes
    <2>3. \A f \in Files : Written(f) \subseteq Written(f)'
      BY <2>2 DEF Written, Others
    <2> QED BY <1>m, <2>1, <2>3
  <1>4. ASSUME NEW w \in Workers, MarkChunk(w) PROVE Counted'
    <2>1. phase = "recv" /\ UNCHANGED <<right, queue>>
      BY <1>4 DEF MarkChunk, disk
    <2>2. PICK c \in worker[w].hand :
             /\ fresh' = [fresh EXCEPT ![FileOf[c]] = @ + 1]
             /\ Others(w) /\ worker'[w].hand = {}
      BY <1>4, MarkStep DEF Becomes
    <2>3. c \in right \ queue /\ \A v \in Workers \ {w} : c \notin worker[v].hand
      BY <2>1 DEF Hands
    <2>4. c \in Chunks  BY Holdings DEF TypeOK
    <2> SUFFICES ASSUME NEW f \in Files
                 PROVE  fresh'[f] <= Cardinality(Written(f)')
      BY DEF Counted
    <2>5. fresh[f] <= Cardinality(Written(f))  BY <2>1 DEF Counted
    <2>6. Written(f) \subseteq Written(f)'
      BY <2>1, <2>2 DEF Written, Others
    <2>7. CASE f # FileOf[c]
      <3>1. fresh'[f] = fresh[f]  BY <1>t, <2>2, <2>7
      <3>2. Cardinality(Written(f)) <= Cardinality(Written(f)')
        BY <1>n, <2>6, FS_Subset
      <3> QED BY <1>n, <1>t, <2>5, <3>1, <3>2
    <2>8. CASE f = FileOf[c]
      <3>1. fresh'[f] = fresh[f] + 1  BY <1>t, <2>2, <2>8
      <3>2. c \in Written(f)' /\ c \notin Written(f)
        BY <2>1, <2>2, <2>3, <2>4, <2>8 DEF Written, Of, Others
      <3>3. Cardinality(Written(f) \cup {c}) = Cardinality(Written(f)) + 1
        BY <1>n, <2>6, <3>2, FS_Subset, FS_AddElement
      <3>4. Cardinality(Written(f) \cup {c}) <= Cardinality(Written(f)')
        BY <1>n, <2>6, <3>2, FS_Subset
      <3> QED BY <1>n, <1>t, <2>5, <3>1, <3>3, <3>4
    <2> QED BY <2>7, <2>8
  <1>5. ASSUME NEW w \in Workers, Flushes(w), phase' = "recv" PROVE Counted'
    <2>1. /\ UNCHANGED <<right, queue, fresh, phase>>
          /\ \A v \in Workers : worker'[v].hand = worker[v].hand
      BY <1>5, FlushFrame
    <2>2. \A f \in Files : Written(f) \subseteq Written(f)'
      BY <2>1 DEF Written
    <2> QED BY <1>5, <1>m, <2>1, <2>2
  <1>6. CASE phase' \notin {"recv", "verify"}  BY <1>6 DEF Counted
  <1> QED BY <1>1, <1>2, <1>3, <1>4, <1>5, <1>6, PhaseSteps
          DEF Receives, Work, Flushes, Moving

(* verify_summary: a file that is not read again was written in full, so   *)
(* what is verified is staged.                                             *)
LEMMA VerifiedStaged ==
    ASSUME TypeOK, Counted, Verified PROVE Chunks \subseteq right
  <1> SUFFICES ASSUME NEW c \in Chunks PROVE c \in right  OBVIOUS
  <1> DEFINE f == FileOf[c]
  <1>1. f \in Files /\ c \in Of(f)  BY TransferAssumption DEF Of
  <1>2. fresh[f] <= Cardinality(Written(f)) /\ fresh[f] \in Nat
    BY <1>1 DEF Verified, Counted, TypeOK, RunTypes
  <1>3. AllFresh(f) \/ Of(f) \subseteq right
    BY <1>1 DEF Verified, Mismatch
  <1> HIDE DEF f
  <1>4. CASE AllFresh(f)
    <2>1. Cardinality(Written(f)) >= Cardinality(Of(f))
      BY <1>1, <1>2, <1>4, WrittenSize DEF AllFresh
    <2> QED BY <1>1, <2>1, WrittenSize DEF Written
  <1> QED BY <1>1, <1>3, <1>4

(* What a rename into place does.                                          *)
LEMMA PlaceStep ==
    ASSUME TypeOK, NEW U, U \subseteq Files, Place(U)
    PROVE  /\ \A f \in Files : dst'[f] = IF f \in U THEN "ours" ELSE dst[f]
           /\ \A c \in Chunks :
                /\ c \in dstRight' <=> c \in IF FileOf[c] \in U THEN right
                                             ELSE dstRight
                /\ c \in dstSafe' <=> c \in IF FileOf[c] \in U THEN rightSafe
                                            ELSE dstSafe
                /\ c \in right' <=> c \in right /\ FileOf[c] \notin U
                /\ c \in rightSafe' <=> c \in rightSafe /\ FileOf[c] \notin U
           /\ todo' = todo \ U
  BY DEF Place

(* The files of one rename.                                                *)
LEMMA UnitFiles ==
    ASSUME TypeOK, Commits, phase \in Moving, NEW U \in Units
    PROVE  /\ U \subseteq todo /\ U \subseteq Files
           /\ mode.multi \/ U = Files
           /\ ~mode.multi => todo \ U = {}
  BY DEF Units, Commits, TypeOK, RunTypes

(* The parts of Commits.                                                   *)
LEMMA CommitsNext ==
    ASSUME TypeOK, Counted, Commits, [Next]_vars PROVE Commits'
  <1>f. \A c \in Chunks : FileOf[c] \in Files  BY TransferAssumption
  <1>t. todo \subseteq Files /\ unit \subseteq Files  BY DEF TypeOK, RunTypes
  <1>p. ASSUME NEW U, U \subseteq todo, Place(U), phase \in Moving,
               mode.multi \/ U = Files, phase' \in {"commit", "backup"},
               UNCHANGED mode
        PROVE  Commits'
    <2>1. U \subseteq Files  BY <1>t, <1>p
    <2>2. \A c \in Chunks : FileOf[c] \in todo' => c \in right'
      BY <1>p, <2>1, PlaceStep DEF Commits
    <2>3. \A f \in Files \ todo' : Matches(f)'
      <3> SUFFICES ASSUME NEW f \in Files, f \notin todo' PROVE Matches(f)'
        OBVIOUS
      <3>1. f \in U \/ f \notin todo  BY <1>p, <2>1, PlaceStep
      <3>2. CASE f \in U
        BY <1>p, <2>1, <3>2, PlaceStep DEF Commits, Matches, Of
      <3>3. CASE f \notin U
        BY <1>p, <2>1, <3>1, <3>3, PlaceStep DEF Commits, Matches, Of
      <3> QED BY <3>2, <3>3
    <2>4. ~mode.multi => todo' = {}  BY <1>p, <1>t, <2>1, PlaceStep
    <2> QED BY <1>p, <2>2, <2>3, <2>4 DEF Commits, Moving
  <1>1. CASE Verified
    BY <1>1, <1>f, VerifiedStaged DEF Verified, Commits, Moving, Go, disk
  <1>2. CASE SkipChild
    <2> USE <1>2 DEF SkipChild, Moving, disk, place
    <2>1. phase' = "commit" /\ mode' = mode /\ mode.multi
      OBVIOUS
    <2>2. \A c \in Chunks : FileOf[c] \in todo' => c \in right'  BY DEF Commits
    <2>3. \A f \in Files \ todo' : Matches(f)'  BY DEF Commits, Matches
    <2> QED BY <2>1, <2>2, <2>3 DEF Commits
  <1>3. CASE SwapOut
    <2>1. PICK U \in Units :
             /\ dst' = [f \in Files |-> IF f \in U THEN "none" ELSE dst[f]]
             /\ unit' = U
      BY <1>3 DEF SwapOut
    <2>2. /\ phase = "commit" /\ phase' = "swap" /\ mode.overwrite
          /\ UNCHANGED <<mode, todo, right, dstRight>>
      BY <1>3 DEF SwapOut, Go, disk
    <2>3. U \subseteq todo /\ U \subseteq Files /\ (mode.multi \/ U = Files)
      BY <2>2, UnitFiles DEF Moving
    <2>4. \A f \in Files \ todo : Matches(f)'
      BY <2>1, <2>2, <2>3 DEF Commits, Matches, Moving
    <2> QED BY <2>1, <2>2, <2>3, <2>4 DEF Commits, Moving
  <1>4. CASE MoveIn
    <2>1. PICK U \in Units : Place(U)  BY <1>4 DEF MoveIn
    <2>2. phase = "commit" /\ phase' = "commit" /\ mode' = mode
      BY <1>4 DEF MoveIn
    <2>3. U \subseteq todo /\ (mode.multi \/ U = Files)
      BY <2>2, UnitFiles DEF Moving
    <2> QED BY <1>p, <2>1, <2>2, <2>3 DEF Moving
  <1>5. CASE SwapIn
    <2>1. /\ phase = "swap" /\ phase' = "backup" /\ mode' = mode
          /\ Place(unit)
      BY <1>5 DEF SwapIn, Go
    <2>2. unit \subseteq todo /\ (mode.multi \/ unit = Files)
      BY <2>1 DEF Commits
    <2> QED BY <1>p, <2>1, <2>2 DEF Moving
  <1>6. CASE RemoveBackup
    BY <1>6 DEF RemoveBackup, Go, Commits, Moving, Matches, disk
  <1>7. CASE Aside
    BY <1>7 DEF Aside, LateAppend, vars, Commits, Matches, moving, place, disk
  <1>8. CASE phase' \in {"ack", "clean", "reject", "reply"} /\ Cleans
    <2>1. CASE StartSatisfied
      BY <2>1 DEF StartSatisfied, Go, Commits, Moving, Matches, place
    <2>2. CASE Committed
      BY <2>2 DEF Committed, Go, Commits, Moving, Matches, place
    <2>3. CASE Reject
      BY <2>3 DEF Reject, Go, Commits, Moving
    <2>4. CASE RemoveEntry
      BY <2>4 DEF RemoveEntry, Commits, Moving, Matches, place
    <2>5. CASE RemoveRest /\ phase' = "reply"
      BY <2>5 DEF RemoveRest, Go, Commits, Moving, Matches
    <2> QED BY <1>7, <1>8, <2>1, <2>2, <2>3, <2>4, <2>5 DEF Cleans
  <1>9. CASE phase' \notin Moving \cup {"ack", "clean", "reply"}
    BY <1>9 DEF Commits, Moving
  <1> QED BY <1>1, <1>2, <1>3, <1>4, <1>5, <1>6, <1>7, <1>8, <1>9, PhaseSteps
          DEF Moves, Moving

-----------------------------------------------------------------------------
(* Which steps can change what the other parts are about.                  *)
Framed ==
    /\ mode' = mode
    /\ (stray => stray') /\ (torn => torn') /\ (lost => lost')
    /\ \/ SwapOut \/ MoveIn \/ SwapIn \/ RollBack \/ PowerCut
       \/ UNCHANGED <<dst, dstRight, dstSafe>>
    /\ \/ \E w \in Workers : WriteChunk(w) \/ SyncData(w)
       \/ MoveIn \/ SwapIn \/ RemoveEntry \/ RemoveRest \/ PowerCut
       \/ UNCHANGED <<right, rightSafe>>
    /\ \/ \E w \in Workers : AppendBatch(w)
       \/ StartFresh \/ PersistFold \/ Truncate \/ LateAppend
       \/ ResetFile \/ ResetJournal \/ RemoveEntry \/ RemoveRest
       \/ PowerCut \/ UNCHANGED <<ckpt, jrnl>>
    /\ Abort \/ late' = {} \/ late' = late

LEMMA Frames == [Next]_vars => Framed
  <1> USE DEF disk, place, hist, Framed
  <1>1. Setup \/ Reject \/ RemoveEntry => Framed
    BY DEF Setup, StartSatisfied, StartResume, StartFresh, PersistFold,
           Truncate, Accept, Acknowledge, Reject, RemoveEntry
  <1>2. ASSUME NEW w \in Workers,
               WriteChunk(w) \/ MarkChunk(w) \/ LastChunk(w) \/ LastFlush(w)
        PROVE  Framed
    BY <1>2 DEF WriteChunk, MarkChunk, LastChunk, LastFlush
  <1>3. ASSUME NEW w \in Workers,
               \/ BreakStream(w) \/ TakeBatch(w) \/ SyncData(w)
               \/ AppendBatch(w) \/ LoseBatch(w)
        PROVE  Framed
    <2>1. CASE BreakStream(w) \/ LoseBatch(w)
      BY <2>1 DEF BreakStream, LoseBatch
    <2>2. CASE TakeBatch(w)  BY <2>2 DEF TakeBatch
    <2>3. CASE SyncData(w)  BY <2>3 DEF SyncData
    <2>4. CASE AppendBatch(w)  BY <2>4 DEF AppendBatch
    <2> QED BY <1>3, <2>1, <2>2, <2>3, <2>4
  <1>4. JoinWorkers \/ Verified \/ ResetFile \/ ResetJournal \/ Abort
        \/ LateAppend \/ (\E c \in Chunks : EditSource(c)) => Framed
    BY DEF JoinWorkers, Verified, ResetFile, ResetJournal, Abort, LateAppend,
           EditSource
  <1>5. SkipChild \/ CommitRefused \/ SwapOut \/ MoveIn \/ SwapIn
        \/ RemoveBackup \/ Committed \/ RollBack => Framed
    <2>1. SkipChild \/ CommitRefused \/ Committed => Framed
      BY DEF SkipChild, CommitRefused, Committed
    <2>2. SwapOut \/ RemoveBackup => Framed  BY DEF SwapOut, RemoveBackup
    <2>3. MoveIn \/ SwapIn => Framed  BY DEF MoveIn, SwapIn
    <2>4. RollBack => Framed  BY DEF RollBack
    <2> QED BY <2>1, <2>2, <2>3, <2>4
  <1>6. RemoveRest \/ Reply \/ Kill \/ PowerCut \/ UNCHANGED vars => Framed
    <2>b. /\ RemoveRest => (stray => stray')
          /\ Kill => (torn => torn')
          /\ PowerCut => (torn => torn') /\ lost'
      BY Zenon DEF RemoveRest, Kill, PowerCut
    <2>1. RemoveRest => Framed
      <3>1. RemoveRest => UNCHANGED <<mode, dst, dstRight, dstSafe, late, lost, torn>>
        BY DEF RemoveRest
      <3> QED BY <2>b, <3>1
    <2>4. PowerCut => Framed
      <3>1. PowerCut => mode' = mode /\ stray' = stray /\ late' = {}
        BY DEF PowerCut
      <3> QED BY <2>b, <3>1
    <2>2. Reply \/ Kill => Framed  BY <2>b DEF Reply, Kill
    <2>3. UNCHANGED vars => Framed  BY DEF vars
    <2> QED BY <2>1, <2>2, <2>3, <2>4
  <1> HIDE DEF Framed
  <1> QED BY <1>1, <1>2, <1>3, <1>4, <1>5, <1>6 DEF Next, Stream, Finish

(* A child in place is never swapped out, if the transfer syncs.           *)
LEMMA SwapKeeps ==
    ASSUME TypeOK, PlaceSynced, Strict, SwapOut, mode.multi,
           NEW f \in Files, dst[f] = "ours"
    PROVE  dst'[f] = "ours"
  <1>1. PICK U \in Units :
           /\ \A g \in U : ~Matches(g)
           /\ dst' = [g \in Files |-> IF g \in U THEN "none" ELSE dst[g]]
    BY DEF SwapOut
  <1>2. Matches(f)  BY DEF PlaceSynced, Matches, TypeOK, DiskTypes
  <1> QED BY <1>1, <1>2

(* What a power cut leaves.                                                *)
LEMMA CutKeeps ==
    ASSUME TypeOK, PowerCut
    PROVE  /\ rightSafe \subseteq right' /\ rightSafe' = right'
           /\ right' \subseteq right
           /\ dstSafe \subseteq dstRight' /\ dstSafe' = dstRight'
           /\ dstRight' \subseteq dstRight
           /\ jrnl' \subseteq jrnl /\ late' = {} /\ phase' = "idle"
           /\ UNCHANGED <<mode, ckpt, dst, stray>> /\ lost' = TRUE
  <1>1. PICK a \in SUBSET (right \ rightSafe), b \in SUBSET (jrnl \ jrnlSafe),
             c \in SUBSET (dstRight \ dstSafe) :
           /\ right' = right \ a /\ rightSafe' = right'
           /\ jrnl' = jrnl \ b
           /\ dstRight' = dstRight \ c /\ dstSafe' = dstRight'
    BY DEF PowerCut
  <1>2. rightSafe \subseteq right /\ dstSafe \subseteq dstRight
    BY DEF TypeOK, DiskTypes
  <1>3. /\ late' = {} /\ phase' = "idle" /\ lost' = TRUE
        /\ UNCHANGED <<mode, ckpt, dst, stray>>
    BY DEF PowerCut, Go
  <1> QED BY <1>1, <1>2, <1>3

(* A rename into place, wherever it happens.                               *)
LEMMA MoveStep ==
    ASSUME TypeOK, Commits, MoveIn \/ SwapIn
    PROVE  \E U \in SUBSET Files :
              /\ Place(U) /\ U \subseteq todo /\ phase \in Moving
              /\ mode.multi \/ (U = Files /\ todo' = {})
              /\ \A f \in U : dst[f] = "none"
              /\ phase' \in {"commit", "backup"}
              /\ UNCHANGED <<mode, ckpt, jrnl, late, told, stray, completed>>
  <1>1. CASE MoveIn
    <2>1. PICK U \in Units : ~Taken(U) /\ Place(U)  BY <1>1 DEF MoveIn
    <2>2. phase = "commit" /\ phase' = "commit"  BY <1>1 DEF MoveIn
    <2>3. UNCHANGED <<mode, ckpt, jrnl, late, told, stray, completed>>
      BY <1>1 DEF MoveIn, hist, runtime
    <2>4. /\ U \subseteq todo /\ U \subseteq Files /\ (mode.multi \/ U = Files)
          /\ ~mode.multi => todo \ U = {}
      BY <2>2, UnitFiles DEF Moving
    <2>5. todo' = todo \ U /\ \A f \in U : dst[f] = "none"
      BY <2>1 DEF Place, Taken
    <2> QED BY <2>1, <2>2, <2>3, <2>4, <2>5 DEF Moving
  <1>2. CASE SwapIn
    <2>1. /\ phase = "swap" /\ phase' = "backup" /\ Place(unit)
          /\ UNCHANGED <<mode, ckpt, jrnl, late, told, stray, completed>>
      BY <1>2 DEF SwapIn, Go, hist, runtime
    <2>2. /\ unit \subseteq todo /\ todo \subseteq Files
          /\ mode.multi \/ unit = Files
          /\ \A f \in unit : dst[f] = "none"
      BY <2>1 DEF Commits, TypeOK, RunTypes
    <2>3. todo' = todo \ unit  BY <2>1 DEF Place
    <2> QED BY <2>1, <2>2, <2>3 DEF Moving
  <1> QED BY <1>1, <1>2

(* What is synced stays so, or leaves the staging directory.               *)
LEMMA DurableKept ==
    ASSUME TypeOK, Commits, PlaceSynced, Strict, [Next]_vars,
           NEW c \in Chunks, Durable(c)
    PROVE  \/ Durable(c)'
           \/ /\ c \notin right'
              /\ \/ RemoveEntry \/ RemoveRest
                 \/ /\ MoveIn \/ SwapIn
                    /\ ~mode.multi /\ todo' = {}
                    /\ phase' \in {"commit", "backup"}
  <1>f. FileOf[c] \in Files  BY TransferAssumption
  <1>m. Framed /\ mode' = mode  BY Frames DEF Framed
  <1>1. CASE MoveIn \/ SwapIn
    <2>1. PICK U \in SUBSET Files :
             /\ Place(U) /\ (mode.multi \/ (U = Files /\ todo' = {}))
             /\ phase' \in {"commit", "backup"}
      BY <1>1, MoveStep
    <2>2. /\ dst'[FileOf[c]] = IF FileOf[c] \in U THEN "ours"
                               ELSE dst[FileOf[c]]
          /\ c \in right' <=> c \in right /\ FileOf[c] \notin U
          /\ c \in rightSafe' <=> c \in rightSafe /\ FileOf[c] \notin U
      BY <1>f, <2>1, PlaceStep
    <2> QED BY <1>1, <1>f, <1>m, <2>1, <2>2 DEF Durable, Ours
  <1>2. CASE PowerCut
    BY <1>2, <1>f, CutKeeps DEF Durable, Ours
  <1>3. CASE SwapOut
    <2>1. rightSafe' = rightSafe  BY <1>3 DEF SwapOut, disk
    <2> QED BY <1>3, <1>f, <1>m, <2>1, SwapKeeps DEF Durable, Ours
  <1>4. CASE RollBack
    <2>1. /\ phase = "swap" /\ rightSafe' = rightSafe
          /\ dst' = [f \in Files |-> IF f \in unit THEN bak[f] ELSE dst[f]]
      BY <1>4 DEF RollBack, disk
    <2>2. \A f \in unit : dst[f] = "none"  BY <2>1 DEF Commits
    <2> QED BY <1>f, <1>m, <2>1, <2>2 DEF Durable, Ours
  <1>5. CASE RemoveEntry
    <2>1. dst' = dst  BY <1>5 DEF RemoveEntry, place
    <2>2. c \in right' /\ c \in rightSafe => c \in rightSafe'
      BY <1>5 DEF RemoveEntry
    <2>3. c \in rightSafe => c \in right  BY DEF TypeOK, DiskTypes
    <2>4. CASE c \notin right'  BY <1>5, <2>4
    <2>5. CASE c \in right'  BY <1>m, <2>1, <2>2, <2>5 DEF Durable, Ours
    <2> QED BY <2>4, <2>5
  <1>6. CASE RemoveRest
    <2>1. c \notin right'  BY <1>6 DEF RemoveRest
    <2> QED BY <1>6, <2>1
  <1>7. ASSUME NEW w \in Workers, WriteChunk(w) \/ SyncData(w)
        PROVE  Durable(c)'
    <2>1. rightSafe \subseteq rightSafe' /\ dst' = dst
      BY <1>7 DEF WriteChunk, SyncData, place
    <2> QED BY <1>m, <2>1 DEF Durable, Ours
  <1>8. CASE UNCHANGED <<dst, right, rightSafe>>
    BY <1>8, <1>m DEF Durable, Ours
  <1> QED BY <1>m, <1>1, <1>2, <1>3, <1>4, <1>5, <1>6, <1>7, <1>8 DEF Framed

(* What is staged or in place stays so.                                    *)
LEMMA ThereKept ==
    ASSUME TypeOK, Commits, [Next]_vars, NEW c \in Chunks, There(c),
           ~RemoveEntry, ~RemoveRest, ~PowerCut
    PROVE  There(c)'
  <1>f. FileOf[c] \in Files  BY TransferAssumption
  <1>m. Framed  BY Frames
  <1>1. CASE MoveIn \/ SwapIn
    <2>1. PICK U \in SUBSET Files : Place(U)  BY <1>1, MoveStep
    <2>2. /\ dst'[FileOf[c]] = IF FileOf[c] \in U THEN "ours"
                               ELSE dst[FileOf[c]]
          /\ c \in right' <=> c \in right /\ FileOf[c] \notin U
      BY <1>f, <2>1, PlaceStep
    <2> QED BY <2>2 DEF There, Ours
  <1>2. CASE SwapOut
    <2>1. PICK U \in Units :
             dst' = [f \in Files |-> IF f \in U THEN "none" ELSE dst[f]]
      BY <1>2 DEF SwapOut
    <2>2. phase = "commit" /\ right' = right  BY <1>2 DEF SwapOut, disk
    <2>3. U \subseteq todo  BY <2>2, UnitFiles DEF Moving
    <2>4. FileOf[c] \in todo => c \in right  BY <2>2 DEF Commits, Moving
    <2> QED BY <1>f, <2>1, <2>2, <2>3, <2>4 DEF There, Ours
  <1>3. CASE RollBack
    <2>1. /\ phase = "swap" /\ right' = right
          /\ dst' = [f \in Files |-> IF f \in unit THEN bak[f] ELSE dst[f]]
      BY <1>3 DEF RollBack, disk
    <2>2. \A f \in unit : dst[f] = "none"  BY <2>1 DEF Commits
    <2> QED BY <1>f, <2>1, <2>2 DEF There, Ours
  <1>4. ASSUME NEW w \in Workers, WriteChunk(w) \/ SyncData(w)
        PROVE  There(c)'
    <2>1. right \subseteq right' /\ dst' = dst
      BY <1>4 DEF WriteChunk, SyncData, place
    <2> QED BY <2>1 DEF There, Ours
  <1>5. CASE UNCHANGED <<dst, right>>  BY <1>5 DEF There, Ours
  <1> QED BY <1>m, <1>1, <1>2, <1>3, <1>4, <1>5 DEF Framed

-----------------------------------------------------------------------------
(* The parts about what is on the disk.                                    *)
LEMMA StrictBack ==
    ASSUME [Next]_vars, Strict' PROVE Strict /\ mode' = mode
  BY Frames DEF Framed, Strict

LEMMA PlaceSyncedNext ==
    ASSUME TypeOK, TypeOK', Counted, Commits, LoadedSynced, PlaceSynced,
           [Next]_vars
    PROVE  PlaceSynced'
  <1> SUFFICES ASSUME Strict' PROVE PlaceSynced'  BY DEF PlaceSynced
  <1>s. Strict /\ mode' = mode  BY StrictBack
  <1>f. \A c \in Chunks : FileOf[c] \in Files  BY TransferAssumption
  <1>m. Framed  BY Frames
  <1>1. ASSUME phase' \in Moving, NEW c \in Chunks, FileOf[c] \in todo'
        PROVE  Durable(c)'
    <2>1. CASE Verified
      <3>1. c \in completed \cap right
        BY <2>1, VerifiedStaged DEF Verified
      <3>2. Durable(c)  BY <1>s, <2>1, <3>1 DEF Verified, LoadedSynced
      <3>3. UNCHANGED <<rightSafe, dst>>  BY <2>1 DEF Verified, disk, place
      <3> QED BY <1>s, <3>2, <3>3 DEF Durable, Ours
    <2>2. CASE SkipChild \/ SwapOut \/ MoveIn \/ SwapIn \/ RemoveBackup \/ Aside
      <3>1. phase \in Moving /\ FileOf[c] \in todo
        <4>1. CASE SkipChild \/ SwapOut \/ RemoveBackup \/ Aside
          BY <1>1, <4>1 DEF SkipChild, SwapOut, RemoveBackup, Aside,
             LateAppend, vars, Moving, moving
        <4>2. CASE MoveIn \/ SwapIn
          BY <1>1, <4>2, MoveStep DEF Place
        <4> QED BY <2>2, <4>1, <4>2
      <3>2. Durable(c)  BY <1>s, <3>1 DEF PlaceSynced
      <3>3. ~RemoveEntry /\ ~RemoveRest
        BY <1>1, <3>1 DEF RemoveEntry, RemoveRest, Moving
      <3>4. CASE MoveIn \/ SwapIn
        <4>1. PICK U \in SUBSET Files : Place(U)  BY <3>4, MoveStep
        <4>2. FileOf[c] \notin U  BY <1>1, <4>1 DEF Place
        <4>3. c \in rightSafe <=> c \in rightSafe'
          BY <4>1, <4>2, PlaceStep
        <4>4. dst'[FileOf[c]] = dst[FileOf[c]]
          BY <1>f, <4>1, <4>2, PlaceStep
        <4> QED BY <1>s, <3>2, <4>3, <4>4 DEF Durable, Ours
      <3> QED BY <1>s, <3>2, <3>3, <3>4, DurableKept
    <2> QED BY <1>1, <2>1, <2>2, PhaseSteps DEF Moves, Moving
  <1>2. ASSUME NEW f \in Files, dst'[f] = "ours" PROVE Of(f) \subseteq dstSafe'
    <2>0. \A g \in Files : dst[g] = "ours" => Of(g) \subseteq dstSafe
      BY <1>s DEF PlaceSynced
    <2>1. CASE MoveIn \/ SwapIn
      <3>1. PICK U \in SUBSET Files :
               /\ Place(U) /\ U \subseteq todo /\ phase \in Moving
               /\ \A g \in U : dst[g] = "none"
        BY <2>1, MoveStep
      <3>2. CASE f \notin U
        <4>1. Of(f) \subseteq dstSafe  BY <1>2, <2>0, <3>1, <3>2, PlaceStep
        <4> QED BY <3>1, <3>2, <4>1, PlaceStep DEF Of
      <3>3. CASE f \in U
        <4>1. \A c \in Of(f) : c \in rightSafe
          BY <1>s, <3>1, <3>3 DEF PlaceSynced, Durable, Ours, Of
        <4> QED BY <3>1, <3>3, <4>1, PlaceStep DEF Of
      <3> QED BY <3>2, <3>3
    <2>2. CASE SwapOut
      <3>1. dst[f] = "ours" /\ dstSafe' = dstSafe
        BY <1>2, <2>2 DEF SwapOut
      <3> QED BY <2>0, <3>1
    <2>3. CASE RollBack
      <3>1. /\ phase = "swap" /\ dstSafe' = dstSafe
            /\ dst' = [g \in Files |-> IF g \in unit THEN bak[g] ELSE dst[g]]
        BY <2>3 DEF RollBack
      <3> QED BY <1>2, <1>s, <2>0, <3>1 DEF PlaceSynced
    <2>4. CASE PowerCut  BY <1>2, <2>0, <2>4, CutKeeps
    <2>5. CASE UNCHANGED <<dst, dstSafe>>  BY <1>2, <2>0, <2>5
    <2> QED BY <1>m, <2>1, <2>2, <2>3, <2>4, <2>5 DEF Framed
  <1>3. ASSUME phase' = "swap", NEW f \in unit', bak'[f] = "ours"
        PROVE  Of(f) \subseteq dstSafe'
    <2>1. CASE SwapOut
      <3>1. PICK U \in Units :
               /\ bak' = [g \in Files |-> IF g \in U THEN dst[g] ELSE bak[g]]
               /\ unit' = U
        BY <2>1 DEF SwapOut
      <3>2. f \in Files  BY <1>3 DEF TypeOK, RunTypes
      <3>3. dst[f] = "ours"  BY <1>3, <3>1, <3>2
      <3>4. dstSafe' = dstSafe  BY <2>1 DEF SwapOut
      <3> QED BY <1>s, <3>2, <3>3, <3>4 DEF PlaceSynced
    <2>2. CASE Aside
      BY <1>3, <1>s, <2>2 DEF Aside, LateAppend, vars, moving, place,
         PlaceSynced
    <2>3. SwapOut \/ Aside
      <3>1. phase' = "swap" /\ Moves  BY <1>3, PhaseSteps DEF Moving
      <3> QED BY <3>1 DEF Moves, Verified, SkipChild, MoveIn, SwapIn,
                RemoveBackup, Go
    <2> QED BY <2>1, <2>2, <2>3
  <1> QED BY <1>1, <1>2, <1>3 DEF PlaceSynced

(* An emptied directory stays so until it is removed or the run is killed. *)
LEMMA EmptiedStep ==
    ASSUME TypeOK, Emptied, [Next]_vars, mode' = mode,
           ~RemoveRest, ~Kill, ~PowerCut, ~LateAppend
    PROVE  Emptied' /\ right' \subseteq right
  <1>p. /\ phase \in {"clean", "reject", "commit", "backup"}
        /\ phase \in {"commit", "backup"} => ~mode.multi /\ todo = {}
    BY DEF Emptied, Removing
  <1>u. phase = "commit" => Units = {}  BY <1>p DEF Units
  <1>1. UNCHANGED vars => Emptied' /\ right' \subseteq right
    BY DEF vars, Emptied, disk, moving
  <1>2. RemoveEntry => Emptied' /\ right' \subseteq right
    BY DEF RemoveEntry, Emptied, Removing
  <1>3. Committed \/ RemoveBackup => Emptied' /\ right' \subseteq right
    BY <1>p DEF Committed, RemoveBackup, Emptied, Removing, disk, Go
  <1>4. Loads \/ Receives => UNCHANGED vars
    BY <1>p DEF Loads, StartResume, StartFresh, PersistFold, Truncate, Aside,
       Receives, Accept, EditSource, Work, WriteChunk, MarkChunk, LastChunk,
       LastFlush, BreakStream, TakeBatch, SyncData, AppendBatch, LoseBatch
  <1>5. JoinWorkers \/ ResetFile \/ Aside => UNCHANGED vars
    BY <1>p DEF JoinWorkers, ResetFile, Aside
  <1>6. Moves => RemoveBackup \/ UNCHANGED vars
    BY <1>p, <1>u DEF Moves, Verified, SkipChild, SwapOut, MoveIn, SwapIn,
       Aside
  <1>7. Cleans => Committed \/ RemoveEntry \/ UNCHANGED vars
    BY <1>p DEF Cleans, StartSatisfied, Reject, Aside
  <1>8. Ends => UNCHANGED vars
    BY <1>p, <1>u DEF Ends, Acknowledge, ResetJournal, Abort, CommitRefused,
       RollBack, Reply, Aside
  <1> QED BY <1>1, <1>2, <1>3, <1>4, <1>5, <1>6, <1>7, <1>8, PhaseSteps

LEMMA LateSyncedNext ==
    ASSUME TypeOK, TypeOK', Commits, BatchesSynced, LateSynced, PlaceSynced,
           [Next]_vars
    PROVE  LateSynced'
  <1> SUFFICES ASSUME Strict', NEW c \in late'
               PROVE  Durable(c)' \/ (c \notin right' /\ Emptied')
    BY DEF LateSynced
  <1>s. Strict /\ mode' = mode  BY StrictBack
  <1>c. c \in Chunks  BY DEF TypeOK, RunTypes
  <1>m. Framed  BY Frames
  <1>1. ~RemoveRest
    BY <1>s DEF RemoveRest, Strict
  <1>2. CASE Durable(c)
    BY <1>1, <1>2, <1>c, <1>s, DurableKept DEF Emptied, Removing, RemoveEntry
  <1>3. CASE c \notin late
    <2>1. Abort  BY <1>3, <1>m DEF Framed
    <2>2. PICK w \in Workers : worker[w].at = "append" /\ c \in worker[w].recs
      <3>1. late' = late \cup UNION {worker[w].recs : w \in
                                   {v \in Workers : worker[v].at = "append"}}
        BY <2>1 DEF Abort
      <3> QED BY <1>3, <3>1, SMT
    <2>3. Durable(c)  BY <1>s, <2>1, <2>2 DEF Abort, BatchesSynced
    <2> QED BY <1>2, <2>3
  <1>4. CASE c \in late /\ c \notin right /\ Emptied
    <2>1. ~Kill /\ ~PowerCut /\ ~LateAppend
      BY DEF Kill, PowerCut, LateAppend
    <2>2. Emptied' /\ right' \subseteq right
      BY <1>1, <1>4, <1>s, <2>1, EmptiedStep
    <2> QED BY <1>4, <2>2
  <1> QED BY <1>2, <1>3, <1>4, <1>s DEF LateSynced

(* A chunk is staged only by the worker that writes it.                    *)
LEMMA StagedBy ==
    ASSUME TypeOK, Commits, [Next]_vars, NEW c \in Chunks, c \in right',
           c \notin right
    PROVE  \E w \in Workers : WriteChunk(w) /\ c \notin completed
  <1>m. Framed  BY Frames
  <1>1. ~(MoveIn \/ SwapIn)  BY MoveStep, PlaceStep
  <1>2. ~RemoveEntry /\ ~RemoveRest  BY DEF RemoveEntry, RemoveRest
  <1>3. ~PowerCut  BY CutKeeps
  <1>4. PICK w \in Workers : WriteChunk(w)
    BY <1>m, <1>1, <1>2, <1>3 DEF Framed, SyncData
  <1>5. c \notin completed  BY <1>4, WriteStep
  <1> QED BY <1>4, <1>5

LEMMA ClaimsSyncedNext ==
    ASSUME TypeOK, TypeOK', Claimed, Commits, ClaimsSynced, LoadedSynced,
           BatchesSynced, LateSynced, PlaceSynced, [Next]_vars
    PROVE  ClaimsSynced'
  <1> SUFFICES ASSUME Strict', NEW c \in right', c \in ckpt'.done \cup jrnl'
               PROVE  Durable(c)'
    BY DEF ClaimsSynced
  <1>s. Strict /\ mode' = mode  BY StrictBack
  <1>c. c \in Chunks  BY DEF TypeOK, DiskTypes
  <1>m. Framed  BY Frames
  <1>1. ASSUME Durable(c) PROVE Durable(c)'
    BY <1>1, <1>c, <1>s, DurableKept
  <1>2. ASSUME c \notin right PROVE Durable(c)'
    <2>1. PICK w \in Workers : WriteChunk(w) /\ c \notin completed
      BY <1>2, <1>c, StagedBy
    <2>2. phase = "recv" /\ UNCHANGED <<ckpt, jrnl>>  BY <2>1 DEF WriteChunk
    <2>3. c \in jrnl \ completed  BY <2>1, <2>2 DEF Claimed, Loaded
    <2> QED BY <1>1, <1>s, <2>2, <2>3 DEF LoadedSynced
  <1>3. ASSUME c \in right, c \in ckpt.done \cup jrnl PROVE Durable(c)'
    BY <1>1, <1>3, <1>s DEF ClaimsSynced
  <1>4. ASSUME c \in right, c \notin ckpt.done \cup jrnl PROVE Durable(c)'
    <2>1. CASE PersistFold \/ ResetFile
      <3>1. phase \in {"fold", "verify"} /\ c \in completed
        BY <1>4, <2>1 DEF PersistFold, ResetFile
      <3> QED BY <1>1, <1>4, <1>s, <3>1 DEF LoadedSynced
    <2>2. ASSUME NEW w \in Workers, AppendBatch(w) PROVE Durable(c)'
      <3>1. phase = "recv" /\ worker[w].at = "append" /\ c \in worker[w].recs
        BY <1>4, <2>2 DEF AppendBatch
      <3> QED BY <1>1, <1>s, <3>1 DEF BatchesSynced
    <2>3. CASE LateAppend
      <3>1. c \in late  BY <1>4, <2>3 DEF LateAppend
      <3> QED BY <1>1, <1>4, <1>s, <3>1 DEF LateSynced
    <2>4. CASE \/ StartFresh \/ Truncate \/ ResetJournal \/ RemoveEntry
               \/ RemoveRest \/ UNCHANGED <<ckpt, jrnl>>
      BY <1>4, <2>4 DEF StartFresh, Truncate, ResetJournal, RemoveEntry,
         RemoveRest
    <2>5. CASE PowerCut  BY <1>4, <2>5, CutKeeps
    <2> QED BY <1>m, <2>1, <2>2, <2>3, <2>4, <2>5 DEF Framed
  <1> QED BY <1>2, <1>3, <1>4

(* Nothing that is synced is lost while chunks come in.                    *)
LEMMA DurableReceiving ==
    ASSUME TypeOK, Commits, PlaceSynced, Strict, [Next]_vars,
           phase' = "recv", NEW c \in Chunks, Durable(c)
    PROVE  Durable(c)'
  <1>1. ~RemoveEntry /\ ~RemoveRest  BY DEF RemoveEntry, RemoveRest, Go
  <1> QED BY <1>1, DurableKept

LEMMA BatchesSyncedNext ==
    ASSUME TypeOK, TypeOK', Fresh, Batches, Commits, BatchesSynced,
           PlaceSynced, [Next]_vars
    PROVE  BatchesSynced'
  <1> SUFFICES ASSUME Strict', phase' = "recv" PROVE BatchesSynced'
    BY DEF BatchesSynced
  <1>s. Strict /\ mode' = mode /\ mode.fsync  BY StrictBack DEF Strict
  <1>r. Receives  BY PhaseSteps DEF Moving
  <1>d. \A c \in Chunks : Durable(c) => Durable(c)'
    BY <1>s, DurableReceiving
  <1>h. /\ worker \in WorkerType
        /\ \A w \in Workers : worker[w].recs \subseteq Chunks
    BY Holdings DEF TypeOK
  <1> DEFINE Batch(w) ==
          /\ worker[w].at = "sync" =>
                \A c \in worker[w].recs : FileOf[c] \in worker[w].paths
          /\ worker[w].at = "append" =>
                \A c \in worker[w].recs : Durable(c)
  <1>1. CASE Accept
    <2>1. pend' = {}  BY <1>1 DEF Accept, Fresh, runtime
    <2>2. \A w \in Workers : worker'[w].at \notin {"sync", "append"}
      BY <1>1 DEF Accept, Off
    <2> QED BY <2>1, <2>2 DEF BatchesSynced
  <1>2. CASE Aside \/ \E c \in Chunks : EditSource(c)
    <2>1. UNCHANGED <<pend, dirty, worker>> /\ phase = "recv"
      BY <1>2 DEF Aside, LateAppend, EditSource, vars, runtime
    <2> QED BY <1>d, <1>h, <1>s, <2>1 DEF BatchesSynced
  <1>3. ASSUME NEW w \in Workers, Work(w) PROVE BatchesSynced'
    <2>p. phase = "recv"
      BY <1>3 DEF Work, WriteChunk, MarkChunk, LastChunk, LastFlush,
         BreakStream, TakeBatch, SyncData, AppendBatch, LoseBatch
    <2>b. (\A c \in pend : FileOf[c] \in dirty) /\ \A v \in Workers : Batch(v)
      BY <1>s, <2>p DEF BatchesSynced
    <2>o. ASSUME NEW v \in Workers, worker'[v] = worker[v] PROVE Batch(v)'
      BY <1>d, <1>h, <2>b, <2>o
    <2>1. \A c \in pend' : FileOf[c] \in dirty'
      <3>1. CASE MarkChunk(w)
        <4>1. PICK c \in worker[w].hand :
                 /\ pend' \in {pend, pend \cup {c}}
                 /\ dirty' = dirty \cup {FileOf[c]}
          BY <1>s, <3>1, MarkStep
        <4> QED BY <2>b, <4>1
      <3>2. CASE TakeBatch(w)  BY <3>2 DEF TakeBatch
      <3>3. CASE UNCHANGED <<pend, dirty>>  BY <2>b, <3>3
      <3> QED BY <1>3, <3>1, <3>2, <3>3 DEF Work, WriteChunk, LastChunk,
              LastFlush, BreakStream, SyncData, AppendBatch, LoseBatch, runtime
    <2>2. Batch(w)'
      <3>1. CASE WriteChunk(w)  BY <2>o, <3>1, WriteStep DEF Becomes
      <3>2. CASE MarkChunk(w)  BY <3>2, MarkStep DEF Becomes
      <3>3. CASE LastChunk(w) \/ LastFlush(w) \/ BreakStream(w)
        BY <3>3, FlushSteps DEF Becomes
      <3>4. CASE TakeBatch(w)
        <4>1. worker[w].next \notin {"sync", "append"}  BY <1>h, Holdings
        <4>2. /\ worker'[w].at \in {worker[w].next, "sync"}
              /\ worker'[w].recs = pend /\ worker'[w].paths = dirty
          BY <1>s, <3>4, TakeStep DEF Becomes
        <4> QED BY <2>b, <4>1, <4>2
      <3>5. CASE SyncData(w)
        <4>1. /\ worker'[w].at = "append" /\ worker'[w].recs = worker[w].recs
              /\ worker[w].at = "sync"
              /\ rightSafe' = rightSafe \cup
                    {c \in right : FileOf[c] \in worker[w].paths}
          BY <3>5, FlushSteps DEF Becomes, SyncData
        <4>2. \A c \in worker[w].recs : c \in right /\ FileOf[c] \in worker[w].paths
          BY <2>b, <2>p, <4>1 DEF Batches
        <4> QED BY <4>1, <4>2 DEF Durable
      <3>6. CASE AppendBatch(w) \/ LoseBatch(w)
        <4>1. worker'[w].recs = {}  BY <3>6, FlushSteps DEF Becomes
        <4> QED BY <4>1
      <3> QED BY <1>3, <3>1, <3>2, <3>3, <3>4, <3>5, <3>6 DEF Work
    <2>3. ASSUME NEW v \in Workers, v # w PROVE Batch(v)'
      <3>1. Others(w) \/ worker' = worker
        BY <1>3, WriteStep, MarkStep, TakeStep, FlushSteps DEF Work, Becomes
      <3>2. worker'[v] = worker[v]  BY <2>3, <3>1 DEF Others
      <3> QED BY <2>o, <3>2
    <2> QED BY <2>1, <2>2, <2>3 DEF BatchesSynced
  <1> QED BY <1>1, <1>2, <1>3, <1>r DEF Receives

(* What is owed stays owed until it is synced, or the transfer fails.      *)
LEMMA OwedWork ==
    ASSUME TypeOK, Strict, NEW w \in Workers, Work(w),
           NEW c \in completed' \cap right',
           c \in completed \cap right => Durable(c)' \/ Owed(c) \/ Doomed
    PROVE  Durable(c)' \/ Owed(c)' \/ Doomed'
  <1>h. worker[w].next \in {"recv", "last", "done", "failed"}
    BY Holdings DEF TypeOK
  <1>o. ASSUME Others(w), dirty \subseteq dirty',
               worker[w].at \notin {"flush", "sync", "append", "failed"}
        PROVE  (Owed(c) => Owed(c)') /\ (Doomed => Doomed')
    BY <1>o DEF Owed, Doomed, Others
  <1>1. CASE WriteChunk(w)
    <2>1. UNCHANGED <<completed, dirty>> /\ worker[w].at = "recv"
      BY <1>1 DEF WriteChunk, runtime
    <2>2. c \in completed \cap right /\ (Others(w) \/ worker' = worker)
      BY <1>1, <2>1, WriteStep DEF Becomes
    <2> QED BY <1>o, <2>1, <2>2 DEF Owed, Doomed
  <1>2. CASE MarkChunk(w)
    <2>1. PICK d \in worker[w].hand :
             /\ completed' = completed \cup {d} /\ Others(w)
             /\ dirty' = dirty \cup {FileOf[d]}
      BY <1>2, MarkStep DEF Becomes, Strict
    <2>2. worker[w].at = "mark" /\ right' = right
      BY <1>2 DEF MarkChunk, disk
    <2>3. CASE c = d  BY <2>1, <2>3 DEF Owed
    <2>4. CASE c # d  BY <1>o, <2>1, <2>2, <2>4
    <2> QED BY <2>3, <2>4
  <1>3. CASE LastChunk(w) \/ LastFlush(w) \/ BreakStream(w)
    <2>1. /\ UNCHANGED <<completed, right, dirty>>
          /\ worker[w].at \in {"recv", "last"}
      BY <1>3 DEF LastChunk, LastFlush, BreakStream, runtime, disk
    <2>2. Others(w)  BY <1>3, FlushSteps DEF Becomes
    <2> QED BY <1>o, <2>1, <2>2
  <1>4. CASE TakeBatch(w)
    <2>1. UNCHANGED <<completed, right>> /\ worker[w].at = "flush"
      BY <1>4 DEF TakeBatch, disk
    <2>2. /\ Others(w) /\ worker'[w].paths = dirty
          /\ worker'[w].next = worker[w].next
          /\ \/ worker'[w].at = worker[w].next /\ dirty = {}
             \/ worker'[w].at = "sync"
      BY <1>4, TakeStep DEF Becomes, Strict
    <2>3. Owed(c) => Owed(c)'  BY <2>1, <2>2 DEF Owed, Others
    <2>4. Doomed => Doomed'  BY <2>1, <2>2 DEF Doomed, Others
    <2> QED BY <2>1, <2>3, <2>4
  <1>5. CASE SyncData(w)
    <2>1. /\ UNCHANGED <<completed, right, dirty>> /\ worker[w].at = "sync"
          /\ rightSafe' = rightSafe \cup
                {d \in right : FileOf[d] \in worker[w].paths}
      BY <1>5 DEF SyncData, runtime
    <2>2. /\ Others(w) /\ worker'[w].next = worker[w].next
          /\ worker'[w].at = "append"
      BY <1>5, FlushSteps DEF Becomes
    <2>3. Doomed => Doomed'  BY <2>1, <2>2 DEF Doomed, Others
    <2>4. Owed(c) => Owed(c)' \/ Durable(c)'
      BY <2>1, <2>2 DEF Owed, Others, Durable
    <2> QED BY <2>1, <2>3, <2>4
  <1>6. CASE AppendBatch(w)
    <2>1. UNCHANGED <<completed, right, dirty>> /\ worker[w].at = "append"
      BY <1>6 DEF AppendBatch, runtime
    <2>2. Others(w) /\ worker'[w].at = worker[w].next
      BY <1>6, FlushSteps DEF Becomes
    <2>3. Doomed => Doomed'  BY <2>1, <2>2 DEF Doomed, Others
    <2>4. Owed(c) => Owed(c)'  BY <2>1, <2>2 DEF Owed, Others
    <2> QED BY <2>1, <2>3, <2>4
  <1>7. CASE LoseBatch(w)
    <2>1. worker'[w].at \in {"flush", "failed"} /\ worker'[w].next = "failed"
      BY <1>7, FlushSteps DEF Becomes
    <2> QED BY <2>1 DEF Doomed
  <1> QED BY <1>1, <1>2, <1>3, <1>4, <1>5, <1>6, <1>7 DEF Work

LEMMA LoadedSyncedNext ==
    ASSUME TypeOK, TypeOK', Batches, Commits, ClaimsSynced, LoadedSynced,
           LateSynced, PlaceSynced, [Next]_vars
    PROVE  LoadedSynced'
  <1> SUFFICES ASSUME Strict' PROVE LoadedSynced'  BY DEF LoadedSynced
  <1>s. Strict /\ mode' = mode  BY StrictBack
  <1>t. /\ completed' \subseteq Chunks /\ jrnl' \subseteq Chunks
        /\ right' \subseteq Chunks
    BY DEF TypeOK, DiskTypes, RunTypes
  <1>k. ASSUME NEW c \in right', Durable(c) PROVE Durable(c)'
    BY <1>k, <1>s, <1>t, DurableKept
  <1>1. ASSUME phase' \in {"fold", "trunc", "prep", "verify"},
               NEW c \in completed' \cap right'
        PROVE  Durable(c)'
    <2>1. c \in right
      <3>1. \A w \in Workers : ~WriteChunk(w)  BY <1>1 DEF WriteChunk
      <3> QED BY <1>1, <1>t, <3>1, StagedBy
    <2>2. CASE StartResume
      BY <1>k, <1>s, <2>1, <2>2 DEF StartResume, ClaimsSynced
    <2>3. CASE StartFresh  BY <2>3 DEF StartFresh
    <2>4. CASE PersistFold \/ Truncate \/ Aside
      <3>1. /\ phase \in {"fold", "trunc", "prep", "verify"}
            /\ completed' = completed
        BY <1>1, <2>4 DEF PersistFold, Truncate, Aside, LateAppend, vars,
           runtime
      <3> QED BY <1>k, <1>s, <2>1, <3>1 DEF LoadedSynced
    <2>5. CASE JoinWorkers
      <3>1. /\ phase = "recv" /\ completed' = completed
            /\ \A w \in Workers : worker[w].at \in {"done", "off"}
        BY <2>5 DEF JoinWorkers, runtime
      <3>2. dirty = {}  BY <3>1 DEF Batches
      <3>3. ~Owed(c) /\ ~Doomed  BY <3>1, <3>2 DEF Owed, Doomed
      <3> QED BY <1>k, <1>s, <2>1, <3>1, <3>3 DEF LoadedSynced
    <2> QED BY <1>1, <2>2, <2>3, <2>4, <2>5, PhaseSteps DEF Loads, Moving
  <1>2. ASSUME phase' = "recv", NEW c \in completed' \cap right'
        PROVE  Durable(c)' \/ Owed(c)' \/ Doomed'
    <2>1. CASE Accept
      BY <1>k, <1>s, <2>1 DEF Accept, LoadedSynced, runtime, disk
    <2>2. CASE Aside \/ \E d \in Chunks : EditSource(d)
      <3>1. /\ UNCHANGED <<completed, right, dirty, worker>>
            /\ phase = "recv"
        BY <1>2, <2>2 DEF Aside, LateAppend, EditSource, vars, runtime, disk
      <3>2. Durable(c) \/ Owed(c) \/ Doomed
        BY <1>s, <3>1 DEF LoadedSynced
      <3> QED BY <1>k, <3>1, <3>2 DEF Owed, Doomed
    <2>3. ASSUME NEW w \in Workers, Work(w)
          PROVE  Durable(c)' \/ Owed(c)' \/ Doomed'
      <3>1. phase = "recv"
        BY <2>3 DEF Work, WriteChunk, MarkChunk, LastChunk, LastFlush,
           BreakStream, TakeBatch, SyncData, AppendBatch, LoseBatch
      <3>2. c \in completed \cap right => Durable(c)' \/ Owed(c) \/ Doomed
        BY <1>k, <1>s, <3>1 DEF LoadedSynced
      <3> QED BY <1>s, <2>3, <3>2, OwedWork
    <2> QED BY <1>2, <2>1, <2>2, <2>3, PhaseSteps DEF Receives, Moving
  <1>3. ASSUME phase' \in {"prep", "recv"}, NEW c \in jrnl' \ completed'
        PROVE  Durable(c)'
    <2>k. Durable(c) => Durable(c)'
      <3>1. ~RemoveEntry /\ ~RemoveRest /\ ~MoveIn /\ ~SwapIn
        BY <1>3 DEF RemoveEntry, RemoveRest, MoveIn, SwapIn, Go
      <3> QED BY <1>s, <1>t, <3>1, DurableKept
    <2>1. CASE StartResume \/ Truncate
      BY <2>1 DEF StartResume, Truncate, disk
    <2>2. CASE LateAppend
      <3>1. phase \in {"prep", "recv"} /\ completed' = completed
        BY <1>3, <2>2 DEF LateAppend, runtime
      <3>2. c \in jrnl \/ c \in late  BY <2>2 DEF LateAppend
      <3>3. ~Emptied  BY <3>1 DEF Emptied, Removing
      <3> QED BY <1>s, <2>k, <3>1, <3>2, <3>3 DEF LoadedSynced, LateSynced
    <2>3. CASE UNCHANGED vars \/ Accept \/ \E d \in Chunks : EditSource(d)
      <3>1. /\ phase \in {"prep", "recv"} /\ UNCHANGED <<completed, jrnl>>
        BY <1>3, <2>3 DEF Accept, EditSource, vars, runtime, disk
      <3> QED BY <1>s, <2>k, <3>1 DEF LoadedSynced
    <2>4. ASSUME NEW w \in Workers, Work(w) PROVE Durable(c)'
      <3>1. phase = "recv" /\ completed \subseteq completed'
        BY <2>4 DEF Work, WriteChunk, MarkChunk, LastChunk, LastFlush,
           BreakStream, TakeBatch, SyncData, AppendBatch, LoseBatch, runtime
      <3>2. c \in jrnl \/ c \in worker[w].recs
        BY <2>4 DEF Work, WriteChunk, MarkChunk, LastChunk, LastFlush,
           BreakStream, TakeBatch, SyncData, AppendBatch, LoseBatch, disk
      <3>3. worker[w].recs \subseteq completed  BY <3>1 DEF Batches
      <3> QED BY <1>s, <2>k, <3>1, <3>2, <3>3 DEF LoadedSynced
    <2>5. ~StartFresh /\ ~PersistFold
      BY <1>3 DEF StartFresh, PersistFold, Go
    <2> QED BY <1>3, <2>1, <2>2, <2>3, <2>4, <2>5, PhaseSteps
            DEF Loads, Receives, Aside, Moving
  <1> QED BY <1>1, <1>2, <1>3 DEF LoadedSynced

-----------------------------------------------------------------------------
(* The part about what is staged.                                          *)
LEMMA PresentNext ==
    ASSUME TypeOK, TypeOK', Hands, Batches, Claimed, Commits, Present,
           ClaimsSynced, [Next]_vars
    PROVE  Present'
  <1> SUFFICES ASSUME Sound' PROVE Present'  BY DEF Present
  <1>m. Framed  BY Frames
  <1>s. Sound /\ mode' = mode  BY <1>m DEF Framed, Sound
  <1>t. /\ completed \subseteq Chunks /\ late \subseteq Chunks
        /\ ckpt.done \subseteq Chunks /\ jrnl \subseteq Chunks
        /\ \A w \in Workers : worker[w].recs \subseteq Chunks
    BY Holdings DEF TypeOK, DiskTypes, RunTypes
  <1>1. ASSUME phase' \in Removing PROVE Present'
    BY <1>1 DEF Present, Removing, Loaded
  <1>2. ASSUME phase \in Removing, phase' \notin Removing PROVE Present'
    <2>1. ~Kill /\ ~PowerCut
      BY <1>2, Zenon DEF Kill, PowerCut, Sound, Removing
    <2>2. RemoveRest
      <3>1. UNCHANGED vars \/ LateAppend \/ RemoveEntry => phase' = phase
        BY DEF vars, LateAppend, RemoveEntry
      <3>2. phase \in {"clean", "reject"}  BY <1>2 DEF Removing
      <3>3. ~Loads /\ ~Receives /\ ~JoinWorkers /\ ~ResetFile
        BY <1>2, <3>1, <3>2 DEF Loads, StartResume, StartFresh, PersistFold,
           Truncate, Aside, Receives, Accept, EditSource, Work, WriteChunk,
           MarkChunk, LastChunk, LastFlush, BreakStream, TakeBatch, SyncData,
           AppendBatch, LoseBatch, JoinWorkers, ResetFile
      <3>4. ~Moves /\ ~Aside
        BY <1>2, <3>1, <3>2 DEF Moves, Verified, SkipChild, SwapOut, MoveIn,
           SwapIn, RemoveBackup, Aside
      <3>5. Cleans \/ Ends => RemoveRest
        BY <1>2, <2>1, <3>1, <3>2 DEF Cleans, Ends, StartSatisfied, Committed,
           Reject, Acknowledge, ResetJournal, Abort, CommitRefused, RollBack,
           Reply, Aside
      <3> QED BY <3>3, <3>4, <3>5, PhaseSteps
    <2>3. late = {}  BY <2>2, Zenon DEF RemoveRest, Sound
    <2>4. /\ late' = {} /\ ckpt'.on = FALSE /\ jrnl' = {}
          /\ phase' \in {"reply", "idle"}
      BY <2>2, <2>3 DEF RemoveRest, Go
    <2> QED BY <2>4 DEF Present, Loaded
  <1>3. ASSUME phase \notin Removing, PowerCut PROVE Present'
    <2>1. /\ late' = {} /\ phase' = "idle" /\ UNCHANGED <<ckpt, dst>>
          /\ jrnl' \subseteq jrnl /\ rightSafe \subseteq right'
      BY <1>3, CutKeeps
    <2>2. Strict  BY <1>3, <1>s, CutKeeps DEF Sound, Strict
    <2>3. ASSUME NEW c \in ckpt.done \cup jrnl, There(c) PROVE There(c)'
      <3>1. Ours(c) \/ c \in rightSafe
        BY <2>2, <2>3 DEF There, ClaimsSynced, Durable
      <3> QED BY <2>1, <3>1 DEF There, Ours
    <2> QED BY <1>3, <1>s, <2>1, <2>3 DEF Present, Loaded
  <1>4. ASSUME phase \notin Removing, phase' \notin Removing, ~PowerCut
        PROVE  Present'
    <2>k. ASSUME NEW c \in Chunks, There(c) PROVE There(c)'
      <3>1. ~RemoveEntry /\ ~RemoveRest
        BY <1>4 DEF RemoveEntry, RemoveRest, Removing
      <3> QED BY <1>4, <2>k, <3>1, ThereKept
    <2>p. /\ \A c \in late : There(c)
          /\ ckpt.on => \A c \in ckpt.done \cup jrnl : There(c)
          /\ ~ckpt.on => jrnl = {}
          /\ phase \in Loaded => \A c \in completed : There(c)
          /\ phase \in Loaded => ckpt.on
      BY <1>4, <1>s DEF Present, Claimed
    <2>b. phase = "recv" => \A w \in Workers : worker[w].recs \subseteq completed
      BY DEF Batches
    <2>1. \A c \in late' : There(c)'
      <3>1. CASE Abort
        <4> SUFFICES ASSUME NEW c \in late' PROVE There(c)'  OBVIOUS
        <4>1. late' = late \cup UNION {worker[w].recs : w \in
                                     {v \in Workers : worker[v].at = "append"}}
          BY <3>1 DEF Abort
        <4>2. c \in late \/ \E w \in Workers : c \in worker[w].recs
          BY <4>1, SMT
        <4>3. phase = "recv"  BY <3>1 DEF Abort
        <4> QED BY <1>t, <2>b, <2>k, <2>p, <4>2, <4>3 DEF Loaded
      <3>2. CASE late' = {} \/ late' = late  BY <1>t, <2>k, <2>p, <3>2
      <3> QED BY <1>m, <3>1, <3>2 DEF Framed
    <2>2. /\ ckpt'.on => \A c \in ckpt'.done \cup jrnl' : There(c)'
          /\ ~ckpt'.on => jrnl' = {}
      <3>1. CASE StartFresh
        <4>1. jrnl = {}  BY <2>p, <3>1 DEF StartFresh
        <4> QED BY <3>1, <4>1 DEF StartFresh
      <3>2. CASE PersistFold \/ ResetFile
        <4>1. /\ phase \in Loaded /\ jrnl' = jrnl
              /\ ckpt'.on = TRUE /\ ckpt'.done \subseteq completed
          BY <3>2 DEF PersistFold, ResetFile, Loaded
        <4> QED BY <1>t, <2>k, <2>p, <4>1
      <3>3. CASE Truncate \/ ResetJournal
        <4>1. jrnl' = {} /\ ckpt' = ckpt
          BY <3>3 DEF Truncate, ResetJournal
        <4> QED BY <1>t, <2>k, <2>p, <4>1
      <3>4. CASE LateAppend
        <4>1. /\ ckpt' = ckpt
              /\ (ckpt.on /\ jrnl' = jrnl \cup late) \/ jrnl' = jrnl
          BY <3>4 DEF LateAppend
        <4> QED BY <1>t, <2>k, <2>p, <4>1
      <3>5. ASSUME NEW w \in Workers, AppendBatch(w)
            PROVE  /\ ckpt'.on => \A c \in ckpt'.done \cup jrnl' : There(c)'
                   /\ ~ckpt'.on => jrnl' = {}
        <4>1. /\ phase = "recv" /\ ckpt' = ckpt
              /\ jrnl' = jrnl \cup worker[w].recs
          BY <3>5 DEF AppendBatch
        <4> QED BY <1>t, <2>b, <2>k, <2>p, <4>1 DEF Loaded
      <3>6. CASE UNCHANGED <<ckpt, jrnl>>  BY <1>t, <2>k, <2>p, <3>6
      <3>7. ~RemoveEntry /\ ~RemoveRest
        BY <1>4 DEF RemoveEntry, RemoveRest, Removing
      <3> QED BY <1>4, <1>m, <3>1, <3>2, <3>3, <3>4, <3>5, <3>6, <3>7
              DEF Framed
    <2>3. ASSUME phase' \in Loaded, NEW c \in completed' PROVE There(c)'
      <3>1. CASE StartResume
        BY <1>t, <2>k, <2>p, <3>1 DEF StartResume
      <3>2. CASE StartFresh  BY <3>2, <2>3 DEF StartFresh
      <3>3. ASSUME NEW w \in Workers, MarkChunk(w) PROVE There(c)'
        <4>1. c \in completed \/ c \in worker[w].hand
          BY <3>3, MarkStep
        <4>2. phase = "recv" /\ right' = right  BY <3>3 DEF MarkChunk, disk
        <4>3. c \in worker[w].hand => c \in right  BY <4>2 DEF Hands
        <4> QED BY <1>t, <2>k, <2>p, <4>1, <4>2, <4>3 DEF Loaded, There
      <3>4. CASE phase \in Loaded /\ completed' \subseteq completed
        BY <1>t, <2>3, <2>k, <2>p, <3>4
      <3>5. \/ StartResume \/ StartFresh \/ (\E w \in Workers : MarkChunk(w))
            \/ (phase \in Loaded /\ completed' \subseteq completed)
        <4>1. PersistFold \/ Truncate \/ Accept \/ JoinWorkers \/ ResetFile
              \/ (\E d \in Chunks : EditSource(d))
              => phase \in Loaded /\ completed' \subseteq completed
          BY DEF PersistFold, Truncate, Accept, JoinWorkers, ResetFile,
             EditSource, Loaded, runtime
        <4>2. Aside => phase' = phase /\ completed' = completed
          BY DEF Aside, LateAppend, vars, runtime
        <4>3. ASSUME NEW w \in Workers, Work(w), ~MarkChunk(w)
              PROVE  phase \in Loaded /\ completed' \subseteq completed
          BY <4>3 DEF Work, WriteChunk, LastChunk, LastFlush, BreakStream,
             TakeBatch, SyncData, AppendBatch, LoseBatch, Loaded, runtime
        <4>4. \/ StartResume \/ StartFresh \/ PersistFold \/ Truncate
              \/ Accept \/ JoinWorkers \/ ResetFile \/ Aside
              \/ (\E d \in Chunks : EditSource(d))
              \/ \E w \in Workers : Work(w)
          BY <2>3, PhaseSteps DEF Loads, Receives, Loaded, Moving
        <4> QED BY <2>3, <4>1, <4>2, <4>3, <4>4
      <3> QED BY <3>1, <3>2, <3>3, <3>4, <3>5
    <2> QED BY <2>1, <2>2, <2>3 DEF Present
  <1> QED BY <1>1, <1>2, <1>3, <1>4

-----------------------------------------------------------------------------
LEMMA InvInit == Init => TransferInv
  <1> SUFFICES ASSUME Init PROVE TransferInv  OBVIOUS
  <1>1. TypeOK  BY TypesInit
  <1> USE DEF Init
  <1>2. RunInv
    BY DEF RunInv, Fresh, Counted, Hands, Batches, Claimed, Commits, Loaded,
           Moving
  <1>3. Present  BY DEF Present, Loaded
  <1>4. \A f \in Files : dst[f] # "ours"  OBVIOUS
  <1>5. SyncInv
    BY <1>4 DEF SyncInv, ClaimsSynced, LoadedSynced, BatchesSynced,
       LateSynced, PlaceSynced, Moving
  <1> QED BY <1>1, <1>2, <1>3, <1>5 DEF TransferInv

LEMMA InvNext == TransferInv /\ [Next]_vars => TransferInv'
  <1> SUFFICES ASSUME TransferInv, [Next]_vars PROVE TransferInv'  OBVIOUS
  <1>1. TypeOK /\ RunInv /\ Present /\ SyncInv  BY DEF TransferInv
  <1>2. TypeOK'  BY <1>1, TypesNext
  <1>3. RunInv'
    BY <1>1, <1>2, FreshNext, CountedNext, HandsNext, BatchesNext,
       ClaimedNext, CommitsNext DEF RunInv
  <1>4. Present'  BY <1>1, <1>2, PresentNext DEF RunInv, SyncInv
  <1>5. SyncInv'
    BY <1>1, <1>2, ClaimsSyncedNext, LoadedSyncedNext, BatchesSyncedNext,
       LateSyncedNext, PlaceSyncedNext DEF RunInv, SyncInv
  <1> QED BY <1>2, <1>3, <1>4, <1>5 DEF TransferInv

THEOREM InvHolds == Spec => []TransferInv
  BY InvInit, InvNext, PTL DEF Spec

(* What a restart counts as complete is staged with the right bytes: on    *)
(* the disk if the transfer syncs, with the kernel if no power cut         *)
(* happened (flush_pending, the fold at the start, reset_file).            *)
THEOREM ClaimsAreStaged == Spec => []ClaimsHold
  <1>1. TransferInv => ClaimsHold
    <2> SUFFICES ASSUME TransferInv, ckpt.on, phase \notin Removing, ~torn,
                        ~stray, NEW c \in ckpt.done \cup jrnl, ~Ours(c)
                 PROVE  /\ mode.fsync => c \in rightSafe
                        /\ ~lost => c \in right
      BY DEF ClaimsHold, Removing, Ours
    <2>1. Present /\ ClaimsSynced  BY DEF TransferInv, SyncInv
    <2>2. mode.fsync \/ ~lost => c \in right
      BY <2>1 DEF Present, Sound, There
    <2>3. mode.fsync => c \in rightSafe
      BY <2>1, <2>2 DEF ClaimsSynced, Strict, Durable
    <2> QED BY <2>2, <2>3
  <1> QED BY <1>1, InvHolds, PTL

-----------------------------------------------------------------------------
(* The transfer implements Delivery.                                       *)

LEMMA HasType ==
    ASSUME TypeOK
    PROVE  /\ Has \in [Files -> {"none", "old", "new", "spoilt"}]
           /\ \A f \in Files : Has[f] =
                IF dst[f] = "ours"
                THEN IF Of(f) \subseteq dstRight THEN "new" ELSE "spoilt"
                ELSE dst[f]
  BY DEF Has, TypeOK, DiskTypes, Kept

(* The steps that the destination, the sender and the promise can tell.    *)
LEMMA Seen ==
    ASSUME [Next]_vars
    PROVE  /\ Reply \/ Acknowledge \/ told' = told
           /\ RemoveRest \/ stray' = stray
  <1> USE DEF hist
  <1>1. Setup \/ Reject \/ RemoveEntry \/ LateAppend =>
          (Acknowledge \/ told' = told) /\ stray' = stray
    BY DEF Setup, StartSatisfied, StartResume, StartFresh, PersistFold,
           Truncate, Accept, Acknowledge, Reject, RemoveEntry, LateAppend
  <1>2. ASSUME NEW w \in Workers, Work(w) PROVE UNCHANGED <<told, stray>>
    BY <1>2 DEF Work, WriteChunk, MarkChunk, LastChunk, LastFlush,
       BreakStream, TakeBatch, SyncData, AppendBatch, LoseBatch
  <1>3. JoinWorkers \/ Verified \/ ResetFile \/ ResetJournal \/ Abort
        \/ (\E c \in Chunks : EditSource(c)) \/ Kill \/ PowerCut
        => UNCHANGED <<told, stray>>
    BY DEF JoinWorkers, Verified, ResetFile, ResetJournal, Abort, EditSource,
       Kill, PowerCut
  <1>4. SkipChild \/ CommitRefused \/ SwapOut \/ MoveIn \/ SwapIn
        \/ RemoveBackup \/ Committed \/ RollBack => UNCHANGED <<told, stray>>
    BY DEF SkipChild, CommitRefused, SwapOut, MoveIn, SwapIn, RemoveBackup,
       Committed, RollBack
  <1>5. /\ RemoveRest => told' = told
        /\ Reply => stray' = stray
        /\ UNCHANGED vars => UNCHANGED <<told, stray>>
    BY DEF RemoveRest, Reply, vars
  <1> QED BY <1>1, <1>2, <1>3, <1>4, <1>5 DEF Next, Stream, Finish, Work

LEMMA InitDelivers == Init => D!Init
  <1> SUFFICES ASSUME Init PROVE D!Init  OBVIOUS
  <1>1. TypeOK  BY TypesInit
  <1>2. \A f \in Files : dst[f] \in {"none", "old"}  BY DEF Init
  <1>3. Has \in [Files -> {"none", "old"}]  BY <1>1, <1>2, HasType
  <1>4. mode \in ModeSpace  BY TransferAssumption DEF Init
  <1>5. told = FALSE /\ (~mode.fsync \/ stray) = ~mode.fsync
    BY Zenon DEF Init
  <1> QED BY <1>3, <1>4, <1>5 DEF D!Init, ModeSpace

LEMMA StepDelivers ==
    ASSUME TransferInv, [Next]_vars
    PROVE  D!Next \/ UNCHANGED <<mode, Has, told, ~mode.fsync \/ stray>>
  <1>t. TypeOK /\ TypeOK' /\ Commits /\ PlaceSynced
    BY TypesNext DEF TransferInv, RunInv, SyncInv
  <1>m. Framed /\ mode' = mode  BY Frames DEF Framed
  <1>o. /\ Reply \/ Acknowledge \/ told' = told
        /\ RemoveRest \/ stray' = stray
    BY Seen
  <1>h. /\ Has' \in [Files -> {"none", "old", "new", "spoilt"}]
        /\ \A f \in Files : Has'[f] =
             IF dst'[f] = "ours"
             THEN IF Of(f) \subseteq dstRight' THEN "new" ELSE "spoilt"
             ELSE dst'[f]
    BY <1>t DEF Has, TypeOK, DiskTypes, Kept, Of
  <1>g. /\ Has \in [Files -> {"none", "old", "new", "spoilt"}]
        /\ \A f \in Files : Has[f] =
             IF dst[f] = "ours"
             THEN IF Of(f) \subseteq dstRight THEN "new" ELSE "spoilt"
             ELSE dst[f]
    BY <1>t, HasType
  <1>w. stray' = stray => UNCHANGED (~mode.fsync \/ stray)
    BY <1>m
  <1>1. CASE SwapOut
    <2>1. PICK U \in Units :
             /\ dst' = [f \in Files |-> IF f \in U THEN "none" ELSE dst[f]]
             /\ dstRight' = dstRight
      BY <1>1 DEF SwapOut
    <2>2. phase = "commit" /\ mode.overwrite /\ told' = told /\ stray' = stray
      BY <1>1 DEF SwapOut, hist
    <2>3. U \in SUBSET Files /\ (mode.multi \/ U = Files)
      BY <1>t, <2>2, UnitFiles DEF Moving
    <2>4. Has' = [f \in Files |-> IF f \in U THEN "none" ELSE Has[f]]
      BY <1>g, <1>h, <2>1, <2>3
    <2>5. D!Withdraw(U)
      BY <1>w, <2>2, <2>3, <2>4 DEF D!Withdraw, D!Unit
    <2> QED BY <1>m, <2>3, <2>5 DEF D!Next
  <1>2. CASE MoveIn \/ SwapIn
    <2>1. PICK U \in SUBSET Files :
             /\ Place(U) /\ U \subseteq todo /\ phase \in Moving
             /\ mode.multi \/ (U = Files /\ todo' = {})
             /\ \A f \in U : dst[f] = "none"
             /\ told' = told /\ stray' = stray
      BY <1>2, <1>t, MoveStep
    <2>2. ASSUME NEW f \in U PROVE Has'[f] = "new"
      <3>1. \A c \in Of(f) : c \in right  BY <1>t, <2>1 DEF Commits, Of
      <3>2. Of(f) \subseteq dstRight'
        BY <1>t, <2>1, <3>1, PlaceStep DEF Of
      <3>3. dst'[f] = "ours"  BY <1>t, <2>1, PlaceStep
      <3> QED BY <1>h, <2>1, <3>2, <3>3
    <2>3. ASSUME NEW f \in Files \ U PROVE Has'[f] = Has[f]
      <3>1. dst'[f] = dst[f]  BY <1>t, <2>1, <2>3, PlaceStep
      <3>2. Of(f) \subseteq dstRight' <=> Of(f) \subseteq dstRight
        BY <1>t, <2>1, <2>3, PlaceStep DEF Of
      <3> QED BY <1>g, <1>h, <3>1, <3>2
    <2>4. Has' = [f \in Files |-> IF f \in U THEN "new" ELSE Has[f]]
      BY <1>h, <2>2, <2>3
    <2>5. \A f \in U : Has[f] = "none"  BY <1>g, <2>1
    <2>6. D!Deliver(U)
      BY <1>w, <2>1, <2>4, <2>5 DEF D!Deliver, D!Unit
    <2> QED BY <1>m, <2>6 DEF D!Next
  <1>3. CASE RollBack
    <2>1. /\ phase = "swap" /\ told' = told /\ stray' = stray
          /\ dst' = [f \in Files |-> IF f \in unit THEN bak[f] ELSE dst[f]]
          /\ dstRight' = dstRight
      BY <1>3 DEF RollBack
    <2>2. /\ mode.overwrite /\ (mode.multi \/ unit = Files)
          /\ unit \in SUBSET Files /\ \A f \in unit : dst[f] = "none"
      BY <1>t, <2>1 DEF Commits, TypeOK, RunTypes
    <2>3. /\ \A f \in unit : Has[f] = "none"
          /\ \A f \in Files \ unit : Has'[f] = Has[f]
      BY <1>g, <1>h, <2>1, <2>2
    <2>4. D!Restore(unit)
      BY <1>h, <1>w, <2>1, <2>2, <2>3 DEF D!Restore, D!Unit
    <2> QED BY <1>m, <2>2, <2>4 DEF D!Next
  <1>4. CASE PowerCut
    <2>1. /\ dst' = dst /\ dstSafe \subseteq dstRight'
          /\ dstRight' \subseteq dstRight /\ stray' = stray
      BY <1>4, <1>t, CutKeeps
    <2>2. told' = told  BY <1>4 DEF PowerCut
    <2>3. CASE Strict
      <3>1. \A f \in Files : dst[f] = "ours" =>
               Of(f) \subseteq dstRight /\ Of(f) \subseteq dstRight'
        BY <1>t, <2>1, <2>3 DEF PlaceSynced
      <3>2. Has' = Has  BY <1>g, <1>h, <2>1, <3>1
      <3> QED BY <1>m, <1>w, <2>1, <2>2, <3>2
    <2>4. CASE ~Strict
      <3>1. \A f \in Files : Has'[f] # Has[f] =>
               Has[f] = "new" /\ Has'[f] = "spoilt"
        BY <1>g, <1>h, <2>1
      <3>2. D!Spoil  BY <1>h, <1>w, <2>1, <2>2, <2>4, <3>1 DEF D!Spoil, Strict
      <3> QED BY <1>m, <3>2 DEF D!Next
    <2> QED BY <2>3, <2>4
  <1>k. UNCHANGED <<dst, dstRight>> => Has' = Has  BY <1>g, <1>h
  <1>5. CASE RemoveRest
    <2>1. UNCHANGED <<dst, dstRight, told>>  BY <1>5 DEF RemoveRest
    <2>2. CASE stray'
      <3>1. D!Weaken  BY <1>k, <2>1, <2>2 DEF D!Weaken
      <3> QED BY <1>m, <3>1 DEF D!Next
    <2>3. CASE ~stray'
      <3>1. UNCHANGED (~mode.fsync \/ stray)
        BY <1>m, <2>3, Zenon DEF Framed
      <3> QED BY <1>k, <1>m, <2>1, <3>1
    <2> QED BY <2>2, <2>3
  <1>6. CASE Reply \/ Acknowledge
    <2>1. UNCHANGED <<dst, dstRight, stray>> /\ phase \in {"reply", "ack"}
      BY <1>6 DEF Reply, Acknowledge, place, hist
    <2>2. told' = TRUE \/ told' = told
      BY <1>6, Zenon DEF Reply, Acknowledge
    <2>3. CASE told' = TRUE
      <3>1. \A f \in Files : Has[f] = "new"
        BY <1>g, <1>t, <2>1 DEF Commits, Matches
      <3>2. D!Tell  BY <1>k, <1>w, <2>1, <2>3, <3>1 DEF D!Tell
      <3> QED BY <1>m, <3>2 DEF D!Next
    <2>4. CASE told' = told
      BY <1>k, <1>m, <1>w, <2>1, <2>4
    <2> QED BY <2>2, <2>3, <2>4
  <1>7. CASE UNCHANGED <<dst, dstRight, told, stray>>
    BY <1>7, <1>k, <1>m, <1>w
  <1> QED BY <1>1, <1>2, <1>3, <1>4, <1>5, <1>6, <1>7, <1>m, <1>o DEF Framed

(* The transfer implements Delivery: a file of ours that appears in the    *)
(* destination is whole, a synced one stays so through a power cut, and    *)
(* the sender is told only when everything is in place (commit_stage,      *)
(* verify_summary, receive_manifest).                                      *)
THEOREM TransferDelivers == Spec => Delivers
  <1>1. TransferInv /\ [Next]_vars =>
           [D!Next]_<<mode, Has, told, ~mode.fsync \/ stray>>
    BY StepDelivers
  <1> QED BY <1>1, InitDelivers, InvHolds, PTL DEF Spec, Delivers, D!Spec
=============================================================================
