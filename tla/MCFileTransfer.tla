---------------------------- MODULE MCFileTransfer -----------------------------
(* Instance of FileTransfer for TLC: one file of two chunks and one of one. *)
EXTENDS FileTransfer

CONSTANTS f1, f2, w1, w2

TheChunks == 1 .. 3
TheFiles == {f1, f2}
TheFileOf == <<f1, f1, f2>>
ThreeModes == {[fsync |-> TRUE, multi |-> TRUE, overwrite |-> TRUE],
               [fsync |-> TRUE, multi |-> FALSE, overwrite |-> TRUE],
               [fsync |-> FALSE, multi |-> FALSE, overwrite |-> FALSE]}
TheWorkers == {w1, w2}
=============================================================================
