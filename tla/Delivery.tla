------------------------------- MODULE Delivery --------------------------------
(***************************************************************************)
(* What a file transfer promises about its destination, whatever fails on  *)
(* the way: a file appears there whole or not at all, and only where no    *)
(* file is; existing files are moved out of the way only if they may be    *)
(* overwritten; a single root arrives in one step; and the sender is told  *)
(* that the transfer is complete only when everything is there.  Without   *)
(* fsync a power cut may spoil what has arrived, and so it may once an     *)
(* append of an ended run has outlived the staging directory it was for.   *)
(* FileTransfer implements this specification.                             *)
(***************************************************************************)
CONSTANTS Files

VARIABLES
    mode,   \* the options: [fsync, multi, overwrite]
    has,    \* per file: none, old (another file), new (ours, whole), spoilt
    told,   \* the sender has its confirmation
    weak    \* what is complete need not be on the disk

Init ==
    /\ mode \in [fsync : BOOLEAN, multi : BOOLEAN, overwrite : BOOLEAN]
    /\ has \in [Files -> {"none", "old"}]
    /\ told = FALSE /\ weak = ~mode.fsync

(* What is renamed in one step.                                            *)
Unit(U) == U \in SUBSET Files /\ (mode.multi \/ U = Files)

Deliver(U) ==
    /\ Unit(U) /\ \A f \in U : has[f] = "none"
    /\ has' = [f \in Files |-> IF f \in U THEN "new" ELSE has[f]]
    /\ UNCHANGED <<told, weak>>

Withdraw(U) ==
    /\ Unit(U) /\ mode.overwrite
    /\ has' = [f \in Files |-> IF f \in U THEN "none" ELSE has[f]]
    /\ UNCHANGED <<told, weak>>

(* A failed commit puts back what it has withdrawn.                        *)
Restore(U) ==
    /\ Unit(U) /\ mode.overwrite /\ \A f \in U : has[f] = "none"
    /\ \A f \in Files \ U : has'[f] = has[f]
    /\ has' \in [Files -> {"none", "old", "new", "spoilt"}]
    /\ UNCHANGED <<told, weak>>

Spoil ==
    /\ weak
    /\ has' \in [Files -> {"none", "old", "new", "spoilt"}]
    /\ \A f \in Files : has'[f] # has[f] => has[f] = "new" /\ has'[f] = "spoilt"
    /\ UNCHANGED <<told, weak>>

Tell ==
    /\ \A f \in Files : has[f] = "new"
    /\ told' = TRUE
    /\ UNCHANGED <<has, weak>>

Weaken == weak' = TRUE /\ UNCHANGED <<has, told>>

Next ==
    /\ \/ \E U \in SUBSET Files : Deliver(U) \/ Withdraw(U) \/ Restore(U)
       \/ Spoil \/ Tell \/ Weaken
    /\ UNCHANGED mode

Spec == Init /\ [][Next]_<<mode, has, told, weak>>
=============================================================================
