---------------------------- MODULE MCFsCommands ----------------------------
(***************************************************************************)
(* Both halves of fshelpers.c in one run: the commands that change the     *)
(* tree (FileCommands) and the way from disks to the current volume        *)
(* (Volumes).  They share nothing, so their states need not be multiplied: *)
(* part says which of them runs while the other stands still.              *)
(***************************************************************************)
EXTENDS MCFileCommands, MCVolumes

VARIABLE part

MCInit ==
    /\ part \in {"tree", "volumes"}
    /\ Init /\ VolumesInit
    /\ part = "tree" => \A d \in Drives : disk[d] = Plain("blank")
    /\ part = "volumes" => tree = Empty /\ ~faults

\* What comes after the end of the stack is not modelled.
Crashed == part = "tree" /\ overrun /\ UNCHANGED <<part, vars, volumesVars>>

MCNext ==
    \/ part = "tree" /\ Next /\ UNCHANGED <<part, volumesVars>>
    \/ Crashed
    \/ part = "volumes" /\ VolumesNext /\ UNCHANGED <<part, vars>>

\* Only the tree has a property that needs fairness.
MCSpec == MCInit /\ [][MCNext]_<<part, vars, volumesVars>> /\ WF_vars(RemoveStep)
=============================================================================
