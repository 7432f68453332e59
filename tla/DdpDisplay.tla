----------------------------- MODULE DdpDisplay -----------------------------
(***************************************************************************)
(* What sending frames over DDP is for: a device shows one whole frame     *)
(* after the other, in the order in which they were rendered, and goes on  *)
(* doing so.  Frames are numbered modulo Ids; Ids itself stands for a      *)
(* picture put together from several frames.  If the network loses         *)
(* packets, nothing is promised.                                           *)
(***************************************************************************)
EXTENDS Naturals

CONSTANT Ids

VARIABLES lossy, shown

vars == <<lossy, shown>>

Init == lossy \in BOOLEAN /\ shown = 0

Show     == ~lossy /\ shown' = (shown + 1) % Ids /\ UNCHANGED lossy
Whatever == lossy /\ shown' \in 0..Ids /\ UNCHANGED lossy

Shows == Init /\ [][Show \/ Whatever]_vars

Spec == Shows /\ WF_vars(Show)
=============================================================================
