----------------------------- MODULE OtaPromise -----------------------------
(***************************************************************************)
(* What firmware updates are for, seen by who asks for one: an update is   *)
(* begun when none is under way and none waits for its restart, it fails   *)
(* or succeeds once, and what boots next is the running firmware until it  *)
(* succeeds and the whole new image from then to the restart.              *)
(***************************************************************************)
VARIABLES state, boots

vars == <<state, boots>>

Init == state = "idle" /\ boots = "running"

Ready == state # "inProgress" /\ boots = "running"

Begin   == Ready /\ state' = "inProgress" /\ UNCHANGED boots
Refuse  == Ready /\ state' = "idle" /\ UNCHANGED boots
Fail    == state = "inProgress" /\ state' = "failed" /\ UNCHANGED boots
Succeed == state = "inProgress" /\ state' = "succeeded" /\ boots' = "image"
Restart == state' = "idle" /\ boots' = "running"

Next == Begin \/ Refuse \/ Fail \/ Succeed \/ Restart

Spec == Init /\ [][Next]_vars
=============================================================================
