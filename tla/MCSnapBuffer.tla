---------------------------- MODULE MCSnapBuffer ----------------------------
(* Small instances of SnapBuffer.  One sample per millisecond, frames of   *)
(* three samples and a margin of two milliseconds keep the proportions     *)
(* that matter: as in the code (2048 samples, 96 per ms, 12 ms) the        *)
(* default delay's window has room for a frame below it and inside it, and *)
(* the cap is not below its upper edge.                                    *)
EXTENDS SnapBuffer

(* The default delay; a window shorter than a frame; one above the cap.    *)
AllLatencies == {0, 1, 12}
=============================================================================
