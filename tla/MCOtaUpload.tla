---------------------------- MODULE MCOtaUpload -----------------------------
(***************************************************************************)
(* Uploads for TLC.  The markers' beginnings, the reserve and the file are *)
(* a few bytes long, so that reads of up to five bytes end before, inside  *)
(* and behind every part of the stream; one upload begins with more bytes  *)
(* than are allowed before a marker, one is sent without a length, and one *)
(* is a file that ends in CR LF.                                           *)
(***************************************************************************)
EXTENDS OtaUpload

FewStreams ==
  {[pre |-> p, head |-> 4, file |-> f, crlfs |-> c, known |-> n] :
     p \in {0, 6}, f \in {3, 7}, c \in {0, 1}, n \in BOOLEAN}
=============================================================================
