----------------------------- MODULE OtaUpload ------------------------------
(***************************************************************************)
(* Firmware updates (main/ota.cpp): from a URL, by a task of its own, or   *)
(* as a multipart upload, taken apart by api_ota_upload in the HTTP        *)
(* server's task (main/web_setup.cpp).  The upload's handler is compiled   *)
(* in but not registered; README.md:62 offers it.                          *)
(*                                                                         *)
(* An upload is a stream of bytes of which only the places of its parts    *)
(* matter: pre bytes, a part's head (marker, headers and blank line), the  *)
(* file, CR LF, the end marker, "--", CR LF.  The marker is not in the     *)
(* file.  `lo' to `got' is accumulated_data.  Time, progress figures and   *)
(* texts are left out, and of esp_ota_* and esp_https_ota only what they   *)
(* do to the partition remains: writing appends and erases what was there, *)
(* ending succeeds when the whole image is there.                          *)
(***************************************************************************)
EXTENDS Integers, Sequences

CONSTANTS
  Marker,       (* length of the boundary marker                            *)
  Reserve,      (* bytes kept back for the search of the marker             *)
  HeadLimit,    (* bytes without a marker that are too many                 *)
  Chunk,        (* chunk_size                                               *)
  MaxTimeouts,  (* max_timeouts                                             *)
  Streams,      (* the uploads: [pre, head, file, crlfs, known], crlfs the  *)
                (* number of CR LF the file ends in, known whether a        *)
                (* Content-Length was sent                                  *)
  PromptRestart (* nothing is asked for between the success of an update    *)
                (* and the restart                                          *)

ASSUME LengthsAssumption ==
  /\ Marker \in Nat \ {0} /\ Reserve \in Nat /\ Marker < Reserve
  /\ HeadLimit \in Nat /\ Chunk \in Nat \ {0} /\ MaxTimeouts \in Nat
  /\ PromptRestart \in BOOLEAN

ASSUME StreamsAssumption ==
  /\ Streams \subseteq [pre : Nat, head : Nat, file : Nat \ {0}, crlfs : Nat,
                        known : BOOLEAN]
  /\ \A s \in Streams : Marker < s.head /\ 2 * s.crlfs <= s.file

VARIABLES
  stream,   (* the image on offer, as an upload; never changes              *)
  state,    (* s_state                                                      *)
  handle,   (* s_ota_handle: "none", "open" or "stale" (not zero, but ended)*)
  written,  (* s_written_size                                               *)
  slot,     (* the places in the stream of the bytes in the update partition*)
  boot,     (* the partition to boot next: "running" or "slot"              *)
  updater,  (* whether ota_task is at work                                  *)
  restart,  (* esp_restart is about to happen                               *)
  pc,       (* where the upload's handler is                                *)
  lo, got,  (* accumulated_data; total_received                             *)
  inFile,   (* in_file_data                                                 *)
  timeouts, (* consecutive_timeouts                                         *)
  reply     (* how the last upload was answered, if it has been            *)

parser == <<lo, got, inFile, timeouts>>
vars == <<stream, state, handle, written, slot, boot, updater, restart, pc,
          lo, got, inFile, timeouts, reply>>

FileStart == stream.pre + stream.head
FileEnd == FileStart + stream.file
EndMarker == FileEnd + 2
Total == EndMarker + Marker + 4

(* The bytes from place a to before place b.                               *)
Bytes(a, b) == [i \in 1..(b - a) |-> a + i - 1]
Image == Bytes(FileStart, FileEnd)
Whole == /\ Len(slot) >= stream.file
         /\ SubSeq(slot, 1, stream.file) = Image

Init ==
  /\ stream \in Streams
  /\ state = "idle" /\ handle = "none" /\ written = 0
  /\ slot = <<>> /\ boot = "running"
  /\ updater = FALSE /\ restart = FALSE
  /\ pc = "idle" /\ lo = 0 /\ got = 0 /\ inFile = FALSE /\ timeouts = 0
  /\ reply = "none"

(* The HTTP server can take a request.                                     *)
Free == pc = "idle" /\ ~(PromptRestart /\ restart)

(* ota_trigger_update: the task is created, or not.                        *)
Trigger ==
  /\ Free
  /\ state # "inProgress"
  /\ \/ state' = "inProgress" /\ updater' = TRUE
     \/ state' = "idle" /\ UNCHANGED updater
  /\ UNCHANGED <<stream, handle, written, slot, boot, restart, pc, parser,
                 reply>>

(* ota_task: esp_https_ota has written some of the image, or has come to   *)
(* an end.                                                                 *)
UrlWrite ==
  /\ updater
  /\ slot' = <<>>
  /\ UNCHANGED <<stream, state, handle, written, boot, updater, restart, pc,
                 parser, reply>>

UrlDone ==
  /\ updater
  /\ slot' = Image
  /\ boot' = "slot"
  /\ state' = "succeeded"
  /\ updater' = FALSE
  /\ restart' = TRUE
  /\ UNCHANGED <<stream, handle, written, pc, parser, reply>>

UrlFail ==
  /\ updater
  /\ state' = "failed"
  /\ updater' = FALSE
  /\ UNCHANGED <<stream, handle, written, slot, boot, restart, pc, parser,
                 reply>>

(* api_ota_upload up to its loop.  A failing esp_ota_begin changes nothing.*)
Start ==
  /\ Free
  /\ state # "inProgress"
  /\ state' = "inProgress"
  /\ handle' = "open"
  /\ written' = 0
  /\ pc' = "read"
  /\ lo' = 0 /\ got' = 0 /\ inFile' = FALSE /\ timeouts' = 0
  /\ reply' = "none"
  /\ UNCHANGED <<stream, slot, boot, updater, restart>>

(* Mutation: the library's handle is not given back.                       *)
AbortKeepingHandle(why) ==
  /\ state' = IF state = "inProgress" THEN "failed" ELSE state
  /\ pc' = "idle" /\ reply' = why
  /\ UNCHANGED handle

(* The handler answers with an error after ota_abort_upload, which acts on *)
(* an update in progress only.                                             *)
Abort(why) ==
  /\ IF state = "inProgress" THEN handle' = "none" /\ state' = "failed"
                             ELSE UNCHANGED <<handle, state>>
  /\ pc' = "idle" /\ reply' = why

(* ota_write_data of the bytes from a to before b, and what follows when   *)
(* it fails.  Nothing is written when there is nothing.                    *)
Write(a, b) ==
  /\ slot' = IF a < b THEN SubSeq(slot, 1, written) \o Bytes(a, b) ELSE slot
  /\ written' = IF a < b THEN written + (b - a) ELSE written
  /\ UNCHANGED <<state, handle, reply>>

WriteFail(a, b) ==
  /\ a < b
  /\ state' = "failed" /\ handle' = "none"
  /\ pc' = "idle" /\ reply' = "write failed"
  /\ UNCHANGED <<slot, written>>

(* Where the data accumulated from a on ends when the end marker is in it: *)
(* every CR LF before the marker is cut off.                               *)
CutEnd(a) ==
  LET pairs == stream.crlfs + 1
      room == (EndMarker - a) \div 2
  IN  EndMarker - 2 * (IF pairs < room THEN pairs ELSE room)

(* The marker of the part is in the accumulated data; so is the end marker.*)
HeadSeen(r) == lo <= stream.pre /\ r >= stream.pre + Marker
EndSeen(r) == r >= EndMarker + Marker
FinalSeen(r) == r >= EndMarker + Marker + 2

(* The loop's condition once r bytes have been received.                   *)
AfterRead(r) == IF stream.known /\ r = Total THEN "rest" ELSE "read"

(* Mutation: only the marker's length is kept back.                        *)
WriteKeepingLess(a, r) ==
  LET end == IF EndSeen(r) THEN CutEnd(a) ELSE r - Marker
  IN  \/ /\ Write(a, end)
         /\ lo' = IF EndSeen(r) THEN r ELSE end
         /\ inFile' = ~EndSeen(r)
         /\ pc' = IF FinalSeen(r) THEN "rest" ELSE AfterRead(r)
      \/ /\ WriteFail(a, end)
         /\ UNCHANGED <<lo, inFile>>

(* What is left to write of the data accumulated from a to r, and what is  *)
(* then kept.                                                              *)
WriteSome(a, r) ==
  LET end == IF EndSeen(r) THEN CutEnd(a) ELSE r - Reserve
  IN  \/ /\ Write(a, end)
         /\ lo' = IF EndSeen(r) THEN r ELSE end
         /\ inFile' = ~EndSeen(r)
         /\ pc' = IF FinalSeen(r) THEN "rest" ELSE AfterRead(r)
      \/ /\ WriteFail(a, end)
         /\ UNCHANGED <<lo, inFile>>

(* The inner loop, over the file's data from a on.                         *)
FileData(a, r) ==
  \/ /\ EndSeen(r) \/ r - a > Reserve
     /\ WriteSome(a, r)
  \/ /\ ~EndSeen(r) /\ r - a <= Reserve
     /\ lo' = a /\ inFile' = TRUE
     /\ pc' = AfterRead(r)
     /\ UNCHANGED <<state, handle, written, slot, reply>>

(* The inner loop before the file's data: too much without a marker, not   *)
(* enough yet, or the headers' end.                                        *)
HeadData(r) ==
  \/ /\ ~HeadSeen(r) /\ r - lo > HeadLimit
     /\ Abort("invalid")
     /\ UNCHANGED <<written, slot, lo, inFile>>
  \/ /\ \/ ~HeadSeen(r) /\ r - lo <= HeadLimit
        \/ HeadSeen(r) /\ r < FileStart
     /\ pc' = AfterRead(r)
     /\ UNCHANGED <<state, handle, written, slot, lo, inFile, reply>>
  \/ /\ HeadSeen(r) /\ r >= FileStart
     /\ FileData(FileStart, r)

(* httpd_req_recv returns k bytes, which are processed.                    *)
Receive(k) ==
  /\ pc = "read"
  /\ got + k <= Total
  /\ got' = got + k
  /\ timeouts' = 0
  /\ IF inFile THEN FileData(lo, got + k) ELSE HeadData(got + k)
  /\ UNCHANGED <<stream, boot, updater, restart>>

(* Mutation: the count starts again instead of giving up.                  *)
TimeoutForever ==
  /\ pc = "read"
  /\ timeouts' = IF timeouts < MaxTimeouts THEN timeouts + 1 ELSE 0
  /\ UNCHANGED <<stream, state, handle, pc, reply, written, slot, boot, updater,
                 restart, lo, got, inFile>>

(* Mutation: one too many is allowed.                                      *)
TimeoutLate ==
  /\ pc = "read"
  /\ \/ /\ timeouts <= MaxTimeouts
        /\ timeouts' = timeouts + 1
        /\ UNCHANGED <<state, handle, pc, reply>>
     \/ /\ timeouts > MaxTimeouts
        /\ Abort("timeout")
        /\ UNCHANGED timeouts
  /\ UNCHANGED <<stream, written, slot, boot, updater, restart, lo, got, inFile>>

(* It times out, once or once too often.                                   *)
Timeout ==
  /\ pc = "read"
  /\ \/ /\ timeouts < MaxTimeouts
        /\ timeouts' = timeouts + 1
        /\ UNCHANGED <<state, handle, pc, reply>>
     \/ /\ timeouts = MaxTimeouts
        /\ Abort("timeout")
        /\ UNCHANGED timeouts
  /\ UNCHANGED <<stream, written, slot, boot, updater, restart, lo, got, inFile>>

(* The connection is closed, or fails otherwise.                           *)
Closed ==
  /\ pc = "read"
  /\ pc' = "rest"
  /\ UNCHANGED <<stream, state, handle, written, slot, boot, updater, restart,
                 parser, reply>>

RecvError ==
  /\ pc = "read"
  /\ Abort("receive failed")
  /\ UNCHANGED <<stream, written, slot, boot, updater, restart, parser>>

(* Mutation: what is accumulated when the stream ends is dropped.          *)
RestDropped ==
  /\ pc = "rest"
  /\ pc' = "finish"
  /\ UNCHANGED <<stream, state, handle, written, slot, boot, updater, restart,
                 parser, reply>>

(* After the loop: the rest of the file's data is written.                 *)
Rest ==
  /\ pc = "rest"
  /\ LET end == IF EndSeen(got) THEN CutEnd(lo) ELSE got
     IN  IF inFile
         THEN \/ Write(lo, end) /\ pc' = "finish"
              \/ WriteFail(lo, end)
         ELSE pc' = "finish" /\ UNCHANGED <<state, handle, written, slot, reply>>
  /\ UNCHANGED <<stream, boot, updater, restart, parser>>

(* ota_finish_upload: the image is not valid, the partition cannot be set, *)
(* or the update is done and a restart due.                                *)
Invalid ==
  /\ ~Whole
  /\ state' = "failed" /\ handle' = "none"
  /\ pc' = "idle" /\ reply' = "corrupt"
  /\ UNCHANGED <<written, boot, restart>>

NotSet ==
  /\ Whole
  /\ state' = "failed" /\ handle' = "stale"
  /\ pc' = "idle" /\ reply' = "not set"
  /\ UNCHANGED <<written, boot, restart>>

Done ==
  /\ Whole
  /\ boot' = "slot"
  /\ state' = "succeeded" /\ handle' = "none" /\ written' = 0
  /\ restart' = TRUE
  /\ pc' = "done" /\ reply' = "done"

(* Mutation: the partition is set without validation.                      *)
FinishUnvalidated ==
  /\ pc = "finish"
  /\ boot' = "slot"
  /\ state' = "succeeded" /\ handle' = "none" /\ written' = 0
  /\ restart' = TRUE
  /\ pc' = "done" /\ reply' = "done"
  /\ UNCHANGED <<stream, slot, updater, parser>>

Finish ==
  /\ pc = "finish"
  /\ \/ Invalid \/ NotSet \/ Done
  /\ UNCHANGED <<stream, slot, updater, parser>>

(* A restart, wanted or not, boots the partition that is set; the other    *)
(* one then is the slot for updates.                                       *)
PowerCut ==
  /\ state' = "idle" /\ handle' = "none" /\ written' = 0
  /\ updater' = FALSE /\ restart' = FALSE
  /\ pc' = "idle" /\ lo' = 0 /\ got' = 0 /\ inFile' = FALSE /\ timeouts' = 0
  /\ reply' = "none"
  /\ boot' = "running"
  /\ slot' = IF boot = "slot" THEN <<>> ELSE slot
  /\ UNCHANGED stream

Restart == restart /\ PowerCut

Updater == UrlWrite \/ UrlDone \/ UrlFail
Handler == \/ \E k \in 1..Chunk : Receive(k)
           \/ Timeout \/ Closed \/ RecvError
           \/ Rest \/ Finish
Next == Trigger \/ Start \/ Updater \/ Handler \/ Restart \/ PowerCut

Spec == Init /\ [][Next]_vars

(* The download ends, by its result or its time limit; each receive ends,  *)
(* by data or its time limit; a restart that is due happens.               *)
Fairness == WF_vars(UrlDone \/ UrlFail) /\ WF_vars(Handler) /\ WF_vars(Restart)
LiveSpec == Spec /\ Fairness
-----------------------------------------------------------------------------
TypeOK ==
  /\ stream \in Streams
  /\ state \in {"idle", "inProgress", "succeeded", "failed"}
  /\ handle \in {"none", "open", "stale"}
  /\ written \in Nat
  /\ slot \in Seq(Nat)
  /\ boot \in {"running", "slot"}
  /\ updater \in BOOLEAN /\ restart \in BOOLEAN /\ inFile \in BOOLEAN
  /\ pc \in {"idle", "read", "rest", "finish", "done"}
  /\ got \in 0..Total /\ lo \in 0..got
  /\ timeouts \in 0..MaxTimeouts
  /\ reply \in {"none", "invalid", "timeout", "receive failed", "write failed",
                "corrupt", "not set", "done"}

Uploading == pc \in {"read", "rest", "finish"}

(* The state says "in progress" exactly while a task is at work on the     *)
(* update partition, never two are, and the library's handle is open       *)
(* exactly while an upload is: no way out of the handler leaves it open    *)
(* (ota_write_data, ota_abort_upload, ota_finish_upload).                  *)
OneUpdate ==
  /\ (state = "inProgress") <=> (Uploading \/ updater)
  /\ ~(Uploading /\ updater)
  /\ (handle = "open") <=> Uploading

(* However the stream is cut into reads, what an upload has written is the *)
(* file from its first byte on, without a gap and, before the connection   *)
(* ends, without anything behind it: no byte of the end marker is taken    *)
(* for data because its beginning had already been passed on.              *)
WritesTheFile ==
  Uploading => /\ written <= Len(slot)
               /\ SubSeq(slot, 1, written)
                    = Bytes(FileStart, FileStart + written)
               /\ pc = "read" => written <= stream.file

(* Whatever fails or is cut short, and whenever the power is, the          *)
(* partition set to boot holds the whole image.                            *)
BootsWholeImages == boot = "slot" => Whole

(* An upload whose file arrived completely is not turned down as corrupt,  *)
(* however it was cut into reads and wherever in its end marker the        *)
(* connection was closed, unless the file itself ends in CR LF.            *)
CompleteAccepted ==
  reply = "corrupt" => got < FileEnd \/ stream.crlfs > 0

(* An update comes to an end, and with it the state that refuses others.   *)
UpdateEnds == state = "inProgress" ~> state # "inProgress"
=============================================================================
