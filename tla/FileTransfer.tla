---------------------------- MODULE FileTransfer ----------------------------
(***************************************************************************)
(* Files on their way from the ESP32 (RdCommandSerial/CommandSerial.cpp)   *)
(* to the Pi (CommandInterface/CommandHandler.cpp): a start record, blocks *)
(* and an end record with the number of blocks, over a serial line that    *)
(* may lose frames and on which nothing is repeated.                       *)
(*                                                                         *)
(* An upload comes from the ESP32's file system, which service sends chunk *)
(* by chunk, or from HTTP, whose server hands over blocks as they arrive.  *)
(* A file is a number of blocks; a block is known by its file and index.   *)
(***************************************************************************)
EXTENDS Integers, Sequences

CONSTANTS
    Files,        \* the files
    NumBlocks,    \* how many blocks each has
    Orderly,      \* HTTP clients start an upload only when none is in progress, and end
                  \* theirs when the ESP32 has given it up
    MaxUploads,   \* bound: uploads begun
    MaxLoss,      \* bound: frames lost
    MaxInFlight   \* bound: frames on the line when the sender waits for room

ASSUME FilesAssumption  == Files # {} /\ NumBlocks \in [Files -> Nat] /\ Orderly \in BOOLEAN
ASSUME BoundsAssumption == MaxUploads \in Nat /\ MaxLoss \in Nat /\ MaxInFlight \in Nat

Block == UNION {1..NumBlocks[f] : f \in Files}
Empty == "UNWRITTEN"   \* memory of the receive buffer that no block was stored in

VARIABLES
    fsUp, apiUp,   \* _uploadFromFSInProgress, _uploadFromAPIInProgress
    blockCount,    \* _blockCount
    cmdDue,        \* _uploadTargetCommandWhenComplete is not empty
    chunk,         \* the file manager's session: file and next block
    http,          \* blocks that the HTTP upload of each file has handed over; 0 without one
    long,          \* MAX_UPLOAD_MS have passed since the upload started
    pause,         \* time since the last block: 0, 1 once longer than the Pi waits, 2 once
                   \* longer than the ESP32 waits
    link,          \* frames on the line
    rx,            \* the Pi's reception: active, file of the start record, buffer, blocks
    delivered,     \* the last file delivered to the machine manager
    uploads, losses,         \* for the bounds MaxUploads, MaxLoss
    completed, deliveries,   \* end records sent, files delivered
    undisturbed,             \* no frame lost, no reception timed out or without memory
    orphan                   \* an upload was given up while the Pi was still waiting for more

espVars   == <<fsUp, apiUp, blockCount, cmdDue, chunk, http, long, uploads, completed>>
piVars    == <<rx, delivered, deliveries>>
vars      == <<espVars, pause, link, piVars, losses, undisturbed, orphan>>

Frame == [type : {"START"}, file : Files] \cup [type : {"BLOCK"}, file : Files, index : Block]
         \cup [type : {"END"}, count : Nat] \cup [type : {"CMD"}, by : {"FS", "API"}]
NoReception == [active |-> FALSE]
IsReception(r) ==
    \/ r = NoReception
    \/ /\ DOMAIN r = {"active", "file", "buf", "count"}
       /\ r.active = TRUE /\ r.file \in Files /\ r.count \in Nat
       /\ r.buf \in [1..NumBlocks[r.file] -> Files \cup {Empty}]

TypeOK ==
    /\ fsUp \in BOOLEAN /\ apiUp \in BOOLEAN /\ cmdDue \in BOOLEAN
    /\ blockCount \in Nat /\ (Orderly => \E f \in Files : blockCount <= NumBlocks[f])
    /\ chunk.file \in Files /\ chunk.next \in 1..(NumBlocks[chunk.file] + 1)
    /\ http \in [Files -> Nat] /\ \A f \in Files : http[f] <= NumBlocks[f]
    /\ long \in BOOLEAN /\ pause \in 0..2
    /\ link \in Seq(Frame)
    /\ IsReception(rx) /\ IsReception(delivered)
    /\ uploads \in 0..MaxUploads /\ losses \in 0..MaxLoss
    /\ completed \in Nat /\ deliveries \in Nat /\ undisturbed \in BOOLEAN /\ orphan \in BOOLEAN

Init ==
    /\ fsUp = FALSE /\ apiUp = FALSE /\ blockCount = 0 /\ cmdDue = FALSE
    /\ chunk = [file |-> CHOOSE f \in Files : TRUE, next |-> 1]
    /\ http = [f \in Files |-> 0] /\ long = FALSE /\ pause = 0
    /\ link = <<>> /\ rx = NoReception /\ delivered = NoReception
    /\ uploads = 0 /\ losses = 0 /\ completed = 0 /\ deliveries = 0
    /\ undisturbed = TRUE /\ orphan = FALSE

-----------------------------------------------------------------------------
(* The ESP32 *)

UploadInProgress == fsUp \/ apiUp
RoomOnLine       == Len(link) <= MaxInFlight

\* uploadCommonBlockHandler: what is sent for a block when count blocks went before it.
\* Mutant: the end record says how many blocks went before the last one.
EndRecord_Early(count) == [type |-> "END", count |-> count]
EndRecord(count) == [type |-> "END", count |-> count + 1]
Frames(f, i, count, by) ==
    (IF count = 0 THEN <<[type |-> "START", file |-> f]>> ELSE <<>>)
    \o <<[type |-> "BLOCK", file |-> f, index |-> i]>>
    \o (IF i < NumBlocks[f] THEN <<>>
        ELSE <<EndRecord(count)>> \o IF cmdDue THEN <<[type |-> "CMD", by |-> by]>> ELSE <<>>)

UploadCommonBlockHandler(f, i, count, by) ==
    /\ link' = link \o Frames(f, i, count, by)
    /\ pause' = 0
    /\ blockCount' = count + 1
    /\ IF i < NumBlocks[f] THEN UNCHANGED <<cmdDue, completed>>
       ELSE cmdDue' = FALSE /\ completed' = completed + 1

\* uploadAPIBlockHandler: a block of an HTTP upload, dropped while a file system upload
\* is in progress; without an API upload in progress it begins one.
ApiCount == IF apiUp THEN blockCount ELSE 0
UploadAPIBlockHandler(f, i) ==
    IF fsUp THEN UNCHANGED <<apiUp, blockCount, cmdDue, long, pause, link, completed>>
    ELSE /\ UploadCommonBlockHandler(f, i, ApiCount, "API")
         /\ apiUp' = (i < NumBlocks[f])
         /\ long' = (long /\ apiUp)

\* startUploadFromFileSystem
\* Mutant: the blocks of the last upload are still counted.
FirstCount_Kept == blockCount
FirstCount == 0
StartUploadFromFileSystem(f, cmd) ==
    /\ ~UploadInProgress /\ uploads < MaxUploads
    /\ uploads' = uploads + 1
    /\ fsUp' = TRUE
    /\ blockCount' = FirstCount
    /\ cmdDue' = cmd
    /\ chunk' = [file |-> f, next |-> 1]
    /\ long' = FALSE /\ pause' = 0
    /\ UNCHANGED <<apiUp, http, completed, link, piVars, losses, undisturbed, orphan>>

\* service, a chunk is due: the next one goes out, or there is none (an empty file, a
\* file that cannot be read) and the upload is over.
ServiceChunk ==
    /\ fsUp /\ RoomOnLine
    /\ \/ /\ chunk.next <= NumBlocks[chunk.file]
          /\ UploadCommonBlockHandler(chunk.file, chunk.next, blockCount, "FS")
          /\ chunk' = [chunk EXCEPT !.next = @ + 1]
          /\ fsUp' = (chunk.next < NumBlocks[chunk.file])
          /\ apiUp' = (apiUp /\ fsUp')
          /\ UNCHANGED orphan
       \/ /\ fsUp' = FALSE
          /\ orphan' = (orphan \/ chunk.next > 1)
          /\ UNCHANGED <<apiUp, blockCount, cmdDue, chunk, pause, link, completed>>
    /\ UNCHANGED <<http, long, uploads, piVars, losses, undisturbed>>

\* service: an upload without a block for too long, or that takes too long, is given up.
GiveUp == fsUp' = FALSE /\ apiUp' = FALSE
ServiceTimeout ==
    /\ UploadInProgress /\ (pause = 2 \/ long)
    /\ GiveUp
    /\ orphan' = (orphan \/ pause < 2)
    /\ UNCHANGED <<blockCount, cmdDue, chunk, http, long, uploads, completed, pause, link,
                   piVars, losses, undisturbed>>

-----------------------------------------------------------------------------
(* The HTTP clients, the line and the clock *)

\* The next block of the HTTP upload of f arrives, or the first.
HttpBlock(f) ==
    /\ NumBlocks[f] > 0 /\ RoomOnLine
    /\ IF http[f] = 0 THEN uploads < MaxUploads /\ uploads' = uploads + 1 ELSE UNCHANGED uploads
    /\ Orderly => IF http[f] = 0 THEN ~UploadInProgress /\ \A g \in Files : http[g] = 0 ELSE apiUp
    /\ UploadAPIBlockHandler(f, http[f] + 1)
    /\ http' = [http EXCEPT ![f] = (@ + 1) % NumBlocks[f]]
    /\ UNCHANGED <<fsUp, chunk, piVars, losses, undisturbed, orphan>>

HttpAbort(f) ==
    /\ http[f] > 0
    /\ http' = [http EXCEPT ![f] = 0]
    /\ UNCHANGED <<fsUp, apiUp, blockCount, cmdDue, chunk, long, uploads, completed, pause,
                   link, piVars, losses, undisturbed, orphan>>

Lose ==
    /\ link # <<>> /\ losses < MaxLoss
    /\ link' = Tail(link)
    /\ losses' = losses + 1
    /\ undisturbed' = FALSE
    /\ UNCHANGED <<espVars, pause, piVars, orphan>>

\* No block comes for a while: the line is empty, and before the ESP32's 20 s are over
\* the Pi's 3 s are.
Pause ==
    /\ pause < 2 /\ ~fsUp /\ link = <<>>
    /\ pause = 1 => ~rx.active
    /\ pause' = pause + 1
    /\ UNCHANGED <<espVars, link, piVars, losses, undisturbed, orphan>>

TooLong ==
    /\ UploadInProgress /\ ~long
    /\ long' = TRUE
    /\ UNCHANGED <<fsUp, apiUp, blockCount, cmdDue, chunk, http, uploads, completed, pause,
                   link, piVars, losses, undisturbed, orphan>>

-----------------------------------------------------------------------------
(* The Pi *)

\* A frame has arrived.
Received(type) == link # <<>> /\ Head(link).type = type /\ link' = Tail(link)

\* handleFileStart: a reception in progress is dropped; there may be no memory for the new one.
HandleFileStart ==
    /\ Received("START")
    /\ LET f == Head(link).file
       IN  \/ /\ rx' = [active |-> TRUE, file |-> f, buf |-> [i \in 1..NumBlocks[f] |-> Empty],
                        count |-> 0]
              /\ UNCHANGED undisturbed
           \/ rx' = NoReception /\ undisturbed' = FALSE
    /\ UNCHANGED <<espVars, pause, delivered, deliveries, losses, orphan>>

\* handleFileBlock: a block that fits is stored and counted, whatever file it belongs to.
Fits(i) == rx.active /\ i <= NumBlocks[rx.file]
HandleFileBlock ==
    /\ Received("BLOCK")
    /\ LET b == Head(link)
       IN  rx' = IF Fits(b.index) THEN [rx EXCEPT !.buf[b.index] = b.file, !.count = @ + 1] ELSE rx
    /\ UNCHANGED <<espVars, pause, delivered, deliveries, losses, undisturbed, orphan>>

\* handleFileEnd: the file is delivered if as many blocks came as were sent.
\* Mutant: the counts are not compared.
CountAgrees_Always(count) == TRUE
CountAgrees(count) == count = rx.count
HandleFileEnd ==
    /\ Received("END")
    /\ IF rx.active /\ CountAgrees(Head(link).count)
       THEN delivered' = rx /\ deliveries' = deliveries + 1
       ELSE UNCHANGED <<delivered, deliveries>>
    /\ rx' = NoReception
    /\ UNCHANGED <<espVars, pause, losses, undisturbed, orphan>>

\* Any other command goes to the machine manager.
HandleCommand ==
    /\ Received("CMD")
    /\ UNCHANGED <<espVars, pause, piVars, losses, undisturbed, orphan>>

\* service: no block for 3 s. Mutant: the Pi waits as long as the ESP32.
RxTimedOut_LikeSender == pause = 2
RxTimedOut == pause >= 1
ReceiveTimeout ==
    /\ rx.active /\ RxTimedOut
    /\ rx' = NoReception
    /\ undisturbed' = FALSE
    /\ UNCHANGED <<espVars, pause, link, delivered, deliveries, losses, orphan>>

Pi == HandleFileStart \/ HandleFileBlock \/ HandleFileEnd \/ HandleCommand \/ ReceiveTimeout

Next ==
    \/ \E f \in Files, cmd \in BOOLEAN : StartUploadFromFileSystem(f, cmd)
    \/ ServiceChunk \/ ServiceTimeout
    \/ \E f \in Files : HttpBlock(f) \/ HttpAbort(f)
    \/ Lose \/ Pause \/ TooLong
    \/ Pi

Spec == Init /\ [][Next]_vars

\* Both main loops turn and time passes; nothing is assumed of HTTP clients.
FairSpec == Spec /\ WF_vars(ServiceChunk) /\ WF_vars(ServiceTimeout) /\ WF_vars(Pause)
                 /\ WF_vars(Pi)

-----------------------------------------------------------------------------
(* What the transfer promises *)

\* A file is delivered whole or not at all: the Pi never takes a part of a file, or
\* blocks of two, for the file that the start record announced. Two frames have to be lost
\* to break that, an end record and the next start record at that, or the start record
\* right after an upload that was given up: the counts may agree by chance then.
DeliveredWhole ==
    delivered.active /\ (losses = 0 \/ (losses = 1 /\ ~orphan)) =>
        \A i \in 1..NumBlocks[delivered.file] : delivered.buf[i] = delivered.file

\* Without a disturbance nothing is lost: once the line is empty, every upload for which
\* the ESP32 has sent the end record has been delivered, those after one that was given up too.
CompletedIsDelivered == undisturbed /\ link = <<>> => deliveries = completed

\* An upload ends, also when its client has gone, and so does a reception, also when its
\* end record is lost: neither blocks the next one for ever.
TransfersEnd == /\ UploadInProgress ~> ~UploadInProgress
                /\ rx.active ~> ~rx.active

=============================================================================
